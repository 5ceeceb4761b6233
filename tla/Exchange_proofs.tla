---------------------------- MODULE Exchange_proofs ----------------------------
(***************************************************************************)
(* Proofs about Exchange, for every call: any number of arguments and      *)
(* extras, with values of any type, from any entry to any provider.        *)
(*                                                                         *)
(* The argument follows a document through the layers.  For each, a        *)
(* predicate says what the next one may rely on - Fields of what the caller*)
(* writes, Understood of what the route reads, WellSent of what goes out - *)
(* and a lemma for each way to make such a document shows that it holds.   *)
(* The inductive invariant, Course, says which of them holds where.  What  *)
(* is selected of a sequence is counted by induction, with Counting.       *)
(*                                                                         *)
(* For the answer, Flow says what the provider has sent, what of it is on  *)
(* the wire and what the scanner has made of it, with a lemma for each     *)
(* step of a stream; and the table of the transports is gone through, a    *)
(* provider at a time.  Way joins the two.                                 *)
(*                                                                         *)
(* For the text of the answer, Kept says that the events there will be     *)
(* once the wire is scanned, with the messages still to be sent, are       *)
(* Faithful to it: lemmas about sequences that grow, about what is left to *)
(* be sent and what the events tell, and one for each step of a stream and *)
(* for the end at each provider.  Account joins it to Way.                 *)
(***************************************************************************)
EXTENDS Exchange, SequenceTheorems, WellFoundedInduction, TLAPS

------------------------------------------------------------------------------
(* Documents.                                                              *)

\* What an extended document is, as a fact about a name for it.
Merged(h, f, g) ==
  /\ DOMAIN h = DOMAIN f \cup DOMAIN g
  /\ \A x \in DOMAIN f : h[x] = f[x]
  /\ \A x \in DOMAIN g \ DOMAIN f : h[x] = g[x]

\* A document of the names S, all from v.
All(f, S, v) == DOMAIN f = S /\ \A x \in S : f[x] = v

\* That is what ++ makes.
LEMMA Merging == \A f, g : Merged(f ++ g, f, g)
BY DEF Merged, ++

\* What Members makes.
LEMMA MembersAre == \A S, v : All(Members(S, v), S, v)
BY DEF Members, All

------------------------------------------------------------------------------
(* The first layer.                                                        *)

\* The members that are the call's own in what it writes, whatever its extras.
Declared(c) ==
  CASE c.entry \in ByHand -> {"input"} \cup c.named \cup (IF c.stream = "unset" THEN {} ELSE {"stream"})
    [] c.entry = "sdk"  -> {"model", "input", "stream", "store"} \cup c.named
    [] OTHER -> {"model", "instructions", "input", "stream", "store"} \cup (c.named \ {"serviceTier"})
                  \cup (IF "serviceTier" \in c.named THEN {"service_tier"} ELSE {})

\* The extras come after these, and the arguments arrive as such.
Fields(c, b) ==
  /\ DOMAIN b = Declared(c) \cup c.extra
  /\ \A f \in Declared(c) : b[f] \notin {"extra", "odd"}
  /\ \A f \in c.extra \ Declared(c) : b[f] = (IF c.odd THEN "odd" ELSE "extra")
  /\ \A f \in c.named \cap {"model", "instructions", "reasoning", "outputContract"} : b[f] = "arg"
  /\ c.stream # "unset" => b["stream"] = c.stream

\* The members of a call of a tool.
LEMMA ToolFields ==
  ASSUME NEW c, IsCall(c), c.entry \notin {"sdk"} \cup ByHand
  PROVE  Fields(c, Body(c))
<1> DEFINE r == [model |-> ModelForProvider(c), instructions |-> ArgumentOr(c, "instructions", "blank"), input |-> "arg",
                 stream |-> Streams(c, "true"), store |-> Stores(c)]
           m == Members(c.named \cap {"intelligence", "reasoning", "outputContract"}, "arg")
           t == Members(IF "serviceTier" \in c.named THEN {"service_tier"} ELSE {}, "arg")
           e == Extras(c)
           d == r ++ m ++ t
           b == d ++ e
<1>1. Body(c) = b
  BY DEF Body, ToolBody
<1>2. /\ DOMAIN r = {"model", "instructions", "input", "stream", "store"}
      /\ \A f \in DOMAIN r : r[f] \notin {"extra", "odd"}
      /\ \A f \in c.named \cap {"model", "instructions"} : r[f] = "arg"
      /\ c.stream # "unset" => r["stream"] = c.stream
  BY DEF IsCall, ModelForProvider, ArgumentOr, Streams, Stores
<1>3. All(m, c.named \cap {"intelligence", "reasoning", "outputContract"}, "arg")
  BY MembersAre
<1>4. All(t, IF "serviceTier" \in c.named THEN {"service_tier"} ELSE {}, "arg")
  BY MembersAre
<1>5. All(e, c.extra, IF c.odd THEN "odd" ELSE "extra")
  BY MembersAre DEF Extras
<1> HIDE DEF r, m, t, e
<1>6. Merged(r ++ m, r, m) /\ Merged(d, r ++ m, t)
  BY Merging
<1> HIDE DEF d
<1>7. Merged(b, d, e)
  BY Merging
<1> HIDE DEF b
<1>8. c.named \subseteq Arguments
  BY DEF IsCall, Takes, Entries, ByHand, Arguments
<1>9. DOMAIN d = Declared(c)
  BY <1>2, <1>3, <1>4, <1>6, <1>8 DEF Declared, Arguments, Merged, All
<1>10. \A f \in Declared(c) : b[f] \notin {"extra", "odd"}
  BY <1>2, <1>3, <1>4, <1>6, <1>7, <1>9 DEF Merged, All
<1>11. DOMAIN b = Declared(c) \cup c.extra /\ \A f \in c.extra \ Declared(c) : b[f] = IF c.odd THEN "odd" ELSE "extra"
  BY <1>5, <1>7, <1>9 DEF Merged, All
<1>12. \A f \in c.named \cap {"model", "instructions", "reasoning", "outputContract"} : b[f] = "arg"
  BY <1>2, <1>3, <1>6, <1>7 DEF Merged, All
<1>13. c.stream # "unset" => b["stream"] = c.stream
  BY <1>2, <1>6, <1>7 DEF Merged
<1> QED BY <1>1, <1>10, <1>11, <1>12, <1>13 DEF Fields

\* Those of the SDK.
LEMMA SDKFields ==
  ASSUME NEW c, IsCall(c), c.entry = "sdk"
  PROVE  Fields(c, Body(c))
<1> DEFINE r == [model |-> ArgumentOr(c, "model", "blank"), input |-> "arg", stream |-> Streams(c, "false"), store |-> Stores(c)]
           m == Members(c.named \cap {"instructions", "intelligence", "reasoning", "outputContract"}, "arg")
           e == Extras(c)
           d == r ++ m
           b == d ++ e
<1>1. Body(c) = b
  BY DEF Body, MarshalJSON, ByHand
<1>2. /\ DOMAIN r = {"model", "input", "stream", "store"}
      /\ \A f \in DOMAIN r : r[f] \notin {"extra", "odd"}
      /\ "model" \in c.named => r["model"] = "arg"
      /\ c.stream # "unset" => r["stream"] = c.stream
  BY DEF IsCall, ArgumentOr, Streams, Stores
<1>3. All(m, c.named \cap {"instructions", "intelligence", "reasoning", "outputContract"}, "arg")
  BY MembersAre
<1>4. All(e, c.extra, IF c.odd THEN "odd" ELSE "extra")
  BY MembersAre DEF Extras
<1> HIDE DEF r, m, e
<1>5. Merged(d, r, m)
  BY Merging
<1> HIDE DEF d
<1>6. Merged(b, d, e)
  BY Merging
<1> HIDE DEF b
<1>7. c.named \subseteq Arguments \ {"serviceTier"}
  BY DEF IsCall, Takes, ByHand
<1>8. DOMAIN d = Declared(c)
  BY <1>2, <1>3, <1>5, <1>7 DEF Declared, Arguments, Merged, All
<1>9. \A f \in Declared(c) : b[f] \notin {"extra", "odd"}
  <2>1. \A f \in DOMAIN d : d[f] \notin {"extra", "odd"}
    BY <1>2, <1>3, <1>5 DEF Merged, All
  <2> QED BY <2>1, <1>6, <1>8 DEF Merged
<1>10. DOMAIN b = Declared(c) \cup c.extra /\ \A f \in c.extra \ Declared(c) : b[f] = IF c.odd THEN "odd" ELSE "extra"
  BY <1>4, <1>6, <1>8 DEF Merged, All
<1>11. \A f \in c.named \cap {"model", "instructions", "reasoning", "outputContract"} : b[f] = "arg"
  BY <1>2, <1>3, <1>5, <1>6 DEF Merged, All
<1>12. c.stream # "unset" => b["stream"] = c.stream
  BY <1>2, <1>5, <1>6 DEF Merged
<1> QED BY <1>1, <1>9, <1>10, <1>11, <1>12 DEF Fields

\* Those of a body written by hand.
LEMMA WrittenFields ==
  ASSUME NEW c, IsCall(c), c.entry \in ByHand
  PROVE  Fields(c, Body(c))
<1> DEFINE r == Members({"input"} \cup (c.named \ {"store"}), "arg")
           m == Members(IF c.stream = "unset" THEN {} ELSE {"stream"}, c.stream)
           t == Members(c.named \cap {"store"}, "true")
           e == Extras(c)
           d == r ++ m ++ t
           b == d ++ e
<1>1. Body(c) = b
  BY DEF Body, WrittenByHand, ByHand
<1>2. All(r, {"input"} \cup (c.named \ {"store"}), "arg")
  BY MembersAre
<1>3. All(m, IF c.stream = "unset" THEN {} ELSE {"stream"}, c.stream)
  BY MembersAre
<1>4. All(t, c.named \cap {"store"}, "true")
  BY MembersAre
<1>5. All(e, c.extra, IF c.odd THEN "odd" ELSE "extra")
  BY MembersAre DEF Extras
<1> HIDE DEF r, m, t, e
<1>6. Merged(r ++ m, r, m) /\ Merged(d, r ++ m, t)
  BY Merging
<1> HIDE DEF d
<1>7. Merged(b, d, e)
  BY Merging
<1> HIDE DEF b
<1>8. c.named \subseteq Arguments /\ c.stream \in {"unset", "true", "false"}
  BY DEF IsCall, Takes, ByHand
<1>9. DOMAIN d = Declared(c)
  BY <1>2, <1>3, <1>4, <1>6 DEF Declared, ByHand, Merged, All
<1>10. \A f \in Declared(c) : b[f] \notin {"extra", "odd"}
  <2>1. \A f \in DOMAIN (r ++ m) : (r ++ m)[f] \notin {"extra", "odd"}
    BY <1>2, <1>3, <1>6, <1>8 DEF Merged, All
  <2>2. \A f \in DOMAIN d : d[f] \notin {"extra", "odd"}
    BY <1>4, <1>6, <2>1 DEF Merged, All
  <2> QED BY <1>7, <1>9, <2>2 DEF Merged
<1>11. DOMAIN b = Declared(c) \cup c.extra /\ \A f \in c.extra \ Declared(c) : b[f] = IF c.odd THEN "odd" ELSE "extra"
  BY <1>5, <1>7, <1>9 DEF Merged, All
<1>12. \A f \in c.named \cap {"model", "instructions", "reasoning", "outputContract"} : b[f] = "arg"
  BY <1>2, <1>6, <1>7 DEF Merged, All
<1>13. c.stream # "unset" => b["stream"] = c.stream
  BY <1>2, <1>3, <1>6, <1>7, <1>8 DEF Arguments, Merged, All
<1> QED BY <1>1, <1>10, <1>11, <1>12, <1>13 DEF Fields

\* Each entry writes its own document; all have this in common.
LEMMA BodyFields ==
  ASSUME NEW c, IsCall(c)
  PROVE  Fields(c, Body(c))
BY ToolFields, SDKFields, WrittenFields
------------------------------------------------------------------------------
(* The second layer.                                                       *)

Tiers == {"serviceTier", "service_tier"}

\* Nothing is odd any more.  A member is the extras' only where the call has none of its own, which is
\* still true of the service tier when it has been given its name.
Understood(c, r) ==
  /\ {"model", "instructions", "stream", "store"} \subseteq DOMAIN r.known /\ DOMAIN r.known \subseteq Known
  /\ \A f \in DOMAIN r.known : r.known[f] # "odd"
  /\ \A f \in DOMAIN r.known : r.known[f] = "extra" => f \in c.extra \ Declared(c)
  /\ \A f \in c.named \cap {"model", "instructions", "reasoning", "outputContract"} : f \in DOMAIN r.known /\ r.known[f] = "arg"
  /\ c.stream # "unset" => r.known["stream"] = c.stream
  /\ (c.extra \ Known) \ Tiers \subseteq DOMAIN r.extra /\ DOMAIN r.extra \subseteq (c.extra \ Known) \cup Tiers
  /\ "serviceTier" \in c.named /\ ~ (c.entry = "llm_responses" /\ "serviceTier" \in c.extra) /\ "service_tier" \in DOMAIN r.extra
       => r.extra["service_tier"] \notin {"extra", "odd"}
  /\ c.entry = "llm_responses" /\ "serviceTier" \in c.named \cap c.extra
       => "service_tier" \in DOMAIN r.extra /\ r.extra["service_tier"] = "extra"
  /\ OnLLMRoute(c) /\ Tiers \cap (c.extra \cup c.named) # {}
       => "service_tier" \in DOMAIN r.extra /\ "serviceTier" \notin DOMAIN r.extra

\* Where the members are that the route treats in a way of their own.
LEMMA DeclaredNames ==
  ASSUME NEW c, IsCall(c)
  PROVE  /\ Declared(c) \ Known \subseteq Tiers
         /\ c.entry \in ByHand => c.extra \cap Declared(c) = {}
         /\ c.entry \notin {"llm_responses", "http"} => "serviceTier" \notin c.named
         /\ c.entry = "llm_responses" => "serviceTier" \notin Declared(c)
         /\ "serviceTier" \in c.named =>
              IF c.entry = "llm_responses" THEN "service_tier" \in Declared(c) ELSE "serviceTier" \in Declared(c)
         /\ "service_tier" \notin c.named
         /\ Tiers \cap Known = {}
BY DEF IsCall, Takes, Entries, ByHand, Arguments, Declared, Known, Tiers

\* Reading gives the service tier its name before the known members are taken out.
LEMMA Reading ==
  ASSUME NEW c, IsCall(c), ~ RouteRejects(c, Body(c))
  PROVE  Understood(c, Read(c, Body(c)))
<1> DEFINE b == Body(c)
           d == IF OnLLMRoute(c) THEN WithServiceTier(b) ELSE b
           r == Read(c, b)
           z == ZeroRequest
           k == Restrict(b, DOMAIN b \cap Known)
<1>1. Fields(c, b)
  BY BodyFields
<1> HIDE DEF b
<1>2. /\ "serviceTier" \in DOMAIN b /\ OnLLMRoute(c) =>
           /\ DOMAIN d = (DOMAIN b \ {"serviceTier"}) \cup {"service_tier"}
           /\ d["service_tier"] = b["serviceTier"]
           /\ \A f \in DOMAIN d \ Tiers : d[f] = b[f]
      /\ "serviceTier" \notin DOMAIN b \/ ~ OnLLMRoute(c) => d = b
  BY DEF WithServiceTier, Tiers
<1> HIDE DEF d
<1>3. DOMAIN d \cap Known = DOMAIN b \cap Known /\ \A f \in DOMAIN d \cap Known : d[f] = b[f]
  BY <1>2, DeclaredNames DEF Tiers
<1>4. Restrict(d, DOMAIN d \cap Known) = k
  BY <1>3 DEF Restrict
<1>5. r = [known |-> k ++ z, extra |-> Restrict(d, DOMAIN d \ Known)]
  BY <1>4 DEF Read, UnmarshalJSON, d
<1>6. DOMAIN k = DOMAIN b \cap Known /\ \A f \in DOMAIN k : k[f] = b[f]
  BY DEF Restrict
<1>7. DOMAIN z = {"model", "instructions", "stream", "store"} /\ \A f \in DOMAIN z : z[f] \in {"blank", "false"}
  BY DEF ZeroRequest
<1> HIDE DEF k, z
<1>8. Merged(r.known, k, z)
  BY <1>5, Merging
<1>9. DOMAIN r.extra = DOMAIN d \ Known /\ \A f \in DOMAIN r.extra : r.extra[f] = d[f]
  BY <1>5 DEF Restrict
<1> HIDE DEF r
<1>10. \A f \in DOMAIN b \cap Known : b[f] # "odd"
  BY DEF RouteRejects, b
<1>11. {"model", "instructions", "stream", "store"} \subseteq DOMAIN r.known /\ DOMAIN r.known \subseteq Known
  BY <1>6, <1>7, <1>8 DEF Merged, Known
<1>12. \A f \in DOMAIN r.known : r.known[f] # "odd" /\ (r.known[f] = "extra" => f \in c.extra \ Declared(c))
  <2> SUFFICES ASSUME NEW f \in DOMAIN r.known
               PROVE  r.known[f] # "odd" /\ (r.known[f] = "extra" => f \in c.extra \ Declared(c))
    OBVIOUS
  <2>1. CASE f \in DOMAIN k
    BY <2>1, <1>1, <1>6, <1>8, <1>10 DEF Merged, Fields
  <2>2. CASE f \notin DOMAIN k
    BY <2>2, <1>7, <1>8 DEF Merged
  <2> QED BY <2>1, <2>2
<1>13. \A f \in c.named \cap {"model", "instructions", "reasoning", "outputContract"} : f \in DOMAIN r.known /\ r.known[f] = "arg"
  <2>1. c.named \cap {"model", "instructions", "reasoning", "outputContract"} \subseteq DOMAIN b
    BY <1>1 DEF Fields, Declared, IsCall, Takes, Entries, ByHand
  <2> QED BY <2>1, <1>1, <1>6, <1>8 DEF Merged, Fields, Known
<1>14. c.stream # "unset" => r.known["stream"] = c.stream
  <2>1. c.stream # "unset" => "stream" \in DOMAIN b
    BY <1>1 DEF Fields, Declared
  <2> QED BY <2>1, <1>1, <1>6, <1>8 DEF Merged, Fields, Known
<1>15. (c.extra \ Known) \ Tiers \subseteq DOMAIN r.extra /\ DOMAIN r.extra \subseteq (c.extra \ Known) \cup Tiers
  BY <1>1, <1>2, <1>9, DeclaredNames DEF Fields, Tiers
<1>16. ASSUME "serviceTier" \in c.named, ~ (c.entry = "llm_responses" /\ "serviceTier" \in c.extra), "service_tier" \in DOMAIN r.extra
       PROVE  r.extra["service_tier"] \notin {"extra", "odd"}
  BY <1>16, <1>1, <1>2, <1>9, DeclaredNames DEF Fields, OnLLMRoute
<1>17. ASSUME OnLLMRoute(c), Tiers \cap (c.extra \cup c.named) # {}
       PROVE  "service_tier" \in DOMAIN r.extra /\ "serviceTier" \notin DOMAIN r.extra
  <2>1. Tiers \cap DOMAIN b # {}
    <3>1. PICK t \in Tiers : t \in c.extra \cup c.named
      BY <1>17
    <3>2. CASE t \in c.extra
      BY <3>2, <1>1 DEF Fields
    <3>3. CASE t \in c.named
      BY <3>3, <1>1, DeclaredNames DEF Fields, Tiers
    <3> QED BY <3>1, <3>2, <3>3
  <2> QED BY <2>1, <1>17, <1>2, <1>9, DeclaredNames DEF Tiers
<1>18. ASSUME c.entry = "llm_responses", "serviceTier" \in c.named \cap c.extra
       PROVE  "service_tier" \in DOMAIN r.extra /\ r.extra["service_tier"] = "extra"
  <2>1. OnLLMRoute(c) /\ "serviceTier" \notin Declared(c)
    BY <1>18, DeclaredNames DEF OnLLMRoute
  <2>2. "serviceTier" \in DOMAIN b /\ b["serviceTier"] \in {"extra", "odd"}
    BY <1>18, <2>1, <1>1 DEF Fields
  <2>3. b["serviceTier"] # "odd"
    BY <2>1, <2>2 DEF RouteRejects, b
  <2> QED BY <2>1, <2>2, <2>3, <1>2, <1>9, DeclaredNames DEF Tiers
<1> QED BY <1>11, <1>12, <1>13, <1>14, <1>15, <1>16, <1>17, <1>18 DEF Understood, r, b
------------------------------------------------------------------------------
(* The third layer.                                                        *)

\* The members an extra has got.
Taken(doc) == {f \in DOMAIN doc : doc[f] \in {"extra", "odd"}}

\* A document takes of its extension what it has no member for.
LEMMA TakenFromParts ==
  ASSUME NEW h, NEW f, NEW g, Merged(h, f, g)
  PROVE  Taken(h) \subseteq Taken(f) \cup (Taken(g) \ DOMAIN f)
BY DEF Taken, Merged

\* Members that a document has where the request does.
LEMMA OptionalFields ==
  ASSUME NEW r, NEW from, NEW to
  PROVE  /\ All(Passed(r, from, to), IF Has(r, from) THEN {to} ELSE {}, r.known[from])
         /\ All(Contract(r, to), IF Has(r, "outputContract") THEN {to} ELSE {}, "contract")
<1>1. All(Contract(r, to), IF Has(r, "outputContract") THEN {to} ELSE {}, "contract")
  BY MembersAre DEF Contract
<1>2. CASE Has(r, from)
  BY <1>1, <1>2, MembersAre DEF Passed
<1>3. CASE ~ Has(r, from)
  BY <1>1, <1>3 DEF Passed, All
<1> QED BY <1>2, <1>3

\* An extra for a known member that the call has not set itself.
Proper(c, f) == f \in (c.extra \ Declared(c)) \cap Known

CodexNames == {"model", "input", "tool_choice", "parallel_tool_calls", "include", "stream", "store", "tools"}

\* The members of codex's own document.
LEMMA CodexDocument ==
  ASSUME NEW c, NEW r, Understood(c, r)
  PROVE  LET doc == CodexFields(r)
         IN  /\ CodexNames \subseteq DOMAIN doc /\ DOMAIN doc \subseteq CodexNames \cup {"instructions", "reasoning", "text"}
             /\ doc["stream"] = "true" /\ doc["store"] = "false"
             /\ Taken(doc) \subseteq {"model", "instructions", "reasoning", "tools"}
             /\ \A f \in Taken(doc) : Proper(c, f)
             /\ "reasoning" \in c.named => "reasoning" \in DOMAIN doc
             /\ "outputContract" \in c.named => "text" \in DOMAIN doc /\ doc["text"] = "contract"
             /\ "instructions" \in DOMAIN doc <=> Has(r, "instructions")
<1> DEFINE k  == r.known
           a  == Members({"model"}, k.model)
           b  == Members({"input", "tool_choice", "parallel_tool_calls", "include"}, "default")
           s  == [stream |-> "true", store |-> "false"]
           i  == Passed(r, "instructions", "instructions")
           e  == Passed(r, "reasoning", "reasoning")
           p  == Passed(r, "tools", "tools")
           d  == [tools |-> "default"]
           t  == Contract(r, "text")
           m1 == a ++ b
           m2 == m1 ++ s
           m3 == m2 ++ i
           m4 == m3 ++ e
           pd == p ++ d
           m5 == m4 ++ pd
           doc == m5 ++ t
<1>1. CodexFields(r) = doc
  BY DEF CodexFields
<1>2. All(a, {"model"}, k.model) /\ All(b, {"input", "tool_choice", "parallel_tool_calls", "include"}, "default")
  BY MembersAre
<1>3. DOMAIN s = {"stream", "store"} /\ s["stream"] = "true" /\ s["store"] = "false"
  OBVIOUS
<1>4. /\ All(i, IF Has(r, "instructions") THEN {"instructions"} ELSE {}, k["instructions"])
      /\ All(e, IF Has(r, "reasoning") THEN {"reasoning"} ELSE {}, k["reasoning"])
      /\ All(p, IF Has(r, "tools") THEN {"tools"} ELSE {}, k["tools"])
      /\ All(t, IF Has(r, "outputContract") THEN {"text"} ELSE {}, "contract")
  BY OptionalFields
<1>5. All(d, {"tools"}, "default")
  BY DEF All
<1> HIDE DEF a, b, s, i, e, p, d, t
<1>6. Merged(m1, a, b) /\ Merged(m2, m1, s) /\ Merged(pd, p, d)
  BY Merging
<1> HIDE DEF m1, m2, pd
<1>7. Merged(m3, m2, i)
  BY Merging
<1> HIDE DEF m3
<1>8. Merged(m4, m3, e)
  BY Merging
<1> HIDE DEF m4
<1>9. Merged(m5, m4, pd)
  BY Merging
<1> HIDE DEF m5
<1>10. Merged(doc, m5, t)
  BY Merging
<1> HIDE DEF doc
<1>11. DOMAIN m2 = {"model", "input", "tool_choice", "parallel_tool_calls", "include", "stream", "store"}
  BY <1>2, <1>3, <1>6 DEF Merged, All
<1>12. DOMAIN pd = {"tools"}
  BY <1>4, <1>5, <1>6 DEF Merged, All
<1>13. /\ DOMAIN m5 = CodexNames \cup DOMAIN i \cup DOMAIN e
       /\ DOMAIN doc = CodexNames \cup DOMAIN i \cup DOMAIN e \cup DOMAIN t
  BY <1>7, <1>8, <1>9, <1>10, <1>11, <1>12 DEF Merged, CodexNames
<1>14. CodexNames \subseteq DOMAIN doc /\ DOMAIN doc \subseteq CodexNames \cup {"instructions", "reasoning", "text"}
  BY <1>4, <1>13 DEF All
<1>15. doc["stream"] = "true" /\ doc["store"] = "false"
  <2>1. m2["stream"] = "true" /\ m2["store"] = "false"
    BY <1>2, <1>3, <1>6 DEF Merged, All
  <2>2. m4["stream"] = "true" /\ m4["store"] = "false" /\ {"stream", "store"} \subseteq DOMAIN m4
    BY <2>1, <1>7, <1>8, <1>11 DEF Merged
  <2> QED BY <2>2, <1>9, <1>10 DEF Merged
<1>16. /\ Taken(a) \subseteq {"model"} /\ Taken(b) = {} /\ Taken(s) = {} /\ Taken(t) = {}
       /\ Taken(i) \subseteq {"instructions"} /\ Taken(e) \subseteq {"reasoning"} /\ Taken(pd) \subseteq {"tools"}
  BY <1>2, <1>3, <1>4, <1>12 DEF Taken, All
<1>17. \A f \in Taken(a) \cup Taken(i) \cup Taken(e) \cup Taken(pd) : Proper(c, f)
  <2>1. \A f \in DOMAIN k : k[f] \in {"extra", "odd"} => Proper(c, f)
    BY DEF Understood, Proper
  <2>2. \A f \in Taken(pd) : f = "tools" /\ Has(r, "tools") /\ k["tools"] \in {"extra", "odd"}
    BY <1>4, <1>5, <1>6, <1>12 DEF Taken, Merged, All
  <2> QED BY <1>2, <1>4, <2>1, <2>2 DEF Taken, All, Has, Understood
<1>18. Taken(doc) \subseteq Taken(a) \cup Taken(i) \cup Taken(e) \cup Taken(pd)
  BY <1>6, <1>7, <1>8, <1>9, <1>10, <1>16, TakenFromParts
<1>19. \A f \in c.named \cap {"reasoning", "outputContract"} : Has(r, f)
  BY DEF Understood, Has
<1>20. "reasoning" \in c.named => "reasoning" \in DOMAIN doc
  BY <1>4, <1>13, <1>19 DEF All
<1>21. "outputContract" \in c.named => "text" \in DOMAIN doc /\ doc["text"] = "contract"
  BY <1>4, <1>10, <1>13, <1>19 DEF All, Merged, CodexNames
<1>22. "instructions" \in DOMAIN doc <=> Has(r, "instructions")
  BY <1>4, <1>13 DEF All, CodexNames
<1> QED BY <1>1, <1>14, <1>15, <1>16, <1>17, <1>18, <1>20, <1>21, <1>22

\* What the transports make of it, as much of it as the properties speak of: an extra has nothing but
\* what Proper allows, members the transport does not know, and the budget and effort of the cloud.
WellSent(c, r, doc) ==
  /\ ConversationOf(c.llm) \notin Taken(doc)
  /\ "stream" \notin Taken(doc)
  /\ c.llm = "openai" => /\ doc["stream"] = "true" /\ doc["store"] = "false"
                         /\ {"store", "tool_choice", "parallel_tool_calls", "include"} \cap Taken(doc) = {}
  /\ c.llm # "openai" /\ c.stream # "unset" => doc["stream"] = c.stream
  /\ "outputContract" \in c.named => ContractOf(c.llm) \in DOMAIN doc /\ doc[ContractOf(c.llm)] = "contract"
  /\ \A f \in Taken(doc) : \/ Proper(c, f) \/ f \in Taken(r.extra)
                           \/ f = "max_tokens" \/ (f = "effort" /\ "reasoning" \notin c.named)
  /\ "reasoning" \in c.named => /\ c.llm = "openai" => "reasoning" \in DOMAIN doc
                                /\ c.llm = "anthropic" => "effort" \in DOMAIN doc
  /\ c.llm = "openai" =>
       /\ DOMAIN r.extra \ {"max_output_tokens"} \subseteq DOMAIN doc
       /\ DOMAIN doc \subseteq (DOMAIN r.extra \ {"max_output_tokens"}) \cup CodexNames \cup {"instructions", "reasoning", "text"}
       /\ "instructions" \in DOMAIN doc <=> Has(r, "instructions")
  /\ c.llm = "lmstudio" => DOMAIN r.extra \subseteq DOMAIN doc
  /\ c.llm \in {"openai", "lmstudio"} /\ "service_tier" \in DOMAIN r.extra => doc["service_tier"] = r.extra["service_tier"]
  /\ Family(c.llm) = "cloud" =>
       /\ DOMAIN doc \subseteq {"model", "messages", "stream", "max_tokens", "effort", ContractOf(c.llm)}
       /\ doc["max_tokens"] = "extra" <=> "max_output_tokens" \in DOMAIN r.extra

\* Codex: the extras come last.
LEMMA CodexIsWellSent ==
  ASSUME NEW c, IsCall(c), NEW r, Understood(c, r), NEW input, c.llm = "openai"
  PROVE  WellSent(c, r, CodexWireRequest(r, input).fields)
<1> DEFINE cf  == CodexFields(r)
           x   == Restrict(r.extra, DOMAIN r.extra \ CodexUnsupportedPortableField)
           doc == cf ++ x
<1>1. CodexWireRequest(r, input).fields = doc
  BY DEF CodexWireRequest, Outgoing
<1>2. /\ CodexNames \subseteq DOMAIN cf /\ DOMAIN cf \subseteq CodexNames \cup {"instructions", "reasoning", "text"}
      /\ cf["stream"] = "true" /\ cf["store"] = "false"
      /\ Taken(cf) \subseteq {"model", "instructions", "reasoning", "tools"}
      /\ \A f \in Taken(cf) : Proper(c, f)
      /\ "reasoning" \in c.named => "reasoning" \in DOMAIN cf
      /\ "outputContract" \in c.named => "text" \in DOMAIN cf /\ cf["text"] = "contract"
      /\ "instructions" \in DOMAIN cf <=> Has(r, "instructions")
  BY CodexDocument
<1>3. DOMAIN x = DOMAIN r.extra \ {"max_output_tokens"} /\ \A f \in DOMAIN x : x[f] = r.extra[f]
  BY DEF Restrict, CodexUnsupportedPortableField
<1> HIDE DEF cf, x
<1>4. Merged(doc, cf, x)
  BY Merging
<1> HIDE DEF doc
<1>5. Taken(doc) \subseteq Taken(cf) \cup (Taken(x) \ DOMAIN cf) /\ Taken(x) \subseteq Taken(r.extra)
  BY <1>3, <1>4, TakenFromParts DEF Taken
<1>6. DOMAIN doc = DOMAIN cf \cup DOMAIN x /\ \A f \in DOMAIN cf : doc[f] = cf[f]
  BY <1>4 DEF Merged
<1>7. {"input", "stream", "store", "tool_choice", "parallel_tool_calls", "include"} \cap Taken(doc) = {}
  BY <1>2, <1>5 DEF CodexNames
<1>8. ConversationOf(c.llm) = "input" /\ ContractOf(c.llm) = "text" /\ Family(c.llm) = "openai"
  BY DEF ConversationOf, ContractOf, Family
<1>9. \A f \in Taken(doc) : Proper(c, f) \/ f \in Taken(r.extra)
  BY <1>2, <1>5
<1>10. doc["stream"] = "true" /\ doc["store"] = "false"
  BY <1>2, <1>6 DEF CodexNames
<1>11. "outputContract" \in c.named => "text" \in DOMAIN doc /\ doc["text"] = "contract"
  BY <1>2, <1>6
<1>12. /\ DOMAIN r.extra \ {"max_output_tokens"} \subseteq DOMAIN doc
       /\ DOMAIN doc \subseteq (DOMAIN r.extra \ {"max_output_tokens"}) \cup CodexNames \cup {"instructions", "reasoning", "text"}
       /\ "reasoning" \in c.named => "reasoning" \in DOMAIN doc
  BY <1>2, <1>3, <1>6
<1>13. "instructions" \in DOMAIN doc <=> Has(r, "instructions")
  BY <1>2, <1>3, <1>6 DEF Understood, Known, Tiers
<1>14. "service_tier" \in DOMAIN r.extra => doc["service_tier"] = r.extra["service_tier"]
  BY <1>2, <1>3, <1>4 DEF Merged, CodexNames
<1> QED BY <1>1, <1>7, <1>8, <1>9, <1>10, <1>11, <1>12, <1>13, <1>14 DEF WellSent

\* Whether to stream is what the call says.
LEMMA StreamsAsAsked ==
  ASSUME NEW c, IsCall(c), NEW r, Understood(c, r)
  PROVE  Asked(r, "stream") \notin {"extra", "odd"} /\ (c.stream # "unset" => Asked(r, "stream") = c.stream)
BY DEF Asked, Understood, IsCall

\* LM Studio: so they do here.
LEMMA ChatIsWellSent ==
  ASSUME NEW c, IsCall(c), NEW r, Understood(c, r), NEW input, c.llm = "lmstudio"
  PROVE  WellSent(c, r, ChatCompletionBody(r, input).fields)
<1> DEFINE k   == r.known
           b   == [model |-> k.model, messages |-> "default", stream |-> Asked(r, "stream")]
           t   == Contract(r, "response_format")
           d   == b ++ t
           x   == r.extra
           doc == d ++ x
<1>1. ChatCompletionBody(r, input).fields = doc
  BY DEF ChatCompletionBody, Outgoing
<1>2. /\ DOMAIN b = {"model", "messages", "stream"} /\ b["model"] = k["model"]
      /\ b["messages"] = "default" /\ b["stream"] = Asked(r, "stream")
  OBVIOUS
<1>3. All(t, IF Has(r, "outputContract") THEN {"response_format"} ELSE {}, "contract")
  BY OptionalFields
<1> HIDE DEF b, t, x
<1>4. Merged(d, b, t)
  BY Merging
<1> HIDE DEF d
<1>5. Merged(doc, d, x)
  BY Merging
<1> HIDE DEF doc
<1>6. Taken(b) \subseteq {"model"} /\ Taken(t) = {} /\ \A f \in Taken(b) : Proper(c, f)
  BY <1>2, <1>3, StreamsAsAsked DEF Taken, All, Understood, Proper
<1>7. Taken(doc) \subseteq Taken(b) \cup (Taken(x) \ DOMAIN d)
  BY <1>4, <1>5, <1>6, TakenFromParts
<1>8. /\ DOMAIN doc = DOMAIN b \cup DOMAIN t \cup DOMAIN x
      /\ \A f \in DOMAIN b \cup DOMAIN t : f \in DOMAIN d
      /\ \A f \in DOMAIN b : doc[f] = b[f]
      /\ \A f \in DOMAIN t \ DOMAIN b : doc[f] = t[f]
  BY <1>4, <1>5 DEF Merged
<1>9. ConversationOf(c.llm) = "messages" /\ ContractOf(c.llm) = "response_format" /\ Family(c.llm) = "lmstudio"
  BY DEF ConversationOf, ContractOf, Family
<1>10. {"messages", "stream"} \cap Taken(doc) = {}
  BY <1>2, <1>6, <1>7, <1>8
<1>11. \A f \in Taken(doc) : Proper(c, f) \/ f \in Taken(r.extra)
  BY <1>6, <1>7 DEF x
<1>12. "outputContract" \in c.named => "response_format" \in DOMAIN doc /\ doc["response_format"] = "contract"
  BY <1>2, <1>3, <1>8 DEF All, Understood, Has
<1>13. c.stream # "unset" => doc["stream"] = c.stream
  BY <1>2, <1>8, StreamsAsAsked
<1>14. DOMAIN r.extra \subseteq DOMAIN doc
  BY <1>8 DEF x
<1>15. "service_tier" \in DOMAIN r.extra => doc["service_tier"] = r.extra["service_tier"]
  <2>1. "service_tier" \notin DOMAIN d
    BY <1>2, <1>3, <1>4 DEF Merged, All
  <2> QED BY <2>1, <1>5 DEF Merged, x
<1> QED BY <1>1, <1>9, <1>10, <1>11, <1>12, <1>13, <1>14, <1>15 DEF WellSent

\* What the documents of the cloud have in common.
LEMMA CloudDocument ==
  ASSUME NEW c, IsCall(c), NEW r, Understood(c, r)
  PROVE  LET doc == CloudFields(r)
         IN  /\ DOMAIN doc = {"model", "messages", "stream", "max_tokens"}
             /\ Taken(doc) \subseteq {"model", "max_tokens"}
             /\ "model" \in Taken(doc) => Proper(c, "model")
             /\ c.stream # "unset" => doc["stream"] = c.stream
             /\ doc["max_tokens"] = "extra" <=> "max_output_tokens" \in DOMAIN r.extra
<1> DEFINE b   == [model |-> r.known.model, messages |-> "default", stream |-> Asked(r, "stream")]
           m   == MaxTokens(r)
           doc == b ++ m
<1>1. CloudFields(r) = doc
  BY DEF CloudFields
<1>2. /\ DOMAIN b = {"model", "messages", "stream"} /\ b["model"] = r.known["model"]
      /\ b["messages"] = "default" /\ b["stream"] = Asked(r, "stream")
  OBVIOUS
<1>3. All(m, {"max_tokens"}, IF "max_output_tokens" \in DOMAIN r.extra THEN "extra" ELSE "default")
  BY MembersAre DEF MaxTokens
<1> HIDE DEF b, m
<1>4. Merged(doc, b, m)
  BY Merging
<1> HIDE DEF doc
<1>5. DOMAIN doc = {"model", "messages", "stream", "max_tokens"}
  BY <1>2, <1>3, <1>4 DEF Merged, All
<1>6. Taken(doc) \subseteq {"model", "max_tokens"} /\ ("model" \in Taken(doc) => Proper(c, "model"))
  BY <1>2, <1>3, <1>4, StreamsAsAsked DEF Taken, Merged, All, Understood, Proper
<1>7. c.stream # "unset" => doc["stream"] = c.stream
  BY <1>2, <1>4, StreamsAsAsked DEF Merged
<1>8. doc["max_tokens"] = "extra" <=> "max_output_tokens" \in DOMAIN r.extra
  BY <1>2, <1>3, <1>4 DEF Merged, All
<1> QED BY <1>1, <1>5, <1>6, <1>7, <1>8

\* Anthropic: of the extras only the budget is taken.
LEMMA AnthropicIsWellSent ==
  ASSUME NEW c, IsCall(c), NEW r, Understood(c, r), NEW input, c.llm = "anthropic"
  PROVE  WellSent(c, r, AnthropicBody(r, input).fields)
<1> DEFINE b   == CloudFields(r)
           e   == Passed(r, "reasoning", "effort")
           t   == Contract(r, "format")
           d   == b ++ e
           doc == d ++ t
<1>1. AnthropicBody(r, input).fields = doc
  BY DEF AnthropicBody, Outgoing
<1>2. /\ DOMAIN b = {"model", "messages", "stream", "max_tokens"}
      /\ Taken(b) \subseteq {"model", "max_tokens"}
      /\ "model" \in Taken(b) => Proper(c, "model")
      /\ c.stream # "unset" => b["stream"] = c.stream
      /\ b["max_tokens"] = "extra" <=> "max_output_tokens" \in DOMAIN r.extra
  BY CloudDocument
<1>3. /\ All(e, IF Has(r, "reasoning") THEN {"effort"} ELSE {}, r.known["reasoning"])
      /\ All(t, IF Has(r, "outputContract") THEN {"format"} ELSE {}, "contract")
  BY OptionalFields
<1> HIDE DEF b, e, t
<1>4. Merged(d, b, e)
  BY Merging
<1> HIDE DEF d
<1>5. Merged(doc, d, t)
  BY Merging
<1> HIDE DEF doc
<1>6. /\ DOMAIN doc = DOMAIN b \cup DOMAIN e \cup DOMAIN t
      /\ \A f \in DOMAIN b : doc[f] = b[f]
      /\ \A f \in DOMAIN t \ (DOMAIN b \cup DOMAIN e) : doc[f] = t[f]
  BY <1>4, <1>5 DEF Merged
<1>7. Taken(t) = {} /\ Taken(e) \subseteq {"effort"} /\ ("effort" \in Taken(e) => "reasoning" \notin c.named)
  BY <1>3 DEF Taken, All, Understood
<1>8. Taken(doc) \subseteq Taken(b) \cup Taken(e)
  BY <1>4, <1>5, <1>7, TakenFromParts
<1>9. ConversationOf(c.llm) = "messages" /\ ContractOf(c.llm) = "format" /\ Family(c.llm) = "cloud"
  BY DEF ConversationOf, ContractOf, Family
<1>10. {"messages", "stream"} \cap Taken(doc) = {}
  BY <1>2, <1>7, <1>8
<1>11. \A f \in Taken(doc) : \/ Proper(c, f) \/ f = "max_tokens"
                            \/ (f = "effort" /\ "reasoning" \notin c.named)
  <2> SUFFICES ASSUME NEW f \in Taken(doc)
               PROVE  Proper(c, f) \/ f = "max_tokens" \/ (f = "effort" /\ "reasoning" \notin c.named)
    OBVIOUS
  <2>1. CASE f \in Taken(b)
    BY <2>1, <1>2
  <2>2. CASE f \in Taken(e)
    BY <2>2, <1>7
  <2> QED BY <1>8, <2>1, <2>2
<1>12. \A f \in c.named \cap {"reasoning", "outputContract"} : Has(r, f)
  BY DEF Understood, Has
<1>13. "outputContract" \in c.named => "format" \in DOMAIN doc /\ doc["format"] = "contract"
  BY <1>2, <1>3, <1>6, <1>12 DEF All
<1>14. "reasoning" \in c.named => "effort" \in DOMAIN doc
  BY <1>3, <1>6, <1>12 DEF All
<1>15. DOMAIN doc \subseteq {"model", "messages", "stream", "max_tokens", "effort", "format"}
  BY <1>2, <1>3, <1>6 DEF All
<1>16. c.stream # "unset" => doc["stream"] = c.stream
  BY <1>2, <1>6
<1>17. doc["max_tokens"] = "extra" <=> "max_output_tokens" \in DOMAIN r.extra
  BY <1>2, <1>6
<1> QED BY <1>1, <1>9, <1>10, <1>11, <1>13, <1>14, <1>15, <1>16, <1>17 DEF WellSent

\* And OpenRouter.
LEMMA OpenRouterIsWellSent ==
  ASSUME NEW c, IsCall(c), NEW r, Understood(c, r), NEW input, c.llm = "openrouter"
  PROVE  WellSent(c, r, OpenRouterBody(r, input).fields)
<1> DEFINE b   == CloudFields(r)
           t   == Contract(r, "response_format")
           doc == b ++ t
<1>1. OpenRouterBody(r, input).fields = doc
  BY DEF OpenRouterBody, Outgoing
<1>2. /\ DOMAIN b = {"model", "messages", "stream", "max_tokens"}
      /\ Taken(b) \subseteq {"model", "max_tokens"}
      /\ "model" \in Taken(b) => Proper(c, "model")
      /\ c.stream # "unset" => b["stream"] = c.stream
      /\ b["max_tokens"] = "extra" <=> "max_output_tokens" \in DOMAIN r.extra
  BY CloudDocument
<1>3. All(t, IF Has(r, "outputContract") THEN {"response_format"} ELSE {}, "contract")
  BY OptionalFields
<1> HIDE DEF b, t
<1>4. Merged(doc, b, t)
  BY Merging
<1> HIDE DEF doc
<1>5. Taken(t) = {}
  BY <1>3 DEF Taken, All
<1>6. Taken(doc) \subseteq Taken(b)
  BY <1>4, <1>5, TakenFromParts
<1>7. ConversationOf(c.llm) = "messages" /\ ContractOf(c.llm) = "response_format" /\ Family(c.llm) = "cloud"
  BY DEF ConversationOf, ContractOf, Family
<1>8. {"messages", "stream"} \cap Taken(doc) = {}
  BY <1>2, <1>6
<1>9. \A f \in Taken(doc) : Proper(c, f) \/ f = "max_tokens"
  BY <1>2, <1>6
<1>10. "outputContract" \in c.named => "response_format" \in DOMAIN doc /\ doc["response_format"] = "contract"
  BY <1>2, <1>3, <1>4 DEF All, Merged, Understood, Has
<1>11. DOMAIN doc \subseteq {"model", "messages", "stream", "max_tokens", "effort", "response_format"}
  BY <1>2, <1>3, <1>4 DEF All, Merged
<1>12. c.stream # "unset" => doc["stream"] = c.stream
  BY <1>2, <1>4 DEF Merged
<1>13. doc["max_tokens"] = "extra" <=> "max_output_tokens" \in DOMAIN r.extra
  BY <1>2, <1>4 DEF Merged
<1> QED BY <1>1, <1>7, <1>8, <1>9, <1>10, <1>11, <1>12, <1>13 DEF WellSent

\* All four providers' documents are well sent.
LEMMA WireIsWellSent ==
  ASSUME NEW c, IsCall(c), NEW r, Understood(c, r), NEW input
  PROVE  WellSent(c, r, WireRequest(c.llm, r, input).fields)
<1>1. c.llm \in LLMs
  BY DEF IsCall, ServedBy, Entries, ByHand, LLMs
<1> QED BY <1>1, CodexIsWellSent, ChatIsWellSent, AnthropicIsWellSent, OpenRouterIsWellSent DEF WireRequest, LLMs

------------------------------------------------------------------------------
(* Selections.                                                             *)

\* A set that holds 0 and the successor of each of its numbers holds them all.
LEMMA Counting ==
  ASSUME NEW S, 0 \in S, \A n \in Nat : n \in S => n + 1 \in S
  PROVE  Nat \subseteq S
<1> SUFFICES ASSUME Nat \ S # {}
             PROVE  FALSE
  OBVIOUS
<1> DEFINE R == OpToRel(<, Nat)
<1>1. IsWellFoundedOn(R, Nat)
  BY NatLessThanWellFounded
<1> HIDE DEF R
<1>2. PICK x \in Nat \ S : \A y \in Nat \ S : ~ (<<y, x>> \in R)
  BY <1>1, WFMin
<1>3. x # 0 /\ x - 1 \in Nat /\ (x - 1) + 1 = x
  OBVIOUS
<1>4. <<x - 1, x>> \in R
  BY <1>3 DEF R, OpToRel
<1>5. x - 1 \in S
  BY <1>2, <1>3, <1>4
<1>6. x \in S
  BY <1>3, <1>5
<1> QED BY <1>6

\* What f has of s after each of the first k places.
Gathers(f, s, P, k) ==
  f = [n \in 0..k |-> IF n = 0 THEN << >> ELSE IF n \in P THEN Append(f[n - 1], s[n]) ELSE f[n - 1]]

\* What it has first, and next.
LEMMA GatheringStep ==
  ASSUME NEW f, NEW s, NEW P, NEW k \in Nat, Gathers(f, s, P, k)
  PROVE  /\ DOMAIN f = 0..k
         /\ f[0] = << >>
         /\ \A n \in 0..(k - 1) : f[n + 1] = IF n + 1 \in P THEN Append(f[n], s[n + 1]) ELSE f[n]
<1>1. DOMAIN f = 0..k /\ \A n \in 0..k : f[n] = IF n = 0 THEN << >> ELSE IF n \in P THEN Append(f[n - 1], s[n]) ELSE f[n - 1]
  BY DEF Gathers
<1>2. ASSUME NEW n \in 0..(k - 1)
      PROVE  f[n + 1] = IF n + 1 \in P THEN Append(f[n], s[n + 1]) ELSE f[n]
  <2>1. n + 1 \in 0..k /\ n + 1 # 0 /\ (n + 1) - 1 = n
    OBVIOUS
  <2> QED BY <1>1, <2>1
<1> QED BY <1>1, <1>2

\* Such an f there always is: by induction on the places.
LEMMA GatheringExists ==
  ASSUME NEW s, NEW P
  PROVE  \A k \in Nat : \E f : Gathers(f, s, P, k)
<1> DEFINE T == {k \in Nat : \E f : Gathers(f, s, P, k)}
<1>1. 0 \in T
  <2> DEFINE f == [n \in 0..0 |-> << >>]
  <2>1. Gathers(f, s, P, 0)
    BY DEF Gathers
  <2> QED BY <2>1
<1>2. ASSUME NEW k \in Nat, k \in T
      PROVE  k + 1 \in T
  <2>1. PICK f : Gathers(f, s, P, k)
    BY <1>2
  <2> DEFINE g == [n \in 0..(k + 1) |-> IF n <= k THEN f[n] ELSE IF n \in P THEN Append(f[k], s[n]) ELSE f[k]]
  <2>2. \A n \in 0..(k + 1) : g[n] = IF n = 0 THEN << >> ELSE IF n \in P THEN Append(g[n - 1], s[n]) ELSE g[n - 1]
    <3> SUFFICES ASSUME NEW n \in 0..(k + 1)
                 PROVE  g[n] = IF n = 0 THEN << >> ELSE IF n \in P THEN Append(g[n - 1], s[n]) ELSE g[n - 1]
      OBVIOUS
    <3>1. CASE n <= k
      <4>1. g[n] = f[n] /\ (n # 0 => g[n - 1] = f[n - 1])
        BY <3>1
      <4>2. \A m \in 0..k : f[m] = IF m = 0 THEN << >> ELSE IF m \in P THEN Append(f[m - 1], s[m]) ELSE f[m - 1]
        BY <2>1 DEF Gathers
      <4> QED BY <4>1, <4>2, <3>1
    <3>2. CASE n = k + 1
      BY <3>2
    <3> QED BY <3>1, <3>2
  <2>3. Gathers(g, s, P, k + 1)
    BY <2>2 DEF Gathers
  <2> HIDE DEF g
  <2> QED BY <2>3
<1> HIDE DEF T
<1>3. Nat \subseteq T
  <2>1. 0 \in T
    BY <1>1
  <2>2. \A k \in Nat : k \in T => k + 1 \in T
    BY <1>2
  <2> HIDE DEF T
  <2> QED BY <2>1, <2>2, Counting
<1> QED BY <1>3 DEF T

\* A selection is what it has at last.
LEMMA SelectedGathers ==
  ASSUME NEW s, NEW P, Len(s) \in Nat
  PROVE  \E f : Gathers(f, s, P, Len(s)) /\ Selected(s, P) = f[Len(s)]
<1> DEFINE f == CHOOSE g : Gathers(g, s, P, Len(s))
<1>1. Gathers(f, s, P, Len(s))
  BY GatheringExists
<1>2. Selected(s, P) = f[Len(s)]
  BY DEF Selected, Gathers
<1> HIDE DEF f
<1> QED BY <1>1, <1>2

\* A selection is made of the elements at the places.
LEMMA SelectionType ==
  ASSUME NEW s, NEW P, Len(s) \in Nat, NEW X, \A i \in P \cap (1..Len(s)) : s[i] \in X
  PROVE  Selected(s, P) \in Seq(X)
<1>1. PICK f : Gathers(f, s, P, Len(s)) /\ Selected(s, P) = f[Len(s)]
  BY SelectedGathers
<1> DEFINE Good(k) == k <= Len(s) => f[k] \in Seq(X)
           T == {k \in Nat : Good(k)}
<1>2. Good(0)
  <2>1. f[0] = << >> /\ << >> \in Seq(X)
    BY <1>1, GatheringStep
  <2> QED BY <2>1
<1>3. ASSUME NEW k \in Nat, Good(k)
      PROVE  Good(k + 1)
  <2> SUFFICES ASSUME k + 1 <= Len(s)
               PROVE  f[k + 1] \in Seq(X)
    OBVIOUS
  <2>1. k \in 0..(Len(s) - 1) /\ k + 1 \in 1..Len(s) /\ f[k] \in Seq(X)
    BY <1>3
  <2>2. f[k + 1] = IF k + 1 \in P THEN Append(f[k], s[k + 1]) ELSE f[k]
    BY <1>1, <2>1, GatheringStep
  <2> QED BY <2>1, <2>2
<1> HIDE DEF Good
<1>4. Nat \subseteq T
  <2>1. 0 \in T
    BY <1>2
  <2>2. \A k \in Nat : k \in T => k + 1 \in T
    BY <1>3
  <2> HIDE DEF T
  <2> QED BY <2>1, <2>2, Counting
<1>5. Good(Len(s))
  BY <1>4
<1> QED BY <1>1, <1>5 DEF Good

IsMapped(b, a, h) == b = [i \in DOMAIN a |-> h[a[i]]]

\* What is selected from a sequence whose elements at the places are those of another, under h.
LEMMA SelectionMaps ==
  ASSUME NEW s, NEW t, NEW P, NEW h, NEW X, Len(s) \in Nat, Len(t) = Len(s),
         \A i \in P \cap (1..Len(s)) : s[i] \in X /\ t[i] = h[s[i]]
  PROVE  /\ Selected(s, P) \in Seq(X)
         /\ IsMapped(Selected(t, P), Selected(s, P), h)
<1>1. PICK f : Gathers(f, s, P, Len(s)) /\ Selected(s, P) = f[Len(s)]
  BY SelectedGathers
<1>2. PICK g : Gathers(g, t, P, Len(t)) /\ Selected(t, P) = g[Len(t)]
  BY SelectedGathers
<1> DEFINE T == {k \in Nat : k <= Len(s) => f[k] \in Seq(X) /\ g[k] = [i \in 1..Len(f[k]) |-> h[f[k][i]]]}
<1>3. 0 \in T
  <2>1. f[0] = << >> /\ g[0] = << >>
    BY <1>1, <1>2, GatheringStep
  <2> QED BY <2>1
<1>4. ASSUME NEW k \in Nat, k \in T
      PROVE  k + 1 \in T
  <2> SUFFICES ASSUME k + 1 <= Len(s)
               PROVE  f[k + 1] \in Seq(X) /\ g[k + 1] = [i \in 1..Len(f[k + 1]) |-> h[f[k + 1][i]]]
    OBVIOUS
  <2>1. k \in 0..(Len(s) - 1) /\ k + 1 \in 1..Len(s) /\ f[k] \in Seq(X) /\ g[k] = [i \in 1..Len(f[k]) |-> h[f[k][i]]]
    BY <1>4
  <2>2. f[k + 1] = IF k + 1 \in P THEN Append(f[k], s[k + 1]) ELSE f[k]
    BY <1>1, <2>1, GatheringStep
  <2>3. g[k + 1] = IF k + 1 \in P THEN Append(g[k], t[k + 1]) ELSE g[k]
    BY <1>2, <2>1, GatheringStep
  <2>4. CASE k + 1 \notin P
    BY <2>1, <2>2, <2>3, <2>4
  <2>5. CASE k + 1 \in P
    <3>1. s[k + 1] \in X /\ t[k + 1] = h[s[k + 1]]
      BY <2>1, <2>5
    <3>2. f[k + 1] = Append(f[k], s[k + 1]) /\ g[k + 1] = Append(g[k], h[s[k + 1]])
      BY <2>2, <2>3, <2>5, <3>1
    <3> DEFINE a == f[k]
               e == s[k + 1]
    <3>3. Append([i \in 1..Len(a) |-> h[a[i]]], h[e]) = [i \in 1..Len(Append(a, e)) |-> h[Append(a, e)[i]]]
      <4>1. a \in Seq(X) /\ e \in X
        BY <2>1, <3>1
      <4> HIDE DEF a, e
      <4> QED BY <4>1
    <3> QED BY <2>1, <3>1, <3>2, <3>3
  <2> QED BY <2>4, <2>5
<1> HIDE DEF T
<1>5. Nat \subseteq T
  <2>1. 0 \in T
    BY <1>3
  <2>2. \A k \in Nat : k \in T => k + 1 \in T
    BY <1>4
  <2> HIDE DEF T
  <2> QED BY <2>1, <2>2, Counting
<1>6. f[Len(s)] \in Seq(X) /\ g[Len(s)] = [i \in 1..Len(f[Len(s)]) |-> h[f[Len(s)][i]]]
  BY <1>5 DEF T
<1> QED BY <1>1, <1>2, <1>6 DEF IsMapped

\* Nothing selected is nothing.
LEMMA SelectingNone ==
  ASSUME NEW s, NEW P, Len(s) \in Nat, P \cap (1..Len(s)) = {}
  PROVE  Selected(s, P) = << >>
<1>1. Selected(s, P) \in Seq({})
  BY SelectionType
<1> QED BY <1>1

\* Everything selected is what there was.
LEMMA SelectingAll ==
  ASSUME NEW X, NEW s \in Seq(X), NEW P, 1..Len(s) \subseteq P
  PROVE  Selected(s, P) = s
<1>1. Len(s) \in Nat /\ s = [i \in 1..Len(s) |-> s[i]]
  OBVIOUS
<1>2. PICK f : Gathers(f, s, P, Len(s)) /\ Selected(s, P) = f[Len(s)]
  BY <1>1, SelectedGathers
<1> DEFINE Good(k) == k <= Len(s) => f[k] = [i \in 1..k |-> s[i]]
           T == {k \in Nat : Good(k)}
<1>3. Good(0)
  <2>1. f[0] = << >>
    BY <1>1, <1>2, GatheringStep
  <2> QED BY <2>1
<1>4. ASSUME NEW k \in Nat, Good(k)
      PROVE  Good(k + 1)
  <2> SUFFICES ASSUME k + 1 <= Len(s)
               PROVE  f[k + 1] = [i \in 1..(k + 1) |-> s[i]]
    OBVIOUS
  <2> DEFINE a == [i \in 1..k |-> s[i]]
  <2>1. k \in 0..(Len(s) - 1) /\ k + 1 \in 1..Len(s) /\ f[k] = a
    BY <1>1, <1>4
  <2>2. f[k + 1] = Append(a, s[k + 1])
    <3>1. f[k + 1] = IF k + 1 \in P THEN Append(f[k], s[k + 1]) ELSE f[k]
      BY <1>1, <1>2, <2>1, GatheringStep
    <3>2. k + 1 \in P
      BY <2>1
    <3> QED BY <2>1, <3>1, <3>2
  <2>3. a \in Seq(X) /\ Len(a) = k /\ \A i \in 1..k : a[i] = s[i]
    BY <2>1
  <2>4. s[k + 1] \in X
    BY <2>1
  <2> HIDE DEF a
  <2>5. Append(a, s[k + 1]) = [i \in 1..(k + 1) |-> s[i]]
    BY <2>3, <2>4
  <2> QED BY <2>2, <2>5
<1> HIDE DEF Good
<1>5. Nat \subseteq T
  <2>1. 0 \in T
    BY <1>3
  <2>2. \A k \in Nat : k \in T => k + 1 \in T
    BY <1>4
  <2> HIDE DEF T
  <2> QED BY <2>1, <2>2, Counting
<1>6. Good(Len(s))
  BY <1>1, <1>5
<1> QED BY <1>1, <1>2, <1>6 DEF Good

\* After n elements s goes on with the m elements of b, at the places Q of b.
GoesOn(s, P, n, b, Q, m, X) ==
  \A i \in 1..m : s[n + i] = b[i] /\ b[i] \in X /\ (i \in Q <=> n + i \in P)

\* What it is to be joined of two, as a fact about a name for it: a lemma is cited with
\* names for its terms.
IsJoined(w, u, v) == w = u \o v

\* What is gathered beyond the first n places is what is gathered of the rest.
LEMMA GatheringBeyond ==
  ASSUME NEW X, NEW n \in Nat, NEW m \in Nat, NEW l \in Nat, NEW s, NEW b, NEW P, NEW Q, NEW f, NEW h,
         l = n + m, Gathers(f, s, P, l), Gathers(h, b, Q, m), f[n] \in Seq(X), GoesOn(s, P, n, b, Q, m, X)
  PROVE  IsJoined(f[l], f[n], h[m])
<1> DEFINE u == f[n]
<1>0. f[n] = u /\ u \in Seq(X)
  OBVIOUS
<1> HIDE DEF u
<1> DEFINE G == [v \in Seq(X) |-> u \o v]
           T == {k \in Nat : k <= m => h[k] \in Seq(X) /\ f[n + k] = G[h[k]]}
<1>1. G[<< >>] = u /\ << >> \in Seq(X)
  BY <1>0
<1>2. ASSUME NEW v \in Seq(X), NEW e \in X
      PROVE  Append(G[v], e) = G[Append(v, e)] /\ Append(v, e) \in Seq(X)
  <2>1. Append(v, e) \in Seq(X)
    OBVIOUS
  <2>2. G[v] = u \o v /\ G[Append(v, e)] = u \o Append(v, e)
    BY <2>1
  <2>3. Append(u \o v, e) = u \o Append(v, e)
    <3>1. Append(u \o v, e) = (u \o v) \o <<e>> /\ Append(v, e) = v \o <<e>>
      BY <1>0, AppendIsConcat, ConcatProperties
    <3> QED BY <1>0, <3>1, ConcatAssociative
  <2> HIDE DEF G
  <2> QED BY <2>1, <2>2, <2>3
<1>3. \A v \in Seq(X) : G[v] = u \o v
  OBVIOUS
<1> HIDE DEF G
<1>4. 0 \in T
  <2>1. h[0] = << >> /\ n + 0 = n
    BY GatheringStep
  <2> QED BY <1>0, <1>1, <2>1
<1>5. ASSUME NEW k \in Nat, k \in T
      PROVE  k + 1 \in T
  <2> SUFFICES ASSUME k + 1 <= m
               PROVE  h[k + 1] \in Seq(X) /\ f[n + (k + 1)] = G[h[k + 1]]
    OBVIOUS
  <2>1. k \in 0..(m - 1) /\ k + 1 \in 1..m /\ h[k] \in Seq(X) /\ f[n + k] = G[h[k]]
    BY <1>5
  <2> HIDE DEF T
  <2>2. h[k + 1] = IF k + 1 \in Q THEN Append(h[k], b[k + 1]) ELSE h[k]
    BY <2>1, GatheringStep
  <2>3. n + k \in 0..(l - 1) /\ (n + k) + 1 = n + (k + 1)
    BY <2>1
  <2>4. f[(n + k) + 1] = IF (n + k) + 1 \in P THEN Append(f[n + k], s[(n + k) + 1]) ELSE f[n + k]
    BY <2>3, GatheringStep
  <2>5. s[n + (k + 1)] = b[k + 1] /\ b[k + 1] \in X /\ (k + 1 \in Q <=> n + (k + 1) \in P)
    BY <2>1 DEF GoesOn
  <2>6. Append(G[h[k]], b[k + 1]) = G[Append(h[k], b[k + 1])] /\ Append(h[k], b[k + 1]) \in Seq(X)
    BY <1>2, <2>1, <2>5
  <2> QED BY <2>1, <2>2, <2>3, <2>4, <2>5, <2>6
<1>6. Nat \subseteq T
  <2>1. \A k \in Nat : k \in T => k + 1 \in T
    BY <1>5
  <2> HIDE DEF T
  <2> QED BY <1>4, <2>1, Counting
<1>7. h[m] \in Seq(X) /\ f[l] = G[h[m]]
  BY <1>6
<1> QED BY <1>0, <1>3, <1>7 DEF IsJoined

\* A selection from a sequence that goes on is a selection from each of its parts.
LEMMA SelectingOn ==
  ASSUME NEW X, NEW s, NEW a \in Seq(X), NEW b, NEW P, NEW Q, NEW n \in Nat, NEW m \in Nat, NEW l \in Nat,
         n = Len(a), m = Len(b), l = Len(s), l = n + m,
         \A i \in 1..n : s[i] = a[i] /\ a[i] \in X, GoesOn(s, P, n, b, Q, m, X)
  PROVE  IsJoined(Selected(s, P), Selected(a, P), Selected(b, Q))
<1>5. PICK f : Gathers(f, s, P, l) /\ Selected(s, P) = f[l]
  BY SelectedGathers
<1>6. PICK g : Gathers(g, a, P, n) /\ Selected(a, P) = g[n]
  BY SelectedGathers
<1>7. PICK h : Gathers(h, b, Q, m) /\ Selected(b, Q) = h[m]
  BY SelectedGathers
<1>8. f[n] = g[n]
  <2> DEFINE Good(k) == k <= n => f[k] = g[k]
             T == {k \in Nat : Good(k)}
  <2>1. Good(0)
    <3>1. f[0] = << >> /\ g[0] = << >>
      BY <1>5, <1>6, GatheringStep
    <3> QED BY <3>1
  <2>2. ASSUME NEW k \in Nat, Good(k)
        PROVE  Good(k + 1)
    <3> SUFFICES ASSUME k + 1 <= n
                 PROVE  f[k + 1] = g[k + 1]
      OBVIOUS
    <3>1. k \in 0..(n - 1) /\ k \in 0..(l - 1) /\ k + 1 \in 1..n /\ f[k] = g[k]
      BY <2>2
    <3>2. f[k + 1] = IF k + 1 \in P THEN Append(f[k], s[k + 1]) ELSE f[k]
      BY <1>5, <3>1, GatheringStep
    <3>3. g[k + 1] = IF k + 1 \in P THEN Append(g[k], a[k + 1]) ELSE g[k]
      BY <1>6, <3>1, GatheringStep
    <3> QED BY <3>1, <3>2, <3>3
  <2> HIDE DEF Good
  <2>3. Nat \subseteq T
    <3>1. 0 \in T
      BY <2>1
    <3>2. \A k \in Nat : k \in T => k + 1 \in T
      BY <2>2
    <3> HIDE DEF T
    <3> QED BY <3>1, <3>2, Counting
  <2>4. Good(n)
    BY <2>3
  <2> QED BY <2>4 DEF Good
<1>9. g[n] \in Seq(X)
  <2>1. Len(a) \in Nat /\ \A i \in P \cap (1..Len(a)) : a[i] \in X
    OBVIOUS
  <2> QED BY <1>6, <2>1, SelectionType
<1>10. IsJoined(f[l], g[n], h[m])
  <2>1. f[n] \in Seq(X)
    BY <1>8, <1>9
  <2>2. IsJoined(f[l], f[n], h[m])
    BY <1>5, <1>7, <2>1, GatheringBeyond
  <2> QED BY <2>2, <1>8
<1> QED BY <1>5, <1>6, <1>7, <1>10

\* And so it is from two that are joined.
LEMMA SelectingFromBoth ==
  ASSUME NEW X, NEW a \in Seq(X), NEW b \in Seq(X), NEW P, NEW Q, \A i \in 1..Len(b) : i \in Q <=> Len(a) + i \in P
  PROVE  IsJoined(Selected(a \o b, P), Selected(a, P), Selected(b, Q))
<1>1. Len(a) \in Nat /\ Len(b) \in Nat /\ Len(a \o b) = Len(a) + Len(b)
  OBVIOUS
<1>2. \A i \in 1..Len(a) : (a \o b)[i] = a[i] /\ a[i] \in X
  OBVIOUS
<1>3. GoesOn(a \o b, P, Len(a), b, Q, Len(b), X)
  BY DEF GoesOn
<1> DEFINE s == a \o b
<1>4. Len(s) \in Nat /\ Len(s) = Len(a) + Len(b) /\ (\A i \in 1..Len(a) : s[i] = a[i] /\ a[i] \in X)
      /\ GoesOn(s, P, Len(a), b, Q, Len(b), X)
  BY <1>1, <1>2, <1>3
<1> HIDE DEF s
<1>5. IsJoined(Selected(s, P), Selected(a, P), Selected(b, Q))
  BY <1>1, <1>4, SelectingOn
<1> QED BY <1>5 DEF s

------------------------------------------------------------------------------
(* Conversations.                                                          *)

Items == [role : Roles, text : Nat \cup {"instructions"}]

RoleOf(x) == IF x.role = "" THEN "user" ELSE x.role

\* Two sequences of messages with the same instructions and turns.
SameConversation(w, s) ==
  /\ TextsOf(w) = TextsOf(s)
  /\ TextsOf(Instructing(w)) = TextsOf(Instructing(s))
  /\ TextsOf(Turns(w)) = TextsOf(Turns(s))
  /\ RolesOf(Turns(w)) = RolesOf(Turns(s))

\* Renaming roles keeps the conversation if it keeps who instructs, and who speaks.
LEMMA Relabelling ==
  ASSUME NEW h, NEW s \in Seq(Items), NEW w, w = [i \in DOMAIN s |-> h[s[i]]],
         \A x \in Items : /\ h[x].text = x.text
                          /\ Instructs(h[x]) <=> Instructs(x)
                          /\ ~ Instructs(x) => RoleOf(h[x]) = RoleOf(x)
  PROVE  SameConversation(w, s)
<1> DEFINE I == {i \in DOMAIN s : Instructs(s[i])}
           N == {i \in DOMAIN s : ~ Instructs(s[i])}
           A == {x \in Items : Instructs(x)}
           B == {x \in Items : ~ Instructs(x)}
<1>1. /\ Len(s) \in Nat /\ DOMAIN s = 1..Len(s) /\ DOMAIN w = DOMAIN s /\ Len(w) = Len(s)
      /\ \A i \in DOMAIN s : s[i] \in Items /\ w[i] = h[s[i]]
  OBVIOUS
<1>2. TextsOf(w) = TextsOf(s)
  BY <1>1 DEF TextsOf
<1>3. Instructing(s) = Selected(s, I) /\ Instructing(w) = Selected(w, I)
  <2>1. {i \in DOMAIN w : Instructs(w[i])} = I
    BY <1>1
  <2> QED BY <2>1 DEF Instructing
<1>4. Turns(s) = Selected(s, N) /\ Turns(w) = Selected(w, N)
  <2>1. {i \in DOMAIN w : ~ Instructs(w[i])} = N
    BY <1>1
  <2> QED BY <2>1 DEF Turns
<1>5. /\ Selected(s, I) \in Seq(A)
      /\ IsMapped(Selected(w, I), Selected(s, I), h)
  <2>1. \A i \in I \cap (1..Len(s)) : s[i] \in A /\ w[i] = h[s[i]]
    BY <1>1
  <2> HIDE DEF I, A
  <2> QED BY <1>1, <2>1, SelectionMaps
<1>6. /\ Selected(s, N) \in Seq(B)
      /\ IsMapped(Selected(w, N), Selected(s, N), h)
  <2>1. \A i \in N \cap (1..Len(s)) : s[i] \in B /\ w[i] = h[s[i]]
    BY <1>1
  <2> HIDE DEF N, B
  <2> QED BY <1>1, <2>1, SelectionMaps
<1> HIDE DEF I, N
<1>7. TextsOf(Selected(w, I)) = TextsOf(Selected(s, I))
  <2> DEFINE a == Selected(s, I)
             b == Selected(w, I)
  <2>1. a \in Seq(A) /\ b = [i \in DOMAIN a |-> h[a[i]]]
    BY <1>5 DEF IsMapped
  <2> HIDE DEF a, b
  <2>2. DOMAIN b = DOMAIN a /\ \A i \in DOMAIN a : b[i].text = a[i].text
    BY <2>1
  <2>3. TextsOf(b) = TextsOf(a)
    BY <2>2 DEF TextsOf
  <2> QED BY <2>3 DEF a, b
<1>8. TextsOf(Selected(w, N)) = TextsOf(Selected(s, N)) /\ RolesOf(Selected(w, N)) = RolesOf(Selected(s, N))
  <2> DEFINE a == Selected(s, N)
             b == Selected(w, N)
  <2>1. a \in Seq(B) /\ b = [i \in DOMAIN a |-> h[a[i]]]
    BY <1>6 DEF IsMapped
  <2> HIDE DEF a, b
  <2>2. DOMAIN b = DOMAIN a /\ \A i \in DOMAIN a : b[i].text = a[i].text /\ RoleOf(b[i]) = RoleOf(a[i])
    BY <2>1
  <2>3. TextsOf(b) = TextsOf(a)
    BY <2>2 DEF TextsOf
  <2>4. RolesOf(b) = RolesOf(a)
    BY <2>2 DEF RolesOf, RoleOf
  <2> QED BY <2>3, <2>4 DEF a, b
<1> QED BY <1>2, <1>3, <1>4, <1>7, <1>8 DEF SameConversation

\* One layer's renaming of roles is such a renaming.
LEMMA RoleRenaming ==
  ASSUME NEW s \in Seq(Items), NEW from, NEW to \in Roles,
         \A x \in Items : x.role \in from => /\ Instructs(Item(to, x.text)) <=> Instructs(x)
                                             /\ ~ Instructs(x) => RoleOf(Item(to, x.text)) = RoleOf(x)
  PROVE  WithRole(s, from, to) \in Seq(Items) /\ SameConversation(WithRole(s, from, to), s)
<1> DEFINE h == [x \in Items |-> Item(IF x.role \in from THEN to ELSE x.role, x.text)]
           w == WithRole(s, from, to)
<1>1. \A x \in Items : h[x] = Item(IF x.role \in from THEN to ELSE x.role, x.text)
  OBVIOUS
<1>2. \A x \in Items : /\ h[x] \in Items /\ h[x].text = x.text
                       /\ x.role \notin from => h[x].role = x.role
                       /\ x.role \in from => h[x] = Item(to, x.text)
  BY DEF Item, Items
<1>3. \A x \in Items : /\ h[x].text = x.text
                       /\ Instructs(h[x]) <=> Instructs(x)
                       /\ ~ Instructs(x) => RoleOf(h[x]) = RoleOf(x)
  <2> HIDE DEF h
  <2> QED BY <1>2 DEF Instructs, RoleOf
<1>4. w = [i \in DOMAIN s |-> h[s[i]]]
  <2>1. \A i \in DOMAIN s : s[i] \in Items
    OBVIOUS
  <2> QED BY <1>1, <2>1 DEF WithRole
<1> HIDE DEF h
<1>5. w \in Seq(Items)
  BY <1>2, <1>4
<1> HIDE DEF w
<1>6. SameConversation(w, s)
  BY <1>3, <1>4, Relabelling
<1> QED BY <1>5, <1>6 DEF w

\* The renamings of the transports.
LEMMA RoleRenamings ==
  ASSUME NEW s \in Seq(Items)
  PROVE  /\ SameConversation(WithRole(s, {"system"}, "developer"), s)
         /\ WithRole(s, {"developer"}, "system") \in Seq(Items)
         /\ SameConversation(WithRole(s, {"developer"}, "system"), s)
         /\ WithRole(s, {""}, "user") \in Seq(Items)
         /\ SameConversation(WithRole(s, {""}, "user"), s)
<1>1. \A x \in Items : x.role = "system" => Instructs(Item("developer", x.text)) /\ Instructs(x)
  BY DEF Instructs, Item
<1>2. \A x \in Items : x.role = "developer" => Instructs(Item("system", x.text)) /\ Instructs(x)
  BY DEF Instructs, Item
<1>3. \A x \in Items : x.role = "" => /\ ~ Instructs(Item("user", x.text)) /\ ~ Instructs(x)
                                      /\ RoleOf(Item("user", x.text)) = RoleOf(x)
  BY DEF Instructs, Item, RoleOf
<1>4. {"system", "developer", "user"} \subseteq Roles
  BY DEF Roles
<1>5. SameConversation(WithRole(s, {"system"}, "developer"), s)
  BY <1>1, <1>4, RoleRenaming
<1>6. WithRole(s, {"developer"}, "system") \in Seq(Items) /\ SameConversation(WithRole(s, {"developer"}, "system"), s)
  BY <1>2, <1>4, RoleRenaming
<1>7. WithRole(s, {""}, "user") \in Seq(Items) /\ SameConversation(WithRole(s, {""}, "user"), s)
  BY <1>3, <1>4, RoleRenaming
<1> QED BY <1>5, <1>6, <1>7

\* What two joined sequences are.
LEMMA Joining ==
  ASSUME NEW T, NEW u \in Seq(T), NEW v \in Seq(T), NEW w, IsJoined(w, u, v)
  PROVE  /\ w \in Seq(T) /\ Len(w) = Len(u) + Len(v)
         /\ \A i \in 1..(Len(u) + Len(v)) : w[i] = IF i <= Len(u) THEN u[i] ELSE v[i - Len(u)]
BY DEF IsJoined

\* Their texts are joined as well.
LEMMA TextsOfJoined ==
  ASSUME NEW a \in Seq(Items), NEW b \in Seq(Items)
  PROVE  IsJoined(TextsOf(a \o b), TextsOf(a), TextsOf(b))
<1> DEFINE u == TextsOf(a)
           v == TextsOf(b)
           w == TextsOf(a \o b)
           T == Nat \cup {"instructions"}
<1>1. /\ \A i \in 1..Len(a) : (a \o b)[i] = a[i]
      /\ \A i \in 1..Len(b) : (a \o b)[Len(a) + i] = b[i]
      /\ DOMAIN (a \o b) = 1..(Len(a) + Len(b))
      /\ Len(a) \in Nat /\ DOMAIN a = 1..Len(a) /\ Len(b) \in Nat /\ DOMAIN b = 1..Len(b)
      /\ (\A i \in 1..Len(a) : a[i] \in Items) /\ (\A i \in 1..Len(b) : b[i] \in Items)
  OBVIOUS
<1>2. u \in Seq(T) /\ Len(u) = Len(a) /\ \A i \in 1..Len(a) : u[i] = a[i].text
  <2>1. u = [i \in 1..Len(a) |-> a[i].text]
    BY <1>1 DEF TextsOf
  <2>2. \A i \in 1..Len(a) : a[i].text \in T
    BY <1>1 DEF Items
  <2> HIDE DEF T, u
  <2> QED BY <1>1, <2>1, <2>2
<1>3. v \in Seq(T) /\ Len(v) = Len(b) /\ \A i \in 1..Len(b) : v[i] = b[i].text
  <2>1. v = [i \in 1..Len(b) |-> b[i].text]
    BY <1>1 DEF TextsOf
  <2>2. \A i \in 1..Len(b) : b[i].text \in T
    BY <1>1 DEF Items
  <2> HIDE DEF T, v
  <2> QED BY <1>1, <2>1, <2>2
<1>4. w = [i \in 1..(Len(a) + Len(b)) |-> (a \o b)[i].text]
  BY <1>1 DEF TextsOf
<1> HIDE DEF u, v, w, T
<1>5. u \o v = [i \in 1..(Len(a) + Len(b)) |-> IF i <= Len(a) THEN u[i] ELSE v[i - Len(a)]]
  <2> DEFINE c == u \o v
  <2>1. c \in Seq(T) /\ Len(c) = Len(a) + Len(b)
        /\ \A i \in 1..(Len(a) + Len(b)) : c[i] = IF i <= Len(a) THEN u[i] ELSE v[i - Len(a)]
    <3>1. /\ c \in Seq(T) /\ Len(c) = Len(u) + Len(v)
          /\ \A i \in 1..(Len(u) + Len(v)) : c[i] = IF i <= Len(u) THEN u[i] ELSE v[i - Len(u)]
      <4>1. IsJoined(c, u, v)
        BY DEF IsJoined
      <4> HIDE DEF c
      <4>2. u \in Seq(T) /\ v \in Seq(T)
        BY <1>2, <1>3
      <4>3. c \in Seq(T)
        BY <4>1, <4>2, Joining
      <4>4. Len(c) = Len(u) + Len(v)
        BY <4>1, <4>2, Joining
      <4>5. \A i \in 1..(Len(u) + Len(v)) : c[i] = IF i <= Len(u) THEN u[i] ELSE v[i - Len(u)]
        BY <4>1, <4>2, Joining
      <4> QED BY <4>3, <4>4, <4>5
    <3> HIDE DEF c
    <3> QED BY <1>2, <1>3, <3>1
  <2> HIDE DEF c
  <2>2. c = [i \in 1..Len(c) |-> c[i]]
    BY <2>1
  <2>3. c = [i \in 1..(Len(a) + Len(b)) |-> IF i <= Len(a) THEN u[i] ELSE v[i - Len(a)]]
    BY <2>1, <2>2
  <2> QED BY <2>3 DEF c
<1>6. ASSUME NEW i \in 1..(Len(a) + Len(b))
      PROVE  (a \o b)[i].text = IF i <= Len(a) THEN u[i] ELSE v[i - Len(a)]
  <2>1. CASE i <= Len(a)
    BY <1>1, <1>2, <2>1
  <2>2. CASE ~ (i <= Len(a))
    <3>1. i - Len(a) \in 1..Len(b) /\ Len(a) + (i - Len(a)) = i
      BY <1>1, <2>2
    <3> QED BY <1>1, <1>3, <2>2, <3>1
  <2> QED BY <2>1, <2>2
<1>7. w = u \o v
  BY <1>4, <1>5, <1>6
<1> QED BY <1>7 DEF u, v, w, IsJoined

\* w has the conversation of s, after the instructions of the request.
IsPrefixed(w, r, s) ==
  LET first == IF Has(r, "instructions") THEN <<"instructions">> ELSE << >>
  IN  /\ TextsOf(w) = first \o TextsOf(s)
      /\ TextsOf(Instructing(w)) = first \o TextsOf(Instructing(s))
      /\ TextsOf(Turns(w)) = TextsOf(Turns(s))
      /\ RolesOf(Turns(w)) = RolesOf(Turns(s))

\* Instructions that come first, as a message of their own.
LEMMA Prefixing ==
  ASSUME NEW r, NEW s \in Seq(Items), NEW v \in Seq(Items), SameConversation(v, s)
  PROVE  IsPrefixed(InstructionsFirst(r, v), r, s)
<1> DEFINE item  == Item("system", "instructions")
           p     == [i \in DOMAIN Instructions(r) |-> item]
           w     == p \o v
           first == IF Has(r, "instructions") THEN <<"instructions">> ELSE << >>
<1>1. Instructions(r) = first
  BY DEF Instructions
<1>2. item \in Items /\ Instructs(item) /\ item.text = "instructions"
  BY DEF Item, Items, Roles, Instructs
<1> HIDE DEF item
<1>3. p \in Seq(Items) /\ (\A i \in DOMAIN p : p[i] = item) /\ DOMAIN p = 1..Len(p) /\ Len(p) = Len(first)
  <2>1. CASE Has(r, "instructions")
    BY <1>1, <1>2, <2>1
  <2>2. CASE ~ Has(r, "instructions")
    BY <1>1, <1>2, <2>2
  <2> QED BY <2>1, <2>2
<1>4. TextsOf(p) = first
  BY <1>1, <1>2 DEF TextsOf
<1>5. InstructionsFirst(r, v) = w
  BY DEF InstructionsFirst, item
<1> HIDE DEF p, first
<1>6. /\ \A i \in 1..Len(p) : w[i] = p[i]
      /\ \A i \in 1..Len(v) : w[Len(p) + i] = v[i]
      /\ DOMAIN w = 1..(Len(p) + Len(v)) /\ Len(p) \in Nat /\ Len(v) \in Nat /\ DOMAIN v = 1..Len(v)
  <2>1. p \in Seq(Items) /\ v \in Seq(Items)
    BY <1>3
  <2> QED BY <2>1
<1> DEFINE I == {i \in DOMAIN w : Instructs(w[i])}
           J == {i \in DOMAIN v : Instructs(v[i])}
           M == {i \in DOMAIN w : ~ Instructs(w[i])}
           N == {i \in DOMAIN v : ~ Instructs(v[i])}
<1>7. /\ \A i \in 1..Len(v) : i \in J <=> Len(p) + i \in I
      /\ \A i \in 1..Len(v) : i \in N <=> Len(p) + i \in M
      /\ 1..Len(p) \subseteq I /\ M \cap (1..Len(p)) = {}
  <2> HIDE DEF w
  <2>1. \A i \in 1..Len(v) : Len(p) + i \in DOMAIN w
    BY <1>6
  <2>2. \A i \in 1..Len(p) : i \in DOMAIN w /\ Instructs(w[i])
    BY <1>2, <1>3, <1>6
  <2> QED BY <1>6, <2>1, <2>2
<1>8. Instructing(w) = Selected(w, I) /\ Instructing(v) = Selected(v, J)
      /\ Turns(w) = Selected(w, M) /\ Turns(v) = Selected(v, N)
  BY DEF Instructing, Turns
<1> HIDE DEF I, J, M, N
<1>9. IsJoined(Selected(w, I), Selected(p, I), Selected(v, J)) /\ IsJoined(Selected(w, M), Selected(p, M), Selected(v, N))
  BY <1>3, <1>7, SelectingFromBoth
<1>10. Selected(p, I) = p /\ Selected(p, M) = << >>
  BY <1>3, <1>6, <1>7, SelectingAll, SelectingNone
<1>11. Instructing(v) \in Seq(Items) /\ Turns(v) \in Seq(Items)
  <2>1. \A i \in 1..Len(v) : v[i] \in Items
    OBVIOUS
  <2> QED BY <1>6, <1>8, <2>1, SelectionType
<1>13. TextsOf(w) = first \o TextsOf(v)
  <2>1. TextsOf(p \o v) = TextsOf(p) \o TextsOf(v)
    BY <1>3, TextsOfJoined DEF IsJoined
  <2> QED BY <1>4, <2>1
<1>14. TextsOf(Instructing(w)) = first \o TextsOf(Instructing(v))
  <2>1. TextsOf(p \o Instructing(v)) = TextsOf(p) \o TextsOf(Instructing(v))
    BY <1>3, <1>11, TextsOfJoined DEF IsJoined
  <2>2. Instructing(w) = p \o Instructing(v)
    BY <1>8, <1>9, <1>10 DEF IsJoined
  <2> QED BY <1>4, <2>1, <2>2
<1>15. Turns(w) = Turns(v)
  <2>1. Turns(w) = << >> \o Turns(v)
    BY <1>8, <1>9, <1>10 DEF IsJoined
  <2> DEFINE b == Turns(v)
  <2>2. b \in Seq(Items)
    BY <1>11
  <2> HIDE DEF b
  <2>3. << >> \o b = b
    BY <2>2
  <2> QED BY <2>1, <2>3 DEF b
<1> QED BY <1>5, <1>13, <1>14, <1>15 DEF IsPrefixed, SameConversation, first

\* What a layer's transport lets through.
IsKept(llm, r, s, out) ==
  LET first == IF Has(r, "instructions") THEN <<"instructions">> ELSE << >>
  IN  /\ out.system \o TextsOf(Instructing(out.messages)) =
           (IF llm = "openai" THEN << >> ELSE first) \o TextsOf(Instructing(s))
      /\ TextsOf(Turns(out.messages)) = TextsOf(Turns(s))
      /\ RolesOf(Turns(out.messages)) = RolesOf(Turns(s))
      /\ llm \in {"lmstudio", "openrouter"} => TextsOf(out.messages) = first \o TextsOf(s)
      /\ llm = "openai" => TextsOf(out.messages) = TextsOf(s)

\* Nothing joined to a sequence changes it.
LEMMA NothingJoined == \A a \in Seq(Nat \cup {"instructions"}) : << >> \o a = a /\ a \o << >> = a
OBVIOUS

\* Texts are numbers, or the instructions.
LEMMA TextsType ==
  ASSUME NEW s \in Seq(Items)
  PROVE  TextsOf(s) \in Seq(Nat \cup {"instructions"})
<1>1. \A i \in 1..Len(s) : s[i].text \in Nat \cup {"instructions"}
  <2>1. \A i \in 1..Len(s) : s[i] \in Items
    OBVIOUS
  <2> QED BY <2>1 DEF Items
<1>2. Len(s) \in Nat /\ TextsOf(s) = [i \in 1..Len(s) |-> s[i].text]
  BY DEF TextsOf
<1> QED BY <1>1, <1>2

\* The messages that instruct are messages.
LEMMA InstructingType ==
  ASSUME NEW s \in Seq(Items)
  PROVE  Instructing(s) \in Seq(Items)
<1>1. Len(s) \in Nat /\ \A i \in 1..Len(s) : s[i] \in Items
  OBVIOUS
<1> QED BY <1>1, SelectionType DEF Instructing

\* LM Studio and OpenRouter put the instructions first and change roles alone.
LEMMA ChatKeeps ==
  ASSUME NEW llm \in {"lmstudio", "openrouter"}, NEW r, NEW s \in Seq(Items), NEW out,
         out.system = << >>, IsPrefixed(out.messages, r, s)
  PROVE  IsKept(llm, r, s, out)
<1> DEFINE a == TextsOf(Instructing(out.messages))
<1>1. a \in Seq(Nat \cup {"instructions"})
  <2> DEFINE first == IF Has(r, "instructions") THEN <<"instructions">> ELSE << >>
             b     == TextsOf(Instructing(s))
  <2>1. b \in Seq(Nat \cup {"instructions"})
    BY TextsType, InstructingType
  <2>2. a = first \o b
    BY DEF IsPrefixed
  <2>3. first \in Seq(Nat \cup {"instructions"})
    <3>1. << >> \in Seq(Nat \cup {"instructions"}) /\ <<"instructions">> \in Seq(Nat \cup {"instructions"})
      OBVIOUS
    <3> QED BY <3>1
  <2> HIDE DEF a, b, first
  <2>4. first \o b \in Seq(Nat \cup {"instructions"})
    BY <2>1, <2>3
  <2> QED BY <2>2, <2>4
<1>2. << >> \o a = a
  BY <1>1, NothingJoined
<1> QED BY <1>2 DEF IsKept, IsPrefixed

\* Codex sends the instructions apart.
LEMMA CodexKeeps ==
  ASSUME NEW r, NEW s \in Seq(Items)
  PROVE  IsKept("openai", r, s, CodexWireRequest(r, s))
<1> DEFINE w == WithRole(s, {"system"}, "developer")
           b == TextsOf(Instructing(s))
<1>1. CodexWireRequest(r, s).messages = w /\ CodexWireRequest(r, s).system = << >>
  BY DEF CodexWireRequest, Outgoing
<1>2. SameConversation(w, s)
  BY RoleRenamings
<1> HIDE DEF w
<1>3. b \in Seq(Nat \cup {"instructions"})
  BY TextsType, InstructingType
<1>4. << >> \o TextsOf(Instructing(w)) = << >> \o b
  BY <1>2 DEF SameConversation
<1> QED BY <1>1, <1>2, <1>4 DEF IsKept, SameConversation

\* Anthropic gets the instructions apart from the turns.
LEMMA AnthropicKeeps ==
  ASSUME NEW r, NEW s \in Seq(Items), \A i \in DOMAIN s : Instructs(s[i]) \/ Speaks(s[i])
  PROVE  IsKept("anthropic", r, s, AnthropicBody(r, s))
<1> DEFINE w     == Turns(s)
           T     == {x \in Items : ~ Instructs(x)}
           first == IF Has(r, "instructions") THEN <<"instructions">> ELSE << >>
           b     == TextsOf(Instructing(s))
<1>1. Speaking(s) = w
  <2>1. \A x : Speaks(x) => ~ Instructs(x)
    BY DEF Speaks, Instructs
  <2>2. {i \in DOMAIN s : Speaks(s[i])} = {i \in DOMAIN s : ~ Instructs(s[i])}
    BY <2>1
  <2> QED BY <2>2 DEF Speaking, Turns
<1>2. AnthropicBody(r, s).messages = w /\ AnthropicBody(r, s).system = first \o b
  BY <1>1 DEF AnthropicBody, Outgoing, Systems, Instructions
<1>3. w \in Seq(T)
  <2> DEFINE N == {i \in DOMAIN s : ~ Instructs(s[i])}
  <2>1. Len(s) \in Nat /\ \A i \in N \cap (1..Len(s)) : s[i] \in T
    OBVIOUS
  <2> HIDE DEF T, N
  <2>2. Selected(s, N) \in Seq(T)
    BY <2>1, SelectionType
  <2> QED BY <2>2 DEF Turns, N
<1> HIDE DEF w
<1>4. w \in Seq(Items) /\ Len(w) \in Nat /\ DOMAIN w = 1..Len(w) /\ \A i \in DOMAIN w : ~ Instructs(w[i])
  BY <1>3
<1>5. Instructing(w) = << >>
  <2>1. {i \in DOMAIN w : Instructs(w[i])} = {}
    BY <1>4
  <2>2. Selected(w, {}) = << >>
    BY <1>4, SelectingNone
  <2> QED BY <2>1, <2>2 DEF Instructing
<1>6. Turns(w) = w
  <2>1. {i \in DOMAIN w : ~ Instructs(w[i])} = 1..Len(w)
    BY <1>4
  <2>2. Selected(w, 1..Len(w)) = w
    BY <1>4, SelectingAll
  <2> QED BY <2>1, <2>2 DEF Turns
<1>7. b \in Seq(Nat \cup {"instructions"})
  BY TextsType, InstructingType
<1>8. (first \o b) \o TextsOf(Instructing(w)) = first \o b
  <2>1. TextsOf(<< >>) = << >>
    BY DEF TextsOf
  <2>2. first \in Seq(Nat \cup {"instructions"})
    <3>1. << >> \in Seq(Nat \cup {"instructions"}) /\ <<"instructions">> \in Seq(Nat \cup {"instructions"})
      OBVIOUS
    <3> QED BY <3>1
  <2> DEFINE c == first \o b
  <2> HIDE DEF b, first
  <2>3. c \in Seq(Nat \cup {"instructions"})
    BY <1>7, <2>2
  <2> HIDE DEF c
  <2>4. c \o << >> = c
    BY <2>3, NothingJoined
  <2> QED BY <1>5, <2>1, <2>4 DEF c
<1> QED BY <1>2, <1>6, <1>8 DEF IsKept, w

\* What a call says.
LEMMA InputType ==
  ASSUME NEW c, IsCall(c)
  PROVE  Input(c) \in Seq(Items)
<1>1. c.input \in Seq([role : Roles, text : Nat])
  BY DEF IsCall
<1>2. \A i \in 1..Len(c.input) : c.input[i] \in Items
  <2>1. \A i \in 1..Len(c.input) : c.input[i] \in [role : Roles, text : Nat]
    <3> DEFINE X == [role : Roles, text : Nat]
               d == c.input
    <3>1. d \in Seq(X)
      BY <1>1
    <3> HIDE DEF X, d
    <3>2. \A i \in 1..Len(d) : d[i] \in X
      BY <3>1
    <3> QED BY <3>2 DEF X, d
  <2>2. [role : Roles, text : Nat] \subseteq Items
    BY DEF Items
  <2> QED BY <2>1, <2>2
<1>3. \A x \in Items : x.role \in Roles /\ [x EXCEPT !.role = IF @ = "" THEN "user" ELSE @] \in Items
  BY DEF Items, Roles
<1> DEFINE in == Input(c)
<1>4. DOMAIN in = 1..Len(c.input) /\ \A i \in 1..Len(c.input) : in[i] \in Items
  <2>1. CASE c.entry \in {"sdk"} \cup ByHand
    BY <1>1, <1>2, <2>1 DEF Input
  <2>2. CASE c.entry \notin {"sdk"} \cup ByHand
    <3>1. in = [i \in 1..Len(c.input) |-> [c.input[i] EXCEPT !.role = IF @ = "" THEN "user" ELSE @]]
      BY <1>1, <2>2 DEF Input
    <3> HIDE DEF in
    <3> QED BY <1>2, <1>3, <3>1
  <2> QED BY <2>1, <2>2
<1>5. Len(c.input) \in Nat /\ in = [i \in 1..Len(c.input) |-> in[i]]
  <2>1. CASE c.entry \in {"sdk"} \cup ByHand
    BY <1>1, <2>1 DEF Input
  <2>2. CASE c.entry \notin {"sdk"} \cup ByHand
    <3>1. in = [i \in DOMAIN c.input |-> [c.input[i] EXCEPT !.role = IF @ = "" THEN "user" ELSE @]]
      BY <2>2 DEF Input
    <3>2. DOMAIN c.input = 1..Len(c.input) /\ Len(c.input) \in Nat
      BY <1>1
    <3> HIDE DEF in
    <3> QED BY <3>1, <3>2
  <2> QED BY <2>1, <2>2
<1> HIDE DEF in
<1>6. in \in Seq(Items)
  BY <1>4, <1>5
<1> QED BY <1>6 DEF in

\* Every provider gets the conversation of the call.
LEMMA WireKeeps ==
  ASSUME NEW c, IsCall(c), NEW r, ~ TransportRejects(c.llm, r, Input(c))
  PROVE  IsKept(c.llm, r, Input(c), WireRequest(c.llm, r, Input(c)))
<1> DEFINE s == Input(c)
<1>1. c.llm \in LLMs /\ s \in Seq(Items)
  BY InputType DEF IsCall, ServedBy, Entries, ByHand, LLMs
<1>2. c.llm = "anthropic" => \A i \in DOMAIN s : Instructs(s[i]) \/ Speaks(s[i])
  BY DEF TransportRejects, CloudRejects, Family
<1> HIDE DEF s
<1>3. CASE c.llm = "openai"
  BY <1>1, <1>3, CodexKeeps DEF WireRequest, s
<1>4. CASE c.llm = "anthropic"
  BY <1>1, <1>2, <1>4, AnthropicKeeps DEF WireRequest, s
<1>5. CASE c.llm = "lmstudio"
  <2> DEFINE v   == WithRole(s, {"developer"}, "system")
             w   == WithRole(v, {""}, "user")
             out == ChatCompletionBody(r, s)
  <2>1. v \in Seq(Items) /\ SameConversation(v, s)
    BY <1>1, RoleRenamings
  <2>2. out.messages = InstructionsFirst(r, w) /\ out.system = << >>
    BY DEF ChatCompletionBody, Outgoing
  <2> HIDE DEF v, out
  <2>3. w \in Seq(Items) /\ SameConversation(w, v)
    BY <2>1, RoleRenamings
  <2> HIDE DEF w
  <2>4. SameConversation(w, s)
    BY <2>1, <2>3 DEF SameConversation
  <2>5. IsPrefixed(InstructionsFirst(r, w), r, s)
    BY <1>1, <2>3, <2>4, Prefixing
  <2>6. IsKept(c.llm, r, s, out)
    BY <1>1, <1>5, <2>2, <2>5, ChatKeeps
  <2> QED BY <1>5, <2>6 DEF WireRequest, s, out
<1>6. CASE c.llm = "openrouter"
  <2> DEFINE v   == WithRole(s, {"developer"}, "system")
             out == OpenRouterBody(r, s)
  <2>1. v \in Seq(Items) /\ SameConversation(v, s)
    BY <1>1, RoleRenamings
  <2>2. out.messages = InstructionsFirst(r, v) /\ out.system = << >>
    BY DEF OpenRouterBody, Outgoing
  <2> HIDE DEF v, out
  <2>3. IsPrefixed(InstructionsFirst(r, v), r, s)
    BY <1>1, <2>1, Prefixing
  <2>4. IsKept(c.llm, r, s, out)
    BY <1>1, <1>6, <2>2, <2>3, ChatKeeps
  <2> QED BY <1>6, <2>4 DEF WireRequest, s, out
<1> QED BY <1>1, <1>3, <1>4, <1>5, <1>6 DEF LLMs

------------------------------------------------------------------------------
(* The steps.                                                              *)

\* The inductive invariant.
Course ==
  /\ stage \in {"call", "route", "transport", "sent"} => IsCall(call)
  /\ stage = "route" => body = Body(call)
  /\ stage \in {"transport", "sent"} => Understood(call, request)
  /\ stage = "sent" => /\ sent = WireRequest(call.llm, request, Input(call))
                       /\ ~ TransportRejects(call.llm, request, Input(call))

\* Every step keeps it.
LEMMA CourseIsInductive == Course /\ [Next]_vars => Course'
<1> SUFFICES ASSUME Course, [Next]_vars
             PROVE  Course'
  OBVIOUS
<1> USE DEF Course
<1>1. CASE CallRejected \/ RouteRejected \/ TransportRejected
  BY <1>1 DEF CallRejected, RouteRejected, TransportRejected, Reject
<1>2. CASE Call
  BY <1>2 DEF Call
<1>3. CASE Route
  BY <1>3, Reading DEF Route
<1>4. CASE SendRequest
  BY <1>4 DEF SendRequest
<1>5. CASE RequestArrives
  BY <1>5 DEF RequestArrives
<1>6. CASE ProviderAccepts
  BY <1>6 DEF ProviderAccepts
<1>7. CASE Answer \/ UNCHANGED vars
  BY <1>7 DEF Answer, vars, requestVars
<1> QED BY <1>1, <1>2, <1>3, <1>4, <1>5, <1>6, <1>7 DEF Next

(* Every request is, wherever it has got to, what the layers before it     *)
(* make of the call.                                                       *)
THEOREM Invariance == Spec => []Course
<1>1. Init => Course
  BY DEF Init, Asking, Course
<1> QED BY <1>1, CourseIsInductive, PTL DEF Spec

\* A member of the call's own is in none of the three places an extra may have got to.
LEMMA NobodyOverrides == Course => NothingIsOverridden
<1> SUFFICES ASSUME Course, stage = "sent"
             PROVE  NothingIsOverridden
  BY DEF NothingIsOverridden
<1> DEFINE fields == sent.fields
           own == {ConversationOf(call.llm), "stream"}
                    \cup (IF call.llm = "openai" THEN {"store", "tool_choice", "parallel_tool_calls", "include"} ELSE {})
                    \cup (call.named \ {"serviceTier", "outputContract", "intelligence", "store"})
                    \cup (IF call.entry \notin ByHand THEN {"model"} ELSE {})
                    \cup (IF "serviceTier" \in call.named /\ ~ TierIsContested THEN {"service_tier"} ELSE {})
                    \cup (IF HasContract THEN {ContractOf(call.llm)} ELSE {})
                    \cup (IF "reasoning" \in call.named THEN {"effort"} ELSE {})
<1>1. IsCall(call) /\ Understood(call, request) /\ WellSent(call, request, fields)
  BY WireIsWellSent DEF Course
<1> HIDE DEF fields
<1>2. call.named \ {"serviceTier", "outputContract", "intelligence", "store"} \subseteq {"model", "instructions", "reasoning"}
  BY <1>1 DEF IsCall, Takes, Arguments, Entries, ByHand
<1>3. (call.named \ {"serviceTier", "outputContract", "intelligence", "store"})
        \cup (IF call.entry \notin ByHand THEN {"model"} ELSE {}) \subseteq Declared(call)
  BY <1>1, <1>2 DEF Declared, ByHand
<1>4. DOMAIN request.extra \subseteq (ExtraNames \ Known) \cup Tiers
  BY <1>1 DEF Understood, IsCall
<1>5. ASSUME NEW f \in Taken(fields), f \in own
      PROVE  FALSE
  <2>1. /\ f \notin {ConversationOf(call.llm), "stream"}
        /\ call.llm = "openai" => f \notin {"store", "tool_choice", "parallel_tool_calls", "include"}
    BY <1>1 DEF WellSent
  <2>2. HasContract => f # ContractOf(call.llm)
    BY <1>1 DEF WellSent, HasContract, Taken
  <2>3. \/ f \in Declared(call) \cap {"model", "instructions", "reasoning"}
        \/ f = "service_tier" /\ "serviceTier" \in call.named /\ ~ TierIsContested
        \/ f = "effort" /\ "reasoning" \in call.named
    BY <1>2, <1>3, <1>5, <2>1, <2>2
  <2> HIDE DEF own
  <2>4. CASE Proper(call, f)
    BY <2>3, <2>4 DEF Proper, Known
  <2>5. CASE f \in Taken(request.extra)
    <3>1. f \in DOMAIN request.extra /\ request.extra[f] \in {"extra", "odd"}
      BY <2>5 DEF Taken
    <3>2. f \in (ExtraNames \ Known) \cup Tiers
      BY <3>1, <1>4
    <3>3. f = "service_tier" /\ "serviceTier" \in call.named /\ ~ TierIsContested
      BY <2>3, <3>2 DEF ExtraNames, Known, Tiers
    <3> QED BY <1>1, <3>1, <3>3 DEF Understood, TierIsContested
  <2>6. CASE f = "max_tokens" \/ (f = "effort" /\ "reasoning" \notin call.named)
    BY <2>3, <2>6
  <2> QED BY <2>4, <2>5, <2>6, <1>1 DEF WellSent
<1>6. Taken(fields) \cap own = {}
  BY <1>5
<1>7. /\ call.llm = "openai" => fields.stream = "true" /\ fields.store = "false"
      /\ call.llm # "openai" /\ call.stream # "unset" => fields.stream = call.stream
  BY <1>1 DEF WellSent
<1>8. TierIsContested /\ call.llm \in {"openai", "lmstudio"} => fields.service_tier = "extra"
  BY <1>1 DEF TierIsContested, Understood, WellSent
<1> QED BY <1>6, <1>7, <1>8 DEF NothingIsOverridden, Taken, fields

(* No extra of any call overrides what the caller named, the conversation, *)
(* the stream, or what the transport decides, in the document that leaves  *)
(* for the provider - but for a contested service tier, which every        *)
(* provider that gets extras is given as the extra has it.                 *)
THEOREM NothingOverrides == Spec => []NothingIsOverridden
BY Invariance, NobodyOverrides, PTL

\* A transport that passes the extras on passes all of them, under names that are not its own.
LEMMA OfferedArrives == Course => WhatIsOfferedArrives
<1> SUFFICES ASSUME Course, stage = "sent"
             PROVE  WhatIsOfferedArrives
  BY DEF WhatIsOfferedArrives
<1> DEFINE fields  == DOMAIN sent.fields
           unknown == call.extra \ (Known \cup {"serviceTier", "service_tier", ContractOf(call.llm)})
           tiers   == {"serviceTier", "service_tier"} \cap (call.extra \cup call.named)
           doc     == sent.fields
           x       == DOMAIN request.extra
<1>1. IsCall(call) /\ Understood(call, request) /\ WellSent(call, request, doc)
  BY WireIsWellSent DEF Course
<1>2. call.llm \in LLMs /\ call.extra \subseteq ExtraNames
  BY <1>1 DEF IsCall, ServedBy, Entries, ByHand, LLMs
<1>3. (call.extra \ Known) \ Tiers \subseteq x /\ x \subseteq (call.extra \ Known) \cup Tiers
  BY <1>1 DEF Understood
<1>4. unknown = ((call.extra \ Known) \ Tiers) \ {ContractOf(call.llm)}
  BY DEF Tiers
<1>5. HasContract => sent.fields[ContractOf(call.llm)] = "contract"
  BY <1>1 DEF WellSent, HasContract
<1>6. /\ "reasoning" \in call.named /\ call.llm = "openai" => "reasoning" \in fields
      /\ "reasoning" \in call.named /\ call.llm = "anthropic" => "effort" \in fields
  BY <1>1 DEF WellSent
<1>7. ASSUME OnLLMRoute(call), call.llm = "openai", tiers # {}
      PROVE  "service_tier" \in fields /\ "serviceTier" \notin fields
  <2>1. "service_tier" \in x /\ "serviceTier" \notin x
    BY <1>1, <1>7 DEF Understood, Tiers
  <2>2. x \ {"max_output_tokens"} \subseteq fields
    BY <1>1, <1>7 DEF WellSent
  <2>3. fields \subseteq x \cup CodexNames \cup {"instructions", "reasoning", "text"}
    BY <1>1, <1>7 DEF WellSent
  <2> QED BY <2>1, <2>2, <2>3 DEF CodexNames
<1>8. ASSUME call.llm = "openai"
      PROVE  unknown \cap fields = unknown \ {"max_output_tokens"}
  <2>1. x \ {"max_output_tokens"} \subseteq fields
    BY <1>1, <1>8 DEF WellSent
  <2>2. fields \subseteq (x \ {"max_output_tokens"}) \cup CodexNames \cup {"instructions", "reasoning", "text"}
    BY <1>1, <1>8 DEF WellSent
  <2>3. "max_output_tokens" \notin fields
    BY <2>2 DEF CodexNames
  <2> HIDE DEF unknown, fields, x
  <2> QED BY <1>3, <1>4, <2>1, <2>3
<1>9. ASSUME call.llm = "lmstudio"
      PROVE  unknown \cap fields = unknown
  <2>1. x \subseteq fields
    BY <1>1, <1>9 DEF WellSent
  <2> HIDE DEF unknown, fields, x
  <2> QED BY <1>3, <1>4, <2>1
<1>10. ASSUME Family(call.llm) = "cloud"
       PROVE  /\ unknown \cap fields \subseteq {"messages"}
              /\ sent.fields.max_tokens = "extra" <=> "max_output_tokens" \in call.extra
  <2>1. /\ fields \subseteq {"model", "messages", "stream", "max_tokens", "effort", ContractOf(call.llm)}
        /\ doc["max_tokens"] = "extra" <=> "max_output_tokens" \in x
    BY <1>1, <1>10 DEF WellSent
  <2>2. unknown \cap {"model", "stream", "max_tokens", "effort", ContractOf(call.llm)} = {}
    BY <1>2, <1>4 DEF ExtraNames, Known
  <2>3. "max_output_tokens" \in x <=> "max_output_tokens" \in call.extra
    BY <1>3 DEF Known, Tiers
  <2> HIDE DEF unknown, fields, x
  <2>4. unknown \cap fields \subseteq {"messages"}
    BY <2>1, <2>2
  <2> QED BY <2>1, <2>3, <2>4
<1>11. /\ call.llm \in {"openai", "lmstudio"} =>
            unknown \cap fields = unknown \ (IF call.llm = "openai" THEN {"max_output_tokens"} ELSE {})
       /\ OnLLMRoute(call) /\ call.llm = "openai" /\ tiers # {} => "service_tier" \in fields /\ "serviceTier" \notin fields
       /\ Family(call.llm) = "cloud" =>
            /\ unknown \cap fields \subseteq {"messages"}
            /\ sent.fields.max_tokens = "extra" <=> "max_output_tokens" \in call.extra
  <2> HIDE DEF unknown, fields, tiers
  <2> QED BY <1>7, <1>8, <1>9, <1>10
<1> QED BY <1>5, <1>6, <1>11 DEF WhatIsOfferedArrives

(* What a provider is said to take - an effort, a tier, a contract - gets  *)
(* to it, and so do the extras it may know, for any call.                  *)
THEOREM EverythingOfferedArrives == Spec => []WhatIsOfferedArrives
BY Invariance, OfferedArrives, PTL

\* The wire keeps the conversation, and only codex has the instructions in a member of the document.
LEMMA ConversationKept == Course => ConversationIsKept
<1> SUFFICES ASSUME Course, stage = "sent"
             PROVE  ConversationIsKept
  BY DEF ConversationIsKept
<1>1. IsKept(call.llm, request, Input(call), sent)
  BY WireKeeps DEF Course
<1>2. WellSent(call, request, sent.fields)
  BY WireIsWellSent DEF Course
<1>3. call.llm = "openai" => ("instructions" \in DOMAIN sent.fields <=> Has(request, "instructions"))
  BY <1>2 DEF WellSent
<1>4. <<"instructions">> # << >>
  OBVIOUS
<1> QED BY <1>1, <1>3, <1>4 DEF IsKept, ConversationIsKept

(* No message of any conversation is lost, repeated or moved within its    *)
(* kind on its way to any provider, however many there are.                *)
THEOREM ConversationsAreKept == Spec => []ConversationIsKept
BY Invariance, ConversationKept, PTL

------------------------------------------------------------------------------
(* Texts, joined.                                                          *)

\* What a loop has that joins the first k of the sequences s.
Flattens(f, s, k) == f = [i \in 1..k |-> IF i = 1 THEN s[i] ELSE f[i - 1] \o s[i]]

\* Such a loop there always is: by induction on its length.
LEMMA FlatteningExists ==
  ASSUME NEW s
  PROVE  \A k \in Nat : \E f : Flattens(f, s, k)
<1> DEFINE T == {k \in Nat : \E f : Flattens(f, s, k)}
<1>1. 0 \in T
  <2> DEFINE f == [i \in 1..0 |-> << >>]
  <2>1. Flattens(f, s, 0)
    BY DEF Flattens
  <2> QED BY <2>1
<1>2. ASSUME NEW k \in Nat, k \in T
      PROVE  k + 1 \in T
  <2>1. PICK f : Flattens(f, s, k)
    BY <1>2
  <2> DEFINE e == IF k = 0 THEN s[k + 1] ELSE f[k] \o s[k + 1]
             g == [i \in 1..(k + 1) |-> IF i <= k THEN f[i] ELSE e]
  <2>2. \A i \in 1..(k + 1) : g[i] = IF i = 1 THEN s[i] ELSE g[i - 1] \o s[i]
    <3> SUFFICES ASSUME NEW i \in 1..(k + 1)
                 PROVE  g[i] = IF i = 1 THEN s[i] ELSE g[i - 1] \o s[i]
      OBVIOUS
    <3>1. CASE i <= k
      <4>1. g[i] = f[i] /\ (i # 1 => g[i - 1] = f[i - 1])
        BY <3>1
      <4>2. i \in 1..k
        BY <3>1
      <4>3. f[i] = IF i = 1 THEN s[i] ELSE f[i - 1] \o s[i]
        BY <2>1, <4>2 DEF Flattens
      <4> HIDE DEF g
      <4> QED BY <4>1, <4>3
    <3>2. CASE i = k + 1 /\ i # 1
      <4>1. e = f[k] \o s[i]
        <5>1. k # 0 /\ k + 1 = i
          BY <3>2
        <5>2. e = f[k] \o s[k + 1]
          BY <5>1, Zenon
        <5> HIDE DEF e
        <5> QED BY <5>1, <5>2
      <4> HIDE DEF e
      <4>2. g[i] = e /\ g[i - 1] = f[k]
        BY <3>2
      <4> HIDE DEF g
      <4> QED BY <3>2, <4>1, <4>2
    <3>3. CASE i = k + 1 /\ i = 1
      <4>1. e = s[i]
        BY <3>3
      <4> HIDE DEF e
      <4>2. g[i] = e
        BY <3>3
      <4> QED BY <3>3, <4>1, <4>2
    <3> QED BY <3>1, <3>2, <3>3
  <2>3. Flattens(g, s, k + 1)
    <3>1. g = [i \in 1..(k + 1) |-> g[i]]
      OBVIOUS
    <3> HIDE DEF g
    <3> QED BY <2>2, <3>1 DEF Flattens
  <2> HIDE DEF g
  <2> QED BY <2>3
<1>3. Nat \subseteq T
  <2>1. \A k \in Nat : k \in T => k + 1 \in T
    BY <1>2
  <2> HIDE DEF T
  <2> QED BY <1>1, <2>1, Counting
<1> QED BY <1>3

\* What the loop has first, and next.
LEMMA FlatteningStep ==
  ASSUME NEW f, NEW s, NEW k \in Nat, Flattens(f, s, k)
  PROVE  /\ k >= 1 => f[1] = s[1]
         /\ \A i \in 1..(k - 1) : IsJoined(f[i + 1], f[i], s[i + 1])
<1>1. \A i \in 1..k : f[i] = IF i = 1 THEN s[i] ELSE f[i - 1] \o s[i]
  BY DEF Flattens
<1>2. k >= 1 => f[1] = s[1]
  BY <1>1
<1>3. ASSUME NEW i \in 1..(k - 1)
      PROVE  IsJoined(f[i + 1], f[i], s[i + 1])
  <2>1. i + 1 \in 1..k /\ i + 1 # 1 /\ (i + 1) - 1 = i
    OBVIOUS
  <2> QED BY <1>1, <2>1 DEF IsJoined
<1> QED BY <1>2, <1>3

\* FlattenSeq is that loop.
LEMMA FlatIsFlattened ==
  ASSUME NEW s, Len(s) \in Nat, Len(s) # 0
  PROVE  \E f : Flattens(f, s, Len(s)) /\ Flat(s) = f[Len(s)]
<1> DEFINE f == CHOOSE g : Flattens(g, s, Len(s))
<1>1. Flattens(f, s, Len(s))
  BY FlatteningExists
<1>2. Flat(s) = f[Len(s)]
  BY DEF Flat, FlattenSeq, Flattens
<1> HIDE DEF f
<1> QED BY <1>1, <1>2

\* Sequences over X join to one over X.
LEMMA FlatType ==
  ASSUME NEW X, NEW s \in Seq(Seq(X))
  PROVE  Flat(s) \in Seq(X)
<1>1. Len(s) \in Nat /\ \A i \in 1..Len(s) : s[i] \in Seq(X)
  OBVIOUS
<1>2. CASE Len(s) = 0
  <2>1. s = << >>
    BY <1>2
  <2>2. Flat(s) = s
    BY <1>2 DEF Flat, FlattenSeq
  <2>3. << >> \in Seq(X)
    OBVIOUS
  <2> QED BY <2>1, <2>2, <2>3
<1>3. CASE Len(s) # 0
  <2>1. PICK f : Flattens(f, s, Len(s)) /\ Flat(s) = f[Len(s)]
    BY <1>1, <1>3, FlatIsFlattened
  <2> DEFINE T == {k \in Nat : k + 1 <= Len(s) => f[k + 1] \in Seq(X)}
  <2>2. 0 \in T
    BY <1>1, <1>3, <2>1, FlatteningStep
  <2>3. ASSUME NEW k \in Nat, k \in T
        PROVE  k + 1 \in T
    <3> SUFFICES ASSUME (k + 1) + 1 <= Len(s)
                 PROVE  f[(k + 1) + 1] \in Seq(X)
      OBVIOUS
    <3>1. k + 1 \in 1..(Len(s) - 1) /\ (k + 1) + 1 \in 1..Len(s) /\ f[k + 1] \in Seq(X)
      BY <1>1, <2>3
    <3>2. IsJoined(f[(k + 1) + 1], f[k + 1], s[(k + 1) + 1])
      BY <1>1, <2>1, <3>1, FlatteningStep
    <3>3. s[(k + 1) + 1] \in Seq(X)
      BY <1>1, <3>1
    <3> QED BY <3>1, <3>2, <3>3, Joining
  <2>4. Nat \subseteq T
    <3>1. \A k \in Nat : k \in T => k + 1 \in T
      BY <2>3
    <3> HIDE DEF T
    <3> QED BY <2>2, <3>1, Counting
  <2>5. PICK l \in Nat : l + 1 = Len(s)
    <3>1. Len(s) - 1 \in Nat /\ (Len(s) - 1) + 1 = Len(s)
      BY <1>1, <1>3
    <3> QED BY <3>1
  <2>6. l \in T
    BY <2>4
  <2>7. f[l + 1] \in Seq(X)
    BY <1>1, <2>5, <2>6
  <2> QED BY <2>1, <2>5, <2>7
<1> QED BY <1>2, <1>3

------------------------------------------------------------------------------
(* What is told of an answer.                                              *)

TextMessages  == [type : {"delta", "part", "completed", "chat"}, named : BOOLEAN, parts : Seq(Seq(Pieces))]
OtherMessages == [type : {"reasoning", "error"}, named : BOOLEAN, parts : Seq(Seq({Thought}))]
Messages      == TextMessages \cup OtherMessages

\* An event has the name its payload has, or none, and an error is one only where that is the fault.
IsTold(e, why) ==
  /\ e.payload = NotJSON \/ (e.payload \in Messages /\ e.type \in {e.payload.type, "message"})
  /\ e.type = "error" \/ e.payload.type = "error" => why = "error"

Names == {"", "delta", "part", "completed", "chat", "reasoning", "error", "message", "done"}

Happenings == [type : Names, payload : Messages \cup {NotJSON}]

AreTold(events, why) == events \in Seq(Happenings) /\ \A i \in DOMAIN events : IsTold(events[i], why)

\* What the provers need of the kinds of messages.
LEMMA MessageTypes ==
  /\ NotJSON.type = "none" /\ NotJSON.parts = << >> /\ NotJSON \notin Messages
  /\ \A m \in TextMessages : m.type \in {"delta", "part", "completed", "chat"} /\ m.parts \in Seq(Seq(Pieces))
  /\ \A m \in OtherMessages : m.type \in {"reasoning", "error"}
BY DEF NotJSON, Message, Messages, TextMessages, OtherMessages

\* The texts of messages are texts.
LEMMA TextsOfMessages ==
  ASSUME NEW ms \in Seq(TextMessages)
  PROVE  TextOfEach(ms) \in Seq(Seq(Pieces))
<1>1. Len(ms) \in Nat /\ DOMAIN ms = 1..Len(ms) /\ \A i \in 1..Len(ms) : ms[i] \in TextMessages
  OBVIOUS
<1>2. \A i \in 1..Len(ms) : Flat(ms[i].parts) \in Seq(Pieces)
  BY <1>1, MessageTypes, FlatType
<1>3. TextOfEach(ms) = [i \in 1..Len(ms) |-> Flat(ms[i].parts)]
  BY <1>1 DEF TextOfEach
<1> QED BY <1>1, <1>2, <1>3

\* The payloads of chosen events that are messages with a text.
LEMMA PayloadsType ==
  ASSUME NEW events, NEW why, AreTold(events, why), NEW P, \A i \in P \cap DOMAIN events : events[i].payload \in TextMessages
  PROVE  LET c == Selected(events, P) IN [i \in DOMAIN c |-> c[i].payload] \in Seq(TextMessages)
<1> DEFINE X == {e \in Happenings : e.payload \in TextMessages}
           c == Selected(events, P)
<1>1. Len(events) \in Nat /\ DOMAIN events = 1..Len(events) /\ \A i \in DOMAIN events : events[i] \in Happenings
  BY DEF AreTold
<1>2. \A i \in P \cap (1..Len(events)) : events[i] \in X
  BY <1>1
<1> HIDE DEF X
<1>3. c \in Seq(X)
  BY <1>1, <1>2, SelectionType
<1> HIDE DEF c
<1>4. Len(c) \in Nat /\ DOMAIN c = 1..Len(c) /\ \A i \in 1..Len(c) : c[i].payload \in TextMessages
  BY <1>3 DEF X
<1>5. [i \in DOMAIN c |-> c[i].payload] \in Seq(TextMessages)
  BY <1>4
<1> QED BY <1>5 DEF c

\* So are the payloads codex looks for, which have the name that their event has.
LEMMA CodexPayloads ==
  ASSUME NEW events, NEW why, AreTold(events, why), NEW type \in {"delta", "part", "completed"}
  PROVE  Payloads(events, type) \in Seq(TextMessages)
<1> DEFINE P == {i \in DOMAIN events : events[i].type = type /\ events[i].payload # NotJSON}
<1>1. \A i \in P \cap DOMAIN events : events[i].payload \in TextMessages
  BY MessageTypes DEF AreTold, IsTold, Messages
<1> HIDE DEF P
<1>2. LET c == Selected(events, P) IN [i \in DOMAIN c |-> c[i].payload] \in Seq(TextMessages)
  BY <1>1, PayloadsType
<1> QED BY <1>2 DEF P, Payloads

\* The deltas of LM Studio and of the cloud are texts: a thought is never one of them.
LEMMA ChosenTexts ==
  ASSUME NEW events, NEW why, AreTold(events, why)
  PROVE  ChatDeltas(events) \in Seq(Seq(Pieces)) /\ AnthropicDeltas(events) \in Seq(Seq(Pieces))
<1> DEFINE P  == {i \in DOMAIN events : events[i].type # "done" /\ events[i].payload.type = "chat"}
           Q  == {i \in DOMAIN events : events[i].payload.named /\ events[i].payload.type = "delta"}
           p == Selected(events, P)
           q == Selected(events, Q)
<1>1. \A i \in (P \cup Q) \cap DOMAIN events : events[i].payload \in TextMessages
  BY MessageTypes DEF AreTold, IsTold, Messages
<1>2. ChatDeltas(events) = TextOfEach([i \in DOMAIN p |-> p[i].payload])
  BY DEF ChatDeltas, Chosen
<1>3. AnthropicDeltas(events) = TextOfEach([i \in DOMAIN q |-> q[i].payload])
  BY DEF AnthropicDeltas, Chosen
<1> HIDE DEF P, Q
<1>4. [i \in DOMAIN p |-> p[i].payload] \in Seq(TextMessages) /\ [i \in DOMAIN q |-> q[i].payload] \in Seq(TextMessages)
  BY <1>1, PayloadsType
<1> HIDE DEF p, q
<1> QED BY <1>2, <1>3, <1>4, TextsOfMessages

\* The first text of some is a text.
LEMMA FirstTextType ==
  ASSUME NEW X, NEW parts \in Seq(Seq(X))
  PROVE  FirstText(parts) \in Seq(X)
<1> DEFINE P == {i \in DOMAIN parts : parts[i] # << >>}
           t == Selected(parts, P)
<1>1. Len(parts) \in Nat /\ \A i \in P \cap (1..Len(parts)) : parts[i] \in Seq(X)
  OBVIOUS
<1> HIDE DEF P
<1>2. t \in Seq(Seq(X))
  BY <1>1, SelectionType
<1>3. FirstText(parts) = IF t = << >> THEN << >> ELSE t[1]
  BY DEF FirstText, P
<1> HIDE DEF t
<1>4. << >> \in Seq(X)
  OBVIOUS
<1>5. t # << >> => t[1] \in Seq(X)
  BY <1>2
<1> QED BY <1>3, <1>4, <1>5

\* The deltas of codex are texts.
LEMMA CodexDeltas ==
  ASSUME NEW events, NEW why, AreTold(events, why)
  PROVE  TextOfEach(Payloads(events, "delta")) \in Seq(Seq(Pieces))
BY CodexPayloads, TextsOfMessages

\* The text of codex, out of what is told.
LEMMA CodexAnswers ==
  ASSUME NEW events, NEW why, AreTold(events, why)
  PROVE  CollectOutputText(events) \in Seq(Pieces)
<1> DEFINE f(type) == FirstOf(Payloads(events, type))
<1>2. ASSUME NEW type \in {"part", "completed"}
      PROVE  f(type) \in Seq(Pieces)
  <2> DEFINE ms == Payloads(events, type)
             ts == [i \in DOMAIN ms |-> FirstText(ms[i].parts)]
  <2>1. ms \in Seq(TextMessages)
    BY CodexPayloads
  <2>2. FirstOf(ms) = FirstText(ts)
    BY DEF FirstOf
  <2> HIDE DEF ms
  <2>3. Len(ms) \in Nat /\ DOMAIN ms = 1..Len(ms) /\ \A i \in 1..Len(ms) : FirstText(ms[i].parts) \in Seq(Pieces)
    BY <2>1, MessageTypes, FirstTextType
  <2>4. ts \in Seq(Seq(Pieces))
    BY <2>3
  <2> HIDE DEF ts
  <2> QED BY <2>2, <2>4, FirstTextType DEF ms
<1> DEFINE a == Flat(TextOfEach(Payloads(events, "delta")))
           b == f("part")
           c == f("completed")
<1>3. a \in Seq(Pieces) /\ b \in Seq(Pieces) /\ c \in Seq(Pieces)
  BY <1>2, CodexDeltas, FlatType
<1>4. CollectOutputText(events) = FirstText(<<a, b, c>>)
  BY DEF CollectOutputText
<1> HIDE DEF a, b, c
<1>5. <<a, b, c>> \in Seq(Seq(Pieces))
  BY <1>3
<1> DEFINE t == <<a, b, c>>
<1>6. t \in Seq(Seq(Pieces))
  BY <1>5
<1> HIDE DEF t
<1>7. FirstText(t) \in Seq(Pieces)
  BY <1>6, FirstTextType
<1> QED BY <1>4, <1>7 DEF t

------------------------------------------------------------------------------
(* Lines, and the events they make.                                        *)

\* The lines of an event's data, those of its frame, and those that may come between events.
DataOf(m)  == {Data("all", m), Data("first", m), Data("second", m), Garbage, DoneLine}
LinesOf(m) == {EventLine(m.type), Comment, Blank, Overlong} \cup DataOf(m)
Lines      == UNION {LinesOf(m) : m \in Messages}

Scanners == [eventType : Names, data : Seq(Lines), events : Seq(Happenings), overlong : BOOLEAN]

\* An error is sent only where that is the fault.
MayBe(m, why) == m \in Messages /\ (m.type = "error" => why = "error")

\* What is gathered is of the event m, and so is what is still on its way, of which nothing follows a blank line.
Gathering(m) ==
  /\ scanner.eventType \in {"", m.type}
  /\ scanner.data \in Seq(DataOf(m))
  /\ wire \in Seq(LinesOf(m))
  /\ \A i \in 1..(Len(wire) - 1) : wire[i].kind # "blank"

Clean == scanner.eventType = "" /\ scanner.data = << >>

\* While the stream is open, an event that is being sent is sent to its end.
Place ==
  /\ open => IF wire = << >> THEN Clean ELSE wire[Len(wire)].kind = "blank" \/ (Clean /\ wire[1] = Comment /\ Len(wire) = 1)
  /\ \E m \in Messages : MayBe(m, fault) /\ Gathering(m)

\* The line l is the only one of an event that is not scanned yet.
Ahead(l) ==
  /\ scanner.data = << >>
  /\ Len(wire) >= 2 /\ wire[Len(wire) - 1] = l /\ wire[Len(wire)] = Blank
  /\ \A i \in 1..(Len(wire) - 2) : wire[i].kind = "event"

HasError(events) == \E i \in DOMAIN events : events[i].payload.type = "error"

ErrorIsTold ==
  fault = "error" =>
    \/ HasError(scanner.events)
    \/ \E m \in Messages :
         /\ m.type = "error"
         /\ Ahead(Data("all", m)) \/ (scanner.data = <<Data("all", m)>> /\ wire \in {<< >>, <<Blank>>})

OverlongIsTold ==
  /\ \A i \in DOMAIN wire : wire[i].kind = "overlong" => fault = "overlong"
  /\ scanner.overlong => fault = "overlong"
  /\ fault = "overlong" /\ ~ scanner.overlong => Ahead(Overlong)

Shape ==
  /\ todo \in Seq(TextMessages) /\ wire \in Seq(Lines) /\ scanner \in Scanners
  /\ outcome # Unasked => exchange \in Exchanges
  /\ outcome = Unasked => ~ open /\ fault = "none" /\ wire = << >> /\ scanner = NoScanner /\ seen = {}
  /\ exchange.form = "json" => ~ open /\ wire = << >> /\ scanner = NoScanner /\ fault \in {"none", "broken"}

Flow ==
  /\ StreamTypeOK /\ Shape /\ AreTold(scanner.events, fault)
  /\ scanner.overlong \/ Place
  /\ ErrorIsTold /\ OverlongIsTold
  /\ AsTransportsHasIt

\* A sequence of one line.
LEMMA Single ==
  ASSUME NEW l, NEW d, d = <<l>>
  PROVE  Len(d) = 1 /\ d[1] = l /\ d # << >>
OBVIOUS

IsAppended(a, t, e) == a = Append(t, e)

\* What a sequence is with an element more.
LEMMA Appended ==
  ASSUME NEW X, NEW t \in Seq(X), NEW e \in X, NEW a, IsAppended(a, t, e)
  PROVE  /\ a \in Seq(X) /\ a # << >>
         /\ DOMAIN t = 1..Len(t) /\ DOMAIN a = 1..(Len(t) + 1)
         /\ \A i \in DOMAIN t : i \in DOMAIN a /\ a[i] = t[i]
         /\ \A i \in DOMAIN a : a[i] = e \/ (i \in DOMAIN t /\ a[i] = t[i])
         /\ \E i \in DOMAIN a : a[i] = e
<1>1. Len(t) \in Nat /\ DOMAIN t = 1..Len(t) /\ a \in Seq(X) /\ DOMAIN a = 1..(Len(t) + 1)
  BY DEF IsAppended
<1>2. a[Len(t) + 1] = e /\ \A i \in 1..Len(t) : a[i] = t[i]
  BY DEF IsAppended
<1>3. a # << >>
  BY <1>1
<1> QED BY <1>1, <1>2, <1>3

\* What the lines of an event are.
LEMMA LineKinds ==
  ASSUME NEW m \in Messages
  PROVE  /\ m.type \in Names
         /\ EventLine(m.type).kind = "event" /\ EventLine(m.type).name = m.type
         /\ Blank.kind = "blank" /\ Comment.kind = "other" /\ Overlong.kind = "overlong"
         /\ \A l \in DataOf(m) : l.kind = "data" /\ l.message \in {m, NotJSON}
         /\ \A l \in LinesOf(m) : /\ l.kind \in {"event", "data", "blank", "other", "overlong"}
                                  /\ l.kind = "event" => l.name = m.type
                                  /\ l.kind = "data" => l \in DataOf(m)
<1>1. m.type \in Names
  BY DEF Names, Messages, TextMessages, OtherMessages
<1>2. EventLine(m.type).kind = "event" /\ EventLine(m.type).name = m.type
  BY DEF EventLine, Line
<1>3. Blank.kind = "blank" /\ Comment.kind = "other" /\ Overlong.kind = "overlong"
  BY DEF Blank, Comment, Overlong, Line
<1>4. \A l \in DataOf(m) : l.kind = "data" /\ l.message \in {m, NotJSON}
  <2>1. \A h, n : Data(h, n).kind = "data" /\ Data(h, n).message = n
    BY DEF Data, Line
  <2> QED BY <2>1 DEF DataOf, Garbage, DoneLine
<1> QED BY <1>1, <1>2, <1>3, <1>4 DEF LinesOf

\* What is sent as a frame.
LEMMA FramedIs ==
  ASSUME NEW m \in Messages, NEW datas \in Seq(DataOf(m) \cup {Overlong})
  PROVE  LET f == Framed(m, datas) IN
         /\ f \in Seq(LinesOf(m)) /\ f # << >>
         /\ f[Len(f)] = Blank
         /\ \A i \in 1..(Len(f) - 1) : f[i].kind # "blank"
         /\ \A i \in DOMAIN f : f[i].kind = "overlong" => \E j \in 1..Len(datas) : datas[j] = f[i]
         /\ Len(datas) = 1 => /\ Len(f) >= 2 /\ f[Len(f) - 1] = datas[1]
                              /\ \A i \in 1..(Len(f) - 2) : f[i].kind = "event"
<1> DEFINE X == LinesOf(m)
           Y == DataOf(m) \cup {Overlong}
           e == EventLine(m.type)
           b == Blank
           p == IF HasLine(exchange.framing) THEN <<e>> ELSE << >>
           q == p \o datas
           f == q \o <<b>>
<1>1. Framed(m, datas) = f
  BY DEF Framed
<1>2. e \in X /\ b \in X /\ Y \subseteq X
  BY DEF LinesOf
<1>3. e.kind = "event" /\ b.kind = "blank" /\ \A l \in Y : l.kind # "blank"
  BY LineKinds
<1> HIDE DEF X, Y, e, b
<1>4. p \in Seq(X) /\ Len(p) \in {0, 1} /\ \A i \in 1..Len(p) : p[i] = e
  BY <1>2
<1> HIDE DEF p
<1>5. /\ datas \in Seq(Y) /\ Len(datas) \in Nat /\ \A i \in 1..Len(datas) : datas[i] \in Y
  BY DEF Y
<1>6. /\ q \in Seq(X) /\ Len(q) = Len(p) + Len(datas)
      /\ \A i \in 1..Len(p) : q[i] = p[i]
      /\ \A i \in 1..Len(datas) : q[Len(p) + i] = datas[i]
  BY <1>2, <1>4, <1>5
<1>7. \A i \in 1..Len(q) : q[i].kind # "blank"
  BY <1>3, <1>4, <1>5, <1>6
<1>8. Len(datas) = 1 => Len(q) >= 1 /\ q[Len(q)] = datas[1] /\ \A i \in 1..(Len(q) - 1) : q[i].kind = "event"
  BY <1>3, <1>4, <1>6
<1> HIDE DEF q
<1>9. Len(q) \in Nat
  BY <1>6
<1>10. /\ f \in Seq(X) /\ Len(f) = Len(q) + 1
       /\ f[Len(f)] = b /\ \A i \in 1..Len(q) : f[i] = q[i]
  BY <1>2, <1>6, <1>9
<1> HIDE DEF f
<1>11. f # << >> /\ \A i \in 1..(Len(f) - 1) : f[i].kind # "blank"
  BY <1>7, <1>9, <1>10
<1>13. \A i \in DOMAIN f : f[i].kind = "overlong" => \E j \in 1..Len(datas) : datas[j] = f[i]
  <2> SUFFICES ASSUME NEW i \in DOMAIN f, f[i].kind = "overlong"
               PROVE  \E j \in 1..Len(datas) : datas[j] = f[i]
    OBVIOUS
  <2>1. i \in 1..Len(q) /\ f[i] = q[i]
    <3>1. i \in 1..(Len(q) + 1) /\ i # Len(q) + 1
      BY <1>3, <1>9, <1>10
    <3> QED BY <1>9, <1>10, <3>1
  <2>2. ~ (i \in 1..Len(p))
    BY <1>3, <1>4, <1>6, <2>1
  <2>3. i - Len(p) \in 1..Len(datas) /\ Len(p) + (i - Len(p)) = i
    BY <1>4, <1>5, <1>6, <2>1, <2>2
  <2> QED BY <1>6, <2>1, <2>3
<1>12. Len(datas) = 1 => Len(f) >= 2 /\ f[Len(f) - 1] = datas[1] /\ \A i \in 1..(Len(f) - 2) : f[i].kind = "event"
  BY <1>8, <1>9, <1>10
<1> QED BY <1>1, <1>10, <1>11, <1>12, <1>13 DEF X, b

\* What a parse of an event's data gives.
LEMMA Parsing ==
  ASSUME NEW m \in Messages, NEW d \in Seq(DataOf(m))
  PROVE  Parsed(d) \in {m, NotJSON}
<1>1. ASSUME Len(d) \in {1, 2}
      PROVE  d[1].message \in {m, NotJSON}
  BY <1>1, LineKinds
<1> QED BY <1>1 DEF Parsed

\* An event that is told joins those that are.
LEMMA Telling ==
  ASSUME NEW t, NEW why, AreTold(t, why), NEW e \in Happenings, IsTold(e, why), NEW a, IsAppended(a, t, e)
  PROVE  /\ AreTold(a, why)
         /\ HasError(t) => HasError(a)
         /\ e.payload.type = "error" => HasError(a)
<1>1. t \in Seq(Happenings) /\ \A i \in DOMAIN t : IsTold(t[i], why)
  BY DEF AreTold
<1>2. /\ a \in Seq(Happenings)
      /\ \A i \in DOMAIN t : i \in DOMAIN a /\ a[i] = t[i]
      /\ \A i \in DOMAIN a : a[i] = e \/ (i \in DOMAIN t /\ a[i] = t[i])
      /\ \E i \in DOMAIN a : a[i] = e
  BY <1>1, Appended
<1>3. AreTold(a, why)
  BY <1>1, <1>2 DEF AreTold
<1> QED BY <1>2, <1>3 DEF HasError

\* The event that a flush makes of a payload, which has the name n.
LEMMA Naming ==
  ASSUME NEW m \in Messages, NEW why, MayBe(m, why), NEW p \in {m, NotJSON}, NEW e, NEW n \in {"", m.type},
         e = Event("done", NotJSON) \/ e = Event(IF n = "" THEN "message" ELSE n, p)
  PROVE  e \in Happenings /\ IsTold(e, why)
<1>1. /\ NotJSON.type = "none" /\ NotJSON # m
      /\ m.type \in {"delta", "part", "completed", "chat", "reasoning", "error"}
  BY MessageTypes DEF Messages
<1>2. CASE e = Event("done", NotJSON)
  <2>1. e.type = "done" /\ e.payload = NotJSON
    BY <1>2 DEF Event
  <2>2. e \in Happenings
    BY <1>2 DEF Event, Happenings, Names
  <2> QED BY <1>1, <2>1, <2>2 DEF IsTold
<1>3. CASE e = Event(IF n = "" THEN "message" ELSE n, p)
  <2> DEFINE k == IF n = "" THEN "message" ELSE n
  <2>1. k \in Names /\ k \in {"message", m.type}
    BY <1>1 DEF Names
  <2> HIDE DEF k
  <2>2. e.type = k /\ e.payload = p
    BY <1>3 DEF Event, k
  <2>3. e \in Happenings
    BY <1>3, <2>1 DEF Event, Happenings, k
  <2>4. e.type = "error" \/ e.payload.type = "error" => m.type = "error"
    BY <1>1, <2>1, <2>2
  <2> QED BY <1>1, <2>1, <2>2, <2>3, <2>4 DEF IsTold, MayBe
<1> QED BY <1>2, <1>3

\* What a flush of an event's data gives.
LEMMA Flushing ==
  ASSUME NEW s \in Scanners, NEW m \in Messages, NEW why, MayBe(m, why),
         s.eventType \in {"", m.type}, s.data \in Seq(DataOf(m)), AreTold(s.events, why)
  PROVE  /\ AreTold(Flushed(s), why)
         /\ HasError(s.events) => HasError(Flushed(s))
         /\ m.type = "error" /\ s.data = <<Data("all", m)>> => HasError(Flushed(s))
<1> DEFINE p == Parsed(s.data)
           n == IF p.named THEN p.type ELSE s.eventType
           e == IF s.data = <<DoneLine>> THEN Event("done", NotJSON) ELSE Event(IF n = "" THEN "message" ELSE n, p)
<1>1. Flushed(s) = IF s.data = << >> THEN s.events ELSE Append(s.events, e)
  BY DEF Flushed
<1>2. p \in {m, NotJSON}
  BY Parsing
<1>3. e = Event("done", NotJSON) \/ e = Event(IF n = "" THEN "message" ELSE n, p)
  OBVIOUS
<1>4. n \in {"", m.type}
  <2>1. CASE p = m
    BY <2>1
  <2>2. CASE p = NotJSON
    <3>1. NotJSON.named = FALSE
      BY DEF NotJSON, Message
    <3> QED BY <2>2, <3>1
  <2> QED BY <1>2, <2>1, <2>2
<1>5. e \in Happenings /\ IsTold(e, why)
  <2> HIDE DEF e, n, p
  <2> QED BY <1>2, <1>3, <1>4, Naming
<1>6. m.type = "error" /\ s.data = <<Data("all", m)>> => e.payload = m
  <2> SUFFICES ASSUME s.data = <<Data("all", m)>>
               PROVE  e.payload = m
    OBVIOUS
  <2>1. p = m
    <3> DEFINE l == Data("all", m)
    <3>1. l.half = "all" /\ l.message = m
      BY DEF Data, Line
    <3> HIDE DEF l
    <3> QED BY <3>1, Single DEF Parsed, l
  <2>2. s.data # <<DoneLine>>
    <3> DEFINE l == Data("all", m)
               k == DoneLine
    <3>1. l.half # k.half
      BY DEF Data, DoneLine, Line
    <3> HIDE DEF l, k
    <3>2. <<l>> # <<k>>
      BY <3>1, Single
    <3> QED BY <3>2 DEF l, k
  <2> QED BY <2>1, <2>2 DEF Event
<1> HIDE DEF e
<1>8. PICK a : IsAppended(a, s.events, e)
  BY DEF IsAppended
<1>9. /\ AreTold(a, why)
      /\ HasError(s.events) => HasError(a)
      /\ e.payload.type = "error" => HasError(a)
  BY <1>5, <1>8, Telling
<1>10. Flushed(s) = IF s.data = << >> THEN s.events ELSE a
  BY <1>1, <1>8 DEF IsAppended
<1>11. AreTold(Flushed(s), why)
  BY <1>9, <1>10
<1>12. HasError(s.events) => HasError(Flushed(s))
  BY <1>9, <1>10
<1>13. m.type = "error" /\ s.data = <<Data("all", m)>> => HasError(Flushed(s))
  <2> SUFFICES ASSUME m.type = "error", s.data = <<Data("all", m)>>
               PROVE  HasError(Flushed(s))
    OBVIOUS
  <2>1. s.data # << >>
    BY Single
  <2>2. e.payload.type = "error"
    BY <1>6
  <2> QED BY <1>9, <1>10, <2>1, <2>2
<1> QED BY <1>11, <1>12, <1>13

------------------------------------------------------------------------------
(* The provider sends.                                                     *)

\* What is left of a sequence after its first element.
IsRest(v, w) == v = Tail(w)

\* What the rest of a sequence is.
LEMMA Rest ==
  ASSUME NEW X, NEW w \in Seq(X), w # << >>, NEW v, IsRest(v, w)
  PROVE  /\ Head(w) = w[1] /\ w[1] \in X
         /\ v \in Seq(X) /\ Len(v) \in Nat /\ Len(w) = Len(v) + 1
         /\ (v = << >> <=> Len(w) = 1)
         /\ \A i \in 1..Len(v) : v[i] = w[i + 1]
<1>1. Head(w) = w[1] /\ w[1] \in X /\ v \in Seq(X) /\ Len(v) \in Nat /\ Len(w) = Len(v) + 1
  BY DEF IsRest
<1>2. \A i \in 1..Len(v) : v[i] = w[i + 1]
  BY DEF IsRest
<1>3. v = << >> <=> Len(w) = 1
  BY <1>1
<1> QED BY <1>1, <1>2, <1>3

\* Events told of a fault stay told when it is the first.
LEMMA ToldOn ==
  ASSUME NEW events, NEW why, AreTold(events, why), NEW whyNow, whyNow = why \/ why # "error"
  PROVE  AreTold(events, whyNow)
BY DEF AreTold, IsTold

\* Where the provider may send, nothing is left in the scanner, and a fault has been told.
LEMMA SendingIs ==
  ASSUME Flow, Sending
  PROVE  /\ exchange.form # "json" /\ exchange \in Exchanges /\ outcome = Pending /\ wire = << >> /\ open
         /\ fault = "error" => HasError(scanner.events)
         /\ fault = "overlong" <=> scanner.overlong
         /\ ~ scanner.overlong => Clean
<1>1. Pending # Unasked
  BY DEF Pending, Unasked, Fails, Returns, Error
<1>2. exchange.form # "json" /\ exchange \in Exchanges /\ outcome = Pending /\ wire = << >> /\ open
  BY <1>1 DEF Flow, Shape, Sending
<1>3. Len(wire) = 0
  BY <1>2
<1>4. \A l : ~ Ahead(l)
  BY <1>3 DEF Ahead
<1>5. scanner.overlong \in BOOLEAN
  BY DEF Flow, Shape, Scanners
<1>6. fault = "overlong" <=> scanner.overlong
  BY <1>4, <1>5 DEF Flow, OverlongIsTold
<1>7. ~ scanner.overlong => Clean
  BY <1>2 DEF Flow, Place
<1>8. fault = "error" => HasError(scanner.events)
  <2> SUFFICES ASSUME fault = "error"
               PROVE  HasError(scanner.events)
    OBVIOUS
  <2>1. scanner.data = << >>
    BY <1>6, <1>7 DEF Clean
  <2>2. \A m : scanner.data # <<Data("all", m)>>
    <3>1. \A x : <<x>> # << >>
      BY Single
    <3> QED BY <2>1, <3>1
  <2> QED BY <1>4, <2>2 DEF Flow, ErrorIsTold
<1> QED BY <1>2, <1>6, <1>7, <1>8

\* Nothing has been made of an answer that is not at its end.
LEMMA NoOutcomeYet ==
  ASSUME outcome' \in {Unasked, Pending}
  PROVE  AsTransportsHasIt'
BY DEF AsTransportsHasIt, Done

\* What a line sent makes of the state, whatever the line.
LEMMA Sent ==
  ASSUME Flow, Sending, UNCHANGED <<exchange, open, seen, scanner, outcome>>,
         todo' \in Seq(TextMessages),
         fault' \in {"none", "garbled", "overlong", "error", "cut", "broken"}, fault' = fault \/ fault = "none",
         NEW m \in Messages, MayBe(m, fault'),
         wire' \in Seq(LinesOf(m)), wire' # << >>, \A i \in 1..(Len(wire') - 1) : wire'[i].kind # "blank",
         \A i \in DOMAIN wire' : wire'[i].kind = "overlong" => fault' = "overlong",
         wire'[Len(wire')].kind = "blank" \/ (wire'[1] = Comment /\ Len(wire') = 1),
         fault = "none" /\ fault' = "error" =>
           \E k \in Messages : k.type = "error" /\ wire' # << >> /\ Ahead(Data("all", k))',
         fault = "none" /\ fault' = "overlong" => Ahead(Overlong)'
  PROVE  Flow'
<1>1. /\ exchange.form # "json" /\ exchange \in Exchanges /\ outcome = Pending /\ open
      /\ fault = "error" => HasError(scanner.events)
      /\ fault = "overlong" <=> scanner.overlong
      /\ ~ scanner.overlong => Clean
  BY SendingIs
<1>2. StreamTypeOK'
  BY DEF Flow, StreamTypeOK
<1>3. Shape'
  <2>1. LinesOf(m) \subseteq Lines
    BY DEF Lines
  <2>2. wire' \in Seq(Lines)
    BY <2>1
  <2>3. Pending # Unasked
    BY DEF Pending, Unasked, Fails, Returns, Error
  <2> QED BY <1>1, <2>2, <2>3 DEF Flow, Shape
<1>4. AreTold(scanner.events, fault)'
  BY ToldOn DEF Flow
<1>5. (scanner.overlong \/ Place)'
  <2> SUFFICES ASSUME ~ scanner.overlong
               PROVE  Place'
    OBVIOUS
  <2>1. scanner.eventType = "" /\ scanner.data = << >>
    BY <1>1 DEF Clean
  <2>2. Gathering(m)'
    <3>1. << >> \in Seq(DataOf(m))
      OBVIOUS
    <3>2. scanner' = scanner
      OBVIOUS
    <3> QED BY <2>1, <3>1, <3>2 DEF Gathering
  <2>3. Clean'
    BY <1>1 DEF Clean
  <2> QED BY <2>2, <2>3 DEF Place
<1>6. ErrorIsTold'
  BY <1>1 DEF ErrorIsTold
<1>7. OverlongIsTold'
  BY <1>1 DEF OverlongIsTold
<1>8. AsTransportsHasIt'
  BY <1>1, NoOutcomeYet
<1> QED BY <1>2, <1>3, <1>4, <1>5, <1>6, <1>7, <1>8 DEF Flow

\* A message of its kind.
LEMMA MessageIs ==
  ASSUME NEW type, NEW named, NEW parts
  PROVE  /\ Message(type, named, parts).type = type
         /\ type \in {"delta", "part", "completed", "chat"} /\ named \in BOOLEAN /\ parts \in Seq(Seq(Pieces)) =>
              Message(type, named, parts) \in TextMessages
         /\ type \in {"reasoning", "error"} /\ named \in BOOLEAN /\ parts \in Seq(Seq({Thought})) =>
              Message(type, named, parts) \in OtherMessages
BY DEF Message, TextMessages, OtherMessages

\* One line of data, in its frame.
LEMMA FramedOne ==
  ASSUME NEW m \in Messages, NEW l \in DataOf(m) \cup {Overlong}, exchange' = exchange, scanner' = scanner,
         wire' = Framed(m, <<l>>)
  PROVE  /\ wire' \in Seq(LinesOf(m)) /\ wire' # << >> /\ \A i \in 1..(Len(wire') - 1) : wire'[i].kind # "blank"
         /\ wire'[Len(wire')] = Blank
         /\ l # Overlong => \A i \in DOMAIN wire' : wire'[i].kind # "overlong"
         /\ scanner.data = << >> => Ahead(l)'
<1> DEFINE X == DataOf(m) \cup {Overlong}
           d == <<l>>
           f == Framed(m, d)
<1>1. d \in Seq(X)
  OBVIOUS
<1>2. Len(d) = 1 /\ d[1] = l
  OBVIOUS
<1>3. wire' = f
  OBVIOUS
<1> HIDE DEF d
<1>4. /\ f \in Seq(LinesOf(m)) /\ f # << >> /\ f[Len(f)] = Blank
      /\ \A i \in 1..(Len(f) - 1) : f[i].kind # "blank"
      /\ Len(f) >= 2 /\ f[Len(f) - 1] = l
      /\ \A i \in 1..(Len(f) - 2) : f[i].kind = "event"
      /\ \A i \in DOMAIN f : f[i].kind = "overlong" => f[i] = l
  BY <1>1, <1>2, FramedIs
<1> HIDE DEF f
<1>6. l # Overlong => l.kind # "overlong"
  BY LineKinds
<1> HIDE DEF X
<1>5. scanner.data = << >> => Ahead(l)'
  BY <1>3, <1>4 DEF Ahead
<1> QED BY <1>3, <1>4, <1>5, <1>6

\* Two lines of it.
LEMMA FramedTwo ==
  ASSUME NEW m \in Messages, NEW l \in DataOf(m), NEW k \in DataOf(m), NEW f, f = Framed(m, <<l, k>>)
  PROVE  /\ f \in Seq(LinesOf(m)) /\ f # << >> /\ \A i \in 1..(Len(f) - 1) : f[i].kind # "blank"
         /\ f[Len(f)] = Blank
         /\ \A i \in DOMAIN f : f[i].kind # "overlong"
<1> DEFINE X == DataOf(m) \cup {Overlong}
           d == <<l, k>>
<1>1. d \in Seq(X)
  OBVIOUS
<1>4. l.kind = "data" /\ k.kind = "data"
  BY LineKinds
<1>5. \A j \in 1..Len(d) : d[j] \in {l, k}
  OBVIOUS
<1> HIDE DEF d, X
<1>2. f = Framed(m, d)
  BY DEF d
<1>3. LET g == Framed(m, d) IN
      /\ g \in Seq(LinesOf(m)) /\ g # << >> /\ \A i \in 1..(Len(g) - 1) : g[i].kind # "blank"
      /\ g[Len(g)] = Blank
      /\ \A i \in DOMAIN g : g[i].kind = "overlong" => \E j \in 1..Len(d) : d[j] = g[i]
  BY <1>1, FramedIs DEF X
<1> QED BY <1>2, <1>3, <1>4, <1>5

\* An event with text.
LEMMA SendEventKeeps ==
  ASSUME Flow, SendEvent
  PROVE  Flow'
<1> DEFINE m == Head(todo)
<1>1. m \in TextMessages /\ m \in Messages /\ todo' \in Seq(TextMessages) /\ m.type # "error"
  <2>1. todo \in Seq(TextMessages) /\ todo # << >> /\ IsRest(todo', todo)
    BY DEF Flow, Shape, SendEvent, IsRest
  <2>2. m \in TextMessages /\ todo' \in Seq(TextMessages)
    BY <2>1, Rest
  <2> QED BY <2>2, MessageTypes DEF Messages
<1>2. /\ Sending /\ fault' = fault /\ UNCHANGED <<exchange, open, seen, scanner, outcome>>
      /\ wire' = Framed(m, <<Data("all", m)>>) \/ wire' = Framed(m, <<Data("first", m), Data("second", m)>>)
  BY DEF SendEvent, Send
<1> HIDE DEF m
<1>3. {Data("all", m), Data("first", m), Data("second", m)} \subseteq DataOf(m)
  BY DEF DataOf
<1>4. /\ wire' \in Seq(LinesOf(m)) /\ wire' # << >> /\ \A i \in 1..(Len(wire') - 1) : wire'[i].kind # "blank"
      /\ wire'[Len(wire')] = Blank
      /\ \A i \in DOMAIN wire' : wire'[i].kind # "overlong"
  <2>1. Data("all", m) # Overlong
    BY <1>1, <1>3, LineKinds
  <2> QED BY <1>1, <1>2, <1>3, <2>1, FramedOne, FramedTwo
<1>5. Blank.kind = "blank" /\ MayBe(m, fault')
  BY <1>1, LineKinds DEF MayBe
<1>6. fault' \in {"none", "garbled", "overlong", "error", "cut", "broken"}
  BY <1>2 DEF Flow, StreamTypeOK
<1> QED BY <1>1, <1>2, <1>4, <1>5, <1>6, Sent

\* Some message there always is.
LEMMA SomeMessage ==
  LET m == Message("reasoning", FALSE, << >>) IN m \in Messages /\ m.type # "error" /\ \A why : MayBe(m, why)
<1>1. << >> \in Seq(Seq({Thought}))
  OBVIOUS
<1> QED BY <1>1 DEF Message, OtherMessages, MayBe, Messages

\* A comment, a blank line, or a thought.
LEMMA SendOtherKeeps ==
  ASSUME Flow, SendOther
  PROVE  Flow'
<1> DEFINE thought == Message("reasoning", Named(exchange.framing), << <<Thought>> >>)
<1>1. thought \in Messages /\ thought.type # "error"
  <2>1. << <<Thought>> >> \in Seq(Seq({Thought})) /\ Named(exchange.framing) \in BOOLEAN
    BY DEF Named
  <2> QED BY <2>1 DEF Message, OtherMessages, Messages
<1>2. /\ Sending /\ fault' = fault /\ todo' = todo /\ UNCHANGED <<exchange, open, seen, scanner, outcome>>
      /\ \/ wire' = <<Comment>>
         \/ wire' = <<Blank>>
         \/ wire' = Framed(thought, <<Data("all", thought)>>)
  BY DEF SendOther, Send
<1> HIDE DEF thought
<1>3. /\ todo' \in Seq(TextMessages) /\ Blank.kind = "blank"
      /\ fault' \in {"none", "garbled", "overlong", "error", "cut", "broken"} /\ MayBe(thought, fault')
  BY <1>1, <1>2, LineKinds DEF Flow, Shape, StreamTypeOK, MayBe
<1>4. /\ wire' \in Seq(LinesOf(thought)) /\ wire' # << >> /\ \A i \in 1..(Len(wire') - 1) : wire'[i].kind # "blank"
      /\ wire'[Len(wire')] = Blank \/ (wire'[1] = Comment /\ Len(wire') = 1)
      /\ \A i \in DOMAIN wire' : wire'[i].kind # "overlong"
  <2>1. CASE \E l \in {Comment, Blank} : wire' = <<l>>
    <3>1. PICK l \in {Comment, Blank} : wire' = <<l>>
      BY <2>1
    <3>2. l \in LinesOf(thought) /\ l.kind # "overlong"
      BY <1>1, LineKinds DEF LinesOf
    <3> QED BY <3>1, <3>2
  <2>2. CASE wire' = Framed(thought, <<Data("all", thought)>>)
    <3>1. Data("all", thought) \in DataOf(thought) /\ Data("all", thought) # Overlong
      <4>1. Data("all", thought) \in DataOf(thought)
        BY DEF DataOf
      <4> QED BY <1>1, <4>1, LineKinds
    <3> QED BY <1>1, <1>2, <2>2, <3>1, FramedOne
  <2> QED BY <1>2, <2>1, <2>2
<1> QED BY <1>1, <1>2, <1>3, <1>4, Sent

\* The marker at the end.
LEMMA SendDoneKeeps ==
  ASSUME Flow, SendDone
  PROVE  Flow'
<1> DEFINE m == Message("reasoning", FALSE, << >>)
<1>1. m \in Messages /\ m.type # "error" /\ MayBe(m, fault')
  BY SomeMessage
<1>2. /\ Sending /\ fault' = fault /\ todo' = todo /\ UNCHANGED <<exchange, open, seen, scanner, outcome>>
      /\ wire' = <<DoneLine, Blank>>
  BY DEF SendDone, Send
<1> HIDE DEF m
<1>3. /\ todo' \in Seq(TextMessages) /\ Blank.kind = "blank"
      /\ fault' \in {"none", "garbled", "overlong", "error", "cut", "broken"}
  BY <1>1, <1>2, LineKinds DEF Flow, Shape, StreamTypeOK
<1>4. /\ wire' \in Seq(LinesOf(m)) /\ wire' # << >> /\ \A i \in 1..(Len(wire') - 1) : wire'[i].kind # "blank"
      /\ wire'[Len(wire')] = Blank
      /\ \A i \in DOMAIN wire' : wire'[i].kind # "overlong"
  <2> DEFINE l == DoneLine
             b == Blank
             X == LinesOf(m)
  <2>1. l \in X /\ b \in X /\ l.kind = "data" /\ b.kind = "blank" /\ wire' = <<l, b>>
    BY <1>1, <1>2, LineKinds DEF LinesOf, DataOf
  <2> HIDE DEF l, b, X
  <2>2. Len(wire') = 2 /\ wire'[1] = l /\ wire'[2] = b /\ wire' \in Seq(X) /\ wire' # << >>
    BY <2>1
  <2> QED BY <2>1, <2>2 DEF b, X
<1> QED BY <1>1, <1>2, <1>3, <1>4, Sent

\* An event lost in noise, or too long.
LEMMA SendFaultyKeeps ==
  ASSUME Flow, SendFaulty
  PROVE  Flow'
<1> DEFINE m == Head(todo)
<1>1. m \in Messages /\ todo' \in Seq(TextMessages) /\ m.type # "error" /\ MayBe(m, fault')
  <2>1. todo \in Seq(TextMessages) /\ todo # << >> /\ IsRest(todo', todo)
    BY DEF Flow, Shape, SendFaulty, IsRest
  <2>2. m \in TextMessages /\ todo' \in Seq(TextMessages)
    BY <2>1, Rest
  <2> QED BY <2>2, MessageTypes DEF Messages, MayBe
<1>2. /\ Sending /\ fault = "none" /\ UNCHANGED <<exchange, open, seen, scanner, outcome>>
      /\ \/ fault' = "garbled" /\ wire' = Framed(m, <<Garbage>>)
         \/ fault' = "overlong" /\ wire' = Framed(m, <<Overlong>>)
  BY DEF SendFaulty, Send
<1> HIDE DEF m
<1>3. scanner.data = << >> /\ Garbage \in DataOf(m) /\ Blank.kind = "blank"
  <2>1. Clean
    BY <1>2, SendingIs
  <2> QED BY <1>1, <2>1, LineKinds DEF Clean, DataOf
<1>4. /\ wire' \in Seq(LinesOf(m)) /\ wire' # << >> /\ \A i \in 1..(Len(wire') - 1) : wire'[i].kind # "blank"
      /\ wire'[Len(wire')] = Blank
      /\ fault' = "overlong" => Ahead(Overlong)'
      /\ \A i \in DOMAIN wire' : wire'[i].kind = "overlong" => fault' = "overlong"
  <2>1. Garbage # Overlong
    BY <1>1, <1>3, LineKinds
  <2> QED BY <1>1, <1>2, <1>3, <2>1, FramedOne
<1> QED BY <1>1, <1>2, <1>3, <1>4, Sent

\* The event of an error.
LEMMA SendErrorKeeps ==
  ASSUME Flow, SendError
  PROVE  Flow'
<1>0. PICK m : m = Message("error", Named(exchange.framing), << >>)
  OBVIOUS
<1>1. m \in Messages /\ m.type = "error"
  <2>1. << >> \in Seq(Seq({Thought})) /\ Named(exchange.framing) \in BOOLEAN
    BY DEF Named
  <2> QED BY <1>0, <2>1, MessageIs DEF Messages
<1>2. /\ Sending /\ fault = "none" /\ fault' = "error" /\ todo' = << >> /\ UNCHANGED <<exchange, open, seen, scanner, outcome>>
      /\ wire' = Framed(m, <<Data("all", m)>>)
  BY <1>0 DEF SendError, Send
<1>3. scanner.data = << >> /\ Data("all", m) \in DataOf(m) /\ Blank.kind = "blank" /\ MayBe(m, fault')
  <2>1. Clean
    BY <1>2, SendingIs
  <2> QED BY <1>1, <1>2, <2>1, LineKinds DEF Clean, DataOf, MayBe
<1>4. /\ wire' \in Seq(LinesOf(m)) /\ wire' # << >> /\ \A i \in 1..(Len(wire') - 1) : wire'[i].kind # "blank"
      /\ wire'[Len(wire')] = Blank
      /\ Ahead(Data("all", m))'
      /\ \A i \in DOMAIN wire' : wire'[i].kind # "overlong"
  <2>1. Data("all", m) # Overlong
    BY <1>1, <1>3, LineKinds
  <2> QED BY <1>1, <1>2, <1>3, <2>1, FramedOne
<1>5. todo' \in Seq(TextMessages)
  BY <1>2
<1> QED BY <1>1, <1>2, <1>3, <1>4, <1>5, Sent

------------------------------------------------------------------------------
(* The provider closes its stream.                                         *)

\* A sequence of at most one line.
LEMMA Short ==
  ASSUME NEW X, NEW l \in X, NEW w, w \in {<< >>, <<l>>}
  PROVE  /\ Len(w) \in {0, 1}
         /\ w \in Seq(X)
         /\ w # << >> => Head(w) = l
<1>1. CASE w = << >>
  BY <1>1
<1>2. CASE w = <<l>>
  <2>1. Len(w) = 1 /\ Head(w) = l
    BY <1>2
  <2>2. w \in Seq(X)
    BY <1>2
  <2> QED BY <2>1, <2>2
<1> QED BY <1>1, <1>2

\* A line that is ahead has another behind it.
LEMMA LongIsAhead ==
  ASSUME NEW l, Ahead(l)
  PROVE  Len(wire) # 0 /\ Len(wire) # 1
<1>1. Len(wire) >= 2
  BY DEF Ahead
<1>2. ~ (0 >= 2) /\ ~ (1 >= 2)
  OBVIOUS
<1> QED BY <1>1, <1>2

\* Of an event that the end of the body cuts, nothing whole is left.
LEMMA CloseKeeps ==
  ASSUME Flow, Close
  PROVE  Flow'
<1> DEFINE whole == todo = << >> /\ wire \in {<< >>, <<Blank>>}
<1>1. /\ open /\ open' = FALSE /\ outcome = Pending /\ todo' = << >> /\ UNCHANGED <<exchange, seen, scanner, outcome>>
      /\ fault # "none" => whole
      /\ fault' = IF whole THEN fault ELSE "cut"
      /\ wire' \in {<< >>, <<Garbage>>}
      /\ wire' # << >> => wire # << >> /\ Head(wire).kind = "data"
  BY DEF Close
<1>2. whole => Len(wire) \in {0, 1} /\ (wire # << >> => Head(wire) = Blank)
  <2>1. Blank \in {Blank}
    OBVIOUS
  <2> QED BY <2>1, Short
<1>3. Len(wire') \in {0, 1} /\ \A m \in Messages : wire' \in Seq(LinesOf(m))
  <2>1. ASSUME NEW m \in Messages
        PROVE  Len(wire') \in {0, 1} /\ wire' \in Seq(LinesOf(m))
    <3>1. Garbage \in LinesOf(m)
      BY DEF LinesOf, DataOf
    <3> QED BY <1>1, <3>1, Short
  <2> QED BY <2>1, SomeMessage
<1> HIDE DEF whole
<1>4. /\ exchange \in Exchanges /\ exchange.form # "json" /\ Pending # Unasked
  <2>1. Pending # Unasked
    BY DEF Pending, Unasked, Fails, Returns, Error
  <2> QED BY <1>1, <2>1 DEF Flow, Shape
<1>5. StreamTypeOK'
  BY <1>1 DEF Flow, StreamTypeOK
<1>6. Shape'
  <2>1. \A m \in Messages : Garbage \in LinesOf(m) /\ LinesOf(m) \subseteq Lines
    BY DEF LinesOf, DataOf, Lines
  <2>2. Garbage \in Lines
    BY <2>1, SomeMessage
  <2>3. wire' \in Seq(Lines) /\ << >> \in Seq(TextMessages)
    BY <1>1, <2>2, Short
  <2> QED BY <1>1, <1>4, <2>3 DEF Flow, Shape
<1>7. AreTold(scanner.events, fault)'
  BY <1>1, ToldOn DEF Flow
<1>8. (scanner.overlong \/ Place)'
  <2> SUFFICES ASSUME ~ scanner.overlong
               PROVE  Place'
    BY <1>1
  <2>1. PICK m \in Messages : MayBe(m, fault) /\ Gathering(m)
    BY DEF Flow, Place
  <2>3. Gathering(m)'
    <3>1. \A i \in 1..(Len(wire') - 1) : FALSE
      <4>1. \A n \in {0, 1} : \A i \in 1..(n - 1) : FALSE
        OBVIOUS
      <4> QED BY <1>3, <4>1
    <3> QED BY <1>1, <1>3, <2>1, <3>1 DEF Gathering
  <2>4. MayBe(m, fault')
    BY <1>1, <2>1 DEF MayBe
  <2> QED BY <1>1, <2>3, <2>4 DEF Place
<1>9. ASSUME NEW l, whole
      PROVE  ~ Ahead(l)
  BY <1>2, <1>9, LongIsAhead
<1>10. ErrorIsTold'
  <2> SUFFICES ASSUME fault' = "error"
               PROVE  \/ HasError(scanner'.events)
                      \/ \E m \in Messages : m.type = "error" /\ scanner'.data = <<Data("all", m)>> /\ wire' \in {<< >>, <<Blank>>}
    BY DEF ErrorIsTold
  <2>1. fault = "error" /\ whole
    BY <1>1
  <2>2. wire' = << >>
    <3>1. Blank.kind # "data"
      BY DEF Blank, Line
    <3> QED BY <1>1, <1>2, <2>1, <3>1
  <2> QED BY <1>1, <1>9, <2>1, <2>2 DEF Flow, ErrorIsTold
<1>11. OverlongIsTold'
  <2>1. \A i \in DOMAIN wire' : wire'[i].kind # "overlong"
    <3>1. Garbage.kind # "overlong"
      BY DEF Garbage, Data, Line
    <3>2. wire' # << >> => Len(wire') = 1 /\ wire'[1] = Garbage
      BY <1>1, Single
    <3>3. \A i \in DOMAIN wire' : wire' # << >> /\ i = 1
      BY <1>1
    <3> QED BY <3>1, <3>2, <3>3
  <2> QED BY <1>1, <1>9, <2>1 DEF Flow, OverlongIsTold
<1>12. AsTransportsHasIt'
  BY <1>1, NoOutcomeYet
<1> QED BY <1>5, <1>6, <1>7, <1>8, <1>10, <1>11, <1>12 DEF Flow

\* What becomes of the scanner at a line.
IsScanned(t, s, l) ==
  /\ s.overlong => t = s
  /\ ~ s.overlong =>
       /\ l.kind = "blank" => t.eventType = "" /\ t.data = << >> /\ t.events = Flushed(s) /\ t.overlong = FALSE
       /\ l.kind = "event" => t.eventType = l.name /\ t.data = s.data /\ t.events = s.events /\ t.overlong = FALSE
       /\ l.kind = "data" => t.eventType = s.eventType /\ IsAppended(t.data, s.data, l) /\ t.events = s.events /\ t.overlong = FALSE
       /\ l.kind = "overlong" => t.events = s.events /\ t.overlong = TRUE
       /\ l.kind = "other" => t = s

\* What ScanLine does is that, and the scanner stays one.
LEMMA Scanned ==
  ASSUME NEW s \in Scanners, NEW l, NEW t, t = ScanLine(s, l)
  PROVE  /\ IsScanned(t, s, l)
         /\ l.kind = "blank" /\ Flushed(s) \in Seq(Happenings) => t \in Scanners
         /\ l.kind = "event" /\ l.name \in Names => t \in Scanners
         /\ l.kind = "data" /\ l \in Lines => t \in Scanners
         /\ l.kind \in {"overlong", "other"} => t \in Scanners
<1> DEFINE N == Names
           D == Seq(Lines)
           E == Seq(Happenings)
           S == [eventType : N, data : D, events : E, overlong : BOOLEAN]
<1>0. /\ s \in S /\ S = Scanners /\ s.overlong \in BOOLEAN
      /\ "" \in N /\ << >> \in D
      /\ l \in Lines => Append(s.data, l) \in D
  <2>1. s \in S /\ S = Scanners
    BY DEF Scanners
  <2> HIDE DEF N, E
  <2>2. s.overlong \in BOOLEAN /\ s.data \in Seq(Lines)
    BY <2>1
  <2>3. l \in Lines => Append(s.data, l) \in D
    BY <2>2
  <2>4. "" \in N
    BY DEF N, Names
  <2>5. << >> \in D
    OBVIOUS
  <2> HIDE DEF S, D
  <2> QED BY <2>1, <2>2, <2>3, <2>4, <2>5
<1> HIDE DEF N, D, E
<1>1. s.overlong \in BOOLEAN
  BY <1>0
<1>2. CASE s.overlong
  BY <1>2 DEF ScanLine, IsScanned
<1>3. CASE ~ s.overlong
  <2>1. CASE l.kind = "blank"
    <3>1. t = [s EXCEPT !.eventType = "", !.data = << >>, !.events = Flushed(s)]
      BY <1>3, <2>1 DEF ScanLine
    <3>2. /\ t.eventType = "" /\ t.data = << >> /\ t.events = Flushed(s) /\ t.overlong = FALSE
          /\ Flushed(s) \in E => t \in S
      BY <1>0, <1>3, <3>1
    <3> QED BY <1>0, <1>3, <2>1, <3>2 DEF E, IsScanned
  <2>2. CASE l.kind = "event"
    <3>1. t = [s EXCEPT !.eventType = l.name]
      BY <1>3, <2>2 DEF ScanLine
    <3> QED BY <1>1, <1>3, <2>2, <3>1 DEF Scanners, IsScanned
  <2>3. CASE l.kind = "data"
    <3>1. t = [s EXCEPT !.data = Append(@, l)]
      BY <1>3, <2>3 DEF ScanLine
    <3>2. /\ t.eventType = s.eventType /\ t.data = Append(s.data, l) /\ t.events = s.events /\ t.overlong = FALSE
          /\ l \in Lines => t \in S
      BY <1>0, <1>3, <3>1
    <3> QED BY <1>0, <1>3, <2>3, <3>2 DEF IsAppended, IsScanned
  <2>4. CASE l.kind = "overlong"
    <3>1. t = [s EXCEPT !.overlong = TRUE]
      BY <1>3, <2>4 DEF ScanLine
    <3> QED BY <1>1, <1>3, <2>4, <3>1 DEF Scanners, IsScanned
  <2>5. CASE l.kind = "other"
    BY <1>3, <2>5 DEF ScanLine, IsScanned
  <2>6. CASE l.kind \notin {"blank", "event", "data", "overlong", "other"}
    BY <1>3, <2>6 DEF IsScanned
  <2> QED BY <2>1, <2>2, <2>3, <2>4, <2>5, <2>6
<1> QED BY <1>2, <1>3

------------------------------------------------------------------------------
(* A line is scanned.                                                      *)

\* Lines of data, by what they are.
LEMMA DataMessage ==
  ASSUME NEW m \in Messages, NEW l \in DataOf(m)
  PROVE  l.kind = "data" /\ l.message \in {m, NotJSON}
<1>1. l = Data("all", m) \/ l = Data("first", m) \/ l = Data("second", m) \/ l = Data("all", NotJSON) \/ l = Data("[DONE]", NotJSON)
  BY DEF DataOf, Garbage, DoneLine
<1>2. \A h, n : Data(h, n).kind = "data" /\ Data(h, n).message = n
  BY DEF Data, Line
<1> QED BY <1>1, <1>2

\* The lines that are the same in every event.
LEMMA FixedLines == Blank.kind = "blank" /\ Comment.kind = "other" /\ Overlong.kind = "overlong" /\ \A n : EventLine(n).kind = "event" /\ EventLine(n).name = n
BY DEF Blank, Comment, Overlong, Line, EventLine

\* The lines of an event, one by one.
LEMMA LineOf ==
  ASSUME NEW m \in Messages, NEW l \in LinesOf(m)
  PROVE  \/ l = EventLine(m.type) /\ l.kind = "event" /\ l.name = m.type
         \/ l \in DataOf(m) /\ l.kind = "data"
         \/ l = Blank /\ l.kind = "blank"
         \/ l = Comment /\ l.kind = "other"
         \/ l = Overlong /\ l.kind = "overlong"
<1>1. l = EventLine(m.type) \/ l \in DataOf(m) \/ l = Blank \/ l = Comment \/ l = Overlong
  BY DEF LinesOf
<1>2. CASE l \in DataOf(m)
  BY <1>2, DataMessage
<1> QED BY <1>1, <1>2, FixedLines
\* A message may be named by its type.
LEMMA MessageName ==
  ASSUME NEW m \in Messages
  PROVE  m.type \in Names
BY LineKinds

\* The element of a sequence of one.
LEMMA OnlyOne ==
  ASSUME NEW X, NEW d \in Seq(X), NEW x, d = <<x>>
  PROVE  x \in X
<1>1. Len(d) = 1 /\ d[1] = x
  OBVIOUS
<1> QED BY <1>1

\* Where the lines move when one is scanned.
LEMMA Shifted ==
  ASSUME NEW X, NEW w \in Seq(X), w # << >>, NEW v, IsRest(v, w), NEW i \in 1..(Len(v) - 1)
  PROVE  v[i] = w[i + 1] /\ i + 1 \in 1..(Len(w) - 1)
<1> DEFINE n == Len(v)
           k == Len(w)
<1>1. n \in Nat /\ k = n + 1 /\ \A j \in 1..n : v[j] = w[j + 1]
  BY Rest
<1> HIDE DEF n, k
<1>2. i \in 1..(n - 1)
  BY DEF n
<1>3. i \in 1..n /\ i + 1 \in 1..(k - 1)
  BY <1>1, <1>2
<1> QED BY <1>1, <1>3 DEF n, k

\* A sequence that is not of one element has one before its last.
LEMMA Longer ==
  ASSUME NEW X, NEW w \in Seq(X), w # << >>, Len(w) # 1
  PROVE  1 \in 1..(Len(w) - 1)
<1> DEFINE k == Len(w)
<1>1. k \in Nat /\ k # 0 /\ k # 1
  OBVIOUS
<1> HIDE DEF k
<1>2. 1 \in 1..(k - 1)
  BY <1>1
<1> QED BY <1>2 DEF k

\* How the scanner gets nearer to the line x.
LEMMA Nearer ==
  ASSUME NEW X, wire \in Seq(X), IsRest(wire', wire), NEW x, Ahead(x)
  PROVE  \/ wire[1].kind = "event" /\ (scanner'.data = scanner.data => Ahead(x)')
         \/ wire[1] = x /\ wire' = <<Blank>>
<1>1. /\ Len(wire) \in Nat /\ Len(wire) >= 2 /\ wire[Len(wire) - 1] = x /\ wire[Len(wire)] = Blank
      /\ \A i \in 1..(Len(wire) - 2) : wire[i].kind = "event"
  BY DEF Ahead
<1>2. wire # << >>
  BY <1>1
<1>3. /\ wire' \in Seq(X) /\ Len(wire') \in Nat /\ Len(wire) = Len(wire') + 1
      /\ \A i \in 1..Len(wire') : wire'[i] = wire[i + 1]
  BY <1>2, Rest
<1>6. /\ Len(wire) = 2 => Len(wire') = 1
      /\ Len(wire) = 2 \/ Len(wire) > 2
  <2> DEFINE n == Len(wire')
             k == Len(wire)
  <2>1. n \in Nat /\ k = n + 1 /\ k >= 2
    BY <1>1, <1>3
  <2> HIDE DEF n, k
  <2>2. (k = 2 => n = 1) /\ (k = 2 \/ k > 2)
    BY <2>1
  <2> QED BY <2>2 DEF n, k
<1>4. CASE Len(wire) = 2
  <2>1. Len(wire') = 1
    BY <1>4, <1>6
  <2>2. wire'[1] = wire[1 + 1] /\ 1 + 1 = 2
    BY <1>3, <2>1
  <2>3. wire'[1] = Blank /\ wire[1] = x
    BY <1>1, <1>4, <2>2
  <2>4. wire' = <<Blank>>
    BY <1>3, <2>1, <2>3
  <2> QED BY <2>3, <2>4
<1>5. CASE Len(wire) > 2
  <2>1. wire[1].kind = "event"
    BY <1>1, <1>5
  <2>2. Len(wire') >= 2 /\ wire'[Len(wire') - 1] = x /\ wire'[Len(wire')] = Blank
    BY <1>1, <1>3, <1>5
  <2>3. \A i \in 1..(Len(wire') - 2) : wire'[i].kind = "event"
    BY <1>1, <1>3, <1>5
  <2>4. scanner'.data = scanner.data => Ahead(x)'
    <3>1. Ahead(x) => scanner.data = << >>
      BY DEF Ahead
    <3> QED BY <2>2, <2>3, <3>1 DEF Ahead
  <2> QED BY <2>1, <2>4
<1> QED BY <1>4, <1>5, <1>6

\* A line is scanned: the step on which everything hangs.
LEMMA ScanKeeps ==
  ASSUME Flow, Scan
  PROVE  Flow'
<1> DEFINE kinds == {"event", "data", "blank", "other", "overlong"}
<1>1. PICK l : l = Head(wire)
  OBVIOUS
<1>2. /\ wire # << >> /\ outcome = Pending /\ UNCHANGED <<exchange, open, todo, fault, outcome>>
      /\ scanner' = ScanLine(scanner, l) /\ IsRest(wire', wire)
      /\ seen' = seen \cup {IF l.kind = "overlong" THEN "data" ELSE l.kind}
  BY <1>1 DEF Scan, IsRest
<1>3. scanner \in Scanners /\ wire \in Seq(Lines) /\ exchange.form # "json" /\ exchange \in Exchanges /\ Pending # Unasked
  <2>1. Pending # Unasked
    BY DEF Pending, Unasked, Fails, Returns, Error
  <2> QED BY <1>2, <2>1 DEF Flow, Shape
<1>4. /\ l = wire[1] /\ l \in Lines /\ wire' \in Seq(Lines) /\ Len(wire') \in Nat /\ Len(wire) = Len(wire') + 1
      /\ (wire' = << >> <=> Len(wire) = 1)
      /\ \A i \in 1..Len(wire') : wire'[i] = wire[i + 1]
  BY <1>1, <1>2, <1>3, Rest
<1>5. l.kind \in kinds /\ (l.kind = "event" => l.name \in Names)
  <2>1. PICK m \in Messages : l \in LinesOf(m)
    BY <1>4 DEF Lines
  <2> QED BY <2>1, LineOf, MessageName
<1>6. IsScanned(scanner', scanner, l)
  BY <1>2, <1>3, Scanned
<1>7. /\ AreTold(scanner'.events, fault)
      /\ HasError(scanner.events) => HasError(scanner'.events)
      /\ ~ scanner.overlong /\ l.kind = "blank" => Flushed(scanner) \in Seq(Happenings)
      /\ \A m \in Messages : ~ scanner.overlong /\ m.type = "error" /\ scanner.data = <<Data("all", m)>> /\ l.kind = "blank" => HasError(scanner'.events)
  <2>1. AreTold(scanner.events, fault)
    BY DEF Flow
  <2>2. CASE scanner.overlong
    BY <1>6, <2>1, <2>2 DEF IsScanned
  <2>3. CASE ~ scanner.overlong /\ l.kind # "blank"
    BY <1>5, <1>6, <2>1, <2>3 DEF IsScanned
  <2>4. CASE ~ scanner.overlong /\ l.kind = "blank"
    <3>1. PICK m \in Messages : MayBe(m, fault) /\ Gathering(m)
      BY <2>4 DEF Flow, Place
    <3>2. scanner.eventType \in {"", m.type} /\ scanner.data \in Seq(DataOf(m))
      BY <3>1 DEF Gathering
    <3>3. /\ AreTold(Flushed(scanner), fault)
          /\ HasError(scanner.events) => HasError(Flushed(scanner))
          /\ m.type = "error" /\ scanner.data = <<Data("all", m)>> => HasError(Flushed(scanner))
      BY <1>3, <2>1, <3>1, <3>2, Flushing
    <3>4. ASSUME NEW k \in Messages, scanner.data = <<Data("all", k)>>
          PROVE  k = m
      <4>2. Data("all", k) \in DataOf(m)
        <5> HIDE DEF kinds
        <5> QED BY <3>2, <3>4, OnlyOne
      <4>3. Data("all", k).message = k /\ k # NotJSON
        BY MessageTypes DEF Data, Line
      <4> QED BY <4>2, <4>3, DataMessage
    <3>5. Flushed(scanner) \in Seq(Happenings)
      BY <3>3 DEF AreTold
    <3> QED BY <1>6, <2>4, <3>3, <3>4, <3>5 DEF IsScanned
  <2> QED BY <2>2, <2>3, <2>4
<1>8. scanner' \in Scanners
  <2>1. CASE scanner.overlong
    BY <1>3, <1>6, <2>1 DEF IsScanned
  <2>2. CASE ~ scanner.overlong
    BY <1>2, <1>3, <1>4, <1>5, <1>7, <2>2, Scanned
  <2> QED BY <2>1, <2>2
<1>9. StreamTypeOK'
  BY <1>2, <1>5 DEF Flow, StreamTypeOK
<1>10. Shape'
  BY <1>2, <1>3, <1>4, <1>8 DEF Flow, Shape
<1>11. AreTold(scanner.events, fault)'
  <2>1. fault' = fault
    BY <1>2
  <2> QED BY <1>7, <2>1
<1>12. (scanner.overlong \/ Place)'
  <2> SUFFICES ASSUME ~ scanner'.overlong
               PROVE  Place'
    OBVIOUS
  <2>1. ~ scanner.overlong /\ l.kind \in {"blank", "event", "data", "other"}
    BY <1>5, <1>6 DEF IsScanned
  <2>2. PICK m \in Messages : MayBe(m, fault) /\ Gathering(m)
    BY <2>1 DEF Flow, Place
  <2>3. /\ scanner.eventType \in {"", m.type} /\ scanner.data \in Seq(DataOf(m)) /\ wire \in Seq(LinesOf(m))
        /\ \A i \in 1..(Len(wire) - 1) : wire[i].kind # "blank"
    BY <2>2 DEF Gathering
  <2>4. /\ l \in LinesOf(m) /\ wire' \in Seq(LinesOf(m))
        /\ l.kind = "event" => l.name = m.type
        /\ l.kind = "data" => l \in DataOf(m)
    <3>1. l \in LinesOf(m) /\ wire' \in Seq(LinesOf(m))
      BY <1>1, <1>2, <2>3, Rest
    <3> QED BY <3>1, LineOf, FixedLines
  <2>5. \A i \in 1..(Len(wire') - 1) : wire'[i].kind # "blank"
    <3> SUFFICES ASSUME NEW i \in 1..(Len(wire') - 1)
                 PROVE  wire'[i].kind # "blank"
      OBVIOUS
    <3>1. wire'[i] = wire[i + 1] /\ i + 1 \in 1..(Len(wire) - 1)
      BY <1>2, <1>3, Shifted
    <3> QED BY <2>3, <3>1
  <2>6. l.kind = "blank" => wire' = << >>
    <3>1. ASSUME l.kind = "blank"
          PROVE  Len(wire) = 1
      BY <1>2, <1>3, <1>4, <2>3, <3>1, Longer
    <3> QED BY <1>4, <3>1
  <2>7. scanner'.eventType \in {"", m.type} /\ scanner'.data \in Seq(DataOf(m))
    <3>1. CASE l.kind = "data"
      <4>1. IsAppended(scanner'.data, scanner.data, l)
        BY <1>6, <2>1, <3>1 DEF IsScanned
      <4>2. scanner'.data \in Seq(DataOf(m))
        BY <2>3, <2>4, <3>1, <4>1, Appended
      <4> QED BY <1>6, <2>1, <2>3, <3>1, <4>2 DEF IsScanned
    <3>2. CASE l.kind = "blank"
      <4>1. << >> \in Seq(DataOf(m))
        OBVIOUS
      <4> QED BY <1>6, <2>1, <3>2, <4>1 DEF IsScanned
    <3>3. CASE l.kind \in {"event", "other"}
      BY <1>6, <2>1, <2>3, <2>4, <3>3 DEF IsScanned
    <3> QED BY <2>1, <3>1, <3>2, <3>3
  <2>8. Gathering(m)'
    BY <2>4, <2>5, <2>7 DEF Gathering
  <2>9. ASSUME open
        PROVE  IF wire' = << >> THEN Clean' ELSE wire'[Len(wire')].kind = "blank" \/ (Clean' /\ wire'[1] = Comment /\ Len(wire') = 1)
    <3>1. wire[Len(wire)].kind = "blank" \/ (Clean /\ l = Comment /\ Len(wire) = 1)
      BY <1>2, <1>4, <2>1, <2>9 DEF Flow, Place
    <3>2. CASE Clean /\ l = Comment /\ Len(wire) = 1
      <4>1. l.kind = "other"
        BY <3>2, LineKinds
      <4> QED BY <1>4, <1>6, <2>1, <3>2, <4>1 DEF Clean, IsScanned
    <3>3. CASE wire[Len(wire)].kind = "blank" /\ Len(wire) = 1
      <4>1. l.kind = "blank"
        BY <1>4, <3>3
      <4> QED BY <1>4, <1>6, <2>1, <3>3, <4>1 DEF Clean, IsScanned
    <3>4. CASE wire[Len(wire)].kind = "blank" /\ Len(wire) # 1
      <4>1. wire'[Len(wire')] = wire[Len(wire)] /\ wire' # << >>
        BY <1>4, <3>4
      <4> QED BY <3>4, <4>1
    <3> QED BY <3>1, <3>2, <3>3, <3>4
  <2>10. MayBe(m, fault') /\ open' = open
    BY <1>2, <2>2
  <2> QED BY <2>8, <2>9, <2>10 DEF Place
<1>13. ErrorIsTold'
  <2> SUFFICES ASSUME fault = "error", ~ HasError(scanner'.events)
               PROVE  \E m \in Messages :
                        /\ m.type = "error"
                        /\ Ahead(Data("all", m))' \/ (scanner'.data = <<Data("all", m)>> /\ wire' \in {<< >>, <<Blank>>})
    BY <1>2 DEF ErrorIsTold
  <2>1. ~ scanner.overlong
    BY DEF Flow, OverlongIsTold
  <2>2. PICK m \in Messages :
          /\ m.type = "error"
          /\ Ahead(Data("all", m)) \/ (scanner.data = <<Data("all", m)>> /\ wire \in {<< >>, <<Blank>>})
    BY <1>7 DEF Flow, ErrorIsTold
  <2>3. CASE Ahead(Data("all", m))
    <3>1. \/ l.kind = "event" /\ (scanner'.data = scanner.data => Ahead(Data("all", m))')
          \/ l = Data("all", m) /\ wire' = <<Blank>>
      BY <1>2, <1>3, <1>4, <2>3, Nearer
    <3>2. CASE l.kind = "event"
      <4>1. l # Data("all", m)
        <5>1. Data("all", m).kind = "data"
          BY DEF Data, Line
        <5> QED BY <3>2, <5>1
      <4> QED BY <1>6, <2>1, <2>2, <3>1, <3>2, <4>1 DEF IsScanned
    <3>3. CASE l = Data("all", m) /\ wire' = <<Blank>>
      <4>1. l.kind = "data" /\ scanner.data = << >>
        BY <2>3, <3>3 DEF Data, Line, Ahead
      <4>2. IsAppended(scanner'.data, << >>, l)
        BY <1>6, <2>1, <4>1 DEF IsScanned
      <4>3. scanner'.data = <<l>>
        BY <4>2 DEF IsAppended
      <4> QED BY <2>2, <3>3, <4>3
    <3> QED BY <3>1, <3>2, <3>3
  <2>4. CASE scanner.data = <<Data("all", m)>> /\ wire \in {<< >>, <<Blank>>}
    <3>1. l.kind = "blank"
      <4>1. wire = <<Blank>>
        BY <1>2, <2>4
      <4>2. wire[1] = Blank
        BY <4>1, Single
      <4> QED BY <1>4, <2>2, <4>2, LineKinds
    <3> QED BY <1>7, <2>1, <2>2, <2>4, <3>1
  <2> QED BY <2>2, <2>3, <2>4
<1>14. OverlongIsTold'
  <2>0. \A i \in DOMAIN wire' : wire'[i].kind = "overlong" => fault' = "overlong"
    <3>1. \A i \in DOMAIN wire : wire[i].kind = "overlong" => fault = "overlong"
      BY DEF Flow, OverlongIsTold
    <3>2. \A i \in DOMAIN wire' : i + 1 \in DOMAIN wire /\ wire'[i] = wire[i + 1]
      BY <1>3, <1>4
    <3> QED BY <1>2, <3>1, <3>2
  <2>1. CASE scanner.overlong
    BY <1>2, <1>6, <2>0, <2>1 DEF Flow, OverlongIsTold, IsScanned
  <2>2. CASE ~ scanner.overlong /\ fault # "overlong"
    <3>1. l.kind # "overlong"
      <4>1. \A i \in DOMAIN wire : wire[i].kind # "overlong"
        BY <2>2 DEF Flow, OverlongIsTold
      <4> QED BY <1>3, <1>4, <4>1
    <3> QED BY <1>2, <1>5, <1>6, <2>0, <2>2, <3>1 DEF OverlongIsTold, IsScanned
  <2>3. CASE ~ scanner.overlong /\ fault = "overlong"
    <3>1. Ahead(Overlong)
      BY <2>3 DEF Flow, OverlongIsTold
    <3>2. \/ l.kind = "event" /\ (scanner'.data = scanner.data => Ahead(Overlong)')
          \/ l = Overlong
      BY <1>2, <1>3, <1>4, <3>1, Nearer
    <3>3. Overlong.kind = "overlong"
      BY DEF Overlong, Line
    <3> QED BY <1>2, <1>6, <2>0, <2>3, <3>2, <3>3 DEF OverlongIsTold, IsScanned
  <2> QED BY <2>1, <2>2, <2>3
<1>15. AsTransportsHasIt'
  BY <1>2, NoOutcomeYet
<1> QED BY <1>9, <1>10, <1>11, <1>12, <1>13, <1>14, <1>15 DEF Flow

------------------------------------------------------------------------------
(* The table of the transports.                                            *)

\* What the table has for a came, which came for a request without a contract.
MadeOf(p, stream, sse, came) ==
  Generated([provider |-> p, op |-> "generate", contract |-> FALSE, stream |-> stream],
            [status |-> 200, sse |-> sse, body |-> came])

\* What is made of an answer to x with the fault why agrees with the table; taken: it was read as a stream.
Agrees(x, why, taken, o) ==
  LET class == IF o.text = << >> THEN "empty" ELSE "prose"
      sse   == IF Family(x.llm) = "cloud" THEN x.form = "stream" ELSE taken
      came  == CASE why = "broken" -> "unreadable"
                 [] why # "broken" /\ x.form = "stream" /\ ~ sse -> "garbled"
                 [] why = "overlong" /\ sse -> "overlong"
                 [] why = "error" /\ sse -> IF o.text = << >> THEN "failed" ELSE "interrupted"
                 [] OTHER -> class
      out   == MadeOf(Family(x.llm), x.stream, sse, came)
  IN  o.error = out.error /\ (IsOK(out) => (o.text = << >> <=> out.text = "empty"))

\* It is that which AsTransportsHasIt says.
LEMMA Agreement ==
  ASSUME Agrees(exchange, fault, TakenForStream, outcome)'
  PROVE  AsTransportsHasIt'
BY DEF Agrees, MadeOf, AsTransportsHasIt, SeenByTransports

\* The errors of the transports are errors.
LEMMA Codes502 ==
  /\ \A p : BadAnswer(p) # NoError /\ Failed(p) # NoError
  /\ EmptyAnswer # NoError
<1>1. NoError.status = 0 /\ EmptyAnswer.status = 502 /\ \A p : BadAnswer(p).status = 502 /\ Failed(p).status = 502
  BY DEF NoError, EmptyAnswer, BadAnswer, Failed, Error
<1> QED BY <1>1

\* What the transports make of a came, for a request without a contract.
LEMMA CodexTable ==
  ASSUME NEW stream, NEW sse, NEW came, NEW out,
         out = MadeOf("openai", stream, sse, came)
  PROVE  /\ came \in {"unreadable", "overlong"} => out.error = BadAnswer("openai")
         /\ came = "interrupted" => out.error = NoError /\ out.text = "prose"
         /\ came \in {"garbled", "failed"} => out.error = NoError /\ out.text = "empty"
         /\ came \in {"empty", "prose"} => out.error = NoError /\ out.text = came
<1>1. out = CodexText([status |-> 200, sse |-> sse, body |-> came])
  BY DEF MadeOf, Generated, SendCodexResponse, Contracted
<1> QED BY <1>1 DEF CodexText, Texts, Err, OK

\* LM Studio.
LEMMA LMStudioTable ==
  ASSUME NEW stream, NEW sse, NEW came, NEW out,
         out = MadeOf("lmstudio", stream, sse, came)
  PROVE  /\ came = "unreadable" => out.error = BadAnswer("lmstudio")
         /\ came = "overlong" => out.error = BadAnswer("openai")
         /\ came = "interrupted" => out.error = NoError /\ out.text = "prose"
         /\ came = "failed" => out.error = NoError /\ out.text = "empty"
         /\ came = "garbled" /\ ~ sse => out.error = BadAnswer("lmstudio")
         /\ came \in {"empty", "prose"} => out.error = NoError /\ out.text = came
<1>1. out = LMStudioText([status |-> 200, sse |-> sse, body |-> came])
  BY DEF MadeOf, Generated, SendResponse, Contracted
<1> QED BY <1>1 DEF LMStudioText, Texts, Err, OK

CloudHas(stream, sse, came, out) ==
  /\ came = "unreadable" => out.error = BadAnswer("cloud")
  /\ ~ stream /\ sse => out.error = BadAnswer("cloud")
  /\ stream /\ came = "overlong" => out.error = BadAnswer("cloud")
  /\ stream /\ came \in {"interrupted", "failed"} => out.error = Failed("cloud")
  /\ stream /\ ~ sse /\ came \in {"empty", "prose"} => out.error = EmptyAnswer
  /\ (stream <=> sse) /\ came = "empty" => out.error = EmptyAnswer
  /\ (stream <=> sse) /\ came = "prose" => out.error = NoError /\ out.text = "prose"

\* Anthropic and OpenRouter.
LEMMA CloudTable ==
  ASSUME NEW stream \in BOOLEAN, NEW sse \in BOOLEAN, NEW came
  PROVE  CloudHas(stream, sse, came, MadeOf("cloud", stream, sse, came))
<1> DEFINE c == CloudText([provider |-> "cloud", op |-> "generate", contract |-> FALSE, stream |-> stream],
                          [status |-> 200, sse |-> sse, body |-> came])
<1> DEFINE out == MadeOf("cloud", stream, sse, came)
<1>1. out = IF came = "unreadable" THEN Err(BadAnswer("cloud")) ELSE IF c = OK("empty") THEN Err(EmptyAnswer) ELSE c
  BY DEF MadeOf, Generated, CloudSend, Contracted, NonEmpty
<1>2. came # "unreadable" =>
        /\ ~ stream /\ sse => c = Err(BadAnswer("cloud"))
        /\ stream /\ came = "overlong" => c = Err(BadAnswer("cloud"))
        /\ stream /\ came \in {"interrupted", "failed"} => c = Err(Failed("cloud"))
        /\ stream /\ ~ sse /\ came \in {"empty", "prose"} => c = OK("empty")
        /\ stream /\ sse /\ came \in {"empty", "prose"} => c = OK(came)
        /\ ~ stream /\ ~ sse /\ came \in {"empty", "prose"} => c = OK(came)
  BY DEF CloudText, Texts
<1> HIDE DEF c, out
<1>3. /\ \A e : Err(e).error = e
      /\ \A t : OK(t).error = NoError /\ OK(t).text = t
      /\ \A e : e # NoError => Err(e) # OK("empty")
  BY DEF Err, OK
<1>4. OK("prose") # OK("empty")
  BY <1>3
<1>5. CloudHas(stream, sse, came, out)
  BY <1>1, <1>2, <1>3, <1>4, Codes502 DEF CloudHas
<1> QED BY <1>5 DEF out

\* How the came of an answer to x is described.
Described(x, why, sse, o, came) ==
  /\ why = "broken" => came = "unreadable"
  /\ why # "broken" /\ x.form = "stream" /\ ~ sse => came = "garbled"
  /\ why = "overlong" /\ sse => came = "overlong"
  /\ why = "error" /\ sse => came = IF o.text = << >> THEN "failed" ELSE "interrupted"
  /\ why \notin {"broken", "overlong", "error"} /\ (sse \/ x.form # "stream") =>
       came = IF o.text = << >> THEN "empty" ELSE "prose"

Fits(o, out) == o.error = out.error /\ (IsOK(out) => (o.text = << >> <=> out.text = "empty"))

\* What is needed for it, whatever describes the body.
LEMMA AgreesIf ==
  ASSUME NEW x, NEW why, NEW taken \in BOOLEAN, NEW o, NEW fam, fam = Family(x.llm), NEW sse \in BOOLEAN,
         fam = "cloud" => sse = (x.form = "stream"), fam # "cloud" => sse = taken,
         \A came : Described(x, why, sse, o, came) => Fits(o, MadeOf(fam, x.stream, sse, came))
  PROVE  Agrees(x, why, taken, o)
<1> DEFINE class  == IF o.text = << >> THEN "empty" ELSE "prose"
           failed == IF o.text = << >> THEN "failed" ELSE "interrupted"
           came   == CASE why = "broken" -> "unreadable"
                       [] why # "broken" /\ x.form = "stream" /\ ~ sse -> "garbled"
                       [] why = "overlong" /\ sse -> "overlong"
                       [] why = "error" /\ sse -> failed
                       [] OTHER -> class
<1>0. sse = IF fam = "cloud" THEN x.form = "stream" ELSE taken
  OBVIOUS
<1>1. Agrees(x, why, taken, o) <=> Fits(o, MadeOf(fam, x.stream, sse, came))
  BY <1>0 DEF Agrees, Fits
<1>2. Described(x, why, sse, o, came)
  BY DEF Described
<1> HIDE DEF came
<1> QED BY <1>1, <1>2

\* Codex agrees with its table.
LEMMA CodexAgrees ==
  ASSUME NEW x, x.llm = "openai", NEW why, NEW taken \in BOOLEAN, taken => x.form = "stream", NEW o,
         \/ why \in {"broken"} \cup (IF taken THEN {"overlong"} ELSE {}) /\ o.error = BadAnswer("openai")
         \/ why \notin {"broken", "overlong"} /\ taken /\ o.error = NoError
         \/ why # "broken" /\ ~ taken /\ x.form = "stream" /\ o.error = NoError /\ o.text = << >>
         \/ why \notin {"broken", "overlong", "error"} /\ x.form = "json" /\ o.error = NoError
  PROVE  Agrees(x, why, taken, o)
<1>1. Family(x.llm) = "openai"
  BY DEF Family
<1>2. SUFFICES ASSUME NEW came, Described(x, why, taken, o, came), NEW out, out = MadeOf("openai", x.stream, taken, came)
               PROVE  Fits(o, out)
  BY <1>1, AgreesIf
<1>3. /\ came \in {"unreadable", "overlong"} => out.error = BadAnswer("openai")
      /\ came = "interrupted" => out.error = NoError /\ out.text = "prose"
      /\ came \in {"garbled", "failed"} => out.error = NoError /\ out.text = "empty"
      /\ came \in {"empty", "prose"} => out.error = NoError /\ out.text = came
  BY <1>2, CodexTable
<1> QED BY <1>2, <1>3, Codes502 DEF Described, Fits, IsOK

\* LM Studio does.
LEMMA LMStudioAgrees ==
  ASSUME NEW x, x.llm = "lmstudio", NEW why, NEW taken \in BOOLEAN, taken => x.form = "stream", NEW o,
         \/ why = "broken" /\ o.error = BadAnswer("lmstudio")
         \/ why = "overlong" /\ taken /\ o.error = BadAnswer("openai")
         \/ why \notin {"broken", "overlong"} /\ taken /\ o.error = NoError
         \/ why # "broken" /\ ~ taken /\ x.form = "stream" /\ o.error = BadAnswer("lmstudio")
         \/ why \notin {"broken", "overlong", "error"} /\ x.form = "json" /\ o.error = NoError
  PROVE  Agrees(x, why, taken, o)
<1>1. Family(x.llm) = "lmstudio"
  BY DEF Family
<1>2. SUFFICES ASSUME NEW came, Described(x, why, taken, o, came), NEW out, out = MadeOf("lmstudio", x.stream, taken, came)
               PROVE  Fits(o, out)
  BY <1>1, AgreesIf
<1>3. /\ came = "unreadable" => out.error = BadAnswer("lmstudio")
      /\ came = "overlong" => out.error = BadAnswer("openai")
      /\ came = "interrupted" => out.error = NoError /\ out.text = "prose"
      /\ came = "failed" => out.error = NoError /\ out.text = "empty"
      /\ came = "garbled" /\ ~ taken => out.error = BadAnswer("lmstudio")
      /\ came \in {"empty", "prose"} => out.error = NoError /\ out.text = came
  BY <1>2, LMStudioTable
<1> QED BY <1>2, <1>3, Codes502 DEF Described, Fits, IsOK

\* Cloud reads as a stream what it asked to be one.
LEMMA CloudAgrees ==
  ASSUME NEW x, Family(x.llm) = "cloud", NEW stream \in BOOLEAN, stream = x.stream, NEW sse \in BOOLEAN,
         sse = (x.form = "stream"), NEW why, NEW o,
         ~ sse => why \in {"none", "broken"},
         \/ why = "broken" /\ o.error = BadAnswer("cloud")
         \/ why # "broken" /\ sse /\ ~ stream /\ o.error = BadAnswer("cloud")
         \/ why = "overlong" /\ sse /\ stream /\ o.error = BadAnswer("cloud")
         \/ why = "error" /\ sse /\ stream /\ o.error = Failed("cloud")
         \/ why \notin {"broken", "overlong", "error"} /\ (sse => stream) /\ o.text = << >> /\ o.error = EmptyAnswer
         \/ why \notin {"broken", "overlong", "error"} /\ (sse <=> stream) /\ o.text # << >> /\ o.error = NoError
  PROVE  Agrees(x, why, stream, o)
<1>2. ASSUME NEW came, Described(x, why, sse, o, came)
      PROVE  Fits(o, MadeOf("cloud", stream, sse, came))
  <2> DEFINE out == MadeOf("cloud", stream, sse, came)
  <2>1. CloudHas(stream, sse, came, out)
    BY CloudTable
  <2> HIDE DEF out
  <2>2. x.form = "stream" <=> sse
    OBVIOUS
  <2>3. Fits(o, out)
    BY <1>2, <2>1, <2>2, Codes502 DEF CloudHas, Described, Fits, IsOK
  <2> QED BY <2>3 DEF out
<1> QED BY <1>2, AgreesIf

------------------------------------------------------------------------------
(* The end of an answer.                                                   *)

\* An answer that breaks off is at its end.
Unbroken == outcome = Pending => fault # "broken"

\* What is known of an exchange.
LEMMA ExchangeIs ==
  ASSUME NEW x \in Exchanges
  PROVE  /\ x.llm \in LLMs /\ x.stream \in BOOLEAN /\ x.form \in {"stream", "json"} /\ x.declared \in BOOLEAN
         /\ x.answer \in Seq(Seq(Pieces)) /\ x.framing \in {"line", "member", "both", "none"}
         /\ x.llm = "openai" => x.stream
<1>1. /\ x.llm \in LLMs /\ x.stream \in BOOLEAN /\ x.form \in {"stream", "json"} /\ x.declared \in BOOLEAN
      /\ x.answer \in Answers /\ x.framing \in {"line", "member", "both", "none"}
      /\ x.llm = "openai" => x.stream
  BY DEF Exchanges
<1> QED BY <1>1, AnswersAssumption

\* What a return has.
LEMMA ReturnsType ==
  ASSUME NEW e, NEW t \in Seq(Pieces), NEW d \in Seq(Seq(Pieces)), NEW o, o = Returns(e, t, d)
  PROVE  o.error = e /\ o.text = t /\ o.deltas = d /\ o.text \in Seq(Pieces) /\ o.deltas \in Seq(Seq(Pieces))
BY DEF Returns

\* No text is a text as well.
LEMMA NothingIsText ==
  \E t \in Seq(Pieces), d \in Seq(Seq(Pieces)) : t = << >> /\ d = << >>
<1>1. << >> \in Seq(Pieces) /\ << >> \in Seq(Seq(Pieces))
  OBVIOUS
<1> QED BY <1>1

\* What a failure has.
LEMMA FailsType ==
  ASSUME NEW e, NEW o, o = Fails(e)
  PROVE  o.error = e /\ o.text = << >> /\ o.text \in Seq(Pieces) /\ o.deltas \in Seq(Seq(Pieces))
<1>1. PICK t \in Seq(Pieces), d \in Seq(Seq(Pieces)) : t = << >> /\ d = << >>
  BY NothingIsText
<1>2. o = Returns(e, t, d)
  BY <1>1 DEF Fails
<1>3. t \in Seq(Pieces) /\ d \in Seq(Seq(Pieces))
  BY <1>1
<1>4. o.error = e /\ o.text = t /\ o.deltas = d
  BY <1>2, <1>3, ReturnsType
<1> QED BY <1>1, <1>3, <1>4

\* What a return of the cloud has.
LEMMA CloudReturnsType ==
  ASSUME NEW t \in Seq(Pieces), NEW o, o = CloudReturns(t)
  PROVE  /\ o.text \in Seq(Pieces) /\ o.deltas \in Seq(Seq(Pieces)) /\ o.text = t
         /\ t = << >> => o.error = EmptyAnswer
         /\ t # << >> => o.error = NoError
<1>1. CASE t = << >>
  BY <1>1, FailsType DEF CloudReturns
<1>2. CASE t # << >>
  <2>1. PICK d \in Seq(Seq(Pieces)) : d = <<t>>
    <3>1. <<t>> \in Seq(Seq(Pieces))
      OBVIOUS
    <3> QED BY <3>1
  <2>2. o = Returns(NoError, t, d)
    BY <1>2, <2>1 DEF CloudReturns
  <2> QED BY <1>2, <2>2, ReturnsType
<1> QED BY <1>1, <1>2

\* What has been told at the end of a stream.
LEMMA EventsAreTold ==
  ASSUME Flow, wire = << >>, ~ scanner.overlong
  PROVE  /\ AreTold(Events, fault)
         /\ fault = "error" => HasError(Events)
<1>1. PICK m \in Messages : MayBe(m, fault) /\ Gathering(m)
  BY DEF Flow, Place
<1>2. scanner \in Scanners /\ AreTold(scanner.events, fault)
  BY DEF Flow, Shape
<1>3. scanner.eventType \in {"", m.type} /\ scanner.data \in Seq(DataOf(m))
  BY <1>1 DEF Gathering
<1>4. /\ AreTold(Flushed(scanner), fault)
      /\ HasError(scanner.events) => HasError(Flushed(scanner))
      /\ m.type = "error" /\ scanner.data = <<Data("all", m)>> => HasError(Flushed(scanner))
  BY <1>1, <1>2, <1>3, Flushing
<1>5. ASSUME NEW k \in Messages, scanner.data = <<Data("all", k)>>
      PROVE  k = m
  <2>1. Data("all", k) \in DataOf(m)
    BY <1>3, <1>5, OnlyOne
  <2>2. Data("all", k).message = k /\ k # NotJSON
    BY MessageTypes DEF Data, Line
  <2> QED BY <2>1, <2>2, DataMessage
<1>6. fault = "error" => HasError(Flushed(scanner))
  <2> SUFFICES ASSUME fault = "error"
               PROVE  HasError(Flushed(scanner))
    OBVIOUS
  <2>1. \A l : ~ Ahead(l)
    <3>1. Len(wire) = 0
      OBVIOUS
    <3> QED BY <3>1, LongIsAhead
  <2> QED BY <1>4, <1>5, <2>1 DEF Flow, ErrorIsTold
<1> QED BY <1>4, <1>6 DEF Events

\* Where an error is not the fault none is told.
LEMMA NoErrorTold ==
  ASSUME NEW events, NEW why, AreTold(events, why), why # "error"
  PROVE  ~ \E i \in DOMAIN events : events[i].type = "error" \/ events[i].payload.type = "error"
BY DEF AreTold, IsTold

\* With one of these errors, or none, something has been asked.
LEMMA Answered ==
  ASSUME NEW o, o.error = NoError \/ o.error = EmptyAnswer \/ \E p : o.error = BadAnswer(p) \/ o.error = Failed(p)
  PROVE  o # Unasked
<1>1. Unasked.error.code = "unasked" /\ Unasked.error.status = 0
  BY FailsType DEF Unasked, Error
<1>2. NoError.code = ""
  BY DEF NoError, Error
<1>3. EmptyAnswer.status = 502 /\ \A p : Failed(p).status = 502 /\ BadAnswer(p).status = 502
  BY DEF EmptyAnswer, Failed, BadAnswer, Error
<1>4. CASE o.error = NoError
  BY <1>1, <1>2, <1>4
<1>5. CASE o.error = EmptyAnswer
  BY <1>1, <1>3, <1>5
<1>6. ASSUME NEW p, o.error = BadAnswer(p) \/ o.error = Failed(p)
      PROVE  o # Unasked
  BY <1>1, <1>3, <1>6
<1> QED BY <1>4, <1>5, <1>6

\* The end of an answer of codex.
LEMMA CodexEnds ==
  ASSUME Flow, Unbroken, wire = << >>, outcome = Pending, exchange \in Exchanges, exchange.llm = "openai",
         NEW o, o = IF TakenForStream THEN StreamOutcome ELSE JSONOutcome
  PROVE  o # Unasked /\ o.text \in Seq(Pieces) /\ o.deltas \in Seq(Seq(Pieces)) /\ Agrees(exchange, fault, TakenForStream, o)
<1>1. /\ fault # "broken" /\ exchange.form \in {"stream", "json"} /\ exchange.answer \in Seq(Seq(Pieces))
      /\ fault = "overlong" <=> scanner.overlong
      /\ exchange.form = "json" => fault = "none"
  <2>1. \A l : ~ Ahead(l)
    <3>1. Len(wire) = 0
      OBVIOUS
    <3> QED BY <3>1, LongIsAhead
  <2> QED BY <2>1, ExchangeIs DEF Unbroken, Flow, OverlongIsTold, Shape, Scanners
<1>2. Family(exchange.llm) = "openai"
  BY DEF Family
<1>3. TakenForStream \in BOOLEAN /\ (TakenForStream => exchange.form = "stream")
  BY <1>2, ExchangeIs DEF TakenForStream
<1>4. CASE TakenForStream /\ scanner.overlong
  <2>1. o = Fails(BadAnswer("openai"))
    BY <1>2, <1>4 DEF StreamOutcome
  <2>2. o.error = BadAnswer("openai") /\ o.text \in Seq(Pieces) /\ o.deltas \in Seq(Seq(Pieces))
    BY <2>1, FailsType
  <2> QED BY <1>1, <1>3, <1>4, <2>2, CodexAgrees, Answered
<1>5. CASE TakenForStream /\ ~ scanner.overlong
  <2> DEFINE t == CollectOutputText(Events)
             d == TextOfEach(Payloads(Events, "delta"))
  <2>1. o = Returns(NoError, t, d)
    BY <1>2, <1>5 DEF StreamOutcome
  <2>2. t \in Seq(Pieces) /\ d \in Seq(Seq(Pieces))
    BY <1>5, EventsAreTold, CodexAnswers, CodexDeltas
  <2> HIDE DEF t, d
  <2>3. o.error = NoError /\ o.text \in Seq(Pieces) /\ o.deltas \in Seq(Seq(Pieces))
    BY <2>1, <2>2, ReturnsType
  <2> QED BY <1>1, <1>3, <1>5, <2>3, CodexAgrees, Answered
<1>6. CASE ~ TakenForStream /\ exchange.form = "stream"
  <2>2. PICK t \in Seq(Pieces), d \in Seq(Seq(Pieces)) : t = << >> /\ d = << >>
    BY NothingIsText
  <2>1. o = Returns(NoError, t, d)
    BY <1>6, <2>2 DEF JSONOutcome
  <2>4. t \in Seq(Pieces) /\ d \in Seq(Seq(Pieces))
    BY <2>2
  <2>5. o.error = NoError /\ o.text = t /\ o.text \in Seq(Pieces) /\ o.deltas \in Seq(Seq(Pieces))
    BY <2>1, <2>4, ReturnsType
  <2>3. o.error = NoError /\ o.text = << >> /\ o.text \in Seq(Pieces) /\ o.deltas \in Seq(Seq(Pieces))
    BY <2>2, <2>5
  <2> QED BY <1>1, <1>3, <1>6, <2>3, CodexAgrees, Answered
<1>7. CASE ~ TakenForStream /\ exchange.form = "json"
  <2> DEFINE t == FirstText(exchange.answer)
  <2>2. t \in Seq(Pieces)
    BY <1>1, FirstTextType
  <2>4. PICK d \in Seq(Seq(Pieces)) : d = << >>
    BY NothingIsText
  <2>1. o = Returns(NoError, t, d)
    BY <1>2, <1>7, <2>4 DEF JSONOutcome
  <2> HIDE DEF t
  <2>3. o.error = NoError /\ o.text \in Seq(Pieces) /\ o.deltas \in Seq(Seq(Pieces))
    BY <2>1, <2>2, ReturnsType
  <2> QED BY <1>1, <1>3, <1>7, <2>3, CodexAgrees, Answered
<1> QED BY <1>1, <1>3, <1>4, <1>5, <1>6, <1>7

\* The end of an answer of LM Studio.
LEMMA LMStudioEnds ==
  ASSUME Flow, Unbroken, wire = << >>, outcome = Pending, exchange \in Exchanges, exchange.llm = "lmstudio",
         NEW o, o = IF TakenForStream THEN StreamOutcome ELSE JSONOutcome
  PROVE  o # Unasked /\ o.text \in Seq(Pieces) /\ o.deltas \in Seq(Seq(Pieces)) /\ Agrees(exchange, fault, TakenForStream, o)
<1>1. /\ fault # "broken" /\ exchange.form \in {"stream", "json"} /\ exchange.answer \in Seq(Seq(Pieces))
      /\ fault = "overlong" <=> scanner.overlong
      /\ exchange.form = "json" => fault = "none"
  <2>1. \A l : ~ Ahead(l)
    <3>1. Len(wire) = 0
      OBVIOUS
    <3> QED BY <3>1, LongIsAhead
  <2> QED BY <2>1, ExchangeIs DEF Unbroken, Flow, OverlongIsTold, Shape, Scanners
<1>2. Family(exchange.llm) = "lmstudio"
  BY DEF Family
<1>3. TakenForStream \in BOOLEAN /\ (TakenForStream => exchange.form = "stream")
  BY <1>2, ExchangeIs DEF TakenForStream
<1>4. CASE TakenForStream /\ scanner.overlong
  <2>1. o = Fails(BadAnswer("openai"))
    BY <1>2, <1>4 DEF StreamOutcome
  <2>2. o.error = BadAnswer("openai") /\ o.text \in Seq(Pieces) /\ o.deltas \in Seq(Seq(Pieces))
    BY <2>1, FailsType
  <2> QED BY <1>1, <1>3, <1>4, <2>2, LMStudioAgrees, Answered
<1>5. CASE TakenForStream /\ ~ scanner.overlong
  <2> DEFINE d == ChatDeltas(Events)
             t == Flat(d)
  <2>1. o = Returns(NoError, t, d)
    BY <1>2, <1>5 DEF StreamOutcome
  <2>2. d \in Seq(Seq(Pieces))
    BY <1>5, EventsAreTold, ChosenTexts
  <2> HIDE DEF d
  <2>3. t \in Seq(Pieces)
    BY <2>2, FlatType
  <2> HIDE DEF t
  <2>4. o.error = NoError /\ o.text \in Seq(Pieces) /\ o.deltas \in Seq(Seq(Pieces))
    BY <2>1, <2>2, <2>3, ReturnsType
  <2> QED BY <1>1, <1>3, <1>5, <2>4, LMStudioAgrees, Answered
<1>6. CASE ~ TakenForStream /\ exchange.form = "stream"
  <2>1. o = Fails(BadAnswer("lmstudio"))
    BY <1>2, <1>6 DEF JSONOutcome
  <2>2. o.error = BadAnswer("lmstudio") /\ o.text \in Seq(Pieces) /\ o.deltas \in Seq(Seq(Pieces))
    BY <2>1, FailsType
  <2> QED BY <1>1, <1>3, <1>6, <2>2, LMStudioAgrees, Answered
<1>7. CASE ~ TakenForStream /\ exchange.form = "json"
  <2> DEFINE t == Flat(exchange.answer)
  <2>1. t \in Seq(Pieces)
    BY <1>1, FlatType
  <2>2. o = Returns(NoError, t, <<t>>)
    BY <1>2, <1>7 DEF JSONOutcome
  <2> HIDE DEF t
  <2>3. PICK d \in Seq(Seq(Pieces)) : d = <<t>>
    <3>1. <<t>> \in Seq(Seq(Pieces))
      BY <2>1
    <3> QED BY <3>1
  <2>4. o = Returns(NoError, t, d)
    BY <2>2, <2>3
  <2>5. o.error = NoError /\ o.text \in Seq(Pieces) /\ o.deltas \in Seq(Seq(Pieces))
    BY <2>1, <2>4, ReturnsType
  <2> QED BY <1>1, <1>3, <1>7, <2>5, LMStudioAgrees, Answered
<1> QED BY <1>1, <1>3, <1>4, <1>5, <1>6, <1>7

\* What a stream of the cloud comes to.
LEMMA ParseStreamIs ==
  ASSUME NEW events, NEW why, AreTold(events, why), why = "error" => HasError(events), NEW o, o = ParseStream(events)
  PROVE  /\ o.text \in Seq(Pieces) /\ o.deltas \in Seq(Seq(Pieces))
         /\ why = "error" => o.error = Failed("cloud")
         /\ why # "error" => o.error = IF o.text = << >> THEN EmptyAnswer ELSE NoError
<1>1. CASE why = "error"
  <2>1. \E i \in DOMAIN events : events[i].type = "error" \/ events[i].payload.type = "error"
    BY <1>1 DEF HasError
  <2>2. o = Fails(Failed("cloud"))
    BY <2>1 DEF ParseStream
  <2> QED BY <1>1, <2>2, FailsType
<1>2. CASE why # "error"
  <2> DEFINE t == Flat(IF exchange.llm = "anthropic" THEN AnthropicDeltas(events) ELSE ChatDeltas(events))
  <2>1. o = CloudReturns(t)
    BY <1>2, NoErrorTold DEF ParseStream
  <2>2. t \in Seq(Pieces)
    BY ChosenTexts, FlatType
  <2> HIDE DEF t
  <2> QED BY <1>2, <2>1, <2>2, CloudReturnsType
<1> QED BY <1>1, <1>2

\* No text comes of no events.
LEMMA NothingChosen ==
  ASSUME NEW events, events = << >>, NEW t, t = << >>
  PROVE  ParseStream(events) = CloudReturns(t)
<1>1. \A P : Selected(<< >>, P) = << >>
  BY SelectedGathers, GatheringStep
<1>2. \A a : a = << >> => TextOfEach(a) = << >>
  BY DEF TextOfEach
<1>3. AnthropicDeltas(events) = << >>
  BY <1>1, <1>2 DEF AnthropicDeltas, Chosen
<1>4. ChatDeltas(events) = << >>
  BY <1>1, <1>2 DEF ChatDeltas, Chosen
<1>5. Flat(<< >>) = << >>
  BY DEF Flat, FlattenSeq
<1>6. ~ \E i \in DOMAIN events : events[i].type = "error" \/ events[i].payload.type = "error"
  OBVIOUS
<1> QED BY <1>3, <1>4, <1>5, <1>6 DEF ParseStream

\* The end of an answer of Anthropic or OpenRouter.
LEMMA CloudEnds ==
  ASSUME Flow, Unbroken, wire = << >>, outcome = Pending, exchange \in Exchanges, exchange.llm \in {"anthropic", "openrouter"},
         NEW o, o = IF TakenForStream THEN StreamOutcome ELSE JSONOutcome
  PROVE  o # Unasked /\ o.text \in Seq(Pieces) /\ o.deltas \in Seq(Seq(Pieces)) /\ Agrees(exchange, fault, TakenForStream, o)
<1>1. /\ fault # "broken" /\ exchange.form \in {"stream", "json"} /\ exchange.answer \in Seq(Seq(Pieces))
      /\ fault = "overlong" <=> scanner.overlong
      /\ exchange.form = "json" => fault = "none"
  <2>1. \A l : ~ Ahead(l)
    <3>1. Len(wire) = 0
      OBVIOUS
    <3> QED BY <3>1, LongIsAhead
  <2> QED BY <2>1, ExchangeIs DEF Unbroken, Flow, OverlongIsTold, Shape, Scanners
<1>2. Family(exchange.llm) = "cloud" /\ exchange.llm # "openai" /\ exchange.llm # "lmstudio"
  BY DEF Family
<1>3. TakenForStream \in BOOLEAN /\ TakenForStream = exchange.stream
  BY <1>2, ExchangeIs DEF TakenForStream
<1>4. PICK sse \in BOOLEAN : sse = (exchange.form = "stream")
  OBVIOUS
<1>5. SUFFICES /\ o.text \in Seq(Pieces) /\ o.deltas \in Seq(Seq(Pieces))
               /\ \/ sse /\ ~ TakenForStream /\ o.error = BadAnswer("cloud")
                  \/ fault = "overlong" /\ sse /\ TakenForStream /\ o.error = BadAnswer("cloud")
                  \/ fault = "error" /\ sse /\ TakenForStream /\ o.error = Failed("cloud")
                  \/ fault \notin {"broken", "overlong", "error"} /\ (sse => TakenForStream) /\ o.text = << >> /\ o.error = EmptyAnswer
                  \/ fault \notin {"broken", "overlong", "error"} /\ (sse <=> TakenForStream) /\ o.text # << >> /\ o.error = NoError
  <2>1. ~ sse => fault \in {"none", "broken"}
    BY <1>1, <1>4
  <2>2. o # Unasked
    BY Answered
  <2> QED BY <1>1, <1>2, <1>3, <1>4, <2>1, <2>2, CloudAgrees
<1>6. CASE TakenForStream /\ scanner.overlong
  <2>1. o = Fails(BadAnswer("cloud"))
    BY <1>2, <1>6 DEF StreamOutcome
  <2>2. o.error = BadAnswer("cloud") /\ o.text \in Seq(Pieces) /\ o.deltas \in Seq(Seq(Pieces))
    BY <2>1, FailsType
  <2>3. sse
    BY <1>1, <1>4, <1>6
  <2> QED BY <1>1, <1>6, <2>2, <2>3
<1>7. CASE TakenForStream /\ ~ scanner.overlong /\ sse
  <2>1. o = ParseStream(Events)
    BY <1>2, <1>7 DEF StreamOutcome
  <2>2. AreTold(Events, fault) /\ (fault = "error" => HasError(Events))
    BY <1>7, EventsAreTold
  <2>3. /\ o.text \in Seq(Pieces) /\ o.deltas \in Seq(Seq(Pieces))
        /\ fault = "error" => o.error = Failed("cloud")
        /\ fault # "error" => o.error = IF o.text = << >> THEN EmptyAnswer ELSE NoError
    BY <2>1, <2>2, ParseStreamIs
  <2> QED BY <1>1, <1>7, <2>3
\* An answer that is no stream has no events.
<1>8. CASE TakenForStream /\ ~ sse
  <2>1. scanner = NoScanner /\ exchange.form = "json" /\ ~ scanner.overlong
    BY <1>1, <1>4, <1>8 DEF Flow, Shape, NoScanner
  <2>2. Events = << >>
    BY <2>1 DEF Events, Flushed, NoScanner
  <2>3. o = ParseStream(Events)
    BY <1>2, <1>8, <2>1 DEF StreamOutcome
  <2>4. PICK t \in Seq(Pieces), d \in Seq(Seq(Pieces)) : t = << >> /\ d = << >>
    BY NothingIsText
  <2>5. o = CloudReturns(t)
    BY <2>2, <2>3, <2>4, NothingChosen
  <2>6. t \in Seq(Pieces)
    BY <2>4
  <2>7. /\ o.text \in Seq(Pieces) /\ o.deltas \in Seq(Seq(Pieces)) /\ o.text = t
        /\ t = << >> => o.error = EmptyAnswer
    BY <2>5, <2>6, CloudReturnsType
  <2>8. fault = "none"
    BY <1>1, <2>1
  <2> QED BY <1>8, <2>4, <2>7, <2>8
<1>9. CASE ~ TakenForStream /\ sse
  <2>1. o = Fails(BadAnswer("cloud"))
    BY <1>2, <1>4, <1>9 DEF JSONOutcome
  <2>2. o.error = BadAnswer("cloud") /\ o.text \in Seq(Pieces) /\ o.deltas \in Seq(Seq(Pieces))
    BY <2>1, FailsType
  <2> QED BY <1>9, <2>2
<1>10. CASE ~ TakenForStream /\ ~ sse
  <2> DEFINE t == Flat(exchange.answer)
  <2>1. exchange.form = "json" /\ fault = "none"
    BY <1>1, <1>4, <1>10
  <2>2. t \in Seq(Pieces)
    BY <1>1, FlatType
  <2>3. o = CloudReturns(t)
    BY <1>2, <1>10, <2>1 DEF JSONOutcome
  <2> HIDE DEF t
  <2>4. /\ o.text \in Seq(Pieces) /\ o.deltas \in Seq(Seq(Pieces))
        /\ o.error = IF o.text = << >> THEN EmptyAnswer ELSE NoError
    BY <2>2, <2>3, CloudReturnsType
  <2> QED BY <1>10, <2>1, <2>4
<1> QED BY <1>6, <1>7, <1>8, <1>9, <1>10

\* The transports make of the answer what the table has.
LEMMA EndKeeps ==
  ASSUME Flow, Unbroken, End
  PROVE  Flow'
<1>1. /\ ~ open /\ wire = << >> /\ outcome = Pending /\ UNCHANGED <<exchange, open, todo, fault, wire, seen, scanner>>
      /\ outcome' = IF TakenForStream THEN StreamOutcome ELSE JSONOutcome
  BY DEF End
<1>2. exchange \in Exchanges
  <2>1. Pending # Unasked
    BY DEF Pending, Unasked, Fails, Returns, Error
  <2> QED BY <1>1, <2>1 DEF Flow, Shape
<1>3. exchange.llm \in {"openai", "lmstudio", "anthropic", "openrouter"}
  BY <1>2, ExchangeIs DEF LLMs
<1>4. /\ outcome' # Unasked /\ outcome'.text \in Seq(Pieces) /\ outcome'.deltas \in Seq(Seq(Pieces))
      /\ Agrees(exchange, fault, TakenForStream, outcome')
  BY <1>1, <1>2, <1>3, CodexEnds, LMStudioEnds, CloudEnds
<1>5. StreamTypeOK'
  BY <1>1, <1>4 DEF Flow, StreamTypeOK
<1>6. Shape'
  BY <1>1, <1>2, <1>4 DEF Flow, Shape
<1>6a. AsTransportsHasIt'
  <2>1. (TakenForStream)' = TakenForStream
    BY <1>1 DEF TakenForStream
  <2> QED BY <1>1, <1>4, <2>1, Agreement
<1>7. AreTold(scanner.events, fault)'
  BY <1>1 DEF Flow
<1>8. (scanner.overlong \/ Place)'
  BY <1>1 DEF Flow, Place, Gathering, Clean
<1>9. ErrorIsTold'
  BY <1>1 DEF Flow, ErrorIsTold, Ahead
<1>10. OverlongIsTold'
  BY <1>1 DEF Flow, OverlongIsTold, Ahead
<1> QED BY <1>5, <1>6, <1>6a, <1>7, <1>8, <1>9, <1>10 DEF Flow

\* An answer that breaks off is one that cannot be read, in the table as well.
LEMMA BreakKeeps ==
  ASSUME Flow, Break
  PROVE  Flow'
<1>1. /\ outcome = Pending /\ fault = "none" /\ fault' = "broken" /\ open' = FALSE
      /\ outcome' = Fails(BadAnswer(Family(exchange.llm)))
      /\ UNCHANGED <<exchange, todo, wire, seen, scanner>>
  BY DEF Break
<1>2. exchange \in Exchanges
  <2>1. Pending # Unasked
    BY DEF Pending, Unasked, Fails, Returns, Error
  <2> QED BY <1>1, <2>1 DEF Flow, Shape
<1>3. /\ outcome'.error = BadAnswer(Family(exchange.llm)) /\ outcome'.text = << >>
      /\ outcome'.text \in Seq(Pieces) /\ outcome'.deltas \in Seq(Seq(Pieces))
  BY <1>1, FailsType
<1>4. StreamTypeOK'
  BY <1>1, <1>3 DEF Flow, StreamTypeOK
<1>5. outcome' # Unasked
  BY <1>3, Answered
<1>6. Shape'
  BY <1>1, <1>2, <1>5 DEF Flow, Shape
<1>7. AreTold(scanner.events, fault)'
  BY <1>1, ToldOn DEF Flow
<1>8. (scanner.overlong \/ Place)'
  <2> SUFFICES ASSUME ~ scanner.overlong
               PROVE  Place'
    BY <1>1
  <2>1. PICK m \in Messages : MayBe(m, fault) /\ Gathering(m)
    BY DEF Flow, Place
  <2>2. MayBe(m, fault')
    BY <1>1, <2>1 DEF MayBe
  <2>3. Gathering(m)'
    BY <1>1, <2>1 DEF Gathering
  <2> QED BY <1>1, <2>2, <2>3 DEF Place
<1>9. ErrorIsTold'
  BY <1>1 DEF ErrorIsTold
<1>10. OverlongIsTold'
  BY <1>1 DEF Flow, OverlongIsTold
<1>11. AsTransportsHasIt'
  <2>1. PICK taken \in BOOLEAN : taken = TakenForStream
    <3>1. TakenForStream \in BOOLEAN
      BY <1>2, ExchangeIs DEF TakenForStream
    <3> QED BY <3>1
  <2>2. exchange.llm \in {"openai", "lmstudio", "anthropic", "openrouter"} /\ exchange.stream \in BOOLEAN
    BY <1>2, ExchangeIs DEF LLMs
  <2>3. CASE exchange.llm = "openai"
    <3>1. Family(exchange.llm) = "openai"
      BY <2>3 DEF Family
    <3>2. taken => exchange.form = "stream"
      BY <2>1, <3>1 DEF TakenForStream
    <3>3. Agrees(exchange, fault', taken, outcome')
      BY <1>1, <1>3, <2>3, <3>1, <3>2, CodexAgrees
    <3> QED BY <1>1, <2>1, <3>3, Agreement DEF TakenForStream
  <2>4. CASE exchange.llm = "lmstudio"
    <3>1. Family(exchange.llm) = "lmstudio"
      BY <2>4 DEF Family
    <3>2. taken => exchange.form = "stream"
      BY <2>1, <3>1 DEF TakenForStream
    <3>3. Agrees(exchange, fault', taken, outcome')
      BY <1>1, <1>3, <2>4, <3>1, <3>2, LMStudioAgrees
    <3> QED BY <1>1, <2>1, <3>3, Agreement DEF TakenForStream
  <2>5. CASE exchange.llm \in {"anthropic", "openrouter"}
    <3>1. Family(exchange.llm) = "cloud"
      BY <2>5 DEF Family
    <3>2. taken = exchange.stream
      BY <2>1, <3>1 DEF TakenForStream
    <3>4. PICK sse \in BOOLEAN : sse = (exchange.form = "stream")
      OBVIOUS
    <3>3. Agrees(exchange, fault', taken, outcome')
      BY <1>1, <1>3, <3>1, <3>2, <3>4, CloudAgrees
    <3> QED BY <1>1, <2>1, <3>3, Agreement DEF TakenForStream
  <2> QED BY <2>2, <2>3, <2>4, <2>5
<1> QED BY <1>4, <1>6, <1>7, <1>8, <1>9, <1>10, <1>11 DEF Flow

\* What a provider is to send is made of messages.
LEMMA ScriptType ==
  ASSUME NEW llm, NEW framing, NEW carriers, NEW answer \in Seq(Seq(Pieces))
  PROVE  Script(llm, framing, carriers, answer) \in Seq(TextMessages)
<1> DEFINE is(type, parts) == Message(type, Named(framing), parts)
           delta(piece) == is(IF Chats(llm) THEN "chat" ELSE "delta", << <<piece>> >>)
           deltas(p) == IF "delta" \in carriers THEN [i \in DOMAIN p |-> delta(p[i])] ELSE << >>
           repeated(p) == IF "part" \in carriers THEN <<is("part", <<p>>)>> ELSE << >>
           part(p) == deltas(p) \o repeated(p)
           parts == [i \in DOMAIN answer |-> part(answer[i])]
           last == IF "completed" \in carriers THEN <<is("completed", answer)>> ELSE << >>
<1>1. Script(llm, framing, carriers, answer) = Flat(parts) \o last
  BY DEF Script
<1>2. Named(framing) \in BOOLEAN
  BY DEF Named
<1>3. ASSUME NEW piece \in Pieces
      PROVE  delta(piece) \in TextMessages
  <2>1. << <<piece>> >> \in Seq(Seq(Pieces))
    OBVIOUS
  <2> QED BY <1>2, <2>1, MessageIs
<1>4. ASSUME NEW p \in Seq(Pieces)
      PROVE  is("part", <<p>>) \in TextMessages
  <2>1. <<p>> \in Seq(Seq(Pieces))
    OBVIOUS
  <2> QED BY <1>2, <2>1, MessageIs
<1>5. is("completed", answer) \in TextMessages
  BY <1>2, MessageIs
<1> HIDE DEF delta, is
<1>6. ASSUME NEW p \in Seq(Pieces)
      PROVE  deltas(p) \in Seq(TextMessages) /\ repeated(p) \in Seq(TextMessages)
  <2>1. Len(p) \in Nat /\ DOMAIN p = 1..Len(p) /\ \A i \in 1..Len(p) : delta(p[i]) \in TextMessages
    BY <1>3
  <2>2. [i \in DOMAIN p |-> delta(p[i])] \in Seq(TextMessages)
    BY <2>1
  <2>3. << >> \in Seq(TextMessages)
    OBVIOUS
  <2>4. <<is("part", <<p>>)>> \in Seq(TextMessages)
    BY <1>4
  <2> QED BY <2>2, <2>3, <2>4
<1> HIDE DEF deltas, repeated
<1>7. ASSUME NEW p \in Seq(Pieces)
      PROVE  part(p) \in Seq(TextMessages)
  BY <1>6
<1> HIDE DEF part
<1>8. parts \in Seq(Seq(TextMessages))
  <2>1. Len(answer) \in Nat /\ DOMAIN answer = 1..Len(answer) /\ \A i \in 1..Len(answer) : part(answer[i]) \in Seq(TextMessages)
    BY <1>7
  <2> QED BY <2>1
<1> HIDE DEF parts
<1>9. Flat(parts) \in Seq(TextMessages)
  BY <1>8, FlatType
<1>10. last \in Seq(TextMessages)
  <2>1. << >> \in Seq(TextMessages)
    OBVIOUS
  <2>2. <<is("completed", answer)>> \in Seq(TextMessages)
    BY <1>5
  <2> QED BY <2>1, <2>2
<1> HIDE DEF last
<1> QED BY <1>1, <1>9, <1>10

\* A provider begins its answer.
LEMMA AcceptKeeps ==
  ASSUME Flow, NEW llm, NEW stream, Accept(llm, stream)
  PROVE  Flow'
<1>1. /\ outcome = Unasked /\ exchange' \in Exchanges /\ outcome' = Pending /\ UNCHANGED <<fault, wire, seen, scanner>>
      /\ open' = (exchange'.form = "stream")
      /\ todo' = Script(exchange'.llm, exchange'.framing, exchange'.carriers, exchange'.answer)
  BY DEF Accept
<1>2. fault = "none" /\ wire = << >> /\ scanner = NoScanner /\ seen = {}
  BY <1>1 DEF Flow, Shape
<1>3. todo' \in Seq(TextMessages)
  BY <1>1, ExchangeIs, ScriptType
<1>4. Pending # Unasked
  BY DEF Pending, Unasked, Fails, Returns, Error
<1>5. outcome'.text \in Seq(Pieces) /\ outcome'.deltas \in Seq(Seq(Pieces))
  BY <1>1, FailsType DEF Pending
<1>6. StreamTypeOK'
  BY <1>1, <1>2, <1>5 DEF Flow, StreamTypeOK
<1>7. Shape'
  BY <1>1, <1>2, <1>3, <1>4 DEF Flow, Shape
<1>8. AreTold(scanner.events, fault)'
  BY <1>1 DEF Flow
<1>9. Place'
  <2>1. PICK m \in Messages : MayBe(m, fault')
    BY SomeMessage
  <2>2. scanner' = NoScanner /\ wire' = << >>
    BY <1>1, <1>2
  <2>3. /\ << >> \in Seq(DataOf(m)) /\ << >> \in Seq(LinesOf(m))
        /\ \A i \in 1..(Len(<< >>) - 1) : FALSE
    OBVIOUS
  <2>4. Gathering(m)'
    BY <2>2, <2>3 DEF Gathering, NoScanner
  <2> QED BY <2>1, <2>2, <2>4 DEF Place, Clean, NoScanner
<1>10. ErrorIsTold'
  BY <1>1, <1>2 DEF ErrorIsTold
<1>11. OverlongIsTold'
  <2>1. ~ scanner'.overlong /\ fault' = "none"
    BY <1>1, <1>2 DEF NoScanner
  <2>2. wire' = << >>
    BY <1>1, <1>2
  <2>3. \A i \in DOMAIN wire' : FALSE
    BY <2>2
  <2> QED BY <2>1, <2>3 DEF OverlongIsTold
<1>12. AsTransportsHasIt'
  BY <1>1, NoOutcomeYet
<1> QED BY <1>6, <1>7, <1>8, <1>9, <1>10, <1>11, <1>12 DEF Flow

------------------------------------------------------------------------------
(* The state, from the call to the answer.                                 *)

\* No member that is known is odd.
Sound(doc) == \A f \in DOMAIN doc \cap Known : doc[f] # "odd"

\* Documents that are sound make a sound one.
LEMMA SoundTogether ==
  ASSUME NEW f, NEW g, Sound(f), Sound(g)
  PROVE  Sound(f ++ g)
<1> DEFINE h == f ++ g
<1>1. Merged(h, f, g)
  BY Merging
<1> HIDE DEF h
<1>2. Sound(h)
  BY <1>1 DEF Merged, Sound
<1> QED BY <1>2 DEF h

\* The parts of the documents that go to the providers are sound.
LEMMA SoundParts ==
  ASSUME NEW c, IsCall(c), NEW r, Understood(c, r)
  PROVE  /\ \A S, v : v # "odd" => Sound(Members(S, v))
         /\ \A f, g : f \in Known => Sound(Passed(r, f, g))
         /\ \A g : Sound(Contract(r, g))
         /\ \A Q : Sound(Restrict(r.extra, DOMAIN r.extra \ Q))
         /\ Sound(r.extra) /\ r.known["model"] # "odd" /\ Asked(r, "stream") # "odd"
<1>1. \A S, v : v # "odd" => Sound(Members(S, v))
  BY MembersAre DEF All, Sound
<1>2. \A f \in DOMAIN r.known : r.known[f] # "odd"
  BY DEF Understood
<1>3. ASSUME NEW f, NEW g
      PROVE  Sound(Passed(r, f, g)) /\ Sound(Contract(r, g))
  <2>1. Sound(Contract(r, g))
    BY <1>1 DEF Contract
  <2>2. CASE Has(r, f)
    BY <1>1, <1>2, <2>1, <2>2 DEF Passed, Has
  <2>3. CASE ~ Has(r, f)
    BY <2>1, <2>3 DEF Passed, Sound
  <2> QED BY <2>2, <2>3
<1>4. DOMAIN r.extra \cap Known = {}
  BY DeclaredNames DEF Understood
<1>5. Sound(r.extra) /\ \A Q : Sound(Restrict(r.extra, DOMAIN r.extra \ Q))
  BY <1>4 DEF Sound, Restrict
<1>6. r.known["model"] # "odd" /\ Asked(r, "stream") # "odd"
  BY <1>2, StreamsAsAsked DEF Understood
<1> QED BY <1>1, <1>3, <1>5, <1>6

\* So are the documents.
LEMMA SoundIsSent ==
  ASSUME NEW c, IsCall(c), NEW r, Understood(c, r), NEW input
  PROVE  Sound(WireRequest(c.llm, r, input).fields)
<1>1. c.llm \in {"openai", "lmstudio", "anthropic", "openrouter"}
  BY DEF IsCall, ServedBy, Entries, ByHand, LLMs
<1> DEFINE a == Members({"model"}, r.known.model)
           b == Members({"input", "tool_choice", "parallel_tool_calls", "include"}, "default")
           s == [stream |-> "true", store |-> "false"]
           d == [tools |-> "default"]
           m == [model |-> r.known.model, messages |-> "default", stream |-> Asked(r, "stream")]
<1>2. Sound(a) /\ Sound(b) /\ Sound(s) /\ Sound(d) /\ Sound(m) /\ Sound(MaxTokens(r))
  <2>1. Sound(s) /\ Sound(d)
    BY DEF Sound
  <2>2. Sound(m)
    BY SoundParts DEF Sound
  <2>3. Sound(a) /\ Sound(b) /\ Sound(MaxTokens(r))
    BY SoundParts DEF MaxTokens
  <2> QED BY <2>1, <2>2, <2>3
<1> HIDE DEF a, b, s, d, m
<1>3. /\ Sound(Passed(r, "instructions", "instructions")) /\ Sound(Passed(r, "reasoning", "reasoning"))
      /\ Sound(Passed(r, "tools", "tools")) /\ Sound(Passed(r, "reasoning", "effort"))
      /\ Sound(Contract(r, "text")) /\ Sound(Contract(r, "response_format")) /\ Sound(Contract(r, "format"))
      /\ Sound(r.extra) /\ Sound(Restrict(r.extra, DOMAIN r.extra \ CodexUnsupportedPortableField))
  BY SoundParts DEF Known
<1>4. Sound(CodexFields(r))
  <2>1. CodexFields(r) = ((((((a ++ b) ++ s) ++ Passed(r, "instructions", "instructions")) ++ Passed(r, "reasoning", "reasoning"))
                            ++ (Passed(r, "tools", "tools") ++ d)) ++ Contract(r, "text"))
    BY DEF CodexFields, a, b, s, d
  <2> QED BY <1>2, <1>3, <2>1, SoundTogether
<1>5. Sound(CloudFields(r))
  <2>1. CloudFields(r) = m ++ MaxTokens(r)
    BY DEF CloudFields, m
  <2> QED BY <1>2, <2>1, SoundTogether
<1>6. Sound(CodexWireRequest(r, input).fields)
  <2>1. CodexWireRequest(r, input).fields = CodexFields(r) ++ Restrict(r.extra, DOMAIN r.extra \ CodexUnsupportedPortableField)
    BY DEF CodexWireRequest, Outgoing
  <2> QED BY <1>3, <1>4, <2>1, SoundTogether
<1>7. Sound(ChatCompletionBody(r, input).fields)
  <2>1. ChatCompletionBody(r, input).fields = ((m ++ Contract(r, "response_format")) ++ r.extra)
    BY DEF ChatCompletionBody, Outgoing, m
  <2> QED BY <1>2, <1>3, <2>1, SoundTogether
<1>8. Sound(AnthropicBody(r, input).fields)
  <2>1. AnthropicBody(r, input).fields = ((CloudFields(r) ++ Passed(r, "reasoning", "effort")) ++ Contract(r, "format"))
    BY DEF AnthropicBody, Outgoing
  <2> QED BY <1>3, <1>5, <2>1, SoundTogether
<1>9. Sound(OpenRouterBody(r, input).fields)
  <2>1. OpenRouterBody(r, input).fields = CloudFields(r) ++ Contract(r, "response_format")
    BY DEF OpenRouterBody, Outgoing
  <2> QED BY <1>3, <1>5, <2>1, SoundTogether
<1> QED BY <1>1, <1>6, <1>7, <1>8, <1>9 DEF WireRequest

\* No answer is at its end while it is broken off.
LEMMA UnbrokenKept ==
  ASSUME Flow, Unbroken, StreamNext
  PROVE  Unbroken'
<1>1. CASE SendEvent \/ SendOther \/ SendDone \/ SendFaulty \/ SendError
  BY <1>1 DEF SendEvent, SendOther, SendDone, SendFaulty, SendError, Send, Unbroken
<1>2. CASE Close
  BY <1>2 DEF Close, Unbroken
<1>3. CASE Break
  <2>1. outcome'.error = BadAnswer(Family(exchange.llm))
    BY <1>3, FailsType DEF Break
  <2>2. Pending.error = Error("pending", 0)
    BY FailsType DEF Pending
  <2>3. Error("pending", 0).status = 0 /\ \A p : BadAnswer(p).status = 502
    BY DEF BadAnswer, Error
  <2>4. outcome' # Pending
    BY <2>1, <2>2, <2>3
  <2> QED BY <2>4 DEF Unbroken
<1>4. CASE Scan
  BY <1>4 DEF Scan, Unbroken
<1>5. CASE End
  BY <1>5 DEF End, Unbroken
<1> QED BY <1>1, <1>2, <1>3, <1>4, <1>5 DEF StreamNext

\* Every step of an answer keeps what Flow says.
LEMMA FlowKept ==
  ASSUME Flow, Unbroken, StreamNext
  PROVE  Flow'
BY SendEventKeeps, SendOtherKeeps, SendDoneKeeps, SendFaultyKeeps, SendErrorKeeps, CloseKeeps, BreakKeeps, ScanKeeps, EndKeeps
   DEF StreamNext

\* Nothing else touches it.
LEMMA FlowStays ==
  ASSUME Flow, Unbroken, UNCHANGED streamVars
  PROVE  Flow' /\ Unbroken'
<1>1. UNCHANGED <<exchange, open, todo, fault, wire, seen, scanner, outcome>>
  BY DEF streamVars
<1>2. StreamTypeOK' /\ Shape' /\ AreTold(scanner.events, fault)' /\ Unbroken'
  BY <1>1 DEF Flow, StreamTypeOK, Shape, Unbroken
<1>3. (scanner.overlong \/ Place)'
  BY <1>1 DEF Flow, Place, Gathering, Clean
<1>4. ErrorIsTold' /\ OverlongIsTold'
  BY <1>1 DEF Flow, ErrorIsTold, OverlongIsTold, Ahead
<1>5. AsTransportsHasIt'
  BY <1>1 DEF Flow, AsTransportsHasIt, SeenByTransports, TakenForStream, Done
<1> QED BY <1>2, <1>3, <1>4, <1>5 DEF Flow

\* A record is one of its set.
LEMMA RecordIs ==
  ASSUME NEW N, NEW D, NEW E, NEW n \in N, NEW d \in D, NEW e \in E
  PROVE  [eventType |-> n, data |-> d, events |-> e, overlong |-> FALSE] \in [eventType : N, data : D, events : E, overlong : BOOLEAN]
OBVIOUS

\* The scanner that has seen nothing is one.
LEMMA NobodyScanned == NoScanner \in Scanners
<1>1. PICK n \in Names : n = ""
  <2>1. "" \in Names
    BY DEF Names
  <2> QED BY <2>1
<1>2. PICK d \in Seq(Lines) : d = << >>
  <2>1. << >> \in Seq(Lines)
    OBVIOUS
  <2> QED BY <2>1
<1>3. PICK e \in Seq(Happenings) : e = << >>
  <2>1. << >> \in Seq(Happenings)
    OBVIOUS
  <2> QED BY <2>1
<1>4. NoScanner = [eventType |-> n, data |-> d, events |-> e, overlong |-> FALSE]
  BY <1>1, <1>2, <1>3 DEF NoScanner
<1>5. n \in Names /\ d \in Seq(Lines) /\ e \in Seq(Happenings)
  BY <1>1, <1>2, <1>3
<1>6. [eventType |-> n, data |-> d, events |-> e, overlong |-> FALSE] \in Scanners
  BY <1>5, RecordIs DEF Scanners
<1> QED BY <1>4, <1>6

\* So it is before anything is asked.
LEMMA FlowStarts ==
  ASSUME StreamInit
  PROVE  Flow /\ Unbroken
<1>1. /\ exchange = NoExchange /\ open = FALSE /\ todo = << >> /\ fault = "none" /\ wire = << >> /\ seen = {}
      /\ scanner = NoScanner /\ outcome = Unasked
  BY DEF StreamInit
<1>2. outcome.text \in Seq(Pieces) /\ outcome.deltas \in Seq(Seq(Pieces))
  BY <1>1, FailsType DEF Unasked
<1>3. StreamTypeOK /\ Unbroken
  BY <1>1, <1>2 DEF StreamTypeOK, Unbroken
<1>4. scanner \in Scanners /\ scanner.overlong = FALSE /\ scanner.events = << >> /\ Clean
  <2>1. NoScanner \in Scanners
    BY NobodyScanned
  <2>2. NoScanner.overlong = FALSE /\ NoScanner.events = << >> /\ NoScanner.eventType = "" /\ NoScanner.data = << >>
    BY DEF NoScanner
  <2> QED BY <1>1, <2>1, <2>2 DEF Clean
<1>5. Shape
  BY <1>1, <1>4 DEF Shape
<1>6. AreTold(scanner.events, fault)
  BY <1>4 DEF AreTold
<1>7. Place
  <2>1. PICK m \in Messages : MayBe(m, fault)
    BY SomeMessage
  <2>2. /\ << >> \in Seq(DataOf(m)) /\ << >> \in Seq(LinesOf(m))
        /\ \A i \in 1..(Len(<< >>) - 1) : FALSE
    OBVIOUS
  <2> QED BY <1>1, <1>4, <2>1, <2>2 DEF Place, Gathering, Clean
<1>8. ErrorIsTold
  BY <1>1 DEF ErrorIsTold
<1>9. OverlongIsTold
  <2>1. \A i \in DOMAIN wire : FALSE
    BY <1>1
  <2> QED BY <1>1, <1>4, <2>1 DEF OverlongIsTold
<1>10. AsTransportsHasIt
  BY <1>1 DEF AsTransportsHasIt, Done
<1> QED BY <1>3, <1>4, <1>5, <1>6, <1>7, <1>8, <1>9, <1>10 DEF Flow

\* What it takes for the types, and for what comes of the answer.
Way ==
  /\ Course /\ Flow /\ Unbroken
  /\ stage \in {"call", "route", "transport", "sent", "rejected", "asked", "answer"}
  /\ stage \in {"asked", "answer"} => asked.llm \in LLMs /\ asked.stream \in BOOLEAN
  /\ stage \notin {"asked", "answer"} => IsCall(call)
  /\ stage # "answer" => outcome = Unasked

\* Of an answer that nobody has asked for there is no step.
LEMMA NothingGoesOn ==
  ASSUME outcome = Unasked, Flow
  PROVE  ~ StreamNext
<1>1. outcome # Pending /\ ~ open
  <2>1. Pending # Unasked
    BY DEF Pending, Unasked, Fails, Returns, Error
  <2> QED BY <2>1 DEF Flow, Shape
<1> QED BY <1>1 DEF StreamNext, SendEvent, SendOther, SendDone, SendFaulty, SendError, Sending, Close, Break, Scan, End

\* Every step keeps all of it.
LEMMA WayIsInductive == Way /\ [Next]_vars => Way'
<1> SUFFICES ASSUME Way, [Next]_vars
             PROVE  Way'
  OBVIOUS
<1>1. Course'
  BY CourseIsInductive DEF Way
<1>2. Flow' /\ Unbroken'
  <2>1. CASE UNCHANGED streamVars
    BY <2>1, FlowStays DEF Way
  <2>2. CASE StreamNext
    BY <2>2, FlowKept, UnbrokenKept DEF Way
  <2>3. CASE ProviderAccepts
    <3>1. Accept(asked.llm, asked.stream)
      BY <2>3 DEF ProviderAccepts
    <3>2. Flow'
      BY <3>1, AcceptKeeps DEF Way
    <3>3. outcome = Unasked /\ fault' = fault
      BY <3>1 DEF Accept
    <3>4. fault' # "broken"
      BY <3>3 DEF Way, Flow, Shape
    <3> QED BY <3>2, <3>4 DEF Unbroken
  <2>4. UNCHANGED streamVars \/ StreamNext \/ ProviderAccepts
    BY DEF Next, CallRejected, Call, RouteRejected, Route, TransportRejected, SendRequest, RequestArrives, Answer, Reject, vars
  <2> QED BY <2>1, <2>2, <2>3, <2>4
<1>3. /\ (stage \in {"call", "route", "transport", "sent", "rejected", "asked", "answer"})'
      /\ (stage \in {"asked", "answer"} => asked.llm \in LLMs /\ asked.stream \in BOOLEAN)'
      /\ (stage \notin {"asked", "answer"} => IsCall(call))'
      /\ (stage # "answer" => outcome = Unasked)'
  <2>1. CASE CallRejected \/ RouteRejected \/ TransportRejected
    BY <2>1 DEF Way, CallRejected, RouteRejected, TransportRejected, Reject, streamVars
  <2>2. CASE Call
    BY <2>2 DEF Way, Call, streamVars
  <2>3. CASE Route
    BY <2>3 DEF Way, Route, streamVars
  <2>4. CASE SendRequest
    BY <2>4 DEF Way, SendRequest, streamVars
  <2>5. CASE RequestArrives
    <3>1. call.llm \in LLMs
      BY <2>5 DEF Way, RequestArrives, IsCall, ServedBy, Entries, ByHand, LLMs
    <3> QED BY <2>5, <3>1 DEF Way, RequestArrives, streamVars
  <2>6. CASE ProviderAccepts
    BY <2>6 DEF Way, ProviderAccepts
  <2>7. CASE Answer
    <3>1. StreamNext /\ UNCHANGED <<stage, call, asked>>
      BY <2>7 DEF Answer, requestVars
    <3>2. stage = "answer"
      BY <3>1, NothingGoesOn DEF Way
    <3> QED BY <3>1, <3>2 DEF Way
  <2>8. CASE UNCHANGED vars
    BY <2>8 DEF Way, vars, requestVars, streamVars
  <2> QED BY <2>1, <2>2, <2>3, <2>4, <2>5, <2>6, <2>7, <2>8 DEF Next
<1> QED BY <1>1, <1>2, <1>3 DEF Way

\* And it is so at first.
LEMMA WayStarts == Init => Way
<1> SUFFICES ASSUME Init
             PROVE  Way
  OBVIOUS
<1>1. Course
  BY DEF Init, Asking, Course
<1>2. Flow /\ Unbroken
  BY FlowStarts DEF Init, Asking
<1>3. outcome = Unasked
  BY DEF Init, Asking, StreamInit
<1> QED BY <1>1, <1>2, <1>3 DEF Way, Init, Asking

(* Calls stay calls until the provider is asked, nothing is left of them    *)
(* then but whom to ask and how, nothing odd goes to a provider, and what   *)
(* comes back is text.                                                      *)
THEOREM TypesAreKept == Spec => []TypeOK
<1>1. Way => TypeOK
  <2> SUFFICES ASSUME Way
               PROVE  TypeOK
    OBVIOUS
  <2>1. stage = "sent" => "odd" \notin {sent.fields[f] : f \in DOMAIN sent.fields \cap Known}
    <3> SUFFICES ASSUME stage = "sent"
                 PROVE  Sound(sent.fields)
      BY DEF Sound
    <3> QED BY SoundIsSent DEF Way, Course
  <2> QED BY <2>1 DEF Way, Flow, TypeOK
<1> QED BY <1>1, WayIsInductive, WayStarts, PTL DEF Spec

(* Whatever pieces an answer comes in, with whatever goes wrong, what comes *)
(* of it is what Transports says of a body of its kind: the same error, or  *)
(* a text where Gateway counts on one.                                      *)
THEOREM TransportsHaveIt == Spec => []AsTransportsHasIt
<1>1. Way => AsTransportsHasIt
  BY DEF Way, Flow
<1> QED BY <1>1, WayIsInductive, WayStarts, PTL DEF Spec

------------------------------------------------------------------------------
(* Sequences that grow.                                                    *)

\* A set that holds the empty sequence and, with each sequence, what it is with an element more
\* holds them all.
LEMMA Lengthening ==
  ASSUME NEW X, NEW S, \A s : s = << >> => s \in S,
         \A s \in Seq(X), e \in X, a \in Seq(X) : s \in S /\ IsAppended(a, s, e) => a \in S
  PROVE  Seq(X) \subseteq S
<1> DEFINE T == {n \in Nat : \A s \in Seq(X) : Len(s) = n => s \in S}
<1>1. 0 \in T
  BY EmptySeq
<1>2. ASSUME NEW n \in Nat, n \in T
      PROVE  n + 1 \in T
  <2> SUFFICES ASSUME NEW a \in Seq(X), Len(a) = n + 1
               PROVE  a \in S
    OBVIOUS
  <2>1. a # << >>
    BY EmptySeq
  <2>2. PICK s \in Seq(X), e \in X : a = Append(s, e)
    BY <2>1, SequenceEmptyOrAppend
  <2>3. Len(s) = n
    <3>1. Len(a) = Len(s) + 1 /\ Len(s) \in Nat
      BY <2>2, AppendProperties
    <3> QED BY <3>1
  <2>4. s \in S
    BY <1>2, <2>3
  <2> QED BY <2>2, <2>4 DEF IsAppended
<1>3. Nat \subseteq T
  <2>1. \A n \in Nat : n \in T => n + 1 \in T
    BY <1>2
  <2> HIDE DEF T
  <2> QED BY <1>1, <2>1, Counting
<1> QED BY <1>3

\* A sequence that is longer by an element is so at its end.
LEMMA LongerByOne ==
  ASSUME NEW X, NEW t \in Seq(X), NEW e \in X, NEW a, IsAppended(a, t, e)
  PROVE  /\ a \in Seq(X) /\ Len(t) \in Nat /\ Len(a) = Len(t) + 1
         /\ a[Len(t) + 1] = e
         /\ \A i \in 1..Len(t) : a[i] = t[i]
BY AppendProperties DEF IsAppended

\* What is joined to nothing, and to what grows.
LEMMA JoiningOn ==
  ASSUME NEW X, NEW u \in Seq(X), NEW v \in Seq(X), NEW e \in X, NEW a, IsAppended(a, v, e), NEW w, IsJoined(w, u, v)
  PROVE  /\ w \in Seq(X) /\ a \in Seq(X)
         /\ \A b : IsJoined(b, u, a) => IsAppended(b, w, e)
<1>1. w \in Seq(X) /\ w = u \o v
  BY Joining DEF IsJoined
<1>2. a \in Seq(X) /\ a = v \o <<e>>
  BY AppendProperties, AppendIsConcat DEF IsAppended
<1>3. Append(w, e) = w \o <<e>>
  BY <1>1, AppendIsConcat
<1>4. <<e>> \in Seq(X)
  OBVIOUS
<1>5. (u \o v) \o <<e>> = u \o (v \o <<e>>)
  BY <1>4, ConcatAssociative
<1>6. u \o a = Append(w, e)
  BY <1>1, <1>2, <1>3, <1>5
<1> QED BY <1>1, <1>2, <1>6 DEF IsJoined, IsAppended

\* Joining is associative.
LEMMA JoiningThree ==
  ASSUME NEW X, NEW u \in Seq(X), NEW v \in Seq(X), NEW z \in Seq(X), NEW w, IsJoined(w, u, v), NEW y, IsJoined(y, v, z), NEW b
  PROVE  IsJoined(b, w, z) <=> IsJoined(b, u, y)
<1>1. (u \o v) \o z = u \o (v \o z)
  BY ConcatAssociative
<1> QED BY <1>1 DEF IsJoined

\* What nothing adds.
LEMMA JoiningNothing ==
  ASSUME NEW X, NEW u \in Seq(X), NEW z, z = << >>, NEW b
  PROVE  (IsJoined(b, u, z) <=> b = u) /\ (IsJoined(b, z, u) <=> b = u)
BY ConcatEmptySeq DEF IsJoined

\* A loop that joins more has what one that joins less had.
LEMMA FlatteningAgrees ==
  ASSUME NEW f, NEW g, NEW s, NEW t, NEW n \in Nat, NEW m \in Nat, m <= n, Flattens(f, t, n), Flattens(g, s, m),
         \A i \in 1..m : t[i] = s[i]
  PROVE  \A i \in 1..m : f[i] = g[i]
<1> DEFINE T == {k \in Nat : k + 1 <= m => f[k + 1] = g[k + 1]}
<1>1. 0 \in T
  BY FlatteningStep
<1>2. ASSUME NEW k \in Nat, k \in T
      PROVE  k + 1 \in T
  <2> SUFFICES ASSUME (k + 1) + 1 <= m
               PROVE  f[(k + 1) + 1] = g[(k + 1) + 1]
    OBVIOUS
  <2>1. k + 1 \in 1..(m - 1) /\ k + 1 \in 1..(n - 1) /\ (k + 1) + 1 \in 1..m /\ f[k + 1] = g[k + 1]
    BY <1>2
  <2>2. IsJoined(f[(k + 1) + 1], f[k + 1], t[(k + 1) + 1]) /\ IsJoined(g[(k + 1) + 1], g[k + 1], s[(k + 1) + 1])
    BY <2>1, FlatteningStep
  <2> QED BY <2>1, <2>2 DEF IsJoined
<1>3. Nat \subseteq T
  <2>1. \A k \in Nat : k \in T => k + 1 \in T
    BY <1>2
  <2> HIDE DEF T
  <2> QED BY <1>1, <2>1, Counting
<1>4. ASSUME NEW i \in 1..m
      PROVE  f[i] = g[i]
  <2>1. i - 1 \in T /\ (i - 1) + 1 = i /\ i <= m
    BY <1>3
  <2> QED BY <2>1
<1> QED BY <1>4

\* No sequences join to nothing.
LEMMA FlatOfNone ==
  ASSUME NEW s, s = << >>
  PROVE  Flat(s) = << >>
<1>1. Len(s) = 0
  OBVIOUS
<1> QED BY <1>1 DEF Flat, FlattenSeq

\* A sequence more is joined to the others.
LEMMA FlatOn ==
  ASSUME NEW X, NEW s \in Seq(Seq(X)), NEW e \in Seq(X), NEW a, IsAppended(a, s, e)
  PROVE  IsJoined(Flat(a), Flat(s), e)
<1> DEFINE n == Len(s)
<1>1. /\ a \in Seq(Seq(X)) /\ n \in Nat /\ Len(a) = n + 1 /\ a[n + 1] = e
      /\ \A i \in 1..n : a[i] = s[i]
  BY LongerByOne
<1>2. PICK f : Flattens(f, a, n + 1) /\ Flat(a) = f[n + 1]
  BY <1>1, FlatIsFlattened
<1>3. CASE n = 0
  <2>1. Flat(a) = e
    BY <1>1, <1>2, <1>3, FlatteningStep
  <2>2. s = << >>
    BY <1>3
  <2>3. Flat(s) = << >>
    BY <2>2, FlatOfNone
  <2> QED BY <2>1, <2>3, JoiningNothing
<1>4. CASE n # 0
  <2>1. PICK g : Flattens(g, s, n) /\ Flat(s) = g[n]
    BY <1>1, <1>4, FlatIsFlattened
  <2> HIDE DEF n
  <2>2. n \in 1..n /\ n \in 1..((n + 1) - 1) /\ n <= n + 1 /\ n + 1 \in Nat
    BY <1>1, <1>4
  <2>3. f[n] = g[n]
    <3>1. PICK k \in Nat : k = n + 1
      BY <2>2
    <3>2. Flattens(f, a, k) /\ n <= k
      BY <1>2, <2>2, <3>1
    <3>3. n \in Nat /\ \A i \in 1..n : a[i] = s[i]
      BY <1>1
    <3>4. \A i \in 1..n : f[i] = g[i]
      BY <2>1, <3>2, <3>3, FlatteningAgrees
    <3> QED BY <2>2, <3>4
  <2>4. IsJoined(f[n + 1], f[n], a[n + 1])
    BY <1>2, <2>2, FlatteningStep
  <2> QED BY <1>1, <1>2, <2>1, <2>3, <2>4
<1> QED BY <1>3, <1>4

\* One alone is what it is.
LEMMA FlatOfOne ==
  ASSUME NEW X, NEW e \in Seq(X), NEW s, s = <<e>>
  PROVE  Flat(s) = e
<1>1. PICK z \in Seq(Seq(X)) : z = << >>
  BY EmptySeq
<1>2. IsAppended(s, z, e)
  BY <1>1 DEF IsAppended
<1>3. IsJoined(Flat(s), Flat(z), e)
  BY <1>2, FlatOn
<1> QED BY <1>1, <1>3, FlatOfNone, JoiningNothing

\* Joined sequences of sequences join to what these join to, joined.
LEMMA FlatOfBoth ==
  ASSUME NEW X, NEW s \in Seq(Seq(X)), NEW t \in Seq(Seq(X)), NEW w, IsJoined(w, s, t)
  PROVE  IsJoined(Flat(w), Flat(s), Flat(t))
<1> DEFINE S == {v \in Seq(Seq(X)) : \A b : IsJoined(b, s, v) => IsJoined(Flat(b), Flat(s), Flat(v))}
<1>1. ASSUME NEW v, v = << >>
      PROVE  v \in S
  <2>1. v \in Seq(Seq(X))
    BY <1>1
  <2>2. ASSUME NEW b, IsJoined(b, s, v)
        PROVE  IsJoined(Flat(b), Flat(s), Flat(v))
    <3>1. b = s
      BY <1>1, <2>2, JoiningNothing
    <3>2. Flat(v) = << >> /\ Flat(s) \in Seq(X)
      BY <1>1, FlatOfNone, FlatType
    <3> QED BY <3>1, <3>2, JoiningNothing
  <2> QED BY <2>1, <2>2
<1>2. ASSUME NEW v \in Seq(Seq(X)), NEW e \in Seq(X), NEW a \in Seq(Seq(X)), v \in S, IsAppended(a, v, e)
      PROVE  a \in S
  <2> SUFFICES ASSUME NEW b, IsJoined(b, s, a)
               PROVE  IsJoined(Flat(b), Flat(s), Flat(a))
    OBVIOUS
  <2>1. PICK c : IsJoined(c, s, v)
    BY DEF IsJoined
  <2>2. c \in Seq(Seq(X)) /\ IsAppended(b, c, e)
    BY <1>2, <2>1, JoiningOn
  <2>3. IsJoined(Flat(b), Flat(c), e)
    BY <2>2, FlatOn
  <2>4. IsJoined(Flat(a), Flat(v), e)
    BY <1>2, FlatOn
  <2>5. IsJoined(Flat(c), Flat(s), Flat(v))
    BY <1>2, <2>1
  <2>6. Flat(s) \in Seq(X) /\ Flat(v) \in Seq(X)
    BY FlatType
  <2> QED BY <2>3, <2>4, <2>5, <2>6, JoiningThree
<1>3. Seq(Seq(X)) \subseteq S
  <2> HIDE DEF S
  <2> QED BY <1>1, <1>2, Lengthening
<1> QED BY <1>3

\* A selection from a sequence with an element more.
LEMMA SelectingMore ==
  ASSUME NEW X, NEW s \in Seq(X), NEW e \in X, NEW a, IsAppended(a, s, e), NEW P, NEW Q, \A i \in 1..Len(s) : i \in P <=> i \in Q
  PROVE  /\ Len(s) + 1 \notin Q => Selected(a, Q) = Selected(s, P)
         /\ Len(s) + 1 \in Q => IsAppended(Selected(a, Q), Selected(s, P), e)
<1> DEFINE n == Len(s)
<1>1. /\ a \in Seq(X) /\ n \in Nat /\ Len(a) = n + 1 /\ a[n + 1] = e
      /\ \A i \in 1..n : a[i] = s[i]
  BY LongerByOne
<1>2. PICK f : Gathers(f, a, Q, n + 1) /\ Selected(a, Q) = f[n + 1]
  BY <1>1, SelectedGathers
<1>3. PICK g : Gathers(g, s, P, n) /\ Selected(s, P) = g[n]
  BY <1>1, SelectedGathers
<1>4. \A i \in 1..n : i \in P <=> i \in Q
  OBVIOUS
<1> HIDE DEF n
<1> DEFINE T == {k \in Nat : k <= n => f[k] = g[k]}
<1>5. 0 \in T
  <2>1. f[0] = << >> /\ g[0] = << >>
    BY <1>1, <1>2, <1>3, GatheringStep
  <2> QED BY <2>1
<1>6. ASSUME NEW k \in Nat, k \in T
      PROVE  k + 1 \in T
  <2> SUFFICES ASSUME k + 1 <= n
               PROVE  f[k + 1] = g[k + 1]
    OBVIOUS
  <2>1. k \in 0..((n + 1) - 1) /\ k \in 0..(n - 1) /\ k + 1 \in 1..n /\ f[k] = g[k]
    BY <1>1, <1>6
  <2>2. f[k + 1] = IF k + 1 \in Q THEN Append(f[k], a[k + 1]) ELSE f[k]
    BY <1>1, <1>2, <2>1, GatheringStep
  <2>3. g[k + 1] = IF k + 1 \in P THEN Append(g[k], s[k + 1]) ELSE g[k]
    BY <1>1, <1>3, <2>1, GatheringStep
  <2>4. a[k + 1] = s[k + 1] /\ (k + 1 \in P <=> k + 1 \in Q)
    BY <1>1, <1>4, <2>1
  <2> QED BY <2>1, <2>2, <2>3, <2>4
<1>7. Nat \subseteq T
  <2>1. \A k \in Nat : k \in T => k + 1 \in T
    BY <1>6
  <2> HIDE DEF T
  <2> QED BY <1>5, <2>1, Counting
<1>8. f[n] = g[n]
  BY <1>1, <1>7
<1>9. f[n + 1] = IF n + 1 \in Q THEN Append(f[n], a[n + 1]) ELSE f[n]
  <2>1. n \in 0..((n + 1) - 1) /\ n + 1 \in Nat
    BY <1>1
  <2> QED BY <1>2, <2>1, GatheringStep
<1> QED BY <1>1, <1>2, <1>3, <1>8, <1>9 DEF IsAppended, n

------------------------------------------------------------------------------
(* The first text of some.                                                 *)

OrElse(s, t) == IF s = << >> THEN t ELSE s

\* There is none in none.
LEMMA FirstTextOfNone ==
  ASSUME NEW s, s = << >>
  PROVE  FirstText(s) = << >>
<1>1. Len(s) = 0 /\ DOMAIN s = {}
  OBVIOUS
<1>2. \A P : Selected(s, P) = << >>
  BY <1>1, SelectingNone
<1> QED BY <1>2 DEF FirstText

\* A text more matters only if all the others are empty.
LEMMA FirstTextOn ==
  ASSUME NEW X, NEW s \in Seq(Seq(X)), NEW e \in Seq(X), NEW a, IsAppended(a, s, e)
  PROVE  FirstText(a) = OrElse(FirstText(s), e)
<1> DEFINE P == {i \in DOMAIN s : s[i] # << >>}
           Q == {i \in DOMAIN a : a[i] # << >>}
           t == Selected(s, P)
           u == Selected(a, Q)
           Y == {y \in Seq(X) : y # << >>}
<1>1. /\ a \in Seq(Seq(X)) /\ Len(s) \in Nat /\ Len(a) = Len(s) + 1 /\ a[Len(s) + 1] = e
      /\ \A i \in 1..Len(s) : a[i] = s[i]
  BY LongerByOne
<1>2. DOMAIN s = 1..Len(s) /\ DOMAIN a = 1..(Len(s) + 1)
  BY <1>1
<1>3. FirstText(s) = (IF t = << >> THEN << >> ELSE t[1]) /\ FirstText(a) = (IF u = << >> THEN << >> ELSE u[1])
  BY DEF FirstText
<1>4. /\ \A i \in 1..Len(s) : i \in P <=> i \in Q
      /\ Len(s) + 1 \in Q <=> e # << >>
  BY <1>1, <1>2
<1>5. \A i \in P \cap (1..Len(s)) : s[i] \in Y
  OBVIOUS
<1> HIDE DEF P, Q
<1>6. /\ e = << >> => u = t
      /\ e # << >> => IsAppended(u, t, e)
  <2>1. \A i \in 1..Len(s) : i \in P <=> i \in Q
    BY <1>4
  <2>2. /\ Len(s) + 1 \notin Q => Selected(a, Q) = Selected(s, P)
        /\ Len(s) + 1 \in Q => IsAppended(Selected(a, Q), Selected(s, P), e)
    BY <2>1, SelectingMore
  <2> HIDE DEF t, u
  <2> QED BY <1>4, <2>2 DEF t, u
<1>7. t \in Seq(Y)
  BY <1>1, <1>5, SelectionType
<1> HIDE DEF t, u
<1>8. t # << >> => t[1] # << >>
  BY <1>7
<1>9. CASE e = << >>
  BY <1>3, <1>6, <1>8, <1>9 DEF OrElse
<1>10. CASE e # << >>
  <2>1. e \in Y
    BY <1>10
  <2>2. u # << >> /\ u[Len(t) + 1] = e /\ Len(t) \in Nat /\ \A i \in 1..Len(t) : u[i] = t[i]
    <3>1. IsAppended(u, t, e)
      BY <1>6, <1>10
    <3> HIDE DEF Y
    <3>2. /\ u \in Seq(Y) /\ Len(t) \in Nat /\ Len(u) = Len(t) + 1
          /\ u[Len(t) + 1] = e
          /\ \A i \in 1..Len(t) : u[i] = t[i]
      BY <1>7, <2>1, <3>1, LongerByOne
    <3>3. u # << >>
      BY <3>2, EmptySeq
    <3> QED BY <3>2, <3>3
  <2>3. t = << >> => Len(t) + 1 = 1
    OBVIOUS
  <2>4. t # << >> => 1 \in 1..Len(t)
    BY <1>7
  <2> QED BY <1>3, <1>8, <2>2, <2>3, <2>4 DEF OrElse
<1> QED BY <1>9, <1>10

\* One alone is the first.
LEMMA FirstTextOfOne ==
  ASSUME NEW X, NEW e \in Seq(X), NEW s, s = <<e>>
  PROVE  FirstText(s) = e
<1>1. PICK z \in Seq(Seq(X)) : z = << >>
  BY EmptySeq
<1>2. IsAppended(s, z, e)
  BY <1>1 DEF IsAppended
<1>3. FirstText(s) = OrElse(FirstText(z), e)
  BY <1>2, FirstTextOn
<1> QED BY <1>1, <1>3, FirstTextOfNone DEF OrElse

\* Of texts joined to others it is the first of these, if there is one.
LEMMA FirstTextOfBoth ==
  ASSUME NEW X, NEW s \in Seq(Seq(X)), NEW t \in Seq(Seq(X)), NEW w, IsJoined(w, s, t)
  PROVE  FirstText(w) = OrElse(FirstText(s), FirstText(t))
<1> DEFINE S == {v \in Seq(Seq(X)) : \A b : IsJoined(b, s, v) => FirstText(b) = OrElse(FirstText(s), FirstText(v))}
<1>1. ASSUME NEW v, v = << >>
      PROVE  v \in S
  <2>1. v \in Seq(Seq(X))
    BY <1>1
  <2>2. ASSUME NEW b, IsJoined(b, s, v)
        PROVE  FirstText(b) = OrElse(FirstText(s), FirstText(v))
    <3>1. b = s
      BY <1>1, <2>2, JoiningNothing
    <3> QED BY <1>1, <3>1, FirstTextOfNone DEF OrElse
  <2> QED BY <2>1, <2>2
<1>2. ASSUME NEW v \in Seq(Seq(X)), NEW e \in Seq(X), NEW a \in Seq(Seq(X)), v \in S, IsAppended(a, v, e)
      PROVE  a \in S
  <2> SUFFICES ASSUME NEW b, IsJoined(b, s, a)
               PROVE  FirstText(b) = OrElse(FirstText(s), FirstText(a))
    OBVIOUS
  <2>1. PICK c : IsJoined(c, s, v)
    BY DEF IsJoined
  <2>2. c \in Seq(Seq(X)) /\ IsAppended(b, c, e)
    BY <1>2, <2>1, JoiningOn
  <2>3. FirstText(b) = OrElse(FirstText(c), e) /\ FirstText(a) = OrElse(FirstText(v), e)
    BY <1>2, <2>2, FirstTextOn
  <2>4. FirstText(c) = OrElse(FirstText(s), FirstText(v))
    BY <1>2, <2>1
  <2> QED BY <2>3, <2>4 DEF OrElse
<1>3. Seq(Seq(X)) \subseteq S
  <2> HIDE DEF S
  <2> QED BY <1>1, <1>2, Lengthening
<1> QED BY <1>3

\* It is one of them, if there is one.
LEMMA FirstTextIsOne ==
  ASSUME NEW X, NEW s \in Seq(Seq(X)), FirstText(s) # << >>
  PROVE  \E i \in DOMAIN s : FirstText(s) = s[i]
<1> DEFINE P == {i \in DOMAIN s : s[i] # << >>}
           t == Selected(s, P)
           Y == {s[i] : i \in DOMAIN s}
<1>1. Len(s) \in Nat /\ \A i \in P \cap (1..Len(s)) : s[i] \in Y
  OBVIOUS
<1>2. FirstText(s) = (IF t = << >> THEN << >> ELSE t[1])
  BY DEF FirstText
<1> HIDE DEF P
<1>3. t \in Seq(Y)
  BY <1>1, SelectionType
<1> HIDE DEF t
<1>4. t # << >> => t[1] \in Y
  BY <1>3
<1> QED BY <1>2, <1>4

\* All of them, joined, begin with it, and are nothing if there is none.
LEMMA FirstTextIsFirst ==
  ASSUME NEW X, NEW s \in Seq(Seq(X))
  PROVE  /\ \E r \in Seq(X) : IsJoined(Flat(s), FirstText(s), r)
         /\ FirstText(s) = << >> <=> Flat(s) = << >>
<1> DEFINE Good(v) == /\ \E r \in Seq(X) : IsJoined(Flat(v), FirstText(v), r)
                      /\ FirstText(v) = << >> <=> Flat(v) = << >>
           S == {v \in Seq(Seq(X)) : Good(v)}
<1>1. ASSUME NEW v, v = << >>
      PROVE  v \in S
  <2>1. Flat(v) = << >> /\ FirstText(v) = << >>
    BY <1>1, FlatOfNone, FirstTextOfNone
  <2>2. PICK z \in Seq(X) : z = << >>
    BY EmptySeq
  <2>3. IsJoined(z, z, z)
    BY <2>2, JoiningNothing
  <2>4. v \in Seq(Seq(X))
    BY <1>1
  <2> QED BY <2>1, <2>2, <2>3, <2>4
<1>2. ASSUME NEW v \in Seq(Seq(X)), NEW e \in Seq(X), NEW a \in Seq(Seq(X)), v \in S, IsAppended(a, v, e)
      PROVE  a \in S
  <2>1. IsJoined(Flat(a), Flat(v), e) /\ FirstText(a) = OrElse(FirstText(v), e)
    BY <1>2, FlatOn, FirstTextOn
  <2>2. Flat(v) \in Seq(X) /\ FirstText(v) \in Seq(X) /\ Flat(a) \in Seq(X)
    BY FlatType, FirstTextType
  <2>3. CASE FirstText(v) = << >>
    <3>1. Flat(a) = e /\ FirstText(a) = e
      <4>1. Flat(v) = << >>
        BY <1>2, <2>3
      <4> QED BY <2>1, <2>3, <4>1, JoiningNothing DEF OrElse
    <3>2. PICK z \in Seq(X) : z = << >>
      BY EmptySeq
    <3>3. IsJoined(Flat(a), FirstText(a), z)
      BY <3>1, <3>2, JoiningNothing
    <3> QED BY <3>1, <3>2, <3>3
  <2>4. CASE FirstText(v) # << >>
    <3>1. FirstText(a) = FirstText(v)
      BY <2>1, <2>4 DEF OrElse
    <3>2. PICK r \in Seq(X) : IsJoined(Flat(v), FirstText(v), r)
      BY <1>2
    <3>3. PICK q : IsJoined(q, r, e)
      BY DEF IsJoined
    <3>4. q \in Seq(X)
      BY <3>3, Joining
    <3>5. IsJoined(Flat(a), FirstText(a), q)
      BY <2>1, <2>2, <3>1, <3>2, <3>3, JoiningThree
    <3>6. Flat(a) # << >>
      BY <2>2, <2>4, <3>1, <3>4, <3>5, ConcatEqualIffEmpty DEF IsJoined
    <3> QED BY <2>4, <3>1, <3>4, <3>5, <3>6
  <2> QED BY <2>3, <2>4
<1>3. Seq(Seq(X)) \subseteq S
  <2> HIDE DEF S
  <2> QED BY <1>1, <1>2, Lengthening
<1> QED BY <1>3

\* What comes before and after a stretch of a text.
Within(p, t, X) == \E l, r \in Seq(X) : \E q : IsJoined(q, l, p) /\ IsJoined(t, q, r)

\* Each of them is a stretch of all of them, joined.
LEMMA EachIsWithin ==
  ASSUME NEW X, NEW s \in Seq(Seq(X))
  PROVE  \A i \in DOMAIN s : Within(s[i], Flat(s), X)
<1> DEFINE S == {v \in Seq(Seq(X)) : \A i \in DOMAIN v : Within(v[i], Flat(v), X)}
<1>0. PICK z \in Seq(X) : z = << >>
  BY EmptySeq
<1>1. ASSUME NEW v, v = << >>
      PROVE  v \in S
  <2>1. v \in Seq(Seq(X)) /\ DOMAIN v = {}
    BY <1>1
  <2> QED BY <2>1
<1>2. ASSUME NEW v \in Seq(Seq(X)), NEW e \in Seq(X), NEW a \in Seq(Seq(X)), v \in S, IsAppended(a, v, e)
      PROVE  a \in S
  <2> SUFFICES ASSUME NEW i \in DOMAIN a
               PROVE  Within(a[i], Flat(a), X)
    OBVIOUS
  <2>1. IsJoined(Flat(a), Flat(v), e)
    BY <1>2, FlatOn
  <2>2. Flat(v) \in Seq(X) /\ Flat(a) \in Seq(X)
    BY FlatType
  <2>3. (i \in DOMAIN v /\ a[i] = v[i]) \/ a[i] = e
    BY <1>2, Appended
  <2>4. CASE i \in DOMAIN v /\ a[i] = v[i]
    <3>0. PICK l \in Seq(X), r \in Seq(X) : \E q : IsJoined(q, l, v[i]) /\ IsJoined(Flat(v), q, r)
      BY <1>2, <2>4 DEF Within
    <3>1. PICK q : IsJoined(q, l, v[i]) /\ IsJoined(Flat(v), q, r)
      BY <3>0
    <3>2. PICK k : IsJoined(k, r, e)
      BY DEF IsJoined
    <3>3. v[i] \in Seq(X)
      BY <2>4
    <3>4. q \in Seq(X) /\ k \in Seq(X)
      BY <3>1, <3>2, <3>3, Joining
    <3>5. IsJoined(Flat(a), q, k)
      BY <2>1, <3>1, <3>2, <3>4, JoiningThree
    <3> QED BY <2>4, <3>1, <3>4, <3>5 DEF Within
  <2>5. CASE a[i] = e
    <3>1. IsJoined(Flat(a), Flat(a), z)
      BY <1>0, <2>2, JoiningNothing
    <3> QED BY <2>1, <2>2, <2>5, <3>1 DEF Within
  <2> QED BY <2>3, <2>4, <2>5
<1>3. Seq(Seq(X)) \subseteq S
  <2> HIDE DEF S
  <2> QED BY <1>1, <1>2, Lengthening
<1> QED BY <1>3

------------------------------------------------------------------------------
(* Sequences under a function.                                             *)

IsImage(b, a, h, Y) ==
  b \in Seq(Y) /\ Len(b) = Len(a) /\ Len(a) \in Nat /\ \A i \in 1..Len(a) : b[i] = h[a[i]]

\* What they are.
LEMMA Mapping ==
  ASSUME NEW X, NEW Y, NEW h, \A x \in X : h[x] \in Y, NEW a \in Seq(X), NEW b, IsMapped(b, a, h)
  PROVE  IsImage(b, a, h, Y)
<1>1. Len(a) \in Nat /\ DOMAIN a = 1..Len(a) /\ \A i \in 1..Len(a) : h[a[i]] \in Y
  OBVIOUS
<1>2. b = [i \in 1..Len(a) |-> h[a[i]]]
  BY <1>1 DEF IsMapped
<1> QED BY <1>1, <1>2 DEF IsImage

\* That of a sequence with an element more.
LEMMA MappingOn ==
  ASSUME NEW X, NEW Y, NEW h, \A x \in X : h[x] \in Y, NEW s \in Seq(X), NEW e \in X, NEW a, IsAppended(a, s, e),
         NEW b, IsMapped(b, a, h), NEW c, IsMapped(c, s, h)
  PROVE  IsAppended(b, c, h[e])
<1>1. /\ a \in Seq(X) /\ Len(s) \in Nat /\ Len(a) = Len(s) + 1 /\ a[Len(s) + 1] = e
      /\ \A i \in 1..Len(s) : a[i] = s[i]
  BY LongerByOne
<1>2. IsImage(b, a, h, Y) /\ IsImage(c, s, h, Y)
  BY <1>1, Mapping
<1>3. /\ b \in Seq(Y) /\ Len(b) = Len(s) + 1 /\ \A i \in 1..(Len(s) + 1) : b[i] = h[a[i]]
      /\ c \in Seq(Y) /\ Len(c) = Len(s) /\ \A i \in 1..Len(s) : c[i] = h[s[i]]
  BY <1>1, <1>2 DEF IsImage
<1> DEFINE d == Append(c, h[e])
<1>4. d \in Seq(Y) /\ Len(d) = Len(s) + 1 /\ d[Len(s) + 1] = h[e] /\ \A i \in 1..Len(s) : d[i] = c[i]
  BY <1>3, AppendProperties
<1> HIDE DEF d
<1>5. \A i \in 1..Len(b) : b[i] = d[i]
  <2> SUFFICES ASSUME NEW i \in 1..(Len(s) + 1)
               PROVE  b[i] = d[i]
    BY <1>3
  <2>1. CASE i \in 1..Len(s)
    BY <1>1, <1>3, <1>4, <2>1
  <2>2. CASE i = Len(s) + 1
    BY <1>1, <1>3, <1>4, <2>2
  <2> QED BY <1>1, <2>1, <2>2
<1>6. b = d
  BY <1>3, <1>4, <1>5, SeqEqual
<1> QED BY <1>6 DEF IsAppended, d

\* That of sequences that are joined.
LEMMA MappingBoth ==
  ASSUME NEW X, NEW Y, NEW h, \A x \in X : h[x] \in Y, NEW s \in Seq(X), NEW t \in Seq(X), NEW w, IsJoined(w, s, t),
         NEW b, IsMapped(b, w, h), NEW c, IsMapped(c, s, h), NEW d, IsMapped(d, t, h)
  PROVE  IsJoined(b, c, d)
<1>1. /\ w \in Seq(X) /\ Len(w) = Len(s) + Len(t) /\ Len(s) \in Nat /\ Len(t) \in Nat
      /\ \A i \in 1..(Len(s) + Len(t)) : w[i] = IF i <= Len(s) THEN s[i] ELSE t[i - Len(s)]
  BY Joining
<1>0. IsImage(b, w, h, Y) /\ IsImage(c, s, h, Y) /\ IsImage(d, t, h, Y)
  BY <1>1, Mapping
<1>2. b \in Seq(Y) /\ Len(b) = Len(s) + Len(t) /\ \A i \in 1..(Len(s) + Len(t)) : b[i] = h[w[i]]
  BY <1>0, <1>1 DEF IsImage
<1>3. c \in Seq(Y) /\ Len(c) = Len(s) /\ \A i \in 1..Len(s) : c[i] = h[s[i]]
  BY <1>0 DEF IsImage
<1>4. d \in Seq(Y) /\ Len(d) = Len(t) /\ \A i \in 1..Len(t) : d[i] = h[t[i]]
  BY <1>0 DEF IsImage
<1>5. PICK k : IsJoined(k, c, d)
  BY DEF IsJoined
<1>6. /\ k \in Seq(Y) /\ Len(k) = Len(s) + Len(t)
      /\ \A i \in 1..(Len(s) + Len(t)) : k[i] = IF i <= Len(s) THEN c[i] ELSE d[i - Len(s)]
  <2>1. c \in Seq(Y) /\ d \in Seq(Y)
    BY <1>3, <1>4
  <2>2. /\ k \in Seq(Y) /\ Len(k) = Len(c) + Len(d)
        /\ \A i \in 1..(Len(c) + Len(d)) : k[i] = IF i <= Len(c) THEN c[i] ELSE d[i - Len(c)]
    BY <1>5, <2>1, Joining
  <2> QED BY <1>3, <1>4, <2>2
<1>7. \A i \in 1..Len(b) : b[i] = k[i]
  <2> SUFFICES ASSUME NEW i \in 1..(Len(s) + Len(t))
               PROVE  b[i] = k[i]
    BY <1>2
  <2>1. CASE i <= Len(s)
    BY <1>1, <1>2, <1>3, <1>6, <2>1
  <2>2. CASE ~ (i <= Len(s))
    <3>1. i - Len(s) \in 1..Len(t)
      BY <1>1, <2>2
    <3> QED BY <1>1, <1>2, <1>4, <1>6, <2>2, <3>1
  <2> QED BY <2>1, <2>2
<1>8. b = k
  BY <1>2, <1>6, <1>7, SeqEqual
<1> QED BY <1>5, <1>8

------------------------------------------------------------------------------
(* What is left to be sent.                                                *)

\* The text that a message adds to the deltas, and the one that codex takes of it without any.
TextOf(m) == IF m.type \in {"delta", "chat"} THEN Flat(m.parts) ELSE << >>
PartOf(m) == IF m.type = "part" THEN FirstText(m.parts) ELSE << >>

TextLeft(t) == Flat([i \in DOMAIN t |-> TextOf(t[i])])
PartLeft(t) == FirstText([i \in DOMAIN t |-> PartOf(t[i])])

\* Both are texts, and so is what they make together.
LEMMA TextsOfMessage ==
  ASSUME NEW m \in TextMessages
  PROVE  TextOf(m) \in Seq(Pieces) /\ PartOf(m) \in Seq(Pieces)
<1>1. m.parts \in Seq(Seq(Pieces)) /\ << >> \in Seq(Pieces)
  BY EmptySeq, MessageTypes
<1>2. Flat(m.parts) \in Seq(Pieces) /\ FirstText(m.parts) \in Seq(Pieces)
  BY <1>1, FlatType, FirstTextType
<1> QED BY <1>1, <1>2 DEF TextOf, PartOf

\* What is left is what the texts of the messages make.
LEMMA LeftIs ==
  ASSUME NEW t \in Seq(TextMessages)
  PROVE  /\ \E b \in Seq(Seq(Pieces)) : IsMapped(b, t, [m \in TextMessages |-> TextOf(m)]) /\ TextLeft(t) = Flat(b)
         /\ \E b \in Seq(Seq(Pieces)) : IsMapped(b, t, [m \in TextMessages |-> PartOf(m)]) /\ PartLeft(t) = FirstText(b)
<1> DEFINE h == [m \in TextMessages |-> TextOf(m)]
           k == [m \in TextMessages |-> PartOf(m)]
           b == [i \in DOMAIN t |-> TextOf(t[i])]
           c == [i \in DOMAIN t |-> PartOf(t[i])]
<1>1. \A m \in TextMessages : h[m] = TextOf(m) /\ k[m] = PartOf(m) /\ h[m] \in Seq(Pieces) /\ k[m] \in Seq(Pieces)
  BY TextsOfMessage
<1>2. \A i \in DOMAIN t : t[i] \in TextMessages
  OBVIOUS
<1>3. TextLeft(t) = Flat(b) /\ PartLeft(t) = FirstText(c)
  BY DEF TextLeft, PartLeft
<1> HIDE DEF h, k
<1>4. IsMapped(b, t, h) /\ IsMapped(c, t, k)
  BY <1>1, <1>2 DEF IsMapped
<1> HIDE DEF b, c
<1>5. b \in Seq(Seq(Pieces)) /\ c \in Seq(Seq(Pieces))
  <2>1. IsImage(b, t, h, Seq(Pieces)) /\ IsImage(c, t, k, Seq(Pieces))
    BY <1>1, <1>4, Mapping
  <2> QED BY <2>1 DEF IsImage
<1> QED BY <1>3, <1>4, <1>5 DEF h, k

\* It is a text.
LEMMA LeftType ==
  ASSUME NEW t \in Seq(TextMessages)
  PROVE  TextLeft(t) \in Seq(Pieces) /\ PartLeft(t) \in Seq(Pieces)
BY LeftIs, FlatType, FirstTextType

\* None is left of nothing.
LEMMA LeftOfNone ==
  ASSUME NEW t, t = << >>
  PROVE  TextLeft(t) = << >> /\ PartLeft(t) = << >>
<1>1. [i \in DOMAIN t |-> TextOf(t[i])] = << >> /\ [i \in DOMAIN t |-> PartOf(t[i])] = << >>
  OBVIOUS
<1>2. TextLeft(t) = << >>
  BY <1>1, FlatOfNone DEF TextLeft
<1>3. PartLeft(t) = << >>
  BY <1>1, FirstTextOfNone DEF PartLeft
<1> QED BY <1>2, <1>3

\* Of messages and others it is that of both.
LEMMA LeftOfBoth ==
  ASSUME NEW s \in Seq(TextMessages), NEW t \in Seq(TextMessages), NEW w, IsJoined(w, s, t)
  PROVE  IsJoined(TextLeft(w), TextLeft(s), TextLeft(t)) /\ PartLeft(w) = OrElse(PartLeft(s), PartLeft(t))
<1> DEFINE h == [m \in TextMessages |-> TextOf(m)]
           k == [m \in TextMessages |-> PartOf(m)]
<1>1. \A m \in TextMessages : h[m] \in Seq(Pieces) /\ k[m] \in Seq(Pieces)
  BY TextsOfMessage
<1>2. w \in Seq(TextMessages)
  BY Joining
<1>3. PICK b \in Seq(Seq(Pieces)), c \in Seq(Seq(Pieces)), d \in Seq(Seq(Pieces)) :
        /\ IsMapped(b, w, h) /\ IsMapped(c, s, h) /\ IsMapped(d, t, h)
        /\ TextLeft(w) = Flat(b) /\ TextLeft(s) = Flat(c) /\ TextLeft(t) = Flat(d)
  BY <1>2, LeftIs
<1>4. PICK e \in Seq(Seq(Pieces)), f \in Seq(Seq(Pieces)), g \in Seq(Seq(Pieces)) :
        /\ IsMapped(e, w, k) /\ IsMapped(f, s, k) /\ IsMapped(g, t, k)
        /\ PartLeft(w) = FirstText(e) /\ PartLeft(s) = FirstText(f) /\ PartLeft(t) = FirstText(g)
  BY <1>2, LeftIs
<1> HIDE DEF h, k
<1>5. IsJoined(b, c, d) /\ IsJoined(e, f, g)
  BY <1>1, <1>3, <1>4, MappingBoth
<1>6. IsJoined(Flat(b), Flat(c), Flat(d))
  BY <1>5, FlatOfBoth
<1>7. FirstText(e) = OrElse(FirstText(f), FirstText(g))
  BY <1>5, FirstTextOfBoth
<1> QED BY <1>3, <1>4, <1>6, <1>7

\* Of one alone it is its own.
LEMMA LeftOfOne ==
  ASSUME NEW m \in TextMessages, NEW t, t = <<m>>
  PROVE  t \in Seq(TextMessages) /\ TextLeft(t) = TextOf(m) /\ PartLeft(t) = PartOf(m)
<1>1. t \in Seq(TextMessages) /\ DOMAIN t = {1} /\ t[1] = m
  OBVIOUS
<1>2. [i \in DOMAIN t |-> TextOf(t[i])] = <<TextOf(m)>> /\ [i \in DOMAIN t |-> PartOf(t[i])] = <<PartOf(m)>>
  BY <1>1
<1>3. TextOf(m) \in Seq(Pieces) /\ PartOf(m) \in Seq(Pieces)
  BY TextsOfMessage
<1>4. TextLeft(t) = TextOf(m)
  BY <1>2, <1>3, FlatOfOne DEF TextLeft
<1>5. PartLeft(t) = PartOf(m)
  BY <1>2, <1>3, FirstTextOfOne DEF PartLeft
<1> QED BY <1>1, <1>4, <1>5

\* And it is that of the next message with that of the rest.
LEMMA LeftAhead ==
  ASSUME NEW t \in Seq(TextMessages), t # << >>, NEW r, IsRest(r, t), NEW m, m = Head(t)
  PROVE  /\ m \in TextMessages /\ r \in Seq(TextMessages)
         /\ IsJoined(TextLeft(t), TextOf(m), TextLeft(r)) /\ PartLeft(t) = OrElse(PartOf(m), PartLeft(r))
<1>1. /\ m = t[1] /\ m \in TextMessages /\ r \in Seq(TextMessages) /\ Len(r) \in Nat /\ Len(t) = Len(r) + 1
      /\ \A i \in 1..Len(r) : r[i] = t[i + 1]
  BY Rest
<1>2. PICK o : o = <<m>>
  OBVIOUS
<1>3. o \in Seq(TextMessages) /\ TextLeft(o) = TextOf(m) /\ PartLeft(o) = PartOf(m) /\ Len(o) = 1 /\ o[1] = m
  BY <1>1, <1>2, LeftOfOne
<1>4. IsJoined(t, o, r)
  <2>1. PICK w : IsJoined(w, o, r)
    BY DEF IsJoined
  <2>2. /\ w \in Seq(TextMessages) /\ Len(w) = 1 + Len(r)
        /\ \A i \in 1..(1 + Len(r)) : w[i] = IF i <= 1 THEN o[i] ELSE r[i - 1]
    <3>0. o \in Seq(TextMessages) /\ r \in Seq(TextMessages)
      BY <1>1, <1>3
    <3>1. /\ w \in Seq(TextMessages) /\ Len(w) = Len(o) + Len(r)
          /\ \A i \in 1..(Len(o) + Len(r)) : w[i] = IF i <= Len(o) THEN o[i] ELSE r[i - Len(o)]
      BY <2>1, <3>0, Joining
    <3> QED BY <1>3, <3>1
  <2>3. \A i \in 1..Len(w) : w[i] = t[i]
    <3> SUFFICES ASSUME NEW i \in 1..(1 + Len(r))
                 PROVE  w[i] = t[i]
      BY <2>2
    <3>1. CASE i = 1
      BY <1>1, <1>3, <2>2, <3>1
    <3>2. CASE i # 1
      <4>1. i - 1 \in 1..Len(r) /\ (i - 1) + 1 = i /\ ~ (i <= 1)
        BY <1>1, <3>2
      <4> QED BY <1>1, <2>2, <4>1
    <3> QED BY <3>1, <3>2
  <2>4. w = t
    <3>1. Len(w) = Len(t)
      BY <1>1, <2>2
    <3> QED BY <2>2, <2>3, <3>1, SeqEqual
  <2> QED BY <2>1, <2>4
<1>5. IsJoined(TextLeft(t), TextLeft(o), TextLeft(r)) /\ PartLeft(t) = OrElse(PartLeft(o), PartLeft(r))
  BY <1>1, <1>3, <1>4, LeftOfBoth
<1> QED BY <1>1, <1>3, <1>5

\* Pieces, each a text of its own, join to the text they were.
LEMMA FlatOfPieces ==
  ASSUME NEW X, NEW p \in Seq(X), NEW h, h = [x \in X |-> <<x>>], NEW b, IsMapped(b, p, h)
  PROVE  Flat(b) = p
<1>1. \A x \in X : h[x] = <<x>> /\ h[x] \in Seq(X)
  OBVIOUS
<1> DEFINE S == {v \in Seq(X) : \A c : IsMapped(c, v, h) => Flat(c) = v}
<1>2. ASSUME NEW v, v = << >>
      PROVE  v \in S
  <2>1. v \in Seq(X) /\ \A c : IsMapped(c, v, h) => c = << >>
    BY <1>2 DEF IsMapped
  <2> QED BY <1>2, <2>1, FlatOfNone
<1>3. ASSUME NEW v \in Seq(X), NEW e \in X, NEW a \in Seq(X), v \in S, IsAppended(a, v, e)
      PROVE  a \in S
  <2> SUFFICES ASSUME NEW c, IsMapped(c, a, h)
               PROVE  Flat(c) = a
    OBVIOUS
  <2>1. PICK d : IsMapped(d, v, h)
    BY DEF IsMapped
  <2>2. Flat(d) = v
    BY <1>3, <2>1
  <2>3. IsAppended(c, d, h[e])
    BY <1>1, <1>3, <2>1, MappingOn
  <2>4. d \in Seq(Seq(X))
    <3>1. IsImage(d, v, h, Seq(X))
      BY <1>1, <2>1, Mapping
    <3> QED BY <3>1 DEF IsImage
  <2>5. IsJoined(Flat(c), Flat(d), h[e])
    BY <1>1, <2>3, <2>4, FlatOn
  <2>6. v \o <<e>> = Append(v, e)
    BY AppendIsConcat
  <2> QED BY <1>1, <1>3, <2>2, <2>5, <2>6 DEF IsJoined, IsAppended
<1>4. Seq(X) \subseteq S
  <2> HIDE DEF S
  <2> QED BY <1>2, <1>3, Lengthening
<1> QED BY <1>4

------------------------------------------------------------------------------
(* The script of an answer.                                                *)

\* What may be a message of the exchange x.
IsOf(x, m) ==
  /\ m.named = Named(x.framing)
  /\ \/ /\ m.type = (IF Chats(x.llm) THEN "chat" ELSE "delta")
        /\ \E p \in Pieces : m.parts = << <<p>> >>
     \/ m.type = "part" /\ x.llm = "openai" /\ \E i \in DOMAIN x.answer : m.parts = <<x.answer[i]>>
     \/ m.type = "completed" /\ x.llm = "openai" /\ m.parts = x.answer

MessagesOf(x) == {m \in TextMessages : IsOf(x, m)}

\* The messages of a script, by what they repeat of the answer.
DeltaOf(x, piece) == Message(IF Chats(x.llm) THEN "chat" ELSE "delta", Named(x.framing), << <<piece>> >>)
DeltasOf(x, p)    == IF "delta" \in x.carriers THEN [i \in DOMAIN p |-> DeltaOf(x, p[i])] ELSE << >>
Repeated(x, p)    == IF "part" \in x.carriers THEN <<Message("part", Named(x.framing), <<p>>)>> ELSE << >>
PartScript(x, p)  == DeltasOf(x, p) \o Repeated(x, p)
Parts(x, answer)  == Flat([i \in DOMAIN answer |-> PartScript(x, answer[i])])
Completed(x)      == IF "completed" \in x.carriers THEN <<Message("completed", Named(x.framing), x.answer)>> ELSE << >>
ScriptOf(x)       == Script(x.llm, x.framing, x.carriers, x.answer)

\* They are all of it.
LEMMA ScriptIs == \A x : IsJoined(ScriptOf(x), Parts(x, x.answer), Completed(x))
BY DEF IsJoined, ScriptOf, Script, Parts, PartScript, DeltasOf, Repeated, DeltaOf, Completed

\* What the carriers of a stream are.
LEMMA CarriersAre ==
  ASSUME NEW x \in Exchanges, x.form = "stream"
  PROVE  /\ x.llm # "openai" => x.carriers = {"delta"}
         /\ x.llm = "openai" => "completed" \in x.carriers
<1>1. x.carriers \in Carriers(x.llm, x.form)
  BY DEF Exchanges
<1> QED BY <1>1 DEF Carriers

\* The messages are of the exchange.
LEMMA ScriptMessages ==
  ASSUME NEW x \in Exchanges, x.form = "stream"
  PROVE  /\ \A piece \in Pieces : DeltaOf(x, piece) \in MessagesOf(x) /\ TextOf(DeltaOf(x, piece)) = <<piece>>
                                  /\ PartOf(DeltaOf(x, piece)) = << >>
         /\ \A i \in DOMAIN x.answer : Repeated(x, x.answer[i]) \in Seq(MessagesOf(x))
         /\ Completed(x) \in Seq(MessagesOf(x))
<1>1. Named(x.framing) \in BOOLEAN /\ x.answer \in Seq(Seq(Pieces))
  BY ExchangeIs DEF Named
<1>2. "part" \in x.carriers \/ "completed" \in x.carriers => x.llm = "openai"
  BY CarriersAre
<1>3. ASSUME NEW piece \in Pieces
      PROVE  DeltaOf(x, piece) \in MessagesOf(x) /\ TextOf(DeltaOf(x, piece)) = <<piece>> /\ PartOf(DeltaOf(x, piece)) = << >>
  <2> DEFINE m == DeltaOf(x, piece)
             k == <<piece>>
  <2>1. PICK u : u = << <<piece>> >>
    OBVIOUS
  <2>2. u \in Seq(Seq(Pieces)) /\ k \in Seq(Pieces) /\ u = <<k>>
    BY <2>1
  <2>3. m.type = (IF Chats(x.llm) THEN "chat" ELSE "delta") /\ m.named = Named(x.framing) /\ m.parts = u
    BY <2>1 DEF DeltaOf, Message
  <2>4. m \in TextMessages
    BY <1>1, <2>1, <2>2, MessageIs DEF DeltaOf
  <2>5. IsOf(x, m)
    BY <2>1, <2>3 DEF IsOf
  <2> HIDE DEF m, k
  <2>6. Flat(u) = k
    BY <2>2, FlatOfOne
  <2>7. TextOf(m) = k /\ PartOf(m) = << >>
    BY <2>3, <2>6 DEF TextOf, PartOf
  <2> QED BY <2>4, <2>5, <2>7 DEF MessagesOf, m, k
<1>4. ASSUME NEW i \in DOMAIN x.answer
      PROVE  Repeated(x, x.answer[i]) \in Seq(MessagesOf(x))
  <2> DEFINE m == Message("part", Named(x.framing), <<x.answer[i]>>)
  <2>1. <<x.answer[i]>> \in Seq(Seq(Pieces))
    BY <1>1
  <2>2. m \in TextMessages
    BY <1>1, <2>1, MessageIs
  <2>3. m.type = "part" /\ m.named = Named(x.framing) /\ m.parts = <<x.answer[i]>>
    BY DEF Message
  <2>4. "part" \in x.carriers => m \in MessagesOf(x)
    BY <1>2, <2>2, <2>3 DEF MessagesOf, IsOf
  <2>5. Repeated(x, x.answer[i]) = IF "part" \in x.carriers THEN <<m>> ELSE << >>
    BY DEF Repeated
  <2> HIDE DEF m
  <2> QED BY <2>4, <2>5
<1>5. Completed(x) \in Seq(MessagesOf(x))
  <2> DEFINE m == Message("completed", Named(x.framing), x.answer)
  <2>2. m \in TextMessages
    BY <1>1, MessageIs
  <2>3. m.type = "completed" /\ m.named = Named(x.framing) /\ m.parts = x.answer
    BY DEF Message
  <2>4. "completed" \in x.carriers => m \in MessagesOf(x)
    BY <1>2, <2>2, <2>3 DEF MessagesOf, IsOf
  <2>5. Completed(x) = IF "completed" \in x.carriers THEN <<m>> ELSE << >>
    BY DEF Completed
  <2> HIDE DEF m
  <2> QED BY <2>4, <2>5
<1> QED BY <1>3, <1>4, <1>5

\* The deltas of a text carry it, and nothing else.
LEMMA DeltasCarry ==
  ASSUME NEW x \in Exchanges, x.form = "stream", NEW p \in Seq(Pieces), NEW d, d = DeltasOf(x, p)
  PROVE  /\ d \in Seq(MessagesOf(x))
         /\ TextLeft(d) = (IF "delta" \in x.carriers THEN p ELSE << >>) /\ PartLeft(d) = << >>
<1>1. CASE "delta" \notin x.carriers
  <2>1. d = << >>
    BY <1>1 DEF DeltasOf
  <2> QED BY <1>1, <2>1, LeftOfNone
<1>2. CASE "delta" \in x.carriers
  <2> DEFINE h == [y \in Pieces |-> <<y>>]
             b == [i \in DOMAIN d |-> TextOf(d[i])]
             c == [i \in DOMAIN d |-> PartOf(d[i])]
  <2>1. d = [i \in DOMAIN p |-> DeltaOf(x, p[i])]
    BY <1>2 DEF DeltasOf
  <2>2. Len(p) \in Nat /\ DOMAIN p = 1..Len(p) /\ \A i \in 1..Len(p) : p[i] \in Pieces
    OBVIOUS
  <2>3. \A i \in 1..Len(p) : DeltaOf(x, p[i]) \in MessagesOf(x) /\ TextOf(DeltaOf(x, p[i])) = <<p[i]>> /\ PartOf(DeltaOf(x, p[i])) = << >>
    BY <2>2, ScriptMessages
  <2>4. d \in Seq(MessagesOf(x)) /\ DOMAIN d = DOMAIN p /\ \A i \in DOMAIN p : TextOf(d[i]) = <<p[i]>> /\ PartOf(d[i]) = << >>
    BY <2>1, <2>2, <2>3
  <2>5. IsMapped(b, p, h)
    BY <2>2, <2>4 DEF IsMapped
  <2>6. TextLeft(d) = Flat(b) /\ PartLeft(d) = FirstText(c)
    BY DEF TextLeft, PartLeft
  <2>7. c \in Seq(Seq(Pieces)) /\ \A i \in DOMAIN c : c[i] = << >>
    <3>1. c = [i \in 1..Len(p) |-> << >>] /\ << >> \in Seq(Pieces)
      BY <2>2, <2>4
    <3> HIDE DEF c
    <3> QED BY <2>2, <3>1
  <2> HIDE DEF h, b, c
  <2>8. Flat(b) = p
    BY <2>5, FlatOfPieces DEF h
  <2>9. FirstText(c) = << >>
    BY <2>7, FirstTextIsOne
  <2> QED BY <1>2, <2>4, <2>6, <2>8, <2>9
<1> QED BY <1>1, <1>2

\* What repeats a text has it as a part, if that is repeated.
LEMMA RepeatsCarry ==
  ASSUME NEW x \in Exchanges, NEW p \in Seq(Pieces), NEW d, d = Repeated(x, p)
  PROVE  /\ d \in Seq(TextMessages)
         /\ TextLeft(d) = << >> /\ PartLeft(d) = (IF "part" \in x.carriers THEN p ELSE << >>)
<1>1. CASE "part" \notin x.carriers
  <2>1. d = << >>
    BY <1>1 DEF Repeated
  <2> QED BY <1>1, <2>1, LeftOfNone
<1>2. CASE "part" \in x.carriers
  <2>0. PICK u : u = <<p>>
    OBVIOUS
  <2>1. PICK m : m = Message("part", Named(x.framing), u)
    OBVIOUS
  <2>2. Named(x.framing) \in BOOLEAN /\ u \in Seq(Seq(Pieces))
    BY <2>0 DEF Named
  <2>3. m \in TextMessages /\ m.type = "part" /\ m.parts = u
    BY <2>1, <2>2, MessageIs DEF Message
  <2>4. d = <<m>>
    BY <1>2, <2>0, <2>1 DEF Repeated
  <2>5. d \in Seq(TextMessages) /\ TextLeft(d) = TextOf(m) /\ PartLeft(d) = PartOf(m)
    BY <2>3, <2>4, LeftOfOne
  <2>6. FirstText(u) = p
    BY <2>0, FirstTextOfOne
  <2> QED BY <1>2, <2>3, <2>5, <2>6 DEF TextOf, PartOf
<1> QED BY <1>1, <1>2

\* The messages of a part carry its text as deltas, if there are any, and repeat it, if that is done.
LEMMA PartsCarryOne ==
  ASSUME NEW x \in Exchanges, x.form = "stream", NEW p \in Seq(Pieces)
  PROVE  /\ PartScript(x, p) \in Seq(TextMessages)
         /\ TextLeft(PartScript(x, p)) = (IF "delta" \in x.carriers THEN p ELSE << >>)
         /\ PartLeft(PartScript(x, p)) = (IF "part" \in x.carriers THEN p ELSE << >>)
<1>1. PICK d, e, w : d = DeltasOf(x, p) /\ e = Repeated(x, p) /\ w = PartScript(x, p)
  OBVIOUS
<1>2. IsJoined(w, d, e)
  BY <1>1 DEF IsJoined, PartScript
<1>3. d \in Seq(MessagesOf(x)) /\ TextLeft(d) = (IF "delta" \in x.carriers THEN p ELSE << >>) /\ PartLeft(d) = << >>
  BY <1>1, DeltasCarry
<1>4. d \in Seq(TextMessages)
  BY <1>3, SeqMonotonic DEF MessagesOf
<1>5. e \in Seq(TextMessages) /\ TextLeft(e) = << >> /\ PartLeft(e) = (IF "part" \in x.carriers THEN p ELSE << >>)
  BY <1>1, RepeatsCarry
<1>6. w \in Seq(TextMessages)
  BY <1>2, <1>4, <1>5, Joining
<1>7. IsJoined(TextLeft(w), TextLeft(d), TextLeft(e)) /\ PartLeft(w) = OrElse(PartLeft(d), PartLeft(e))
  BY <1>2, <1>4, <1>5, LeftOfBoth
<1>8. TextLeft(w) = TextLeft(d)
  <2>1. TextLeft(d) \in Seq(Pieces)
    BY <1>4, LeftType
  <2> QED BY <1>5, <1>7, <2>1, JoiningNothing
<1>9. PartLeft(w) = PartLeft(e)
  BY <1>3, <1>7 DEF OrElse
<1> QED BY <1>1, <1>3, <1>5, <1>6, <1>8, <1>9

\* So do those of all the parts.
LEMMA PartsCarry ==
  ASSUME NEW x \in Exchanges, x.form = "stream", NEW answer \in Seq(Seq(Pieces))
  PROVE  /\ Parts(x, answer) \in Seq(TextMessages)
         /\ TextLeft(Parts(x, answer)) = (IF "delta" \in x.carriers THEN Flat(answer) ELSE << >>)
         /\ PartLeft(Parts(x, answer)) = (IF "part" \in x.carriers THEN FirstText(answer) ELSE << >>)
<1> DEFINE h == [p \in Seq(Pieces) |-> PartScript(x, p)]
           Good(v) == /\ Parts(x, v) \in Seq(TextMessages)
                      /\ TextLeft(Parts(x, v)) = (IF "delta" \in x.carriers THEN Flat(v) ELSE << >>)
                      /\ PartLeft(Parts(x, v)) = (IF "part" \in x.carriers THEN FirstText(v) ELSE << >>)
           S == {v \in Seq(Seq(Pieces)) : Good(v)}
<1>1. \A p \in Seq(Pieces) : h[p] = PartScript(x, p) /\ h[p] \in Seq(TextMessages)
  BY PartsCarryOne
<1>2. ASSUME NEW v \in Seq(Seq(Pieces))
      PROVE  \E b \in Seq(Seq(TextMessages)) : IsMapped(b, v, h) /\ Parts(x, v) = Flat(b)
  <2> DEFINE b == [i \in DOMAIN v |-> PartScript(x, v[i])]
  <2>1. \A i \in DOMAIN v : v[i] \in Seq(Pieces)
    OBVIOUS
  <2>2. IsMapped(b, v, h)
    BY <1>1, <2>1 DEF IsMapped
  <2>3. Parts(x, v) = Flat(b)
    BY DEF Parts
  <2> HIDE DEF b, h
  <2>4. IsImage(b, v, h, Seq(TextMessages))
    BY <1>1, <2>2, Mapping
  <2> QED BY <2>2, <2>3, <2>4 DEF IsImage
<1> HIDE DEF h
<1>3. ASSUME NEW v, v = << >>
      PROVE  v \in S
  <2>1. v \in Seq(Seq(Pieces))
    BY <1>3
  <2>2. PICK b \in Seq(Seq(TextMessages)) : IsMapped(b, v, h) /\ Parts(x, v) = Flat(b)
    BY <1>2, <2>1
  <2>3. b = << >>
    BY <1>3, <2>2 DEF IsMapped
  <2>4. Parts(x, v) = << >> /\ Flat(v) = << >> /\ FirstText(v) = << >>
    BY <1>3, <2>2, <2>3, FlatOfNone, FirstTextOfNone
  <2>5. TextLeft(Parts(x, v)) = << >> /\ PartLeft(Parts(x, v)) = << >>
    BY <2>4, LeftOfNone
  <2>6. Parts(x, v) \in Seq(TextMessages)
    BY <2>4, EmptySeq
  <2> QED BY <2>1, <2>4, <2>5, <2>6
<1>4. ASSUME NEW v \in Seq(Seq(Pieces)), NEW e \in Seq(Pieces), NEW a \in Seq(Seq(Pieces)), v \in S, IsAppended(a, v, e)
      PROVE  a \in S
  <2>1. PICK b \in Seq(Seq(TextMessages)) : IsMapped(b, v, h) /\ Parts(x, v) = Flat(b)
    BY <1>2
  <2>2. PICK c \in Seq(Seq(TextMessages)) : IsMapped(c, a, h) /\ Parts(x, a) = Flat(c)
    BY <1>2
  <2>3. IsAppended(c, b, h[e])
    BY <1>1, <1>4, <2>1, <2>2, MappingOn
  <2>4. IsJoined(Flat(c), Flat(b), h[e])
    BY <1>1, <2>3, FlatOn
  <2>5. PICK s, q, w : s = Parts(x, v) /\ q = PartScript(x, e) /\ w = Parts(x, a)
    OBVIOUS
  <2>6. IsJoined(w, s, q)
    BY <1>1, <2>1, <2>2, <2>4, <2>5
  <2>7. /\ s \in Seq(TextMessages) /\ TextLeft(s) = (IF "delta" \in x.carriers THEN Flat(v) ELSE << >>)
        /\ PartLeft(s) = (IF "part" \in x.carriers THEN FirstText(v) ELSE << >>)
    BY <1>4, <2>5
  <2>8. /\ q \in Seq(TextMessages) /\ TextLeft(q) = (IF "delta" \in x.carriers THEN e ELSE << >>)
        /\ PartLeft(q) = (IF "part" \in x.carriers THEN e ELSE << >>)
    BY <2>5, PartsCarryOne
  <2>9. w \in Seq(TextMessages)
    BY <2>6, <2>7, <2>8, Joining
  <2>10. IsJoined(TextLeft(w), TextLeft(s), TextLeft(q)) /\ PartLeft(w) = OrElse(PartLeft(s), PartLeft(q))
    BY <2>6, <2>7, <2>8, LeftOfBoth
  <2>11. IsJoined(Flat(a), Flat(v), e) /\ FirstText(a) = OrElse(FirstText(v), e)
    BY <1>4, FlatOn, FirstTextOn
  <2>12. TextLeft(w) = IF "delta" \in x.carriers THEN Flat(a) ELSE << >>
    <3>1. CASE "delta" \in x.carriers
      BY <2>7, <2>8, <2>10, <2>11, <3>1 DEF IsJoined
    <3>2. CASE "delta" \notin x.carriers
      <4>1. TextLeft(s) \in Seq(Pieces)
        BY <2>7, LeftType
      <4> QED BY <2>7, <2>8, <2>10, <3>2, <4>1, JoiningNothing
    <3> QED BY <3>1, <3>2
  <2>13. PartLeft(w) = IF "part" \in x.carriers THEN FirstText(a) ELSE << >>
    BY <2>7, <2>8, <2>10, <2>11 DEF OrElse
  <2> QED BY <2>5, <2>9, <2>12, <2>13
<1>5. Seq(Seq(Pieces)) \subseteq S
  <2> HIDE DEF S
  <2> QED BY <1>3, <1>4, Lengthening
<1> QED BY <1>5

\* What a script carries, to be sent.
LEMMA ScriptCarries ==
  ASSUME NEW x \in Exchanges, x.form = "stream", NEW t, t = ScriptOf(x)
  PROVE  /\ t \in Seq(MessagesOf(x))
         /\ TextLeft(t) = (IF "delta" \in x.carriers THEN Flat(x.answer) ELSE << >>)
         /\ PartLeft(t) \in {<< >>, FirstText(x.answer)}
         /\ x.llm = "openai" => \E i \in DOMAIN t : t[i].type = "completed"
         /\ t = << >> => Flat(x.answer) = << >>
<1>1. PICK s, c : s = Parts(x, x.answer) /\ c = Completed(x)
  OBVIOUS
<1>2. IsJoined(t, s, c)
  BY <1>1, ScriptIs
<1>3. x.answer \in Seq(Seq(Pieces))
  BY ExchangeIs
<1>4. /\ s \in Seq(TextMessages)
      /\ TextLeft(s) = (IF "delta" \in x.carriers THEN Flat(x.answer) ELSE << >>)
      /\ PartLeft(s) = (IF "part" \in x.carriers THEN FirstText(x.answer) ELSE << >>)
  BY <1>1, <1>3, PartsCarry
<1>5. s \in Seq(MessagesOf(x))
  <2> DEFINE b == [i \in DOMAIN x.answer |-> PartScript(x, x.answer[i])]
  <2>1. \A i \in DOMAIN x.answer : PartScript(x, x.answer[i]) \in Seq(MessagesOf(x))
    <3> SUFFICES ASSUME NEW i \in DOMAIN x.answer
                 PROVE  PartScript(x, x.answer[i]) \in Seq(MessagesOf(x))
      OBVIOUS
    <3>1. PICK d, e, w : d = DeltasOf(x, x.answer[i]) /\ e = Repeated(x, x.answer[i]) /\ w = PartScript(x, x.answer[i])
      OBVIOUS
    <3>2. x.answer[i] \in Seq(Pieces)
      BY <1>3
    <3>3. d \in Seq(MessagesOf(x))
      BY <3>1, <3>2, DeltasCarry
    <3>4. e \in Seq(MessagesOf(x))
      BY <3>1, ScriptMessages
    <3>5. IsJoined(w, d, e)
      BY <3>1 DEF IsJoined, PartScript
    <3> QED BY <3>1, <3>3, <3>4, <3>5, Joining
  <2>2. b \in Seq(Seq(MessagesOf(x)))
    <3>1. Len(x.answer) \in Nat /\ DOMAIN x.answer = 1..Len(x.answer)
      BY <1>3
    <3> QED BY <2>1, <3>1
  <2>3. s = Flat(b)
    BY <1>1 DEF Parts
  <2> HIDE DEF b
  <2> QED BY <2>2, <2>3, FlatType
<1>6. c \in Seq(MessagesOf(x))
  BY <1>1, ScriptMessages
<1>7. t \in Seq(MessagesOf(x)) /\ Len(t) = Len(s) + Len(c) /\ \A i \in 1..(Len(s) + Len(c)) : t[i] = IF i <= Len(s) THEN s[i] ELSE c[i - Len(s)]
  BY <1>2, <1>5, <1>6, Joining
<1>8. c \in Seq(TextMessages) /\ TextLeft(c) = << >> /\ PartLeft(c) = << >>
  <2>1. CASE "completed" \notin x.carriers
    <3>1. c = << >>
      BY <1>1, <2>1 DEF Completed
    <3> QED BY <3>1, LeftOfNone
  <2>2. CASE "completed" \in x.carriers
    <3>1. PICK m : m = Message("completed", Named(x.framing), x.answer)
      OBVIOUS
    <3>2. Named(x.framing) \in BOOLEAN
      BY DEF Named
    <3>3. m \in TextMessages /\ m.type = "completed"
      BY <1>3, <3>1, <3>2, MessageIs
    <3>4. c = <<m>>
      BY <1>1, <2>2, <3>1 DEF Completed
    <3>5. TextOf(m) = << >> /\ PartOf(m) = << >>
      BY <3>3 DEF TextOf, PartOf
    <3> QED BY <3>3, <3>4, <3>5, LeftOfOne
  <2> QED BY <2>1, <2>2
<1>9. IsJoined(TextLeft(t), TextLeft(s), TextLeft(c)) /\ PartLeft(t) = OrElse(PartLeft(s), PartLeft(c))
  BY <1>2, <1>4, <1>8, LeftOfBoth
<1>10. TextLeft(t) = TextLeft(s)
  <2>1. TextLeft(s) \in Seq(Pieces)
    BY <1>4, LeftType
  <2> QED BY <1>8, <1>9, <2>1, JoiningNothing
<1>11. PartLeft(t) = PartLeft(s)
  BY <1>8, <1>9 DEF OrElse
<1>12. x.llm = "openai" => \E i \in DOMAIN t : t[i].type = "completed"
  <2> SUFFICES ASSUME x.llm = "openai"
               PROVE  \E i \in DOMAIN t : t[i].type = "completed"
    OBVIOUS
  <2>1. PICK m : m = Message("completed", Named(x.framing), x.answer)
    OBVIOUS
  <2>2. m.type = "completed"
    BY <2>1, MessageIs
  <2>3. c = <<m>>
    BY <1>1, <2>1, CarriersAre DEF Completed
  <2>4. Len(c) = 1 /\ c[1] = m /\ Len(s) \in Nat /\ DOMAIN t = 1..Len(t)
    BY <1>4, <1>7, <2>3
  <2>5. Len(s) + 1 \in 1..(Len(s) + Len(c)) /\ ~ (Len(s) + 1 <= Len(s)) /\ (Len(s) + 1) - Len(s) = 1
    BY <2>4
  <2>6. t[Len(s) + 1] = m
    BY <1>7, <2>4, <2>5
  <2> QED BY <1>7, <2>2, <2>4, <2>5, <2>6
<1>13. t = << >> => Flat(x.answer) = << >>
  <2> SUFFICES ASSUME t = << >>
               PROVE  Flat(x.answer) = << >>
    OBVIOUS
  <2>1. DOMAIN t = {}
    OBVIOUS
  <2>2. x.carriers = {"delta"}
    BY <1>12, <2>1, CarriersAre
  <2> QED BY <1>4, <1>10, <2>2, LeftOfNone
<1> QED BY <1>4, <1>7, <1>10, <1>11, <1>12, <1>13

------------------------------------------------------------------------------
(* What the events tell.                                                   *)

\* The events that carry text for a transport.
Readable(llm, e) ==
  \/ llm = "openai" /\ e.type = "delta" /\ e.payload # NotJSON
  \/ Chats(llm) /\ e.type # "done" /\ e.payload.type = "chat"
  \/ llm = "anthropic" /\ e.payload.named /\ e.payload.type = "delta"

\* The payloads of the events at some places.
Heard(u, P) == LET c == Selected(u, P) IN [i \in DOMAIN c |-> c[i].payload]

Deltas(llm, u) == TextOfEach(Heard(u, {i \in DOMAIN u : Readable(llm, u[i])}))

\* That is what each transport takes for its deltas.
LEMMA DeltasAre ==
  ASSUME NEW u
  PROVE  /\ Deltas("openai", u) = TextOfEach(Payloads(u, "delta"))
         /\ \A llm : Chats(llm) => Deltas(llm, u) = ChatDeltas(u)
         /\ Deltas("anthropic", u) = AnthropicDeltas(u)
<1>1. ~ Chats("openai") /\ ~ Chats("anthropic") /\ \A llm : Chats(llm) => llm # "openai" /\ llm # "anthropic"
  BY DEF Chats
<1>2. Deltas("openai", u) = TextOfEach(Payloads(u, "delta"))
  <2> DEFINE P == {i \in DOMAIN u : Readable("openai", u[i])}
             Q == {i \in DOMAIN u : u[i].type = "delta" /\ u[i].payload # NotJSON}
  <2>1. P = Q
    BY <1>1 DEF Readable
  <2> HIDE DEF P, Q
  <2> QED BY <2>1 DEF Deltas, Payloads, Heard, P, Q
<1>3. ASSUME NEW llm, Chats(llm)
      PROVE  Deltas(llm, u) = ChatDeltas(u)
  <2> DEFINE P == {i \in DOMAIN u : Readable(llm, u[i])}
             Q == {i \in DOMAIN u : u[i].type # "done" /\ u[i].payload.type = "chat"}
  <2>1. P = Q
    BY <1>1, <1>3 DEF Readable
  <2> HIDE DEF P, Q
  <2> QED BY <2>1 DEF Deltas, ChatDeltas, Chosen, Heard, P, Q
<1>4. Deltas("anthropic", u) = AnthropicDeltas(u)
  <2> DEFINE P == {i \in DOMAIN u : Readable("anthropic", u[i])}
             Q == {i \in DOMAIN u : u[i].payload.named /\ u[i].payload.type = "delta"}
  <2>1. P = Q
    BY <1>1 DEF Readable
  <2> HIDE DEF P, Q
  <2> QED BY <2>1 DEF Deltas, AnthropicDeltas, Chosen, Heard, P, Q
<1> QED BY <1>2, <1>3, <1>4

\* What is heard of one event more.
LEMMA HearingMore ==
  ASSUME NEW X, NEW u \in Seq(X), NEW e \in X, NEW a, IsAppended(a, u, e), NEW P, NEW Q, \A i \in 1..Len(u) : i \in P <=> i \in Q
  PROVE  /\ Len(u) + 1 \notin Q => Heard(a, Q) = Heard(u, P)
         /\ Len(u) + 1 \in Q => IsAppended(Heard(a, Q), Heard(u, P), e.payload)
<1> DEFINE c == Selected(u, P)
           d == Selected(a, Q)
           h == [y \in X |-> y.payload]
           Y == {y.payload : y \in X}
<1>1. /\ Len(u) + 1 \notin Q => d = c
      /\ Len(u) + 1 \in Q => IsAppended(d, c, e)
  BY SelectingMore
<1>2. Len(u) + 1 \notin Q => Heard(a, Q) = Heard(u, P)
  BY <1>1 DEF Heard
<1>3. c \in Seq(X)
  <2>1. Len(u) \in Nat /\ \A i \in P \cap (1..Len(u)) : u[i] \in X
    OBVIOUS
  <2> QED BY <2>1, SelectionType
<1>4. \A x \in X : h[x] \in Y /\ h[x] = x.payload
  OBVIOUS
<1> HIDE DEF c, d, Y
<1>5. ASSUME Len(u) + 1 \in Q
      PROVE  IsAppended(Heard(a, Q), Heard(u, P), e.payload)
  <2> DEFINE f == [i \in DOMAIN d |-> d[i].payload]
             g == [i \in DOMAIN c |-> c[i].payload]
  <2>1. IsAppended(d, c, e)
    BY <1>1, <1>5
  <2>2. d \in Seq(X)
    BY <1>3, <2>1, LongerByOne
  <2>3. (\A i \in DOMAIN d : d[i] \in X) /\ (\A i \in DOMAIN c : c[i] \in X)
    BY <1>3, <2>2
  <2>4. IsMapped(f, d, h) /\ IsMapped(g, c, h)
    BY <2>3 DEF IsMapped
  <2> HIDE DEF f, g, h
  <2>5. IsAppended(f, g, h[e])
    BY <1>3, <1>4, <2>1, <2>4, MappingOn
  <2> QED BY <1>4, <2>5 DEF Heard, c, d, f, g
<1> QED BY <1>2, <1>5

\* What is heard at places where messages with a text are told.
LEMMA HeardType ==
  ASSUME NEW u, Len(u) \in Nat, NEW P, NEW M, \A i \in P \cap (1..Len(u)) : u[i].payload \in M
  PROVE  Heard(u, P) \in Seq(M)
<1> DEFINE Y == {u[i] : i \in P \cap (1..Len(u))}
           c == Selected(u, P)
<1>1. \A i \in P \cap (1..Len(u)) : u[i] \in Y
  OBVIOUS
<1>2. \A y \in Y : y.payload \in M
  OBVIOUS
<1> HIDE DEF Y
<1>3. c \in Seq(Y)
  BY <1>1, SelectionType
<1> HIDE DEF c
<1>4. Len(c) \in Nat /\ DOMAIN c = 1..Len(c) /\ \A i \in 1..Len(c) : c[i].payload \in M
  BY <1>2, <1>3
<1>5. [i \in DOMAIN c |-> c[i].payload] \in Seq(M)
  BY <1>4
<1> QED BY <1>5 DEF Heard, c

\* The texts of messages as what they are under a function.
LEMMA TextsAre ==
  ASSUME NEW ms \in Seq(TextMessages)
  PROVE  /\ \E h : (\A m \in TextMessages : h[m] = Flat(m.parts)) /\ IsMapped(TextOfEach(ms), ms, h)
         /\ \E b, h : /\ \A m \in TextMessages : h[m] = FirstText(m.parts)
                      /\ IsMapped(b, ms, h) /\ FirstOf(ms) = FirstText(b)
<1> DEFINE h == [m \in TextMessages |-> Flat(m.parts)]
           k == [m \in TextMessages |-> FirstText(m.parts)]
           b == [i \in DOMAIN ms |-> FirstText(ms[i].parts)]
<1>1. \A i \in DOMAIN ms : ms[i] \in TextMessages
  OBVIOUS
<1>2. IsMapped(TextOfEach(ms), ms, h)
  BY <1>1 DEF IsMapped, TextOfEach
<1>3. IsMapped(b, ms, k)
  BY <1>1 DEF IsMapped
<1>4. FirstOf(ms) = FirstText(b)
  BY DEF FirstOf
<1>5. \A m \in TextMessages : h[m] = Flat(m.parts) /\ k[m] = FirstText(m.parts)
  OBVIOUS
<1> HIDE DEF h, k, b
<1> QED BY <1>2, <1>3, <1>4, <1>5

\* The texts of a message more.
LEMMA TextsOn ==
  ASSUME NEW ms \in Seq(TextMessages), NEW m \in TextMessages, NEW ns, IsAppended(ns, ms, m)
  PROVE  /\ IsJoined(Flat(TextOfEach(ns)), Flat(TextOfEach(ms)), Flat(m.parts))
         /\ FirstOf(ns) = OrElse(FirstOf(ms), FirstText(m.parts))
<1>1. ns \in Seq(TextMessages)
  BY LongerByOne
<1>2. \A k \in TextMessages : Flat(k.parts) \in Seq(Pieces) /\ FirstText(k.parts) \in Seq(Pieces)
  BY MessageTypes, FlatType, FirstTextType
<1>3. IsJoined(Flat(TextOfEach(ns)), Flat(TextOfEach(ms)), Flat(m.parts))
  <2>1. PICK h : (\A k \in TextMessages : h[k] = Flat(k.parts)) /\ IsMapped(TextOfEach(ms), ms, h)
    BY TextsAre
  <2>2. PICK g : (\A k \in TextMessages : g[k] = Flat(k.parts)) /\ IsMapped(TextOfEach(ns), ns, g)
    BY <1>1, TextsAre
  <2>3. IsMapped(TextOfEach(ns), ns, h)
    <3>1. \A i \in DOMAIN ns : ns[i] \in TextMessages
      BY <1>1
    <3> QED BY <2>1, <2>2, <3>1 DEF IsMapped
  <2>4. TextOfEach(ms) \in Seq(Seq(Pieces))
    BY TextsOfMessages
  <2>5. IsAppended(TextOfEach(ns), TextOfEach(ms), h[m])
    BY <1>2, <2>1, <2>3, MappingOn
  <2>6. IsAppended(TextOfEach(ns), TextOfEach(ms), Flat(m.parts)) /\ Flat(m.parts) \in Seq(Pieces)
    BY <1>2, <2>1, <2>5
  <2> QED BY <2>4, <2>6, FlatOn
<1>4. FirstOf(ns) = OrElse(FirstOf(ms), FirstText(m.parts))
  <2>1. PICK b, h : (\A k \in TextMessages : h[k] = FirstText(k.parts)) /\ IsMapped(b, ms, h) /\ FirstOf(ms) = FirstText(b)
    BY TextsAre
  <2>2. PICK c, g : (\A k \in TextMessages : g[k] = FirstText(k.parts)) /\ IsMapped(c, ns, g) /\ FirstOf(ns) = FirstText(c)
    BY <1>1, TextsAre
  <2>3. IsMapped(c, ns, h)
    <3>1. \A i \in DOMAIN ns : ns[i] \in TextMessages
      BY <1>1
    <3> QED BY <2>1, <2>2, <3>1 DEF IsMapped
  <2>4. IsAppended(c, b, h[m])
    BY <1>2, <2>1, <2>3, MappingOn
  <2>5. b \in Seq(Seq(Pieces)) /\ h[m] \in Seq(Pieces) /\ h[m] = FirstText(m.parts)
    <3>1. IsImage(b, ms, h, Seq(Pieces))
      BY <1>2, <2>1, Mapping
    <3> QED BY <1>2, <2>1, <3>1 DEF IsImage
  <2>6. FirstText(c) = OrElse(FirstText(b), h[m])
    BY <2>4, <2>5, FirstTextOn
  <2> QED BY <2>1, <2>2, <2>5, <2>6
<1> QED BY <1>3, <1>4

------------------------------------------------------------------------------
(* The events of an exchange.                                              *)

\* An event without a text of the answer: noise, a thought, an error, the marker of the end.
Silent(e) == e.payload = NotJSON \/ (e.payload.type \in {"reasoning", "error"} /\ e.type \notin {"delta", "part", "completed"})

\* An event that tells a message of the exchange.
Tells(x, e, m) == e.payload = m /\ m \in MessagesOf(x) /\ e.type # "done" /\ (x.llm = "openai" => e.type = m.type)

Says(x, e) == Silent(e) \/ \E m : Tells(x, e, m)

AllSay(x, u) == u \in Seq(Happenings) /\ \A i \in DOMAIN u : Says(x, u[i])

\* What an event adds to the deltas, and what it repeats.
Said(llm, e)     == IF Readable(llm, e) THEN Flat(e.payload.parts) ELSE << >>
Repeats(e, type) == IF e.type = type /\ e.payload # NotJSON THEN FirstText(e.payload.parts) ELSE << >>

\* The messages of an exchange, by what they are of its answer.
LEMMA MessagesAre ==
  ASSUME NEW x \in Exchanges, NEW m \in MessagesOf(x)
  PROVE  /\ m \in TextMessages /\ m # NotJSON /\ m.type \in {"delta", "chat", "part", "completed"}
         /\ m.type \in {"delta", "chat"} => Flat(m.parts) # << >>
         /\ m.type = "part" => x.llm = "openai" /\ \E i \in DOMAIN x.answer : FirstText(m.parts) = x.answer[i]
         /\ m.type = "completed" => x.llm = "openai" /\ m.parts = x.answer
         /\ m.type = "chat" <=> Chats(x.llm)
<1>1. m \in TextMessages /\ IsOf(x, m)
  BY DEF MessagesOf
<1>2. m # NotJSON
  BY <1>1, MessageTypes DEF Messages
<1>3. m.type \in {"delta", "chat", "part", "completed"}
  BY <1>1 DEF IsOf
<1>4. m.type \in {"delta", "chat"} => Flat(m.parts) # << >>
  <2> SUFFICES ASSUME m.type \in {"delta", "chat"}
               PROVE  Flat(m.parts) # << >>
    OBVIOUS
  <2>1. PICK p \in Pieces : m.parts = << <<p>> >>
    BY <1>1 DEF IsOf
  <2>2. PICK k : k = <<p>>
    OBVIOUS
  <2>3. k \in Seq(Pieces) /\ k # << >> /\ m.parts = <<k>>
    BY <2>1, <2>2
  <2> QED BY <2>3, FlatOfOne
<1>5. m.type = "part" => x.llm = "openai" /\ \E i \in DOMAIN x.answer : FirstText(m.parts) = x.answer[i]
  <2> SUFFICES ASSUME m.type = "part"
               PROVE  x.llm = "openai" /\ \E i \in DOMAIN x.answer : FirstText(m.parts) = x.answer[i]
    OBVIOUS
  <2>1. x.llm = "openai" /\ \E i \in DOMAIN x.answer : m.parts = <<x.answer[i]>>
    BY <1>1 DEF IsOf
  <2>2. PICK i \in DOMAIN x.answer : m.parts = <<x.answer[i]>>
    BY <2>1
  <2>3. x.answer[i] \in Seq(Pieces)
    BY ExchangeIs
  <2> QED BY <2>1, <2>2, <2>3, FirstTextOfOne
<1>6. m.type = "completed" => x.llm = "openai" /\ m.parts = x.answer
  BY <1>1 DEF IsOf
<1>7. m.type = "chat" <=> Chats(x.llm)
  BY <1>1 DEF IsOf, Chats
<1> QED BY <1>1, <1>2, <1>3, <1>4, <1>5, <1>6, <1>7

\* An event that is silent says nothing, and repeats nothing.
LEMMA SilentEvents ==
  ASSUME NEW e, Silent(e)
  PROVE  /\ \A llm : ~ Readable(llm, e) /\ Said(llm, e) = << >>
         /\ \A type \in {"delta", "part", "completed"} : ~ (e.type = type /\ e.payload # NotJSON) /\ Repeats(e, type) = << >>
<1>1. NotJSON.type = "none" /\ NotJSON.named = FALSE
  BY DEF NotJSON, Message
<1>2. \A llm : ~ Readable(llm, e)
  BY <1>1 DEF Silent, Readable
<1>3. \A type \in {"delta", "part", "completed"} : ~ (e.type = type /\ e.payload # NotJSON)
  BY DEF Silent
<1> QED BY <1>2, <1>3 DEF Said, Repeats

\* One that tells a message says what that says.
LEMMA TellingEvents ==
  ASSUME NEW x \in Exchanges, x.form = "stream", NEW e, NEW m, Tells(x, e, m)
  PROVE  /\ Said(x.llm, e) = TextOf(m)
         /\ x.llm = "openai" => /\ Repeats(e, "part") = PartOf(m)
                                /\ Repeats(e, "completed") \in {<< >>, FirstText(x.answer)}
                                /\ m.type = "completed" => Repeats(e, "completed") = FirstText(x.answer)
<1>1. /\ e.payload = m /\ m \in MessagesOf(x) /\ e.type # "done" /\ (x.llm = "openai" => e.type = m.type)
      /\ m.named = Named(x.framing)
  BY DEF Tells, MessagesOf, IsOf
<1>2. m # NotJSON /\ m.type \in {"delta", "chat", "part", "completed"}
      /\ (m.type = "part" => x.llm = "openai") /\ (m.type = "completed" => x.llm = "openai" /\ m.parts = x.answer)
      /\ (m.type = "chat" <=> Chats(x.llm))
  BY <1>1, MessagesAre
<1>3. x.llm \in {"openai", "lmstudio", "anthropic", "openrouter"}
  BY ExchangeIs DEF LLMs
<1>4. x.llm = "anthropic" => Named(x.framing)
  <2>1. x.framing \in Framings(x.llm, x.form)
    BY DEF Exchanges
  <2>2. SUFFICES ASSUME x.llm = "anthropic"
                 PROVE  Named(x.framing)
    OBVIOUS
  <2>3. Framings("anthropic", "stream") = {"member", "both"}
    BY DEF Framings, Chats
  <2> QED BY <2>1, <2>2, <2>3 DEF Named
<1>5. ~ Chats("openai") /\ ~ Chats("anthropic") /\ Chats("lmstudio") /\ Chats("openrouter")
  BY DEF Chats
<1>6. Readable(x.llm, e) <=> m.type \in {"delta", "chat"}
  BY <1>1, <1>2, <1>3, <1>4, <1>5 DEF Readable
<1>7. Said(x.llm, e) = TextOf(m)
  BY <1>1, <1>6 DEF Said, TextOf
<1>8. ASSUME x.llm = "openai"
      PROVE  /\ Repeats(e, "part") = PartOf(m)
             /\ Repeats(e, "completed") \in {<< >>, FirstText(x.answer)}
             /\ m.type = "completed" => Repeats(e, "completed") = FirstText(x.answer)
  BY <1>1, <1>2, <1>8 DEF Repeats, PartOf
<1> QED BY <1>7, <1>8

\* Where a text is read, or looked for as a repetition, a message of the exchange is told.
LEMMA ReadWhereTold ==
  ASSUME NEW x \in Exchanges, NEW e, Says(x, e)
  PROVE  /\ Readable(x.llm, e) => e.payload \in MessagesOf(x) /\ e.payload.type \in {"delta", "chat"}
         /\ \A type \in {"delta", "part", "completed"} : e.type = type /\ e.payload # NotJSON => e.payload \in MessagesOf(x)
<1>1. CASE Silent(e)
  BY <1>1, SilentEvents
<1>2. CASE ~ Silent(e)
  <2>1. PICK m : Tells(x, e, m)
    BY <1>2 DEF Says
  <2>2. e.payload \in MessagesOf(x) /\ (x.llm = "openai" => e.type = e.payload.type)
    BY <2>1 DEF Tells
  <2>3. Readable(x.llm, e) => e.payload.type \in {"delta", "chat"}
    BY <2>2 DEF Readable
  <2> QED BY <2>2, <2>3
<1> QED BY <1>1, <1>2

\* What is heard of an exchange is messages of it.
LEMMA HeardOfIt ==
  ASSUME NEW x \in Exchanges, NEW u, AllSay(x, u)
  PROVE  /\ Heard(u, {i \in DOMAIN u : Readable(x.llm, u[i])}) \in Seq({m \in MessagesOf(x) : m.type \in {"delta", "chat"}})
         /\ \A type \in {"delta", "part", "completed"} : Payloads(u, type) \in Seq(MessagesOf(x))
<1>1. Len(u) \in Nat /\ DOMAIN u = 1..Len(u) /\ \A i \in DOMAIN u : Says(x, u[i])
  BY DEF AllSay
<1> DEFINE P == {i \in DOMAIN u : Readable(x.llm, u[i])}
           M == {m \in MessagesOf(x) : m.type \in {"delta", "chat"}}
<1>2. \A i \in P \cap (1..Len(u)) : u[i].payload \in M
  BY <1>1, ReadWhereTold
<1> HIDE DEF P, M
<1>3. Heard(u, P) \in Seq(M)
  BY <1>1, <1>2, HeardType
<1>4. ASSUME NEW type \in {"delta", "part", "completed"}
      PROVE  Payloads(u, type) \in Seq(MessagesOf(x))
  <2> DEFINE Q == {i \in DOMAIN u : u[i].type = type /\ u[i].payload # NotJSON}
  <2>1. \A i \in Q \cap (1..Len(u)) : u[i].payload \in MessagesOf(x)
    BY <1>1, ReadWhereTold
  <2>2. Payloads(u, type) = Heard(u, Q)
    BY DEF Payloads, Heard
  <2> HIDE DEF Q
  <2> QED BY <1>1, <2>1, <2>2, HeardType
<1> QED BY <1>3, <1>4 DEF P, M

\* An event more says what it says after the others, and repeats what they have not.
LEMMA SayingMore ==
  ASSUME NEW x \in Exchanges, NEW u, AllSay(x, u), NEW e \in Happenings, Says(x, e), NEW a, IsAppended(a, u, e)
  PROVE  /\ AllSay(x, a)
         /\ IsJoined(Flat(Deltas(x.llm, a)), Flat(Deltas(x.llm, u)), Said(x.llm, e))
         /\ \A type \in {"part", "completed"} : FirstOf(Payloads(a, type)) = OrElse(FirstOf(Payloads(u, type)), Repeats(e, type))
<1>1. /\ u \in Seq(Happenings) /\ Len(u) \in Nat /\ DOMAIN u = 1..Len(u) /\ \A i \in DOMAIN u : Says(x, u[i])
      /\ a \in Seq(Happenings) /\ DOMAIN a = 1..(Len(u) + 1) /\ a[Len(u) + 1] = e
      /\ \A i \in 1..Len(u) : a[i] = u[i]
  <2>1. u \in Seq(Happenings) /\ \A i \in DOMAIN u : Says(x, u[i])
    BY DEF AllSay
  <2>2. a \in Seq(Happenings) /\ Len(u) \in Nat /\ Len(a) = Len(u) + 1 /\ a[Len(u) + 1] = e /\ \A i \in 1..Len(u) : a[i] = u[i]
    BY <2>1, LongerByOne
  <2> QED BY <2>1, <2>2
<1>2. AllSay(x, a)
  <2> SUFFICES ASSUME NEW i \in 1..(Len(u) + 1)
               PROVE  Says(x, a[i])
    BY <1>1 DEF AllSay
  <2>1. CASE i \in 1..Len(u)
    BY <1>1, <2>1
  <2>2. CASE i = Len(u) + 1
    BY <1>1, <2>2
  <2> QED BY <1>1, <2>1, <2>2
<1>3. MessagesOf(x) \subseteq TextMessages
  BY DEF MessagesOf
<1>4. IsJoined(Flat(Deltas(x.llm, a)), Flat(Deltas(x.llm, u)), Said(x.llm, e))
  <2> DEFINE P == {i \in DOMAIN u : Readable(x.llm, u[i])}
             Q == {i \in DOMAIN a : Readable(x.llm, a[i])}
             M == {m \in MessagesOf(x) : m.type \in {"delta", "chat"}}
             h == Heard(u, P)
             k == Heard(a, Q)
  <2>1. (\A i \in 1..Len(u) : i \in P <=> i \in Q) /\ (Len(u) + 1 \in Q <=> Readable(x.llm, e))
    BY <1>1
  <2>2. h \in Seq(M)
    BY HeardOfIt
  <2>3. Deltas(x.llm, u) = TextOfEach(h) /\ Deltas(x.llm, a) = TextOfEach(k)
    BY DEF Deltas
  <2> HIDE DEF P, Q
  <2>4. /\ Len(u) + 1 \notin Q => k = h
        /\ Len(u) + 1 \in Q => IsAppended(k, h, e.payload)
    BY <1>1, <2>1, HearingMore
  <2>5. h \in Seq(TextMessages)
    BY <1>3, <2>2, SeqMonotonic
  <2> HIDE DEF h, k, M
  <2>6. CASE ~ Readable(x.llm, e)
    <3>1. Flat(TextOfEach(h)) \in Seq(Pieces)
      BY <2>5, TextsOfMessages, FlatType
    <3>2. Said(x.llm, e) = << >> /\ k = h
      BY <2>1, <2>4, <2>6 DEF Said
    <3> QED BY <2>3, <3>1, <3>2, JoiningNothing
  <2>7. CASE Readable(x.llm, e)
    <3>1. e.payload \in TextMessages
      BY <1>3, <2>7, ReadWhereTold
    <3>2. IsAppended(k, h, e.payload)
      BY <2>1, <2>4, <2>7
    <3>3. IsJoined(Flat(TextOfEach(k)), Flat(TextOfEach(h)), Flat(e.payload.parts))
      BY <2>5, <3>1, <3>2, TextsOn
    <3> QED BY <2>3, <2>7, <3>3 DEF Said
  <2> QED BY <2>6, <2>7
<1>5. ASSUME NEW type \in {"part", "completed"}
      PROVE  FirstOf(Payloads(a, type)) = OrElse(FirstOf(Payloads(u, type)), Repeats(e, type))
  <2> DEFINE P == {i \in DOMAIN u : u[i].type = type /\ u[i].payload # NotJSON}
             Q == {i \in DOMAIN a : a[i].type = type /\ a[i].payload # NotJSON}
             h == Heard(u, P)
             k == Heard(a, Q)
  <2>1. (\A i \in 1..Len(u) : i \in P <=> i \in Q) /\ (Len(u) + 1 \in Q <=> e.type = type /\ e.payload # NotJSON)
    BY <1>1
  <2>3. Payloads(u, type) = h /\ Payloads(a, type) = k
    BY DEF Payloads, Heard
  <2>2. Payloads(u, type) \in Seq(MessagesOf(x))
    BY HeardOfIt
  <2> HIDE DEF P, Q
  <2>4. /\ Len(u) + 1 \notin Q => k = h
        /\ Len(u) + 1 \in Q => IsAppended(k, h, e.payload)
    BY <1>1, <2>1, HearingMore
  <2> HIDE DEF h, k
  <2>5. h \in Seq(TextMessages)
    BY <1>3, <2>2, <2>3, SeqMonotonic
  <2>6. CASE ~ (e.type = type /\ e.payload # NotJSON)
    <3>1. Repeats(e, type) = << >> /\ k = h
      BY <2>1, <2>4, <2>6 DEF Repeats
    <3> QED BY <2>3, <3>1 DEF OrElse
  <2>7. CASE e.type = type /\ e.payload # NotJSON
    <3>1. e.payload \in TextMessages
      BY <1>3, <2>7, ReadWhereTold
    <3>2. IsAppended(k, h, e.payload)
      BY <2>1, <2>4, <2>7
    <3>3. FirstOf(k) = OrElse(FirstOf(h), FirstText(e.payload.parts))
      BY <2>5, <3>1, <3>2, TextsOn
    <3> QED BY <2>3, <2>7, <3>3 DEF Repeats
  <2> QED BY <2>6, <2>7
<1> QED BY <1>2, <1>4, <1>5

\* What all say is text; the deltas, if there are any, say something.
LEMMA WhatAllSay ==
  ASSUME NEW x \in Exchanges, NEW u, AllSay(x, u)
  PROVE  /\ Deltas(x.llm, u) \in Seq(Seq(Pieces)) /\ Flat(Deltas(x.llm, u)) \in Seq(Pieces)
         /\ Deltas(x.llm, u) # << >> => Flat(Deltas(x.llm, u)) # << >>
         /\ \A type \in {"part", "completed"} : FirstOf(Payloads(u, type)) \in Seq(Pieces)
<1> DEFINE M == {m \in MessagesOf(x) : m.type \in {"delta", "chat"}}
           h == Heard(u, {i \in DOMAIN u : Readable(x.llm, u[i])})
           d == Deltas(x.llm, u)
           Y == {y \in Seq(Pieces) : y # << >>}
<1>1. h \in Seq(M) /\ d = TextOfEach(h)
  BY HeardOfIt DEF Deltas
<1>2. \A m \in M : Flat(m.parts) \in Y
  <2> SUFFICES ASSUME NEW m \in M
               PROVE  Flat(m.parts) \in Y
    OBVIOUS
  <2>1. m \in TextMessages /\ Flat(m.parts) # << >>
    BY MessagesAre
  <2> QED BY <2>1, MessageTypes, FlatType
<1> HIDE DEF h, d, M
<1>3. d \in Seq(Y)
  <2>1. Len(h) \in Nat /\ DOMAIN h = 1..Len(h) /\ \A i \in 1..Len(h) : Flat(h[i].parts) \in Y
    BY <1>1, <1>2
  <2>2. [i \in DOMAIN h |-> Flat(h[i].parts)] \in Seq(Y)
    BY <2>1
  <2> QED BY <1>1, <2>2 DEF TextOfEach
<1>4. d \in Seq(Seq(Pieces))
  BY <1>3, SeqMonotonic
<1>5. Flat(d) \in Seq(Pieces)
  BY <1>4, FlatType
<1>6. d # << >> => Flat(d) # << >>
  <2> SUFFICES ASSUME d # << >>
               PROVE  Flat(d) # << >>
    OBVIOUS
  <2>1. PICK s \in Seq(Y), e \in Y : d = Append(s, e)
    <3> HIDE DEF Y
    <3> QED BY <1>3, SequenceEmptyOrAppend
  <2>2. s \in Seq(Seq(Pieces)) /\ e \in Seq(Pieces) /\ e # << >>
    BY SeqMonotonic
  <2>3. IsJoined(Flat(d), Flat(s), e)
    BY <2>1, <2>2, FlatOn DEF IsAppended
  <2>4. Flat(s) \in Seq(Pieces)
    BY <2>2, FlatType
  <2> QED BY <2>2, <2>3, <2>4, ConcatEqualIffEmpty DEF IsJoined
<1>7. ASSUME NEW type \in {"part", "completed"}
      PROVE  FirstOf(Payloads(u, type)) \in Seq(Pieces)
  <2>1. Payloads(u, type) \in Seq(MessagesOf(x))
    BY HeardOfIt
  <2>2. Payloads(u, type) \in Seq(TextMessages)
    BY <2>1, SeqMonotonic DEF MessagesOf
  <2>3. PICK b, g : (\A m \in TextMessages : g[m] = FirstText(m.parts)) /\ IsMapped(b, Payloads(u, type), g) /\ FirstOf(Payloads(u, type)) = FirstText(b)
    BY <2>2, TextsAre
  <2>4. \A m \in TextMessages : g[m] \in Seq(Pieces)
    BY <2>3, MessageTypes, FirstTextType
  <2>5. IsImage(b, Payloads(u, type), g, Seq(Pieces))
    BY <2>2, <2>3, <2>4, Mapping
  <2> QED BY <2>3, <2>5, FirstTextType DEF IsImage
<1> QED BY <1>4, <1>5, <1>6, <1>7 DEF d

------------------------------------------------------------------------------
(* What is faithful to an answer.                                          *)

\* A text that is what was told, but for a stretch; what faults leave of it.
Keeps(told, got, why) ==
  \E s, l, r, q \in Seq(Pieces) :
     /\ IsJoined(q, s, l) /\ IsJoined(told, q, r) /\ IsJoined(got, s, r)
     /\ why = "none" => l = << >>
     /\ why \notin {"none", "garbled"} => r = << >>

CarriesDeltas(x) == x.llm # "openai" \/ "delta" \in x.carriers

\* The text that events and the messages to come make.
KeepsText(x, u, t, why) ==
  \E got \in Seq(Pieces) :
     /\ IsJoined(got, Flat(Deltas(x.llm, u)), TextLeft(t))
     /\ IF CarriesDeltas(x) THEN Keeps(Flat(x.answer), got, why) ELSE got = << >>

KeepsParts(x, u, t, why) ==
  LET parts == FirstOf(Payloads(u, "part"))
  IN  /\ why # "garbled" => OrElse(parts, PartLeft(t)) \in {<< >>, FirstText(x.answer)}
      /\ parts # << >> => \E i \in DOMAIN x.answer : parts = x.answer[i]

KeepsWhole(x, u, t, why) ==
  LET whole == FirstOf(Payloads(u, "completed"))
  IN  /\ whole \in {<< >>, FirstText(x.answer)}
      /\ why = "none" => whole = FirstText(x.answer) \/ \E i \in DOMAIN t : t[i].type = "completed"

Faithful(x, u, t, why) ==
  /\ AllSay(x, u) /\ t \in Seq(MessagesOf(x))
  /\ KeepsText(x, u, t, why)
  /\ x.llm = "openai" => KeepsParts(x, u, t, why) /\ KeepsWhole(x, u, t, why)

\* The types of what Faithful is about.
LEMMA FaithfulTypes ==
  ASSUME NEW x \in Exchanges, NEW u, NEW t, AllSay(x, u), t \in Seq(MessagesOf(x))
  PROVE  /\ t \in Seq(TextMessages) /\ TextLeft(t) \in Seq(Pieces) /\ Flat(Deltas(x.llm, u)) \in Seq(Pieces)
         /\ Flat(x.answer) \in Seq(Pieces) /\ FirstText(x.answer) \in Seq(Pieces)
<1>1. t \in Seq(TextMessages)
  BY SeqMonotonic DEF MessagesOf
<1>2. x.answer \in Seq(Seq(Pieces))
  BY ExchangeIs
<1> QED BY <1>1, <1>2, LeftType, WhatAllSay, FlatType, FirstTextType

\* Without a fault what is kept is all of it.
LEMMA KeepsAll ==
  ASSUME NEW told \in Seq(Pieces), NEW got \in Seq(Pieces)
  PROVE  Keeps(told, got, "none") <=> got = told
<1>1. PICK z \in Seq(Pieces) : z = << >>
  BY EmptySeq
<1>2. IsJoined(told, told, z)
  BY <1>1, JoiningNothing
<1>3. got = told => Keeps(told, got, "none")
  BY <1>1, <1>2 DEF Keeps
<1>4. ASSUME Keeps(told, got, "none")
      PROVE  got = told
  <2>1. PICK s \in Seq(Pieces), l \in Seq(Pieces), r \in Seq(Pieces), q \in Seq(Pieces) :
             IsJoined(q, s, l) /\ IsJoined(told, q, r) /\ IsJoined(got, s, r) /\ l = << >>
    BY <1>4 DEF Keeps
  <2>2. q = s
    BY <2>1, JoiningNothing
  <2> QED BY <2>1, <2>2 DEF IsJoined
<1> QED BY <1>3, <1>4

\* What a stretch after something, of what there was, leaves.
LEMMA KeepsHead ==
  ASSUME NEW a \in Seq(Pieces), NEW b \in Seq(Pieces), NEW told, IsJoined(told, a, b), NEW why, why # "none"
  PROVE  Keeps(told, a, why)
<1>1. PICK z \in Seq(Pieces) : z = << >>
  BY EmptySeq
<1>2. told \in Seq(Pieces)
  BY Joining
<1>3. IsJoined(told, told, z) /\ IsJoined(a, a, z)
  BY <1>1, <1>2, JoiningNothing
<1> QED BY <1>1, <1>2, <1>3 DEF Keeps

------------------------------------------------------------------------------
(* It begins faithful, and what goes on in a stream keeps it so.           *)

\* At the start everything is to come.
LEMMA Starts ==
  ASSUME NEW x \in Exchanges, x.form = "stream", NEW u, u = << >>, NEW t, t = ScriptOf(x)
  PROVE  Faithful(x, u, t, "none")
<1>1. /\ t \in Seq(MessagesOf(x)) /\ PartLeft(t) \in {<< >>, FirstText(x.answer)}
      /\ TextLeft(t) = (IF "delta" \in x.carriers THEN Flat(x.answer) ELSE << >>)
      /\ x.llm = "openai" => \E i \in DOMAIN t : t[i].type = "completed"
  BY ScriptCarries
<1>2. AllSay(x, u)
  BY DEF AllSay
<1>3. /\ TextLeft(t) \in Seq(Pieces) /\ Flat(x.answer) \in Seq(Pieces)
  BY <1>1, <1>2, FaithfulTypes
<1>4. Flat(Deltas(x.llm, u)) = << >> /\ \A type \in {"part", "completed"} : FirstOf(Payloads(u, type)) = << >>
  <2>1. ASSUME NEW P, NEW h, h = Heard(u, P)
        PROVE  h = << >>
    <3>1. Selected(u, P) = << >>
      BY SelectingNone
    <3> QED BY <2>1, <3>1 DEF Heard
  <2>2. Deltas(x.llm, u) = << >>
    <3> DEFINE h == Heard(u, {i \in DOMAIN u : Readable(x.llm, u[i])})
    <3>1. h = << >>
      BY <2>1
    <3> HIDE DEF h
    <3>2. TextOfEach(h) = << >>
      BY <3>1 DEF TextOfEach
    <3> QED BY <3>2 DEF Deltas, h
  <2>3. ASSUME NEW type
        PROVE  FirstOf(Payloads(u, type)) = << >>
    <3> DEFINE h == Heard(u, {i \in DOMAIN u : u[i].type = type /\ u[i].payload # NotJSON})
               b == [i \in DOMAIN h |-> FirstText(h[i].parts)]
    <3>1. h = << >>
      BY <2>1
    <3>2. Payloads(u, type) = h
      BY DEF Payloads, Heard
    <3>3. b = << >>
      BY <3>1
    <3>4. FirstOf(h) = FirstText(b)
      BY DEF FirstOf
    <3> HIDE DEF h, b
    <3> QED BY <3>2, <3>3, <3>4, FirstTextOfNone
  <2> QED BY <2>2, <2>3, FlatOfNone
<1>5. KeepsText(x, u, t, "none")
  <2>1. IsJoined(TextLeft(t), Flat(Deltas(x.llm, u)), TextLeft(t))
    BY <1>3, <1>4, JoiningNothing
  <2>2. CarriesDeltas(x) => "delta" \in x.carriers
    BY CarriersAre DEF CarriesDeltas
  <2>3. CarriesDeltas(x) => Keeps(Flat(x.answer), TextLeft(t), "none")
    BY <1>1, <1>3, <2>2, KeepsAll
  <2>4. ~ CarriesDeltas(x) => TextLeft(t) = << >>
    BY <1>1 DEF CarriesDeltas
  <2> QED BY <1>3, <2>1, <2>3, <2>4 DEF KeepsText
<1>6. KeepsParts(x, u, t, "none")
  BY <1>1, <1>4 DEF KeepsParts, OrElse
<1>7. x.llm = "openai" => KeepsWhole(x, u, t, "none")
  BY <1>1, <1>4 DEF KeepsWhole
<1> QED BY <1>1, <1>2, <1>5, <1>6, <1>7 DEF Faithful

\* A message that is told as it should be.
LEMMA Sends ==
  ASSUME NEW x \in Exchanges, x.form = "stream", NEW u, NEW t, NEW why, Faithful(x, u, t, why), t # << >>, NEW m, m = Head(t),
         NEW r, IsRest(r, t), NEW e \in Happenings, Tells(x, e, m), NEW a, IsAppended(a, u, e)
  PROVE  Faithful(x, a, r, why)
<1>1. AllSay(x, u) /\ t \in Seq(MessagesOf(x)) /\ Says(x, e)
  BY DEF Faithful, Says
<1>2. /\ AllSay(x, a)
      /\ IsJoined(Flat(Deltas(x.llm, a)), Flat(Deltas(x.llm, u)), Said(x.llm, e))
      /\ \A type \in {"part", "completed"} : FirstOf(Payloads(a, type)) = OrElse(FirstOf(Payloads(u, type)), Repeats(e, type))
  BY <1>1, SayingMore
<1>3. /\ Said(x.llm, e) = TextOf(m)
      /\ x.llm = "openai" => /\ Repeats(e, "part") = PartOf(m)
                             /\ Repeats(e, "completed") \in {<< >>, FirstText(x.answer)}
                             /\ m.type = "completed" => Repeats(e, "completed") = FirstText(x.answer)
  BY TellingEvents
<1>4. /\ r \in Seq(MessagesOf(x)) /\ Len(r) \in Nat /\ Len(t) = Len(r) + 1 /\ m = t[1] /\ m \in MessagesOf(x)
      /\ \A i \in 1..Len(r) : r[i] = t[i + 1]
  BY <1>1, Rest
<1>5. /\ t \in Seq(TextMessages) /\ TextLeft(r) \in Seq(Pieces) /\ Flat(Deltas(x.llm, u)) \in Seq(Pieces)
      /\ Flat(Deltas(x.llm, a)) \in Seq(Pieces) /\ m \in TextMessages /\ TextOf(m) \in Seq(Pieces)
  BY <1>1, <1>2, <1>4, FaithfulTypes, TextsOfMessage DEF MessagesOf
<1>6. IsJoined(TextLeft(t), TextOf(m), TextLeft(r)) /\ PartLeft(t) = OrElse(PartOf(m), PartLeft(r))
  BY <1>5, LeftAhead
<1>7. KeepsText(x, a, r, why)
  <2>1. PICK got \in Seq(Pieces) :
             /\ IsJoined(got, Flat(Deltas(x.llm, u)), TextLeft(t))
             /\ IF CarriesDeltas(x) THEN Keeps(Flat(x.answer), got, why) ELSE got = << >>
    BY DEF Faithful, KeepsText
  <2>2. IsJoined(Flat(Deltas(x.llm, a)), Flat(Deltas(x.llm, u)), TextOf(m))
    BY <1>2, <1>3
  <2>3. IsJoined(got, Flat(Deltas(x.llm, a)), TextLeft(r))
    BY <1>5, <1>6, <2>1, <2>2, JoiningThree
  <2> QED BY <2>1, <2>3 DEF KeepsText
<1>8. ASSUME x.llm = "openai"
      PROVE  KeepsParts(x, a, r, why) /\ KeepsWhole(x, a, r, why)
  <2> DEFINE P(v) == FirstOf(Payloads(v, "part"))
             W(v) == FirstOf(Payloads(v, "completed"))
  <2>1. P(a) = OrElse(P(u), PartOf(m)) /\ W(a) = OrElse(W(u), Repeats(e, "completed"))
    BY <1>2, <1>3, <1>8
  <2>2. KeepsParts(x, u, t, why) /\ KeepsWhole(x, u, t, why)
    BY <1>8 DEF Faithful
  <2>3. OrElse(P(a), PartLeft(r)) = OrElse(P(u), PartLeft(t))
    BY <1>6, <2>1 DEF OrElse
  <2>4. P(a) # << >> => \E i \in DOMAIN x.answer : P(a) = x.answer[i]
    <3>1. m.type = "part" => \E i \in DOMAIN x.answer : FirstText(m.parts) = x.answer[i]
      BY <1>4, MessagesAre
    <3>2. PartOf(m) # << >> => \E i \in DOMAIN x.answer : PartOf(m) = x.answer[i]
      BY <3>1 DEF PartOf
    <3>3. P(u) # << >> => \E i \in DOMAIN x.answer : P(u) = x.answer[i]
      BY <2>2 DEF KeepsParts
    <3> HIDE DEF P
    <3> QED BY <2>1, <3>2, <3>3 DEF OrElse
  <2>5. KeepsParts(x, a, r, why)
    BY <2>2, <2>3, <2>4 DEF KeepsParts
  <2>6. W(a) \in {<< >>, FirstText(x.answer)}
    <3>1. W(u) \in {<< >>, FirstText(x.answer)}
      BY <2>2 DEF KeepsWhole
    <3> HIDE DEF W
    <3> QED BY <1>3, <1>8, <2>1, <3>1 DEF OrElse
  <2>7. ASSUME why = "none"
        PROVE  W(a) = FirstText(x.answer) \/ \E i \in DOMAIN r : r[i].type = "completed"
    <3>1. W(u) = FirstText(x.answer) \/ \E i \in DOMAIN t : t[i].type = "completed"
      BY <2>2, <2>7 DEF KeepsWhole
    <3>2. W(u) \in {<< >>, FirstText(x.answer)}
      BY <2>2 DEF KeepsWhole
    <3> HIDE DEF W
    <3>3. CASE W(u) = FirstText(x.answer)
      BY <1>3, <1>8, <2>1, <3>3 DEF OrElse
    <3>4. CASE \E i \in DOMAIN t : t[i].type = "completed"
      <4>1. PICK i \in DOMAIN t : t[i].type = "completed"
        BY <3>4
      <4>2. CASE i = 1
        BY <1>3, <1>4, <1>8, <2>1, <3>2, <4>1, <4>2 DEF OrElse
      <4>3. CASE i # 1
        <5>1. i \in 1..(Len(r) + 1)
          BY <1>1, <1>4
        <5>2. i - 1 \in 1..Len(r) /\ (i - 1) + 1 = i /\ DOMAIN r = 1..Len(r)
          BY <1>4, <4>3, <5>1
        <5> QED BY <1>4, <4>1, <5>2
      <4> QED BY <4>2, <4>3
    <3> QED BY <3>1, <3>3, <3>4
  <2> QED BY <2>5, <2>6, <2>7 DEF KeepsWhole
<1> QED BY <1>2, <1>4, <1>7, <1>8 DEF Faithful

\* An event that is silent.
LEMMA SilentStep ==
  ASSUME NEW x \in Exchanges, NEW u, NEW t, NEW why, Faithful(x, u, t, why), NEW e \in Happenings, Silent(e), NEW a, IsAppended(a, u, e)
  PROVE  Faithful(x, a, t, why)
<1>1. AllSay(x, u) /\ t \in Seq(MessagesOf(x)) /\ Says(x, e)
  BY DEF Faithful, Says
<1>2. /\ AllSay(x, a)
      /\ IsJoined(Flat(Deltas(x.llm, a)), Flat(Deltas(x.llm, u)), Said(x.llm, e))
      /\ \A type \in {"part", "completed"} : FirstOf(Payloads(a, type)) = OrElse(FirstOf(Payloads(u, type)), Repeats(e, type))
  BY <1>1, SayingMore
<1>3. Said(x.llm, e) = << >> /\ \A type \in {"part", "completed"} : Repeats(e, type) = << >>
  BY SilentEvents
<1>4. Flat(Deltas(x.llm, a)) = Flat(Deltas(x.llm, u))
  BY <1>1, <1>2, <1>3, WhatAllSay, JoiningNothing
<1>5. FirstOf(Payloads(a, "part")) = FirstOf(Payloads(u, "part")) /\ FirstOf(Payloads(a, "completed")) = FirstOf(Payloads(u, "completed"))
  BY <1>2, <1>3 DEF OrElse
<1> QED BY <1>1, <1>2, <1>4, <1>5 DEF Faithful, KeepsText, KeepsParts, KeepsWhole

\* What is told, kept and to come, as long as nothing is wrong.
LEMMA NothingWrong ==
  ASSUME NEW x \in Exchanges, NEW u, NEW t, Faithful(x, u, t, "none")
  PROVE  /\ CarriesDeltas(x) => IsJoined(Flat(x.answer), Flat(Deltas(x.llm, u)), TextLeft(t))
         /\ ~ CarriesDeltas(x) => Flat(Deltas(x.llm, u)) = << >> /\ TextLeft(t) = << >>
<1>1. AllSay(x, u) /\ t \in Seq(MessagesOf(x))
  BY DEF Faithful
<1>2. PICK got \in Seq(Pieces) :
           /\ IsJoined(got, Flat(Deltas(x.llm, u)), TextLeft(t))
           /\ IF CarriesDeltas(x) THEN Keeps(Flat(x.answer), got, "none") ELSE got = << >>
  BY DEF Faithful, KeepsText
<1>3. Flat(x.answer) \in Seq(Pieces) /\ Flat(Deltas(x.llm, u)) \in Seq(Pieces) /\ TextLeft(t) \in Seq(Pieces)
  BY <1>1, FaithfulTypes
<1>4. CarriesDeltas(x) => got = Flat(x.answer)
  BY <1>2, <1>3, KeepsAll
<1>5. ~ CarriesDeltas(x) => Flat(Deltas(x.llm, u)) = << >> /\ TextLeft(t) = << >>
  BY <1>2, <1>3, ConcatEqualIffEmpty DEF IsJoined
<1> QED BY <1>2, <1>4, <1>5

\* A message that is lost: what is told lacks its text.
LEMMA Loses ==
  ASSUME NEW x \in Exchanges, NEW u, NEW t, Faithful(x, u, t, "none"), t # << >>, NEW r, IsRest(r, t)
  PROVE  Faithful(x, u, r, "garbled")
<1> DEFINE d == Flat(Deltas(x.llm, u))
           m == Head(t)
<1>1. AllSay(x, u) /\ t \in Seq(MessagesOf(x))
  BY DEF Faithful
<1>2. r \in Seq(MessagesOf(x)) /\ m \in MessagesOf(x)
  BY <1>1, Rest
<1>3. t \in Seq(TextMessages) /\ d \in Seq(Pieces) /\ TextLeft(t) \in Seq(Pieces) /\ Flat(x.answer) \in Seq(Pieces)
  BY <1>1, FaithfulTypes
<1>4. TextLeft(r) \in Seq(Pieces) /\ m \in TextMessages /\ TextOf(m) \in Seq(Pieces)
  BY <1>1, <1>2, FaithfulTypes, TextsOfMessage DEF MessagesOf
<1> HIDE DEF d
<1>5. IsJoined(TextLeft(t), TextOf(m), TextLeft(r))
  BY <1>3, LeftAhead
<1>6. PICK got : IsJoined(got, d, TextLeft(r))
  BY DEF IsJoined
<1>7. got \in Seq(Pieces)
  BY <1>3, <1>4, <1>6, Joining
<1>8. CASE CarriesDeltas(x)
  <2>1. IsJoined(Flat(x.answer), d, TextLeft(t))
    BY <1>8, NothingWrong DEF d
  <2>2. PICK q : IsJoined(q, d, TextOf(m))
    BY DEF IsJoined
  <2>3. q \in Seq(Pieces)
    BY <1>3, <1>4, <2>2, Joining
  <2>4. IsJoined(Flat(x.answer), q, TextLeft(r))
    BY <1>3, <1>4, <1>5, <2>1, <2>2, JoiningThree
  <2>5. Keeps(Flat(x.answer), got, "garbled")
    BY <1>3, <1>4, <1>6, <2>2, <2>3, <2>4 DEF Keeps
  <2>6. KeepsText(x, u, r, "garbled")
    BY <1>6, <1>7, <1>8, <2>5 DEF KeepsText, d
  <2> QED BY <1>1, <1>2, <2>6 DEF Faithful, KeepsParts, KeepsWhole
<1>9. CASE ~ CarriesDeltas(x)
  <2>1. d = << >> /\ TextLeft(t) = << >>
    BY <1>9, NothingWrong DEF d
  <2>2. TextLeft(r) = << >>
    BY <1>4, <1>5, <2>1, ConcatEqualIffEmpty DEF IsJoined
  <2>3. got = << >>
    BY <1>3, <1>6, <2>1, <2>2, JoiningNothing
  <2>4. KeepsText(x, u, r, "garbled")
    BY <1>6, <1>7, <1>9, <2>3 DEF KeepsText, d
  <2> QED BY <1>1, <1>2, <2>4 DEF Faithful, KeepsParts, KeepsWhole
<1> QED BY <1>8, <1>9

\* A stream that stops: what is told is a prefix.
LEMMA Stops ==
  ASSUME NEW x \in Exchanges, NEW u, NEW t, Faithful(x, u, t, "none"), NEW why, why \notin {"none", "garbled"}, NEW z, z = << >>
  PROVE  Faithful(x, u, z, why)
<1> DEFINE d == Flat(Deltas(x.llm, u))
<1>1. AllSay(x, u) /\ t \in Seq(MessagesOf(x)) /\ z \in Seq(MessagesOf(x))
  BY EmptySeq DEF Faithful
<1>2. d \in Seq(Pieces) /\ TextLeft(t) \in Seq(Pieces)
  BY <1>1, FaithfulTypes
<1>3. TextLeft(z) = << >> /\ PartLeft(z) = << >>
  BY LeftOfNone
<1> HIDE DEF d
<1>4. IsJoined(d, d, TextLeft(z))
  BY <1>2, <1>3, JoiningNothing
<1>5. CarriesDeltas(x) => Keeps(Flat(x.answer), d, why)
  <2>1. CarriesDeltas(x) => IsJoined(Flat(x.answer), d, TextLeft(t))
    BY NothingWrong DEF d
  <2> QED BY <1>2, <2>1, KeepsHead
<1>6. ~ CarriesDeltas(x) => d = << >>
  BY NothingWrong DEF d
<1>7. KeepsText(x, u, z, why)
  BY <1>2, <1>4, <1>5, <1>6 DEF KeepsText, d
<1>8. x.llm = "openai" => KeepsParts(x, u, z, why) /\ KeepsWhole(x, u, z, why)
  <2> SUFFICES ASSUME x.llm = "openai"
               PROVE  KeepsParts(x, u, z, why) /\ KeepsWhole(x, u, z, why)
    OBVIOUS
  <2> DEFINE p == FirstOf(Payloads(u, "part"))
  <2>1. KeepsParts(x, u, t, "none") /\ KeepsWhole(x, u, t, "none")
    BY DEF Faithful
  <2>2. OrElse(p, PartLeft(t)) \in {<< >>, FirstText(x.answer)}
    BY <2>1 DEF KeepsParts
  <2>3. p # << >> => \E i \in DOMAIN x.answer : p = x.answer[i]
    BY <2>1 DEF KeepsParts
  <2> HIDE DEF p
  <2>4. OrElse(p, PartLeft(z)) \in {<< >>, FirstText(x.answer)}
    BY <1>3, <2>2 DEF OrElse
  <2> QED BY <2>1, <2>3, <2>4 DEF KeepsParts, KeepsWhole, p
<1> QED BY <1>1, <1>7, <1>8 DEF Faithful

\* The same if the last event does not come.
LEMMA Undoes ==
  ASSUME NEW x \in Exchanges, NEW u, NEW t, Faithful(x, u, t, "none"), NEW v \in Seq(Happenings), NEW e \in Happenings,
         IsAppended(u, v, e), NEW why, why \notin {"none", "garbled"}, NEW z, z = << >>
  PROVE  Faithful(x, v, z, why)
<1> DEFINE d == Flat(Deltas(x.llm, u))
           c == Flat(Deltas(x.llm, v))
<1>1. AllSay(x, u) /\ t \in Seq(MessagesOf(x)) /\ z \in Seq(MessagesOf(x))
  BY EmptySeq DEF Faithful
<1>2. AllSay(x, v) /\ Says(x, e)
  <2>1. /\ Len(v) \in Nat /\ DOMAIN v = 1..Len(v) /\ DOMAIN u = 1..(Len(v) + 1) /\ u[Len(v) + 1] = e
        /\ \A i \in 1..Len(v) : u[i] = v[i]
    BY LongerByOne
  <2>2. \A i \in DOMAIN u : Says(x, u[i])
    BY <1>1 DEF AllSay
  <2>3. \A i \in DOMAIN v : i \in DOMAIN u /\ v[i] = u[i]
    BY <2>1
  <2>4. Len(v) + 1 \in DOMAIN u
    BY <2>1
  <2> QED BY <2>1, <2>2, <2>3, <2>4 DEF AllSay
<1>3. /\ IsJoined(d, c, Said(x.llm, e))
      /\ \A type \in {"part", "completed"} : FirstOf(Payloads(u, type)) = OrElse(FirstOf(Payloads(v, type)), Repeats(e, type))
  BY <1>2, SayingMore
<1>4. d \in Seq(Pieces) /\ c \in Seq(Pieces) /\ TextLeft(t) \in Seq(Pieces)
  BY <1>1, <1>2, FaithfulTypes
<1>5. TextLeft(z) = << >> /\ PartLeft(z) = << >>
  BY LeftOfNone
<1>6. Said(x.llm, e) \in Seq(Pieces)
  <2>1. CASE ~ Readable(x.llm, e)
    BY <2>1, EmptySeq DEF Said
  <2>2. CASE Readable(x.llm, e)
    <3>1. e.payload \in TextMessages
      BY <1>2, <2>2, ReadWhereTold DEF MessagesOf
    <3> QED BY <2>2, <3>1, MessageTypes, FlatType DEF Said
  <2> QED BY <2>1, <2>2
<1>7. (CarriesDeltas(x) => IsJoined(Flat(x.answer), d, TextLeft(t))) /\ (~ CarriesDeltas(x) => d = << >>)
  BY NothingWrong
<1> HIDE DEF d, c
<1>8. CarriesDeltas(x) => Keeps(Flat(x.answer), c, why)
  <2>1. PICK k : IsJoined(k, Said(x.llm, e), TextLeft(t))
    BY DEF IsJoined
  <2>2. k \in Seq(Pieces)
    BY <1>4, <1>6, <2>1, Joining
  <2>3. CarriesDeltas(x) => IsJoined(Flat(x.answer), c, k)
    BY <1>3, <1>4, <1>6, <1>7, <2>1, JoiningThree
  <2> QED BY <1>4, <2>2, <2>3, KeepsHead
<1>9. ~ CarriesDeltas(x) => c = << >>
  BY <1>3, <1>4, <1>6, <1>7, ConcatEqualIffEmpty DEF IsJoined
<1>10. IsJoined(c, c, TextLeft(z))
  BY <1>4, <1>5, JoiningNothing
<1>11. KeepsText(x, v, z, why)
  BY <1>4, <1>8, <1>9, <1>10 DEF KeepsText, c
<1>12. x.llm = "openai" => KeepsParts(x, v, z, why) /\ KeepsWhole(x, v, z, why)
  <2> SUFFICES ASSUME x.llm = "openai"
               PROVE  KeepsParts(x, v, z, why) /\ KeepsWhole(x, v, z, why)
    OBVIOUS
  <2> DEFINE p == FirstOf(Payloads(u, "part"))
             o == FirstOf(Payloads(v, "part"))
             w == FirstOf(Payloads(u, "completed"))
             y == FirstOf(Payloads(v, "completed"))
  <2>1. KeepsParts(x, u, t, "none") /\ KeepsWhole(x, u, t, "none")
    BY DEF Faithful
  <2>2. OrElse(p, PartLeft(t)) \in {<< >>, FirstText(x.answer)}
    BY <2>1 DEF KeepsParts
  <2>3. p # << >> => \E i \in DOMAIN x.answer : p = x.answer[i]
    BY <2>1 DEF KeepsParts
  <2>4. w \in {<< >>, FirstText(x.answer)}
    BY <2>1 DEF KeepsWhole
  <2>5. p = OrElse(o, Repeats(e, "part")) /\ w = OrElse(y, Repeats(e, "completed"))
    BY <1>3
  <2> HIDE DEF p, o, w, y
  <2>6. OrElse(o, PartLeft(z)) \in {<< >>, FirstText(x.answer)}
    BY <1>5, <2>2, <2>5 DEF OrElse
  <2>7. (o # << >> => o = p) /\ y \in {<< >>, w}
    BY <2>5 DEF OrElse
  <2>8. y \in {<< >>, FirstText(x.answer)} /\ (o # << >> => \E i \in DOMAIN x.answer : o = x.answer[i])
    BY <2>3, <2>4, <2>7
  <2> QED BY <2>6, <2>8 DEF KeepsParts, KeepsWhole, o, y
<1> QED BY <1>1, <1>2, <1>11, <1>12 DEF Faithful

------------------------------------------------------------------------------
(* What comes of it at the end.                                            *)

\* What begins another text is a prefix of it.
LEMMA WhatBegins ==
  ASSUME NEW X, NEW s \in Seq(X), NEW r \in Seq(X), NEW t, IsJoined(t, s, r)
  PROVE  IsPrefix(s, t)
<1>1. /\ t \in Seq(X) /\ Len(s) \in Nat /\ Len(r) \in Nat /\ Len(t) = Len(s) + Len(r)
      /\ \A i \in 1..(Len(s) + Len(r)) : t[i] = IF i <= Len(s) THEN s[i] ELSE r[i - Len(s)]
  BY Joining
<1>2. SubSeq(s, 1, Len(s)) = SubSeq(t, 1, Len(s))
  <2> DEFINE n == Len(s)
  <2>1. n \in Nat /\ \A i \in 1..n : t[i] = s[i]
    BY <1>1
  <2> HIDE DEF n
  <2>2. [i \in 1..n |-> s[i]] = [i \in 1..n |-> t[i]]
    BY <2>1
  <2>3. SubSeq(s, 1, n) = [i \in 1..n |-> s[i]] /\ SubSeq(t, 1, n) = [i \in 1..n |-> t[i]]
    BY <2>1
  <2> QED BY <2>2, <2>3 DEF n
<1>3. Len(s) <= Len(t)
  BY <1>1
<1> QED BY <1>2, <1>3 DEF IsPrefix

\* A text with a stretch taken out of its middle lacks a stretch.
LEMMA Lacking ==
  ASSUME NEW X, NEW s \in Seq(X), NEW l \in Seq(X), NEW r \in Seq(X), NEW z \in Seq(X), NEW q, IsJoined(q, s, l), NEW p, IsJoined(p, q, r),
         NEW t, IsJoined(t, p, z), NEW g, IsJoined(g, s, r)
  PROVE  LacksAStretch(g, t)
<1> DEFINE i == Len(s)
           j == Len(s) + Len(l)
           k == Len(s) + Len(l) + Len(r)
<1>0. q \in Seq(X) /\ p \in Seq(X)
  <2>1. q \in Seq(X)
    BY Joining
  <2> QED BY <2>1, Joining
<1>1. /\ q \in Seq(X) /\ Len(q) = Len(s) + Len(l)
      /\ \A n \in 1..(Len(s) + Len(l)) : q[n] = IF n <= Len(s) THEN s[n] ELSE l[n - Len(s)]
  BY Joining
<1>2. /\ p \in Seq(X) /\ Len(p) = Len(q) + Len(r)
      /\ \A n \in 1..(Len(q) + Len(r)) : p[n] = IF n <= Len(q) THEN q[n] ELSE r[n - Len(q)]
  BY <1>0, Joining
<1>3. /\ t \in Seq(X) /\ Len(t) = Len(p) + Len(z)
      /\ \A n \in 1..(Len(p) + Len(z)) : t[n] = IF n <= Len(p) THEN p[n] ELSE z[n - Len(p)]
  BY <1>0, Joining
<1>4. Len(s) \in Nat /\ Len(l) \in Nat /\ Len(r) \in Nat /\ Len(z) \in Nat
  OBVIOUS
<1>5. i \in 0..Len(t) /\ j \in 0..Len(t) /\ k \in 0..Len(t) /\ i <= j /\ j <= k
  BY <1>1, <1>2, <1>3, <1>4
<1>6. SubSeq(t, 1, i) = s
  <2>1. \A n \in 1..Len(s) : t[n] = s[n]
    BY <1>1, <1>2, <1>3, <1>4
  <2>2. SubSeq(t, 1, i) = [n \in 1..Len(s) |-> t[n]]
    BY <1>4
  <2>3. s = [n \in 1..Len(s) |-> s[n]]
    OBVIOUS
  <2> QED BY <2>1, <2>2, <2>3
<1>7. SubSeq(t, j + 1, k) = r
  <2> DEFINE c == Len(r)
  <2>1. c \in Nat /\ j \in Nat /\ k = j + c
    BY <1>4
  <2>2. \A n \in 1..c : t[j + n] = r[n]
    BY <1>1, <1>2, <1>3, <1>4
  <2>3. r = [n \in 1..c |-> r[n]]
    OBVIOUS
  <2> HIDE DEF j, k, c
  <2>4. SubSeq(t, j + 1, k) = [n \in 1..c |-> t[j + n]]
    <3>1. SubSeq(t, j + 1, k) = [n \in 1..((k - (j + 1)) + 1) |-> t[(n + (j + 1)) - 1]]
      BY <2>1
    <3>2. (k - (j + 1)) + 1 = c /\ \A n \in 1..c : (n + (j + 1)) - 1 = j + n
      BY <2>1
    <3> QED BY <3>1, <3>2
  <2> QED BY <2>2, <2>3, <2>4
<1> HIDE DEF i, j, k
<1>8. g = SubSeq(t, 1, i) \o SubSeq(t, j + 1, k)
  BY <1>6, <1>7 DEF IsJoined
<1> QED BY <1>5, <1>8 DEF LacksAStretch

\* The text a transport makes of the events of a stream.
TextFrom(x, u) == IF x.llm = "openai" THEN CollectOutputText(u) ELSE Flat(Deltas(x.llm, u))

\* The first of three texts.
LEMMA FirstOfThree ==
  ASSUME NEW X, NEW a \in Seq(X), NEW b \in Seq(X), NEW c \in Seq(X), NEW s, s = <<a, b, c>>
  PROVE  FirstText(s) = OrElse(OrElse(a, b), c)
<1>1. PICK z \in Seq(Seq(X)) : z = << >>
  BY EmptySeq
<1>2. PICK u : u = <<a>>
  OBVIOUS
<1>3. PICK v : v = <<a, b>>
  OBVIOUS
<1>4. IsAppended(v, u, b) /\ IsAppended(s, v, c) /\ u \in Seq(Seq(X)) /\ v \in Seq(Seq(X))
  BY <1>2, <1>3 DEF IsAppended
<1>5. FirstText(u) = a
  BY <1>2, FirstTextOfOne
<1>6. FirstText(v) = OrElse(FirstText(u), b)
  BY <1>4, FirstTextOn
<1>7. FirstText(s) = OrElse(FirstText(v), c)
  BY <1>4, FirstTextOn
<1> QED BY <1>5, <1>6, <1>7

\* Codex: the deltas, else the first text repeated.
LEMMA CollectedIs ==
  ASSUME NEW x \in Exchanges, x.llm = "openai", NEW u, AllSay(x, u)
  PROVE  CollectOutputText(u) = OrElse(OrElse(Flat(Deltas(x.llm, u)), FirstOf(Payloads(u, "part"))), FirstOf(Payloads(u, "completed")))
<1> DEFINE a == Flat(TextOfEach(Payloads(u, "delta")))
           b == FirstOf(Payloads(u, "part"))
           c == FirstOf(Payloads(u, "completed"))
<1>1. a = Flat(Deltas(x.llm, u))
  BY DeltasAre
<1>2. a \in Seq(Pieces) /\ b \in Seq(Pieces) /\ c \in Seq(Pieces)
  BY <1>1, WhatAllSay
<1>3. CollectOutputText(u) = FirstText(<<a, b, c>>)
  BY DEF CollectOutputText
<1> HIDE DEF a, b, c
<1>4. FirstText(<<a, b, c>>) = OrElse(OrElse(a, b), c)
  BY <1>2, FirstOfThree
<1> QED BY <1>1, <1>3, <1>4 DEF a, b, c

\* A text that begins another lacks a stretch of it, as nothing does.
LEMMA NoTextIs ==
  ASSUME NEW t \in Seq(Pieces), NEW z, z = << >>
  PROVE  IsPrefix(z, t) /\ LacksAStretch(z, t)
<1>1. z \in Seq(Pieces)
  BY EmptySeq
<1>2. IsJoined(t, z, t) /\ IsJoined(z, z, z) /\ IsJoined(t, t, z)
  BY <1>1, JoiningNothing
<1>3. IsPrefix(z, t)
  BY <1>1, <1>2, WhatBegins
<1>4. LacksAStretch(z, t)
  BY <1>1, <1>2, Lacking
<1> QED BY <1>3, <1>4

\* At the end the deltas are what is kept.
LEMMA DeltasAreKept ==
  ASSUME NEW x \in Exchanges, NEW u, NEW t, NEW why, Faithful(x, u, t, why), t = << >>
  PROVE  IF CarriesDeltas(x) THEN Keeps(Flat(x.answer), Flat(Deltas(x.llm, u)), why) ELSE Flat(Deltas(x.llm, u)) = << >>
<1>1. AllSay(x, u) /\ t \in Seq(MessagesOf(x))
  BY DEF Faithful
<1>2. Flat(Deltas(x.llm, u)) \in Seq(Pieces)
  BY <1>1, FaithfulTypes
<1>3. PICK got \in Seq(Pieces) :
           /\ IsJoined(got, Flat(Deltas(x.llm, u)), TextLeft(t))
           /\ IF CarriesDeltas(x) THEN Keeps(Flat(x.answer), got, why) ELSE got = << >>
  BY DEF Faithful, KeepsText
<1>4. TextLeft(t) = << >>
  BY LeftOfNone
<1>5. got = Flat(Deltas(x.llm, u))
  BY <1>2, <1>3, <1>4, JoiningNothing
<1> QED BY <1>3, <1>5

\* What is kept is a prefix, or lacks what was garbled.
LEMMA KeptIs ==
  ASSUME NEW told \in Seq(Pieces), NEW got \in Seq(Pieces), NEW why, Keeps(told, got, why)
  PROVE  /\ why # "garbled" => IsPrefix(got, told)
         /\ LacksAStretch(got, told)
<1>1. PICK s \in Seq(Pieces), l \in Seq(Pieces), r \in Seq(Pieces), q \in Seq(Pieces) :
           /\ IsJoined(q, s, l) /\ IsJoined(told, q, r) /\ IsJoined(got, s, r)
           /\ why = "none" => l = << >>
           /\ why \notin {"none", "garbled"} => r = << >>
  BY DEF Keeps
<1>2. PICK z \in Seq(Pieces) : z = << >>
  BY EmptySeq
<1>3. IsJoined(told, told, z)
  BY <1>2, JoiningNothing
<1>4. LacksAStretch(got, told)
  BY <1>1, <1>3, Lacking
<1>5. CASE why = "none"
  <2>1. got = told
    BY <1>1, <1>5, JoiningNothing DEF IsJoined
  <2> QED BY <1>2, <1>3, <1>4, <1>5, <2>1, WhatBegins
<1>6. CASE why \notin {"none", "garbled"}
  <2>1. got = s
    BY <1>1, <1>6, JoiningNothing
  <2>2. told = q
    BY <1>1, <1>6, JoiningNothing
  <2>3. IsJoined(told, got, l)
    BY <1>1, <2>1, <2>2
  <2> QED BY <1>1, <1>4, <2>3, WhatBegins
<1> QED BY <1>4, <1>5, <1>6

\* The text of a stream, when all of it has been read, keeps to the answer.
LEMMA TextIs ==
  ASSUME NEW x \in Exchanges, NEW u, NEW t, NEW why, Faithful(x, u, t, why), t = << >>
  PROVE  /\ why # "garbled" => IsPrefix(TextFrom(x, u), Flat(x.answer))
         /\ why = "garbled" => LacksAStretch(TextFrom(x, u), Flat(x.answer))
<1> DEFINE d == Flat(Deltas(x.llm, u))
           told == Flat(x.answer)
           first == FirstText(x.answer)
           p == FirstOf(Payloads(u, "part"))
           w == FirstOf(Payloads(u, "completed"))
<1>1. AllSay(x, u) /\ t \in Seq(MessagesOf(x)) /\ x.answer \in Seq(Seq(Pieces))
  BY ExchangeIs DEF Faithful
<1>2. d \in Seq(Pieces) /\ told \in Seq(Pieces) /\ first \in Seq(Pieces)
  BY <1>1, FaithfulTypes
<1>3. /\ why # "garbled" => IsPrefix(d, told)
      /\ LacksAStretch(d, told)
  <2>1. IF CarriesDeltas(x) THEN Keeps(told, d, why) ELSE d = << >>
    BY DeltasAreKept
  <2> HIDE DEF d, told
  <2> QED BY <1>2, <2>1, KeptIs, NoTextIs
<1>4. x.llm = "openai" => KeepsParts(x, u, t, why) /\ KeepsWhole(x, u, t, why)
  BY DEF Faithful
<1>5. PartLeft(t) = << >>
  BY LeftOfNone
<1>6. x.llm = "openai" => /\ why # "garbled" => p \in {<< >>, first}
                          /\ p # << >> => \E i \in DOMAIN x.answer : p = x.answer[i]
                          /\ w \in {<< >>, first}
  BY <1>4, <1>5 DEF KeepsParts, KeepsWhole, OrElse
<1>7. TextFrom(x, u) = IF x.llm = "openai" THEN OrElse(OrElse(d, p), w) ELSE d
  BY <1>1, CollectedIs DEF TextFrom
<1>8. IsPrefix(first, told) /\ LacksAStretch(first, told)
  <2>1. PICK r \in Seq(Pieces) : IsJoined(told, first, r)
    BY <1>1, FirstTextIsFirst
  <2>2. PICK z \in Seq(Pieces) : z = << >>
    BY EmptySeq
  <2> HIDE DEF told, first
  <2>3. IsPrefix(first, told)
    BY <1>2, <2>1, WhatBegins
  <2>4. IsJoined(first, first, z) /\ IsJoined(told, told, z)
    BY <1>2, <2>2, JoiningNothing
  <2>5. PICK q : IsJoined(q, first, r)
    BY <2>1
  <2>6. LacksAStretch(first, told)
    BY <1>2, <2>1, <2>2, <2>4, Lacking
  <2> QED BY <2>3, <2>6
<1>9. \A i \in DOMAIN x.answer : LacksAStretch(x.answer[i], told)
  <2> SUFFICES ASSUME NEW i \in DOMAIN x.answer
               PROVE  LacksAStretch(x.answer[i], told)
    OBVIOUS
  <2>0. PICK l \in Seq(Pieces), r \in Seq(Pieces) : \E q : IsJoined(q, l, x.answer[i]) /\ IsJoined(told, q, r)
    BY <1>1, EachIsWithin DEF Within
  <2>1. PICK q : IsJoined(q, l, x.answer[i]) /\ IsJoined(told, q, r)
    BY <2>0
  <2>2. PICK z \in Seq(Pieces) : z = << >>
    BY EmptySeq
  <2>3. PICK o : o = x.answer[i]
    OBVIOUS
  <2>4. o \in Seq(Pieces)
    BY <1>1, <2>3
  <2> HIDE DEF told
  <2>5. IsJoined(q, l, o) /\ IsJoined(told, q, r)
    BY <2>1, <2>3
  <2>6. IsJoined(l, z, l) /\ IsJoined(o, z, o)
    BY <2>2, <2>4, JoiningNothing
  <2>7. LacksAStretch(o, told)
    BY <2>1, <2>2, <2>4, <2>5, <2>6, Lacking
  <2> QED BY <2>3, <2>7
<1>10. IsPrefix(<< >>, told) /\ LacksAStretch(<< >>, told)
  BY <1>2, NoTextIs
<1> HIDE DEF d, told, first, p, w
<1>11. TextFrom(x, u) \in {d, p, w} /\ (TextFrom(x, u) = d \/ x.llm = "openai")
  BY <1>7 DEF OrElse
<1>12. why # "garbled" => IsPrefix(TextFrom(x, u), told)
  BY <1>3, <1>6, <1>8, <1>10, <1>11
<1>13. why = "garbled" => LacksAStretch(TextFrom(x, u), told)
  BY <1>3, <1>6, <1>8, <1>9, <1>10, <1>11
<1> QED BY <1>12, <1>13 DEF told

\* With deltas it is what they say.
LEMMA TextOfDeltas ==
  ASSUME NEW x \in Exchanges, NEW u, AllSay(x, u), Deltas(x.llm, u) # << >>
  PROVE  Flat(Deltas(x.llm, u)) = TextFrom(x, u)
<1>1. Flat(Deltas(x.llm, u)) # << >>
  BY WhatAllSay
<1>2. x.llm = "openai" =>
      CollectOutputText(u) = OrElse(OrElse(Flat(Deltas(x.llm, u)), FirstOf(Payloads(u, "part"))), FirstOf(Payloads(u, "completed")))
  BY CollectedIs
<1> QED BY <1>1, <1>2 DEF TextFrom, OrElse

Expected(x) == IF CarriesDeltas(x) THEN Flat(x.answer) ELSE FirstText(x.answer)

\* If nothing went wrong it is all of it.
LEMMA WholeTextIs ==
  ASSUME NEW x \in Exchanges, NEW u, NEW t, Faithful(x, u, t, "none"), t = << >>
  PROVE  TextFrom(x, u) = Expected(x)
<1> DEFINE d == Flat(Deltas(x.llm, u))
           told == Flat(x.answer)
           first == FirstText(x.answer)
           p == FirstOf(Payloads(u, "part"))
           w == FirstOf(Payloads(u, "completed"))
<1>1. AllSay(x, u) /\ t \in Seq(MessagesOf(x)) /\ x.answer \in Seq(Seq(Pieces))
  BY ExchangeIs DEF Faithful
<1>2. d \in Seq(Pieces) /\ told \in Seq(Pieces) /\ (first = << >> <=> told = << >>)
  BY <1>1, FaithfulTypes, FirstTextIsFirst
<1>3. IF CarriesDeltas(x) THEN d = told ELSE d = << >>
  <2>1. IF CarriesDeltas(x) THEN Keeps(told, d, "none") ELSE d = << >>
    BY DeltasAreKept
  <2> HIDE DEF d, told
  <2> QED BY <1>2, <2>1, KeepsAll
<1>4. x.llm = "openai" => KeepsParts(x, u, t, "none") /\ KeepsWhole(x, u, t, "none")
  BY DEF Faithful
<1>5. PartLeft(t) = << >> /\ DOMAIN t = {}
  BY LeftOfNone
<1>6. x.llm = "openai" => p \in {<< >>, first} /\ w = first
  BY <1>4, <1>5 DEF KeepsParts, KeepsWhole, OrElse
<1>7. TextFrom(x, u) = IF x.llm = "openai" THEN OrElse(OrElse(d, p), w) ELSE d
  BY <1>1, CollectedIs DEF TextFrom
<1> HIDE DEF d, told, first, p, w
<1>8. x.llm # "openai" => CarriesDeltas(x)
  BY DEF CarriesDeltas
<1>9. TextFrom(x, u) = IF CarriesDeltas(x) THEN told ELSE first
  BY <1>2, <1>3, <1>6, <1>7, <1>8 DEF OrElse
<1> QED BY <1>9 DEF Expected, told, first

------------------------------------------------------------------------------
(* What the scanner makes of the lines that are sent.                      *)

\* What the lines still to be scanned may add to the events, here or wherever the stream is cut: all
\* there will be, nothing, or an event that is noise.
Prospect(s, u) ==
  /\ u = s.events \/ \E e \in Happenings : IsAppended(u, s.events, e)
  /\ \/ Flushed(s) = u \/ Flushed(s) = s.events
     \/ \E e \in Happenings : e.payload = NotJSON /\ IsAppended(Flushed(s), s.events, e)

\* Scanning the lines w from s on makes the events u; while the stream is open they are all in prospect.
Running(s, w, u, o) ==
  \E f : /\ f[0] = s /\ Flushed(f[Len(w)]) = u
         /\ \A i \in 1..Len(w) : f[i] = ScanLine(f[i - 1], w[i])
         /\ o => \A i \in 0..Len(w) : Prospect(f[i], u)

IsLed(w, l, v) == w = <<l>> \o v

\* A course that has come to its end.
LEMMA CourseEnds ==
  ASSUME NEW s, NEW w, w = << >>, NEW u, NEW o
  PROVE  Running(s, w, u, o) <=> Flushed(s) = u /\ (o => Prospect(s, u))
<1>1. Len(w) = 0
  OBVIOUS
<1>2. ASSUME Running(s, w, u, o)
      PROVE  Flushed(s) = u /\ (o => Prospect(s, u))
  BY <1>1, <1>2 DEF Running
<1>3. ASSUME Flushed(s) = u, o => Prospect(s, u)
      PROVE  Running(s, w, u, o)
  <2> DEFINE f == [i \in {0} |-> s]
  <2>1. f[0] = s
    OBVIOUS
  <2> HIDE DEF f
  <2>2. /\ f[0] = s /\ Flushed(f[Len(w)]) = u
        /\ \A i \in 1..Len(w) : f[i] = ScanLine(f[i - 1], w[i])
        /\ o => \A i \in 0..Len(w) : Prospect(f[i], u)
    BY <1>1, <1>3, <2>1
  <2> QED BY <2>2 DEF Running
<1> QED BY <1>2, <1>3

\* The course of a line more, before the others.
LEMMA CourseBefore ==
  ASSUME NEW X, NEW v \in Seq(X), NEW l \in X, NEW w, IsLed(w, l, v), NEW s, NEW t, t = ScanLine(s, l), NEW u, NEW o,
         Running(t, v, u, o), o => Prospect(s, u)
  PROVE  Running(s, w, u, o)
<1>1. PICK f : /\ f[0] = t /\ Flushed(f[Len(v)]) = u
               /\ \A i \in 1..Len(v) : f[i] = ScanLine(f[i - 1], v[i])
               /\ o => \A i \in 0..Len(v) : Prospect(f[i], u)
  BY DEF Running
<1>2. PICK n \in Nat : n = Len(v)
  OBVIOUS
<1>3. Len(w) = n + 1 /\ w[1] = l /\ \A i \in 1..n : w[i + 1] = v[i]
  BY <1>2 DEF IsLed
<1> DEFINE g == [i \in 0..(n + 1) |-> IF i = 0 THEN s ELSE f[i - 1]]
<1>4. g[0] = s /\ \A i \in 1..(n + 1) : g[i] = f[i - 1]
  BY <1>2
<1> HIDE DEF g
<1>5. g[1] = f[0] /\ \A i \in 1..n : g[i + 1] = f[i]
  BY <1>2, <1>4
<1>6. Flushed(g[Len(w)]) = u
  <2>1. g[n + 1] = f[n]
    <3>1. n + 1 \in 1..(n + 1) /\ (n + 1) - 1 = n
      BY <1>2
    <3> QED BY <1>4, <3>1
  <2> QED BY <1>1, <1>2, <1>3, <2>1
<1>7. ASSUME NEW i \in 1..Len(w)
      PROVE  g[i] = ScanLine(g[i - 1], w[i])
  <2>1. CASE i = 1
    <3>1. i - 1 = 0
      BY <2>1
    <3> QED BY <1>1, <1>3, <1>4, <1>5, <2>1, <3>1
  <2>2. CASE i # 1
    <3>1. PICK j \in 1..n : i = j + 1 /\ i - 1 = j
      <4>1. i - 1 \in 1..n /\ i = (i - 1) + 1
        BY <1>2, <1>3, <2>2
      <4> QED BY <4>1
    <3>2. g[i] = f[j] /\ w[i] = v[j] /\ g[i - 1] = f[j - 1] /\ f[j] = ScanLine(f[j - 1], v[j])
      <4>1. j \in 1..(n + 1)
        BY <1>2
      <4> QED BY <1>1, <1>2, <1>3, <1>4, <1>5, <3>1, <4>1
    <3> QED BY <3>2
  <2> QED BY <2>1, <2>2
<1>8. ASSUME o, NEW i \in 0..Len(w)
      PROVE  Prospect(g[i], u)
  <2>1. CASE i = 0
    BY <1>4, <1>8, <2>1
  <2>2. CASE i # 0
    <3>1. i \in 1..(n + 1) /\ i - 1 \in 0..n
      BY <1>2, <1>3, <2>2
    <3> QED BY <1>1, <1>2, <1>4, <1>8, <3>1
  <2> QED BY <2>1, <2>2
<1> QED BY <1>4, <1>6, <1>7, <1>8 DEF Running

\* The course once a line has been scanned.
LEMMA CourseOn ==
  ASSUME NEW X, NEW w \in Seq(X), w # << >>, NEW v, IsRest(v, w), NEW s, NEW t, t = ScanLine(s, Head(w)), NEW u, NEW o, Running(s, w, u, o)
  PROVE  Running(t, v, u, o) /\ (o => Prospect(s, u))
<1>1. PICK f : /\ f[0] = s /\ Flushed(f[Len(w)]) = u
               /\ \A i \in 1..Len(w) : f[i] = ScanLine(f[i - 1], w[i])
               /\ o => \A i \in 0..Len(w) : Prospect(f[i], u)
  BY DEF Running
<1>2. /\ Head(w) = w[1] /\ v \in Seq(X) /\ Len(v) \in Nat /\ Len(w) = Len(v) + 1
      /\ \A i \in 1..Len(v) : v[i] = w[i + 1]
  BY Rest
<1>3. PICK n \in Nat : n = Len(v)
  BY <1>2
<1> DEFINE g == [i \in 0..n |-> f[i + 1]]
<1>4. \A i \in 0..n : g[i] = f[i + 1]
  OBVIOUS
<1> HIDE DEF g
<1>5. g[0] = t
  <2>1. 0 \in 0..n /\ 1 \in 1..(n + 1) /\ 0 + 1 = 1 /\ 1 - 1 = 0
    BY <1>3
  <2> QED BY <1>1, <1>2, <1>3, <1>4, <2>1
<1>6. Flushed(g[Len(v)]) = u
  <2>1. n \in 0..n
    BY <1>3
  <2> QED BY <1>1, <1>2, <1>3, <1>4, <2>1
<1>7. ASSUME NEW i \in 1..n
      PROVE  g[i] = ScanLine(g[i - 1], v[i])
  <2>1. i \in 0..n /\ i - 1 \in 0..n /\ i + 1 \in 1..(n + 1) /\ (i - 1) + 1 = i /\ (i + 1) - 1 = i
    BY <1>3
  <2>2. f[i + 1] = ScanLine(f[i], w[i + 1])
    BY <1>1, <1>2, <1>3, <2>1
  <2> QED BY <1>2, <1>3, <1>4, <2>1, <2>2
<1>8. ASSUME o, NEW i \in 0..n
      PROVE  Prospect(g[i], u)
  <2>1. i + 1 \in 0..(n + 1)
    BY <1>3
  <2> QED BY <1>1, <1>2, <1>3, <1>4, <1>8, <2>1
<1>9. o => Prospect(s, u)
  <2>1. 0 \in 0..(n + 1)
    BY <1>3
  <2> QED BY <1>1, <1>2, <1>3, <2>1
<1> QED BY <1>3, <1>5, <1>6, <1>7, <1>8, <1>9 DEF Running

\* A scanner between the lines of an event.
At(n, d, events) == [eventType |-> n, data |-> d, events |-> events, overlong |-> FALSE]

\* No name and no data.
IsNothing(n, d) == n = "" /\ d = << >>

\* The event of a payload in a frame that has the name n, or none.
EventOf(n, m) ==
  LET name == IF m.named THEN m.type ELSE n IN Event(IF name = "" THEN "message" ELSE name, m)

\* What each kind of line does to a scanner.
LEMMA ScanningEvent ==
  ASSUME NEW n, NEW d, NEW events, NEW s, s = At(n, d, events), NEW k, NEW t, t = At(k, d, events), NEW l, l = EventLine(k)
  PROVE  t = ScanLine(s, l)
<1>1. s.eventType = n /\ s.data = d /\ s.events = events /\ ~ s.overlong
  BY DEF At
<1>2. l.kind = "event" /\ l.name = k
  BY DEF EventLine, Line
<1>3. ScanLine(s, l) = [s EXCEPT !.eventType = k]
  BY <1>1, <1>2 DEF ScanLine
<1> QED BY <1>3 DEF At

LEMMA ScanningData ==
  ASSUME NEW n, NEW d, NEW events, NEW s, s = At(n, d, events), NEW l, l.kind = "data", NEW g, IsAppended(g, d, l),
         NEW t, t = At(n, g, events)
  PROVE  t = ScanLine(s, l)
<1>1. s.eventType = n /\ s.data = d /\ s.events = events /\ ~ s.overlong
  BY DEF At
<1>2. g = Append(s.data, l)
  BY <1>1 DEF IsAppended
<1>3. ScanLine(s, l) = [s EXCEPT !.data = g]
  BY <1>1, <1>2 DEF ScanLine
<1> QED BY <1>3 DEF At

LEMMA ScanningBlank ==
  ASSUME NEW n, NEW d, NEW events, NEW s, s = At(n, d, events), NEW q, NEW y, IsNothing(q, y), NEW u, u = Flushed(s), NEW t, t = At(q, y, u),
         NEW l, l = Blank
  PROVE  t = ScanLine(s, l)
<1>1. s.eventType = n /\ s.data = d /\ s.events = events /\ ~ s.overlong
  BY DEF At
<1>2. l.kind = "blank"
  BY DEF Blank, Line
<1>3. ScanLine(s, l) = [s EXCEPT !.eventType = q, !.data = y, !.events = u]
  BY <1>1, <1>2 DEF ScanLine, IsNothing
<1> QED BY <1>3 DEF At

LEMMA ScanningComment ==
  ASSUME NEW s, s.overlong \/ ~ s.overlong, NEW l, l = Comment
  PROVE  s = ScanLine(s, l)
<1>1. l.kind = "other"
  BY DEF Comment, Line
<1> QED BY <1>1 DEF ScanLine

\* What data make when they are flushed.
LEMMA FlushingAt ==
  ASSUME NEW n, NEW events, NEW d
  PROVE  /\ d = << >> => Flushed(At(n, d, events)) = events
         /\ \A m : d = <<Data("all", m)>> => IsAppended(Flushed(At(n, d, events)), events, EventOf(n, m))
         /\ \A m : d = <<Data("first", m)>> => IsAppended(Flushed(At(n, d, events)), events, EventOf(n, NotJSON))
         /\ \A m : d = <<Data("first", m), Data("second", m)>> => IsAppended(Flushed(At(n, d, events)), events, EventOf(n, m))
         /\ d = <<DoneLine>> => IsAppended(Flushed(At(n, d, events)), events, Event("done", NotJSON))
<1> DEFINE s == At(n, d, events)
<1>1. s.eventType = n /\ s.data = d /\ s.events = events
  BY DEF At
<1>2. \A h, m : Data(h, m).half = h /\ Data(h, m).message = m
  BY DEF Data, Line
<1>3. DoneLine.half = "[DONE]"
  BY <1>2 DEF DoneLine
<1> HIDE DEF s
<1>4. ASSUME NEW p, p = Parsed(d), d # << >>, d # <<DoneLine>>
      PROVE  IsAppended(Flushed(s), events, EventOf(n, p))
  BY <1>1, <1>4 DEF Flushed, EventOf, IsAppended
<1>5. d = << >> => Flushed(s) = events
  BY <1>1 DEF Flushed
<1>6. ASSUME NEW h, NEW m, h # "[DONE]", NEW l, l = Data(h, m), d = <<l>>
      PROVE  /\ d # << >> /\ d # <<DoneLine>> /\ Len(d) = 1 /\ d[1] = l /\ l.half = h /\ l.message = m
  <2>1. d # << >> /\ Len(d) = 1 /\ d[1] = l
    BY <1>6, Single
  <2>2. l.half = h /\ l.message = m
    BY <1>2, <1>6
  <2>3. d # <<DoneLine>>
    <3>1. PICK k : k = DoneLine
      OBVIOUS
    <3>2. \A e : e = <<k>> => e[1] = k
      OBVIOUS
    <3> QED BY <1>3, <1>6, <2>1, <2>2, <3>1, <3>2
  <2> QED BY <2>1, <2>2, <2>3
<1>7. ASSUME NEW m, d = <<Data("all", m)>>
      PROVE  IsAppended(Flushed(s), events, EventOf(n, m))
  <2>1. PICK l : l = Data("all", m)
    OBVIOUS
  <2>2. d # << >> /\ d # <<DoneLine>> /\ Len(d) = 1 /\ d[1] = l /\ l.half = "all" /\ l.message = m
    BY <1>6, <1>7, <2>1
  <2>3. Parsed(d) = m
    BY <2>2 DEF Parsed
  <2> QED BY <1>4, <2>2, <2>3
<1>8. ASSUME NEW m, d = <<Data("first", m)>>
      PROVE  IsAppended(Flushed(s), events, EventOf(n, NotJSON))
  <2>1. PICK l : l = Data("first", m)
    OBVIOUS
  <2>2. d # << >> /\ d # <<DoneLine>> /\ Len(d) = 1 /\ d[1] = l /\ l.half = "first"
    BY <1>6, <1>8, <2>1
  <2>3. Parsed(d) = NotJSON
    BY <2>2 DEF Parsed
  <2> QED BY <1>4, <2>2, <2>3
<1>9. ASSUME NEW m, d = <<Data("first", m), Data("second", m)>>
      PROVE  IsAppended(Flushed(s), events, EventOf(n, m))
  <2>1. PICK l : l = Data("first", m)
    OBVIOUS
  <2>2. PICK k : k = Data("second", m)
    OBVIOUS
  <2>3. d = <<l, k>>
    BY <1>9, <2>1, <2>2
  <2>4. Len(d) = 2 /\ d[1] = l /\ d[2] = k /\ d # << >>
    BY <2>3
  <2>5. l.half = "first" /\ l.message = m
    BY <1>2, <2>1
  <2>6. d # <<DoneLine>>
    <3>1. \A e : Len(<<e>>) = 1
      OBVIOUS
    <3> QED BY <2>4, <3>1
  <2>7. Parsed(d) = m
    BY <2>2, <2>4, <2>5 DEF Parsed
  <2> QED BY <1>4, <2>4, <2>6, <2>7
<1>10. d = <<DoneLine>> => IsAppended(Flushed(s), events, Event("done", NotJSON))
  <2> SUFFICES ASSUME d = <<DoneLine>>
               PROVE  IsAppended(Flushed(s), events, Event("done", NotJSON))
    OBVIOUS
  <2>1. d # << >>
    BY Single
  <2> QED BY <1>1, <2>1 DEF Flushed, IsAppended
<1> QED BY <1>5, <1>7, <1>8, <1>9, <1>10 DEF s

\* Noise makes an event that is noise, whatever has been gathered.
LEMMA NoiseIs ==
  ASSUME NEW s \in Scanners, ~ s.overlong
  PROVE  /\ IsAppended(Flushed(ScanLine(s, Garbage)), s.events, EventOf(s.eventType, NotJSON))
         /\ EventOf(s.eventType, NotJSON) \in Happenings /\ EventOf(s.eventType, NotJSON).payload = NotJSON
<1>1. PICK l : l = Garbage
  OBVIOUS
<1>2. l.kind = "data" /\ l.half = "all" /\ l.message = NotJSON
  BY <1>1 DEF Garbage, Data, Line
<1>3. \A m : Data("second", m).half = "second" /\ DoneLine.half = "[DONE]"
  BY DEF Data, Line, DoneLine
<1>4. s.data \in Seq(Lines) /\ s.eventType \in Names
  BY DEF Scanners
<1>5. PICK d : d = Append(s.data, l)
  OBVIOUS
<1>6. PICK t : t = ScanLine(s, l)
  OBVIOUS
<1>7. t = [s EXCEPT !.data = d]
  BY <1>2, <1>5, <1>6 DEF ScanLine
<1>8. t.eventType = s.eventType /\ t.data = d /\ t.events = s.events
  BY <1>7 DEF Scanners
<1>9. Len(d) \in Nat /\ Len(d) = Len(s.data) + 1 /\ d[Len(d)] = l /\ d # << >> /\ Len(s.data) \in Nat
  BY <1>4, <1>5
<1>10. d # <<DoneLine>>
  <2>1. PICK k : k = DoneLine
    OBVIOUS
  <2>2. \A e : e = <<k>> => e[Len(e)] = k
    OBVIOUS
  <2> QED BY <1>2, <1>3, <1>9, <2>1, <2>2
<1>11. Parsed(d) = NotJSON
  <2>1. Len(d) = 2 => d[2] # Data("second", d[1].message)
    BY <1>2, <1>3, <1>9
  <2>2. Len(d) = 1 => d[1].message = NotJSON
    BY <1>2, <1>9
  <2> QED BY <2>1, <2>2 DEF Parsed
<1>12. IsAppended(Flushed(t), s.events, EventOf(s.eventType, NotJSON))
  BY <1>8, <1>9, <1>10, <1>11 DEF Flushed, EventOf, IsAppended
<1>13. EventOf(s.eventType, NotJSON) \in Happenings /\ EventOf(s.eventType, NotJSON).payload = NotJSON
  <2>1. NotJSON.named = FALSE
    BY DEF NotJSON, Message
  <2>2. EventOf(s.eventType, NotJSON) = Event(IF s.eventType = "" THEN "message" ELSE s.eventType, NotJSON)
    BY <2>1 DEF EventOf
  <2>3. (IF s.eventType = "" THEN "message" ELSE s.eventType) \in Names
    BY <1>4 DEF Names
  <2>4. PICK k \in Names : k = IF s.eventType = "" THEN "message" ELSE s.eventType
    BY <2>3
  <2>5. EventOf(s.eventType, NotJSON) = Event(k, NotJSON)
    BY <2>2, <2>4
  <2>6. Event(k, NotJSON) \in Happenings /\ Event(k, NotJSON).payload = NotJSON
    BY DEF Event, Happenings
  <2> QED BY <2>5, <2>6
<1> QED BY <1>1, <1>6, <1>12, <1>13

\* The course of a blank line.
LEMMA BlankCourse ==
  ASSUME NEW n, NEW g, NEW E, NEW s, s = At(n, g, E), NEW u, u = Flushed(s), NEW o, o => Prospect(s, u), NEW z, z = <<Blank>>
  PROVE  Running(s, z, u, o)
<1>1. PICK y : y = << >>
  OBVIOUS
<1>2. PICK q : q = ""
  OBVIOUS
<1>3. IsNothing(q, y)
  BY <1>1, <1>2 DEF IsNothing
<1>4. PICK l : l = Blank
  OBVIOUS
<1>5. y \in Seq({l}) /\ l \in {l} /\ IsLed(z, l, y)
  BY <1>1, <1>4 DEF IsLed
<1>6. PICK b : b = At(q, y, u)
  OBVIOUS
<1>7. b = ScanLine(s, l)
  BY <1>3, <1>4, <1>6, ScanningBlank
<1>8. b.events = u /\ Flushed(b) = u
  <2>1. b.events = u
    BY <1>6 DEF At
  <2> QED BY <1>1, <1>6, <2>1, FlushingAt
<1>9. Running(b, y, u, o)
  <2>1. Prospect(b, u)
    BY <1>8 DEF Prospect
  <2> QED BY <1>1, <1>8, <2>1, CourseEnds
<1> QED BY <1>5, <1>7, <1>9, CourseBefore

\* A line of data, then one that is blank.
LEMMA DataCourse ==
  ASSUME NEW n, NEW g, NEW E, NEW s, s = At(n, g, E), NEW d, d.kind = "data", NEW h, IsAppended(h, g, d), NEW t, t = At(n, h, E),
         NEW e \in Happenings, NEW u, u = Flushed(t), IsAppended(u, E, e), NEW o, o => Prospect(s, u),
         NEW z, z = <<Blank>>, NEW w, IsLed(w, d, z)
  PROVE  Running(s, w, u, o)
<1>1. t = ScanLine(s, d)
  BY ScanningData
<1>2. Prospect(t, u)
  <2>1. t.events = E
    BY DEF At
  <2> QED BY <2>1 DEF Prospect
<1>3. Running(t, z, u, o)
  BY <1>2, BlankCourse
<1>4. PICK Y : Y = {d, Blank}
  OBVIOUS
<1>5. z \in Seq(Y) /\ d \in Y
  BY <1>4
<1> QED BY <1>1, <1>3, <1>5, CourseBefore

\* The course of the lines of an event from where nothing is gathered.
LEMMA FrameCourse ==
  ASSUME NEW E \in Seq(Happenings), NEW k, NEW n, NEW e \in Happenings, e = EventOf(n, k), EventOf(n, NotJSON) \in Happenings,
         NEW u, IsAppended(u, E, e), NEW o, NEW y, y = << >>, NEW s, s = At(n, y, E), NEW z, z = <<Blank>>, NEW w
  PROVE  /\ Prospect(s, u)
         /\ \A d : d = Data("all", k) /\ IsLed(w, d, z) => Running(s, w, u, o)
         /\ \A c, d, v : c = Data("first", k) /\ d = Data("second", k) /\ IsLed(v, d, z) /\ IsLed(w, c, v) => Running(s, w, u, o)
<1>1. EventOf(n, NotJSON).payload = NotJSON
  BY DEF EventOf, Event
<1>2. \A h : Data(h, k).kind = "data"
  BY DEF Data, Line
<1>3. Prospect(s, u)
  <2>1. s.events = E /\ Flushed(s) = E
    BY FlushingAt DEF At
  <2> QED BY <2>1 DEF Prospect
<1>4. ASSUME NEW d, d = Data("all", k), IsLed(w, d, z)
      PROVE  Running(s, w, u, o)
  <2>1. PICK g : IsAppended(g, y, d)
    BY DEF IsAppended
  <2>2. g = <<Data("all", k)>>
    BY <1>4, <2>1 DEF IsAppended
  <2>3. PICK t : t = At(n, g, E)
    OBVIOUS
  <2>4. IsAppended(Flushed(t), E, e)
    BY <2>2, <2>3, FlushingAt
  <2>5. u = Flushed(t)
    BY <2>4 DEF IsAppended
  <2>6. d.kind = "data"
    BY <1>2, <1>4
  <2> QED BY <1>3, <1>4, <2>1, <2>3, <2>5, <2>6, DataCourse
<1>5. ASSUME NEW c, NEW d, NEW v, c = Data("first", k), d = Data("second", k), IsLed(v, d, z), IsLed(w, c, v)
      PROVE  Running(s, w, u, o)
  <2>1. PICK g : IsAppended(g, y, c)
    BY DEF IsAppended
  <2>2. PICK h : IsAppended(h, g, d)
    BY DEF IsAppended
  <2>3. g = <<c>>
    BY <2>1 DEF IsAppended
  <2>4. h = <<Data("first", k), Data("second", k)>>
    <3>1. PICK j : j = <<c, d>>
      OBVIOUS
    <3>2. c \in {c, d} /\ d \in {c, d}
      OBVIOUS
    <3>3. j = h
      BY <2>2, <2>3, <3>1, <3>2 DEF IsAppended
    <3> QED BY <1>5, <3>1, <3>3
  <2>5. PICK t : t = At(n, g, E)
    OBVIOUS
  <2>6. PICK a : a = At(n, h, E)
    OBVIOUS
  <2>7. u = Flushed(a)
    <3>1. IsAppended(Flushed(a), E, e)
      BY <2>4, <2>6, FlushingAt
    <3> QED BY <3>1 DEF IsAppended
  <2>8. t = ScanLine(s, c)
    <3>1. c.kind = "data"
      BY <1>2, <1>5
    <3> QED BY <2>1, <2>5, <3>1, ScanningData
  <2>9. Prospect(t, u)
    <3>1. t.events = E
      BY <2>5 DEF At
    <3>2. g = <<Data("first", k)>>
      BY <1>5, <2>3
    <3>3. IsAppended(Flushed(t), E, EventOf(n, NotJSON))
      BY <2>5, <3>2, FlushingAt
    <3> QED BY <1>1, <3>1, <3>3 DEF Prospect
  <2>10. d.kind = "data"
    BY <1>2, <1>5
  <2>11. Running(t, v, u, o)
    BY <1>5, <2>2, <2>5, <2>6, <2>7, <2>9, <2>10, DataCourse
  <2>12. PICK Y : Y = {c, d, Blank}
    OBVIOUS
  <2>13. v \in Seq(Y) /\ c \in Y
    BY <1>5, <2>12 DEF IsLed
  <2> QED BY <1>3, <1>5, <2>8, <2>11, <2>13, CourseBefore
<1> QED BY <1>3, <1>4, <1>5

\* What is led by a line.
LEMMA Leading ==
  ASSUME NEW Y, NEW l \in Y, NEW v \in Seq(Y), NEW w, IsLed(w, l, v)
  PROVE  w \in Seq(Y) /\ \E p \in Seq(Y) : p = <<l>> /\ IsJoined(w, p, v)
<1>0. <<l>> \in Seq(Y)
  OBVIOUS
<1>1. PICK p \in Seq(Y) : p = <<l>>
  BY <1>0
<1>2. IsJoined(w, p, v)
  BY <1>1 DEF IsLed, IsJoined
<1>3. w \in Seq(Y)
  BY <1>2, Joining
<1> QED BY <1>1, <1>2, <1>3

\* What two lines lead.
LEMMA LeadingTwo ==
  ASSUME NEW Y, NEW c \in Y, NEW d \in Y, NEW z \in Seq(Y), NEW v, IsLed(v, d, z), NEW w, IsLed(w, c, v), NEW p, p = <<c, d>>
  PROVE  v \in Seq(Y) /\ w \in Seq(Y) /\ p \in Seq(Y) /\ IsJoined(w, p, z)
<1>1. v \in Seq(Y)
  BY Leading
<1>2. PICK a \in Seq(Y) : a = <<c>> /\ IsJoined(w, a, v)
  BY <1>1, Leading
<1>3. PICK b \in Seq(Y) : b = <<d>> /\ IsJoined(v, b, z)
  BY Leading
<1>4. w \in Seq(Y)
  BY <1>1, <1>2, Joining
<1>5. p = Append(a, d) /\ p \in Seq(Y)
  BY <1>2
<1>6. IsJoined(p, a, b)
  BY <1>2, <1>3, <1>5, AppendIsConcat DEF IsJoined
<1>8. IsJoined(w, a, v) /\ IsJoined(v, b, z)
  BY <1>2, <1>3
<1>7. IsJoined(w, p, z)
  <2>1. a \in Seq(Y) /\ b \in Seq(Y)
    OBVIOUS
  <2> QED BY <1>6, <1>8, <2>1, JoiningThree
<1> QED BY <1>1, <1>4, <1>5, <1>7

\* The lines of a frame whose data are k: the message m that it names, or noise.
InFrame(w, fr, m, k) ==
  LET lines(datas) == (IF HasLine(fr) THEN <<EventLine(m.type)>> ELSE << >>) \o datas \o <<Blank>>
  IN  w = lines(<<Data("all", k)>>) \/ w = lines(<<Data("first", k), Data("second", k)>>)

NameIn(fr, m) == IF HasLine(fr) THEN m.type ELSE ""

HasData(v, k, z) ==
  \/ \E d : d = Data("all", k) /\ IsLed(v, d, z)
  \/ \E c, d, x : c = Data("first", k) /\ d = Data("second", k) /\ IsLed(x, d, z) /\ IsLed(v, c, x)

Frames(w, fr, m, v) == IF HasLine(fr) THEN IsLed(w, EventLine(m.type), v) ELSE w = v

\* The data and the line that ends them, after the one that names the event if there is one.
LEMMA InFrameIs ==
  ASSUME NEW fr, NEW m, NEW k, NEW w, InFrame(w, fr, m, k), NEW z, z = <<Blank>>
  PROVE  \E Y : /\ z \in Seq(Y) /\ EventLine(m.type) \in Y
               /\ \E v \in Seq(Y) : HasData(v, k, z) /\ Frames(w, fr, m, v)
<1> DEFINE Y == {EventLine(m.type), Blank, Data("all", k), Data("first", k), Data("second", k)}
<1>1. PICK a : a = Data("all", k)
  OBVIOUS
<1>2. PICK c : c = Data("first", k)
  OBVIOUS
<1>3. PICK d : d = Data("second", k)
  OBVIOUS
<1>4. PICK l : l = EventLine(m.type)
  OBVIOUS
<1>5. PICK b : b = Blank
  OBVIOUS
<1>6. l \in Y /\ b \in Y /\ a \in Y /\ c \in Y /\ d \in Y
  BY <1>1, <1>2, <1>3, <1>4, <1>5
<1> HIDE DEF Y
<1>7. z \in Seq(Y)
  BY <1>5, <1>6
<1>8. PICK p \in Seq(Y) : p = IF HasLine(fr) THEN <<l>> ELSE << >>
  <2>1. <<l>> \in Seq(Y)
    BY <1>6
  <2>2. << >> \in Seq(Y)
    BY EmptySeq
  <2> QED BY <2>1, <2>2
<1>9. PICK q \in Seq(Y), v \in Seq(Y) :
           /\ w = (p \o q) \o z /\ IsJoined(v, q, z)
           /\ \/ IsLed(v, a, z)
              \/ \E x : IsLed(x, d, z) /\ IsLed(v, c, x)
  <2>1. CASE w = (p \o <<a>>) \o z
    <3>1. PICK v : IsLed(v, a, z)
      BY DEF IsLed
    <3>2. v \in Seq(Y)
      BY <1>6, <1>7, <3>1, Leading
    <3>3. PICK q \in Seq(Y) : q = <<a>> /\ IsJoined(v, q, z)
      BY <1>6, <1>7, <3>1, Leading
    <3> QED BY <2>1, <3>1, <3>2, <3>3
  <2>2. CASE w = (p \o <<c, d>>) \o z
    <3>1. PICK q : q = <<c, d>>
      OBVIOUS
    <3>2. PICK x : IsLed(x, d, z)
      BY DEF IsLed
    <3>3. PICK v : IsLed(v, c, x)
      BY DEF IsLed
    <3>4. v \in Seq(Y) /\ q \in Seq(Y) /\ IsJoined(v, q, z)
      BY <1>6, <1>7, <3>1, <3>2, <3>3, LeadingTwo
    <3> QED BY <2>2, <3>1, <3>2, <3>3, <3>4
  <2>3. w = (p \o <<a>>) \o z \/ w = (p \o <<c, d>>) \o z
    BY <1>1, <1>2, <1>3, <1>4, <1>8 DEF InFrame
  <2> QED BY <2>1, <2>2, <2>3
<1>10. w = p \o v
  <2>1. (p \o q) \o z = p \o (q \o z)
    BY <1>7, ConcatAssociative
  <2> QED BY <1>9, <2>1 DEF IsJoined
<1>11. IF HasLine(fr) THEN IsLed(w, l, v) ELSE w = v
  <2>1. ~ HasLine(fr) => w = v
    <3> SUFFICES ASSUME ~ HasLine(fr)
                 PROVE  w = v
      OBVIOUS
    <3>1. p = << >>
      BY <1>8
    <3>2. IsJoined(w, p, v)
      BY <1>10 DEF IsJoined
    <3> QED BY <3>1, <3>2, JoiningNothing
  <2> QED BY <1>8, <1>10, <2>1 DEF IsLed
<1>12. z \in Seq(Y) /\ EventLine(m.type) \in Y
  BY <1>4, <1>6, <1>7
<1>13. HasData(v, k, z)
  BY <1>1, <1>2, <1>3, <1>9 DEF HasData
<1>14. Frames(w, fr, m, v)
  BY <1>4, <1>11 DEF Frames
<1> QED BY <1>12, <1>13, <1>14

\* They make the event that is named so.
LEMMA InFrameCourse ==
  ASSUME NEW E \in Seq(Happenings), NEW fr, NEW m \in Messages, NEW k \in {m, NotJSON}, NEW w, InFrame(w, fr, m, k),
         NEW n, n = NameIn(fr, m), NEW e, e = EventOf(n, k), NEW u, IsAppended(u, E, e), NEW o,
         NEW q, NEW y, IsNothing(q, y), NEW s, s = At(q, y, E)
  PROVE  e \in Happenings /\ Running(s, w, u, o)
<1>2. n \in {"", m.type} /\ m.type \in Names /\ n \in Names
  BY LineKinds DEF NameIn, Names
<1>3. \A p \in {m, NotJSON} : EventOf(n, p) \in Happenings
  <2> SUFFICES ASSUME NEW p \in {m, NotJSON}
               PROVE  EventOf(n, p) \in Happenings
    OBVIOUS
  <2>1. PICK r \in {"", m.type} : r = IF p.named THEN p.type ELSE n
    <3>1. NotJSON.named = FALSE
      BY DEF NotJSON, Message
    <3> QED BY <1>2, <3>1
  <2>2. PICK name \in Names : name = IF r = "" THEN "message" ELSE r
    BY <1>2 DEF Names
  <2>3. EventOf(n, p) = Event(name, p)
    BY <2>1, <2>2 DEF EventOf
  <2>4. p \in Messages \cup {NotJSON}
    OBVIOUS
  <2>5. Event(name, p) \in Happenings
    BY <2>4 DEF Event, Happenings
  <2> QED BY <2>3, <2>5
<1>4. e \in Happenings /\ EventOf(n, NotJSON) \in Happenings
  BY <1>3
<1>5. y = << >>
  BY DEF IsNothing
<1>6. PICK z : z = <<Blank>>
  OBVIOUS
<1>7. PICK t : t = At(n, y, E)
  OBVIOUS
<1>8. PICK Y : /\ z \in Seq(Y) /\ EventLine(m.type) \in Y
               /\ \E v \in Seq(Y) : HasData(v, k, z) /\ Frames(w, fr, m, v)
  BY <1>6, InFrameIs
<1>9. PICK v \in Seq(Y) : HasData(v, k, z) /\ Frames(w, fr, m, v)
  BY <1>8
<1>10. Running(t, v, u, o)
  BY <1>4, <1>5, <1>6, <1>7, <1>9, FrameCourse DEF HasData
<1>11. CASE ~ HasLine(fr)
  <2>1. n = q
    BY <1>11 DEF NameIn, IsNothing
  <2>2. w = v
    BY <1>9, <1>11 DEF Frames
  <2>3. t = s
    BY <1>7, <2>1
  <2> QED BY <1>4, <1>10, <2>2, <2>3
<1>12. CASE HasLine(fr)
  <2>1. PICK l : l = EventLine(m.type)
    OBVIOUS
  <2>2. l \in Y /\ IsLed(w, l, v)
    BY <1>8, <1>9, <1>12, <2>1 DEF Frames
  <2>3. n = m.type
    BY <1>12 DEF NameIn
  <2>4. l = EventLine(n)
    BY <2>1, <2>3
  <2>5. t = ScanLine(s, l)
    BY <1>7, <2>4, ScanningEvent
  <2>6. Prospect(s, u)
    <3>1. s.events = E
      BY DEF At
    <3>2. Flushed(s) = E
      BY <1>5, FlushingAt
    <3> QED BY <1>4, <3>1, <3>2 DEF Prospect
  <2>7. Running(s, w, u, o)
    BY <1>10, <2>2, <2>5, <2>6, CourseBefore
  <2> QED BY <1>4, <2>7
<1> QED BY <1>11, <1>12

------------------------------------------------------------------------------
(* What is sent keeps the exchange faithful.                               *)

\* The event of a message in its frame tells it.
LEMMA FramedTells ==
  ASSUME NEW x \in Exchanges, x.form = "stream", NEW m \in MessagesOf(x), NEW n, n = NameIn(x.framing, m), NEW e, e = EventOf(n, m)
  PROVE  Tells(x, e, m)
<1>1. m.named = Named(x.framing) /\ m.type \in {"delta", "chat", "part", "completed"}
  BY MessagesAre DEF MessagesOf, IsOf
<1>2. PICK name : name = IF m.named THEN m.type ELSE n
  OBVIOUS
<1>8. PICK c : c = IF name = "" THEN "message" ELSE name
  OBVIOUS
<1>3. e = Event(c, m)
  BY <1>2, <1>8 DEF EventOf
<1>4. e.payload = m /\ e.type = c
  BY <1>3 DEF Event
<1>5. name \in {"", m.type}
  BY <1>2 DEF NameIn
<1>6. ASSUME x.llm = "openai"
      PROVE  name = m.type
  <2>1. x.framing \in Framings(x.llm, x.form)
    BY DEF Exchanges
  <2>2. Framings("openai", "stream") = {"line", "member", "both"}
    BY DEF Framings, Chats
  <2>3. HasLine(x.framing) \/ Named(x.framing)
    BY <1>6, <2>1, <2>2 DEF HasLine, Named
  <2> QED BY <1>1, <1>2, <2>3 DEF NameIn
<1>7. e.type # "done" /\ (x.llm = "openai" => e.type = m.type)
  BY <1>1, <1>4, <1>5, <1>6, <1>8
<1> QED BY <1>4, <1>7 DEF Tells

\* That of another message, or of noise, is silent.
LEMMA FramedSilent ==
  ASSUME NEW fr, NEW m \in Messages, NEW k, k = NotJSON \/ (k = m /\ m.type \in {"reasoning", "error"}),
         NEW n, n = NameIn(fr, m), NEW e, e = EventOf(n, k)
  PROVE  Silent(e)
<1>1. PICK name : name = IF k.named THEN k.type ELSE n
  OBVIOUS
<1>7. PICK c : c = IF name = "" THEN "message" ELSE name
  OBVIOUS
<1>2. e = Event(c, k)
  BY <1>1, <1>7 DEF EventOf
<1>3. e.payload = k /\ e.type = c
  BY <1>2 DEF Event
<1>4. n \in {"", m.type}
  BY DEF NameIn
<1>5. CASE k = NotJSON
  BY <1>3, <1>5 DEF Silent
<1>6. CASE k = m /\ m.type \in {"reasoning", "error"}
  BY <1>1, <1>3, <1>4, <1>6, <1>7 DEF Silent
<1> QED BY <1>5, <1>6

\* The lines that are not scanned make the exchange faithful.
OnCourse(x, t, why, s, w, o) == \E u : Faithful(x, u, t, why) /\ Running(s, w, u, o)

\* A message that is sent.
LEMMA SentMessage ==
  ASSUME NEW x \in Exchanges, x.form = "stream", NEW E, NEW t, NEW why, Faithful(x, E, t, why), t # << >>, NEW r, IsRest(r, t),
         NEW m, m = Head(t), NEW w, InFrame(w, x.framing, m, m), NEW o, NEW q, NEW y, IsNothing(q, y), NEW s, s = At(q, y, E)
  PROVE  OnCourse(x, r, why, s, w, o)
<1>1. E \in Seq(Happenings) /\ t \in Seq(MessagesOf(x))
  BY DEF Faithful, AllSay
<1>2. m \in MessagesOf(x)
  BY <1>1, Rest
<1>3. m \in Messages
  BY <1>2 DEF MessagesOf, Messages
<1>4. PICK n : n = NameIn(x.framing, m)
  OBVIOUS
<1>5. PICK e : e = EventOf(n, m)
  OBVIOUS
<1>6. PICK u : IsAppended(u, E, e)
  BY DEF IsAppended
<1>7. PICK fr : fr = x.framing
  OBVIOUS
<1>8. m \in {m, NotJSON} /\ InFrame(w, fr, m, m) /\ n = NameIn(fr, m)
  BY <1>4, <1>7
<1>9. e \in Happenings /\ Running(s, w, u, o)
  BY <1>1, <1>3, <1>5, <1>6, <1>8, InFrameCourse
<1>10. Tells(x, e, m)
  BY <1>2, <1>4, <1>5, FramedTells
<1>11. Faithful(x, u, r, why)
  BY <1>6, <1>9, <1>10, Sends
<1> QED BY <1>9, <1>11 DEF OnCourse

\* What is sent without telling a message, where that keeps what there is faithful.
LEMMA SentInSilence ==
  ASSUME NEW x \in Exchanges, NEW E, NEW t, NEW why, Faithful(x, E, t, why), NEW m \in Messages,
         NEW k, k = NotJSON \/ (k = m /\ m.type \in {"reasoning", "error"}),
         NEW fr, NEW w, InFrame(w, fr, m, k), NEW o, NEW q, NEW y, IsNothing(q, y), NEW s, s = At(q, y, E)
  PROVE  OnCourse(x, t, why, s, w, o)
<1>1. E \in Seq(Happenings)
  BY DEF Faithful, AllSay
<1>2. PICK n : n = NameIn(fr, m)
  OBVIOUS
<1>3. PICK e : e = EventOf(n, k)
  OBVIOUS
<1>4. PICK u : IsAppended(u, E, e)
  BY DEF IsAppended
<1>5. k \in {m, NotJSON}
  OBVIOUS
<1>6. e \in Happenings /\ Running(s, w, u, o)
  BY <1>1, <1>2, <1>3, <1>4, <1>5, InFrameCourse
<1>7. Silent(e)
  BY <1>2, <1>3, FramedSilent
<1>8. Faithful(x, u, t, why)
  BY <1>4, <1>6, <1>7, SilentStep
<1> QED BY <1>6, <1>8 DEF OnCourse

\* Lines that make no event.
LEMMA SentNothing ==
  ASSUME NEW x, NEW E, NEW t, NEW why, Faithful(x, E, t, why), NEW w, w = <<Comment>> \/ w = <<Blank>>,
         NEW o, NEW q, NEW y, IsNothing(q, y), NEW s, s = At(q, y, E)
  PROVE  OnCourse(x, t, why, s, w, o)
<1>1. y = << >>
  BY DEF IsNothing
<1>2. s.events = E /\ Flushed(s) = E /\ s.overlong = FALSE
  <2>1. s.events = E /\ s.overlong = FALSE
    BY DEF At
  <2> QED BY <1>1, <2>1, FlushingAt
<1>3. Prospect(s, E)
  BY <1>2 DEF Prospect
<1>4. CASE w = <<Blank>>
  <2>1. E = Flushed(s)
    BY <1>2
  <2>2. Running(s, w, E, o)
    BY <1>3, <1>4, <2>1, BlankCourse
  <2> QED BY <2>2 DEF OnCourse
<1>5. CASE w = <<Comment>>
  <2>1. Running(s, y, E, o)
    BY <1>1, <1>2, <1>3, CourseEnds
  <2>2. PICK l : l = Comment
    OBVIOUS
  <2>3. s = ScanLine(s, l)
    BY <1>2, <2>2, ScanningComment
  <2>4. y \in Seq({l}) /\ l \in {l} /\ IsLed(w, l, y)
    BY <1>1, <1>5, <2>2 DEF IsLed
  <2>5. Running(s, w, E, o)
    BY <1>3, <2>1, <2>3, <2>4, CourseBefore
  <2> QED BY <2>5 DEF OnCourse
<1> QED BY <1>4, <1>5

\* The marker of the end.
LEMMA SentDone ==
  ASSUME NEW x \in Exchanges, NEW E, NEW t, NEW why, Faithful(x, E, t, why), NEW w, w = <<DoneLine, Blank>>,
         NEW o, NEW q, NEW y, IsNothing(q, y), NEW s, s = At(q, y, E)
  PROVE  OnCourse(x, t, why, s, w, o)
<1>1. E \in Seq(Happenings) /\ y = << >>
  BY DEF Faithful, AllSay, IsNothing
<1>2. PICK e : e = Event("done", NotJSON)
  OBVIOUS
<1>3. e \in Happenings /\ Silent(e)
  BY <1>2 DEF Event, Happenings, Names, Silent
<1>4. PICK u : IsAppended(u, E, e)
  BY DEF IsAppended
<1>5. PICK d : d = DoneLine
  OBVIOUS
<1>6. d.kind = "data"
  BY <1>5 DEF DoneLine, Data, Line
<1>7. PICK h : IsAppended(h, y, d)
  BY DEF IsAppended
<1>8. h = <<DoneLine>>
  BY <1>1, <1>5, <1>7 DEF IsAppended
<1>9. PICK a : a = At(q, h, E)
  OBVIOUS
<1>10. u = Flushed(a)
  <2>1. IsAppended(Flushed(a), E, e)
    BY <1>2, <1>8, <1>9, FlushingAt
  <2> QED BY <1>4, <2>1 DEF IsAppended
<1>11. Prospect(s, u)
  <2>1. s.events = E
    BY DEF At
  <2>2. Flushed(s) = E
    BY <1>1, FlushingAt
  <2> QED BY <1>3, <1>4, <2>1, <2>2 DEF Prospect
<1>12. PICK z : z = <<Blank>>
  OBVIOUS
<1>13. IsLed(w, d, z)
  BY <1>5, <1>12 DEF IsLed
<1>14. Running(s, w, u, o)
  BY <1>3, <1>4, <1>6, <1>7, <1>9, <1>10, <1>11, <1>12, <1>13, DataCourse
<1>15. Faithful(x, u, t, why)
  BY <1>3, <1>4, SilentStep
<1> QED BY <1>14, <1>15 DEF OnCourse

\* What a stream that is cut where its events are all in prospect leaves is faithful still.
LEMMA CutIs ==
  ASSUME NEW x \in Exchanges, NEW u, NEW t, Faithful(x, u, t, "none"), NEW s \in Scanners, ~ s.overlong, Prospect(s, u),
         NEW z, z = << >>, NEW w, w = << >> \/ w = <<Garbage>>, NEW o, o = FALSE
  PROVE  OnCourse(x, z, "cut", s, w, o)
<1>1. s.events \in Seq(Happenings)
  BY DEF Scanners
<1>2. Faithful(x, u, z, "cut")
  BY Stops
<1>3. Faithful(x, s.events, z, "cut")
  <2>1. CASE u = s.events
    BY <1>2, <2>1
  <2>2. CASE \E e \in Happenings : IsAppended(u, s.events, e)
    <3>1. PICK e \in Happenings : IsAppended(u, s.events, e)
      BY <2>2
    <3> QED BY <1>1, <3>1, Undoes
  <2> QED BY <2>1, <2>2 DEF Prospect
<1>4. ASSUME NEW e \in Happenings, e.payload = NotJSON, NEW v, IsAppended(v, s.events, e)
      PROVE  Faithful(x, v, z, "cut")
  <2>1. Silent(e)
    BY <1>4 DEF Silent
  <2> QED BY <1>3, <1>4, <2>1, SilentStep
<1>5. CASE w = << >>
  <2>1. PICK v : v = Flushed(s)
    OBVIOUS
  <2>2. Faithful(x, v, z, "cut")
    BY <1>2, <1>3, <1>4, <2>1 DEF Prospect
  <2>3. Running(s, w, v, o)
    BY <1>5, <2>1, CourseEnds
  <2> QED BY <2>2, <2>3 DEF OnCourse
<1>6. CASE w = <<Garbage>>
  <2>1. PICK l : l = Garbage
    OBVIOUS
  <2>2. PICK b : b = ScanLine(s, l)
    OBVIOUS
  <2>3. PICK v : v = Flushed(b)
    OBVIOUS
  <2>4. PICK e : e = EventOf(s.eventType, NotJSON)
    OBVIOUS
  <2>5. IsAppended(v, s.events, e) /\ e \in Happenings /\ e.payload = NotJSON
    BY <2>1, <2>2, <2>3, <2>4, NoiseIs
  <2>6. Faithful(x, v, z, "cut")
    BY <1>4, <2>5
  <2>7. Running(b, z, v, o)
    BY <2>3, CourseEnds
  <2>8. z \in Seq({l}) /\ l \in {l} /\ IsLed(w, l, z)
    BY <1>6, <2>1 DEF IsLed
  <2>9. Running(s, w, v, o)
    BY <2>2, <2>7, <2>8, CourseBefore
  <2> QED BY <2>6, <2>9 DEF OnCourse
<1> QED BY <1>5, <1>6

------------------------------------------------------------------------------
(* That is how an exchange is while its answer comes in.                   *)

\* Lines that name events have come, and lines of data, or are about to.
LooksLikeStream == {"event", "data"} \subseteq seen \cup {wire[i].kind : i \in DOMAIN wire}

\* What has been scanned, what the lines on the wire will add to it and what is still to be sent are
\* faithful to the answer; and a stream that names its events in lines looks like one, or has all of
\* them to send.
Kept ==
  outcome = Pending /\ exchange.form = "stream" /\ fault # "overlong" =>
    /\ OnCourse(exchange, todo, fault, scanner, wire, open)
    /\ ~ open => todo = << >>
    /\ HasLine(exchange.framing) /\ fault = "none" => todo = ScriptOf(exchange) \/ LooksLikeStream

\* A scanner with nothing gathered.
LEMMA NothingGathered ==
  ASSUME NEW s \in Scanners, s.eventType = "", s.data = << >>, ~ s.overlong
  PROVE  \E q, y : IsNothing(q, y) /\ s = At(q, y, s.events)
<1>1. PICK q : q = s.eventType
  OBVIOUS
<1>2. PICK y : y = s.data
  OBVIOUS
<1>3. PICK E : E = s.events
  OBVIOUS
<1> DEFINE N == Names
           D == Seq(Lines)
           H == Seq(Happenings)
<1>4. s \in [eventType : N, data : D, events : H, overlong : BOOLEAN]
  BY DEF Scanners
<1> HIDE DEF N, D, H
<1>5. s = [eventType |-> q, data |-> y, events |-> E, overlong |-> FALSE]
  BY <1>1, <1>2, <1>3, <1>4
<1>6. IsNothing(q, y)
  BY <1>1, <1>2 DEF IsNothing
<1> QED BY <1>3, <1>5, <1>6 DEF At

\* Where the provider may send, nothing is gathered and nothing is on its way.
LEMMA WhereItSends ==
  ASSUME Flow, Kept, Sending, fault # "overlong"
  PROVE  /\ exchange \in Exchanges /\ exchange.form = "stream"
         /\ Faithful(exchange, scanner.events, todo, fault)
         /\ \E q, y : IsNothing(q, y) /\ scanner = At(q, y, scanner.events)
         /\ HasLine(exchange.framing) /\ fault = "none" => todo = ScriptOf(exchange) \/ {"event", "data"} \subseteq seen
<1>1. /\ exchange.form # "json" /\ exchange \in Exchanges /\ outcome = Pending /\ wire = << >> /\ open
      /\ ~ scanner.overlong /\ Clean
  BY SendingIs
<1>2. exchange.form = "stream"
  BY <1>1, ExchangeIs
<1>3. /\ OnCourse(exchange, todo, fault, scanner, wire, open)
      /\ HasLine(exchange.framing) /\ fault = "none" => todo = ScriptOf(exchange) \/ LooksLikeStream
  BY <1>1, <1>2 DEF Kept
<1>4. scanner \in Scanners /\ scanner.eventType = "" /\ scanner.data = << >>
  BY <1>1 DEF Flow, Shape, Clean
<1>5. \E q, y : IsNothing(q, y) /\ scanner = At(q, y, scanner.events)
  BY <1>1, <1>4, NothingGathered
<1>6. PICK u : Faithful(exchange, u, todo, fault) /\ Running(scanner, wire, u, open)
  BY <1>3 DEF OnCourse
<1>7. u = scanner.events
  <2>1. Flushed(scanner) = u
    BY <1>1, <1>6, CourseEnds
  <2> QED BY <1>4, <2>1 DEF Flushed
<1>8. LooksLikeStream => {"event", "data"} \subseteq seen
  <2>1. {wire[i].kind : i \in DOMAIN wire} = {}
    BY <1>1
  <2> QED BY <2>1 DEF LooksLikeStream
<1> QED BY <1>1, <1>2, <1>3, <1>5, <1>6, <1>7, <1>8

\* What a line sent makes of it, whatever the line.
LEMMA KeptIf ==
  ASSUME Sending, UNCHANGED <<exchange, open, seen, scanner, outcome>>,
         fault' # "overlong" => OnCourse(exchange, todo', fault', scanner, wire', open),
         HasLine(exchange.framing) /\ fault' = "none" =>
           \/ todo' = ScriptOf(exchange) \/ {"event", "data"} \subseteq seen
           \/ \E i, j \in DOMAIN wire' : wire'[i].kind = "event" /\ wire'[j].kind = "data"
  PROVE  Kept'
<1>1. open
  BY DEF Sending
<1>2. ASSUME {"event", "data"} \subseteq seen \/ \E i, j \in DOMAIN wire' : wire'[i].kind = "event" /\ wire'[j].kind = "data"
      PROVE  LooksLikeStream'
  BY <1>2 DEF LooksLikeStream
<1>3. exchange' = exchange /\ open' = open /\ scanner' = scanner /\ seen' = seen
  OBVIOUS
<1>4. fault' # "overlong" => OnCourse(exchange', todo', fault', scanner', wire', open')
  BY <1>3
<1>5. HasLine(exchange'.framing) /\ fault' = "none" => todo' = ScriptOf(exchange') \/ LooksLikeStream'
  BY <1>2, <1>3
<1>6. open'
  BY <1>1, <1>3
<1> QED BY <1>4, <1>5, <1>6 DEF Kept

\* In a frame that has a line for the name there is one of data as well.
LEMMA FrameKinds ==
  ASSUME NEW fr, HasLine(fr), NEW m, NEW k, NEW w, InFrame(w, fr, m, k)
  PROVE  \E i, j \in DOMAIN w : w[i].kind = "event" /\ w[j].kind = "data"
<1>1. PICK z : z = <<Blank>>
  OBVIOUS
<1>2. PICK Y : /\ z \in Seq(Y) /\ EventLine(m.type) \in Y
               /\ \E v \in Seq(Y) : HasData(v, k, z) /\ Frames(w, fr, m, v)
  BY <1>1, InFrameIs
<1>3. PICK v \in Seq(Y) : HasData(v, k, z) /\ Frames(w, fr, m, v)
  BY <1>2
<1>4. PICK l : l = EventLine(m.type)
  OBVIOUS
<1>5. IsLed(w, l, v) /\ l.kind = "event"
  BY <1>3, <1>4 DEF Frames, EventLine, Line
<1>6. PICK d, x : d.kind = "data" /\ IsLed(v, d, x) /\ (\E Z : x \in Seq(Z))
  <2>1. \A h : Data(h, k).kind = "data"
    BY DEF Data, Line
  <2>2. CASE \E d : d = Data("all", k) /\ IsLed(v, d, z)
    BY <1>2, <2>1, <2>2
  <2>3. CASE \E c, d, x : c = Data("first", k) /\ d = Data("second", k) /\ IsLed(x, d, z) /\ IsLed(v, c, x)
    <3>1. PICK c, d, x : c = Data("first", k) /\ d = Data("second", k) /\ IsLed(x, d, z) /\ IsLed(v, c, x)
      BY <2>3
    <3>2. PICK Z : Z = {d, Blank}
      OBVIOUS
    <3>3. z \in Seq(Z) /\ d \in Z
      BY <1>1, <3>2
    <3>4. x \in Seq(Z)
      BY <3>1, <3>3, Leading
    <3>5. c.kind = "data"
      BY <2>1, <3>1
    <3> QED BY <3>1, <3>4, <3>5
  <2> QED BY <1>3, <2>2, <2>3 DEF HasData
<1>7. Len(v) \in Nat /\ Len(v) >= 1 /\ v[1] = d
  <2>1. PICK Z : x \in Seq(Z)
    BY <1>6
  <2>2. v = <<d>> \o x
    BY <1>6 DEF IsLed
  <2>3. v[1] = d
    BY <2>1, <2>2
  <2>4. Len(v) = 1 + Len(x) /\ Len(x) \in Nat
    BY <2>1, <2>2
  <2> QED BY <2>3, <2>4
<1>8. w = <<l>> \o v
  BY <1>5 DEF IsLed
<1>9. w[1] = l /\ w[2] = d /\ DOMAIN w = 1..(1 + Len(v))
  BY <1>7, <1>8
<1>10. 1 \in DOMAIN w /\ 2 \in DOMAIN w
  BY <1>7, <1>9
<1> QED BY <1>5, <1>6, <1>9, <1>10

\* An event with text.
LEMMA SendEventIsKept ==
  ASSUME Flow, Kept, SendEvent
  PROVE  Kept'
<1>1. PICK m : m = Head(todo)
  OBVIOUS
<1>2. /\ Sending /\ todo # << >> /\ fault' = fault /\ IsRest(todo', todo) /\ UNCHANGED <<exchange, open, seen, scanner, outcome>>
      /\ wire' = Framed(m, <<Data("all", m)>>) \/ wire' = Framed(m, <<Data("first", m), Data("second", m)>>)
  BY <1>1 DEF SendEvent, Send, IsRest
<1>3. InFrame(wire', exchange.framing, m, m)
  BY <1>2 DEF Framed, InFrame
<1>4. fault' # "overlong" => OnCourse(exchange, todo', fault', scanner, wire', open)
  <2> SUFFICES ASSUME fault' # "overlong"
               PROVE  OnCourse(exchange, todo', fault', scanner, wire', open)
    OBVIOUS
  <2>1. /\ exchange \in Exchanges /\ exchange.form = "stream"
        /\ Faithful(exchange, scanner.events, todo, fault)
    BY <1>2, WhereItSends
  <2>2. PICK q, y : IsNothing(q, y) /\ scanner = At(q, y, scanner.events)
    BY <1>2, WhereItSends
  <2>3. OnCourse(exchange, todo', fault, scanner, wire', open)
    BY <1>1, <1>2, <1>3, <2>1, <2>2, SentMessage
  <2> QED BY <1>2, <2>3
<1>5. HasLine(exchange.framing) => \E i, j \in DOMAIN wire' : wire'[i].kind = "event" /\ wire'[j].kind = "data"
  BY <1>3, FrameKinds
<1> QED BY <1>2, <1>4, <1>5, KeptIf

\* A comment, a blank line, or a thought.
LEMMA SendOtherIsKept ==
  ASSUME Flow, Kept, SendOther
  PROVE  Kept'
<1>1. PICK m : m = Message("reasoning", Named(exchange.framing), << <<Thought>> >>)
  OBVIOUS
<1>2. m \in Messages /\ m.type = "reasoning"
  <2>1. << <<Thought>> >> \in Seq(Seq({Thought})) /\ Named(exchange.framing) \in BOOLEAN
    BY DEF Named
  <2> QED BY <1>1, <2>1 DEF Message, OtherMessages, Messages
<1>3. /\ Sending /\ fault' = fault /\ todo' = todo /\ UNCHANGED <<exchange, open, seen, scanner, outcome>>
      /\ \/ wire' = <<Comment>>
         \/ wire' = <<Blank>>
         \/ wire' = Framed(m, <<Data("all", m)>>)
  BY <1>1 DEF SendOther, Send
<1>4. fault # "overlong" => OnCourse(exchange, todo, fault, scanner, wire', open)
  <2> SUFFICES ASSUME fault # "overlong"
               PROVE  OnCourse(exchange, todo, fault, scanner, wire', open)
    OBVIOUS
  <2>1. /\ exchange \in Exchanges /\ exchange.form = "stream"
        /\ Faithful(exchange, scanner.events, todo, fault)
    BY <1>3, WhereItSends
  <2>2. PICK q, y : IsNothing(q, y) /\ scanner = At(q, y, scanner.events)
    BY <1>3, WhereItSends
  <2>3. CASE wire' = <<Comment>> \/ wire' = <<Blank>>
    BY <2>1, <2>2, <2>3, SentNothing
  <2>4. CASE wire' = Framed(m, <<Data("all", m)>>)
    <3>1. PICK fr : fr = exchange.framing
      OBVIOUS
    <3>2. InFrame(wire', fr, m, m)
      BY <2>4, <3>1 DEF Framed, InFrame
    <3> QED BY <1>2, <2>1, <2>2, <3>2, SentInSilence
  <2> QED BY <1>3, <2>3, <2>4
<1>5. HasLine(exchange.framing) /\ fault = "none" => todo = ScriptOf(exchange) \/ {"event", "data"} \subseteq seen
  BY <1>3, WhereItSends
<1> QED BY <1>3, <1>4, <1>5, KeptIf

\* The marker at the end.
LEMMA SendDoneIsKept ==
  ASSUME Flow, Kept, SendDone
  PROVE  Kept'
<1>1. /\ Sending /\ fault' = fault /\ todo' = todo /\ UNCHANGED <<exchange, open, seen, scanner, outcome>>
      /\ wire' = <<DoneLine, Blank>>
  BY DEF SendDone, Send
<1>2. fault # "overlong" => OnCourse(exchange, todo, fault, scanner, wire', open)
  <2> SUFFICES ASSUME fault # "overlong"
               PROVE  OnCourse(exchange, todo, fault, scanner, wire', open)
    OBVIOUS
  <2>1. exchange \in Exchanges /\ Faithful(exchange, scanner.events, todo, fault)
    BY <1>1, WhereItSends
  <2>2. PICK q, y : IsNothing(q, y) /\ scanner = At(q, y, scanner.events)
    BY <1>1, WhereItSends
  <2> QED BY <1>1, <2>1, <2>2, SentDone
<1>3. HasLine(exchange.framing) /\ fault = "none" => todo = ScriptOf(exchange) \/ {"event", "data"} \subseteq seen
  BY <1>1, WhereItSends
<1> QED BY <1>1, <1>2, <1>3, KeptIf

\* An event lost in noise, or too long.
LEMMA SendFaultyIsKept ==
  ASSUME Flow, Kept, SendFaulty
  PROVE  Kept'
<1>1. PICK m : m = Head(todo)
  OBVIOUS
<1>2. /\ Sending /\ todo # << >> /\ fault = "none" /\ IsRest(todo', todo) /\ UNCHANGED <<exchange, open, seen, scanner, outcome>>
      /\ \/ fault' = "garbled" /\ wire' = Framed(m, <<Garbage>>)
         \/ fault' = "overlong"
  BY <1>1 DEF SendFaulty, Send, IsRest
<1>3. m \in Messages
  <2>1. todo \in Seq(TextMessages)
    BY DEF Flow, Shape
  <2>2. m \in TextMessages
    BY <1>1, <1>2, <2>1, Rest
  <2> QED BY <2>2 DEF Messages
<1>4. fault' # "overlong" => OnCourse(exchange, todo', fault', scanner, wire', open)
  <2> SUFFICES ASSUME fault' # "overlong"
               PROVE  OnCourse(exchange, todo', fault', scanner, wire', open)
    OBVIOUS
  <2>1. exchange \in Exchanges /\ Faithful(exchange, scanner.events, todo, "none")
    BY <1>2, WhereItSends
  <2>2. PICK q, y : IsNothing(q, y) /\ scanner = At(q, y, scanner.events)
    BY <1>2, WhereItSends
  <2>3. PICK fr, k : fr = exchange.framing /\ k = NotJSON
    OBVIOUS
  <2>4. InFrame(wire', fr, m, k)
    BY <1>2, <2>3 DEF Framed, InFrame, Garbage
  <2>5. Faithful(exchange, scanner.events, todo', fault')
    BY <1>2, <2>1, Loses
  <2> QED BY <1>3, <2>1, <2>2, <2>3, <2>4, <2>5, SentInSilence
<1>5. fault' # "none"
  BY <1>2
<1> QED BY <1>2, <1>4, <1>5, KeptIf

\* The event of an error.
LEMMA SendErrorIsKept ==
  ASSUME Flow, Kept, SendError
  PROVE  Kept'
<1>0. PICK m : m = Message("error", Named(exchange.framing), << >>)
  OBVIOUS
<1>1. m \in Messages /\ m.type = "error"
  <2>1. << >> \in Seq(Seq({Thought})) /\ Named(exchange.framing) \in BOOLEAN
    BY DEF Named
  <2> QED BY <1>0, <2>1, MessageIs DEF Messages
<1>2. /\ Sending /\ fault = "none" /\ fault' = "error" /\ todo' = << >> /\ UNCHANGED <<exchange, open, seen, scanner, outcome>>
      /\ wire' = Framed(m, <<Data("all", m)>>)
  BY <1>0 DEF SendError, Send
<1>3. OnCourse(exchange, todo', fault', scanner, wire', open)
  <2>1. exchange \in Exchanges /\ Faithful(exchange, scanner.events, todo, "none")
    BY <1>2, WhereItSends
  <2>2. PICK q, y : IsNothing(q, y) /\ scanner = At(q, y, scanner.events)
    BY <1>2, WhereItSends
  <2>3. PICK fr : fr = exchange.framing
    OBVIOUS
  <2>4. InFrame(wire', fr, m, m)
    BY <1>2, <2>3 DEF Framed, InFrame
  <2>5. fault' \notin {"none", "garbled"}
    BY <1>2
  <2>6. Faithful(exchange, scanner.events, todo', fault')
    BY <1>2, <2>1, <2>5, Stops
  <2> QED BY <1>1, <2>1, <2>2, <2>4, <2>6, SentInSilence
<1>4. fault' # "none"
  BY <1>2
<1> QED BY <1>2, <1>3, <1>4, KeptIf

\* A line is scanned.
LEMMA ScanIsKept ==
  ASSUME Flow, Kept, Scan
  PROVE  Kept'
<1>1. PICK l : l = Head(wire)
  OBVIOUS
<1>2. /\ wire # << >> /\ outcome = Pending /\ UNCHANGED <<exchange, open, todo, fault, outcome>>
      /\ scanner' = ScanLine(scanner, l) /\ IsRest(wire', wire)
      /\ seen' = seen \cup {IF l.kind = "overlong" THEN "data" ELSE l.kind}
  BY <1>1 DEF Scan, IsRest
<1> SUFFICES ASSUME exchange.form = "stream", fault # "overlong"
             PROVE  /\ OnCourse(exchange', todo', fault', scanner', wire', open')
                    /\ ~ open' => todo' = << >>
                    /\ HasLine(exchange'.framing) /\ fault' = "none" => todo' = ScriptOf(exchange') \/ LooksLikeStream'
  BY <1>2 DEF Kept
<1>3. /\ OnCourse(exchange, todo, fault, scanner, wire, open)
      /\ ~ open => todo = << >>
      /\ HasLine(exchange.framing) /\ fault = "none" => todo = ScriptOf(exchange) \/ LooksLikeStream
  BY <1>2 DEF Kept
<1>4. wire \in Seq(Lines)
  BY DEF Flow, Shape
<1>5. PICK u : Faithful(exchange, u, todo, fault) /\ Running(scanner, wire, u, open)
  BY <1>3 DEF OnCourse
<1>6. Running(scanner', wire', u, open)
  BY <1>1, <1>2, <1>4, <1>5, CourseOn
<1>7. OnCourse(exchange, todo, fault, scanner', wire', open)
  BY <1>5, <1>6 DEF OnCourse
<1>8. /\ l = wire[1] /\ Len(wire') \in Nat /\ Len(wire) = Len(wire') + 1
      /\ wire' \in Seq(Lines)
      /\ \A i \in 1..Len(wire') : wire'[i] = wire[i + 1]
  BY <1>1, <1>2, <1>4, Rest
<1>9. l.kind # "overlong"
  <2>1. \A i \in DOMAIN wire : wire[i].kind = "overlong" => fault = "overlong"
    BY DEF Flow, OverlongIsTold
  <2>2. 1 \in DOMAIN wire
    BY <1>4, <1>8
  <2> QED BY <1>8, <2>1, <2>2
<1>10. ASSUME NEW i \in DOMAIN wire
       PROVE  wire[i].kind \in seen' \cup {wire'[j].kind : j \in DOMAIN wire'}
  <2>1. i \in 1..(Len(wire') + 1) /\ DOMAIN wire' = 1..Len(wire')
    BY <1>4, <1>8, <1>10
  <2>2. CASE i = 1
    BY <1>2, <1>8, <1>9, <2>2
  <2>3. CASE i # 1
    <3>1. i - 1 \in 1..Len(wire') /\ i = (i - 1) + 1
      BY <1>8, <2>1, <2>3
    <3>2. wire'[i - 1] = wire[i]
      BY <1>8, <3>1
    <3> QED BY <2>1, <3>1, <3>2
  <2> QED BY <2>2, <2>3
<1>11. LooksLikeStream => LooksLikeStream'
  <2>1. seen \subseteq seen'
    BY <1>2
  <2>2. seen \cup {wire[i].kind : i \in DOMAIN wire} \subseteq seen' \cup {wire'[i].kind : i \in DOMAIN wire'}
    BY <1>10, <2>1
  <2> QED BY <2>2 DEF LooksLikeStream
<1>12. exchange' = exchange /\ open' = open /\ todo' = todo /\ fault' = fault
  BY <1>2
<1> QED BY <1>3, <1>7, <1>11, <1>12

\* Where all has been sent, at most a blank line is on its way, and it adds nothing.
LEMMA AllIsIn ==
  ASSUME NEW s \in Scanners, ~ s.overlong, NEW w, w \in {<< >>, <<Blank>>}, NEW u, NEW o, Running(s, w, u, o)
  PROVE  u = Flushed(s)
<1>1. CASE w = << >>
  BY <1>1, CourseEnds
<1>2. CASE w = <<Blank>>
  <2>1. PICK l, z : l = Blank /\ z = << >>
    OBVIOUS
  <2>2. w \in Seq({l}) /\ w # << >> /\ Head(w) = l /\ IsRest(z, w)
    BY <1>2, <2>1 DEF IsRest
  <2>3. PICK t : t = ScanLine(s, l)
    OBVIOUS
  <2>4. Running(t, z, u, o)
    BY <2>2, <2>3, CourseOn
  <2>5. Flushed(t) = u
    BY <2>1, <2>4, CourseEnds
  <2>6. l.kind = "blank"
    BY <2>1 DEF Blank, Line
  <2>7. t.data = << >> /\ t.events = Flushed(s)
    <3>1. IsScanned(t, s, l)
      BY <2>3, Scanned
    <3> QED BY <2>6, <3>1 DEF IsScanned
  <2> QED BY <2>5, <2>7 DEF Flushed
<1> QED BY <1>1, <1>2

\* The provider closes its stream.
LEMMA CloseIsKept ==
  ASSUME Flow, Kept, Close
  PROVE  Kept'
<1> DEFINE whole == todo = << >> /\ wire \in {<< >>, <<Blank>>}
<1>1. /\ open /\ open' = FALSE /\ outcome = Pending /\ todo' = << >> /\ UNCHANGED <<exchange, seen, scanner, outcome>>
      /\ fault # "none" => whole
      /\ fault' = IF whole THEN fault ELSE "cut"
      /\ wire' \in {<< >>, <<Garbage>>}
      /\ wire' # << >> => wire # << >> /\ Head(wire).kind = "data"
  BY DEF Close
<1> SUFFICES ASSUME exchange.form = "stream", fault' # "overlong"
             PROVE  /\ OnCourse(exchange, todo', fault', scanner, wire', open')
                    /\ HasLine(exchange.framing) /\ fault' = "none" => todo' = ScriptOf(exchange) \/ LooksLikeStream'
  BY <1>1 DEF Kept
<1>2. fault # "overlong"
  BY <1>1
<1>3. /\ OnCourse(exchange, todo, fault, scanner, wire, open)
      /\ HasLine(exchange.framing) /\ fault = "none" => todo = ScriptOf(exchange) \/ LooksLikeStream
  BY <1>1, <1>2 DEF Kept
<1>4. scanner \in Scanners /\ ~ scanner.overlong /\ exchange \in Exchanges
  <2>1. Pending # Unasked
    BY DEF Pending, Unasked, Fails, Returns, Error
  <2> QED BY <1>1, <1>2, <2>1 DEF Flow, Shape, OverlongIsTold
<1>5. PICK u : Faithful(exchange, u, todo, fault) /\ Running(scanner, wire, u, open)
  BY <1>3 DEF OnCourse
<1>6. CASE whole
  <2>1. u = Flushed(scanner)
    BY <1>4, <1>5, <1>6, AllIsIn
  <2>2. wire' = << >>
    <3>1. Blank.kind # "data"
      BY DEF Blank, Line
    <3>2. wire # << >> => Head(wire) = Blank
      BY <1>6
    <3> QED BY <1>1, <3>1, <3>2
  <2>3. Running(scanner, wire', u, open')
    BY <1>1, <2>1, <2>2, CourseEnds
  <2>4. fault' = fault /\ todo' = todo
    BY <1>1, <1>6
  <2>5. OnCourse(exchange, todo', fault', scanner, wire', open')
    BY <1>5, <2>3, <2>4 DEF OnCourse
  <2>6. LooksLikeStream => {"event", "data"} \subseteq seen
    <3>1. \A i \in DOMAIN wire : wire[i].kind = "blank"
      <4>1. Blank.kind = "blank"
        BY DEF Blank, Line
      <4>2. CASE wire = << >>
        BY <4>2
      <4>3. CASE wire = <<Blank>>
        BY <4>1, <4>3
      <4> QED BY <1>6, <4>2, <4>3
    <3> QED BY <3>1 DEF LooksLikeStream
  <2>7. LooksLikeStream => LooksLikeStream'
    <3>1. seen' = seen
      BY <1>1
    <3> QED BY <2>6, <3>1 DEF LooksLikeStream
  <2> QED BY <1>3, <2>4, <2>5, <2>7
<1>7. CASE ~ whole
  <2>1. fault = "none" /\ fault' = "cut"
    BY <1>1, <1>7
  <2>2. Prospect(scanner, u)
    <3>1. CASE wire = << >>
      BY <1>1, <1>5, <3>1, CourseEnds
    <3>2. CASE wire # << >>
      <4>1. wire \in Seq(Lines)
        BY DEF Flow, Shape
      <4>2. PICK v, t : IsRest(v, wire) /\ t = ScanLine(scanner, Head(wire))
        BY DEF IsRest
      <4> QED BY <1>1, <1>5, <3>2, <4>1, <4>2, CourseOn
    <3> QED BY <3>1, <3>2
  <2>3. PICK z : z = << >>
    OBVIOUS
  <2>4. Faithful(exchange, u, todo, "none")
    BY <1>5, <2>1
  <2>5. PICK w : w = wire'
    OBVIOUS
  <2>6. PICK o : o = open'
    OBVIOUS
  <2>7. (w = << >> \/ w = <<Garbage>>) /\ o = FALSE
    BY <1>1, <2>5, <2>6
  <2>8. OnCourse(exchange, z, "cut", scanner, w, o)
    BY <1>4, <2>2, <2>3, <2>4, <2>7, CutIs
  <2>9. OnCourse(exchange, todo', fault', scanner, wire', open')
    BY <1>1, <2>1, <2>3, <2>5, <2>6, <2>8
  <2> QED BY <2>1, <2>9
<1> QED BY <1>6, <1>7

\* At first all of it is still to be sent.
LEMMA AcceptIsKept ==
  ASSUME Flow, NEW llm, NEW stream, Accept(llm, stream)
  PROVE  Kept'
<1>1. PICK x \in Exchanges : x = exchange'
  BY DEF Accept
<1>2. /\ outcome = Unasked /\ UNCHANGED <<fault, wire, seen, scanner>>
      /\ open' = (x.form = "stream") /\ todo' = ScriptOf(x)
  BY <1>1 DEF Accept, ScriptOf
<1>3. fault = "none" /\ wire = << >> /\ scanner = NoScanner
  BY <1>2 DEF Flow, Shape
<1> SUFFICES ASSUME x.form = "stream"
             PROVE  OnCourse(x, todo', fault', scanner', wire', open')
  BY <1>1, <1>2 DEF Kept
<1>4. PICK u : u = << >>
  OBVIOUS
<1>5. Faithful(x, u, todo', "none")
  BY <1>2, <1>4, Starts
<1>6. NoScanner.events = << >> /\ NoScanner.data = << >>
  BY DEF NoScanner
<1>7. Flushed(scanner') = u /\ scanner'.events = u
  BY <1>2, <1>3, <1>4, <1>6 DEF Flushed
<1>8. Prospect(scanner', u)
  BY <1>7 DEF Prospect
<1>9. wire' = << >>
  BY <1>2, <1>3
<1>10. Running(scanner', wire', u, open')
  BY <1>7, <1>8, <1>9, CourseEnds
<1>11. fault' = "none"
  BY <1>2, <1>3
<1> QED BY <1>5, <1>10, <1>11 DEF OnCourse

------------------------------------------------------------------------------
(* What comes of it at the end.                                            *)

\* What TextIsFaithful says of one outcome.
TellsTruly(x, why, o) ==
  /\ why # "garbled" => IsPrefix(o.text, Flat(x.answer))
  /\ why = "garbled" => LacksAStretch(o.text, Flat(x.answer))
  /\ o.error = NoError /\ o.deltas # << >> => Flat(o.deltas) = o.text

AsWasAsked(x) == x.form = (IF x.stream THEN "stream" ELSE "json")
IsKnown(x)    == x.declared \/ x.form = "json" \/ Family(x.llm) = "cloud" \/ (HasLine(x.framing) /\ Flat(x.answer) # << >>)

\* What WholeAnswerGivesWholeText says of it.
TellsAll(x, why, o) ==
  AsWasAsked(x) /\ IsKnown(x) /\ why = "none" =>
    IF Expected(x) = << >> /\ Family(x.llm) = "cloud" THEN o.error = EmptyAnswer
    ELSE o.error = NoError /\ o.text = Expected(x)

\* They say just that.
LEMMA TellsTrulyIs == TextIsFaithful <=> (Done => TellsTruly(exchange, fault, outcome))
BY DEF TextIsFaithful, TellsTruly, Succeeds, Told

LEMMA TellsAllIs == WholeAnswerGivesWholeText <=> (Done => TellsAll(exchange, fault, outcome))
<1> DEFINE e == IF exchange.llm # "openai" \/ "delta" \in exchange.carriers THEN Told ELSE FirstText(exchange.answer)
<1>1. e = Expected(exchange)
  BY DEF Expected, CarriesDeltas, Told
<1>2. exchange.form = (IF exchange.stream THEN "stream" ELSE "json") <=> AsWasAsked(exchange)
  BY DEF AsWasAsked
<1>3. Recognisable <=> IsKnown(exchange)
  BY DEF Recognisable, IsKnown, Told
<1>4. WholeAnswerGivesWholeText <=>
        (Done /\ AsWasAsked(exchange) /\ IsKnown(exchange) /\ fault = "none" =>
           IF e = << >> /\ Family(exchange.llm) = "cloud" THEN outcome.error = EmptyAnswer
           ELSE outcome.error = NoError /\ outcome.text = e)
  BY <1>2, <1>3 DEF WholeAnswerGivesWholeText
<1> HIDE DEF e
<1> QED BY <1>1, <1>4 DEF TellsAll

\* An outcome without a text tells nothing that is not true.
LEMMA NothingToldIsTrue ==
  ASSUME NEW x \in Exchanges, NEW why, NEW o, o.text = << >>, o.error # NoError \/ o.deltas = << >>
  PROVE  TellsTruly(x, why, o)
<1>1. Flat(x.answer) \in Seq(Pieces)
  BY ExchangeIs, FlatType
<1>2. PICK z : z = o.text
  OBVIOUS
<1>3. IsPrefix(z, Flat(x.answer)) /\ LacksAStretch(z, Flat(x.answer))
  BY <1>1, <1>2, NoTextIs
<1> QED BY <1>2, <1>3 DEF TellsTruly

\* The same of one that is all of the answer.
LEMMA AllToldIsTrue ==
  ASSUME NEW x \in Exchanges, NEW o, o.text = Flat(x.answer), o.error = NoError /\ o.deltas # << >> => Flat(o.deltas) = o.text
  PROVE  TellsTruly(x, "none", o)
<1>1. Flat(x.answer) \in Seq(Pieces)
  BY ExchangeIs, FlatType
<1>2. PICK z \in Seq(Pieces) : z = << >>
  BY EmptySeq
<1>3. IsJoined(o.text, o.text, z)
  BY <1>1, <1>2, JoiningNothing
<1>4. IsPrefix(o.text, Flat(x.answer))
  BY <1>1, <1>2, <1>3, WhatBegins
<1> QED BY <1>4 DEF TellsTruly

\* At the end of a stream that could be read the events are all there is.
LEMMA AllIsRead ==
  ASSUME Flow, Kept, ~ open, wire = << >>, outcome = Pending, exchange.form = "stream", ~ scanner.overlong
  PROVE  /\ Faithful(exchange, Events, todo, fault) /\ todo = << >> /\ fault # "overlong" /\ exchange \in Exchanges
         /\ HasLine(exchange.framing) /\ fault = "none" => todo = ScriptOf(exchange) \/ {"event", "data"} \subseteq seen
<1>1. fault # "overlong" /\ exchange \in Exchanges
  <2>1. \A l : ~ Ahead(l)
    <3>1. Len(wire) = 0
      OBVIOUS
    <3> QED BY <3>1, LongIsAhead
  <2>2. Pending # Unasked
    BY DEF Pending, Unasked, Fails, Returns, Error
  <2> QED BY <2>1, <2>2 DEF Flow, OverlongIsTold, Shape
<1>2. /\ OnCourse(exchange, todo, fault, scanner, wire, open) /\ todo = << >>
      /\ HasLine(exchange.framing) /\ fault = "none" => todo = ScriptOf(exchange) \/ LooksLikeStream
  BY <1>1 DEF Kept
<1>3. PICK u : Faithful(exchange, u, todo, fault) /\ Running(scanner, wire, u, open)
  BY <1>2 DEF OnCourse
<1>4. u = Events
  BY <1>3, CourseEnds DEF Events
<1>5. {wire[i].kind : i \in DOMAIN wire} = {}
  OBVIOUS
<1>6. LooksLikeStream => {"event", "data"} \subseteq seen
  BY <1>5 DEF LooksLikeStream
<1> QED BY <1>1, <1>2, <1>3, <1>4, <1>6

\* A stream of codex or LM Studio that is not taken for one is not known as one, or did not come whole.
LEMMA KnownIsTaken ==
  ASSUME Flow, Kept, ~ open, wire = << >>, outcome = Pending, exchange.form = "stream", ~ scanner.overlong,
         fault = "none", Family(exchange.llm) # "cloud", IsKnown(exchange)
  PROVE  TakenForStream
<1>1. /\ todo = << >> /\ exchange \in Exchanges
      /\ HasLine(exchange.framing) => todo = ScriptOf(exchange) \/ {"event", "data"} \subseteq seen
  BY AllIsRead
<1>2. CASE exchange.declared
  BY <1>2 DEF TakenForStream
<1>3. CASE HasLine(exchange.framing) /\ Flat(exchange.answer) # << >>
  <2>1. todo # ScriptOf(exchange)
    BY <1>1, <1>3, ScriptCarries
  <2>2. {"event", "data"} \subseteq seen
    BY <1>1, <1>3, <2>1
  <2> QED BY <2>2 DEF TakenForStream
<1>4. exchange.declared \/ (HasLine(exchange.framing) /\ Flat(exchange.answer) # << >>)
  <2>1. exchange.form # "json"
    OBVIOUS
  <2> QED BY <2>1 DEF IsKnown
<1> QED BY <1>2, <1>3, <1>4

\* An outcome that is made of the events tells what they tell.
LEMMA EventsTellTruly ==
  ASSUME NEW x \in Exchanges, NEW u, NEW t, NEW why, Faithful(x, u, t, why), t = << >>,
         NEW o, o.text = TextFrom(x, u), o.error = NoError /\ o.deltas # << >> => Flat(o.deltas) = o.text
  PROVE  TellsTruly(x, why, o) /\ (why = "none" => o.text = Expected(x))
<1>1. /\ why # "garbled" => IsPrefix(TextFrom(x, u), Flat(x.answer))
      /\ why = "garbled" => LacksAStretch(TextFrom(x, u), Flat(x.answer))
  BY TextIs
<1>2. TellsTruly(x, why, o)
  BY <1>1 DEF TellsTruly
<1>3. why = "none" => TextFrom(x, u) = Expected(x)
  BY WholeTextIs
<1> QED BY <1>2, <1>3

\* The end of an answer of codex.
LEMMA CodexTells ==
  ASSUME Flow, Kept, Unbroken, ~ open, wire = << >>, outcome = Pending, exchange \in Exchanges, exchange.llm = "openai",
         NEW o, o = IF TakenForStream THEN StreamOutcome ELSE JSONOutcome
  PROVE  TellsTruly(exchange, fault, o) /\ TellsAll(exchange, fault, o)
<1>1. /\ exchange.form \in {"stream", "json"} /\ exchange.answer \in Seq(Seq(Pieces)) /\ exchange.stream
      /\ fault = "overlong" <=> scanner.overlong
      /\ exchange.form = "json" => fault = "none"
  <2>1. \A l : ~ Ahead(l)
    <3>1. Len(wire) = 0
      OBVIOUS
    <3> QED BY <3>1, LongIsAhead
  <2> QED BY <2>1, ExchangeIs DEF Unbroken, Flow, OverlongIsTold, Shape, Scanners
<1>2. Family(exchange.llm) = "openai"
  BY DEF Family
<1>3. TakenForStream \in BOOLEAN /\ (TakenForStream => exchange.form = "stream")
  BY <1>2, ExchangeIs DEF TakenForStream
<1>3a. exchange.form = "json" => ~ AsWasAsked(exchange)
  BY <1>1 DEF AsWasAsked
<1>4. CASE TakenForStream /\ scanner.overlong
  <2>1. o = Fails(BadAnswer("openai"))
    BY <1>2, <1>4 DEF StreamOutcome
  <2>2. o.text = << >> /\ o.deltas = << >>
    BY <2>1 DEF Fails, Returns
  <2>3. fault # "none"
    BY <1>1, <1>4
  <2>4. TellsTruly(exchange, fault, o)
    BY <2>2, NothingToldIsTrue
  <2> QED BY <2>3, <2>4 DEF TellsAll
<1>5. CASE TakenForStream /\ ~ scanner.overlong
  <2>1. PICK u : u = Events
    OBVIOUS
  <2>2. PICK t, d : t = CollectOutputText(u) /\ d = Deltas(exchange.llm, u)
    OBVIOUS
  <2>3. d = TextOfEach(Payloads(u, "delta"))
    BY <2>2, DeltasAre
  <2>4. o = Returns(NoError, t, d)
    BY <1>2, <1>5, <2>1, <2>2, <2>3 DEF StreamOutcome
  <2>5. o.error = NoError /\ o.text = t /\ o.deltas = d
    BY <2>4 DEF Returns
  <2>6. Faithful(exchange, u, todo, fault) /\ todo = << >>
    BY <1>3, <1>5, <2>1, AllIsRead
  <2>7. t = TextFrom(exchange, u)
    BY <2>2 DEF TextFrom
  <2>8. o.deltas # << >> => Flat(o.deltas) = o.text
    <3>1. AllSay(exchange, u)
      BY <2>6 DEF Faithful
    <3> QED BY <2>2, <2>5, <2>7, <3>1, TextOfDeltas
  <2>9. o.text = TextFrom(exchange, u)
    BY <2>5, <2>7
  <2>10. TellsTruly(exchange, fault, o) /\ (fault = "none" => o.text = Expected(exchange))
    BY <2>6, <2>8, <2>9, EventsTellTruly
  <2> QED BY <1>2, <2>5, <2>10 DEF TellsAll
<1>6. CASE ~ TakenForStream /\ exchange.form = "stream"
  <2>1. o.error = NoError /\ o.text = << >> /\ o.deltas = << >>
    BY <1>6 DEF JSONOutcome, Returns
  <2>2. TellsTruly(exchange, fault, o)
    BY <2>1, NothingToldIsTrue
  <2>3. ~ (IsKnown(exchange) /\ fault = "none")
    BY <1>1, <1>2, <1>6, KnownIsTaken
  <2> QED BY <2>2, <2>3 DEF TellsAll
<1>7. CASE ~ TakenForStream /\ exchange.form = "json"
  <2>1. PICK t : t = FirstText(exchange.answer)
    OBVIOUS
  <2>2. o = Returns(NoError, t, << >>)
    BY <1>2, <1>7, <2>1 DEF JSONOutcome
  <2>3. o.text = t /\ o.deltas = << >>
    BY <2>2 DEF Returns
  <2>4. IsPrefix(t, Flat(exchange.answer))
    <3>1. PICK r \in Seq(Pieces) : IsJoined(Flat(exchange.answer), t, r)
      BY <1>1, <2>1, FirstTextIsFirst
    <3>2. t \in Seq(Pieces)
      BY <1>1, <2>1, FirstTextType
    <3> QED BY <3>1, <3>2, WhatBegins
  <2>5. TellsTruly(exchange, fault, o)
    BY <1>1, <1>7, <2>3, <2>4 DEF TellsTruly
  <2> QED BY <1>3a, <1>7, <2>5 DEF TellsAll
<1> QED BY <1>1, <1>3, <1>4, <1>5, <1>6, <1>7

\* The end of an answer of LM Studio.
LEMMA LMStudioTells ==
  ASSUME Flow, Kept, Unbroken, ~ open, wire = << >>, outcome = Pending, exchange \in Exchanges, exchange.llm = "lmstudio",
         NEW o, o = IF TakenForStream THEN StreamOutcome ELSE JSONOutcome
  PROVE  TellsTruly(exchange, fault, o) /\ TellsAll(exchange, fault, o)
<1>1. /\ exchange.form \in {"stream", "json"} /\ exchange.answer \in Seq(Seq(Pieces))
      /\ fault = "overlong" <=> scanner.overlong
      /\ exchange.form = "json" => fault = "none"
  <2>1. \A l : ~ Ahead(l)
    <3>1. Len(wire) = 0
      OBVIOUS
    <3> QED BY <3>1, LongIsAhead
  <2> QED BY <2>1, ExchangeIs DEF Unbroken, Flow, OverlongIsTold, Shape, Scanners
<1>2. Family(exchange.llm) = "lmstudio" /\ Chats(exchange.llm) /\ exchange.llm # "openai"
  BY DEF Family, Chats
<1>3. TakenForStream \in BOOLEAN /\ (TakenForStream => exchange.form = "stream")
  BY <1>2, ExchangeIs DEF TakenForStream
<1>4. CASE TakenForStream /\ scanner.overlong
  <2>1. o = Fails(BadAnswer("openai"))
    BY <1>2, <1>4 DEF StreamOutcome
  <2>2. o.text = << >> /\ o.deltas = << >>
    BY <2>1 DEF Fails, Returns
  <2>3. fault # "none"
    BY <1>1, <1>4
  <2>4. TellsTruly(exchange, fault, o)
    BY <2>2, NothingToldIsTrue
  <2> QED BY <2>3, <2>4 DEF TellsAll
<1>5. CASE TakenForStream /\ ~ scanner.overlong
  <2>1. PICK u : u = Events
    OBVIOUS
  <2>2. PICK t, d : t = Flat(d) /\ d = Deltas(exchange.llm, u)
    OBVIOUS
  <2>3. d = ChatDeltas(u)
    BY <1>2, <2>2, DeltasAre
  <2>4. o = Returns(NoError, t, d)
    BY <1>2, <1>5, <2>1, <2>2, <2>3 DEF StreamOutcome
  <2>5. o.error = NoError /\ o.text = t /\ o.deltas = d
    BY <2>4 DEF Returns
  <2>6. Faithful(exchange, u, todo, fault) /\ todo = << >>
    BY <1>3, <1>5, <2>1, AllIsRead
  <2>7. o.text = TextFrom(exchange, u) /\ Flat(o.deltas) = o.text
    BY <1>2, <2>2, <2>5 DEF TextFrom
  <2>8. TellsTruly(exchange, fault, o) /\ (fault = "none" => o.text = Expected(exchange))
    BY <2>6, <2>7, EventsTellTruly
  <2> QED BY <1>2, <2>5, <2>8 DEF TellsAll
<1>6. CASE ~ TakenForStream /\ exchange.form = "stream"
  <2>1. o = Fails(BadAnswer("lmstudio"))
    BY <1>2, <1>6 DEF JSONOutcome
  <2>2. o.text = << >> /\ o.deltas = << >>
    BY <2>1 DEF Fails, Returns
  <2>3. TellsTruly(exchange, fault, o)
    BY <2>2, NothingToldIsTrue
  <2>4. ~ (IsKnown(exchange) /\ fault = "none")
    BY <1>1, <1>2, <1>6, KnownIsTaken
  <2> QED BY <2>3, <2>4 DEF TellsAll
<1>7. CASE ~ TakenForStream /\ exchange.form = "json"
  <2>1. PICK t : t = Flat(exchange.answer)
    OBVIOUS
  <2>2. PICK d : d = <<t>>
    OBVIOUS
  <2>3. o = Returns(NoError, t, d)
    BY <1>2, <1>7, <2>1, <2>2 DEF JSONOutcome
  <2>4. o.error = NoError /\ o.text = t /\ o.deltas = d
    BY <2>3 DEF Returns
  <2>5. Flat(d) = t
    <3>1. t \in Seq(Pieces)
      BY <1>1, <2>1, FlatType
    <3> QED BY <2>2, <3>1, FlatOfOne
  <2>6. fault = "none" /\ Expected(exchange) = t
    BY <1>1, <1>2, <1>7, <2>1 DEF Expected, CarriesDeltas
  <2>7. TellsTruly(exchange, fault, o)
    BY <2>1, <2>4, <2>5, <2>6, AllToldIsTrue
  <2> QED BY <1>2, <2>4, <2>6, <2>7 DEF TellsAll
<1> QED BY <1>1, <1>3, <1>4, <1>5, <1>6, <1>7

\* What a return of the cloud has, its one delta included.
LEMMA CloudReturnsAre ==
  ASSUME NEW t \in Seq(Pieces), NEW o, o = CloudReturns(t)
  PROVE  /\ o.text = t /\ (o.error = NoError /\ o.deltas # << >> => Flat(o.deltas) = o.text)
         /\ o.error = IF t = << >> THEN EmptyAnswer ELSE NoError
<1>1. CASE t = << >>
  <2>1. o.text = t /\ o.error = EmptyAnswer /\ o.deltas = << >>
    BY <1>1 DEF CloudReturns, Fails, Returns
  <2> QED BY <1>1, <2>1
<1>2. CASE t # << >>
  <2>1. PICK d : d = <<t>>
    OBVIOUS
  <2>2. o = Returns(NoError, t, d)
    BY <1>2, <2>1 DEF CloudReturns
  <2>3. o.text = t /\ o.error = NoError /\ o.deltas = d
    BY <2>2 DEF Returns
  <2>4. Flat(d) = t
    BY <2>1, FlatOfOne
  <2> QED BY <1>2, <2>3, <2>4
<1> QED BY <1>1, <1>2

\* The end of an answer of Anthropic or OpenRouter.
LEMMA CloudTells ==
  ASSUME Flow, Kept, Unbroken, ~ open, wire = << >>, outcome = Pending, exchange \in Exchanges, exchange.llm \in {"anthropic", "openrouter"},
         NEW o, o = IF TakenForStream THEN StreamOutcome ELSE JSONOutcome
  PROVE  TellsTruly(exchange, fault, o) /\ TellsAll(exchange, fault, o)
<1>1. /\ exchange.form \in {"stream", "json"} /\ exchange.answer \in Seq(Seq(Pieces)) /\ exchange.stream \in BOOLEAN
      /\ fault = "overlong" <=> scanner.overlong
      /\ exchange.form = "json" => fault = "none"
  <2>1. \A l : ~ Ahead(l)
    <3>1. Len(wire) = 0
      OBVIOUS
    <3> QED BY <3>1, LongIsAhead
  <2> QED BY <2>1, ExchangeIs DEF Unbroken, Flow, OverlongIsTold, Shape, Scanners
<1>2. Family(exchange.llm) = "cloud" /\ exchange.llm # "openai" /\ exchange.llm # "lmstudio"
  BY DEF Family
<1>3. TakenForStream = exchange.stream
  BY <1>2 DEF TakenForStream
<1>4. (exchange.form = "stream" <=> exchange.stream) <=> AsWasAsked(exchange)
  BY <1>1 DEF AsWasAsked
<1>5. CASE TakenForStream /\ scanner.overlong
  <2>1. o = Fails(BadAnswer("cloud"))
    BY <1>2, <1>5 DEF StreamOutcome
  <2>2. o.text = << >> /\ o.deltas = << >>
    BY <2>1 DEF Fails, Returns
  <2>3. fault # "none"
    BY <1>1, <1>5
  <2>4. TellsTruly(exchange, fault, o)
    BY <2>2, NothingToldIsTrue
  <2> QED BY <2>3, <2>4 DEF TellsAll
<1>6. CASE TakenForStream /\ ~ scanner.overlong /\ exchange.form = "stream"
  <2>1. PICK u : u = Events
    OBVIOUS
  <2>2. o = ParseStream(u)
    BY <1>2, <1>6, <2>1 DEF StreamOutcome
  <2>3. AreTold(u, fault) /\ (fault = "error" => HasError(u))
    BY <1>6, <2>1, EventsAreTold
  <2>4. CASE fault = "error"
    <3>1. \E i \in DOMAIN u : u[i].type = "error" \/ u[i].payload.type = "error"
      BY <2>3, <2>4 DEF HasError
    <3>2. o = Fails(Failed("cloud"))
      BY <2>2, <3>1 DEF ParseStream
    <3>3. o.text = << >> /\ o.deltas = << >>
      BY <3>2 DEF Fails, Returns
    <3>4. TellsTruly(exchange, fault, o)
      BY <3>3, NothingToldIsTrue
    <3> QED BY <2>4, <3>4 DEF TellsAll
  <2>5. CASE fault # "error"
    <3>1. PICK d : d = Deltas(exchange.llm, u)
      OBVIOUS
    <3>2. d = IF exchange.llm = "anthropic" THEN AnthropicDeltas(u) ELSE ChatDeltas(u)
      <4>1. exchange.llm # "anthropic" => Chats(exchange.llm)
        BY DEF Chats
      <4> QED BY <3>1, <4>1, DeltasAre
    <3>3. PICK t : t = Flat(d)
      OBVIOUS
    <3>4. o = CloudReturns(t)
      BY <2>2, <2>3, <2>5, <3>2, <3>3, NoErrorTold DEF ParseStream
    <3>5. Faithful(exchange, u, todo, fault) /\ todo = << >>
      BY <1>6, <2>1, AllIsRead
    <3>6. t \in Seq(Pieces)
      <4>1. AllSay(exchange, u)
        BY <3>5 DEF Faithful
      <4> QED BY <3>1, <3>3, <4>1, WhatAllSay
    <3>7. /\ o.text = t /\ (o.error = NoError /\ o.deltas # << >> => Flat(o.deltas) = o.text)
          /\ o.error = IF t = << >> THEN EmptyAnswer ELSE NoError
      BY <3>4, <3>6, CloudReturnsAre
    <3>8. o.text = TextFrom(exchange, u)
      BY <1>2, <3>1, <3>3, <3>7 DEF TextFrom
    <3>9. TellsTruly(exchange, fault, o) /\ (fault = "none" => o.text = Expected(exchange))
      BY <3>5, <3>7, <3>8, EventsTellTruly
    <3> QED BY <1>2, <3>7, <3>9 DEF TellsAll
  <2> QED BY <2>4, <2>5
\* An answer that is no stream has no events.
<1>7. CASE TakenForStream /\ ~ scanner.overlong /\ exchange.form = "json"
  <2>1. scanner = NoScanner
    BY <1>7 DEF Flow, Shape
  <2>2. PICK u : u = Events
    OBVIOUS
  <2>3. u = << >>
    BY <2>1, <2>2 DEF Events, Flushed, NoScanner
  <2>4. o = ParseStream(u)
    BY <1>2, <1>7, <2>2 DEF StreamOutcome
  <2>5. PICK t \in Seq(Pieces) : t = << >>
    BY EmptySeq
  <2>6. o = CloudReturns(t)
    BY <2>3, <2>4, <2>5, NothingChosen
  <2>7. o.text = << >> /\ o.error = EmptyAnswer /\ o.deltas = << >>
    BY <2>5, <2>6 DEF CloudReturns, Fails, Returns
  <2>8. TellsTruly(exchange, fault, o)
    BY <2>7, NothingToldIsTrue
  <2>9. ~ AsWasAsked(exchange)
    BY <1>3, <1>4, <1>7
  <2> QED BY <2>8, <2>9 DEF TellsAll
<1>8. CASE ~ TakenForStream /\ exchange.form = "stream"
  <2>1. o = Fails(BadAnswer("cloud"))
    BY <1>2, <1>8 DEF JSONOutcome
  <2>2. o.text = << >> /\ o.deltas = << >>
    BY <2>1 DEF Fails, Returns
  <2>3. TellsTruly(exchange, fault, o)
    BY <2>2, NothingToldIsTrue
  <2>4. ~ AsWasAsked(exchange)
    BY <1>3, <1>4, <1>8
  <2> QED BY <2>3, <2>4 DEF TellsAll
<1>9. CASE ~ TakenForStream /\ exchange.form = "json"
  <2>1. PICK t : t = Flat(exchange.answer)
    OBVIOUS
  <2>2. t \in Seq(Pieces)
    BY <1>1, <2>1, FlatType
  <2>3. o = CloudReturns(t)
    BY <1>2, <1>9, <2>1 DEF JSONOutcome
  <2>4. /\ o.text = t /\ (o.error = NoError /\ o.deltas # << >> => Flat(o.deltas) = o.text)
        /\ o.error = IF t = << >> THEN EmptyAnswer ELSE NoError
    BY <2>2, <2>3, CloudReturnsAre
  <2>5. fault = "none" /\ Expected(exchange) = t
    BY <1>1, <1>2, <1>9, <2>1 DEF Expected, CarriesDeltas
  <2>6. TellsTruly(exchange, fault, o)
    BY <2>1, <2>4, <2>5, AllToldIsTrue
  <2> QED BY <1>2, <2>4, <2>5, <2>6 DEF TellsAll
<1> QED BY <1>1, <1>3, <1>5, <1>6, <1>7, <1>8, <1>9

------------------------------------------------------------------------------
(* The state, with what it takes for the text.                             *)

\* What the properties say, said of the next state.
LEMMA ToldNext ==
  /\ TextIsFaithful' <=> (Done => TellsTruly(exchange, fault, outcome))'
  /\ WholeAnswerGivesWholeText' <=> (Done => TellsAll(exchange, fault, outcome))'
BY TellsTrulyIs, TellsAllIs, PTL

\* The transports make a text that tells what was told.
LEMMA EndTells ==
  ASSUME Flow, Kept, Unbroken, End
  PROVE  Kept' /\ TextIsFaithful' /\ WholeAnswerGivesWholeText'
<1>1. /\ ~ open /\ wire = << >> /\ outcome = Pending /\ UNCHANGED <<exchange, open, todo, fault, wire, seen, scanner>>
      /\ outcome' = IF TakenForStream THEN StreamOutcome ELSE JSONOutcome
  BY DEF End
<1>2. exchange \in Exchanges
  <2>1. Pending # Unasked
    BY DEF Pending, Unasked, Fails, Returns, Error
  <2> QED BY <1>1, <2>1 DEF Flow, Shape
<1>3. exchange.llm \in {"openai", "lmstudio", "anthropic", "openrouter"}
  BY <1>2, ExchangeIs DEF LLMs
<1>4. TellsTruly(exchange, fault, outcome') /\ TellsAll(exchange, fault, outcome')
  BY <1>1, <1>2, <1>3, CodexTells, LMStudioTells, CloudTells
<1>5. exchange' = exchange /\ fault' = fault
  BY <1>1
<1>6. TextIsFaithful'
  <2>1. (Done => TellsTruly(exchange, fault, outcome))'
    BY <1>4, <1>5
  <2> QED BY <2>1, ToldNext
<1>7. WholeAnswerGivesWholeText'
  <2>1. (Done => TellsAll(exchange, fault, outcome))'
    BY <1>4, <1>5
  <2> QED BY <2>1, ToldNext
<1>8. Kept'
  <2>1. LooksLikeStream' <=> LooksLikeStream
    BY <1>1 DEF LooksLikeStream
  <2> QED BY <1>1, <2>1 DEF Kept
<1> QED BY <1>6, <1>7, <1>8

\* Of an answer that breaks off there is no text.
LEMMA BreakTells ==
  ASSUME Flow, Break
  PROVE  Kept' /\ TextIsFaithful' /\ WholeAnswerGivesWholeText'
<1>1. /\ outcome = Pending /\ fault' = "broken" /\ exchange' = exchange
      /\ outcome' = Fails(BadAnswer(Family(exchange.llm)))
  BY DEF Break
<1>2. exchange \in Exchanges
  <2>1. Pending # Unasked
    BY DEF Pending, Unasked, Fails, Returns, Error
  <2> QED BY <1>1, <2>1 DEF Flow, Shape
<1>3. outcome'.error = BadAnswer(Family(exchange.llm)) /\ outcome'.text = << >> /\ outcome'.deltas = << >>
  BY <1>1 DEF Fails, Returns
<1>4. outcome' # Pending
  <2>1. Pending.error = Error("pending", 0)
    BY FailsType DEF Pending
  <2>2. Error("pending", 0).status = 0 /\ \A p : BadAnswer(p).status = 502
    BY DEF BadAnswer, Error
  <2> QED BY <1>3, <2>1, <2>2
<1>5. TellsTruly(exchange, fault', outcome')
  BY <1>2, <1>3, NothingToldIsTrue
<1>6. TellsAll(exchange, fault', outcome')
  BY <1>1 DEF TellsAll
<1>7. TextIsFaithful'
  <2>1. (Done => TellsTruly(exchange, fault, outcome))'
    BY <1>1, <1>5
  <2> QED BY <2>1, ToldNext
<1>8. WholeAnswerGivesWholeText'
  <2>1. (Done => TellsAll(exchange, fault, outcome))'
    BY <1>1, <1>6
  <2> QED BY <2>1, ToldNext
<1>9. Kept'
  BY <1>4 DEF Kept
<1> QED BY <1>7, <1>8, <1>9

\* Before the end there is nothing to tell.
LEMMA NothingToTell ==
  ASSUME outcome' \in {Unasked, Pending}
  PROVE  TextIsFaithful' /\ WholeAnswerGivesWholeText'
BY DEF TextIsFaithful, WholeAnswerGivesWholeText, Done

\* The inductive invariant: the way so far, what is kept of the answer, and what has come of it.
Account == Way /\ Kept /\ TextIsFaithful /\ WholeAnswerGivesWholeText

\* Every step keeps it.
LEMMA AccountIsInductive == Account /\ [Next]_vars => Account'
<1> SUFFICES ASSUME Account, [Next]_vars
             PROVE  Account'
  OBVIOUS
<1>1. Way /\ Kept /\ TextIsFaithful /\ WholeAnswerGivesWholeText /\ Flow /\ Unbroken
  BY DEF Account, Way
<1>2. Way'
  BY <1>1, WayIsInductive
<1>3. Kept' /\ TextIsFaithful' /\ WholeAnswerGivesWholeText'
  <2>1. CASE UNCHANGED streamVars
    <3>1. UNCHANGED <<exchange, open, todo, fault, wire, seen, scanner, outcome>>
      BY <2>1 DEF streamVars
    <3>2. Kept'
      <4>1. LooksLikeStream' <=> LooksLikeStream
        BY <3>1 DEF LooksLikeStream
      <4> QED BY <1>1, <3>1, <4>1 DEF Kept
    <3>3. Done' <=> Done
      BY <3>1 DEF Done
    <3>4. TextIsFaithful'
      <4>1. (Done => TellsTruly(exchange, fault, outcome))'
        BY <1>1, <3>1, <3>3, TellsTrulyIs
      <4> QED BY <4>1, ToldNext
    <3>5. WholeAnswerGivesWholeText'
      <4>1. (Done => TellsAll(exchange, fault, outcome))'
        BY <1>1, <3>1, <3>3, TellsAllIs
      <4> QED BY <4>1, ToldNext
    <3> QED BY <3>2, <3>4, <3>5
  <2>2. CASE SendEvent \/ SendOther \/ SendDone \/ SendFaulty \/ SendError
    <3>1. Kept'
      BY <1>1, <2>2, SendEventIsKept, SendOtherIsKept, SendDoneIsKept, SendFaultyIsKept, SendErrorIsKept
    <3>2. outcome' = Pending
      BY <2>2 DEF SendEvent, SendOther, SendDone, SendFaulty, SendError, Sending, Send
    <3> QED BY <3>1, <3>2, NothingToTell
  <2>3. CASE Close \/ Scan
    <3>1. Kept'
      BY <1>1, <2>3, CloseIsKept, ScanIsKept
    <3>2. outcome' = Pending
      BY <2>3 DEF Close, Scan
    <3> QED BY <3>1, <3>2, NothingToTell
  <2>4. CASE Break
    BY <1>1, <2>4, BreakTells
  <2>5. CASE End
    BY <1>1, <2>5, EndTells
  <2>6. CASE ProviderAccepts
    <3>1. Accept(asked.llm, asked.stream)
      BY <2>6 DEF ProviderAccepts
    <3>2. Kept'
      BY <1>1, <3>1, AcceptIsKept
    <3>3. outcome' = Pending
      BY <3>1 DEF Accept
    <3> QED BY <3>2, <3>3, NothingToTell
  <2>7. UNCHANGED streamVars \/ StreamNext \/ ProviderAccepts
    BY DEF Next, CallRejected, Call, RouteRejected, Route, TransportRejected, SendRequest, RequestArrives, Answer, Reject, vars
  <2> QED BY <2>1, <2>2, <2>3, <2>4, <2>5, <2>6, <2>7 DEF StreamNext
<1> QED BY <1>2, <1>3 DEF Account

\* And it is so at first.
LEMMA AccountStarts == Init => Account
<1> SUFFICES ASSUME Init
             PROVE  Account
  OBVIOUS
<1>1. outcome = Unasked
  BY DEF Init, Asking, StreamInit
<1>2. Pending # Unasked
  BY DEF Pending, Unasked, Fails, Returns, Error
<1>3. Kept
  BY <1>1, <1>2 DEF Kept
<1>4. TextIsFaithful /\ WholeAnswerGivesWholeText
  BY <1>1 DEF TextIsFaithful, WholeAnswerGivesWholeText, Done
<1> QED BY <1>3, <1>4, WayStarts DEF Account

(* However a stream is split, framed, cut, garbled or ended, the text of an *)
(* answer is what was sent of it up to some point, or lacks what was        *)
(* garbled; nothing comes twice or from anywhere else, and the events tell  *)
(* the same as the text.                                                    *)
THEOREM TextStaysFaithful == Spec => []TextIsFaithful
<1>1. Account => TextIsFaithful
  BY DEF Account
<1> QED BY <1>1, AccountIsInductive, AccountStarts, PTL DEF Spec

(* An answer that comes whole and in the form that was asked for gives its  *)
(* whole text, or what codex makes of one without deltas; only the cloud    *)
(* refuses one that is empty.                                               *)
THEOREM WholeTextArrives == Spec => []WholeAnswerGivesWholeText
<1>1. Account => WholeAnswerGivesWholeText
  BY DEF Account
<1> QED BY <1>1, AccountIsInductive, AccountStarts, PTL DEF Spec
==============================================================================
