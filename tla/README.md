# Verification of middlewareAuth

middlewareAuth is a local gateway in Go: applications ask it, over HTTP, an SDK or
MCP, to log a user in to an LLM provider, to keep the credential fresh and to send
requests with it. This directory holds TLA+ specifications of the parts of it that
are hard to test, TLC configurations that check them on small instances, and proofs
that TLAPS checks for instances of any size.

1. [The system](#1-the-system): components, their state, how they interact
2. [The modules](#2-the-modules): what models what
3. [The runs](#3-the-runs): what is checked, with which bounds
4. [Fairness](#4-fairness)
5. [Proofs](#5-proofs)
6. [Findings](#6-findings)
7. [What is not modelled](#7-what-is-not-modelled)
8. [Plan](#8-plan)

To check a run: `tlc -config Gateway.cfg MCGateway`; to check proofs:
`tlapm AuthStore_proofs.tla`. `PROJECT.json` lists the runs, the properties of each,
for every property a fault of the model that violates it, and for every definition
the lines of the source it stands for.

## 1. The system

Paths are relative to `src/`.

| Component | State it keeps | Operations | What makes it correct |
|---|---|---|---|
| Credential store, `internal/auth/auth_store.go`, `profile_lock.go` | `auth-profiles.json`, one lock per profile, one for the file | load, save | saves exclude each other, none is lost, a crash leaves a readable file, a save that fails changes nothing |
| Credential encryption and identity, `token_crypto.go`, `token_identity.go` | none | encrypt, decrypt, read claims | pure |
| Token refresher, `token_refresh.go` | one lock per profile | resolve a credential valid for a while | one refresh at a time, no refresh token shown twice, every call returns |
| Client token, `client_token.go` | digest in memory, `client-token.json`, a mutex | validate, rotate | one of competing rotations wins, a revoked token stays revoked |
| Login sessions, `internal/httpapi/server.go`, `routes_auth.go` | table of sessions, index by OAuth state, a goroutine per device-code login | start, callback, poll, clean up | the index agrees with the table, completed means stored, logins end, the limit holds |
| OAuth client, `internal/oauth` | none | exchange a code, poll a device code | |
| HTTP routes, `internal/httpapi` | none of their own | generate, configure, status, refresh, catalogues | documented errors, verified keys, bounded calls, an answer to everything |
| Transports, `internal/codex`, `cloud`, `lmstudio`, `decision` | none | translate and send a request, read the stream of an answer, verify a key, list models; codex retries | an output contract is honoured or refused, retries are safe, a conversation arrives as it was given and a text as it was sent |
| Output contract, `internal/llmcontract` | none | validate a schema, check an answer | |
| MCP server, `internal/mcpstdio`, `cmd/middleware-codex-oauth-mcp` | position in its input | read a line, call the middleware, answer | answers paired and in order, nothing dropped, errors under the code of the HTTP contract |
| Go SDK, `pkg/client` | client token under a mutex | requests with their attempts, rotation | never goes back to an older token, repeats no generation, returns in time |
| Configuration, `internal/config` | none that changes | validate limits | they fit together |
| Observability, `internal/security` | none | log, redact | |
| Server process, `cmd/middleware-codex-oauth` | up, draining or gone | start, shut down | a clean exit cuts off nobody |

How they interact. A request of an application passes `authorized` (client token),
is read and named by a route, has its credential resolved (store; for openai the
refresher, which calls the OAuth endpoint and saves into the store), goes to a
provider through a transport and comes back as text or as a public error. Logins
run beside it: a route adds a session; a browser's callback or a device-code
goroutine exchanges a code and saves into the same store. The MCP server and the
SDK are HTTP clients of the routes. Goroutines share the store and its file, the
refresher's locks, the session table and the client token, and nothing else.

What is hard. Two saves of one file by two goroutines, with locks that do not know
who holds them and waits that give up; a refresh of a token the provider accepts
once, against logins that take another lock; callbacks and goroutines that act on a
session they looked up two remote calls ago; rotation of a token against a crash or
a power loss between rename, directory sync and activation; a retry loop against a
client that hangs up; errors that pass three layers, the last of which finds the
code by searching a text; requests that three layers rewrite, each with precedences of
its own; streams that name, split and repeat their text in several ways and may end
anywhere; deadlines of the SDK, the server, the handler and the shutdown that run at
once. `PROJECT.json` lists these hazards line by line, with the
properties that guard them or why none does.

## 2. The modules

Each component has a module with its state, one action per step that other actors
can come between, and its properties at the end. `MC...` modules extend them for
TLC, `..._proofs` modules hold the theorems. Operators named `A_Fault` are `A` with
a fault a change to the code could bring in; the specification uses none of them.

**CredentialStore** is what the store promises: an atomic map from profiles to
credentials, with calls that take effect once between their start and their end or
fail and have none, and a memory that a power loss may set back to what no
directory sync followed.

**AuthStore** is `FileStore` with both `lockSet`s. Its variables are the program
counter, request and private copy of each caller, the tokens in the channels of the
locks, the file, and the set of contents a power loss may leave under its name. A
save is `AcquireProfile`, `AcquireStore`, `ReadAndUpdate`, `WriteTemp`, `SyncTemp`,
`RenameTemp`, `SyncDir`, `ReleaseStore`, `ReleaseProfile`, with `GiveUp...` for the
five-second timer and the context, and `SaveFails` for each error return. A load is
one step, since it reads the file once and without a lock; `Crash` keeps the file,
`PowerLoss` picks a survivor. A file renamed before it was synced may survive torn.

**ClientToken** is `ClientTokenStore`, `authorized`, `handleClientTokenRotate` and the
SDK's copy of the token. `BeginRotation` to `Activate` hold the mutex;
`NewClientTokenStore` is what a restart makes of the file. Tokens are numbered in
the order they are drawn. Answers may be lost or overtake each other; `lost` records the
tokens whose own answer was lost, or never given because of a restart.

**TokenRefresh** is `ResolveFreshCredential` for one profile, with the two looks at
the store, the lock, the call to the provider and the save, next to logins that
save without that lock and a provider that replaces a refresh token when it is
spent. The record in the store is an atomic register: that is what AuthStore is
shown to implement. As there, a directory sync may fail unnoticed, and `PowerLoss` picks
one of the credentials that may then be left (`survivors`). A spent token whose replacement
was lost on its way to the store, or by the store in a power loss, is an orphan.

**LoginSessions** is the table and the index, `addSession` with its clean-up and
limit, the callback in its five steps outside the mutex, the device-code goroutine
and the poll that expires. Reading and marking a session are separate steps,
because the code releases the mutex between them.

**ErrorContract** holds, as pure operators, what the routes make of the errors of
the layers below (`NormalizeLLMError`, `NormalizeDecisionError`), what the MCP server
reads back out of the text of an answer (`CodeFromError`), and the table of public
errors in `docs/LLM_PROVIDER_CONTRACT.md`. **Transports** says what the four
transports make of one answer. An answer is its status, whether it is an event
stream, and a body out of nine kinds, chosen so that every branch of the parsers
has one. Providers behind one transport (anthropic and openrouter) differ in the form
of their bodies only and are one here. That the table is right is checked against the
parsers themselves (ResponseStreams, below).

**Gateway** extends both and is the control flow of one request: generation,
configuration of a key, status and refresh, on the llm, legacy and decisions
routes, with codex's retry loop. Its state is where the handler is, whether the
client is still there, the loop variable, the number of calls made and how the last
of them ended. The credential's resolution and saving succeed or fail with the
errors of the store and the refresher.

**McpServer** extends ErrorContract and is the loop of `Serve`: one line at a time,
`handle`, a tool's call to the middleware with its sixty seconds, the answer. A line
is what the server tells apart of it: blank, too long, not JSON, a notification, a
local method, or one of three kinds of remote tools, with or without an id. The
middleware answers with any error its routes can give to that tool.

**RequestWire** is how a request for a text becomes the one the provider gets: what a
tool of the MCP server, the SDK or a caller that writes its JSON by hand (for the llm route or
a legacy one) sends, what the route reads
of it (`serviceTier`, `UnmarshalJSON` with its Extra), and what each transport writes. A
document is a function from member names to where the value comes from (an argument,
an extra, a default of the layer), since precedence is the question; a conversation is
a sequence of roles and numbered texts. Values are abstract but for `stream` and `store`.
**Selection** has the one operator for the loops of both ways that append some of what they
range over, as a function, so that it can be reasoned about.

**ResponseStreams** is how the text gets out of an answer: a provider that frames its
events by a line, by a member or by both, splits their data over lines, repeats the text
in later events (codex), mixes in comments and reasoning, and may garble an event, send
one that is too long, give up with an error event, close early or within a line, or break
the connection; `ParseSSE` line by line, and what each transport makes of the events, of
plain JSON, and of a form it did not expect. A text is a sequence of pieces.

**Exchange** joins the two into one call from its caller to the returned text. What the
provider is asked for (its model, whether to stream) is all the way back knows of the
way there, and `RequestArrives` forgets the rest.

**Deadlines** is one call of the SDK in discrete time: `doJSON` with its attempts, pauses and
timeouts, a handler for each attempt that reaches the server, with codex's attempts and
the delays a provider asks for, the server's read deadline (which ends the handler's
context: net/http reads ahead on the connection and takes the deadline for its end) and
write deadline (which loses the answer), connections that break, and the shutdown with
its thirty seconds. What net/http does is modelled from how `main.go` and `config.go` use it.

Composition. Gateway EXTENDS Transports, which EXTENDS ErrorContract; McpServer
EXTENDS ErrorContract, so that the errors Gateway shows documented are those McpServer
is given. Exchange EXTENDS RequestWire and ResponseStreams, which both EXTEND Transports:
`AsTransportsHasIt` says that an answer read piece by piece ends as Transports says it does
as a whole, so Gateway, which takes whole answers, rests on the parsers. AuthStore INSTANCEs CredentialStore under a refinement mapping; TokenRefresh
and LoginSessions rely on that promise (a save is one step that happens or fails).

## 3. The runs

| Run | Checks | Shows |
|---|---|---|
| auth_store | LocksAreSound, NoLostUpdate, SurvivorsAreReadable, ImplementsCredentialStore, EveryCallReturns | the locks of a save exclude each other and are never lost; what a save renames is the file of that moment with one record replaced; every crash leaves a file `readStore` accepts; files, locks and lock-free loads behave like one atomic map, and every call returns |
| client_token | OneWinner, RevokedStaysRevoked, FailedRotationHasNoEffect, SomeoneHoldsTheToken, ClientsMoveForward, EveryRequestIsAnswered | rotations from two clients, lost answers, crashes and power losses, with directory syncs that succeed |
| client_token_dir_sync | RevokedStaysRevoked, violated | finding 1 |
| token_refresh | NoTokenIsSpentTwice, StoredTokenIsUsable, EveryResolveReturns | resolves against each other, a login, the clock, crashes and power losses |
| token_refresh_account | RefreshPreservesAccount, violated | finding 2 |
| login_sessions | IndexedIsPending, CompletedIsSaved, WithinLimit, LoginsEnd | callbacks, goroutines, polls, clean-up and restarts on one table |
| login_sessions_final | CompletedIsFinal, violated | finding 3 |
| gateway | RetriesAreTransient, ContractIsHonoured, AnswersAreDocumented, KeyIsVerified, EveryRequestIsAnswered | every kind of request meets every kind of answer, silence and failure, and a client that hangs up at any moment |
| mcp_server | AnswersInOrder, NothingIsDropped, SignalStops, EveryLineIsHandled | lines of every kind, a middleware that may answer, fail or be silent, a signal, the end of input |
| mcp_server_mirror | ErrorsAreMirrored, violated | finding 4 |
| exchange | TypeOK, NothingIsOverridden, WhatIsOfferedArrives, ConversationIsKept, TextIsFaithful, WholeAnswerGivesWholeText, AsTransportsHasIt | every caller and provider, combinations of arguments and extras, conversations with every role, and answers that are framed, repeated, cut, garbled or given up in every way |
| deadlines | TypeOK, CallsEndInTime, PostIsHandledOnce, ExitIsClean, HandlersEndInTime, EverythingEnds | one call with its attempts against every deadline, any Retry-After, breaking connections, cancellation and a shutdown at any moment |

Types (but for those of Deadlines and Exchange, which TLC checks too), SingleFlight, BoundedCalls and MostErrorsAreMirrored
are proved for every instance and not checked again.

Bounds, and why they are enough to see what the properties are about:

- *auth_store*: three callers, so that one can hold each lock while a third waits;
  two profiles of which one fits (`MaxProfiles` 1 for 1000), so that the limit is met by
  replacing, by adding and by a competing add. One credential is enough: a record is
  told from another by its profile, and an update that is lost leaves its profile out.
- *client_token*: two clients and two requests are the smallest competition; three
  tokens allow a rotation after one that failed or was lost. `MaxTokens` bounds
  `BeginRotation`, which stands for `crypto/rand` not repeating a token.
- *token_refresh*: one profile, as locks and records are per profile; two resolves,
  one login; three tokens, so that a refresh follows a login or a refresh; minimum
  validities 0 and 1 at a lifetime of 1, so that one caller never finds a token
  fresh, as the refresh route with its hour; a clock of one unit, at
  which a credential of time 0 has expired.
- *login_sessions*: two sessions at a limit of one (1000 in the code), so that the
  second is refused or follows the clean-up; two callbacks, which may carry one
  state; a session is forgotten one unit after its deadline, and the clock runs to
  three, so that goroutines and callbacks outlive their session.
- *gateway*: one request, because requests share the credential store and the
  refresher only, which have modules of their own; two retries (three are the
  default), the smallest number for which a retry follows a retry.
- *mcp_server*: two lines, because the server has no memory from line to line but
  its position; every pair of kinds is covered. One line shows finding 4.

- *exchange*: at most two arguments and two extras at a time (one of each where a value
  has a wrong type), because precedence is between the members of a pair: an argument,
  an extra of its name, the alias of either (`serviceTier`, `service_tier`). Three messages, so
  that an instruction can stand before, between and after others, one of them without
  text. Answers of at most two pieces in one or two parts: the smallest that can come in
  another order, twice, or in part. One fault per stream and one thought; keep-alives
  without limit.
- *deadlines*: a tick of twenty seconds, so that the defaults are three ticks (the SDK's
  timeout, read, write) and, rounded up, two (thirty seconds for an attempt at the
  provider, and of grace); two retries; a provider that asks for no delay, a tick, or
  one far beyond every deadline. All three attempts of the SDK are there.

Counters without a bound in the code are bounded in the guards: `MaxTokens`, `MaxTime`,
`MaxMessages`. Gateway, McpServer, Exchange and Deadlines have final states (the request is
answered, the server has stopped, the call has returned), so their runs do not look for
deadlocks; the others do.

## 4. Fairness

Only what the code's timers and the runtime guarantee is assumed; nothing obliges a
provider, the middleware, a user or a client to do anything.

- *AuthStore*, *TokenRefresh*: weak fairness of the steps of a call under way. Every
  wait for a lock has the five-second timer of `lockSet.acquire`, the request to the
  provider thirty seconds; that a waiter ever gets the lock is not assumed, so
  EveryCallReturns counts giving up as a return.
- *ClientToken*: weak fairness of the rotation under way, strong fairness of taking
  the mutex: `sync.Mutex` hands itself to a goroutine that has waited for it for a
  millisecond (its starvation mode), and other requests may come for ever.
- *LoginSessions*: time passes; the goroutine's timeout and its steps after the poll
  are weakly fair. That a user authorizes, or that anybody polls, is not assumed.
- *Gateway*: the handler's own steps, the end of an attempt by its timeout or by the
  context, the end of a back-off. That a provider answers is not assumed.
- *McpServer*: the server's own steps and its client's sixty-second timer.
- *Deadlines*: time passes when nothing is due; what is due in the SDK, in each handler
  and in a shutdown is done. That a provider answers, or that the connection holds, is
  not assumed.
- *Exchange* has no liveness property: an answer may never end (Deadlines bounds it).

## 5. Proofs

Eight modules of proofs, each for all values of the constants. Every invariant and every
action property that a passing run checks is a theorem.

*AuthStore_proofs*. `IInv` joins three groups. `Typing` adds to TypeOK that a caller at a
step of a save has a save for its request. `Locks` adds to LocksAreSound that a token in its channel is held by nobody; without it two callers
could take one token. `Content` adds to NoLostUpdate that the copy about to be renamed
is synced and within the limit; without it a rename could leave what no read
accepts. From `IInv` follow the four safety properties, and, with one more invariant
about when a result is decided, that every step of AuthStore is a step of
CredentialStore or changes nothing in it. UpdateIsReadable, about the cardinality of
the profiles of an updated store, carries the limit; it needs the set of profiles
to be finite, which is assumed.

*ClientToken_proofs*. `IInv` relates the mutex, the numbers of the tokens and the disk:
a token about to be rotated in is new, is not on disk before its rename, and when
its rotation is about to be activated the token it replaces is not to be found
there. RevokedStaysRevoked follows only if directory syncs succeed, which is a
hypothesis of the theorem; finding 1 is the other case. SomeoneHoldsTheToken and
ClientsMoveForward are about clients and answers under way: `HInv` adds that nothing around
is newer than the last token drawn, which its rotation owns until it is answered (`Known`),
that an answer under way carries a token that is in force and newer than all others
(`Delivery`), and that the token in force, and each that a restart may put in force, is
accounted for: with a rotation, with a client, on its way to one, or lost (`InHands`). Both
theorems have the hypothesis on directory syncs too. OnlyItsOwnAnswerLosesAToken does not
say that the server can always be reached: a client whose rotation took effect and whose answer
is lost, or cut by a restart, is locked out, and no code undoes that. It says that nothing else
does it.

*TokenRefresh_proofs*. The argument is about fresh tokens: one on its way to the store,
in a response or in a login's grant, is held by one goroutine, was issued after
every token around, and is unspent. It stays so because a refresh spends only the
token it found in the store, under the lock (SingleFlight is part of the induction).
From this follow NoTokenIsSpentTwice and StoredTokenIsUsable. A power loss brings back
nothing newer than what was issued; if it brings back a spent token, that is an orphan.

*LoginSessions_proofs*. IndexedIsPending and CompletedIsSaved need what callbacks and
goroutines still know between two steps: that a verdict about to be set is not
"pending", that one of "completed" comes after the save, and that a session whose
state is about to be dropped is not pending. MarkingIsSound is the lemma for all
six actions that mark a session. WithinLimit is an induction of its own, over the
cardinality of the table, with the finiteness of the table in the invariant.
Two theorems say how far finding 3 goes. StepsOfASession reads every step as what it does to
one session, and `Modes` says that callbacks hold OAuth sessions and that a device-code
goroutine, which marks at most once, finds its session pending or expired. Hence
LateCallbacksAlone: a session that reads completed or failed is overwritten by a callback
that found it before and by nothing else, so a device-code login is final. And SettledForGood,
for any number of callbacks: once those that found a session, and its goroutine, are done with
it (`Settled`), what it reads never changes until it is forgotten, as its state has left the
index and neither polls nor clean-up write over a status. Finding 3 is what can happen before.

*Gateway_proofs*. The number of calls follows the loop variable through each step of
the loop, for any MaxRetries up to the ten the configuration allows; and between two
turns of the loop the last attempt is one that may be repeated. For the types, the lemma
GeneratedYields says what kinds of text the transports can return. What a client is
answered follows from two lemmas on the tables - every error a layer can return is one
that the routes can present (`Presentable`), and what they make of such a one is
documented - and from an invariant, `Course`, of what has happened by each step: that a
handler about to save has an answer of the provider that verifies the key, and that
a refused contract ends the request.

*McpServer_proofs*. The reason for which the loop ended stays true of the lines there
are, for any number of lines. MostErrorsAreMirrored needs that every outcome of a tool
call is one the middleware's errors can be rendered to (RenderingInvariance); that the
rendering keeps the codes is a lemma about the table (DocumentedCodesAreKept).
AnswersInOrder says of the lines handled so far that those that want an answer are
those that have one, in their order, and is its own invariant (LineIsFinished).

*Deadlines_proofs*. `Spending` gives each attempt of the SDK a budget: the time that has
passed and the time the attempt has left never exceed one timeout for each attempt begun.
`Handling` bounds a handler's age by the read deadline in the same way, which holds because
time does not pass while something is due. PostIsHandledOnce follows from `Sending` (an
attempt has a connection of its own, and a POST has one attempt), ExitIsClean from
`Exiting`.

*Exchange_proofs*. On the way there, the invariant `Course` says what each layer may rely on:
`Fields` of what a caller writes, `Understood` of what the route reads of it, `WellSent` of
what goes to the provider; one lemma for each way to make a document shows it, from what
`++` keeps of its operands (Merging). From it follow NothingIsOverridden, with what
happens to a contested service tier (section 6), and WhatIsOfferedArrives, for any set of
arguments and extras. A conversation is made by loops that append some of what they range over. Such a loop is `Selected` (Selection),
a recursive function over the places of a sequence, and what it makes is shown by
counting: the lemma Counting (from WFMin of the library) gives induction for a set of
numbers, and each lemma about a loop defines the set of the lengths for which it holds.

On the way back, the invariant `Flow` says what has been sent and what has been made of it:
what the scanner gathers and what is on the wire are the two ends of one event (`Place`),
the events it has found are ones the fault allows (AreTold), and an error event or an
overlong line is either the next thing to be read or has been read (`ErrorIsTold`,
`OverlongIsTold`); without these two an answer that ends could owe its error to nobody.
There is a lemma for each step of a stream, and three for the table (CodexTable,
LMStudioTable, CloudTable) for what `Generated` says of each kind of body. `Way` joins the
two ways and gives TypeOK and AsTransportsHasIt, for texts of any length and any number of
events: Gateway, which takes an answer as a whole, rests on this theorem.

For the text, the invariant `Kept` looks ahead. Scanning the lines on the wire from where the
scanner is (`Running`) ends in some events u; and u is `Faithful`: what its deltas say, joined
with what the messages still to be sent will say, is the answer, or the answer without a
stretch if an event was garbled, or without its end if the stream stopped; and what u repeats
in the events of codex that close a part or the answer is the text of a part. So a step of the scanner
changes nothing, a message sent moves from one operand to the other (SentMessage, from
InFrameCourse: a frame, in one line or two, named or not, makes just its event), and the
steps that disturb it are those of a fault (Loses, Stops). Closing the stream is the hard one, since it
takes back lines that are on their way: `Prospect` says that wherever the scanner is in the
lines of an event it has made all of the event, nothing of it, or noise (CutIs). At the end
the events are u, nothing is left to send, and the transports' texts follow (CodexTells,
LMStudioTells, CloudTells). WholeAnswerGivesWholeText needs a third part of `Kept`: a
stream whose events have lines for their names has lines of both kinds in what was scanned or is on the wire,
or has sent none of its messages; without it nothing shows that codex takes it for a stream.
`Kept` itself was model-checked on the instance of the run before it was proved.

Assumptions on constants are those the modules declare: that special values are not
members of the sets they are special to, that bounds are natural numbers, that the
set of profiles is finite, that there is a client, that limits are such as
`ValidateRuntimeLimits` accepts, that texts are sequences of pieces and a thought is none
of them. TLC evaluates them on each run's instance.

Left to TLC: liveness and anything under fairness, which the provers do not handle, and the
violations of section 6.

## 6. Findings

1. `client_token_dir_sync`: `persist` drops the error of `fsyncDir`, and `Rotate` answers
   200; a power loss may then bring the revoked token back
   (`internal/auth/client_token.go:128` against its comment at line 21).
2. `token_refresh_account`: a login of another account that completes while a refresh
   waits for the provider is overwritten by the refresh, although the refresher
   means to reject a change of account (`internal/auth/token_refresh.go:69` and 81).
3. `login_sessions_final`: of two callbacks with one state, the one that comes late
   turns a completed session into a failed one (`internal/httpapi/server.go:293`
   against `docs/review/04_oauth_session_lifecycle.md:9`).
4. `mcp_server_mirror`: ERR_LLM_OUTPUT_CONTRACT_UNSUPPORTED reaches the client of an
   llm tool as ERR_LLM_INTERNAL and ERR_LLM_RESPONSE_EMPTY as
   ERR_LLM_PROVIDER_UNAVAILABLE (`internal/mcpstdio/server.go:903` against
   `docs/LLM_PROVIDER_CONTRACT.md:468`). MostErrorsAreMirrored states what does hold.

One more disagreement has no run of its own, as the property that holds states it:

- With the argument `serviceTier` and an extra of that name, the extra's tier reaches openai and
  lmstudio. `llm_responses` writes the argument as `service_tier`, so the extra meets no member
  of its name (`internal/mcpstdio/server.go:526` and 533), and the route lets `serviceTier`
  replace `service_tier` (`internal/httpapi/routes_llm.go:607`). The description of `extra` at
  `internal/mcpstdio/server.go:1156` says that it overrides no known field, and so do
  `docs/MCP.md:119` and `docs/LLM_PROVIDER_CONTRACT.md:70`. NothingIsOverridden says that the
  extra wins for this pair (`TierIsContested`) and that no extra wins anywhere else.

Worth knowing:

- The openai provider offers the capabilities `intelligence` and `store`
  (`routes_llm.go:630`), and the codex request carries neither: `store` is always
  false there.
- A codex answer without deltas keeps only the first part of its text; streamed codex
  answers carry neither id nor usage.
- A stream that ends in an error event after some text is a success for codex and
  lmstudio and a failure for cloud; a member `"error": null` in a chunk fails a cloud stream.
- An answer of a rotation that is lost locks the client out: the server has no way to give the
  new token again, and `client-token.json` has to be removed by hand.
- `lmStudioResponses` in `mcpstdio/server.go` is dispatched by no tool and not modelled.
- A key of LM Studio is taken for verified on any JSON object, an empty one too.
- A line over the buffer in an LM Studio stream surfaces as ERR_CODEX_STREAM_INVALID.
- Retry-After is slept through whatever its size, until the read deadline ends the
  handler's context; one beyond the range of a duration is a retry at once.
- The SDK repeats no answer whose status is 200 and whose body cannot be read.
- A refresh token that is dead for good is reported as 502 unavailable and not as an
  expired login.
- A device-code login whose time runs out while it saves is marked failed, not expired.
- A signal does not stop the MCP server while it waits for a line.
- A server whose ListenAndServe fails shuts down and exits with 0.

## 7. What is not modelled

- Encryption, JWT claims, PKCE, request and response formats, the JSON schema subset of
  an output contract: pure functions, present by what they yield or how they fail.
- Values of request members and of JSON in general: RequestWire follows where a value
  comes from, ResponseStreams which pieces of text come through. The mappings of
  intelligence and reasoning efforts to the provider's words are pure.
- Clocks in Gateway and McpServer: Deadlines has the time of a request and Gateway its
  outcomes, and the two are not composed.
- net/http itself: deadlines, contexts and shutdown are modelled from how `config.go` and
  `main.go` set them. Its idle connections and header timeout are not.
- Catalogues of providers and models, health, the list of decision providers, routing
  and rendering: they read and change nothing.
- Configuration but for its limits, logging, redaction: read once, or write-only.
- Device-code goroutines in a shutdown: it does not wait for them, so they die as in a
  crash, which LoginSessions has.
- The SDK's methods other than generation and rotation: they wrap `doJSON`.

## 8. Plan

Done: the store and its abstract map, the client token, the refresher, the sessions, the
request path, the MCP server, the way of a request and of its answer, the deadlines, and
the proofs above. To do: the refinement of LoginSessions to an abstract login (pending, then
one outcome), with finding 3 as the transition it lacks; and Deadlines composed with Gateway.
