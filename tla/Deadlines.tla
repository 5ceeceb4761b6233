------------------------------ MODULE Deadlines ------------------------------
(***************************************************************************)
(* The deadlines one call of the Go SDK runs under: the SDK's own, one for *)
(* each of its attempts (pkg/client/client.go); those of the HTTP server   *)
(* (internal/config/config.go), whose read deadline ends the context of a  *)
(* handler and whose write deadline loses its answer; those of the         *)
(* handler's attempts to reach the provider, and its pauses between them   *)
(* (internal/codex/codex_transport.go); and the grace a shutdown gives     *)
(* (cmd/middleware-codex-oauth/main.go).                                   *)
(*                                                                         *)
(* Time is counted in ticks.  What is due happens before the next tick, in *)
(* any order; the pauses of a second or less take none.  What a handler    *)
(* does but wait takes no time either.                                     *)
(***************************************************************************)
EXTENDS Naturals, FiniteSets

CONSTANTS
  ClientTimeout,    \* TimeoutMs of the SDK
  ReadTimeout,      \* HTTP_READ_TIMEOUT_MS
  WriteTimeout,     \* HTTP_WRITE_TIMEOUT_MS
  RequestTimeout,   \* OPENAI_CODEX_REQUEST_TIMEOUT_MS
  Grace,            \* of a shutdown
  MaxRetries,       \* OPENAI_CODEX_MAX_RETRIES
  RetryAfters       \* the delays a provider may ask for

\* Every timeout is set; a provider may ask for any delay.
ValidateRuntimeLimits ==
  /\ {ClientTimeout, ReadTimeout, WriteTimeout, RequestTimeout, Grace} \subseteq Nat \ {0}
  /\ MaxRetries \in 0..10
  /\ RetryAfters \subseteq Nat /\ 0 \in RetryAfters

ASSUME LimitsAssumption == ValidateRuntimeLimits

VARIABLES
  method,     \* of the call
  sdk,        \* where doJSON is, its attempt, the time left to it, and its result
  cancelled,  \* the caller's context
  conns,      \* the connection and the handler of each attempt
  server,     \* up, draining or exited, the grace left, and its exit code
  elapsed     \* history: how long the call has taken

vars == <<method, sdk, cancelled, conns, server, elapsed>>

Methods == {"GET", "POST"}

MaxAttempts_AnyMethod(m) == 3

MaxAttempts(m) == IF m = "GET" THEN 3 ELSE 1

Attempts == 1..3

NoConn == [phase |-> "unused", linked |-> FALSE, context |-> FALSE, age |-> 0, attempt |-> 0, left |-> 0, answer |-> "none"]

Active(c)  == c.phase \in {"wait", "backoff", "answering"}
Begun(c)   == c.phase = "arriving" \/ Active(c)

SDKType ==
  [pc : {"send", "await", "backoff", "returned"}, attempt : Attempts, left : 0..ClientTimeout,
   result : {"none", "ok", "rejected", "unavailable", "failed", "unread", "cancelled"}]

ConnType ==
  [phase : {"unused", "arriving", "refused", "wait", "backoff", "answering", "answered", "lost", "killed"},
   linked : BOOLEAN, context : BOOLEAN, age : Nat, attempt : 0..MaxRetries, left : Nat,
   answer : {"none", "ok", "rejected", "unavailable"}]

ServerType == [mode : {"up", "draining", "exited"}, left : 0..Grace, code : 0..1]

TypeOK ==
  /\ method \in Methods /\ cancelled \in BOOLEAN /\ elapsed \in Nat
  /\ sdk \in SDKType
  /\ conns \in [Attempts -> ConnType]
  /\ server \in ServerType

Init ==
  /\ method \in Methods
  /\ sdk = [pc |-> "send", attempt |-> 1, left |-> 0, result |-> "none"]
  /\ cancelled = FALSE
  /\ conns = [i \in Attempts |-> NoConn]
  /\ server = [mode |-> "up", left |-> 0, code |-> 0]
  /\ elapsed = 0

------------------------------------------------------------------------------
(* The SDK.                                                                *)

Conn == conns[sdk.attempt]

HangsUp == conns' = [conns EXCEPT ![sdk.attempt].linked = FALSE]

Return(result) == sdk' = [sdk EXCEPT !.pc = "returned", !.left = 0, !.result = result]

\* An attempt that failed in a way that may pass.
TryAgainOr(result) ==
  IF sdk.attempt < MaxAttempts(method) THEN sdk' = [sdk EXCEPT !.pc = "backoff", !.left = 0] ELSE Return(result)

CallerCancels ==
  /\ ~ cancelled /\ sdk.pc # "returned"
  /\ cancelled' = TRUE
  /\ UNCHANGED <<method, sdk, conns, server, elapsed>>

Dial ==
  /\ sdk.pc = "send" /\ ~ cancelled /\ server.mode = "up"
  /\ sdk' = [sdk EXCEPT !.pc = "await", !.left = ClientTimeout]
  /\ conns' = [conns EXCEPT ![sdk.attempt] = [NoConn EXCEPT !.phase = "arriving", !.linked = TRUE]]
  /\ UNCHANGED <<method, cancelled, server, elapsed>>

DialFails ==
  /\ sdk.pc = "send"
  /\ IF cancelled THEN Return("cancelled") ELSE TryAgainOr("failed")
  /\ UNCHANGED <<method, cancelled, conns, server, elapsed>>

ReceiveAnswer ==
  /\ sdk.pc = "await" /\ Conn.linked /\ Conn.phase = "answered"
  /\ IF Conn.answer = "unavailable" THEN TryAgainOr("unavailable") ELSE Return(Conn.answer)
  /\ UNCHANGED <<method, cancelled, conns, server, elapsed>>

\* The connection ends: before the answer, or within it, of which the status has come.
ReceiveEnd ==
  /\ sdk.pc = "await" /\ (~ Conn.linked \/ Conn.phase \in {"refused", "lost", "killed"})
  /\ \/ IF cancelled THEN Return("cancelled") ELSE TryAgainOr("failed")
     \/ Conn.answer \in {"ok", "rejected"} /\ Return("unread")
     \/ Conn.answer = "unavailable" /\ TryAgainOr("unread")
  /\ UNCHANGED <<method, cancelled, conns, server, elapsed>>

AttemptTimesOut ==
  /\ sdk.pc = "await" /\ sdk.left = 0
  /\ HangsUp
  /\ IF cancelled THEN Return("cancelled") ELSE TryAgainOr("failed")
  /\ UNCHANGED <<method, cancelled, server, elapsed>>

CallCancelled ==
  /\ sdk.pc \in {"await", "backoff"} /\ cancelled
  /\ HangsUp
  /\ Return("cancelled")
  /\ UNCHANGED <<method, cancelled, server, elapsed>>

PauseEnds_SameAttempt ==
  /\ sdk.pc = "backoff"
  /\ sdk' = [sdk EXCEPT !.pc = "send"]
  /\ UNCHANGED <<method, cancelled, conns, server, elapsed>>

\* The select may take the timer although the context is cancelled as well.
PauseEnds ==
  /\ sdk.pc = "backoff"
  /\ sdk' = [sdk EXCEPT !.pc = "send", !.attempt = @ + 1]
  /\ UNCHANGED <<method, cancelled, conns, server, elapsed>>

SDKIsDue ==
  \/ sdk.pc \in {"send", "backoff"}
  \/ sdk.pc = "await" /\ (sdk.left = 0 \/ cancelled \/ ~ Conn.linked \/ Conn.phase \in {"refused", "answered", "lost", "killed"})

------------------------------------------------------------------------------
(* A handler.                                                              *)

Handler(i, c) == conns' = [conns EXCEPT ![i] = c] /\ UNCHANGED <<method, sdk, cancelled, server, elapsed>>

Answering(c, answer) == [c EXCEPT !.phase = "answering", !.left = 0, !.answer = answer]

\* A server that has begun to drain may still read a request that was on its way.
Accept(i) ==
  /\ conns[i].phase = "arriving" /\ server.mode # "exited"
  /\ Handler(i, [conns[i] EXCEPT !.phase = "wait", !.context = TRUE, !.left = RequestTimeout])

Refuse(i) ==
  /\ conns[i].phase = "arriving" /\ server.mode # "up"
  /\ Handler(i, [conns[i] EXCEPT !.phase = "refused"])

ConnectionBreaks(i) ==
  /\ Begun(conns[i]) /\ conns[i].linked
  /\ Handler(i, [conns[i] EXCEPT !.linked = FALSE])

MayRetry_OneMore(c) == method = "POST" /\ c.attempt <= MaxRetries

\* Generation alone is repeated, when the provider may answer otherwise next time.
MayRetry(c) == method = "POST" /\ c.attempt < MaxRetries

ProviderAnswers(i) ==
  LET c == conns[i]
  IN  /\ c.phase = "wait"
      /\ \/ \E answer \in {"ok", "rejected", "unavailable"} : Handler(i, Answering(c, answer))
         \/ /\ MayRetry(c)
            /\ \E delay \in RetryAfters : Handler(i, [c EXCEPT !.phase = "backoff", !.left = delay])

\* What a handler that waits is woken by: a timer, or the end of its context.
Wakes_TimerOnly(c) == (c.phase = "wait" /\ (c.left = 0 \/ ~ c.context)) \/ (c.phase = "backoff" /\ c.left = 0)

Wakes(c) == c.phase \in {"wait", "backoff"} /\ (c.left = 0 \/ ~ c.context)

\* An attempt that runs out of time is not repeated, and an ended context is answered with 408.
WaitEnds(i) ==
  LET c == conns[i]
  IN  /\ Wakes(c)
      /\ \/ c.left = 0 /\ c.phase = "wait" /\ Handler(i, Answering(c, "unavailable"))
         \/ c.left = 0 /\ c.phase = "backoff" /\
              Handler(i, [c EXCEPT !.phase = "wait", !.attempt = @ + 1, !.left = RequestTimeout])
         \/ ~ c.context /\ Handler(i, Answering(c, "rejected"))

\* The answer is lost after the write deadline.
Answer(i) ==
  LET c == conns[i]
  IN  /\ c.phase = "answering"
      /\ \/ c.age <= WriteTimeout /\ Handler(i, [c EXCEPT !.phase = "answered", !.context = FALSE])
         \/ c.age >= WriteTimeout /\ Handler(i, [c EXCEPT !.phase = "lost", !.context = FALSE])

\* The server watches the connection of a handler: its end, or the read deadline, ends the context.
ContextIsOver(c) == Active(c) /\ c.context /\ (c.age >= ReadTimeout \/ ~ c.linked)

ContextEnds(i) ==
  /\ ContextIsOver(conns[i])
  /\ Handler(i, [conns[i] EXCEPT !.context = FALSE])

HandlerIsDue(c) == c.phase \in {"arriving", "answering"} \/ Wakes(c) \/ ContextIsOver(c)

------------------------------------------------------------------------------
(* The process.                                                            *)

Signal ==
  /\ server.mode = "up"
  /\ server' = [server EXCEPT !.mode = "draining", !.left = Grace]
  /\ UNCHANGED <<method, sdk, cancelled, conns, elapsed>>

Drained_LooksForWaiting == \A i \in Attempts : conns[i].phase \notin {"wait", "backoff"}

Drained == \A i \in Attempts : ~ Begun(conns[i])

ShutdownEnds ==
  /\ server.mode = "draining" /\ Drained
  /\ server' = [server EXCEPT !.mode = "exited", !.left = 0, !.code = 0]
  /\ UNCHANGED <<method, sdk, cancelled, conns, elapsed>>

\* os.Exit takes the handlers with it.
GraceEnds ==
  /\ server.mode = "draining" /\ server.left = 0
  /\ server' = [server EXCEPT !.mode = "exited", !.code = 1]
  /\ conns' = [i \in Attempts |-> IF Begun(conns[i]) THEN [conns[i] EXCEPT !.phase = "killed"] ELSE conns[i]]
  /\ UNCHANGED <<method, sdk, cancelled, elapsed>>

ServerIsDue == server.mode = "draining" /\ (Drained \/ server.left = 0)

Less(n) == IF n = 0 THEN 0 ELSE n - 1

Tick ==
  /\ ~ SDKIsDue /\ ~ ServerIsDue /\ \A i \in Attempts : ~ HandlerIsDue(conns[i])
  /\ sdk' = [sdk EXCEPT !.left = Less(@)]
  /\ conns' = [i \in Attempts |-> IF Active(conns[i]) THEN [conns[i] EXCEPT !.age = @ + 1, !.left = Less(@)] ELSE conns[i]]
  /\ server' = [server EXCEPT !.left = Less(@)]
  /\ elapsed' = IF sdk.pc = "returned" THEN elapsed ELSE elapsed + 1
  /\ UNCHANGED <<method, cancelled>>

Call == Dial \/ DialFails \/ ReceiveAnswer \/ ReceiveEnd \/ AttemptTimesOut \/ CallCancelled \/ PauseEnds
Handle(i) == Accept(i) \/ Refuse(i) \/ WaitEnds(i) \/ Answer(i) \/ ContextEnds(i)
Shutdown == ShutdownEnds \/ GraceEnds

Next ==
  \/ Call \/ CallerCancels
  \/ \E i \in Attempts : Handle(i) \/ ProviderAnswers(i) \/ ConnectionBreaks(i)
  \/ Signal \/ Shutdown
  \/ Tick

Spec == Init /\ [][Next]_vars

\* Time passes, and what is due is done; no provider has to answer.
Fairness ==
  /\ WF_vars(Tick)
  /\ WF_vars(Call)
  /\ \A i \in Attempts : WF_vars(Handle(i))
  /\ WF_vars(Shutdown)

FairSpec == Spec /\ Fairness

------------------------------------------------------------------------------
(* Properties.                                                             *)

\* No handler outlives the read deadline of its request, however many attempts it makes and however
\* long the provider asks it to wait before the next; and one whose client is gone ends before time
\* passes again.
HandlersEndInTime ==
  /\ [](\A i \in Attempts : Active(conns[i]) => conns[i].age <= ReadTimeout)
  /\ [][\A i \in Attempts : Active(conns[i]) /\ ~ conns[i].linked => conns'[i].age = conns[i].age]_vars

\* A call returns in the time of its attempts, whatever becomes of the server, its answers and the
\* connections.
CallsEndInTime == sdk.pc # "returned" => elapsed <= MaxAttempts(method) * ClientTimeout

\* A call that generates is handled once: neither a lost answer, nor a timeout on either side, nor a
\* shutdown makes the SDK send it again, though none of them tells it whether the provider was reached.
PostIsHandledOnce ==
  method = "POST" => Cardinality({i \in Attempts : conns[i].phase # "unused"}) <= 1

\* A shutdown that reports success has cut off no handler; one that does not had given them all its grace.
ExitIsClean ==
  server.mode = "exited" =>
    /\ \A i \in Attempts : ~ Active(conns[i])
    /\ server.code = 0 => \A i \in Attempts : conns[i].phase # "killed"

\* Every call returns, and every shutdown ends.
EverythingEnds == <>(sdk.pc = "returned") /\ (server.mode = "draining" ~> server.mode = "exited")
==============================================================================
