--------------------------- MODULE Deadlines_proofs ---------------------------
(***************************************************************************)
(* Proofs about Deadlines, for any timeouts, number of retries and delays  *)
(* a provider may ask for.  Time passes only when nothing is due, so the   *)
(* bounds below hold because each wait is given an end when it begins: an  *)
(* attempt of the SDK by its timeout, a handler by its read deadline.      *)
(***************************************************************************)
EXTENDS Deadlines, FiniteSetTheorems, TLAPS

\* Attempts are made in turn, each on a connection of its own, and no more than
\* the method allows.
Sending ==
  /\ sdk.attempt <= MaxAttempts(method)
  /\ sdk.pc = "backoff" => sdk.attempt < MaxAttempts(method)
  /\ sdk.pc = "send" => conns[sdk.attempt].phase = "unused"
  /\ \A i \in Attempts : i > sdk.attempt => conns[i].phase = "unused"

\* The time n attempts may take.
Budget(n) == n * ClientTimeout

\* The attempts made so far have kept their time, and the current one will.
Spending ==
  /\ sdk.pc = "send"    => elapsed <= Budget(sdk.attempt - 1)
  /\ sdk.pc = "await"   => elapsed + sdk.left <= Budget(sdk.attempt)
  /\ sdk.pc = "backoff" => elapsed <= Budget(sdk.attempt)

\* A handler pauses only before an attempt it may make, and ages from its
\* acceptance to the read deadline.
Handling ==
  \A i \in Attempts :
    /\ conns[i].phase = "backoff" => conns[i].attempt < MaxRetries
    /\ conns[i].phase = "arriving" => conns[i].age = 0
    /\ Active(conns[i]) => conns[i].age <= ReadTimeout

\* Handlers end before the process does, or with it when the grace is over.
Exiting ==
  /\ server.mode = "exited" => \A i \in Attempts : ~ Begun(conns[i])
  /\ server.mode # "exited" \/ server.code = 0 =>
       \A i \in Attempts : conns[i].phase # "killed"

IInv == TypeOK /\ Sending /\ Spending /\ Handling /\ Exiting

LEMMA BudgetGrows ==
  /\ \A n \in 0..3 : Budget(n) \in Nat
  /\ \A n \in 1..3 : Budget(n) = Budget(n - 1) + ClientTimeout
  /\ \A m, n \in 0..3 : m <= n => Budget(m) <= Budget(n)
<1>1. ClientTimeout \in Nat
  BY LimitsAssumption DEF ValidateRuntimeLimits
<1>2. /\ Budget(0) = 0
      /\ Budget(1) = ClientTimeout
      /\ Budget(2) = ClientTimeout + ClientTimeout
      /\ Budget(3) = ClientTimeout + ClientTimeout + ClientTimeout
  BY <1>1 DEF Budget
<1>3. \A n \in 0..3 : n = 0 \/ n = 1 \/ n = 2 \/ n = 3
  OBVIOUS
<1> HIDE DEF Budget
<1> QED BY <1>1, <1>2, <1>3

------------------------------------------------------------------------------
(* The SDK.                                                                *)

Results == {"none", "ok", "rejected", "unavailable", "failed", "unread", "cancelled"}

\* What becomes of the call when an attempt ends, whatever the reason.
LEMMA AttemptEnds ==
  ASSUME TypeOK, Sending, NEW result \in Results, Return(result) \/ TryAgainOr(result)
  PROVE  /\ sdk' \in SDKType /\ sdk'.attempt = sdk.attempt
         /\ sdk'.pc \in {"returned", "backoff"}
         /\ sdk'.pc = "backoff" => sdk.attempt < MaxAttempts(method)
<1>1. sdk \in SDKType /\ ClientTimeout \in Nat
  BY LimitsAssumption DEF TypeOK, ValidateRuntimeLimits
<1>2. CASE Return(result)
  <2>1. sdk' = [pc |-> "returned", attempt |-> sdk.attempt, left |-> 0, result |-> result]
    BY <1>1, <1>2 DEF Return, SDKType
  <2> QED BY <1>1, <2>1 DEF Results, SDKType
<1>3. CASE sdk' = [sdk EXCEPT !.pc = "backoff", !.left = 0] /\ sdk.attempt < MaxAttempts(method)
  <2>1. sdk' = [pc |-> "backoff", attempt |-> sdk.attempt, left |-> 0, result |-> sdk.result]
    BY <1>1, <1>3 DEF SDKType
  <2> QED BY <1>1, <1>3, <2>1 DEF SDKType
<1> QED BY <1>2, <1>3 DEF TryAgainOr

\* All of a connection but whether it is linked.
Unlinked(c) == [c EXCEPT !.linked = FALSE]

\* Connections may have been hung up, and nothing else has happened to them.
SameConns ==
  /\ conns' \in [Attempts -> ConnType]
  /\ \A i \in Attempts : /\ conns'[i].phase = conns[i].phase
                         /\ conns'[i].age = conns[i].age
                         /\ conns'[i].attempt = conns[i].attempt

LEMMA HangingUp ==
  ASSUME TypeOK, HangsUp \/ UNCHANGED conns
  PROVE  SameConns
<1>1. conns \in [Attempts -> ConnType] /\ sdk.attempt \in Attempts
  BY DEF TypeOK, SDKType
<1>2. CASE HangsUp
  <2>1. conns' = [conns EXCEPT ![sdk.attempt] = Unlinked(conns[sdk.attempt])]
    BY <1>2, Zenon DEF HangsUp, Unlinked
  <2>2. \A c \in ConnType : /\ Unlinked(c) \in ConnType
                            /\ Unlinked(c).phase = c.phase
                            /\ Unlinked(c).age = c.age
                            /\ Unlinked(c).attempt = c.attempt
    BY DEF Unlinked, ConnType
  <2> QED BY <1>1, <2>1, <2>2 DEF SameConns
<1>3. CASE UNCHANGED conns
  BY <1>1, <1>3 DEF SameConns
<1> QED BY <1>2, <1>3

LEMMA EndOfAttemptKeepsIInv ==
  ASSUME IInv, SameConns, UNCHANGED <<method, cancelled, server, elapsed>>,
         NEW result \in Results, Return(result) \/ TryAgainOr(result),
         sdk.pc # "returned"
  PROVE  IInv'
<1> USE DEF IInv
<1>1. /\ sdk' \in SDKType /\ sdk'.attempt = sdk.attempt
      /\ sdk'.pc \in {"returned", "backoff"}
      /\ sdk'.pc = "backoff" => sdk.attempt < MaxAttempts(method)
  BY AttemptEnds
<1>2. TypeOK'
  BY <1>1 DEF TypeOK, SameConns
<1>3. Sending'
  BY <1>1 DEF Sending, SameConns
<1>4. Spending'
  <2>1. sdk.pc \in {"send", "await", "backoff"} /\ sdk.attempt \in 1..3 /\ sdk.left \in Nat
    BY LimitsAssumption DEF TypeOK, SDKType, Attempts, ValidateRuntimeLimits
  <2>2. Budget(sdk.attempt) = Budget(sdk.attempt - 1) + ClientTimeout
    BY <2>1, BudgetGrows
  <2>3. Budget(sdk.attempt) \in Nat /\ Budget(sdk.attempt - 1) \in Nat /\ elapsed \in Nat
    BY <2>1, BudgetGrows DEF TypeOK
  <2>4. ClientTimeout \in Nat
    BY LimitsAssumption DEF ValidateRuntimeLimits
  <2>5. elapsed <= Budget(sdk.attempt)
    BY <2>1, <2>2, <2>3, <2>4 DEF Spending
  <2> QED BY <1>1, <2>5 DEF Spending
<1>5. Handling'
  BY DEF Handling, SameConns, Active
<1>6. Exiting'
  BY DEF Exiting, SameConns, Begun, Active
<1> QED BY <1>2, <1>3, <1>4, <1>5, <1>6

LEMMA CallKeepsIInv ==
  ASSUME IInv, Call \/ CallerCancels
  PROVE  IInv'
<1> USE DEF IInv
<1>1. sdk \in SDKType /\ sdk.attempt \in 1..3 /\ elapsed \in Nat /\ ClientTimeout \in Nat \ {0}
  BY LimitsAssumption DEF TypeOK, SDKType, Attempts, ValidateRuntimeLimits
<1>2. CASE Dial
  <2> DEFINE new == [NoConn EXCEPT !.phase = "arriving", !.linked = TRUE]
  <2>1. /\ new \in ConnType /\ new.phase = "arriving" /\ new.age = 0
    <3>1. NoConn \in ConnType
      BY LimitsAssumption DEF NoConn, ConnType, ValidateRuntimeLimits
    <3>2. \A c \in ConnType : /\ [c EXCEPT !.phase = "arriving"] \in ConnType
                              /\ [c EXCEPT !.linked = TRUE] \in ConnType
      BY DEF ConnType
    <3>3. new \in ConnType
      BY <3>1, <3>2, Zenon
    <3>4. new.phase = "arriving" /\ new.age = 0
      BY DEF NoConn
    <3> QED BY <3>3, <3>4
  <2>2. /\ conns' = [conns EXCEPT ![sdk.attempt] = new]
        /\ sdk' = [sdk EXCEPT !.pc = "await", !.left = ClientTimeout]
        /\ UNCHANGED <<method, cancelled, server, elapsed>>
        /\ sdk.pc = "send" /\ server.mode = "up"
    BY <1>2 DEF Dial
  <2> HIDE DEF new
  <2>3. sdk' \in SDKType /\ sdk'.attempt = sdk.attempt /\ sdk'.pc = "await" /\ sdk'.left = ClientTimeout
    <3>1. sdk' = [pc |-> "await", attempt |-> sdk.attempt, left |-> ClientTimeout, result |-> sdk.result]
      BY <1>1, <2>2 DEF SDKType
    <3> QED BY <1>1, <3>1 DEF SDKType
  <2>4. TypeOK'
    BY <2>1, <2>2, <2>3 DEF TypeOK
  <2>5. Sending'
    BY <1>1, <2>1, <2>2, <2>3 DEF Sending, TypeOK, Attempts
  <2>6. Spending'
    <3>1. elapsed + ClientTimeout <= Budget(sdk.attempt)
      BY <1>1, <2>2, BudgetGrows DEF Spending
    <3> QED BY <2>2, <2>3, <3>1 DEF Spending
  <2>7. Handling'
    BY <2>1, <2>2 DEF Handling, TypeOK, Active
  <2>8. Exiting'
    BY <2>1, <2>2 DEF Exiting, TypeOK, Begun, Active
  <2> QED BY <2>4, <2>5, <2>6, <2>7, <2>8
<1>3. CASE DialFails \/ ReceiveAnswer \/ ReceiveEnd \/ AttemptTimesOut \/ CallCancelled
  <2>1. conns[sdk.attempt].answer \in {"none", "ok", "rejected", "unavailable"}
    BY <1>1 DEF TypeOK, ConnType, Attempts
  <2>2. SameConns
    BY <1>3, HangingUp
    DEF DialFails, ReceiveAnswer, ReceiveEnd, AttemptTimesOut, CallCancelled
  <2>3. PICK result \in Results : Return(result) \/ TryAgainOr(result)
    <3>1. CASE DialFails \/ ReceiveEnd \/ AttemptTimesOut \/ CallCancelled
      BY <3>1, Zenon DEF DialFails, ReceiveEnd, AttemptTimesOut, CallCancelled, Results
    <3>2. CASE ReceiveAnswer
      BY <2>1, <3>2 DEF ReceiveAnswer, Conn, Results
    <3> QED BY <1>3, <3>1, <3>2
  <2>4. UNCHANGED <<method, cancelled, server, elapsed>> /\ sdk.pc # "returned"
    BY <1>3 DEF DialFails, ReceiveAnswer, ReceiveEnd, AttemptTimesOut, CallCancelled
  <2> QED BY <2>2, <2>3, <2>4, EndOfAttemptKeepsIInv
<1>4. CASE PauseEnds
  <2>1. /\ UNCHANGED <<method, cancelled, conns, server, elapsed>>
        /\ sdk' = [sdk EXCEPT !.pc = "send", !.attempt = @ + 1]
        /\ sdk.pc = "backoff"
    BY <1>4 DEF PauseEnds
  <2>2. sdk.attempt + 1 <= MaxAttempts(method) /\ MaxAttempts(method) \in {1, 3}
    BY <1>1, <2>1 DEF Sending, MaxAttempts
  <2>3. /\ sdk' \in SDKType /\ sdk'.attempt = sdk.attempt + 1 /\ sdk'.pc = "send"
        /\ sdk'.attempt \in 1..3
    <3>1. sdk' = [pc |-> "send", attempt |-> sdk.attempt + 1, left |-> sdk.left, result |-> sdk.result]
      BY <1>1, <2>1 DEF SDKType
    <3> QED BY <1>1, <2>2, <3>1 DEF SDKType, Attempts
  <2>4. TypeOK'
    BY <2>1, <2>3 DEF TypeOK
  <2>5. Sending'
    BY <1>1, <2>1, <2>2, <2>3 DEF Sending, Attempts
  <2>6. Spending'
    BY <1>1, <2>1, <2>3 DEF Spending
  <2>7. Handling' /\ Exiting'
    BY <2>1 DEF Handling, Exiting
  <2> QED BY <2>4, <2>5, <2>6, <2>7
<1>5. CASE CallerCancels
  BY <1>5 DEF CallerCancels, TypeOK, Sending, Spending, Handling, Exiting
<1> QED BY <1>2, <1>3, <1>4, <1>5 DEF Call

------------------------------------------------------------------------------
(* The handlers.                                                           *)

LEMMA ConnUpdates ==
  ASSUME NEW c \in ConnType
  PROVE  /\ \A p \in {"unused", "arriving", "refused", "wait", "backoff", "answering",
                      "answered", "lost", "killed"} : [c EXCEPT !.phase = p] \in ConnType
         /\ \A b \in BOOLEAN : [c EXCEPT !.linked = b] \in ConnType
         /\ \A b \in BOOLEAN : [c EXCEPT !.context = b] \in ConnType
         /\ \A n \in Nat : [c EXCEPT !.age = n] \in ConnType
         /\ \A n \in Nat : [c EXCEPT !.left = n] \in ConnType
         /\ \A n \in 0..MaxRetries : [c EXCEPT !.attempt = n] \in ConnType
         /\ \A a \in {"none", "ok", "rejected", "unavailable"} : [c EXCEPT !.answer = a] \in ConnType
BY DEF ConnType

\* What a step of a handler may make of its connection.
MayBecome(c, d) ==
  /\ d \in ConnType
  /\ c.phase # "unused" /\ d.phase \notin {"arriving", "killed"}
  /\ Begun(d) => Begun(c)
  /\ d.phase = "backoff" => d.attempt < MaxRetries
  /\ d.age = c.age

LEMMA HandlerKeepsIInv ==
  ASSUME IInv, NEW i \in Attempts, NEW d, Handler(i, d),
         MayBecome(conns[i], d) \/ d = Unlinked(conns[i])
  PROVE  IInv'
<1> USE DEF IInv
<1>1. /\ conns' = [conns EXCEPT ![i] = d]
      /\ UNCHANGED <<method, sdk, cancelled, server, elapsed>>
  BY DEF Handler
<1>2. conns \in [Attempts -> ConnType] /\ conns[i] \in ConnType
  BY DEF TypeOK
<1>3. CASE d = Unlinked(conns[i])
  <2>1. d \in ConnType /\ d.phase = conns[i].phase /\ d.age = conns[i].age
        /\ d.attempt = conns[i].attempt
    BY <1>2, <1>3 DEF Unlinked, ConnType
  <2>2. SameConns
    BY <1>1, <1>2, <2>1 DEF SameConns
  <2>3. TypeOK' /\ Sending' /\ Spending'
    BY <1>1, <2>2 DEF TypeOK, Sending, Spending, SameConns, SDKType
  <2>4. Handling' /\ Exiting'
    BY <1>1, <2>2 DEF Handling, Exiting, SameConns, Active, Begun
  <2> QED BY <2>3, <2>4
<1>4. CASE MayBecome(conns[i], d)
  <2>1. TypeOK'
    BY <1>1, <1>4 DEF MayBecome, TypeOK
  <2>2. Sending' /\ Spending'
    BY <1>1, <1>2, <1>4 DEF MayBecome, Sending, Spending, TypeOK, SDKType
  <2>3. Handling'
    <3>1. d.age <= ReadTimeout \/ ~ Active(d)
      BY <1>4, LimitsAssumption
      DEF MayBecome, Handling, Begun, Active, ValidateRuntimeLimits
    <3> QED BY <1>1, <1>2, <1>4, <3>1 DEF MayBecome, Handling
  <2>4. Exiting'
    BY <1>1, <1>2, <1>4 DEF MayBecome, Exiting
  <2> QED BY <2>1, <2>2, <2>3, <2>4
<1> QED BY <1>3, <1>4

LEMMA HandlersStep ==
  ASSUME IInv, NEW i \in Attempts,
         Handle(i) \/ ProviderAnswers(i) \/ ConnectionBreaks(i)
  PROVE  \E d : Handler(i, d) /\ (MayBecome(conns[i], d) \/ d = Unlinked(conns[i]))
<1> DEFINE c == conns[i]
<1>1. c \in ConnType
  BY DEF IInv, TypeOK
<1>2. c.phase = "backoff" => c.attempt < MaxRetries
  BY DEF IInv, Handling
<1>3. c.attempt \in 0..MaxRetries /\ RequestTimeout \in Nat /\ RetryAfters \subseteq Nat
      /\ MaxRetries \in Nat
  BY <1>1, LimitsAssumption DEF ConnType, ValidateRuntimeLimits
<1> HIDE DEF c
<1>4. ASSUME NEW answer \in {"ok", "rejected", "unavailable"}, Active(c)
      PROVE  MayBecome(c, Answering(c, answer))
  <2>1. Answering(c, answer) \in ConnType
    BY <1>1, ConnUpdates, Zenon DEF Answering
  <2>2. Answering(c, answer).phase = "answering" /\ Answering(c, answer).age = c.age
    BY <1>1 DEF Answering, ConnType
  <2> QED BY <1>4, <2>1, <2>2 DEF MayBecome, Begun, Active
<1>5. CASE Accept(i)
  <2> DEFINE d == [c EXCEPT !.phase = "wait", !.context = TRUE, !.left = RequestTimeout]
  <2>1. Handler(i, d) /\ c.phase = "arriving"
    BY <1>5 DEF Accept, c
  <2>2. d \in ConnType
    BY <1>1, <1>3, ConnUpdates, Zenon
  <2>3. d.phase = "wait" /\ d.age = c.age
    BY <1>1 DEF ConnType
  <2>4. MayBecome(c, d)
    BY <2>1, <2>2, <2>3 DEF MayBecome, Begun, Active
  <2> QED BY <2>1, <2>4 DEF c
<1>6. CASE Refuse(i)
  <2> DEFINE d == [c EXCEPT !.phase = "refused"]
  <2>1. Handler(i, d) /\ c.phase = "arriving"
    BY <1>6 DEF Refuse, c
  <2>2. d \in ConnType /\ d.phase = "refused" /\ d.age = c.age
    BY <1>1 DEF ConnType
  <2>3. MayBecome(c, d)
    BY <2>1, <2>2 DEF MayBecome, Begun, Active
  <2> QED BY <2>1, <2>3 DEF c
<1>7. CASE WaitEnds(i)
  <2>1. Active(c)
    BY <1>7 DEF WaitEnds, Wakes, Active, c
  <2>2. CASE \/ c.phase = "wait" /\ Handler(i, Answering(c, "unavailable"))
             \/ Handler(i, Answering(c, "rejected"))
    BY <1>4, <2>1, <2>2 DEF c
  <2>3. CASE /\ c.phase = "backoff"
             /\ Handler(i, [c EXCEPT !.phase = "wait", !.attempt = @ + 1, !.left = RequestTimeout])
    <3> DEFINE d == [c EXCEPT !.phase = "wait", !.attempt = c.attempt + 1, !.left = RequestTimeout]
    <3>1. c.attempt + 1 \in 0..MaxRetries
      BY <1>2, <1>3, <2>3 DEF c
    <3>2. d \in ConnType
      BY <1>1, <1>3, <3>1, ConnUpdates, Zenon
    <3>3. d.phase = "wait" /\ d.age = c.age
      BY <1>1 DEF ConnType
    <3>4. MayBecome(c, d)
      BY <2>3, <3>2, <3>3 DEF MayBecome, Begun, Active
    <3> QED BY <2>3, <3>4 DEF c
  <2> QED BY <1>7, <2>2, <2>3 DEF WaitEnds, c
<1>8. CASE Answer(i)
  <2>1. PICK phase \in {"answered", "lost"} :
          Handler(i, [c EXCEPT !.phase = phase, !.context = FALSE])
    BY <1>8 DEF Answer, c
  <2> DEFINE d == [c EXCEPT !.phase = phase, !.context = FALSE]
  <2>2. d \in ConnType
    BY <1>1, ConnUpdates, Zenon
  <2>3. d.phase = phase /\ d.age = c.age /\ c.phase = "answering"
    BY <1>1, <1>8 DEF ConnType, Answer, c
  <2>4. MayBecome(c, d)
    BY <2>1, <2>2, <2>3 DEF MayBecome, Begun, Active
  <2> QED BY <2>1, <2>4 DEF c
<1>9. CASE ContextEnds(i)
  <2> DEFINE d == [c EXCEPT !.context = FALSE]
  <2>1. Handler(i, d) /\ Active(c)
    BY <1>9 DEF ContextEnds, ContextIsOver, c
  <2>2. d \in ConnType /\ d.phase = c.phase /\ d.age = c.age /\ d.attempt = c.attempt
    BY <1>1 DEF ConnType
  <2>3. MayBecome(c, d)
    BY <1>2, <2>1, <2>2 DEF MayBecome, Begun, Active, c
  <2> QED BY <2>1, <2>3 DEF c
<1>10. CASE ProviderAnswers(i)
  <2>1. c.phase = "wait"
    BY <1>10 DEF ProviderAnswers, c
  <2>2. CASE \E answer \in {"ok", "rejected", "unavailable"} : Handler(i, Answering(c, answer))
    BY <1>4, <2>1, <2>2 DEF c, Active
  <2>3. CASE MayRetry(c) /\ \E delay \in RetryAfters :
               Handler(i, [c EXCEPT !.phase = "backoff", !.left = delay])
    <3>1. PICK delay \in RetryAfters : Handler(i, [c EXCEPT !.phase = "backoff", !.left = delay])
      BY <2>3
    <3> DEFINE d == [c EXCEPT !.phase = "backoff", !.left = delay]
    <3>2. d \in ConnType
      BY <1>1, <1>3, ConnUpdates, Zenon
    <3>3. d.phase = "backoff" /\ d.age = c.age /\ d.attempt = c.attempt
      BY <1>1 DEF ConnType
    <3>4. MayBecome(c, d)
      BY <2>1, <2>3, <3>2, <3>3 DEF MayBecome, Begun, Active, MayRetry
    <3> QED BY <3>1, <3>4 DEF c
  <2> QED BY <1>10, <2>2, <2>3 DEF ProviderAnswers, c
<1>11. CASE ConnectionBreaks(i)
  BY <1>11 DEF ConnectionBreaks, Unlinked
<1> QED BY <1>5, <1>6, <1>7, <1>8, <1>9, <1>10, <1>11 DEF Handle

------------------------------------------------------------------------------
(* The process, and time.                                                  *)

LEMMA ServerKeepsIInv ==
  ASSUME IInv, Signal \/ Shutdown
  PROVE  IInv'
<1> USE DEF IInv
<1>1. server \in ServerType /\ Grace \in Nat
  BY LimitsAssumption DEF TypeOK, ValidateRuntimeLimits
<1>2. CASE Signal \/ ShutdownEnds
  <2>1. UNCHANGED <<method, sdk, cancelled, conns, elapsed>>
    BY <1>2 DEF Signal, ShutdownEnds
  <2>2. server' \in ServerType
    <3>1. CASE Signal
      <4>1. server' = [mode |-> "draining", left |-> Grace, code |-> server.code]
        BY <1>1, <3>1 DEF Signal, ServerType
      <4> QED BY <1>1, <4>1 DEF ServerType
    <3>2. CASE ShutdownEnds
      <4>1. server' = [mode |-> "exited", left |-> 0, code |-> 0]
        BY <1>1, <3>2 DEF ShutdownEnds, ServerType
      <4> QED BY <1>1, <4>1 DEF ServerType
    <3> QED BY <1>2, <3>1, <3>2
  <2>3. TypeOK' /\ Sending' /\ Spending' /\ Handling'
    BY <2>1, <2>2 DEF TypeOK, Sending, Spending, Handling
  <2>4. Exiting'
    BY <1>1, <1>2, <2>1 DEF Signal, ShutdownEnds, Drained, Exiting, ServerType
  <2> QED BY <2>3, <2>4
<1>3. CASE GraceEnds
  <2> DEFINE Killed(c) == [c EXCEPT !.phase = "killed"]
  <2>1. \A c \in ConnType : /\ Killed(c) \in ConnType /\ Killed(c).phase = "killed"
                            /\ Killed(c).age = c.age /\ Killed(c).attempt = c.attempt
    BY DEF ConnType
  <2>2. /\ conns' = [i \in Attempts |-> IF Begun(conns[i]) THEN Killed(conns[i]) ELSE conns[i]]
        /\ UNCHANGED <<method, sdk, cancelled, elapsed>>
    BY <1>3 DEF GraceEnds
  <2> HIDE DEF Killed
  <2>3. server' \in ServerType /\ server'.mode = "exited" /\ server'.code = 1
    <3>1. server' = [mode |-> "exited", left |-> server.left, code |-> 1]
      BY <1>1, <1>3 DEF GraceEnds, ServerType
    <3> QED BY <1>1, <3>1 DEF ServerType
  <2>4. \A i \in Attempts :
          /\ conns'[i] \in ConnType
          /\ \/ conns'[i] = conns[i] /\ ~ Begun(conns[i])
             \/ conns'[i].phase = "killed" /\ Begun(conns[i])
    BY <2>1, <2>2 DEF TypeOK
  <2>5. TypeOK'
    BY <2>2, <2>3, <2>4 DEF TypeOK
  <2>6. Sending' /\ Spending'
    BY <2>2, <2>4 DEF Sending, Spending, TypeOK, SDKType, Begun, Active
  <2>7. Handling'
    BY <2>4 DEF Handling, Active
  <2>8. Exiting'
    BY <2>3, <2>4 DEF Exiting, Begun, Active
  <2> QED BY <2>5, <2>6, <2>7, <2>8
<1> QED BY <1>2, <1>3 DEF Shutdown

LEMMA LessIsLess == \A n \in Nat : /\ Less(n) \in Nat /\ Less(n) <= n
                                   /\ n # 0 => Less(n) + 1 = n
BY DEF Less

\* Time passes only for handlers that wait, within their read deadline, for a
\* client that is still there.
LEMMA TickingHandlers ==
  ASSUME IInv, Tick, NEW i \in Attempts
  PROVE  /\ conns'[i] \in ConnType
         /\ conns'[i].phase = conns[i].phase /\ conns'[i].attempt = conns[i].attempt
         /\ ~ Active(conns[i]) => conns'[i].age = conns[i].age
         /\ Active(conns[i]) => /\ conns[i].linked
                                /\ conns'[i].age <= ReadTimeout
<1>1. conns[i] \in ConnType /\ conns[i].left \in Nat /\ conns[i].age \in Nat /\ ReadTimeout \in Nat
  BY LimitsAssumption DEF IInv, TypeOK, ConnType, ValidateRuntimeLimits
<1>2. CASE ~ Active(conns[i])
  BY <1>1, <1>2 DEF Tick
<1>3. CASE Active(conns[i])
  <2> DEFINE d == [conns[i] EXCEPT !.age = conns[i].age + 1, !.left = Less(conns[i].left)]
  <2>1. conns'[i] = d
    BY <1>3 DEF Tick
  <2>2. d \in ConnType
    <3>1. conns[i].age + 1 \in Nat /\ Less(conns[i].left) \in Nat
      BY <1>1, LessIsLess
    <3> QED BY <1>1, <3>1, ConnUpdates, Zenon
  <2>3. /\ d.phase = conns[i].phase /\ d.attempt = conns[i].attempt
        /\ d.age = conns[i].age + 1
    BY <1>1 DEF ConnType
  <2>4. conns[i].linked /\ ~ (conns[i].age >= ReadTimeout)
    BY <1>3 DEF Tick, HandlerIsDue, ContextIsOver, Wakes, Active
  <2> QED BY <1>1, <1>3, <2>1, <2>2, <2>3, <2>4
<1> QED BY <1>2, <1>3

LEMMA TickKeepsIInv ==
  ASSUME IInv, Tick
  PROVE  IInv'
<1> USE DEF IInv
<1>1. sdk \in SDKType /\ sdk.left \in 0..ClientTimeout /\ sdk.attempt \in 1..3
      /\ server \in ServerType /\ server.left \in 0..Grace
      /\ elapsed \in Nat /\ ClientTimeout \in Nat /\ Grace \in Nat
  BY LimitsAssumption DEF TypeOK, SDKType, ServerType, Attempts, ValidateRuntimeLimits
<1>2. /\ Less(sdk.left) \in 0..ClientTimeout
      /\ Less(server.left) \in 0..Grace
  BY <1>1, LessIsLess
<1>3. /\ sdk' = [sdk EXCEPT !.left = Less(sdk.left)]
      /\ server' = [server EXCEPT !.left = Less(server.left)]
      /\ elapsed' = IF sdk.pc = "returned" THEN elapsed ELSE elapsed + 1
      /\ UNCHANGED <<method, cancelled>>
  BY DEF Tick
<1>4. /\ sdk' \in SDKType /\ sdk'.pc = sdk.pc /\ sdk'.attempt = sdk.attempt
      /\ sdk'.left = Less(sdk.left)
  BY <1>1, <1>2, <1>3 DEF SDKType
<1>5. /\ server' \in ServerType /\ server'.mode = server.mode /\ server'.code = server.code
  BY <1>1, <1>2, <1>3 DEF ServerType
<1>6. \A i \in Attempts : /\ conns'[i] \in ConnType
                          /\ conns'[i].phase = conns[i].phase
                          /\ conns'[i].attempt = conns[i].attempt
                          /\ ~ Active(conns[i]) => conns'[i].age = conns[i].age
                          /\ Active(conns[i]) => conns'[i].age <= ReadTimeout
  BY TickingHandlers
<1>7. TypeOK'
  <2>1. conns' \in [Attempts -> ConnType]
    BY <1>6 DEF Tick
  <2>2. elapsed' \in Nat
    BY <1>1, <1>3
  <2> QED BY <1>3, <1>4, <1>5, <2>1, <2>2 DEF TypeOK
<1>8. Sending'
  BY <1>1, <1>3, <1>4, <1>6 DEF Sending, Attempts
<1>9. Spending'
  <2>1. sdk.pc \in {"await", "returned"} /\ (sdk.pc = "await" => sdk.left # 0)
    BY <1>1 DEF Tick, SDKIsDue, SDKType
  <2>2. sdk.pc = "await" => elapsed' + sdk'.left = elapsed + sdk.left
    BY <1>1, <1>3, <1>4, <2>1, LessIsLess
  <2> QED BY <1>4, <2>1, <2>2 DEF Spending
<1>10. Handling'
  BY <1>6 DEF Handling, Active
<1>11. Exiting'
  BY <1>5, <1>6 DEF Exiting, Begun, Active
<1> QED BY <1>7, <1>8, <1>9, <1>10, <1>11

THEOREM Invariance == Spec => []IInv
<1>1. Init => IInv
  <2> SUFFICES ASSUME Init PROVE IInv
    OBVIOUS
  <2>1. method \in Methods /\ MaxAttempts(method) >= 1
    BY DEF Init, Methods, MaxAttempts
  <2>2. 0 \in 0..ClientTimeout /\ 0 \in 0..Grace /\ 0 \in 0..MaxRetries /\ Budget(0) = 0
    BY LimitsAssumption DEF ValidateRuntimeLimits, Budget
  <2>3. TypeOK
    <3>1. NoConn \in ConnType
      BY <2>2 DEF NoConn, ConnType
    <3>2. sdk \in SDKType /\ server \in ServerType
      BY <2>2 DEF Init, SDKType, ServerType, Attempts
    <3> QED BY <2>1, <3>1, <3>2 DEF Init, TypeOK
  <2>4. Sending
    BY <2>1 DEF Init, Sending, NoConn, Attempts
  <2>5. Spending
    BY <2>2 DEF Init, Spending
  <2>6. Handling /\ Exiting
    BY DEF Init, Handling, Exiting, NoConn, Active
  <2> QED BY <2>3, <2>4, <2>5, <2>6 DEF IInv
<1>2. IInv /\ [Next]_vars => IInv'
  <2> SUFFICES ASSUME IInv, [Next]_vars PROVE IInv'
    OBVIOUS
  <2>1. CASE \E i \in Attempts : Handle(i) \/ ProviderAnswers(i) \/ ConnectionBreaks(i)
    BY <2>1, HandlersStep, HandlerKeepsIInv
  <2>2. CASE UNCHANGED vars
    BY <2>2 DEF vars, IInv, TypeOK, Sending, Spending, Handling, Exiting
  <2> QED BY <2>1, <2>2, CallKeepsIInv, ServerKeepsIInv, TickKeepsIInv DEF Next
<1> QED BY <1>1, <1>2, PTL DEF Spec

------------------------------------------------------------------------------
(* The call, the timers, the handlers and the process keep their types: in *)
(* particular no handler makes more attempts than OPENAI_CODEX_MAX_RETRIES *)
(* allows, whatever the provider answers.                                  *)
THEOREM TypeCorrect == Spec => []TypeOK
BY Invariance, PTL DEF IInv

(* A call of the SDK returns within its number of attempts times its       *)
(* timeout: what the server, its handlers and the connections do cannot    *)
(* prolong it.                                                             *)
THEOREM CallsKeepTheirTime == Spec => []CallsEndInTime
<1>1. IInv => CallsEndInTime
  <2> SUFFICES ASSUME IInv, sdk.pc # "returned"
               PROVE  elapsed <= Budget(MaxAttempts(method))
    BY DEF CallsEndInTime, Budget
  <2>1. /\ sdk.pc \in {"send", "await", "backoff"} /\ sdk.attempt \in 1..3
        /\ sdk.left \in Nat /\ elapsed \in Nat /\ ClientTimeout \in Nat
        /\ MaxAttempts(method) \in 0..3 /\ sdk.attempt <= MaxAttempts(method)
    BY LimitsAssumption
    DEF IInv, TypeOK, Sending, SDKType, Attempts, MaxAttempts, ValidateRuntimeLimits
  <2>2. /\ Budget(sdk.attempt) <= Budget(MaxAttempts(method))
        /\ Budget(sdk.attempt) = Budget(sdk.attempt - 1) + ClientTimeout
        /\ Budget(sdk.attempt) \in Nat /\ Budget(sdk.attempt - 1) \in Nat
        /\ Budget(MaxAttempts(method)) \in Nat
    BY <2>1, BudgetGrows
  <2> QED BY <2>1, <2>2 DEF IInv, Spending
<1> QED BY <1>1, Invariance, PTL

(* doJSON gives a call that is not a GET one attempt, so no failure makes  *)
(* the server handle a generation twice.                                   *)
THEOREM PostsAreHandledOnce == Spec => []PostIsHandledOnce
<1>1. IInv => PostIsHandledOnce
  <2> SUFFICES ASSUME IInv, method = "POST"
               PROVE  Cardinality({i \in Attempts : conns[i].phase # "unused"}) <= 1
    BY DEF PostIsHandledOnce
  <2> DEFINE Used == {i \in Attempts : conns[i].phase # "unused"}
  <2>1. sdk.attempt <= 1 /\ sdk.attempt \in 1..3
    BY DEF IInv, TypeOK, SDKType, Attempts, Sending, MaxAttempts
  <2>2. Used \subseteq {1}
    BY <2>1 DEF IInv, Sending, Attempts
  <2>3. Used = {} \/ Used = {1}
    BY <2>2
  <2>4. Cardinality({}) = 0 /\ Cardinality({1}) = 1
    BY FS_EmptySet, FS_Singleton, Zenon
  <2>5. Cardinality(Used) = 0 \/ Cardinality(Used) = 1
    BY <2>3, <2>4, Zenon
  <2> HIDE DEF Used
  <2>6. Cardinality(Used) <= 1
    BY <2>5
  <2> QED BY <2>6 DEF Used
<1> QED BY <1>1, Invariance, PTL

(* The process exits 0 only when every handler has ended by itself, and    *)
(* leaves none behind when it does not.                                    *)
THEOREM ExitsAreClean == Spec => []ExitIsClean
<1>1. IInv => ExitIsClean
  BY DEF IInv, Exiting, ExitIsClean, Begun
<1> QED BY <1>1, Invariance, PTL

(* The read deadline ends the context of a handler, which every wait of    *)
(* the handler listens to: no Retry-After and no number of attempts keeps  *)
(* it longer, and none at all once its client is gone.                     *)
THEOREM HandlersKeepTheirTime == Spec => HandlersEndInTime
<1> DEFINE Aged == \A i \in Attempts : Active(conns[i]) => conns[i].age <= ReadTimeout
           Gone == \A i \in Attempts :
                     Active(conns[i]) /\ ~ conns[i].linked => conns'[i].age = conns[i].age
<1>1. IInv => Aged
  BY DEF IInv, Handling
<1>2. IInv /\ [Next]_vars => [Gone]_vars
  <2> SUFFICES ASSUME IInv, Next, NEW i \in Attempts, Active(conns[i]), ~ conns[i].linked
               PROVE  conns'[i].age = conns[i].age
    OBVIOUS
  <2>1. CASE Call \/ CallerCancels
    <3>1. CASE Dial
      <4>1. i # sdk.attempt
        BY <3>1 DEF Dial, IInv, Sending, Active
      <4> QED BY <3>1, <4>1 DEF Dial, IInv, TypeOK
    <3>2. CASE ~ Dial
      <4>1. HangsUp \/ UNCHANGED conns
        BY <2>1, <3>2
        DEF Call, CallerCancels, DialFails, ReceiveAnswer, ReceiveEnd, AttemptTimesOut,
            CallCancelled, PauseEnds
      <4> QED BY <4>1, HangingUp DEF IInv, SameConns
    <3> QED BY <3>1, <3>2
  <2>2. CASE \E j \in Attempts : Handle(j) \/ ProviderAnswers(j) \/ ConnectionBreaks(j)
    <3>1. PICK j \in Attempts : \E d : /\ Handler(j, d)
                                       /\ MayBecome(conns[j], d) \/ d = Unlinked(conns[j])
      BY <2>2, HandlersStep
    <3>2. PICK d : Handler(j, d) /\ d.age = conns[j].age
      BY <3>1 DEF MayBecome, Unlinked, IInv, TypeOK, ConnType
    <3> QED BY <3>2 DEF Handler, IInv, TypeOK
  <2>3. CASE Signal \/ Shutdown
    BY <2>3 DEF Signal, Shutdown, ShutdownEnds, GraceEnds, IInv, TypeOK, ConnType
  <2>4. CASE Tick
    BY <2>4, TickingHandlers
  <2> QED BY <2>1, <2>2, <2>3, <2>4 DEF Next
<1>3. Spec => []Aged /\ [][Gone]_vars
  BY <1>1, <1>2, Invariance, PTL DEF Spec
<1> QED BY <1>3 DEF HandlersEndInTime
===============================================================================
