---------------------------- MODULE LoginSessions ----------------------------
(***************************************************************************)
(* The login sessions of the HTTP handler: the two maps behind sessionMu   *)
(* (internal/httpapi/server.go), the OAuth callbacks and device-code       *)
(* goroutines that end a session, the status poll that expires it and the  *)
(* clean-up that forgets it (internal/httpapi/routes_auth.go).             *)
(*                                                                         *)
(* A callback works on a copy of the session it took under the mutex and   *)
(* comes back, after two network or disk calls, to mark the session by its *)
(* identifier.  OAuth states and session identifiers are random and drawn  *)
(* together, so that a session stands for its state as well.  The PKCE     *)
(* verifier, the URLs and the user code are one flag: they are set and     *)
(* cleared together.                                                       *)
(*                                                                         *)
(* sessionByState has a branch for a state whose session is gone; the      *)
(* invariant IndexedIsPending shows that it is never taken.                *)
(*                                                                         *)
(* An operator A_Fault is A with a fault a change to the code could bring  *)
(* in; Next uses none of them.                                             *)
(***************************************************************************)
EXTENDS Naturals, FiniteSets

CONSTANTS
  SessionIDs,
  Callbacks,    \* goroutines that serve GET /auth/callback
  MaxSessions,  \* sessions the handler remembers (1000 in the code)
  Lifetime,     \* of a session (15 minutes, or what the provider says)
  Retention,    \* how long a session outlives its deadline (15 minutes)
  MaxTime,      \* bound on the clock
  NoSession

Statuses == {"pending", "completed", "failed", "expired"}
Sessions == [mode : {"oauth", "device_code"}, status : Statuses,
             expiresAt : 0 .. MaxTime, flow : BOOLEAN]

ASSUME BoundsAssumption ==
  /\ MaxSessions \in Nat /\ Lifetime \in Nat \ {0} /\ Retention \in Nat /\ MaxTime \in Nat
ASSUME NoSessionAssumption == NoSession \notin Sessions

VARIABLES
  now,
  sessions,    \* Handler.sessions
  stateIndex,  \* Handler.stateIndex: the sessions an OAuth state leads to
  drawn,       \* session identifiers in use or used up
  saved,       \* sessions whose credential reached the store
  device,      \* next step of each session's device-code goroutine
  callback,    \* next step of each callback
  copy,        \* the session the callback found, and the deadline it copied
  verdict      \* the status the callback is about to set

tableVars    == <<sessions, stateIndex>>
callbackVars == <<callback, copy, verdict>>
vars == <<now, tableVars, drawn, saved, device, callbackVars>>

NoCopy == [session |-> NoSession, expiresAt |-> 0]

Init ==
  /\ now = 0
  /\ sessions = [s \in SessionIDs |-> NoSession]
  /\ stateIndex = {}
  /\ drawn = {}
  /\ saved = {}
  /\ device = [s \in SessionIDs |-> "none"]
  /\ callback = [c \in Callbacks |-> "idle"]
  /\ copy = [c \in Callbacks |-> NoCopy]
  /\ verdict = [c \in Callbacks |-> "pending"]

Known(s) == sessions[s] # NoSession

------------------------------------------------------------------------------
(* addSession, under the mutex: forget what is old, then look at the limit. *)

Stale(s)   == Known(s) /\ sessions[s].expiresAt + Retention <= now
Remembered == {s \in SessionIDs : Known(s) /\ ~Stale(s)}

Room_OffByOne == Cardinality(Remembered) <= MaxSessions

Room == Cardinality(Remembered) < MaxSessions

\* A device-code login also starts the goroutine that polls the provider.
StartLogin(s, mode) ==
  /\ s \notin drawn
  /\ now + Lifetime <= MaxTime
  /\ Room
  /\ drawn' = drawn \cup {s}
  /\ sessions' = [q \in SessionIDs |->
       IF q = s THEN [mode |-> mode, status |-> "pending", expiresAt |-> now + Lifetime, flow |-> TRUE]
       ELSE IF Stale(q) THEN NoSession ELSE sessions[q]]
  /\ stateIndex' = {q \in stateIndex : ~Stale(q)} \cup (IF mode = "oauth" THEN {s} ELSE {})
  /\ device' = [device EXCEPT ![s] = IF mode = "device_code" THEN "poll" ELSE "none"]
  /\ UNCHANGED <<now, saved, callbackVars>>

\* The limit is reached, but the clean-up has been done.
RefuseLogin ==
  /\ ~Room
  /\ sessions' = [q \in SessionIDs |-> IF Stale(q) THEN NoSession ELSE sessions[q]]
  /\ stateIndex' = {q \in stateIndex : ~Stale(q)}
  /\ UNCHANGED <<now, drawn, saved, device, callbackVars>>

------------------------------------------------------------------------------
(* markSessionCompleted, markSessionFailed and markSessionExpired: none of *)
(* them looks at the status the session has.                               *)

MarkSession(s, status) ==
  IF Known(s)
  THEN /\ sessions' = [sessions EXCEPT ![s] =
            [mode |-> @.mode, status |-> status, expiresAt |-> @.expiresAt, flow |-> FALSE]]
       /\ stateIndex' = IF sessions[s].flow THEN stateIndex \ {s} ELSE stateIndex
  ELSE UNCHANGED tableVars

LoginSessionStatus_KeepsState(s) ==
  /\ Known(s)
  /\ sessions[s].status = "pending" /\ sessions[s].expiresAt <= now
  /\ sessions' = [sessions EXCEPT ![s].status = "expired"]
  /\ UNCHANGED <<now, stateIndex, drawn, saved, device, callbackVars>>

\* A poll of the status expires a session that is past its deadline.
LoginSessionStatus(s) ==
  /\ Known(s)
  /\ sessions[s].status = "pending" /\ sessions[s].expiresAt <= now
  /\ MarkSession(s, "expired")
  /\ UNCHANGED <<now, drawn, saved, device, callbackVars>>

------------------------------------------------------------------------------
(* handleCallback.  Its redirect carries a state, and a code or an error.  *)

Goto(c, from, to) ==
  /\ callback[c] = from
  /\ callback' = [callback EXCEPT ![c] = to]

Conclude(c, from, status) ==
  /\ Goto(c, from, "mark")
  /\ verdict' = [verdict EXCEPT ![c] = status]
  /\ UNCHANGED <<now, tableVars, drawn, device, copy>>

SessionByState(c) ==
  /\ Goto(c, "idle", "check")
  /\ \E s \in stateIndex :
       copy' = [copy EXCEPT ![c] = [session |-> s, expiresAt |-> sessions[s].expiresAt]]
  /\ UNCHANGED <<now, tableVars, drawn, saved, device, verdict>>

CheckDeadline(c) ==
  /\ copy[c].expiresAt <= now
  /\ Conclude(c, "check", "expired")
  /\ UNCHANGED saved

\* The provider redirected with an error, or without a code.
LoginDenied(c) ==
  /\ copy[c].expiresAt > now
  /\ Conclude(c, "check", "failed")
  /\ UNCHANGED saved

BeginExchange(c) ==
  /\ copy[c].expiresAt > now
  /\ Goto(c, "check", "exchange")
  /\ UNCHANGED <<now, tableVars, drawn, saved, device, copy, verdict>>

ExchangeSucceeds(c) ==
  /\ Goto(c, "exchange", "save")
  /\ UNCHANGED <<now, tableVars, drawn, saved, device, copy, verdict>>

\* The code is refused, for one because it has been redeemed already.
ExchangeFails(c) ==
  /\ Conclude(c, "exchange", "failed")
  /\ UNCHANGED saved

SaveSucceeds(c) ==
  /\ Conclude(c, "save", "completed")
  /\ saved' = saved \cup {copy[c].session}

SaveFails_GoesUnnoticed(c) ==
  /\ Conclude(c, "save", "completed")
  /\ UNCHANGED saved

SaveFails(c) ==
  /\ Conclude(c, "save", "failed")
  /\ UNCHANGED saved

Mark(c) ==
  /\ Goto(c, "mark", "unindex")
  /\ MarkSession(copy[c].session, verdict[c])
  /\ UNCHANGED <<now, drawn, saved, device, copy, verdict>>

RemoveStateIndex(c) ==
  /\ Goto(c, "unindex", "idle")
  /\ stateIndex' = stateIndex \ {copy[c].session}
  /\ copy' = [copy EXCEPT ![c] = NoCopy]
  /\ verdict' = [verdict EXCEPT ![c] = "pending"]
  /\ UNCHANGED <<now, sessions, drawn, saved, device>>

------------------------------------------------------------------------------
(* The goroutine of a device-code login.  Its context ends no earlier than *)
(* the session's deadline, because it starts after the session is added.   *)

DeviceStep(s, from, to) ==
  /\ device[s] = from
  /\ device' = [device EXCEPT ![s] = to]
  /\ UNCHANGED <<now, drawn, callbackVars>>

PastDeadline(s) == Known(s) => sessions[s].expiresAt <= now

DeviceAuthorized(s) ==
  /\ DeviceStep(s, "poll", "save")
  /\ Known(s) /\ now <= sessions[s].expiresAt
  /\ UNCHANGED <<tableVars, saved>>

\* A poll fails for a reason other than the time.
DevicePollFails(s) ==
  /\ DeviceStep(s, "poll", "none")
  /\ MarkSession(s, "failed")
  /\ UNCHANGED saved

DeviceTimesOut_Silently(s) ==
  /\ DeviceStep(s, "poll", "none")
  /\ PastDeadline(s)
  /\ UNCHANGED <<tableVars, saved>>

DeviceTimesOut(s) ==
  /\ DeviceStep(s, "poll", "none")
  /\ PastDeadline(s)
  /\ MarkSession(s, "expired")
  /\ UNCHANGED saved

DeviceSaves(s) ==
  /\ DeviceStep(s, "save", "saved")
  /\ saved' = saved \cup {s}
  /\ UNCHANGED tableVars

\* Also when the deadline passes while the save waits for its locks.
DeviceSaveFails(s) ==
  /\ DeviceStep(s, "save", "none")
  /\ MarkSession(s, "failed")
  /\ UNCHANGED saved

DeviceCompletes(s) ==
  /\ DeviceStep(s, "saved", "none")
  /\ MarkSession(s, "completed")
  /\ UNCHANGED saved

------------------------------------------------------------------------------
\* The process dies: sessions are kept in memory only, credentials are not.
Crash ==
  /\ sessions' = [s \in SessionIDs |-> NoSession]
  /\ stateIndex' = {}
  /\ device' = [s \in SessionIDs |-> "none"]
  /\ callback' = [c \in Callbacks |-> "idle"]
  /\ copy' = [c \in Callbacks |-> NoCopy]
  /\ verdict' = [c \in Callbacks |-> "pending"]
  /\ UNCHANGED <<now, drawn, saved>>

Tick ==
  /\ now < MaxTime
  /\ now' = now + 1
  /\ UNCHANGED <<tableVars, drawn, saved, device, callbackVars>>

------------------------------------------------------------------------------
CallbackStep(c) ==
  \/ CheckDeadline(c) \/ LoginDenied(c) \/ BeginExchange(c)
  \/ ExchangeSucceeds(c) \/ ExchangeFails(c)
  \/ SaveSucceeds(c) \/ SaveFails(c)
  \/ Mark(c) \/ RemoveStateIndex(c)

GoroutineStep(s) ==
  \/ DeviceAuthorized(s) \/ DevicePollFails(s) \/ DeviceTimesOut(s)
  \/ DeviceSaves(s) \/ DeviceSaveFails(s) \/ DeviceCompletes(s)

Next ==
  \/ \E s \in SessionIDs :
       \/ \E mode \in {"oauth", "device_code"} : StartLogin(s, mode)
       \/ LoginSessionStatus(s)
       \/ GoroutineStep(s)
  \/ RefuseLogin
  \/ \E c \in Callbacks : SessionByState(c) \/ CallbackStep(c)
  \/ Crash
  \/ Tick

Spec == Init /\ [][Next]_vars

(* Time passes, and the poll's timer, the client's timeouts and the store's *)
(* five seconds end every step of a goroutine.  No user need authorize, no  *)
(* caller need poll.                                                        *)
TimeOut(s) == DeviceTimesOut(s) \/ DeviceSaves(s) \/ DeviceSaveFails(s) \/ DeviceCompletes(s)

FairSpec ==
  /\ Spec
  /\ WF_vars(Tick)
  /\ \A s \in SessionIDs : WF_vars(TimeOut(s))
  /\ \A c \in Callbacks : WF_vars(CallbackStep(c))

------------------------------------------------------------------------------
TypeOK ==
  /\ now \in 0 .. MaxTime
  /\ sessions \in [SessionIDs -> Sessions \cup {NoSession}]
  /\ stateIndex \subseteq SessionIDs
  /\ drawn \subseteq SessionIDs
  /\ saved \subseteq drawn
  /\ device \in [SessionIDs -> {"none", "poll", "save", "saved"}]
  /\ callback \in [Callbacks -> {"idle", "check", "exchange", "save", "mark", "unindex"}]
  /\ copy \in [Callbacks -> [session : SessionIDs \cup {NoSession}, expiresAt : 0 .. MaxTime]]
  /\ verdict \in [Callbacks -> Statuses]

(* An OAuth state leads to a session exactly while that session is pending, *)
(* and a session that has ended keeps nothing of its flow, however          *)
(* callbacks, polls and clean-ups overtake each other.                      *)
IndexedIsPending ==
  \A s \in SessionIDs :
    /\ s \in stateIndex <=>
         Known(s) /\ sessions[s].mode = "oauth" /\ sessions[s].status = "pending"
    /\ Known(s) => (sessions[s].flow <=> sessions[s].status = "pending")

(* A session reads completed only once its credential is in the store.     *)
CompletedIsSaved ==
  \A s \in SessionIDs : Known(s) /\ sessions[s].status = "completed" => s \in saved

(* The handler never remembers more sessions than its limit.               *)
WithinLimit == Cardinality({s \in SessionIDs : Known(s)}) <= MaxSessions

(* A device-code login ends without anybody asking for its status, and a   *)
(* callback that found its session returns.                                *)
LoginsEnd ==
  /\ \A s \in SessionIDs :
       device[s] # "none" ~> device[s] = "none" /\ (Known(s) => sessions[s].status # "pending")
  /\ \A c \in Callbacks : callback[c] # "idle" ~> callback[c] = "idle"

(* A terminal transition is the last one: a session that reads completed   *)
(* does so for as long as it is known.                                     *)
CompletedIsFinal ==
  [][\A s \in SessionIDs :
       Known(s) /\ sessions[s].status = "completed" => sessions'[s] \in {sessions[s], NoSession}]_sessions
==============================================================================
