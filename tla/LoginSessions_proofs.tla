-------------------------- MODULE LoginSessions_proofs --------------------------
(***************************************************************************)
(* Proofs about LoginSessions, for any identifiers, callbacks, limits and  *)
(* times.  That the index and the table agree is not inductive: a callback *)
(* drops its state from the index a step after it marked the session, and  *)
(* both callbacks and goroutines mark a session they looked up long before.*)
(* IInv adds what they still know at each step: that the session was added *)
(* once, that a session about to read completed is stored, and that a state*)
(* about to be dropped leads to no pending session.                        *)
(*                                                                         *)
(* A session that has ended may be marked again.  The second half says by  *)
(* whom - Modes and StepsOfASession leave only callbacks that found the    *)
(* session before - and until when: until the last of them is done.        *)
(***************************************************************************)
EXTENDS LoginSessions, FiniteSetTheorems, TLAPS

\* Sessions, copies and goroutines are of identifiers that were drawn.
DrawnOnce ==
  /\ \A s \in SessionIDs : /\ Known(s) => s \in drawn
                           /\ device[s] # "none" => s \in drawn
  /\ \A c \in Callbacks : callback[c] # "idle" => copy[c].session \in drawn

\* Nothing is marked pending, and what is marked completed is stored.
Verdicts ==
  /\ \A c \in Callbacks :
       /\ callback[c] \in {"mark", "unindex"} => verdict[c] # "pending"
       /\ callback[c] = "mark" /\ verdict[c] = "completed" => copy[c].session \in saved
       /\ callback[c] = "unindex" =>
            (Known(copy[c].session) => sessions[copy[c].session].status # "pending")
  /\ \A s \in SessionIDs : device[s] = "saved" => s \in saved

KnownSessions == {s \in SessionIDs : Known(s)}

Bounded == IsFiniteSet(KnownSessions) /\ WithinLimit

IInv == TypeOK /\ DrawnOnce /\ Verdicts /\ IndexedIsPending /\ CompletedIsSaved

\* Marking a session with a terminal status keeps table and index in step.
LEMMA MarkingIsSound ==
  ASSUME IInv, NEW s \in drawn, NEW status \in Statuses \ {"pending"}, MarkSession(s, status),
         status = "completed" => s \in saved, saved' = saved
  PROVE  /\ sessions' \in [SessionIDs -> Sessions \cup {NoSession}]
         /\ stateIndex' \subseteq SessionIDs
         /\ \A q \in SessionIDs : Known(q)' <=> Known(q)
         /\ Known(s)' => sessions'[s].status # "pending"
         /\ \A q \in SessionIDs : Known(q)' /\ sessions'[q].status = "pending" => sessions[q].status = "pending"
         /\ IndexedIsPending' /\ CompletedIsSaved'
<1> USE NoSessionAssumption DEF IInv, TypeOK, Known
<1>1. s \in SessionIDs
  OBVIOUS
<1>2. CASE ~ Known(s)
  BY <1>2 DEF MarkSession, tableVars, IndexedIsPending, CompletedIsSaved
<1>3. CASE Known(s)
  <2>1. sessions[s] \in Sessions
    BY <1>1, <1>3
  <2> DEFINE ended == [mode |-> sessions[s].mode, status |-> status,
                       expiresAt |-> sessions[s].expiresAt, flow |-> FALSE]
  <2>2. ended \in Sessions
    BY <2>1 DEF Sessions
  <2>3. /\ sessions' = [sessions EXCEPT ![s] = ended]
        /\ stateIndex' = IF sessions[s].flow THEN stateIndex \ {s} ELSE stateIndex
    BY <1>3 DEF MarkSession
  <2>4. ended.mode = sessions[s].mode /\ ended.status = status /\ ended.flow = FALSE
    OBVIOUS
  <2> HIDE DEF ended
  <2> QED BY <1>1, <1>3, <2>1, <2>2, <2>3, <2>4 DEF IndexedIsPending, CompletedIsSaved
<1> QED BY <1>2, <1>3

\* The clean-up of addSession forgets sessions and states together.
LEMMA AddingIsSound ==
  ASSUME IInv, NEW s \in SessionIDs, NEW mode \in {"oauth", "device_code"}, StartLogin(s, mode)
  PROVE  IInv'
<1> USE NoSessionAssumption, BoundsAssumption DEF IInv, TypeOK, DrawnOnce, Known, tableVars, callbackVars
<1> DEFINE added == [mode |-> mode, status |-> "pending", expiresAt |-> now + Lifetime, flow |-> TRUE]
<1>1. added \in Sessions
  BY DEF StartLogin, Sessions, Statuses
<1>2. added.mode = mode /\ added.status = "pending" /\ added.flow = TRUE /\ added # NoSession
  BY <1>1
<1>3. /\ s \notin drawn /\ ~ Known(s)
      /\ drawn' = drawn \cup {s} /\ saved' = saved
      /\ UNCHANGED <<now, callback, copy, verdict>>
  BY DEF StartLogin
<1>4. sessions' = [q \in SessionIDs |-> IF q = s THEN added ELSE IF Stale(q) THEN NoSession ELSE sessions[q]]
  BY DEF StartLogin
<1>5. stateIndex' = {q \in stateIndex : ~Stale(q)} \cup (IF mode = "oauth" THEN {s} ELSE {})
  BY DEF StartLogin
<1>6. device' = [device EXCEPT ![s] = IF mode = "device_code" THEN "poll" ELSE "none"]
  BY DEF StartLogin
<1> HIDE DEF added
<1>7. TypeOK'
  BY <1>1, <1>3, <1>4, <1>5, <1>6
<1>8. DrawnOnce'
  BY <1>3, <1>4, <1>6
<1>9. Verdicts'
  BY <1>3, <1>4, <1>6 DEF Verdicts
<1>10. IndexedIsPending'
  BY <1>2, <1>3, <1>4, <1>5 DEF IndexedIsPending, Stale
<1>11. CompletedIsSaved'
  BY <1>2, <1>3, <1>4 DEF CompletedIsSaved
<1> QED BY <1>7, <1>8, <1>9, <1>10, <1>11

LEMMA IInvIsInductive ==
  ASSUME IInv, [Next]_vars
  PROVE  IInv'
<1> USE NoSessionAssumption, BoundsAssumption
    DEF IInv, TypeOK, DrawnOnce, Known, Goto, DeviceStep, Conclude, tableVars, callbackVars
<1>1. ASSUME NEW s \in SessionIDs, LoginSessionStatus(s) PROVE IInv'
  <2>1. /\ s \in drawn /\ MarkSession(s, "expired")
        /\ UNCHANGED <<now, drawn, saved, device, callback, copy, verdict>>
    BY <1>1 DEF LoginSessionStatus
  <2> QED BY <2>1, MarkingIsSound DEF Verdicts, Statuses
<1>2. ASSUME NEW c \in Callbacks, Mark(c) PROVE IInv'
  <2>1. /\ copy[c].session \in drawn /\ MarkSession(copy[c].session, verdict[c])
        /\ verdict[c] \in Statuses \ {"pending"} /\ (verdict[c] = "completed" => copy[c].session \in saved)
        /\ callback' = [callback EXCEPT ![c] = "unindex"]
        /\ UNCHANGED <<now, drawn, saved, device, copy, verdict>>
    BY <1>2 DEF Mark, Verdicts
  <2> QED BY <1>2, <2>1, MarkingIsSound DEF Verdicts
<1>3. ASSUME NEW s \in SessionIDs, DevicePollFails(s) \/ DeviceTimesOut(s) \/ DeviceSaveFails(s)
                                     \/ DeviceCompletes(s) PROVE IInv'
  <2>1. PICK status \in Statuses \ {"pending"} :
           /\ MarkSession(s, status)
           /\ status = "completed" => s \in saved
    BY <1>3 DEF DevicePollFails, DeviceTimesOut, DeviceSaveFails, DeviceCompletes, Verdicts, Statuses
  <2>2. /\ s \in drawn /\ device' = [device EXCEPT ![s] = "none"]
        /\ UNCHANGED <<now, drawn, saved, callback, copy, verdict>>
    BY <1>3 DEF DevicePollFails, DeviceTimesOut, DeviceSaveFails, DeviceCompletes
  <2> QED BY <2>1, <2>2, MarkingIsSound DEF Verdicts
<1>4. ASSUME NEW s \in SessionIDs, DeviceAuthorized(s) \/ DeviceSaves(s) PROVE IInv'
  BY <1>4 DEF DeviceAuthorized, DeviceSaves, Verdicts, IndexedIsPending, CompletedIsSaved
<1>5. ASSUME NEW s \in SessionIDs, NEW mode \in {"oauth", "device_code"}, StartLogin(s, mode) PROVE IInv'
  BY <1>5, AddingIsSound
<1>6. CASE RefuseLogin
  BY <1>6 DEF RefuseLogin, Verdicts, IndexedIsPending, CompletedIsSaved, Stale
<1>7. ASSUME NEW c \in Callbacks, SessionByState(c) PROVE IInv'
  <2>1. PICK s \in stateIndex :
           copy' = [copy EXCEPT ![c] = [session |-> s, expiresAt |-> sessions[s].expiresAt]]
    BY <1>7 DEF SessionByState
  <2>2. s \in drawn /\ sessions[s].expiresAt \in 0 .. MaxTime
    BY <2>1 DEF IndexedIsPending, Sessions
  <2>3. /\ callback' = [callback EXCEPT ![c] = "check"]
        /\ UNCHANGED <<now, sessions, stateIndex, drawn, saved, device, verdict>>
    BY <1>7 DEF SessionByState
  <2> QED BY <1>7, <2>1, <2>2, <2>3 DEF Verdicts, IndexedIsPending, CompletedIsSaved
<1>8. ASSUME NEW c \in Callbacks,
             CheckDeadline(c) \/ LoginDenied(c) \/ ExchangeFails(c) \/ SaveSucceeds(c) \/ SaveFails(c) PROVE IInv'
  <2>1. PICK status \in Statuses \ {"pending"} :
           /\ callback[c] # "idle" /\ callback' = [callback EXCEPT ![c] = "mark"]
           /\ verdict' = [verdict EXCEPT ![c] = status]
           /\ saved \subseteq saved' /\ saved' \subseteq drawn
           /\ status = "completed" => copy[c].session \in saved'
           /\ UNCHANGED <<now, sessions, stateIndex, drawn, device, copy>>
    BY <1>8 DEF CheckDeadline, LoginDenied, ExchangeFails, SaveSucceeds, SaveFails, Statuses
  <2> QED BY <2>1 DEF Verdicts, IndexedIsPending, CompletedIsSaved
<1>9. ASSUME NEW c \in Callbacks, BeginExchange(c) \/ ExchangeSucceeds(c) PROVE IInv'
  BY <1>9 DEF BeginExchange, ExchangeSucceeds, Verdicts, IndexedIsPending, CompletedIsSaved
<1>10. ASSUME NEW c \in Callbacks, RemoveStateIndex(c) PROVE IInv'
  <2>1. /\ callback[c] = "unindex" /\ callback' = [callback EXCEPT ![c] = "idle"]
        /\ copy' = [copy EXCEPT ![c] = NoCopy] /\ verdict' = [verdict EXCEPT ![c] = "pending"]
        /\ UNCHANGED <<now, sessions, drawn, saved, device>>
    BY <1>10 DEF RemoveStateIndex
  <2>2. stateIndex' = stateIndex
    BY <1>10 DEF RemoveStateIndex, IndexedIsPending, Verdicts
  <2> QED BY <2>1, <2>2 DEF NoCopy, Verdicts, Statuses, IndexedIsPending, CompletedIsSaved
<1>11. CASE Crash
  BY <1>11 DEF Crash, NoCopy, Verdicts, Statuses, IndexedIsPending, CompletedIsSaved
<1>12. CASE Tick \/ UNCHANGED vars
  BY <1>12 DEF Tick, vars, Verdicts, IndexedIsPending, CompletedIsSaved
<1> QED BY <1>1, <1>2, <1>3, <1>4, <1>5, <1>6, <1>7, <1>8, <1>9, <1>10, <1>11, <1>12
        DEF Next, CallbackStep, GoroutineStep

THEOREM Invariance == Spec => []IInv
<1>1. Init => IInv
  BY BoundsAssumption
     DEF Init, IInv, TypeOK, DrawnOnce, Verdicts, IndexedIsPending, CompletedIsSaved, Known, NoCopy, Statuses
<1> QED BY <1>1, IInvIsInductive, PTL DEF Spec

(* The table, the index and what callbacks and goroutines remember of them *)
(* keep their types.                                                       *)
THEOREM TypeCorrect == Spec => []TypeOK
BY Invariance, PTL DEF IInv

(* A state leads to pending sessions only, and a session that has ended    *)
(* keeps nothing of its flow, although callbacks, polls and clean-ups work *)
(* on what they looked up before.                                          *)
THEOREM IndexAgrees == Spec => []IndexedIsPending
BY Invariance, PTL DEF IInv

(* A session reads completed only once its credential is stored.           *)
THEOREM CompletionIsBacked == Spec => []CompletedIsSaved
BY Invariance, PTL DEF IInv

------------------------------------------------------------------------------
\* Only addSession makes a session known, and it has room for it.
LEMMA BoundIsInductive ==
  ASSUME IInv, Bounded, [Next]_vars
  PROVE  Bounded'
<1> USE DEF Bounded, KnownSessions, WithinLimit
<1>1. ASSUME KnownSessions' \subseteq KnownSessions PROVE Bounded'
  <2>1. /\ IsFiniteSet(KnownSessions') /\ Cardinality(KnownSessions') <= Cardinality(KnownSessions)
    BY <1>1, FS_Subset
  <2> QED BY <2>1, BoundsAssumption, FS_CardinalityType
<1>2. ASSUME NEW s \in SessionIDs, NEW mode \in {"oauth", "device_code"}, StartLogin(s, mode) PROVE Bounded'
  <2>1. IsFiniteSet(Remembered)
    BY FS_Subset DEF Remembered
  <2>2. KnownSessions' \subseteq Remembered \cup {s}
    BY <1>2 DEF StartLogin, Known, Remembered
  <2>3. /\ IsFiniteSet(Remembered \cup {s})
        /\ Cardinality(Remembered \cup {s}) <= Cardinality(Remembered) + 1
        /\ Cardinality(Remembered) \in Nat
    BY <2>1, FS_AddElement, FS_CardinalityType
  <2>4. /\ IsFiniteSet(KnownSessions') /\ Cardinality(KnownSessions') <= Cardinality(Remembered \cup {s})
        /\ Cardinality(KnownSessions') \in Nat /\ Cardinality(Remembered \cup {s}) \in Nat
    BY <2>2, <2>3, FS_Subset, FS_CardinalityType
  <2>5. Cardinality(Remembered) < MaxSessions
    BY <1>2 DEF StartLogin, Room
  <2> QED BY <2>3, <2>4, <2>5, BoundsAssumption
<1>3. ASSUME NEW s \in SessionIDs, NEW status, MarkSession(s, status) PROVE KnownSessions' \subseteq KnownSessions
  BY <1>3 DEF MarkSession, Known, tableVars, IInv, TypeOK
<1>4. ASSUME NEW s \in SessionIDs, LoginSessionStatus(s) \/ GoroutineStep(s) PROVE Bounded'
  <2>1. UNCHANGED sessions \/ \E status \in Statuses : MarkSession(s, status)
    BY <1>4 DEF LoginSessionStatus, GoroutineStep, DeviceAuthorized, DevicePollFails, DeviceTimesOut, DeviceSaves,
       DeviceSaveFails, DeviceCompletes, tableVars, Statuses
  <2> QED BY <1>1, <1>3, <2>1 DEF Known
<1>5. ASSUME NEW c \in Callbacks, SessionByState(c) \/ CallbackStep(c) PROVE Bounded'
  <2>1. CASE Mark(c)
    <3>1. copy[c].session \in SessionIDs
      BY <2>1 DEF Mark, Goto, IInv, TypeOK, DrawnOnce
    <3> QED BY <1>1, <1>3, <2>1, <3>1 DEF Mark
  <2>2. CASE ~ Mark(c)
    BY <1>1, <1>5, <2>2 DEF SessionByState, CallbackStep, CheckDeadline, LoginDenied, BeginExchange, ExchangeSucceeds,
       ExchangeFails, SaveSucceeds, SaveFails, RemoveStateIndex, Conclude, tableVars, Known
  <2> QED BY <2>1, <2>2
<1>6. CASE RefuseLogin \/ Crash
  BY <1>1, <1>6 DEF RefuseLogin, Crash, Known
<1>7. CASE Tick \/ UNCHANGED vars
  BY <1>1, <1>7 DEF Tick, vars, tableVars, Known
<1> QED BY <1>2, <1>4, <1>5, <1>6, <1>7 DEF Next

(* The limit of sessions holds at all times: addSession, the only one to   *)
(* add, looks at it after the clean-up.                                    *)
THEOREM SessionsAreBounded == Spec => []WithinLimit
<1>1. Init => Bounded
  <2>1. ASSUME Init PROVE KnownSessions = {}
    BY <2>1 DEF Init, KnownSessions, Known
  <2> QED BY <2>1, FS_EmptySet, BoundsAssumption DEF Bounded, WithinLimit, KnownSessions
<1>2. Bounded => WithinLimit
  BY DEF Bounded
<1> QED BY <1>1, <1>2, BoundIsInductive, Invariance, PTL DEF Spec

------------------------------------------------------------------------------
\* A callback found a session of its own kind, and the goroutine of a
\* device-code login finds its session pending, or expired by a poll.
Modes ==
  /\ \A c \in Callbacks :
       callback[c] # "idle" /\ Known(copy[c].session) => sessions[copy[c].session].mode = "oauth"
  /\ \A s \in SessionIDs :
       device[s] # "none" /\ Known(s) =>
         sessions[s].mode = "device_code" /\ sessions[s].status \in {"pending", "expired"}

\* What an action does to the table, as far as one session can tell.
Untouched(s) == sessions'[s] \in {sessions[s], NoSession}
Ended(s, status) == sessions'[s].mode = sessions[s].mode /\ sessions'[s].status = status

\* Marking disturbs the session it names, in its status and its flow.
LEMMA MarkingIsLocal ==
  ASSUME IInv, NEW s \in SessionIDs, NEW status \in Statuses, MarkSession(s, status)
  PROVE  /\ \A q \in SessionIDs : q # s => sessions'[q] = sessions[q]
         /\ \A q \in SessionIDs : Known(q)' <=> Known(q)
         /\ Known(s) => Ended(s, status)
<1> USE NoSessionAssumption DEF IInv, TypeOK, Known, Ended
<1>1. CASE ~ Known(s)
  BY <1>1 DEF MarkSession, tableVars
<1>2. CASE Known(s)
  <2> DEFINE ended == [mode |-> sessions[s].mode, status |-> status,
                       expiresAt |-> sessions[s].expiresAt, flow |-> FALSE]
  <2>1. ended \in Sessions /\ ended.mode = sessions[s].mode /\ ended.status = status
    <3>1. sessions[s] \in Sessions
      BY <1>2
    <3> QED BY <3>1 DEF Sessions
  <2>2. sessions' = [sessions EXCEPT ![s] = ended]
    BY <1>2 DEF MarkSession
  <2> HIDE DEF ended
  <2> QED BY <1>2, <2>1, <2>2
<1> QED BY <1>1, <1>2

\* Every step, read as what it does to each session of the table.
LEMMA StepsOfASession ==
  ASSUME IInv, [Next]_vars, NEW s \in SessionIDs
  PROVE  \/ sessions'[s] = NoSession
         \/ sessions'[s] = sessions[s]
         \/ s \notin drawn /\ \E mode \in {"oauth", "device_code"} : StartLogin(s, mode)
         \/ Known(s) /\ sessions[s].status = "pending" /\ LoginSessionStatus(s) /\ Ended(s, "expired")
         \/ Known(s) /\ \E c \in Callbacks : Mark(c) /\ copy[c].session = s /\ Ended(s, verdict[c])
         \/ /\ Known(s) /\ device[s] # "none" /\ device'[s] = "none"
            /\ \E status \in Statuses : Ended(s, status)
<1> USE NoSessionAssumption, BoundsAssumption DEF IInv, TypeOK, Known
<1>1. ASSUME NEW q \in SessionIDs, NEW mode \in {"oauth", "device_code"}, StartLogin(q, mode)
      PROVE  \/ sessions'[s] \in {NoSession, sessions[s]}
             \/ s \notin drawn /\ \E m \in {"oauth", "device_code"} : StartLogin(s, m)
  <2>1. CASE q = s
    BY <1>1, <2>1 DEF StartLogin
  <2>2. CASE q # s
    BY <1>1, <2>2 DEF StartLogin
  <2> QED BY <2>1, <2>2
<1>2. ASSUME NEW q \in SessionIDs, LoginSessionStatus(q), sessions'[s] # sessions[s]
      PROVE  Known(s) /\ sessions[s].status = "pending" /\ LoginSessionStatus(s) /\ Ended(s, "expired")
  <2>1. MarkSession(q, "expired") /\ "expired" \in Statuses /\ Known(q) /\ sessions[q].status = "pending"
    BY <1>2 DEF LoginSessionStatus, Statuses
  <2> QED BY <1>2, <2>1, MarkingIsLocal
<1>3. ASSUME NEW c \in Callbacks, Mark(c), sessions'[s] # sessions[s], sessions'[s] # NoSession
      PROVE  Known(s) /\ Mark(c) /\ copy[c].session = s /\ Ended(s, verdict[c])
  <2>1. /\ MarkSession(copy[c].session, verdict[c]) /\ verdict[c] \in Statuses
        /\ copy[c].session \in SessionIDs
    BY <1>3 DEF Mark, Goto, DrawnOnce
  <2> QED BY <1>3, <2>1, MarkingIsLocal
<1>4. ASSUME NEW q \in SessionIDs, GoroutineStep(q), sessions'[s] # sessions[s]
      PROVE  /\ Known(s) /\ device[s] # "none" /\ device'[s] = "none"
             /\ \E status \in Statuses : Ended(s, status)
  <2>1. CASE DeviceAuthorized(q) \/ DeviceSaves(q)
    BY <1>4, <2>1 DEF DeviceAuthorized, DeviceSaves, tableVars
  <2>2. CASE DevicePollFails(q) \/ DeviceTimesOut(q) \/ DeviceSaveFails(q) \/ DeviceCompletes(q)
    <3>1. /\ device[q] # "none" /\ device' = [device EXCEPT ![q] = "none"]
          /\ \E status \in Statuses : MarkSession(q, status)
      BY <2>2 DEF DevicePollFails, DeviceTimesOut, DeviceSaveFails, DeviceCompletes, DeviceStep, Statuses
    <3>2. q = s
      BY <1>4, <3>1, MarkingIsLocal
    <3>3. Known(s)
      BY <1>4, <3>1, <3>2 DEF MarkSession, tableVars
    <3> QED BY <3>1, <3>2, <3>3, MarkingIsLocal
  <2> QED BY <1>4, <2>1, <2>2 DEF GoroutineStep
<1>5. ASSUME NEW c \in Callbacks, SessionByState(c) \/ CallbackStep(c), ~ Mark(c)
      PROVE  sessions'[s] = sessions[s]
  BY <1>5 DEF SessionByState, CallbackStep, CheckDeadline, LoginDenied, BeginExchange, ExchangeSucceeds,
     ExchangeFails, SaveSucceeds, SaveFails, RemoveStateIndex, Conclude, tableVars
<1>6. CASE RefuseLogin \/ Crash \/ Tick \/ UNCHANGED vars
  BY <1>6 DEF RefuseLogin, Crash, Tick, vars, tableVars
<1> QED BY <1>1, <1>2, <1>3, <1>4, <1>5, <1>6 DEF Next, CallbackStep


\* What a callback holds it found in the index, and what a goroutine does
\* began with the login it belongs to.
LEMMA WhatActorsHold ==
  ASSUME IInv, [Next]_vars
  PROVE  /\ \A c \in Callbacks :
              callback'[c] # "idle" =>
                \/ /\ callback[c] # "idle" /\ copy'[c] = copy[c]
                   /\ callback[c] = "unindex" => callback'[c] = "unindex"
                \/ sessions' = sessions /\ copy'[c].session \in stateIndex
         /\ \A s \in SessionIDs :
              device'[s] # "none" =>
                device[s] # "none" \/ StartLogin(s, "device_code")
<1> USE DEF IInv, TypeOK, Goto, Conclude, DeviceStep, tableVars, callbackVars
<1>1. ASSUME NEW c \in Callbacks, NEW b \in Callbacks, CallbackStep(b), callback'[c] # "idle"
      PROVE  /\ callback[c] # "idle" /\ copy'[c] = copy[c]
             /\ callback[c] = "unindex" => callback'[c] = "unindex"
  <2>1. CASE RemoveStateIndex(b)
    BY <1>1, <2>1 DEF RemoveStateIndex
  <2>2. CASE ~ RemoveStateIndex(b)
    BY <1>1, <2>2 DEF CallbackStep, CheckDeadline, LoginDenied, BeginExchange, ExchangeSucceeds,
       ExchangeFails, SaveSucceeds, SaveFails, Mark
  <2> QED BY <2>1, <2>2
<1>2. ASSUME NEW c \in Callbacks, NEW b \in Callbacks, SessionByState(b), callback'[c] # "idle"
      PROVE  \/ /\ callback[c] # "idle" /\ copy'[c] = copy[c]
                /\ callback[c] = "unindex" => callback'[c] = "unindex"
             \/ sessions' = sessions /\ copy'[c].session \in stateIndex
  <2>1. PICK s \in stateIndex :
           copy' = [copy EXCEPT ![b] = [session |-> s, expiresAt |-> sessions[s].expiresAt]]
    BY <1>2 DEF SessionByState
  <2> QED BY <1>2, <2>1 DEF SessionByState
<1>3. ASSUME NEW b \in Callbacks, SessionByState(b) \/ CallbackStep(b)
      PROVE  UNCHANGED device
  BY <1>3 DEF SessionByState, CallbackStep, CheckDeadline, LoginDenied, BeginExchange, ExchangeSucceeds,
     ExchangeFails, SaveSucceeds, SaveFails, Mark, RemoveStateIndex
<1>4. ASSUME NEW q \in SessionIDs, GoroutineStep(q)
      PROVE  /\ UNCHANGED <<callback, copy>>
             /\ \A s \in SessionIDs : device'[s] # "none" => device[s] # "none"
  BY <1>4 DEF GoroutineStep, DeviceAuthorized, DevicePollFails, DeviceTimesOut, DeviceSaves,
     DeviceSaveFails, DeviceCompletes
<1>5. ASSUME NEW q \in SessionIDs, NEW mode \in {"oauth", "device_code"}, StartLogin(q, mode)
      PROVE  /\ UNCHANGED <<callback, copy>>
             /\ \A s \in SessionIDs :
                  device'[s] # "none" => device[s] # "none" \/ StartLogin(s, "device_code")
  BY <1>5 DEF StartLogin
<1>6. ASSUME NEW q \in SessionIDs, LoginSessionStatus(q) PROVE UNCHANGED <<callback, copy, device>>
  BY <1>6 DEF LoginSessionStatus
<1>7. CASE RefuseLogin \/ Tick \/ UNCHANGED vars
  BY <1>7 DEF RefuseLogin, Tick, vars
<1>8. CASE Crash
  BY <1>8 DEF Crash
<1> QED BY <1>1, <1>2, <1>3, <1>4, <1>5, <1>6, <1>7, <1>8 DEF Next

LEMMA ModesAreKept ==
  ASSUME IInv, Modes, [Next]_vars
  PROVE  Modes'
<1> USE NoSessionAssumption DEF IInv, TypeOK
<1>1. ASSUME NEW s \in SessionIDs, Known(s), Known(s)'
      PROVE  sessions'[s].mode = sessions[s].mode
  BY <1>1, StepsOfASession DEF Known, Ended, DrawnOnce
<1>2. ASSUME NEW c \in Callbacks, callback'[c] # "idle", sessions'[copy'[c].session] # NoSession
      PROVE  sessions'[copy'[c].session].mode = "oauth"
  <2>1. CASE callback[c] # "idle" /\ copy'[c] = copy[c]
    <3>1. copy[c].session \in drawn /\ copy[c].session \in SessionIDs
      BY <2>1 DEF DrawnOnce
    <3>2. Known(copy[c].session)
      BY <1>2, <2>1, <3>1, StepsOfASession DEF Known
    <3>3. sessions'[copy[c].session].mode = sessions[copy[c].session].mode
      BY <1>1, <1>2, <2>1, <3>1, <3>2 DEF Known
    <3> QED BY <2>1, <3>2, <3>3 DEF Modes
  <2>2. CASE sessions' = sessions /\ copy'[c].session \in stateIndex
    BY <2>2 DEF IndexedIsPending
  <2> QED BY <1>2, <2>1, <2>2, WhatActorsHold
<1>3. ASSUME NEW s \in SessionIDs, device'[s] # "none", Known(s)'
      PROVE  sessions'[s].mode = "device_code" /\ sessions'[s].status \in {"pending", "expired"}
  <2>1. CASE StartLogin(s, "device_code")
    BY <2>1 DEF StartLogin
  <2>2. CASE device[s] # "none"
    <3>1. s \in drawn
      BY <2>2 DEF DrawnOnce
    <3>2. Known(s)
      BY <1>3, <3>1, StepsOfASession DEF Known
    <3>3. sessions[s].mode = "device_code" /\ sessions[s].status \in {"pending", "expired"}
      BY <2>2, <3>2 DEF Modes
    <3>4. ~ \E c \in Callbacks : Mark(c) /\ copy[c].session = s
      BY <3>2, <3>3 DEF Modes, Mark, Goto
    <3> QED BY <1>1, <1>3, <3>1, <3>2, <3>3, <3>4, StepsOfASession DEF Known, Ended
  <2> QED BY <1>3, <2>1, <2>2, WhatActorsHold
<1> QED BY <1>2, <1>3 DEF Modes, Known

\* A session that reads completed or failed is overwritten by callbacks only:
\* a poll, the clean-up and the goroutine of a device-code login leave it.
LateCallbacksAlone ==
  [][\A s \in SessionIDs :
       Known(s) /\ sessions[s].status \in {"completed", "failed"} =>
         \/ Untouched(s)
         \/ sessions[s].mode = "oauth" /\ \E c \in Callbacks : Mark(c) /\ copy[c].session = s]_sessions

(* The session of a device-code login never leaves completed or failed, and *)
(* that of an OAuth login does only by a callback that found it before:     *)
(* markSessionCompleted, markSessionFailed and markSessionExpired do not    *)
(* look at the status, and no other caller of theirs is ever late.          *)
THEOREM CallbacksAloneAreLate == Spec => LateCallbacksAlone
<1>1. ASSUME IInv, Modes, [Next]_vars, NEW s \in SessionIDs,
             Known(s), sessions[s].status \in {"completed", "failed"}
      PROVE  \/ Untouched(s)
             \/ sessions[s].mode = "oauth" /\ \E c \in Callbacks : Mark(c) /\ copy[c].session = s
  <2>1. s \in drawn
    BY <1>1 DEF IInv, DrawnOnce
  <2>2. device[s] = "none"
    BY <1>1 DEF Modes
  <2>3. ASSUME NEW c \in Callbacks, Mark(c), copy[c].session = s
        PROVE  sessions[s].mode = "oauth"
    BY <1>1, <2>3 DEF Modes, Mark, Goto
  <2> QED BY <1>1, <2>1, <2>2, <2>3, StepsOfASession DEF Untouched
<1>2. Init => Modes
  BY DEF Init, Modes
<1>3. Spec => []Modes
  BY <1>2, ModesAreKept, Invariance, PTL DEF Spec
<1>4. IInv /\ Modes /\ [Next]_vars =>
        [\A s \in SessionIDs :
           Known(s) /\ sessions[s].status \in {"completed", "failed"} =>
             \/ Untouched(s)
             \/ sessions[s].mode = "oauth" /\ \E c \in Callbacks : Mark(c) /\ copy[c].session = s]_sessions
  BY <1>1
<1> QED BY <1>3, <1>4, Invariance, PTL DEF Spec, LateCallbacksAlone

------------------------------------------------------------------------------
\* A session that has ended, and that nobody who looked it up before is still to mark.
Settled(s) ==
  /\ Known(s) /\ sessions[s].status # "pending"
  /\ device[s] = "none"
  /\ \A c \in Callbacks : callback[c] \notin {"idle", "unindex"} => copy[c].session # s

\* A settled session stays as it is, and settled, until it is forgotten.
SettledIsFinal ==
  [][\A s \in SessionIDs : Settled(s) => sessions'[s] = NoSession \/ (sessions'[s] = sessions[s] /\ Settled(s)')]_vars

(* However many callbacks are served at once: what a login reads once they *)
(* and its goroutine are done with it is what it reads from then on.  No   *)
(* callback finds it any more, since its state has left the index, and no  *)
(* poll or clean-up writes a status over another.  Until then it need not  *)
(* be final: two callbacks that found it while it was pending each mark it *)
(* (CompletedIsFinal).                                                     *)
THEOREM SettledForGood == Spec => SettledIsFinal
<1>1. ASSUME IInv, [Next]_vars, NEW s \in SessionIDs, Settled(s)
      PROVE  sessions'[s] = NoSession \/ (sessions'[s] = sessions[s] /\ Settled(s)')
  <2>1. s \in drawn /\ s \notin stateIndex
    BY <1>1 DEF Settled, IInv, DrawnOnce, IndexedIsPending
  <2>2. ~ \E c \in Callbacks : Mark(c) /\ copy[c].session = s
    BY <1>1 DEF Settled, Mark, Goto
  <2>3. sessions'[s] \in {sessions[s], NoSession}
    BY <1>1, <2>1, <2>2, StepsOfASession DEF Settled
  <2>4. device'[s] = "none"
    <3>1. ~ StartLogin(s, "device_code")
      BY <2>1 DEF StartLogin
    <3> QED BY <1>1, <3>1, WhatActorsHold DEF Settled
  <2>5. ASSUME NEW c \in Callbacks, callback'[c] \notin {"idle", "unindex"}
        PROVE  copy'[c].session # s
    BY <1>1, <2>1, <2>5, WhatActorsHold DEF Settled
  <2> QED BY <1>1, <2>3, <2>4, <2>5 DEF Settled, Known
<1>2. IInv /\ [Next]_vars =>
        [\A s \in SessionIDs :
           Settled(s) => sessions'[s] = NoSession \/ (sessions'[s] = sessions[s] /\ Settled(s)')]_vars
  BY <1>1
<1> QED BY <1>2, Invariance, PTL DEF Spec, SettledIsFinal
=================================================================================
