--------------------------- MODULE CredentialStore ---------------------------
(***************************************************************************)
(* What the ProfileStore interface (internal/auth/auth_store.go) promises  *)
(* its callers: one map from profiles to credentials, on which every save  *)
(* and every load takes effect at a single instant between its call and    *)
(* its return.  A save that returns nil took effect exactly once, a save   *)
(* that returns an error took no effect at all.  A crash of the process    *)
(* forgets the calls in flight and nothing else; a power loss may also     *)
(* take back the changes the directory entry has not been synced for.      *)
(* AuthStore implements this specification with a JSON file and two locks. *)
(***************************************************************************)
CONSTANTS
  Callers,  \* goroutines that call the store
  Keys,     \* provider:projectId:profileId
  Creds,    \* credentials a caller may save
  NoCred    \* the profile has no record

VARIABLES
  store,      \* the credential of every profile
  survivors,  \* the maps a power loss may leave behind
  phase,      \* where each call stands
  req,        \* what each call asks for
  result,     \* how the last call of each caller ended
  got         \* what its last load read

vars == <<store, survivors, phase, req, result, got>>

Stores   == [Keys -> Creds \cup {NoCred}]
Requests == [op : {"save"}, key : Keys, cred : Creds] \cup [op : {"load"}, key : Keys]
NoReq    == [op |-> "none"]

Init ==
  /\ store = [k \in Keys |-> NoCred]
  /\ survivors = {store}
  /\ phase = [c \in Callers |-> "idle"]
  /\ req = [c \in Callers |-> NoReq]
  /\ result = [c \in Callers |-> "none"]
  /\ got = [c \in Callers |-> NoCred]

Call(c) ==
  /\ phase[c] = "idle"
  /\ phase' = [phase EXCEPT ![c] = "pending"]
  /\ \E r \in Requests : req' = [req EXCEPT ![c] = r]
  /\ result' = [result EXCEPT ![c] = "none"]
  /\ got' = [got EXCEPT ![c] = NoCred]
  /\ UNCHANGED <<store, survivors>>

\* The instant at which a save takes effect: only its own profile changes.
Apply(c) ==
  /\ phase[c] = "pending" /\ req[c].op = "save"
  /\ phase' = [phase EXCEPT ![c] = "applied"]
  /\ store' = [store EXCEPT ![req[c].key] = req[c].cred]
  /\ survivors' = survivors \cup {store'}
  /\ UNCHANGED <<req, result, got>>

Return(c, res) ==
  /\ phase' = [phase EXCEPT ![c] = "idle"]
  /\ req' = [req EXCEPT ![c] = NoReq]
  /\ result' = [result EXCEPT ![c] = res]
  /\ UNCHANGED <<store, survivors>>

Acknowledge(c) ==
  /\ phase[c] = "applied"
  /\ Return(c, "ok")
  /\ UNCHANGED got

\* The instant of a load: it returns what the map holds now.
Read(c) ==
  /\ phase[c] = "pending" /\ req[c].op = "load"
  /\ Return(c, "ok")
  /\ got' = [got EXCEPT ![c] = store[req[c].key]]

Refuse(c) ==
  /\ phase[c] = "pending"
  /\ Return(c, "error")
  /\ UNCHANGED got

Sync ==
  /\ survivors' = {store}
  /\ UNCHANGED <<store, phase, req, result, got>>

ForgetCalls ==
  /\ phase' = [c \in Callers |-> "idle"]
  /\ result' = [c \in Callers |-> "none"]
  /\ got' = [c \in Callers |-> NoCred]
  /\ req' = [c \in Callers |-> NoReq]

Crash == ForgetCalls /\ UNCHANGED <<store, survivors>>

PowerLoss ==
  /\ ForgetCalls
  /\ \E s \in survivors : store' = s /\ survivors' = {s}

Next ==
  \/ \E c \in Callers :
       Call(c) \/ Apply(c) \/ Acknowledge(c) \/ Read(c) \/ Refuse(c)
  \/ Sync \/ Crash \/ PowerLoss

Spec == Init /\ [][Next]_vars
==============================================================================
