----------------------------- MODULE ClientToken -----------------------------
(***************************************************************************)
(* The server-wide client token: ClientTokenStore                          *)
(* (internal/auth/client_token.go), the two places of the HTTP handler     *)
(* that consult it (authorized and handleClientTokenRotate,                *)
(* internal/httpapi/server.go) and the SDK client that keeps the value of  *)
(* the last rotation (pkg/client/auth.go).                                 *)
(*                                                                         *)
(* Tokens are numbered in the order the server draws them; token 0 is the  *)
(* one of the environment.  A digest stands for the token it is of: only   *)
(* equality is ever asked of it.  The temporary file of persist is private *)
(* to the rotation until the rename, so that everything before the rename  *)
(* is one step that happens or fails.                                      *)
(*                                                                         *)
(* An operator A_Fault is A with a fault a change to the code could bring  *)
(* in; Next uses none of them.                                             *)
(***************************************************************************)
EXTENDS Naturals

CONSTANTS
  Clients,         \* SDK clients, each with its copy of the token
  Requests,        \* goroutines that serve one request after another
  MaxTokens,       \* bound on the tokens drawn
  NoFile,          \* client-token.json does not exist
  DirSyncMayFail   \* fsyncDir, whose error persist drops, may fail

Bootstrap == 0
Tokens    == 0 .. MaxTokens
Files     == Tokens \cup {NoFile}

ASSUME ClientsAssumption == Clients # {}
ASSUME BoundAssumption   == MaxTokens \in Nat
ASSUME NoFileAssumption  == NoFile \notin Nat
ASSUME DirSyncAssumption == DirSyncMayFail \in BOOLEAN

VARIABLES
  digest,     \* the token the running process accepts
  locked,     \* ClientTokenStore.mu is held
  issued,     \* tokens drawn so far
  file,       \* the digest in client-token.json
  survivors,  \* what a power loss may leave under that name
  pc,         \* where each request stands
  sender,     \* the client it came from
  token,      \* the token it presents
  next,       \* the token its rotation has drawn
  reply,      \* the status it was answered with
  held,       \* the token each client sends with its next request
  revoked,    \* tokens replaced by a rotation that answered 200
  lost        \* tokens of rotations whose answer is lost, or was never given

requestVars == <<pc, sender, token, next, reply>>
diskVars    == <<file, survivors>>
ghostVars   == <<revoked, lost>>
vars == <<digest, locked, issued, diskVars, requestVars, held, ghostVars>>

NewClientTokenStore_EnvironmentWins(f) == Bootstrap

\* What NewClientTokenStore accepts after a start: the persisted digest wins.
NewClientTokenStore(f) == IF f = NoFile THEN Bootstrap ELSE f

Init ==
  /\ digest = NewClientTokenStore(NoFile)
  /\ locked = FALSE
  /\ issued = 0
  /\ file = NoFile
  /\ survivors = {NoFile}
  /\ pc = [r \in Requests |-> "idle"]
  /\ sender \in [Requests -> Clients]
  /\ token = [r \in Requests |-> Bootstrap]
  /\ next = [r \in Requests |-> Bootstrap]
  /\ reply = [r \in Requests |-> "none"]
  /\ held = [c \in Clients |-> Bootstrap]
  /\ revoked = {}
  /\ lost = {}

Goto(r, from, to) ==
  /\ pc[r] = from
  /\ pc' = [pc EXCEPT ![r] = to]

Answer(r, from, status) ==
  /\ Goto(r, from, "answered")
  /\ reply' = [reply EXCEPT ![r] = status]

------------------------------------------------------------------------------
(* doJSON reads the client's token under its lock as it sends a request.   *)

Send(r, step) ==
  /\ Goto(r, "idle", step)
  /\ \E c \in Clients : /\ sender' = [sender EXCEPT ![r] = c]
                        /\ token' = [token EXCEPT ![r] = held[c]]
  /\ next' = [next EXCEPT ![r] = Bootstrap]
  /\ reply' = [reply EXCEPT ![r] = "none"]
  /\ UNCHANGED <<digest, locked, issued, diskVars, held, ghostVars>>

\* A request of a project route: authorized compares its token with the digest.
Authorize(r) ==
  /\ ~locked
  /\ Answer(r, "call", IF token[r] = digest THEN "ok" ELSE "unauthorized")
  /\ UNCHANGED <<digest, locked, issued, diskVars, sender, token, next, held, ghostVars>>

------------------------------------------------------------------------------
(* Rotate: the mutex is held from the comparison to the activation.        *)

RejectRotation(r) ==
  /\ ~locked
  /\ token[r] # digest
  /\ Answer(r, "rotate", "unauthorized")
  /\ UNCHANGED <<digest, locked, issued, diskVars, sender, token, next, held, ghostVars>>

\* rand.Read yields no token.
DrawFails(r) ==
  /\ ~locked
  /\ token[r] = digest
  /\ Answer(r, "rotate", "failed")
  /\ UNCHANGED <<digest, locked, issued, diskVars, sender, token, next, held, ghostVars>>

BeginRotation_Unlocked(r) ==
  /\ issued < MaxTokens
  /\ token[r] = digest
  /\ Goto(r, "rotate", "persist")
  /\ issued' = issued + 1
  /\ next' = [next EXCEPT ![r] = issued + 1]
  /\ UNCHANGED <<digest, locked, diskVars, sender, token, reply, held, ghostVars>>

BeginRotation(r) ==
  /\ ~locked
  /\ issued < MaxTokens
  /\ token[r] = digest
  /\ Goto(r, "rotate", "persist")
  /\ locked' = TRUE
  /\ issued' = issued + 1
  /\ next' = [next EXCEPT ![r] = issued + 1]
  /\ UNCHANGED <<digest, diskVars, sender, token, reply, held, ghostVars>>

PersistFails_KeepsMutex(r) ==
  /\ Answer(r, "persist", "failed")
  /\ UNCHANGED <<digest, locked, issued, diskVars, sender, token, next, held, ghostVars>>

PersistFails_AfterRename(r) ==
  /\ pc[r] \in {"persist", "syncDir"}
  /\ Answer(r, pc[r], "failed")
  /\ locked' = FALSE
  /\ UNCHANGED <<digest, issued, diskVars, sender, token, next, held, ghostVars>>

\* A system call of persist up to the rename fails.
PersistFails(r) ==
  /\ Answer(r, "persist", "failed")
  /\ locked' = FALSE
  /\ UNCHANGED <<digest, issued, diskVars, sender, token, next, held, ghostVars>>

RenameToken(r) ==
  /\ Goto(r, "persist", "syncDir")
  /\ file' = next[r]
  /\ survivors' = survivors \cup {next[r]}
  /\ UNCHANGED <<digest, locked, issued, sender, token, next, reply, held, ghostVars>>

\* persist drops the error of fsyncDir.
SyncTokenDir(r) ==
  /\ Goto(r, "syncDir", "activate")
  /\ \/ survivors' = {file}
     \/ DirSyncMayFail /\ UNCHANGED survivors
  /\ UNCHANGED <<digest, locked, issued, file, sender, token, next, reply, held, ghostVars>>

Activate_KeepsDigest(r) ==
  /\ Answer(r, "activate", "ok")
  /\ revoked' = revoked \cup {digest}
  /\ locked' = FALSE
  /\ UNCHANGED <<digest, issued, diskVars, sender, token, next, held, lost>>

Activate(r) ==
  /\ Answer(r, "activate", "ok")
  /\ digest' = next[r]
  /\ revoked' = revoked \cup {digest}
  /\ locked' = FALSE
  /\ UNCHANGED <<issued, diskVars, sender, token, next, held, lost>>

------------------------------------------------------------------------------
(* The answer reaches the client, or is lost on the way.                   *)

Rotated(r) == reply[r] = "ok" /\ next[r] # Bootstrap

Receive_KeepsOldToken(r) ==
  /\ Goto(r, "answered", "idle")
  /\ UNCHANGED <<digest, locked, issued, diskVars, sender, token, next, reply, held, ghostVars>>

\* RotateClientToken keeps the new token for the requests that follow.
Receive(r) ==
  /\ Goto(r, "answered", "idle")
  /\ held' = IF Rotated(r) THEN [held EXCEPT ![sender[r]] = next[r]] ELSE held
  /\ UNCHANGED <<digest, locked, issued, diskVars, sender, token, next, reply, ghostVars>>

LoseAnswer(r) ==
  /\ Goto(r, "answered", "idle")
  /\ lost' = lost \cup (IF Rotated(r) THEN {next[r]} ELSE {})
  /\ UNCHANGED <<digest, locked, issued, diskVars, sender, token, next, reply, held, revoked>>

------------------------------------------------------------------------------
(* The process dies and starts again on the same state directory.  Answers *)
(* already written may still arrive, everything else is cut.               *)

Rotating(r) == pc[r] \in {"persist", "syncDir", "activate"}

Restart ==
  /\ digest' = NewClientTokenStore(file')
  /\ locked' = FALSE
  /\ pc' = [r \in Requests |-> IF pc[r] = "answered" THEN "answered" ELSE "idle"]
  /\ lost' = lost \cup {next[r] : r \in {q \in Requests : Rotating(q)}}
  /\ UNCHANGED <<issued, sender, token, next, reply, held, revoked>>

Crash == UNCHANGED diskVars /\ Restart

PowerLoss ==
  /\ file' \in survivors
  /\ survivors' = {file'}
  /\ Restart

------------------------------------------------------------------------------
TakesMutex(r) ==
  Authorize(r) \/ RejectRotation(r) \/ DrawFails(r) \/ BeginRotation(r)
Persists(r)   == PersistFails(r) \/ RenameToken(r) \/ SyncTokenDir(r) \/ Activate(r)

Next ==
  \/ \E r \in Requests :
       \/ Send(r, "call") \/ Send(r, "rotate")
       \/ TakesMutex(r) \/ Persists(r)
       \/ Receive(r) \/ LoseAnswer(r)
  \/ Crash
  \/ PowerLoss

Spec == Init /\ [][Next]_vars

(* System calls end; sync.Mutex hands itself over to a goroutine that has  *)
(* waited for it long enough.                                              *)
FairSpec ==
  /\ Spec
  /\ \A r \in Requests : SF_vars(TakesMutex(r)) /\ WF_vars(Persists(r))

------------------------------------------------------------------------------
TypeOK ==
  /\ digest \in Tokens
  /\ locked \in BOOLEAN
  /\ issued \in Tokens
  /\ file \in Files
  /\ survivors \subseteq Files
  /\ pc \in [Requests -> {"idle", "call", "rotate", "persist", "syncDir", "activate", "answered"}]
  /\ sender \in [Requests -> Clients]
  /\ token \in [Requests -> Tokens]
  /\ next \in [Requests -> Tokens]
  /\ reply \in [Requests -> {"none", "ok", "unauthorized", "failed"}]
  /\ held \in [Clients -> Tokens]
  /\ revoked \subseteq Tokens
  /\ lost \subseteq Tokens

(* Of rotations that present one token, one wins: whoever is replacing the *)
(* token presented the one in force, and nobody else is replacing it.      *)
OneWinner ==
  \A r \in Requests :
    Rotating(r) => /\ token[r] = digest
                   /\ \A q \in Requests : Rotating(q) => q = r

(* A token replaced by a rotation that answered 200 is never in force      *)
(* again, whatever crash, power loss and restart follow.                   *)
RevokedStaysRevoked == digest \notin revoked

(* A rotation that answers 500 has no effect, now or after any restart:    *)
(* the token it drew is neither in force nor on disk.                      *)
FailedRotationHasNoEffect ==
  \A r \in Requests :
    pc[r] = "answered" /\ reply[r] = "failed" /\ next[r] # Bootstrap =>
      next[r] \notin {digest, file} \cup survivors

(* The token in force is held by a client or on its way to one, unless it  *)
(* is the token of a rotation whose own answer was lost, or that a restart *)
(* cut after the rename.  No other loss, failure or restart locks everyone *)
(* out, and a power loss that brings back the token before brings back one *)
(* that is still held.                                                     *)
SomeoneHoldsTheToken ==
  digest \notin lost =>
    \/ \E c \in Clients : held[c] = digest
    \/ \E r \in Requests : pc[r] = "answered" /\ Rotated(r) /\ next[r] = digest

(* However the answers of rotations are delayed or overtake each other, a  *)
(* client never goes back to an older token.                               *)
ClientsMoveForward == [][\A c \in Clients : held'[c] >= held[c]]_held

(* Every request that reaches the server is answered or dies with it.      *)
EveryRequestIsAnswered ==
  \A r \in Requests : pc[r] \in {"call", "rotate"} ~> pc[r] \in {"answered", "idle"}
==============================================================================
