------------------------------ MODULE AuthStore ------------------------------
(***************************************************************************)
(* FileStore (internal/auth/auth_store.go) and its lockSets                *)
(* (internal/auth/profile_lock.go): the encrypted credentials of every     *)
(* profile in one JSON file, rewritten as a whole by every save.           *)
(*                                                                         *)
(* A caller is the goroutine of one HTTP request or device-code poll.  A   *)
(* save takes the lock of its profile, then the lock of the store, reads   *)
(* the file, replaces its own record and renames a synced temporary file   *)
(* over the old one.  Loads take no lock.  The locks are channels of       *)
(* capacity one that hold a token while free; they do not know who took    *)
(* it.  A wait for a lock ends when the token is taken, when the context   *)
(* is done or after five seconds, whichever the runtime picks.             *)
(*                                                                         *)
(* The credential blob is opaque: encryption either yields it or fails.    *)
(*                                                                         *)
(* An operator A_Fault is A with a fault a change to the code could bring  *)
(* in; Next uses none of them.  They stand next to the action they spoil   *)
(* and show which property notices.                                        *)
(***************************************************************************)
EXTENDS Naturals, FiniteSets

CONSTANTS
  Callers,      \* goroutines that call the store
  Keys,         \* provider:projectId:profileId
  Creds,        \* credentials a caller may save
  NoCred,       \* the profile has no record
  Torn,         \* content of a file whose bytes never reached the disk
  MaxProfiles   \* records the store accepts (1000 in the code)

Stores == [Keys -> Creds \cup {NoCred}]

ASSUME CredsAssumption == NoCred \notin Creds
ASSUME TornAssumption  == Torn \notin Stores
ASSUME LimitAssumption == MaxProfiles \in Nat
ASSUME KeysAssumption  == IsFiniteSet(Keys)

VARIABLES
  pc,            \* next step of each caller
  req,           \* the call each caller is in
  copy,          \* the caller's updated copy of the store
  synced,        \* the caller's temporary file has been fsynced
  result,        \* how the caller's last call ended
  got,           \* what its last load returned
  profileToken,  \* FileStore.locks: the token is in the channel
  storeToken,    \* FileStore.storeLock: the token is in the channel
  file,          \* auth-profiles.json as the process sees it
  survivors      \* contents a power loss may leave under that name

callerVars == <<pc, req, copy, synced, result, got>>
lockVars   == <<profileToken, storeToken>>
diskVars   == <<file, survivors>>
vars       == <<callerVars, lockVars, diskVars>>

Empty    == [k \in Keys |-> NoCred]
Requests == [op : {"save"}, key : Keys, cred : Creds] \cup [op : {"load"}, key : Keys]
NoReq    == [op |-> "none"]
Steps    == {"idle", "load", "lockProfile", "lockStore", "read", "writeTemp",
             "syncTemp", "rename", "syncDir", "releaseStore", "releaseProfile"}

Profiles(s) == {k \in Keys : s[k] # NoCred}

Init ==
  /\ pc = [c \in Callers |-> "idle"]
  /\ req = [c \in Callers |-> NoReq]
  /\ copy = [c \in Callers |-> Empty]
  /\ synced = [c \in Callers |-> FALSE]
  /\ result = [c \in Callers |-> "none"]
  /\ got = [c \in Callers |-> NoCred]
  /\ profileToken = [k \in Keys |-> TRUE]
  /\ storeToken = TRUE
  /\ file = Empty
  /\ survivors = {Empty}

Goto(c, from, to) ==
  /\ pc[c] = from
  /\ pc' = [pc EXCEPT ![c] = to]

Return(c, from, res) ==
  /\ Goto(c, from, "idle")
  /\ req' = [req EXCEPT ![c] = NoReq]
  /\ result' = [result EXCEPT ![c] = res]
  /\ UNCHANGED <<copy, synced, storeToken, diskVars>>

Begin(c, first, r) ==
  /\ Goto(c, "idle", first)
  /\ req' = [req EXCEPT ![c] = r]
  /\ result' = [result EXCEPT ![c] = "none"]
  /\ got' = [got EXCEPT ![c] = NoCred]
  /\ UNCHANGED <<copy, synced, lockVars, diskVars>>

------------------------------------------------------------------------------
(* LoadProviderCredential: no lock is taken.                               *)

LoadProviderCredential(c) ==
  \E k \in Keys : Begin(c, "load", [op |-> "load", key |-> k])

\* readStore accepts the file; a missing file reads as the empty store.
Readable(f) == f # Torn /\ Cardinality(Profiles(f)) <= MaxProfiles

LoadReads(c) ==
  /\ Return(c, "load", "ok")
  /\ Readable(file)
  /\ got' = [got EXCEPT ![c] = file[req[c].key]]
  /\ UNCHANGED profileToken

\* The context is done, the file cannot be read or decrypted.
LoadFails(c) ==
  /\ Return(c, "load", "error")
  /\ UNCHANGED <<got, profileToken>>

------------------------------------------------------------------------------
(* SaveProviderCredential.                                                 *)

SaveProviderCredential(c) ==
  \E k \in Keys, cred \in Creds :
    Begin(c, "lockProfile", [op |-> "save", key |-> k, cred |-> cred])

AcquireProfile(c) ==
  /\ Goto(c, "lockProfile", "lockStore")
  /\ profileToken[req[c].key]
  /\ profileToken' = [profileToken EXCEPT ![req[c].key] = FALSE]
  /\ UNCHANGED <<req, copy, synced, result, got, storeToken, diskVars>>

AcquireStore_Skipped(c) ==
  /\ Goto(c, "lockStore", "read")
  /\ UNCHANGED <<req, copy, synced, result, got, lockVars, diskVars>>

AcquireStore(c) ==
  /\ Goto(c, "lockStore", "read")
  /\ storeToken
  /\ storeToken' = FALSE
  /\ UNCHANGED <<req, copy, synced, result, got, profileToken, diskVars>>

GiveUpProfile_NoTimer(c) == FALSE

\* ctx.Done or the timer ends a wait; the deferred releases run for what is held.
GiveUpProfile(c) ==
  /\ Return(c, "lockProfile", "error")
  /\ UNCHANGED <<got, profileToken>>

GiveUpStore(c) ==
  /\ Goto(c, "lockStore", "releaseProfile")
  /\ result' = [result EXCEPT ![c] = "error"]
  /\ UNCHANGED <<req, copy, synced, got, lockVars, diskVars>>

Fits_OffByOne(f, k) == f[k] # NoCred \/ Cardinality(Profiles(f)) <= MaxProfiles

\* An existing record is replaced; a new one needs room.
Fits(f, k) == f[k] # NoCred \/ Cardinality(Profiles(f)) < MaxProfiles

ReadAndUpdate(c) ==
  /\ Goto(c, "read", "writeTemp")
  /\ Readable(file)
  /\ Fits(file, req[c].key)
  /\ copy' = [copy EXCEPT ![c] = [file EXCEPT ![req[c].key] = req[c].cred]]
  /\ UNCHANGED <<req, synced, result, got, lockVars, diskVars>>

WriteTemp(c) ==
  /\ Goto(c, "writeTemp", "syncTemp")
  /\ UNCHANGED <<req, copy, synced, result, got, lockVars, diskVars>>

SyncTemp(c) ==
  /\ Goto(c, "syncTemp", "rename")
  /\ synced' = [synced EXCEPT ![c] = TRUE]
  /\ UNCHANGED <<req, copy, result, got, lockVars, diskVars>>

\* writeStore returns: the copy and the temporary file go with it.
DropCopy(c) ==
  /\ copy' = [copy EXCEPT ![c] = Empty]
  /\ synced' = [synced EXCEPT ![c] = FALSE]

SaveFails_KeepsStoreLock(c) ==
  /\ pc[c] \in {"read", "writeTemp", "syncTemp", "rename"}
  /\ pc' = [pc EXCEPT ![c] = "releaseProfile"]
  /\ result' = [result EXCEPT ![c] = "error"]
  /\ DropCopy(c)
  /\ UNCHANGED <<req, got, lockVars, diskVars>>

SaveFails_AfterRename(c) ==
  /\ pc[c] \in {"read", "writeTemp", "syncTemp", "rename", "syncDir"}
  /\ pc' = [pc EXCEPT ![c] = "releaseStore"]
  /\ result' = [result EXCEPT ![c] = "error"]
  /\ DropCopy(c)
  /\ UNCHANGED <<req, got, lockVars, diskVars>>

\* Reading, encrypting, the limits or any system call before the rename fails.
SaveFails(c) ==
  /\ pc[c] \in {"read", "writeTemp", "syncTemp", "rename"}
  /\ pc' = [pc EXCEPT ![c] = "releaseStore"]
  /\ result' = [result EXCEPT ![c] = "error"]
  /\ DropCopy(c)
  /\ UNCHANGED <<req, got, lockVars, diskVars>>

\* A rename of an unsynced file could surface after a power loss as a torn one.
RenameTemp(c) ==
  /\ Goto(c, "rename", "syncDir")
  /\ file' = copy[c]
  /\ survivors' = survivors \cup {copy[c]} \cup (IF synced[c] THEN {} ELSE {Torn})
  /\ result' = [result EXCEPT ![c] = "ok"]
  /\ UNCHANGED <<req, copy, synced, got, lockVars>>

\* fsyncDir; its error is dropped, so the save succeeds either way.
SyncDir(c) ==
  /\ Goto(c, "syncDir", "releaseStore")
  /\ survivors' \in {{file}, survivors}
  /\ DropCopy(c)
  /\ UNCHANGED <<req, result, got, lockVars, file>>

ReleaseStore(c) ==
  /\ Goto(c, "releaseStore", "releaseProfile")
  /\ storeToken' = TRUE
  /\ UNCHANGED <<req, copy, synced, result, got, profileToken, diskVars>>

ReleaseProfile(c) ==
  /\ Return(c, "releaseProfile", result[c])
  /\ profileToken' = [profileToken EXCEPT ![req[c].key] = TRUE]
  /\ UNCHANGED got

------------------------------------------------------------------------------
(* The process dies and starts again: goroutines and locks are gone.  A    *)
(* power loss also forgets renames no successful fsyncDir followed.        *)

Restart ==
  /\ pc' = [c \in Callers |-> "idle"]
  /\ result' = [c \in Callers |-> "none"]
  /\ got' = [c \in Callers |-> NoCred]
  /\ profileToken' = [k \in Keys |-> TRUE]
  /\ storeToken' = TRUE
  /\ req' = [c \in Callers |-> NoReq]
  /\ copy' = [c \in Callers |-> Empty]
  /\ synced' = [c \in Callers |-> FALSE]

Crash == Restart /\ UNCHANGED diskVars

PowerLoss ==
  /\ Restart
  /\ file' \in survivors
  /\ survivors' = {file'}

------------------------------------------------------------------------------
Step(c) ==
  \/ AcquireProfile(c) \/ GiveUpProfile(c)
  \/ AcquireStore(c) \/ GiveUpStore(c)
  \/ ReadAndUpdate(c) \/ WriteTemp(c) \/ SyncTemp(c) \/ SaveFails(c)
  \/ RenameTemp(c) \/ SyncDir(c) \/ ReleaseStore(c) \/ ReleaseProfile(c)
  \/ LoadReads(c) \/ LoadFails(c)

Next ==
  \/ \E c \in Callers : SaveProviderCredential(c) \/ LoadProviderCredential(c) \/ Step(c)
  \/ Crash
  \/ PowerLoss

Spec == Init /\ [][Next]_vars

(***************************************************************************)
(* A call that is under way is scheduled until it returns: system calls    *)
(* end, and the timer of a wait for a lock always fires.  Nothing obliges  *)
(* callers to call, nor the runtime to hand a token to a given waiter.     *)
(***************************************************************************)
FairSpec == Spec /\ \A c \in Callers : WF_vars(Step(c))

------------------------------------------------------------------------------
TypeOK ==
  /\ pc \in [Callers -> Steps]
  /\ req \in [Callers -> Requests \cup {NoReq}]
  /\ copy \in [Callers -> Stores]
  /\ synced \in [Callers -> BOOLEAN]
  /\ result \in [Callers -> {"none", "ok", "error"}]
  /\ got \in [Callers -> Creds \cup {NoCred}]
  /\ profileToken \in [Keys -> BOOLEAN]
  /\ storeToken \in BOOLEAN
  /\ file \in Stores
  /\ survivors \subseteq Stores

Updating(c)   == pc[c] \in {"writeTemp", "syncTemp", "rename"}
HoldsStore(c) == Updating(c) \/ pc[c] \in {"read", "syncDir", "releaseStore"}

HoldsProfile(c, k) ==
  /\ HoldsStore(c) \/ pc[c] \in {"lockStore", "releaseProfile"}
  /\ req[c].key = k

\* Two saves never hold the store's lock, nor the lock of one profile, together.
Exclusion ==
  \A c, d \in Callers :
    c # d => /\ ~(HoldsStore(c) /\ HoldsStore(d))
             /\ \A k \in Keys : ~(HoldsProfile(c, k) /\ HoldsProfile(d, k))

\* A token that is not in its channel is held by a call that will put it back.
NoTokenIsLost ==
  /\ ~storeToken => \E c \in Callers : HoldsStore(c)
  /\ \A k \in Keys : ~profileToken[k] => \E c \in Callers : HoldsProfile(c, k)

(* The locks exclude, although a channel does not know who took its token, *)
(* and no early return of SaveProviderCredential, by whichever of a timer, *)
(* a context and a failed write, keeps one or returns one it has not got.  *)
LocksAreSound == Exclusion /\ NoTokenIsLost

(* What a save is about to rename over the file is the file of this very   *)
(* moment with its own record replaced, so that no save undoes another.    *)
NoLostUpdate ==
  \A c \in Callers :
    Updating(c) => copy[c] = [file EXCEPT ![req[c].key] = req[c].cred]

(* Whatever a crash or a power loss leaves under the store's name is a     *)
(* file the next readStore accepts: whole, and within the profile limit.   *)
SurvivorsAreReadable ==
  /\ file \in survivors
  /\ \A f \in survivors : Readable(f)

(* Every call returns, however the others behave: a wait for a lock that   *)
(* never comes ends by its timer, and no lock is held for ever.            *)
EveryCallReturns ==
  \A c \in Callers : pc[c] # "idle" ~> pc[c] = "idle"

(* A save stands applied from its rename on, and a result is visible only  *)
(* once the call has returned.                                             *)
Phase == [c \in Callers |-> IF pc[c] = "idle" THEN "idle"
                            ELSE IF result[c] = "ok" THEN "applied" ELSE "pending"]
Returned == [c \in Callers |-> IF pc[c] = "idle" THEN result[c] ELSE "none"]

Promise == INSTANCE CredentialStore WITH
  store <- file, phase <- Phase, result <- Returned

(* The file, its locks and its lock-free loads behave like one atomic map  *)
(* that only forgets what no directory sync followed: saves that return    *)
(* nil took effect once, saves that return an error did not.               *)
ImplementsCredentialStore == Promise!Spec
==============================================================================
