----------------------------- MODULE TokenRefresh -----------------------------
(***************************************************************************)
(* Refresher.ResolveFreshCredential (internal/auth/token_refresh.go) for   *)
(* one OpenAI profile, with what it races: the logins that save a new      *)
(* grant into the same profile (saveOAuthCredentials,                      *)
(* internal/httpapi/routes_auth.go), the provider that replaces a refresh  *)
(* token when it is spent, and the clock.                                  *)
(*                                                                         *)
(* The profile's record is an atomic register here, which is what          *)
(* AuthStore is shown to implement (CredentialStore): a save that fails    *)
(* changes nothing, and a power loss may undo the saves whose directory    *)
(* entry was not synced.                                                   *)
(* Refresh tokens are numbered as the provider issues them; the access     *)
(* token is left out, since nothing branches on its value.                 *)
(*                                                                         *)
(* An operator A_Fault is A with a fault a change to the code could bring  *)
(* in; Next uses none of them.                                             *)
(***************************************************************************)
EXTENDS Naturals, FiniteSets

CONSTANTS
  Refreshers,  \* goroutines that resolve a credential
  Logins,      \* goroutines that complete a login
  Accounts,
  MinTTLs,     \* the validity callers ask for (one minute, one hour)
  Lifetime,    \* expires_in, as the provider sets it
  MaxTokens,   \* bound on the refresh tokens issued
  MaxTime,     \* bound on the clock
  NoAccount,   \* the token response identifies no account
  NoCred       \* no credential

Tokens      == 1 .. MaxTokens
Times       == 0 .. MaxTime + Lifetime
Credentials == [token : Tokens, account : Accounts, expires : Times]
Responses   == [token : Tokens, account : Accounts \cup {NoAccount}]

ASSUME BoundsAssumption ==
  /\ MaxTokens \in Nat /\ MaxTime \in Nat /\ Lifetime \in Nat
  /\ MinTTLs \subseteq Nat
ASSUME NoCredAssumption    == NoCred \notin Credentials \cup Responses
ASSUME NoAccountAssumption == NoAccount \notin Accounts

VARIABLES
  now,
  stored,    \* the profile's credential in the store
  survivors, \* the credentials a power loss may leave there
  lockFree,  \* Refresher.locks: the profile's token is in its channel
  pc,        \* next step of each refresher
  min,       \* the validity it asks for
  current,   \* the credential it last loaded
  updated,   \* the provider's response, then the credential made of it
  granted,   \* the credential a login is about to save
  issued,    \* refresh tokens issued so far
  spent,     \* refresh tokens the provider has replaced
  orphans    \* spent tokens whose replacement was lost on its way to the store

callVars     == <<pc, min, current, updated>>
providerVars == <<issued, spent>>
storeVars    == <<stored, survivors>>
vars == <<now, storeVars, lockFree, callVars, granted, providerVars, orphans>>

Init ==
  /\ now = 0
  /\ stored = NoCred
  /\ survivors = {NoCred}
  /\ lockFree = TRUE
  /\ pc = [r \in Refreshers |-> "idle"]
  /\ min \in [Refreshers -> MinTTLs]
  /\ current = [r \in Refreshers |-> NoCred]
  /\ updated = [r \in Refreshers |-> NoCred]
  /\ granted = [l \in Logins |-> NoCred]
  /\ issued = 0
  /\ spent = {}
  /\ orphans = {}

Goto(r, from, to) ==
  /\ pc[r] = from
  /\ pc' = [pc EXCEPT ![r] = to]

Forget(r) ==
  /\ current' = [current EXCEPT ![r] = NoCred]
  /\ updated' = [updated EXCEPT ![r] = NoCred]

Fresh(r, credential) == credential.expires > now + min[r]

------------------------------------------------------------------------------
(* The first look takes no lock.                                           *)

ResolveFreshCredential(r) ==
  /\ Goto(r, "idle", "look")
  /\ \E ttl \in MinTTLs : min' = [min EXCEPT ![r] = ttl]
  /\ UNCHANGED <<now, storeVars, lockFree, current, updated, granted, providerVars, orphans>>

LookFresh(r) ==
  /\ Goto(r, "look", "idle")
  /\ stored # NoCred /\ Fresh(r, stored)
  /\ UNCHANGED <<now, storeVars, lockFree, min, current, updated, granted, providerVars, orphans>>

LookStale(r) ==
  /\ Goto(r, "look", "wait")
  /\ stored # NoCred /\ ~Fresh(r, stored)
  /\ current' = [current EXCEPT ![r] = stored]
  /\ UNCHANGED <<now, storeVars, lockFree, min, updated, granted, providerVars, orphans>>

\* There is no such profile, or the store cannot be read.
LookFails(r) ==
  /\ Goto(r, "look", "idle")
  /\ UNCHANGED <<now, storeVars, lockFree, min, current, updated, granted, providerVars, orphans>>

------------------------------------------------------------------------------
(* The lock of the profile is held from the second look to the return.     *)

Acquire(r) ==
  /\ Goto(r, "wait", "recheck")
  /\ lockFree
  /\ lockFree' = FALSE
  /\ UNCHANGED <<now, storeVars, min, current, updated, granted, providerVars, orphans>>

GiveUp_NoTimer(r) == FALSE

\* The context is done or five seconds have passed.
GiveUp(r) ==
  /\ Goto(r, "wait", "idle")
  /\ Forget(r)
  /\ UNCHANGED <<now, storeVars, lockFree, min, granted, providerVars, orphans>>

RecheckFresh(r) ==
  /\ Goto(r, "recheck", "release")
  /\ stored # NoCred /\ Fresh(r, stored)
  /\ UNCHANGED <<now, storeVars, lockFree, min, current, updated, granted, providerVars, orphans>>

RecheckStale_TrustsFirstLook(r) ==
  /\ Goto(r, "recheck", "post")
  /\ UNCHANGED <<now, storeVars, lockFree, min, current, updated, granted, providerVars, orphans>>

RecheckStale(r) ==
  /\ Goto(r, "recheck", "post")
  /\ stored # NoCred /\ ~Fresh(r, stored)
  /\ current' = [current EXCEPT ![r] = stored]
  /\ UNCHANGED <<now, storeVars, lockFree, min, updated, granted, providerVars, orphans>>

RecheckFails(r) ==
  /\ Goto(r, "recheck", "release")
  /\ UNCHANGED <<now, storeVars, lockFree, min, current, updated, granted, providerVars, orphans>>

\* The request reaches the provider, which replaces a token it is shown once.
Post(r) ==
  /\ Goto(r, "post", "response")
  /\ issued < MaxTokens
  /\ current[r].token \notin spent
  /\ issued' = issued + 1
  /\ spent' = spent \cup {current[r].token}
  /\ \E a \in Accounts \cup {NoAccount} :
       updated' = [updated EXCEPT ![r] = [token |-> issued + 1, account |-> a]]
  /\ UNCHANGED <<now, storeVars, lockFree, min, current, granted, orphans>>

\* It does not reach the provider, or the provider refuses the token.
PostFails(r) ==
  /\ Goto(r, "post", "release")
  /\ UNCHANGED <<now, storeVars, lockFree, min, current, updated, granted, providerVars, orphans>>

LosesReplacement(r) == orphans' = orphans \cup {current[r].token}

\* The response is cut by the timeout or the caller's context, or malformed.
LoseResponse(r) ==
  /\ Goto(r, "response", "release")
  /\ LosesReplacement(r)
  /\ UNCHANGED <<now, storeVars, lockFree, min, current, updated, granted, providerVars>>

AccountChanged(r) == updated[r].account \notin {NoAccount, current[r].account}

\* A response that names no account inherits the one that was loaded.
Receive(r) ==
  /\ Goto(r, "response", "save")
  /\ ~AccountChanged(r)
  /\ updated' = [updated EXCEPT ![r] =
       [token |-> @.token, account |-> current[r].account, expires |-> now + Lifetime]]
  /\ UNCHANGED <<now, storeVars, lockFree, min, current, granted, providerVars, orphans>>

\* ERR_ACCOUNT_ID_CHANGED: the replacement is dropped with the response.
RejectAccount(r) ==
  /\ Goto(r, "response", "release")
  /\ AccountChanged(r)
  /\ LosesReplacement(r)
  /\ UNCHANGED <<now, storeVars, lockFree, min, current, updated, granted, providerVars>>

\* The directory is synced after the rename, or its error is dropped and what it had may come back.
Put(credential) ==
  /\ stored' = credential
  /\ survivors' \in {{credential}, survivors \cup {credential}}

Save_KeepsOldToken(r) ==
  /\ Goto(r, "save", "release")
  /\ Put([updated[r] EXCEPT !.token = current[r].token])
  /\ UNCHANGED <<now, lockFree, min, current, updated, granted, providerVars, orphans>>

Save(r) ==
  /\ Goto(r, "save", "release")
  /\ Put(updated[r])
  /\ UNCHANGED <<now, lockFree, min, current, updated, granted, providerVars, orphans>>

\* A lock of the store times out, the context is done, the disk fails.
SaveFails(r) ==
  /\ Goto(r, "save", "release")
  /\ LosesReplacement(r)
  /\ UNCHANGED <<now, storeVars, lockFree, min, current, updated, granted, providerVars>>

Release(r) ==
  /\ Goto(r, "release", "idle")
  /\ lockFree' = TRUE
  /\ Forget(r)
  /\ UNCHANGED <<now, storeVars, min, granted, providerVars, orphans>>

------------------------------------------------------------------------------
(* Logins do not take the refresher's lock.                                *)

\* The provider exchanges an authorization code for a grant of its own.
ExchangeAuthorizationCode(l) ==
  /\ granted[l] = NoCred
  /\ issued < MaxTokens
  /\ issued' = issued + 1
  /\ \E a \in Accounts :
       granted' = [granted EXCEPT ![l] =
         [token |-> issued + 1, account |-> a, expires |-> now + Lifetime]]
  /\ UNCHANGED <<now, storeVars, lockFree, callVars, spent, orphans>>

SaveOAuthCredentials(l) ==
  /\ granted[l] # NoCred
  /\ granted' = [granted EXCEPT ![l] = NoCred]
  /\ Put(granted[l]) \/ UNCHANGED storeVars   \* the save succeeds, or fails
  /\ UNCHANGED <<now, lockFree, callVars, providerVars, orphans>>

------------------------------------------------------------------------------
InFlight(r) == pc[r] \in {"response", "save"}

\* The process dies: so do its locks and what it had not saved.
Restart ==
  /\ lockFree' = TRUE
  /\ pc' = [r \in Refreshers |-> "idle"]
  /\ current' = [r \in Refreshers |-> NoCred]
  /\ updated' = [r \in Refreshers |-> NoCred]
  /\ granted' = [l \in Logins |-> NoCred]
  /\ UNCHANGED <<now, min, providerVars>>

Cut == {current[r].token : r \in {q \in Refreshers : InFlight(q)}}

Crash ==
  /\ Restart
  /\ orphans' = orphans \cup Cut
  /\ UNCHANGED storeVars

\* A credential that comes back has lost what was saved over it, its token's replacement included.
PowerLoss ==
  /\ Restart
  /\ stored' \in survivors
  /\ survivors' = {stored'}
  /\ orphans' = orphans \cup Cut \cup (IF stored' \in {stored, NoCred} THEN {} ELSE {stored'.token} \cap spent)

Tick ==
  /\ now < MaxTime
  /\ now' = now + 1
  /\ UNCHANGED <<storeVars, lockFree, callVars, granted, providerVars, orphans>>

------------------------------------------------------------------------------
Step(r) ==
  \/ LookFresh(r) \/ LookStale(r) \/ LookFails(r)
  \/ Acquire(r) \/ GiveUp(r)
  \/ RecheckFresh(r) \/ RecheckStale(r) \/ RecheckFails(r)
  \/ Post(r) \/ PostFails(r)
  \/ Receive(r) \/ LoseResponse(r) \/ RejectAccount(r)
  \/ Save(r) \/ SaveFails(r) \/ Release(r)

Next ==
  \/ \E r \in Refreshers : ResolveFreshCredential(r) \/ Step(r)
  \/ \E l \in Logins : ExchangeAuthorizationCode(l) \/ SaveOAuthCredentials(l)
  \/ Crash
  \/ PowerLoss
  \/ Tick

Spec == Init /\ [][Next]_vars

(* Every wait of a call has a timer: five seconds for the lock, thirty for *)
(* the provider.  Nothing obliges the lock to pass to a given waiter.      *)
FairSpec == Spec /\ \A r \in Refreshers : WF_vars(Step(r))

------------------------------------------------------------------------------
TypeOK ==
  /\ now \in 0 .. MaxTime
  /\ stored \in Credentials \cup {NoCred}
  /\ survivors \subseteq Credentials \cup {NoCred}
  /\ lockFree \in BOOLEAN
  /\ pc \in [Refreshers -> {"idle", "look", "wait", "recheck", "post", "response", "save", "release"}]
  /\ min \in [Refreshers -> MinTTLs]
  /\ current \in [Refreshers -> Credentials \cup {NoCred}]
  /\ updated \in [Refreshers -> Credentials \cup Responses \cup {NoCred}]
  /\ granted \in [Logins -> Credentials \cup {NoCred}]
  /\ issued \in 0 .. MaxTokens
  /\ spent \subseteq Tokens
  /\ orphans \subseteq spent

HoldsLock(r) == InFlight(r) \/ pc[r] \in {"recheck", "post", "release"}

(* One refresh of the profile at a time, and the lock is taken exactly as  *)
(* long as a call holds it, whichever way the call ends.                   *)
SingleFlight ==
  /\ \A r, q \in Refreshers : HoldsLock(r) /\ HoldsLock(q) => r = q
  /\ lockFree <=> ~\E r \in Refreshers : HoldsLock(r)

(* However calls, logins and restarts interleave, no refresh token is shown *)
(* to the provider again after it was replaced, unless the replacement was  *)
(* lost before the store had it, or by the store in a power loss.           *)
NoTokenIsSpentTwice ==
  \A r \in Refreshers :
    pc[r] = "post" => current[r].token \notin spent \ orphans

(* Outside the window in which its replacement is on the way, the stored   *)
(* token is one the provider still accepts, or one whose replacement was   *)
(* lost on its way or in a power loss: no save ever puts a spent token     *)
(* back.                                                                   *)
StoredTokenIsUsable ==
  stored # NoCred /\ stored.token \in spent \ orphans =>
    \E r \in Refreshers : InFlight(r) /\ current[r].token = stored.token

(* Every call returns, although the lock may be held for longer than a     *)
(* waiter waits.                                                           *)
EveryResolveReturns ==
  \A r \in Refreshers : pc[r] # "idle" ~> pc[r] = "idle"

(* A refresh preserves the account of the profile: the credential it saves *)
(* belongs to the account the profile has at that moment.                  *)
RefreshPreservesAccount ==
  [][\A r \in Refreshers : Save(r) => stored'.account = stored.account]_stored
==============================================================================
