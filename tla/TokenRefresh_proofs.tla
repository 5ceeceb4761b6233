-------------------------- MODULE TokenRefresh_proofs --------------------------
(***************************************************************************)
(* Proofs about TokenRefresh, for any refreshers, logins, accounts and     *)
(* bounds.  The argument is about fresh tokens: a token on its way to the  *)
(* store, in a response or in the grant of a login, is held by one         *)
(* goroutine and known neither to the store nor to the provider as spent.  *)
(* It is fresh because the provider draws it after every token around, and *)
(* stays fresh because a refresh spends only the token it found in the     *)
(* store, under a lock that no other refresh holds.  A power loss ends     *)
(* whatever is on its way, and brings back no token that was never issued. *)
(***************************************************************************)
EXTENDS TokenRefresh, TLAPS

\* Steps at which a refresh works on the credential it loaded under the lock.
Refreshing(r) == InFlight(r) \/ pc[r] = "post"

\* What a call carries at each step has the type the step expects.
Carried ==
  \A r \in Refreshers :
    /\ Refreshing(r) => current[r] \in Credentials
    /\ pc[r] = "response" => updated[r] \in Responses
    /\ pc[r] = "save" => updated[r] \in Credentials

\* Every token around was issued, and the one of a refresh in flight is spent.
Issued ==
  /\ \A t \in spent : t <= issued
  /\ \A c \in survivors \cup {stored} : c # NoCred => c.token <= issued
  /\ \A r \in Refreshers : /\ Refreshing(r) => current[r].token <= issued
                           /\ InFlight(r) => current[r].token \in spent

\* A replacement on its way is unspent.
FreshResponses ==
  \A r \in Refreshers : InFlight(r) => updated[r].token <= issued /\ updated[r].token \notin spent

\* A grant on its way is unspent, and nobody else has its token.
FreshGrants ==
  \A l \in Logins : granted[l] # NoCred =>
    /\ granted[l].token <= issued /\ granted[l].token \notin spent
    /\ stored # NoCred => granted[l].token # stored.token
    /\ \A r \in Refreshers : /\ Refreshing(r) => granted[l].token # current[r].token
                             /\ InFlight(r) => granted[l].token # updated[r].token
    /\ \A k \in Logins : k # l /\ granted[k] # NoCred => granted[k].token # granted[l].token

FreshTokens == Issued /\ FreshResponses /\ FreshGrants

IInv == TypeOK /\ SingleFlight /\ Carried /\ FreshTokens /\ NoTokenIsSpentTwice /\ StoredTokenIsUsable

LEMMA Typing ==
  ASSUME IInv, [Next]_vars
  PROVE  TypeOK' /\ Carried'
<1> USE BoundsAssumption, NoCredAssumption, NoAccountAssumption
    DEF IInv, TypeOK, Carried, Refreshing, InFlight, Goto, Forget, storeVars, callVars, providerVars
<1>1. ASSUME NEW r \in Refreshers, ResolveFreshCredential(r) \/ Step(r) PROVE TypeOK' /\ Carried'
  <2> USE DEF LosesReplacement
  <2>1. CASE ResolveFreshCredential(r)
    BY <2>1 DEF ResolveFreshCredential
  <2>2. CASE LookFresh(r) \/ LookStale(r) \/ LookFails(r)
    BY <2>2 DEF LookFresh, LookStale, LookFails
  <2>3. CASE Acquire(r) \/ GiveUp(r)
    BY <2>3 DEF Acquire, GiveUp
  <2>4. CASE RecheckFresh(r) \/ RecheckStale(r) \/ RecheckFails(r)
    BY <2>4 DEF RecheckFresh, RecheckStale, RecheckFails
  <2>5. CASE Post(r)
    <3>1. PICK a \in Accounts \cup {NoAccount} :
            updated' = [updated EXCEPT ![r] = [token |-> issued + 1, account |-> a]]
      BY <2>5 DEF Post
    <3>2. issued + 1 \in Tokens /\ [token |-> issued + 1, account |-> a] \in Responses
      BY <2>5, <3>1 DEF Post, Tokens, Responses
    <3>3. current[r].token \in Tokens
      BY <2>5 DEF Post, Credentials
    <3>4. issued' \in 0 .. MaxTokens /\ spent' \subseteq Tokens /\ orphans' \subseteq spent'
      <4>1. issued' = issued + 1 /\ issued < MaxTokens /\ spent' = spent \cup {current[r].token} /\ orphans' = orphans
        BY <2>5 DEF Post
      <4>2. issued' \in 0 .. MaxTokens
        BY <4>1
      <4> QED BY <3>3, <4>1, <4>2
    <3>5. updated' \in [Refreshers -> Credentials \cup Responses \cup {NoCred}]
      BY <3>1, <3>2
    <3>6. Carried'
      BY <2>5, <3>1, <3>2 DEF Post
    <3>7. pc' \in [Refreshers -> {"idle", "look", "wait", "recheck", "post", "response", "save", "release"}]
      BY <2>5 DEF Post
    <3> QED BY <2>5, <3>4, <3>5, <3>6, <3>7 DEF Post
  <2>6. CASE PostFails(r)
    BY <2>6 DEF PostFails
  <2>7. CASE Receive(r)
    BY <2>7 DEF Receive, Credentials, Responses, Times
  <2>8. CASE LoseResponse(r) \/ RejectAccount(r) \/ SaveFails(r)
    BY <2>8 DEF LoseResponse, RejectAccount, SaveFails, FreshTokens, Issued
  <2>9. CASE Save(r)
    BY <2>9 DEF Save, Put
  <2>10. CASE Release(r)
    BY <2>10 DEF Release
  <2> QED BY <1>1, <2>1, <2>2, <2>3, <2>4, <2>5, <2>6, <2>7, <2>8, <2>9, <2>10 DEF Step
<1>2. ASSUME NEW l \in Logins, ExchangeAuthorizationCode(l) \/ SaveOAuthCredentials(l) PROVE TypeOK' /\ Carried'
  <2>1. CASE ExchangeAuthorizationCode(l)
    <3>1. PICK a \in Accounts : granted' = [granted EXCEPT ![l] =
            [token |-> issued + 1, account |-> a, expires |-> now + Lifetime]]
      BY <2>1 DEF ExchangeAuthorizationCode
    <3>2. /\ [token |-> issued + 1, account |-> a, expires |-> now + Lifetime] \in Credentials
          /\ issued' \in 0 .. MaxTokens
      BY <2>1, <3>1 DEF ExchangeAuthorizationCode, Credentials, Tokens, Times
    <3>3. UNCHANGED <<now, storeVars, lockFree, callVars, spent, orphans>>
      BY <2>1 DEF ExchangeAuthorizationCode
    <3> QED BY <1>2, <3>1, <3>2, <3>3
  <2>2. CASE SaveOAuthCredentials(l)
    BY <1>2, <2>2 DEF SaveOAuthCredentials, Put
  <2> QED BY <1>2, <2>1, <2>2
<1>3. CASE Crash \/ PowerLoss
  <2>1. orphans' \subseteq spent'
    <3>1. Cut \subseteq spent /\ spent' = spent
      BY <1>3 DEF Crash, PowerLoss, Restart, Cut, FreshTokens, Issued
    <3> QED BY <1>3, <3>1 DEF Crash, PowerLoss
  <2>2. UNCHANGED <<now, min, providerVars>>
    BY <1>3 DEF Crash, PowerLoss, Restart
  <2>3. pc' = [r \in Refreshers |-> "idle"] /\ lockFree' = TRUE
    BY <1>3 DEF Crash, PowerLoss, Restart
  <2>4. /\ current' = [r \in Refreshers |-> NoCred] /\ updated' = [r \in Refreshers |-> NoCred]
        /\ granted' = [l \in Logins |-> NoCred]
    BY <1>3 DEF Crash, PowerLoss, Restart
  <2>5. stored' \in Credentials \cup {NoCred} /\ survivors' \subseteq Credentials \cup {NoCred}
    BY <1>3 DEF Crash, PowerLoss
  <2>6. TypeOK'
    BY <2>1, <2>2, <2>3, <2>4, <2>5
  <2>7. Carried'
    BY <2>3
  <2> QED BY <2>6, <2>7
<1>4. CASE Tick
  BY <1>4 DEF Tick
<1>5. CASE UNCHANGED vars
  BY <1>5 DEF vars
<1> QED BY <1>1, <1>2, <1>3, <1>4, <1>5 DEF Next

\* A call gives back the lock it took, and only that.
LEMMA Locking ==
  ASSUME IInv, [Next]_vars
  PROVE  SingleFlight'
<1> USE DEF IInv, TypeOK, SingleFlight, HoldsLock, InFlight, Goto, callVars
<1>1. ASSUME NEW r \in Refreshers, ResolveFreshCredential(r) \/ Step(r) PROVE SingleFlight'
  <2>1. CASE Acquire(r)
    BY <2>1 DEF Acquire
  <2>2. CASE Release(r)
    BY <2>2 DEF Release
  <2>3. CASE ~ Acquire(r) /\ ~ Release(r)
    <3>1. /\ HoldsLock(r)' <=> HoldsLock(r)
          /\ \A q \in Refreshers \ {r} : pc'[q] = pc[q]
          /\ lockFree' = lockFree
      BY <1>1, <2>3 DEF Step, ResolveFreshCredential, LookFresh, LookStale, LookFails, GiveUp, RecheckFresh,
         RecheckStale, RecheckFails, Post, PostFails, Receive, LoseResponse, RejectAccount, Save, SaveFails
    <3> QED BY <3>1
  <2> QED BY <2>1, <2>2, <2>3
<1>2. CASE Crash \/ PowerLoss
  BY <1>2 DEF Crash, PowerLoss, Restart
<1>3. ASSUME UNCHANGED <<pc, lockFree>> PROVE SingleFlight'
  BY <1>3
<1>4. CASE \E l \in Logins : ExchangeAuthorizationCode(l) \/ SaveOAuthCredentials(l)
  BY <1>3, <1>4 DEF ExchangeAuthorizationCode, SaveOAuthCredentials
<1>5. CASE Tick \/ UNCHANGED vars
  BY <1>3, <1>5 DEF Tick, vars
<1> QED BY <1>1, <1>2, <1>4, <1>5 DEF Next

LEMMA TokensAreNumbers ==
  ASSUME TypeOK, Carried
  PROVE  /\ issued \in Nat /\ spent \subseteq Nat
         /\ \A c \in survivors \cup {stored} : c # NoCred => c.token \in Nat
         /\ \A r \in Refreshers : /\ Refreshing(r) => current[r].token \in Nat
                                  /\ InFlight(r) => updated[r].token \in Nat
         /\ \A l \in Logins : granted[l] # NoCred => granted[l].token \in Nat
BY BoundsAssumption DEF TypeOK, Carried, Refreshing, InFlight, Credentials, Responses, Tokens

\* The steps that draw, spend and save tokens, and those that only lose some.
LEMMA Freshness ==
  ASSUME IInv, [Next]_vars
  PROVE  FreshTokens' /\ NoTokenIsSpentTwice' /\ StoredTokenIsUsable'
<1> DEFINE Goal == FreshTokens /\ NoTokenIsSpentTwice /\ StoredTokenIsUsable
<1>0. TypeOK /\ Carried
  BY DEF IInv
<1> USE <1>0, TokensAreNumbers, NoCredAssumption
    DEF IInv, TypeOK, SingleFlight, Carried, FreshTokens, Issued, FreshResponses, FreshGrants, NoTokenIsSpentTwice,
        StoredTokenIsUsable, HoldsLock, Refreshing, InFlight, Goto, Forget, LosesReplacement, storeVars, callVars, providerVars
<1>1. ASSUME NEW r \in Refreshers, ResolveFreshCredential(r) \/ Step(r) PROVE Goal'
  <2>1. CASE ResolveFreshCredential(r) \/ LookFresh(r) \/ LookStale(r) \/ LookFails(r)
    BY <2>1 DEF ResolveFreshCredential, LookFresh, LookStale, LookFails
  <2>2. CASE Acquire(r) \/ GiveUp(r)
    BY <2>2 DEF Acquire, GiveUp
  <2>3. CASE RecheckFresh(r) \/ RecheckFails(r)
    BY <2>3 DEF RecheckFresh, RecheckFails
  <2>4. CASE RecheckStale(r)
    BY <2>4 DEF RecheckStale
  <2>5. CASE Post(r)
    <3>1. PICK c : c.token = issued + 1 /\ updated' = [updated EXCEPT ![r] = c]
      BY <2>5 DEF Post
    <3>2. /\ pc[r] = "post" /\ pc' = [pc EXCEPT ![r] = "response"]
          /\ issued' = issued + 1 /\ spent' = spent \cup {current[r].token}
          /\ UNCHANGED <<storeVars, current, granted, orphans>>
      BY <2>5 DEF Post
    <3>3. Issued'
      BY <1>1, <3>1, <3>2
    <3>4. FreshResponses'
      BY <1>1, <3>1, <3>2
    <3>5. FreshGrants'
      BY <1>1, <3>1, <3>2
    <3>6. NoTokenIsSpentTwice' /\ StoredTokenIsUsable'
      BY <1>1, <3>1, <3>2
    <3> QED BY <3>3, <3>4, <3>5, <3>6
  <2>6. CASE PostFails(r)
    BY <2>6 DEF PostFails
  <2>7. CASE Receive(r)
    <3>1. PICK c : c.token = updated[r].token /\ updated' = [updated EXCEPT ![r] = c]
      BY <2>7 DEF Receive
    <3> QED BY <1>1, <2>7, <3>1 DEF Receive
  <2>8. CASE LoseResponse(r) \/ RejectAccount(r) \/ SaveFails(r)
    BY <2>8 DEF LoseResponse, RejectAccount, SaveFails
  <2>9. CASE Save(r)
    BY <2>9 DEF Save, Put
  <2>10. CASE Release(r)
    BY <2>10 DEF Release
  <2> QED BY <1>1, <2>1, <2>2, <2>3, <2>4, <2>5, <2>6, <2>7, <2>8, <2>9, <2>10 DEF Step
<1>2. ASSUME NEW l \in Logins, ExchangeAuthorizationCode(l) PROVE Goal'
  <2>1. PICK c : c.token = issued + 1 /\ granted' = [granted EXCEPT ![l] = c]
    BY <1>2 DEF ExchangeAuthorizationCode
  <2>2. UNCHANGED <<storeVars, callVars, spent, orphans>> /\ issued' = issued + 1
    BY <1>2 DEF ExchangeAuthorizationCode
  <2>3. Issued' /\ FreshResponses' /\ NoTokenIsSpentTwice' /\ StoredTokenIsUsable'
    BY <2>2
  <2>4. FreshGrants'
    BY <1>2, <2>1, <2>2
  <2> QED BY <2>3, <2>4
<1>3. ASSUME NEW l \in Logins, SaveOAuthCredentials(l) PROVE Goal'
  BY <1>3 DEF SaveOAuthCredentials, Put
<1>4. CASE Crash \/ PowerLoss
  <2>1. /\ pc' = [r \in Refreshers |-> "idle"] /\ granted' = [l \in Logins |-> NoCred]
        /\ UNCHANGED providerVars
    BY <1>4 DEF Crash, PowerLoss, Restart
  <2>2. FreshResponses' /\ FreshGrants' /\ NoTokenIsSpentTwice'
    BY <2>1
  <2>3. stored' \in survivors \cup {stored} /\ survivors' \subseteq survivors \cup {stored}
    BY <1>4 DEF Crash, PowerLoss
  <2>4. Issued'
    BY <2>1, <2>3
  <2>5. orphans \cup Cut \subseteq orphans'
    BY <1>4 DEF Crash, PowerLoss
  <2>6. StoredTokenIsUsable'
    <3>1. CASE stored' \in {stored, NoCred}
      BY <2>1, <2>5, <3>1 DEF Cut
    <3>2. CASE stored' \notin {stored, NoCred}
      <4>1. CASE PowerLoss
        BY <2>1, <3>2, <4>1 DEF PowerLoss
      <4>2. CASE Crash
        BY <3>2, <4>2 DEF Crash
      <4> QED BY <1>4, <4>1, <4>2
    <3> QED BY <3>1, <3>2
  <2> QED BY <2>2, <2>4, <2>6
<1>5. CASE Tick \/ UNCHANGED vars
  BY <1>5 DEF Tick, vars
<1> QED BY <1>1, <1>2, <1>3, <1>4, <1>5 DEF Next

THEOREM Invariance == Spec => []IInv
<1>1. Init => IInv
  BY BoundsAssumption, NoCredAssumption
     DEF Init, IInv, TypeOK, SingleFlight, Carried, FreshTokens, Issued, FreshResponses, FreshGrants,
         NoTokenIsSpentTwice, StoredTokenIsUsable, HoldsLock, Refreshing, InFlight
<1>2. IInv /\ [Next]_vars => IInv'
  BY Typing, Locking, Freshness DEF IInv
<1> QED BY <1>1, <1>2, PTL DEF Spec

(* Every variable of the refresher keeps its type.                         *)
THEOREM TypeCorrect == Spec => []TypeOK
BY Invariance, PTL DEF IInv

(* One refresh of a profile at a time, and no early return of              *)
(* ResolveFreshCredential keeps the lock or gives back one it has not.     *)
THEOREM OneRefreshAtATime == Spec => []SingleFlight
BY Invariance, PTL DEF IInv

(* The second look under the lock, and the save before its release, keep a *)
(* replaced refresh token from being shown to the provider again, unless   *)
(* its replacement was lost, before the store had it or in a power loss.   *)
THEOREM TokensAreSpentOnce == Spec => []NoTokenIsSpentTwice
BY Invariance, PTL DEF IInv

(* No save of a refresh or a login puts a replaced token back.             *)
THEOREM StoreKeepsAUsableToken == Spec => []StoredTokenIsUsable
BY Invariance, PTL DEF IInv
================================================================================
