--------------------------- MODULE AuthStore_proofs ---------------------------
(***************************************************************************)
(* Proofs about AuthStore, for any callers, profiles, credentials and      *)
(* limit.  The invariants the runs check are not inductive one by one:     *)
(* exclusion needs to know that a token in its channel is held by nobody,  *)
(* a sound file that the copy about to replace it is sound.  IInv adds     *)
(* these facts and is inductive.                                           *)
(***************************************************************************)
EXTENDS AuthStore, FiniteSetTheorems, TLAPS

SaveRequests == [op : {"save"}, key : Keys, cred : Creds]
LoadRequests == [op : {"load"}, key : Keys]

Saving(c) == pc[c] \notin {"idle", "load"}

\* A call at a step of a save is a save, one that loads is a load.
CallsAreAtTheirSteps ==
  \A c \in Callers : /\ Saving(c) => req[c] \in SaveRequests
                     /\ pc[c] = "load" => req[c] \in LoadRequests

\* A token in its channel is held by nobody.
TokensAreHeldOnce ==
  /\ storeToken => \A c \in Callers : ~HoldsStore(c)
  /\ \A k \in Keys : profileToken[k] => \A c \in Callers : ~HoldsProfile(c, k)

\* The copy a save is about to promote is synced, and the next read accepts it.
CopiesAreSound ==
  \A c \in Callers : /\ pc[c] = "rename" => synced[c]
                     /\ Updating(c) => Readable(copy[c])

Typing  == TypeOK /\ CallsAreAtTheirSteps
Locks   == Exclusion /\ TokensAreHeldOnce /\ NoTokenIsLost
Content == NoLostUpdate /\ CopiesAreSound /\ SurvivorsAreReadable

IInv == Typing /\ Locks /\ Content

------------------------------------------------------------------------------
\* Replacing a record, or adding one where there is room, keeps a store readable.
LEMMA UpdateIsReadable ==
  ASSUME NEW f \in Stores, NEW k \in Keys, NEW v \in Creds, Readable(f), Fits(f, k)
  PROVE  Readable([f EXCEPT ![k] = v])
<1> DEFINE g == [f EXCEPT ![k] = v]
<1>1. g \in Stores /\ g # Torn
  BY TornAssumption DEF Stores
<1>2. IsFiniteSet(Profiles(f))
  BY KeysAssumption, FS_Subset DEF Profiles
<1>3. Profiles(g) = Profiles(f) \cup {k}
  BY CredsAssumption DEF Profiles, Stores
<1>4. Cardinality(Profiles(f)) \in Nat
  BY <1>2, FS_CardinalityType
<1>5. CASE f[k] # NoCred
  <2>1. Profiles(g) = Profiles(f)
    BY <1>3, <1>5 DEF Profiles
  <2> QED BY <1>1, <2>1 DEF Readable
<1>6. CASE f[k] = NoCred
  <2>1. Cardinality(Profiles(g)) = Cardinality(Profiles(f)) + 1
    BY <1>2, <1>3, <1>6, FS_AddElement DEF Profiles
  <2>2. Cardinality(Profiles(f)) < MaxProfiles
    BY <1>6 DEF Fits
  <2> QED BY <1>1, <1>4, <2>1, <2>2, LimitAssumption DEF Readable
<1> QED BY <1>5, <1>6

LEMMA EmptyIsReadable == Empty \in Stores /\ Readable(Empty)
<1>1. Empty \in Stores /\ Empty # Torn
  BY TornAssumption DEF Empty, Stores
<1>2. Profiles(Empty) = {}
  BY DEF Profiles, Empty
<1> QED BY <1>1, <1>2, FS_EmptySet, LimitAssumption DEF Readable

\* A new process, with no call and every token in its channel, on a sound disk.
Fresh ==
  /\ pc = [c \in Callers |-> "idle"]
  /\ req = [c \in Callers |-> NoReq]
  /\ copy = [c \in Callers |-> Empty]
  /\ synced = [c \in Callers |-> FALSE]
  /\ result = [c \in Callers |-> "none"]
  /\ got = [c \in Callers |-> NoCred]
  /\ profileToken = [k \in Keys |-> TRUE]
  /\ storeToken = TRUE
  /\ survivors \subseteq Stores
  /\ SurvivorsAreReadable

LEMMA FreshIsSound == Fresh => IInv
<1> SUFFICES ASSUME Fresh PROVE IInv
  OBVIOUS
<1>1. Typing
  BY EmptyIsReadable
  DEF Fresh, Typing, TypeOK, CallsAreAtTheirSteps, Steps, Saving, SurvivorsAreReadable
<1>2. Locks
  BY DEF Fresh, Locks, Exclusion, TokensAreHeldOnce, NoTokenIsLost,
         HoldsStore, HoldsProfile, Updating
<1>3. Content
  BY DEF Fresh, Content, NoLostUpdate, CopiesAreSound, Updating
<1> QED
  BY <1>1, <1>2, <1>3 DEF IInv

\* One step per action; a call's step only has to care for what it touches.
LEMMA IInvIsInductive ==
  ASSUME IInv, [Next]_vars
  PROVE  IInv'
<1> USE DEF IInv, Goto, Begin, Return, DropCopy, callerVars, lockVars, diskVars
<1>1. ASSUME NEW c \in Callers, SaveProviderCredential(c) PROVE IInv'
  <2>1. Typing'
    BY <1>1
    DEF SaveProviderCredential, Typing, TypeOK, CallsAreAtTheirSteps, Saving, Steps,
        Requests, SaveRequests, LoadRequests, Stores
  <2>2. Locks'
    BY <1>1
    DEF SaveProviderCredential, Typing, TypeOK, CallsAreAtTheirSteps, Saving,
        SaveRequests, Locks, Exclusion, TokensAreHeldOnce, NoTokenIsLost, HoldsStore,
        HoldsProfile, Updating
  <2>3. Content'
    BY <1>1
    DEF SaveProviderCredential, Typing, TypeOK, CallsAreAtTheirSteps, Saving,
        SaveRequests, Content, Locks, Exclusion, NoLostUpdate, CopiesAreSound,
        SurvivorsAreReadable, HoldsStore, Updating
  <2> QED BY <2>1, <2>2, <2>3
<1>2. ASSUME NEW c \in Callers, LoadProviderCredential(c) PROVE IInv'
  <2>1. Typing'
    BY <1>2
    DEF LoadProviderCredential, Typing, TypeOK, CallsAreAtTheirSteps, Saving, Steps,
        Requests, SaveRequests, LoadRequests, Stores
  <2>2. Locks'
    BY <1>2
    DEF LoadProviderCredential, Typing, TypeOK, CallsAreAtTheirSteps, Saving,
        SaveRequests, Locks, Exclusion, TokensAreHeldOnce, NoTokenIsLost, HoldsStore,
        HoldsProfile, Updating
  <2>3. Content'
    BY <1>2
    DEF LoadProviderCredential, Typing, TypeOK, CallsAreAtTheirSteps, Saving,
        SaveRequests, Content, Locks, Exclusion, NoLostUpdate, CopiesAreSound,
        SurvivorsAreReadable, HoldsStore, Updating
  <2> QED BY <2>1, <2>2, <2>3
<1>3. ASSUME NEW c \in Callers, AcquireProfile(c) PROVE IInv'
  <2>1. Typing'
    BY <1>3
    DEF AcquireProfile, Typing, TypeOK, CallsAreAtTheirSteps, Saving, Steps,
        Requests, SaveRequests, LoadRequests, Stores
  <2>2. Locks'
    BY <1>3
    DEF AcquireProfile, Typing, TypeOK, CallsAreAtTheirSteps, Saving, SaveRequests,
        Locks, Exclusion, TokensAreHeldOnce, NoTokenIsLost, HoldsStore, HoldsProfile,
        Updating
  <2>3. Content'
    BY <1>3
    DEF AcquireProfile, Typing, TypeOK, CallsAreAtTheirSteps, Saving, SaveRequests,
        Content, Locks, Exclusion, NoLostUpdate, CopiesAreSound,
        SurvivorsAreReadable, HoldsStore, Updating
  <2> QED BY <2>1, <2>2, <2>3
<1>4. ASSUME NEW c \in Callers, GiveUpProfile(c) PROVE IInv'
  <2>1. Typing'
    BY <1>4
    DEF GiveUpProfile, Typing, TypeOK, CallsAreAtTheirSteps, Saving, Steps, Requests,
        SaveRequests, LoadRequests, Stores
  <2>2. Locks'
    BY <1>4
    DEF GiveUpProfile, Typing, TypeOK, CallsAreAtTheirSteps, Saving, SaveRequests,
        Locks, Exclusion, TokensAreHeldOnce, NoTokenIsLost, HoldsStore, HoldsProfile,
        Updating
  <2>3. Content'
    BY <1>4
    DEF GiveUpProfile, Typing, TypeOK, CallsAreAtTheirSteps, Saving, SaveRequests,
        Content, Locks, Exclusion, NoLostUpdate, CopiesAreSound,
        SurvivorsAreReadable, HoldsStore, Updating
  <2> QED BY <2>1, <2>2, <2>3
<1>5. ASSUME NEW c \in Callers, AcquireStore(c) PROVE IInv'
  <2>1. Typing'
    BY <1>5
    DEF AcquireStore, Typing, TypeOK, CallsAreAtTheirSteps, Saving, Steps, Requests,
        SaveRequests, LoadRequests, Stores
  <2>2. Locks'
    BY <1>5
    DEF AcquireStore, Typing, TypeOK, CallsAreAtTheirSteps, Saving, SaveRequests,
        Locks, Exclusion, TokensAreHeldOnce, NoTokenIsLost, HoldsStore, HoldsProfile,
        Updating
  <2>3. Content'
    BY <1>5
    DEF AcquireStore, Typing, TypeOK, CallsAreAtTheirSteps, Saving, SaveRequests,
        Content, Locks, Exclusion, NoLostUpdate, CopiesAreSound,
        SurvivorsAreReadable, HoldsStore, Updating
  <2> QED BY <2>1, <2>2, <2>3
<1>6. ASSUME NEW c \in Callers, GiveUpStore(c) PROVE IInv'
  <2>1. Typing'
    BY <1>6
    DEF GiveUpStore, Typing, TypeOK, CallsAreAtTheirSteps, Saving, Steps, Requests,
        SaveRequests, LoadRequests, Stores
  <2>2. Locks'
    BY <1>6
    DEF GiveUpStore, Typing, TypeOK, CallsAreAtTheirSteps, Saving, SaveRequests,
        Locks, Exclusion, TokensAreHeldOnce, NoTokenIsLost, HoldsStore, HoldsProfile,
        Updating
  <2>3. Content'
    BY <1>6
    DEF GiveUpStore, Typing, TypeOK, CallsAreAtTheirSteps, Saving, SaveRequests,
        Content, Locks, Exclusion, NoLostUpdate, CopiesAreSound,
        SurvivorsAreReadable, HoldsStore, Updating
  <2> QED BY <2>1, <2>2, <2>3
<1>7. ASSUME NEW c \in Callers, ReadAndUpdate(c) PROVE IInv'
  <2>1. Typing'
    BY <1>7
    DEF ReadAndUpdate, Typing, TypeOK, CallsAreAtTheirSteps, Saving, Steps, Requests,
        SaveRequests, LoadRequests, Stores
  <2>2. Locks'
    BY <1>7
    DEF ReadAndUpdate, Typing, TypeOK, CallsAreAtTheirSteps, Saving, SaveRequests,
        Locks, Exclusion, TokensAreHeldOnce, NoTokenIsLost, HoldsStore, HoldsProfile,
        Updating
  <2>3. NoLostUpdate' /\ SurvivorsAreReadable'
    BY <1>7 DEF ReadAndUpdate, Typing, TypeOK, Content, Locks, Exclusion,
                NoLostUpdate, SurvivorsAreReadable, HoldsStore, Updating
  <2>4. file \in Stores /\ req[c].key \in Keys /\ req[c].cred \in Creds
    BY <1>7 DEF ReadAndUpdate, Typing, TypeOK, CallsAreAtTheirSteps, Saving, SaveRequests
  <2>5. Readable([file EXCEPT ![req[c].key] = req[c].cred])
    BY <1>7, <2>4, UpdateIsReadable DEF ReadAndUpdate
  <2>6. CopiesAreSound'
    BY <1>7, <2>5
    DEF ReadAndUpdate, Typing, TypeOK, Content, CopiesAreSound, Updating, Readable
  <2> QED BY <2>1, <2>2, <2>3, <2>6 DEF Content
<1>8. ASSUME NEW c \in Callers, WriteTemp(c) PROVE IInv'
  <2>1. Typing'
    BY <1>8
    DEF WriteTemp, Typing, TypeOK, CallsAreAtTheirSteps, Saving, Steps, Requests,
        SaveRequests, LoadRequests, Stores
  <2>2. Locks'
    BY <1>8
    DEF WriteTemp, Typing, TypeOK, CallsAreAtTheirSteps, Saving, SaveRequests, Locks,
        Exclusion, TokensAreHeldOnce, NoTokenIsLost, HoldsStore, HoldsProfile,
        Updating
  <2>3. Content'
    BY <1>8
    DEF WriteTemp, Typing, TypeOK, CallsAreAtTheirSteps, Saving, SaveRequests,
        Content, Locks, Exclusion, NoLostUpdate, CopiesAreSound,
        SurvivorsAreReadable, HoldsStore, Updating
  <2> QED BY <2>1, <2>2, <2>3
<1>9. ASSUME NEW c \in Callers, SyncTemp(c) PROVE IInv'
  <2>1. Typing'
    BY <1>9
    DEF SyncTemp, Typing, TypeOK, CallsAreAtTheirSteps, Saving, Steps, Requests,
        SaveRequests, LoadRequests, Stores
  <2>2. Locks'
    BY <1>9
    DEF SyncTemp, Typing, TypeOK, CallsAreAtTheirSteps, Saving, SaveRequests, Locks,
        Exclusion, TokensAreHeldOnce, NoTokenIsLost, HoldsStore, HoldsProfile,
        Updating
  <2>3. Content'
    BY <1>9
    DEF SyncTemp, Typing, TypeOK, CallsAreAtTheirSteps, Saving, SaveRequests,
        Content, Locks, Exclusion, NoLostUpdate, CopiesAreSound,
        SurvivorsAreReadable, HoldsStore, Updating
  <2> QED BY <2>1, <2>2, <2>3
<1>10. ASSUME NEW c \in Callers, SaveFails(c) PROVE IInv'
  <2>1. Typing'
    BY <1>10, EmptyIsReadable
    DEF SaveFails, Typing, TypeOK, CallsAreAtTheirSteps, Saving, Steps, Requests,
        SaveRequests, LoadRequests, Stores
  <2>2. Locks'
    BY <1>10
    DEF SaveFails, Typing, TypeOK, CallsAreAtTheirSteps, Saving, SaveRequests, Locks,
        Exclusion, TokensAreHeldOnce, NoTokenIsLost, HoldsStore, HoldsProfile,
        Updating
  <2>3. Content'
    BY <1>10
    DEF SaveFails, Typing, TypeOK, CallsAreAtTheirSteps, Saving, SaveRequests,
        Content, Locks, Exclusion, NoLostUpdate, CopiesAreSound,
        SurvivorsAreReadable, HoldsStore, Updating
  <2> QED BY <2>1, <2>2, <2>3
<1>11. ASSUME NEW c \in Callers, RenameTemp(c) PROVE IInv'
  <2>1. Typing'
    BY <1>11
    DEF RenameTemp, Typing, TypeOK, CallsAreAtTheirSteps, Saving, Steps, Requests,
        SaveRequests, LoadRequests, Stores, Content, CopiesAreSound
  <2>2. Locks'
    BY <1>11
    DEF RenameTemp, Typing, TypeOK, CallsAreAtTheirSteps, Saving, SaveRequests,
        Locks, Exclusion, TokensAreHeldOnce, NoTokenIsLost, HoldsStore, HoldsProfile,
        Updating
  <2>3. Content'
    BY <1>11
    DEF RenameTemp, Typing, TypeOK, CallsAreAtTheirSteps, Saving, SaveRequests,
        Content, Locks, Exclusion, NoLostUpdate, CopiesAreSound,
        SurvivorsAreReadable, HoldsStore, Updating
  <2> QED BY <2>1, <2>2, <2>3
<1>12. ASSUME NEW c \in Callers, SyncDir(c) PROVE IInv'
  <2>1. Typing'
    BY <1>12, EmptyIsReadable
    DEF SyncDir, Typing, TypeOK, CallsAreAtTheirSteps, Saving, Steps, Requests,
        SaveRequests, LoadRequests, Stores
  <2>2. Locks'
    BY <1>12
    DEF SyncDir, Typing, TypeOK, CallsAreAtTheirSteps, Saving, SaveRequests, Locks,
        Exclusion, TokensAreHeldOnce, NoTokenIsLost, HoldsStore, HoldsProfile,
        Updating
  <2>3. Content'
    BY <1>12
    DEF SyncDir, Typing, TypeOK, CallsAreAtTheirSteps, Saving, SaveRequests, Content,
        Locks, Exclusion, NoLostUpdate, CopiesAreSound, SurvivorsAreReadable,
        HoldsStore, Updating
  <2> QED BY <2>1, <2>2, <2>3
<1>13. ASSUME NEW c \in Callers, ReleaseStore(c) PROVE IInv'
  <2>1. Typing'
    BY <1>13
    DEF ReleaseStore, Typing, TypeOK, CallsAreAtTheirSteps, Saving, Steps, Requests,
        SaveRequests, LoadRequests, Stores
  <2>2. Locks'
    BY <1>13
    DEF ReleaseStore, Typing, TypeOK, CallsAreAtTheirSteps, Saving, SaveRequests,
        Locks, Exclusion, TokensAreHeldOnce, NoTokenIsLost, HoldsStore, HoldsProfile,
        Updating
  <2>3. Content'
    BY <1>13
    DEF ReleaseStore, Typing, TypeOK, CallsAreAtTheirSteps, Saving, SaveRequests,
        Content, Locks, Exclusion, NoLostUpdate, CopiesAreSound,
        SurvivorsAreReadable, HoldsStore, Updating
  <2> QED BY <2>1, <2>2, <2>3
<1>14. ASSUME NEW c \in Callers, ReleaseProfile(c) PROVE IInv'
  <2>1. Typing'
    BY <1>14
    DEF ReleaseProfile, Typing, TypeOK, CallsAreAtTheirSteps, Saving, Steps,
        Requests, SaveRequests, LoadRequests, Stores
  <2>2. Locks'
    BY <1>14
    DEF ReleaseProfile, Typing, TypeOK, CallsAreAtTheirSteps, Saving, SaveRequests,
        Locks, Exclusion, TokensAreHeldOnce, NoTokenIsLost, HoldsStore, HoldsProfile,
        Updating
  <2>3. Content'
    BY <1>14
    DEF ReleaseProfile, Typing, TypeOK, CallsAreAtTheirSteps, Saving, SaveRequests,
        Content, Locks, Exclusion, NoLostUpdate, CopiesAreSound,
        SurvivorsAreReadable, HoldsStore, Updating
  <2> QED BY <2>1, <2>2, <2>3
<1>15. ASSUME NEW c \in Callers, LoadReads(c) PROVE IInv'
  <2>1. Typing'
    BY <1>15
    DEF LoadReads, Typing, TypeOK, CallsAreAtTheirSteps, Saving, Steps, Requests,
        SaveRequests, LoadRequests, Stores
  <2>2. Locks'
    BY <1>15
    DEF LoadReads, Typing, TypeOK, CallsAreAtTheirSteps, Saving, SaveRequests, Locks,
        Exclusion, TokensAreHeldOnce, NoTokenIsLost, HoldsStore, HoldsProfile,
        Updating
  <2>3. Content'
    BY <1>15
    DEF LoadReads, Typing, TypeOK, CallsAreAtTheirSteps, Saving, SaveRequests,
        Content, Locks, Exclusion, NoLostUpdate, CopiesAreSound,
        SurvivorsAreReadable, HoldsStore, Updating
  <2> QED BY <2>1, <2>2, <2>3
<1>16. ASSUME NEW c \in Callers, LoadFails(c) PROVE IInv'
  <2>1. Typing'
    BY <1>16
    DEF LoadFails, Typing, TypeOK, CallsAreAtTheirSteps, Saving, Steps, Requests,
        SaveRequests, LoadRequests, Stores
  <2>2. Locks'
    BY <1>16
    DEF LoadFails, Typing, TypeOK, CallsAreAtTheirSteps, Saving, SaveRequests, Locks,
        Exclusion, TokensAreHeldOnce, NoTokenIsLost, HoldsStore, HoldsProfile,
        Updating
  <2>3. Content'
    BY <1>16
    DEF LoadFails, Typing, TypeOK, CallsAreAtTheirSteps, Saving, SaveRequests,
        Content, Locks, Exclusion, NoLostUpdate, CopiesAreSound,
        SurvivorsAreReadable, HoldsStore, Updating
  <2> QED BY <2>1, <2>2, <2>3
<1>17. CASE Crash
  <2>1. Fresh'
    BY <1>17 DEF Crash, Restart, Fresh, Typing, TypeOK, Content, SurvivorsAreReadable
  <2> QED BY <2>1, FreshIsSound, PTL
<1>18. CASE PowerLoss
  <2>1. Fresh'
    BY <1>18 DEF PowerLoss, Restart, Fresh, Typing, TypeOK, Content, SurvivorsAreReadable
  <2> QED BY <2>1, FreshIsSound, PTL
<1>19. CASE UNCHANGED vars
  <2>1. Typing'
    BY <1>19 DEF vars, Typing, TypeOK, CallsAreAtTheirSteps, Saving
  <2>2. Locks'
    BY <1>19 DEF vars, Locks, Exclusion, TokensAreHeldOnce, NoTokenIsLost,
                 HoldsStore, HoldsProfile, Updating
  <2>3. Content'
    BY <1>19
    DEF vars, Content, NoLostUpdate, CopiesAreSound, SurvivorsAreReadable, Updating
  <2> QED BY <2>1, <2>2, <2>3
<1> QED
  BY <1>1, <1>2, <1>3, <1>4, <1>5, <1>6, <1>7, <1>8, <1>9, <1>10, <1>11, <1>12,
     <1>13, <1>14, <1>15, <1>16, <1>17, <1>18, <1>19 DEF Next, Step

THEOREM Invariance == Spec => []IInv
<1>1. Init => IInv
  <2>1. Init => Fresh
    BY EmptyIsReadable DEF Init, Fresh, SurvivorsAreReadable
  <2> QED BY <2>1, FreshIsSound
<1>2. IInv /\ [Next]_vars => IInv'
  BY IInvIsInductive
<1> QED BY <1>1, <1>2, PTL DEF Spec
(* Every variable keeps its type, and the file is always a whole store:    *)
(* no crash, power loss or failed write leaves a torn one.                 *)
THEOREM TypeCorrect == Spec => []TypeOK
BY Invariance, PTL DEF IInv, Typing

(* The locks of lockSet.acquire exclude each other's holders, and no early *)
(* return of a save keeps one.                                             *)
THEOREM Locking == Spec => []LocksAreSound
BY Invariance, PTL DEF IInv, Locks, LocksAreSound

(* However saves interleave, time out, fail or are cut by a crash, none    *)
(* promotes a copy that misses what another save has written.              *)
THEOREM NoUpdateIsLost == Spec => []NoLostUpdate
BY Invariance, PTL DEF IInv, Content

(* Whatever is left under the store's name, readStore accepts: writeStore  *)
(* syncs before it renames, and refuses the record that would be one too   *)
(* many.                                                                   *)
THEOREM StoreStaysReadable == Spec => []SurvivorsAreReadable
BY Invariance, PTL DEF IInv, Content

------------------------------------------------------------------------------
\* A save has no result before its rename or its failure, and one from then on.
ResultsAreDecided ==
  \A c \in Callers :
    /\ pc[c] \notin {"idle", "syncDir", "releaseStore", "releaseProfile"} => result[c] = "none"
    /\ pc[c] = "syncDir" => result[c] = "ok"
    /\ pc[c] \in {"releaseStore", "releaseProfile"} => result[c] \in {"ok", "error"}

LEMMA ResultsInvariance == Spec => []ResultsAreDecided
<1>1. Init => ResultsAreDecided
  BY DEF Init, ResultsAreDecided
<1>2. IInv /\ ResultsAreDecided /\ [Next]_vars => ResultsAreDecided'
  BY DEF IInv, Typing, TypeOK, ResultsAreDecided, Next, vars, callerVars, Step, Goto,
         Begin, Return,
     SaveProviderCredential, LoadProviderCredential, AcquireProfile, GiveUpProfile,
     AcquireStore, GiveUpStore, ReadAndUpdate, WriteTemp, SyncTemp, SaveFails, RenameTemp,
     SyncDir, ReleaseStore, ReleaseProfile, LoadReads, LoadFails, Crash, PowerLoss, Restart
<1> QED BY <1>1, <1>2, Invariance, PTL DEF Spec

\* Steps that only move a call along leave the abstract store as it is.
LEMMA StepRefines ==
  ASSUME IInv, ResultsAreDecided, Next
  PROVE  [Promise!Next]_Promise!vars
<1> USE DEF IInv, Typing, TypeOK, ResultsAreDecided, Goto, Begin, Return, DropCopy,
            callerVars, lockVars, diskVars, Phase, Returned
<1>1. ASSUME NEW c \in Callers, SaveProviderCredential(c) PROVE Promise!Call(c)
  <2>1. PICK r \in Requests : Begin(c, "lockProfile", r)
    BY <1>1 DEF SaveProviderCredential, Requests
  <2> QED BY <2>1 DEF Requests, Promise!Call, Promise!Requests
<1>2. ASSUME NEW c \in Callers, LoadProviderCredential(c) PROVE Promise!Call(c)
  <2>1. PICK r \in Requests : Begin(c, "load", r)
    BY <1>2 DEF LoadProviderCredential, Requests
  <2> QED BY <2>1 DEF Requests, Promise!Call, Promise!Requests
<1>3. ASSUME NEW c \in Callers,
             \/ AcquireProfile(c) \/ AcquireStore(c) \/ GiveUpStore(c) \/ ReadAndUpdate(c)
             \/ WriteTemp(c) \/ SyncTemp(c) \/ SaveFails(c) \/ ReleaseStore(c)
      PROVE  UNCHANGED Promise!vars
  BY <1>3
  DEF AcquireProfile, AcquireStore, GiveUpStore, ReadAndUpdate, WriteTemp, SyncTemp,
              SaveFails, ReleaseStore, Promise!vars
<1>4. ASSUME NEW c \in Callers, GiveUpProfile(c) \/ LoadFails(c) PROVE Promise!Refuse(c)
  <2>1. Phase[c] = "pending" /\ UNCHANGED got
    BY <1>4 DEF GiveUpProfile, LoadFails
  <2>2. Promise!Return(c, "error")
    <3>1. CASE GiveUpProfile(c)
      BY <3>1 DEF GiveUpProfile, NoReq, Promise!Return, Promise!NoReq
    <3>2. CASE LoadFails(c)
      BY <3>2 DEF LoadFails, NoReq, Promise!Return, Promise!NoReq
    <3> QED BY <1>4, <3>1, <3>2
  <2> QED BY <2>1, <2>2 DEF Promise!Refuse
<1>5. ASSUME NEW c \in Callers, RenameTemp(c) PROVE Promise!Apply(c)
  BY <1>5 DEF RenameTemp, Promise!Apply, Content, NoLostUpdate, CopiesAreSound, Updating,
              CallsAreAtTheirSteps, Saving, SaveRequests
<1>6. ASSUME NEW c \in Callers, SyncDir(c) PROVE Promise!Sync \/ UNCHANGED Promise!vars
  BY <1>6 DEF SyncDir, Promise!Sync, Promise!vars
<1>7. ASSUME NEW c \in Callers, ReleaseProfile(c)
      PROVE  Promise!Acknowledge(c) \/ Promise!Refuse(c)
  BY <1>7 DEF ReleaseProfile, NoReq, Promise!Acknowledge, Promise!Refuse, Promise!Return,
              Promise!NoReq
<1>8. ASSUME NEW c \in Callers, LoadReads(c) PROVE Promise!Read(c)
  BY <1>8 DEF LoadReads, NoReq, Promise!Read, Promise!Return, Promise!NoReq,
              CallsAreAtTheirSteps, LoadRequests
<1>9. CASE Crash
  BY <1>9
  DEF Crash, Restart, NoReq, Promise!Next, Promise!Crash, Promise!ForgetCalls,
      Promise!NoReq
<1>10. CASE PowerLoss
  BY <1>10
  DEF PowerLoss, Restart, NoReq, Promise!Next, Promise!PowerLoss,
      Promise!ForgetCalls,
               Promise!NoReq
<1> QED
  BY <1>1, <1>2, <1>3, <1>4, <1>5, <1>6, <1>7, <1>8, <1>9, <1>10
  DEF Next, Step, Promise!Next

(* The file with its two locks and lock-free loads is one atomic map: a    *)
(* save that returns nil took effect once, one that fails did not, and     *)
(* every load returns what some instant of its call held                   *)
(* (SaveProviderCredential and LoadProviderCredential, auth_store.go).     *)
THEOREM Refinement == Spec => ImplementsCredentialStore
<1>1. Init => Promise!Init
  BY DEF Init, Phase, Returned, Empty, NoReq, Promise!Init, Promise!NoReq
<1>2. IInv /\ ResultsAreDecided /\ [Next]_vars => [Promise!Next]_Promise!vars
  <2>1. ASSUME UNCHANGED vars PROVE UNCHANGED Promise!vars
    BY <2>1 DEF vars, callerVars, diskVars, Promise!vars, Phase, Returned
  <2> QED BY <2>1, StepRefines
<1> QED
  BY <1>1, <1>2, Invariance, ResultsInvariance, PTL
  DEF Spec, ImplementsCredentialStore, Promise!Spec
==============================================================================
