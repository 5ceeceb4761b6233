-------------------------- MODULE ClientToken_proofs --------------------------
(***************************************************************************)
(* Proofs about ClientToken, for any clients, requests and bound.  Rotate  *)
(* orders its effects (rename, directory sync, activation) so that a token *)
(* is revoked only when no power loss can bring its digest back; this is   *)
(* what the invariant of the disk below says, and it needs the directory   *)
(* sync to succeed.                                                        *)
(***************************************************************************)
EXTENDS ClientToken, TLAPS

\* Whoever rotates holds the mutex, presented the token in force, and is alone.
Mutex ==
  /\ OneWinner
  /\ \A r \in Requests : Rotating(r) => locked

\* Every token around was drawn; no two requests drew the same one.
Drawn ==
  /\ digest <= issued
  /\ \A f \in survivors : f # NoFile => f <= issued
  /\ \A t \in revoked : t <= issued
  /\ \A r \in Requests : next[r] <= issued
  /\ \A r \in Requests : pc[r] \in {"call", "rotate"} => next[r] = Bootstrap
  /\ \A q, r \in Requests : q # r /\ next[q] = next[r] => next[q] = Bootstrap

\* A token being rotated in is new, and only known to the disk once renamed.
Incoming ==
  \A r \in Requests : Rotating(r) =>
    /\ next[r] # Bootstrap /\ next[r] # digest /\ next[r] \notin revoked
    /\ pc[r] = "persist" => next[r] \notin survivors
    /\ pc[r] = "syncDir" => file = next[r]
    /\ pc[r] = "activate" => file = next[r]

\* When directory syncs succeed, what a start may find on disk is not revoked,
\* and once a rotation is about to be activated, the token it replaces is not
\* to be found there.
Disk ==
  /\ file \in survivors
  /\ ~DirSyncMayFail =>
       /\ \A f \in survivors : NewClientTokenStore(f) \notin revoked
       /\ digest \notin revoked
       /\ \A r \in Requests : pc[r] = "activate" => survivors = {next[r]}

IInv == TypeOK /\ Mutex /\ Drawn /\ Incoming /\ FailedRotationHasNoEffect /\ Disk

LEMMA IInvIsInductive ==
  ASSUME IInv, [Next]_vars
  PROVE  IInv'
<1> USE BoundAssumption, NoFileAssumption
    DEF IInv, Goto, Answer, Tokens, Files, Bootstrap, diskVars, ghostVars, Rotating
<1>1. ASSUME NEW r \in Requests, NEW step \in {"call", "rotate"}, Send(r, step) PROVE IInv'
  <2>1. TypeOK'
    BY <1>1 DEF Send, TypeOK
  <2>2. Mutex'
    BY <1>1 DEF Send, TypeOK, Mutex, OneWinner
  <2>3. Drawn'
    BY <1>1 DEF Send, TypeOK, Drawn
  <2>4. Incoming'
    BY <1>1 DEF Send, TypeOK, Mutex, OneWinner, Drawn, Incoming
  <2>5. FailedRotationHasNoEffect'
    BY <1>1
    DEF Send, TypeOK, Mutex, OneWinner, Drawn, Incoming, FailedRotationHasNoEffect,
        Disk
  <2>6. Disk'
    BY <1>1, DirSyncAssumption
    DEF Send, TypeOK, Mutex, OneWinner, Drawn, Incoming, Disk, NewClientTokenStore
  <2> QED BY <2>1, <2>2, <2>3, <2>4, <2>5, <2>6
<1>2. ASSUME NEW r \in Requests, Authorize(r) \/ RejectRotation(r) \/ DrawFails(r) PROVE IInv'
  <2>1. TypeOK'
    BY <1>2 DEF Authorize, RejectRotation, DrawFails, TypeOK
  <2>2. Mutex'
    BY <1>2 DEF Authorize, RejectRotation, DrawFails, TypeOK, Mutex, OneWinner
  <2>3. Drawn'
    BY <1>2 DEF Authorize, RejectRotation, DrawFails, TypeOK, Drawn
  <2>4. Incoming'
    BY <1>2
    DEF Authorize, RejectRotation, DrawFails, TypeOK, Mutex, OneWinner, Drawn,
        Incoming
  <2>5. FailedRotationHasNoEffect'
    BY <1>2
    DEF Authorize, RejectRotation, DrawFails, TypeOK, Mutex, OneWinner, Drawn,
        Incoming, FailedRotationHasNoEffect, Disk
  <2>6. UNCHANGED <<digest, revoked, diskVars, next>> /\ pc'[r] = "answered"
    BY <1>2 DEF Authorize, RejectRotation, DrawFails, TypeOK
  <2>7. \A q \in Requests : q # r => pc'[q] = pc[q]
    BY <1>2 DEF Authorize, RejectRotation, DrawFails, TypeOK
  <2>8. Disk'
    BY <2>6, <2>7 DEF Disk, NewClientTokenStore
  <2> QED BY <2>1, <2>2, <2>3, <2>4, <2>5, <2>8
<1>3. ASSUME NEW r \in Requests, BeginRotation(r) PROVE IInv'
  <2>1. TypeOK'
    BY <1>3 DEF BeginRotation, TypeOK
  <2>2. Mutex'
    BY <1>3 DEF BeginRotation, TypeOK, Mutex, OneWinner
  <2>3. Drawn'
    BY <1>3 DEF BeginRotation, TypeOK, Drawn
  <2>4. Incoming'
    BY <1>3 DEF BeginRotation, TypeOK, Mutex, OneWinner, Drawn, Incoming
  <2>5. FailedRotationHasNoEffect'
    BY <1>3
    DEF BeginRotation, TypeOK, Mutex, OneWinner, Drawn, Incoming,
        FailedRotationHasNoEffect, Disk
  <2>6. Disk'
    BY <1>3, DirSyncAssumption
    DEF BeginRotation, TypeOK, Mutex, OneWinner, Drawn, Incoming, Disk,
        NewClientTokenStore
  <2> QED BY <2>1, <2>2, <2>3, <2>4, <2>5, <2>6
<1>4. ASSUME NEW r \in Requests, PersistFails(r) PROVE IInv'
  <2>1. TypeOK'
    BY <1>4 DEF PersistFails, TypeOK
  <2>2. Mutex'
    BY <1>4 DEF PersistFails, TypeOK, Mutex, OneWinner
  <2>3. Drawn'
    BY <1>4 DEF PersistFails, TypeOK, Drawn
  <2>4. Incoming'
    BY <1>4 DEF PersistFails, TypeOK, Mutex, OneWinner, Drawn, Incoming
  <2>5. FailedRotationHasNoEffect'
    BY <1>4
    DEF PersistFails, TypeOK, Mutex, OneWinner, Drawn, Incoming,
        FailedRotationHasNoEffect, Disk
  <2>6. Disk'
    BY <1>4, DirSyncAssumption
    DEF PersistFails, TypeOK, Mutex, OneWinner, Drawn, Incoming, Disk,
        NewClientTokenStore
  <2> QED BY <2>1, <2>2, <2>3, <2>4, <2>5, <2>6
<1>5. ASSUME NEW r \in Requests, RenameToken(r) PROVE IInv'
  <2>1. TypeOK'
    BY <1>5 DEF RenameToken, TypeOK
  <2>2. Mutex'
    BY <1>5 DEF RenameToken, TypeOK, Mutex, OneWinner
  <2>3. Drawn'
    BY <1>5 DEF RenameToken, TypeOK, Drawn
  <2>4. Incoming'
    BY <1>5 DEF RenameToken, TypeOK, Mutex, OneWinner, Drawn, Incoming
  <2>5. FailedRotationHasNoEffect'
    BY <1>5
    DEF RenameToken, TypeOK, Mutex, OneWinner, Drawn, Incoming,
        FailedRotationHasNoEffect, Disk
  <2>6. Disk'
    BY <1>5, DirSyncAssumption
    DEF RenameToken, TypeOK, Mutex, OneWinner, Drawn, Incoming, Disk,
        NewClientTokenStore
  <2> QED BY <2>1, <2>2, <2>3, <2>4, <2>5, <2>6
<1>6. ASSUME NEW r \in Requests, SyncTokenDir(r) PROVE IInv'
  <2>1. TypeOK'
    BY <1>6 DEF SyncTokenDir, TypeOK
  <2>2. Mutex'
    BY <1>6 DEF SyncTokenDir, TypeOK, Mutex, OneWinner
  <2>3. Drawn'
    BY <1>6 DEF SyncTokenDir, TypeOK, Drawn, Disk
  <2>4. Incoming'
    BY <1>6 DEF SyncTokenDir, TypeOK, Mutex, OneWinner, Drawn, Incoming
  <2>5. FailedRotationHasNoEffect'
    BY <1>6
    DEF SyncTokenDir, TypeOK, Mutex, OneWinner, Drawn, Incoming,
        FailedRotationHasNoEffect, Disk
  <2>6. Disk'
    BY <1>6, DirSyncAssumption
    DEF SyncTokenDir, TypeOK, Mutex, OneWinner, Drawn, Incoming, Disk,
        NewClientTokenStore
  <2> QED BY <2>1, <2>2, <2>3, <2>4, <2>5, <2>6
<1>7. ASSUME NEW r \in Requests, Activate(r) PROVE IInv'
  <2>1. TypeOK'
    BY <1>7 DEF Activate, TypeOK
  <2>2. Mutex'
    BY <1>7 DEF Activate, TypeOK, Mutex, OneWinner
  <2>3. Drawn'
    BY <1>7 DEF Activate, TypeOK, Drawn
  <2>4. Incoming'
    BY <1>7 DEF Activate, TypeOK, Mutex, OneWinner, Drawn, Incoming
  <2>5. FailedRotationHasNoEffect'
    BY <1>7
    DEF Activate, TypeOK, Mutex, OneWinner, Drawn, Incoming,
        FailedRotationHasNoEffect, Disk
  <2>6. Disk'
    BY <1>7, DirSyncAssumption
    DEF Activate, TypeOK, Mutex, OneWinner, Drawn, Incoming, Disk,
        NewClientTokenStore
  <2> QED BY <2>1, <2>2, <2>3, <2>4, <2>5, <2>6
<1>8. ASSUME NEW r \in Requests, Receive(r) \/ LoseAnswer(r) PROVE IInv'
  <2>1. TypeOK'
    BY <1>8 DEF Receive, LoseAnswer, Rotated, TypeOK
  <2>2. Mutex'
    BY <1>8 DEF Receive, LoseAnswer, Rotated, TypeOK, Mutex, OneWinner
  <2>3. Drawn'
    BY <1>8 DEF Receive, LoseAnswer, Rotated, TypeOK, Drawn
  <2>4. Incoming'
    BY <1>8 DEF Receive, LoseAnswer, Rotated, TypeOK, Mutex, OneWinner, Drawn, Incoming
  <2>5. FailedRotationHasNoEffect'
    BY <1>8
    DEF Receive, LoseAnswer, Rotated, TypeOK, Mutex, OneWinner, Drawn, Incoming,
        FailedRotationHasNoEffect, Disk
  <2>6. Disk'
    BY <1>8, DirSyncAssumption
    DEF Receive, LoseAnswer, Rotated, TypeOK, Mutex, OneWinner, Drawn, Incoming,
        Disk, NewClientTokenStore
  <2> QED BY <2>1, <2>2, <2>3, <2>4, <2>5, <2>6
<1>9. CASE Crash
  <2>1. TypeOK'
    <3>1. file' \in Files /\ digest' \in Tokens /\ survivors' \subseteq Files
      BY <1>9 DEF Crash, Restart, TypeOK, NewClientTokenStore, Disk
    <3>2. lost' \subseteq Tokens
      BY <1>9 DEF Crash, Restart, TypeOK
    <3>3. UNCHANGED <<issued, sender, token, next, reply, held, revoked>> /\ locked' = FALSE
      BY <1>9 DEF Crash, Restart
    <3>4. pc' \in [Requests -> {"idle", "call", "rotate", "persist", "syncDir", "activate", "answered"}]
      BY <1>9 DEF Crash, Restart, TypeOK
    <3> QED BY <3>1, <3>2, <3>3, <3>4 DEF TypeOK
  <2>2. Mutex'
    BY <1>9 DEF Crash, Restart, TypeOK, Mutex, OneWinner
  <2>3. Drawn'
    BY <1>9 DEF Crash, Restart, TypeOK, Drawn, NewClientTokenStore, Disk
  <2>4. Incoming'
    BY <1>9 DEF Crash, Restart, TypeOK, Incoming
  <2>5. FailedRotationHasNoEffect'
    BY <1>9
    DEF Crash, Restart, TypeOK, FailedRotationHasNoEffect, NewClientTokenStore, Disk
  <2>6. Disk'
    BY <1>9 DEF Crash, Restart, TypeOK, Disk, NewClientTokenStore
  <2> QED BY <2>1, <2>2, <2>3, <2>4, <2>5, <2>6
<1>10. CASE PowerLoss
  <2>1. TypeOK'
    <3>1. file' \in Files /\ digest' \in Tokens /\ survivors' \subseteq Files
      BY <1>10 DEF PowerLoss, Restart, TypeOK, NewClientTokenStore, Disk
    <3>2. lost' \subseteq Tokens
      BY <1>10 DEF PowerLoss, Restart, TypeOK
    <3>3. UNCHANGED <<issued, sender, token, next, reply, held, revoked>> /\ locked' = FALSE
      BY <1>10 DEF PowerLoss, Restart
    <3>4. pc' \in [Requests -> {"idle", "call", "rotate", "persist", "syncDir", "activate", "answered"}]
      BY <1>10 DEF PowerLoss, Restart, TypeOK
    <3> QED BY <3>1, <3>2, <3>3, <3>4 DEF TypeOK
  <2>2. Mutex'
    BY <1>10 DEF PowerLoss, Restart, TypeOK, Mutex, OneWinner
  <2>3. Drawn'
    BY <1>10 DEF PowerLoss, Restart, TypeOK, Drawn, NewClientTokenStore, Disk
  <2>4. Incoming'
    BY <1>10 DEF PowerLoss, Restart, TypeOK, Incoming
  <2>5. FailedRotationHasNoEffect'
    BY <1>10
    DEF PowerLoss, Restart, TypeOK, FailedRotationHasNoEffect, NewClientTokenStore,
        Disk
  <2>6. Disk'
    BY <1>10 DEF PowerLoss, Restart, TypeOK, Disk, NewClientTokenStore
  <2> QED BY <2>1, <2>2, <2>3, <2>4, <2>5, <2>6
<1>11. CASE UNCHANGED vars
  <2>1. TypeOK'
    BY <1>11 DEF vars, requestVars, TypeOK, NewClientTokenStore, Disk
  <2>2. Mutex'
    BY <1>11 DEF vars, requestVars, TypeOK, Mutex, OneWinner
  <2>3. Drawn'
    BY <1>11 DEF vars, requestVars, TypeOK, Drawn, NewClientTokenStore, Disk
  <2>4. Incoming'
    BY <1>11 DEF vars, requestVars, TypeOK, Incoming
  <2>5. FailedRotationHasNoEffect'
    BY <1>11
    DEF vars, requestVars, TypeOK, FailedRotationHasNoEffect, NewClientTokenStore,
        Disk
  <2>6. Disk'
    BY <1>11 DEF vars, requestVars, TypeOK, Disk, NewClientTokenStore
  <2> QED BY <2>1, <2>2, <2>3, <2>4, <2>5, <2>6
<1> QED
  BY <1>1, <1>2, <1>3, <1>4, <1>5, <1>6, <1>7, <1>8, <1>9, <1>10, <1>11
  DEF Next, TakesMutex, Persists

THEOREM Invariance == Spec => []IInv
<1>1. Init => IInv
  <2> SUFFICES ASSUME Init PROVE IInv
    OBVIOUS
  <2>1. TypeOK
    <3>1. Bootstrap \in Tokens
      BY BoundAssumption DEF Bootstrap, Tokens
    <3>2. digest \in Tokens /\ issued \in Tokens
      BY <3>1 DEF Init, NewClientTokenStore, Bootstrap
    <3>3. file \in Files /\ survivors \subseteq Files
      BY DEF Init, Files
    <3> QED BY <3>1, <3>2, <3>3 DEF Init, TypeOK
  <2>2. Mutex /\ Incoming /\ FailedRotationHasNoEffect
    BY DEF Init, Mutex, OneWinner, Incoming, FailedRotationHasNoEffect, Rotating
  <2>3. Drawn /\ Disk
    BY DEF Init, Drawn, Disk, NewClientTokenStore, Bootstrap
  <2> QED BY <2>1, <2>2, <2>3 DEF IInv
<1>2. IInv /\ [Next]_vars => IInv'
  BY IInvIsInductive
<1> QED BY <1>1, <1>2, PTL DEF Spec

(* Every variable keeps its type; in particular a restart always finds a   *)
(* token to accept (NewClientTokenStore).                                  *)
THEOREM TypeCorrect == Spec => []TypeOK
BY Invariance, PTL DEF IInv

(* Rotate holds the mutex from the comparison to the activation, so of the *)
(* rotations that present one token exactly one can succeed.               *)
THEOREM OneRotationWins == Spec => []OneWinner
BY Invariance, PTL DEF IInv, Mutex

(* persist fails only before the rename, so a rotation that answers 500    *)
(* leaves neither the process nor the disk with its token.                 *)
THEOREM FailuresHaveNoEffect == Spec => []FailedRotationHasNoEffect
BY Invariance, PTL DEF IInv

(* When directory syncs succeed, a token revoked by an answered rotation   *)
(* is never in force again.  Without the premise it may be: persist drops  *)
(* the error of fsyncDir.                                                  *)
THEOREM RevocationIsFinal == ~DirSyncMayFail => (Spec => []RevokedStaysRevoked)
<1> SUFFICES ASSUME ~DirSyncMayFail PROVE Spec => []RevokedStaysRevoked
  OBVIOUS
<1>1. IInv => RevokedStaysRevoked
  BY DEF IInv, Disk, RevokedStaysRevoked
<1> QED BY <1>1, Invariance, PTL

------------------------------------------------------------------------------
(* What clients hold.  A rotation whose answer is still under way put a    *)
(* token in force that no client and no request has, so nobody can rotate  *)
(* before the answer is delivered: answers cannot overtake each other.     *)

\* Nothing around is newer than the last token drawn, which a rotation owns
\* alone until it is answered.
Known ==
  /\ \A c \in Clients : held[c] <= issued
  /\ \A r \in Requests : token[r] <= issued
  /\ \A r \in Requests : Rotating(r) =>
       /\ next[r] = issued
       /\ \A c \in Clients : held[c] < next[r]
       /\ \A q \in Requests : token[q] < next[r]

\* A rotation took effect and its answer is on the way.
Undelivered(r) == pc[r] = "answered" /\ Rotated(r)

\* When directory syncs succeed, its token is in force, newer than all others and all there is on disk.
Delivery ==
  ~DirSyncMayFail =>
    \A r \in Requests : Undelivered(r) =>
      /\ digest = next[r]
      /\ \A c \in Clients : held[c] < next[r]
      /\ \A q \in Requests : token[q] < next[r]
      /\ survivors = {next[r]}

\* A token on its way out of a rotation, lost, with a client, or on its way to one.
Accounted(t) ==
  \/ \E r \in Requests : Rotating(r) /\ next[r] = t
  \/ t \in lost
  \/ \E c \in Clients : held[c] = t
  \/ \E r \in Requests : Undelivered(r) /\ next[r] = t

\* The token in force and those that a restart may put in force are accounted for.
InHands ==
  ~DirSyncMayFail => Accounted(digest) /\ \A f \in survivors : Accounted(NewClientTokenStore(f))

HInv == IInv /\ Known /\ Delivery /\ InHands

LEMMA HInvIsInductive ==
  ASSUME HInv, [Next]_vars
  PROVE  Known' /\ Delivery' /\ InHands'
<1> USE BoundAssumption, NoFileAssumption, DirSyncAssumption
    DEF HInv, IInv, TypeOK, Goto, Answer, Tokens, Files, Bootstrap, diskVars, ghostVars,
        Rotating, Rotated
<1>1. ASSUME NEW r \in Requests, NEW step \in {"call", "rotate"}, Send(r, step)
      PROVE  Known' /\ Delivery' /\ InHands'
  <2>1. Known'
    BY <1>1 DEF Send, Known, Drawn, Mutex, OneWinner
  <2>2. Delivery'
    BY <1>1 DEF Send, Known, Drawn, Mutex, OneWinner, Disk, Delivery, Undelivered
  <2>3. InHands'
    BY <1>1 DEF Send, Incoming, Delivery, Undelivered, Accounted, InHands
  <2> QED BY <2>1, <2>2, <2>3
<1>2. ASSUME NEW r \in Requests, Authorize(r) \/ RejectRotation(r) \/ DrawFails(r)
      PROVE  Known' /\ Delivery' /\ InHands'
  <2>1. Known'
    BY <1>2 DEF Authorize, RejectRotation, DrawFails, Known, Drawn, Mutex, OneWinner
  <2>2. Delivery'
    BY <1>2 DEF Authorize, RejectRotation, DrawFails, Known, Drawn, Mutex, OneWinner, Disk, Delivery, Undelivered
  <2>3. InHands'
    <3>1. /\ pc[r] \in {"call", "rotate"} /\ pc'[r] = "answered"
          /\ \A q \in Requests \ {r} : pc'[q] = pc[q] /\ reply'[q] = reply[q]
          /\ UNCHANGED <<digest, diskVars, next, held, ghostVars>>
      BY <1>2 DEF Authorize, RejectRotation, DrawFails
    <3>2. \A t : Accounted(t) => Accounted(t)'
      BY <3>1 DEF Undelivered, Accounted
    <3> QED BY <3>1, <3>2 DEF InHands, NewClientTokenStore
  <2> QED BY <2>1, <2>2, <2>3
<1>3. ASSUME NEW r \in Requests, BeginRotation(r)
      PROVE  Known' /\ Delivery' /\ InHands'
  <2>1. Known'
    BY <1>3 DEF BeginRotation, Known, Drawn, Mutex, OneWinner
  <2>2. Delivery'
    BY <1>3 DEF BeginRotation, Known, Drawn, Mutex, OneWinner, Disk, Delivery, Undelivered
  <2>3. InHands'
    BY <1>3 DEF BeginRotation, Incoming, Disk, Delivery, Undelivered, Accounted, InHands, NewClientTokenStore
  <2> QED BY <2>1, <2>2, <2>3
<1>4. ASSUME NEW r \in Requests, PersistFails(r)
      PROVE  Known' /\ Delivery' /\ InHands'
  <2>1. Known'
    BY <1>4 DEF PersistFails, Known, Drawn, Mutex, OneWinner
  <2>2. Delivery'
    BY <1>4 DEF PersistFails, Known, Drawn, Mutex, OneWinner, Disk, Delivery, Undelivered
  <2>3. InHands'
    BY <1>4 DEF PersistFails, Incoming, Disk, Delivery, Undelivered, Accounted, InHands, NewClientTokenStore
  <2> QED BY <2>1, <2>2, <2>3
<1>5. ASSUME NEW r \in Requests, RenameToken(r)
      PROVE  Known' /\ Delivery' /\ InHands'
  <2>1. Known'
    BY <1>5 DEF RenameToken, Known, Drawn, Mutex, OneWinner
  <2>2. Delivery'
    BY <1>5 DEF RenameToken, Known, Drawn, Mutex, OneWinner, Disk, Delivery, Undelivered
  <2>3. InHands'
    BY <1>5 DEF RenameToken, Incoming, Disk, Delivery, Undelivered, Accounted, InHands, NewClientTokenStore
  <2> QED BY <2>1, <2>2, <2>3
<1>6. ASSUME NEW r \in Requests, SyncTokenDir(r)
      PROVE  Known' /\ Delivery' /\ InHands'
  <2>1. Known'
    BY <1>6 DEF SyncTokenDir, Known, Drawn, Mutex, OneWinner
  <2>2. Delivery'
    BY <1>6 DEF SyncTokenDir, Known, Drawn, Mutex, OneWinner, Disk, Delivery, Undelivered
  <2>3. InHands'
    BY <1>6 DEF SyncTokenDir, Incoming, Disk, Delivery, Undelivered, Accounted, InHands, NewClientTokenStore
  <2> QED BY <2>1, <2>2, <2>3
<1>7. ASSUME NEW r \in Requests, Activate(r)
      PROVE  Known' /\ Delivery' /\ InHands'
  <2>1. Known'
    BY <1>7 DEF Activate, Known, Drawn, Mutex, OneWinner
  <2>2. Delivery'
    BY <1>7 DEF Activate, Known, Drawn, Mutex, OneWinner, Disk, Delivery, Undelivered
  <2>3. InHands'
    BY <1>7 DEF Activate, Incoming, Disk, Delivery, Undelivered, Accounted, InHands, NewClientTokenStore
  <2> QED BY <2>1, <2>2, <2>3
<1>8. ASSUME NEW r \in Requests, Receive(r)
      PROVE  Known' /\ Delivery' /\ InHands'
  <2>1. Known'
    BY <1>8 DEF Receive, Known, Drawn, Mutex, OneWinner
  <2>2. Delivery'
    BY <1>8 DEF Receive, Known, Drawn, Mutex, OneWinner, Disk, Delivery, Undelivered
  <2>3. InHands'
    BY <1>8 DEF Receive, Incoming, Disk, Delivery, Undelivered, Accounted, InHands, NewClientTokenStore
  <2> QED BY <2>1, <2>2, <2>3
<1>9. ASSUME NEW r \in Requests, LoseAnswer(r)
      PROVE  Known' /\ Delivery' /\ InHands'
  <2>1. Known'
    BY <1>9 DEF LoseAnswer, Known, Drawn, Mutex, OneWinner
  <2>2. Delivery'
    BY <1>9 DEF LoseAnswer, Known, Drawn, Mutex, OneWinner, Disk, Delivery, Undelivered
  <2>3. InHands'
    BY <1>9 DEF LoseAnswer, Incoming, Disk, Delivery, Undelivered, Accounted, InHands, NewClientTokenStore
  <2> QED BY <2>1, <2>2, <2>3
<1>10. CASE Crash
  <2>1. Known'
    BY <1>10 DEF Crash, Restart, Known
  <2>2. Delivery'
    BY <1>10 DEF Crash, Restart, Disk, Delivery, Undelivered, NewClientTokenStore
  <2>3. InHands'
    BY <1>10 DEF Crash, Restart, Disk, Undelivered, Accounted, InHands, NewClientTokenStore
  <2> QED BY <2>1, <2>2, <2>3
<1>11. CASE PowerLoss
  <2>1. Known'
    BY <1>11 DEF PowerLoss, Restart, Known
  <2>2. Delivery'
    BY <1>11 DEF PowerLoss, Restart, Disk, Delivery, Undelivered, NewClientTokenStore
  <2>3. InHands'
    BY <1>11 DEF PowerLoss, Restart, Disk, Undelivered, Accounted, InHands, NewClientTokenStore
  <2> QED BY <2>1, <2>2, <2>3
<1>12. CASE UNCHANGED vars
  <2>1. Known'
    BY <1>12 DEF vars, requestVars, Known
  <2>2. Delivery'
    BY <1>12 DEF vars, requestVars, Disk, Delivery, Undelivered, NewClientTokenStore
  <2>3. InHands'
    BY <1>12 DEF vars, requestVars, Undelivered, Accounted, InHands, NewClientTokenStore
  <2> QED BY <2>1, <2>2, <2>3
<1> QED
  BY <1>1, <1>2, <1>3, <1>4, <1>5, <1>6, <1>7, <1>8, <1>9, <1>10, <1>11, <1>12
  DEF Next, TakesMutex, Persists

THEOREM HandInvariance == Spec => []HInv
<1>1. Init => Known /\ Delivery /\ InHands
  BY ClientsAssumption
  DEF Init, Known, Delivery, Undelivered, Rotated, Rotating, Accounted, InHands,
      NewClientTokenStore, Bootstrap
<1>2. HInv /\ [Next]_vars => Known' /\ Delivery' /\ InHands'
  BY HInvIsInductive
<1> QED BY <1>1, <1>2, Invariance, PTL DEF Spec, HInv

(* A token in force that no client has locks every client out.  When       *)
(* directory syncs succeed, only the rotation that drew the token brings   *)
(* that about, by losing its own answer to the network or to a restart     *)
(* after the rename: losses of other answers, failed rotations, restarts   *)
(* and power losses do not, in whatever order.                             *)
THEOREM OnlyItsOwnAnswerLosesAToken == ~DirSyncMayFail => (Spec => []SomeoneHoldsTheToken)
<1> SUFFICES ASSUME ~DirSyncMayFail PROVE Spec => []SomeoneHoldsTheToken
  OBVIOUS
<1>1. HInv => SomeoneHoldsTheToken
  BY DEF HInv, IInv, Incoming, InHands, Accounted, Undelivered, SomeoneHoldsTheToken
<1> QED BY <1>1, HandInvariance, PTL

(* RotateClientToken stores the token of whatever answer arrives.  When    *)
(* directory syncs succeed that never takes a client back to an older one. *)
THEOREM HeldTokensMoveForward == ~DirSyncMayFail => (Spec => ClientsMoveForward)
<1> SUFFICES ASSUME ~DirSyncMayFail PROVE Spec => ClientsMoveForward
  OBVIOUS
<1>1. ASSUME HInv, [Next]_vars
      PROVE  [\A c \in Clients : held'[c] >= held[c]]_held
  <2> SUFFICES ASSUME held' # held
               PROVE  \A c \in Clients : held'[c] >= held[c]
    OBVIOUS
  <2>1. PICK r \in Requests : Receive(r)
    BY <1>1
    DEF Next, TakesMutex, Persists, Send, Authorize, RejectRotation, DrawFails,
        BeginRotation, PersistFails, RenameToken, SyncTokenDir, Activate, LoseAnswer,
        Crash, PowerLoss, Restart, vars
  <2>2. Undelivered(r)
    BY <2>1 DEF Receive, Goto, Undelivered
  <2>3. \A c \in Clients : held[c] < next[r]
    BY <1>1, <2>2 DEF HInv, Delivery
  <2>4. held \in [Clients -> Nat] /\ next[r] \in Nat
    BY <1>1, BoundAssumption DEF HInv, IInv, TypeOK, Tokens
  <2> QED BY <2>1, <2>3, <2>4 DEF Receive
<1> QED BY <1>1, HandInvariance, PTL DEF Spec, ClientsMoveForward
==============================================================================
