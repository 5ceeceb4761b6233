\* Two clients, two requests at a time and three rotations; directory syncs
\* succeed.
SPECIFICATION FairSpec
CONSTANTS
  Clients = {a, b}
  Requests = {r1, r2}
  MaxTokens = 3
  NoFile = NoFile
  DirSyncMayFail = FALSE
INVARIANTS OneWinner RevokedStaysRevoked FailedRotationHasNoEffect SomeoneHoldsTheToken
PROPERTIES ClientsMoveForward EveryRequestIsAnswered
