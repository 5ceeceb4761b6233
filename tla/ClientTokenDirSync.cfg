\* As ClientToken.cfg, with directory syncs that may fail.
SPECIFICATION Spec
CONSTANTS
  Clients = {a}
  Requests = {r1, r2}
  MaxTokens = 2
  NoFile = NoFile
  DirSyncMayFail = TRUE
INVARIANT RevokedStaysRevoked
