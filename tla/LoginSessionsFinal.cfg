\* One session and two callbacks with its state.
SPECIFICATION Spec
CONSTANTS
  SessionIDs = {s1}
  Callbacks = {c1, c2}
  MaxSessions = 1
  Lifetime = 1
  Retention = 1
  MaxTime = 1
  NoSession = NoSession
PROPERTY CompletedIsFinal
