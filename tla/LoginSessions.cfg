\* Two sessions for a limit of one, two callbacks at a time; a session is
\* forgotten one unit of time after its deadline.
SPECIFICATION FairSpec
CONSTANTS
  SessionIDs = {s1, s2}
  Callbacks = {c1, c2}
  MaxSessions = 1
  Lifetime = 1
  Retention = 1
  MaxTime = 3
  NoSession = NoSession
INVARIANTS IndexedIsPending CompletedIsSaved WithinLimit
PROPERTY LoginsEnd
