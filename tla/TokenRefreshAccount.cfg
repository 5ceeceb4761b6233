\* A login of another account completes while a refresh is under way.
SPECIFICATION Spec
CONSTANTS
  Refreshers = {r1}
  Logins = {l1}
  Accounts = {a, b}
  MinTTLs = {0}
  Lifetime = 1
  MaxTokens = 3
  MaxTime = 1
  NoAccount = NoAccount
  NoCred = NoCred
PROPERTY RefreshPreservesAccount
