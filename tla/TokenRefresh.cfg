\* Two refreshers and a login over one profile; three refresh tokens.
SPECIFICATION FairSpec
CONSTANTS
  Refreshers = {r1, r2}
  Logins = {l1}
  Accounts = {a, b}
  MinTTLs = {0, 1}
  Lifetime = 1
  MaxTokens = 3
  MaxTime = 1
  NoAccount = NoAccount
  NoCred = NoCred
INVARIANTS NoTokenIsSpentTwice StoredTokenIsUsable
PROPERTY EveryResolveReturns
