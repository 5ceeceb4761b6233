\* Every interleaving of two saves with a third save or load, on two profiles of which one fits.
SPECIFICATION FairSpec
CONSTANTS
  Callers = {c1, c2, c3}
  Keys = {k1, k2}
  Creds = {v1}
  NoCred = NoCred
  Torn = Torn
  MaxProfiles = 1
INVARIANTS LocksAreSound NoLostUpdate SurvivorsAreReadable
PROPERTIES ImplementsCredentialStore EveryCallReturns
