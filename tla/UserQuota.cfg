CONSTANTS
  Ops = {o1, o2, o3}
  Deltas <- MCDeltas
  Overrides = {7}
  Initial = 3
  CodeQuota = 5
  Threshold = 3
  Target = 4
  MaxExpiries = 1
  MaxFaults = 1
SPECIFICATION FairSpec
INVARIANTS LedgerBalances CleanCacheFollowsRow CodeCreditedOnceUnlessRaced
PROPERTIES BatchDrains
