CONSTANTS
  Requests = {r1, r2, f}
  FreeRequests = {f}
  PlaygroundRequests = {r1}
  TaskRequests = {r2}
  Preferences = {"wallet_first", "subscription_first"}
  Estimates = {2, 4}
  ActualQuotas = {1, 4}
  ReserveTargets = {}
  ViolationFee = 0
  InitWallet = 3
  InitToken = 5
  SubTotal = 2
  TrustQuota = 2
  TokenUnlimited = FALSE
SPECIFICATION Spec
INVARIANTS OverdraftBounded FailedRequestIsFree TokenTracksFunding QuietBalancesAddUp
