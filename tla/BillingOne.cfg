CONSTANTS
  Requests = {r1}
  FreeRequests = {}
  PlaygroundRequests = {}
  TaskRequests = {}
  Preferences = {"wallet_only", "wallet_first", "subscription_only", "subscription_first"}
  Estimates = {0, 1, 3}
  ActualQuotas = {0, 1, 3}
  ReserveTargets = {2, 3}
  ViolationFee = 1
  InitWallet = 2
  InitToken = 3
  SubTotal = 3
  TrustQuota = 0
  TokenUnlimited = FALSE
SPECIFICATION FairSpec
INVARIANTS SettledChargeIsActual Accounting
PROPERTIES ImplementsQuotaHold EveryRequestDecided RefundCompletes
