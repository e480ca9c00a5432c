CONSTANTS
  Requests = {r1}
  Subs = {2}
  EndTime <- EarlyEnd
  AmountTotal <- Totals
  Amounts = {2}
  Actuals = {1}
  MaxAttempts = 2
  MaxNow = 0
  MaxFaults = 1
SPECIFICATION Spec
INVARIANT RefundIdempotent
