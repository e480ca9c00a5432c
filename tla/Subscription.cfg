CONSTANTS
  Requests = {r1, r2}
  Subs = {1, 2}
  EndTime <- EarlyEnd
  AmountTotal <- Totals
  Amounts = {2}
  Actuals = {1, 3}
  MaxAttempts = 2
  MaxNow = 1
  MaxFaults = 1
SYMMETRY Alike
SPECIFICATION Spec
INVARIANTS UsedWithinTotal SerialUsageIsExact RefundsAccounted EndedServesNobody
