CONSTANTS
  Tasks = {3}
  SunoTasks = {}
  RealtimeTasks = {3}
  Deletable = {}
  SubmitTime <- Recent
  Quota = 1
  Holds = {2}
  ActualQuotas = {0}
  Nodes = {n1, n2}
  QueryLimit = 1
  SweepLimit = 1
  RelayTimeout = 60
  MaxFaults = 1
  MaxFetches = 2
SYMMETRY Processes
SPECIFICATION Spec
INVARIANTS RealtimeRefundsBounded
