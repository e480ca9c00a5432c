CONSTANTS
  Tasks = {1}
  SunoTasks = {}
  RealtimeTasks = {}
  Deletable = {1}
  SubmitTime <- Recent
  Quota = 1
  Holds = {0}
  ActualQuotas = {0}
  Nodes = {n1}
  QueryLimit = 1
  SweepLimit = 1
  RelayTimeout = 60
  MaxFaults = 0
  MaxFetches = 0
SPECIFICATION Spec
INVARIANTS FailedTaskRefunded
