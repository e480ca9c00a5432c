CONSTANTS
  Tasks = {1}
  SunoTasks = {}
  RealtimeTasks = {}
  Deletable = {}
  SubmitTime <- Recent
  Quota = 2
  Holds = {0, 3}
  ActualQuotas = {0, 1, 3}
  Nodes = {n1, n2}
  QueryLimit = 1
  SweepLimit = 1
  RelayTimeout = 60
  MaxFaults = 2
  MaxFetches = 0
SPECIFICATION FairSpec
INVARIANTS PlainFailureRefunded PlainBilledOnce PlainAccounting
PROPERTIES  PlainEndIsFinal PlainTasksImplementHold
