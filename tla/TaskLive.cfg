CONSTANTS
  Tasks = {1, 2}
  SunoTasks = {1}
  RealtimeTasks = {}
  Deletable = {1}
  SubmitTime <- OneLegacy
  Quota = 1
  Holds = {0}
  ActualQuotas = {0}
  Nodes = {n1}
  QueryLimit = 1
  SweepLimit = 1
  RelayTimeout = 60
  MaxFaults = 1
  MaxFetches = 0
SPECIFICATION FairSpec
INVARIANTS SunoRefundedOnceAlone
 
