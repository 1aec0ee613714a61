SPECIFICATION Spec
CONSTANTS
  r1 = r1
  r2 = r2
  N = 2
  Shard = 0
  Me = 1
  Requests = {r1}
  Invalid = {r1}
  MaxDecisions = 3
  MaxTerm = 1
  MaxConfigs = 1
  MaxHeight = 1
  MaxFailures = 0
INVARIANTS
  PooledIsValid
CHECK_DEADLOCK FALSE
