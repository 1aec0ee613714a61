SPECIFICATION FairSpec
CONSTANTS
  r1 = r1
  r2 = r2
  N = 4
  Shard = 0
  Me = 1
  Requests = {}
  Invalid = {}
  MaxDecisions = 5
  MaxTerm = 3
  MaxConfigs = 1
  MaxHeight = 0
  MaxFailures = 0
PROPERTIES
  SoftStopReturns
CHECK_DEADLOCK FALSE
