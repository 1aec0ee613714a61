SPECIFICATION Spec
CONSTANTS
  r1 = r1
  r2 = r2
  N = 2
  Shard = 0
  Me = 1
  Requests = {r1}
  Invalid = {}
  MaxDecisions = 4
  MaxTerm = 1
  MaxConfigs = 1
  MaxHeight = 2
  MaxFailures = 0
PROPERTIES
  RevivedAfterConfig
CHECK_DEADLOCK FALSE
