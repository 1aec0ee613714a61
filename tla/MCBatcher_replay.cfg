SPECIFICATION Spec
CONSTANTS
  r1 = r1
  r2 = r2
  N = 4
  Shard = 0
  Me = 1
  Requests = {}
  Invalid = {}
  MaxDecisions = 4
  MaxTerm = 2
  MaxConfigs = 0
  MaxHeight = 0
  MaxFailures = 1
PROPERTIES
  RoleTermNeverGoesBack
CHECK_DEADLOCK FALSE
