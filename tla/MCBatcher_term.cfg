SPECIFICATION Spec
CONSTANTS
  r1 = r1
  r2 = r2
  N = 4
  Shard = 0
  Me = 1
  Requests = {}
  Invalid = {}
  MaxDecisions = 6
  MaxTerm = 4
  MaxConfigs = 0
  MaxHeight = 0
  MaxFailures = 1
INVARIANTS
  ComplaintTermIsCurrent
CHECK_DEADLOCK FALSE
