SPECIFICATION FairSpec
CONSTANTS
  r1 = r1
  r2 = r2
  N = 2
  Shard = 0
  Me = 1
  Requests = {r1}
  Invalid = {}
  MaxDecisions = 3
  MaxTerm = 2
  MaxConfigs = 0
  MaxHeight = 1
  MaxFailures = 1
INVARIANTS
  TypeOK
PROPERTIES
  LeavesOnlyIntoALedger
  FollowsTheTerm
CHECK_DEADLOCK FALSE
