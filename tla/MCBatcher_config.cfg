SPECIFICATION Spec
CONSTANTS
  r1 = r1
  r2 = r2
  N = 2
  Shard = 0
  Me = 1
  Requests = {r1}
  Invalid = {r1}
  MaxDecisions = 4
  MaxTerm = 1
  MaxConfigs = 1
  MaxHeight = 1
  MaxFailures = 1
INVARIANTS
  AppendsInOrder
  AttestedIsStored
PROPERTIES
  OldConfigRevivesOnlyValid
CHECK_DEADLOCK FALSE
