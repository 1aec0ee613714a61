SPECIFICATION Spec
CONSTANTS
  Payloads <- MCPayloads
  Capacity = 2
  MaxDecided = 4
  MaxFailures = 2
INVARIANTS
  CommittedAreSkipped
CHECK_DEADLOCK FALSE
