SPECIFICATION FairSpec
CONSTANTS
  Payloads <- MCPayloads
  Capacity = 2
  MaxDecided = 4
  MaxFailures = 2
INVARIANTS
  TypeOK
  NothingLeftOut
  ConfigNeverBehind
PROPERTIES
  PanicsForAReason
  EveryBlockCommitted
CHECK_DEADLOCK FALSE
