SPECIFICATION ChainSpec
CONSTANTS
  Shards = {1}
  Parties = {1, 2, 3, 4}
  Seqs = {0, 1}
  Digests = {"a", "b"}
  Genesis = {1, 2, 3, 4}
  Payloads <- AllPayloads
  MaxDecisions = 4
  MaxRequests = 2
  MaxFragments = 3
CONSTRAINT OneConcern
INVARIANTS
  ChainTypeOK
  NoBatchOrderedTwice
  OnlyAttestedBatchesOrdered
  AttestedBatchIsOrdered
  AtMostOneRotation
  RotationIsJustified
  EnoughComplaintsRotate
  WatermarkIsDurable
CHECK_DEADLOCK FALSE
