SPECIFICATION ChainSpec
CONSTANTS
  Shards = {1}
  Parties = {1, 2, 3, 4}
  Seqs = {0}
  Digests = {"a", "b", "c"}
  Genesis = {1, 2, 3, 4}
  Payloads <- EquivocationPayloads
  MaxDecisions = 4
  MaxRequests = 2
  MaxFragments = 3
INVARIANT
  EquivocationRotatesThatPrimary
CHECK_DEADLOCK FALSE
