SPECIFICATION Spec
CONSTANTS
  Shards = {1}
  Parties = {1, 2, 3, 4}
  Seqs = {0}
  Digests = {"a"}
  Genesis = {1, 2, 3, 4}
  Payloads <- LeavePayloads
  MaxDecisions = 3
  Faulty = {4}
INVARIANT
  StateBelongsToConfig
CHECK_DEADLOCK FALSE
