SPECIFICATION SteadySpec
CONSTANTS
  Shards = {1}
  Parties = {1, 2, 3}
  Seqs = {0}
  Digests = {"a"}
  Genesis = {1, 2}
  Payloads <- JoinPayloads
  MaxDecisions = 4
  Faulty = {}
PROPERTY
  OneChain
CHECK_DEADLOCK FALSE
