---------------------------- MODULE MCConsensus ----------------------------
(* Instances of Consensus for TLC: which control events are sent.           *)
EXTENDS Consensus

MCBaf(seq, digest, signer, configSeq) ==
  [type |-> "baf", shard |-> 1, primary |-> 1, seq |-> seq,
   digest |-> digest, signer |-> signer, configSeq |-> configSeq, copy |-> 1]

MCConfig(parties, configSeq) ==
  [type |-> "config", configSeq |-> configSeq, parties |-> parties]

\* Party 4 leaves, and a second config changes no party.  A batch is attested,
\* and again for the new configs.
LeavePayloads ==
  {{MCBaf(0, "a", 2, 0), MCBaf(0, "a", 3, 0)},
   {MCBaf(0, "a", 2, 1)},
   {MCConfig({1, 2, 3}, 1)},
   {MCConfig({1, 2, 3}, 2)}}

\* Party 3 joins with an empty ledger, and a second config changes no party.  A
\* batch is attested in every config.
JoinPayloads ==
  {{MCBaf(0, "a", 2, 0), MCBaf(0, "a", 2, 1), MCBaf(0, "a", 3, 2)},
   {MCConfig({1, 2, 3}, 1)},
   {MCConfig({1, 2, 3}, 2)}}
=============================================================================
