----------------------------- MODULE Decisions -----------------------------
(***************************************************************************)
(* The decisions of consensus: how one is assembled and verified on top of *)
(* the ones before it (AssembleProposal and VerifyProposal of              *)
(* node/consensus/consensus.go).  Block headers, hashes and transaction    *)
(* counts are left out: they are functions of what is kept.                *)
(***************************************************************************)
EXTENDS ArmaState, Sequences

CONSTANT Genesis  \* the parties of the genesis config

ASSUME GenesisAssumption == Genesis \in (SUBSET Parties) \ {{}}

\* What is read back from a decision: the payload, the verification sequence
\* of the proposal, the header's state, the batches and whether the last
\* block is a config block.
Decision == [reqs : SUBSET ControlEvent, seq : Nat, state : State,
             batches : SUBSET BatchIDs, config : BOOLEAN]

\* appendGenesisBlock; the genesis config has sequence 0.
GenesisDecision ==
  [reqs |-> {}, seq |-> 0, state |-> InitialState(Genesis), batches |-> {},
   config |-> FALSE]

\* The sequence of the config in force after a decision.
ConfigSeq(d) == IF d.config THEN d.seq + 1 ELSE d.seq

OrderedDigests(d) == {id[4] : id \in d.batches}

DigestsOf(ds) == UNION {OrderedDigests(ds[i]) : i \in DOMAIN ds}

\* DefaultOrdererRules.ValidateTransition: one party joins or one leaves, and
\* the identifier of a party is never used again.
ValidTransition(ds, old, parties) ==
  /\ Cardinality(parties \ old) + Cardinality(old \ parties) <= 1
  /\ \A i \in DOMAIN ds : (parties \ old) \cap ds[i].state.parties = {}

\* verifyControlEvent, for a proposal on top of the decisions ds; members are
\* the parties of the config it is verified against.
Verified(ds, members, ce) ==
  CASE ce.type = "baf"       -> {ce.signer, ce.primary} \subseteq members
    [] ce.type = "complaint" -> ce.signer \in members
    [] ce.type = "report"    -> ce.party \in members /\ ce.decision < Len(ds)
    [] ce.type = "config"    -> ValidTransition(ds, members, ce.parties)

\* verifyProposalRequests: what the fold leaves out is not verified.
ValidPayload(ds, members, configSeq, reqs) ==
  \A ce \in FilterCEs(configSeq, reqs) \cup StaleConfigBAFs(configSeq, reqs) :
    Verified(ds, members, ce)

\* The decision that AssembleProposal proposes on top of ds, and VerifyProposal
\* recomputes; parties are those of the first config request, if there is one.
NewDecision(ds, configSeq, db, reqs, parties) ==
  LET r == SimulateStateTransition(ds[Len(ds)].state, configSeq, db, reqs)
  IN [reqs    |-> reqs,
      seq     |-> configSeq,
      state   |-> IF r.configs = {} THEN r.state
                  ELSE ApplyConfigToState(r.state, parties),
      batches |-> r.batches,
      config  |-> r.configs # {}]

\* The parties after the decision: any of the config requests may come first.
NextParties(ds, configSeq, reqs) ==
  LET configs == OfType(FilterCEs(configSeq, reqs), "config")
  IN IF configs = {} THEN {ds[Len(ds)].state.parties}
                     ELSE {cr.parties : cr \in configs}
=============================================================================
