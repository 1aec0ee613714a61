-------------------------- MODULE DecisionsProofs --------------------------
(***************************************************************************)
(* Lemmas about a single decision: what the decision that AssembleProposal *)
(* builds on top of a chain has to do with the last one of the chain.      *)
(***************************************************************************)
EXTENDS Decisions, ArmaStateProofs

\* The events left when the BADB has filtered the fragments of a payload.
Unordered(db, reqs) == {ce \in reqs : ce.type = "baf" => ce.digest \notin db}

\* The state before extraction, when reqs are decided on top of ds.
RulesOn(ds, configSeq, db, reqs) ==
  Rules(ds[Len(ds)].state, configSeq, Unordered(db, reqs))

\* The genesis decision is one, with nothing pending.
LEMMA GenesisType ==
  /\ GenesisDecision \in Decision
  /\ GenesisDecision.state.pending = {}
  /\ GenesisDecision.state.complaints = {}
  /\ GenesisDecision.batches = {}
  /\ GenesisDecision.config = FALSE
<1>1. InitialState(Genesis) \in State
  BY GenesisAssumption DEF InitialState, State
<1>2. InitialState(Genesis).pending = {} /\ InitialState(Genesis).complaints = {}
  BY DEF InitialState
<1> QED BY <1>1, <1>2 DEF GenesisDecision, Decision

\* The sequence of a config is a number.
LEMMA ConfigSeqType ==
  ASSUME NEW d \in Decision
  PROVE  ConfigSeq(d) \in Nat
BY DEF ConfigSeq, Decision

\* What a decision d on top of ds takes over from the last one of ds and from
\* its payload.
Follows(d, ds, configSeq, db, reqs) ==
  LET last == ds[Len(ds)]
      r == RulesOn(ds, configSeq, db, reqs)
  IN /\ d.reqs = reqs
     /\ d.seq = configSeq
     /\ d.batches = Attested(r)
     /\ d.state.pending \in SUBSET r.pending
     /\ d.state.complaints = r.complaints
     /\ d.state.watermark >= last.state.watermark
     /\ \A b \in d.state.pending : BatchID(b) \notin d.batches
     /\ ~d.config => d.state.parties = last.state.parties
     /\ d.config => \E ce \in OfType(reqs, "config") : d.state.parties = ce.parties
     /\ \A sh \in Shards : d.state.term[sh] = r.term[sh]
                            + (IF N(d.state) # N(last.state) THEN 1 ELSE 0)

\* The decision that AssembleProposal builds is such a one.
LEMMA NewDecisionFollows ==
  ASSUME NEW ds \in Seq(Decision), Len(ds) > 0, NEW configSeq \in Nat, NEW db,
         NEW reqs \in SUBSET ControlEvent, IsFiniteSet(reqs),
         NEW parties \in NextParties(ds, configSeq, reqs)
  PROVE  /\ NewDecision(ds, configSeq, db, reqs, parties) \in Decision
         /\ Follows(NewDecision(ds, configSeq, db, reqs, parties),
                    ds, configSeq, db, reqs)
<1> DEFINE last == ds[Len(ds)]
           ces == Unordered(db, reqs)
           r == RulesOn(ds, configSeq, db, reqs)
           p == Process(last.state, configSeq, ces)
           a == ApplyConfigToState(p.state, parties)
           d == NewDecision(ds, configSeq, db, reqs, parties)
<1>1. last \in Decision /\ last.state \in State
  <2>1. last \in Decision
    OBVIOUS
  <2> QED BY <2>1 DEF Decision
<1>2. ces \in SUBSET reqs /\ ces \in SUBSET ControlEvent /\ IsFiniteSet(ces)
  BY FS_Subset DEF Unordered
<1> HIDE DEF ces
<1>3. /\ p.state \in State
      /\ p.state.parties = last.state.parties
      /\ p.state.watermark >= last.state.watermark
      /\ p.state.term = r.term
      /\ p.state.complaints = r.complaints
      /\ p.state.pending \in SUBSET r.pending
      /\ p.batches = Attested(r)
      /\ p.batches \in SUBSET BatchIDs
      /\ \A b \in p.state.pending : BatchID(b) \notin p.batches
      /\ p.configs = OfType(FilterCEs(configSeq, ces), "config")
  BY <1>1, <1>2, ProcessState DEF RulesOn, ces
<1>4. d = [reqs    |-> reqs,
           seq     |-> configSeq,
           state   |-> IF p.configs = {} THEN p.state ELSE a,
           batches |-> p.batches,
           config  |-> p.configs # {}]
  BY DEF NewDecision, SimulateStateTransition, Unordered, ces
<1> HIDE DEF p, r
<1>5. p.configs \in SUBSET OfType(reqs, "config")
  BY <1>2, <1>3 DEF FilterCEs, OfType
<1>6. p.configs = OfType(FilterCEs(configSeq, reqs), "config")
  BY <1>3 DEF FilterCEs, OfType, Unordered, ces
<1>7. ASSUME p.configs # {}
      PROVE  /\ parties \in (SUBSET Parties) \ {{}}
             /\ \E ce \in OfType(reqs, "config") : parties = ce.parties
  <2>1. \E ce \in p.configs : parties = ce.parties
    BY <1>6, <1>7 DEF NextParties
  <2>2. \A ce \in p.configs : ce.parties \in (SUBSET Parties) \ {{}}
    BY <1>5, OfTypeType DEF ConfigRequest
  <2> QED BY <1>5, <2>1, <2>2
<1>8. ASSUME p.configs # {}
      PROVE  /\ a \in State
             /\ a.parties = parties
             /\ a.pending = p.state.pending
             /\ a.complaints = p.state.complaints
             /\ a.watermark = p.state.watermark
             /\ \A sh \in Shards : a.term[sh] = p.state.term[sh]
                                    + (IF N(a) # N(p.state) THEN 1 ELSE 0)
  BY <1>3, <1>7, <1>8, ApplyConfigType
<1>9. \A sh \in Shards : p.state.term[sh] \in Nat
  BY <1>3 DEF State
<1>10. N(p.state) = N(last.state)
  BY <1>3 DEF N
<1> HIDE DEF a, d, last
<1>11. d.state = IF p.configs = {} THEN p.state ELSE a
  BY <1>4
<1>12. /\ d.state \in State
       /\ d.state.pending = p.state.pending
       /\ d.state.complaints = p.state.complaints
       /\ d.state.watermark = p.state.watermark
       /\ p.configs = {} => d.state.parties = last.state.parties
       /\ p.configs # {} => d.state.parties = parties
  BY <1>3, <1>8, <1>11
<1>13. \A sh \in Shards : d.state.term[sh] = r.term[sh]
                            + (IF N(d.state) # N(last.state) THEN 1 ELSE 0)
  BY <1>3, <1>8, <1>9, <1>10, <1>11
<1>14. d \in Decision
  BY <1>3, <1>4, <1>11, <1>12 DEF Decision
<1>15. d.reqs = reqs /\ d.seq = configSeq /\ d.batches = p.batches
         /\ d.config = (p.configs # {})
  BY <1>4
<1> QED BY <1>3, <1>7, <1>12, <1>13, <1>14, <1>15 DEF d, r, last, Follows
=============================================================================
