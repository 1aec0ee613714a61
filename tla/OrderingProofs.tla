--------------------------- MODULE OrderingProofs ---------------------------
(***************************************************************************)
(* Proofs about the chain of decisions, for every number of parties and    *)
(* shards, every set of payloads and every length of the chain.            *)
(***************************************************************************)
EXTENDS Ordering, DecisionsProofs

Last == decisions[Len(decisions)]

\* No fragment of a batch that was ordered is pending: this is what makes
\* NoBatchOrderedTwice inductive.  It speaks of batches and not of digests: a
\* digest may be pending for one batch and ordered for another.
PendingNotOrdered ==
  \A b \in Last.state.pending : \A i \in DOMAIN decisions :
    BatchID(b) \notin decisions[i].batches

\* What is pending was sent for the config of the last decision, by one of its
\* members; when that decision changes the config, it is about to go.
PendingFromMembers ==
  \A b \in Last.state.pending :
    /\ b \in Sent("baf", 1, Len(decisions))
    /\ b.configSeq = Last.seq
    /\ Last.config \/ b.signer \in Last.state.parties

\* Two pending fragments are equal, up to copy, only if one payload held both.
PendingTwice ==
  \A b1, b2 \in Last.state.pending :
    b1 # b2 /\ AttestationKey(b1) = AttestationKey(b2)
      => \E k \in 1 .. Len(decisions) :
           {b1, b2} \subseteq OfType(decisions[k].reqs, "baf")

-----------------------------------------------------------------------------
(* Steps                                                                   *)

\* The state before extraction in the step that orders reqs.
Folded(reqs) ==
  RulesOn(decisions, ConfigSeq(Last), DigestsOf(decisions), reqs)

\* What Order knows of the decision that it appends.
FollowsLast(d, reqs) ==
  Follows(d, decisions, ConfigSeq(Last), DigestsOf(decisions), reqs)

\* What is known before a step.
LEMMA Before ==
  ASSUME ChainTypeOK
  PROVE  /\ decisions \in Seq(Decision) /\ Len(decisions) \in Nat \ {0}
         /\ Last \in Decision /\ Last.state \in State
         /\ ConfigSeq(Last) \in Nat
<1>1. decisions \in Seq(Decision) /\ Len(decisions) \in Nat \ {0}
  BY MaxDecisionsAssumption DEF ChainTypeOK
<1>2. Last \in Decision
  BY <1>1 DEF Last
<1>3. Last.state \in State /\ ConfigSeq(Last) \in Nat
  BY <1>2, ConfigSeqType DEF Decision
<1> QED BY <1>1, <1>2, <1>3

\* What Order does: a verified payload is folded into a new last decision.
LEMMA OrderStep ==
  ASSUME ChainTypeOK, NEW reqs \in Payloads, Order(reqs)
  PROVE  /\ reqs \in SUBSET ControlEvent /\ IsFiniteSet(reqs)
         /\ Len(decisions) < MaxDecisions
         /\ ValidPayload(decisions, Last.state.parties, ConfigSeq(Last), reqs)
         /\ \E d \in Decision : /\ decisions' = Append(decisions, d)
                                /\ FollowsLast(d, reqs)
<1> DEFINE configSeq == ConfigSeq(Last)
           db == DigestsOf(decisions)
<1>1. decisions \in Seq(Decision) /\ Len(decisions) > 0 /\ configSeq \in Nat
  BY Before
<1>2. reqs \in SUBSET ControlEvent /\ IsFiniteSet(reqs)
  BY PayloadsAssumption
<1>3. /\ Len(decisions) < MaxDecisions
      /\ ValidPayload(decisions, Last.state.parties, configSeq, reqs)
      /\ \E parties \in NextParties(decisions, configSeq, reqs) :
           decisions' = Append(decisions,
                          NewDecision(decisions, configSeq, db, reqs, parties))
  BY DEF Order, Last
<1>4. PICK parties \in NextParties(decisions, configSeq, reqs) :
        decisions' = Append(decisions,
                       NewDecision(decisions, configSeq, db, reqs, parties))
  BY <1>3
<1> DEFINE d == NewDecision(decisions, configSeq, db, reqs, parties)
<1> HIDE DEF configSeq, db
<1>5. d \in Decision /\ FollowsLast(d, reqs)
  BY <1>1, <1>2, NewDecisionFollows DEF FollowsLast, configSeq, db
<1> QED BY <1>2, <1>3, <1>4, <1>5 DEF configSeq, db

\* The types of the state of the chain are preserved.
LEMMA TypeStep == ChainTypeOK /\ [ChainNext]_decisions => ChainTypeOK'
<1> SUFFICES ASSUME ChainTypeOK, [ChainNext]_decisions PROVE ChainTypeOK'
  OBVIOUS
<1>1. CASE UNCHANGED decisions
  BY <1>1 DEF ChainTypeOK
<1>2. ASSUME NEW reqs \in Payloads, Order(reqs) PROVE ChainTypeOK'
  <2>1. PICK d \in Decision : decisions' = Append(decisions, d)
    BY <1>2, OrderStep
  <2>2. decisions \in Seq(Decision) /\ Len(decisions) \in Nat \ {0}
          /\ Len(decisions) < MaxDecisions
    BY <1>2, Before, OrderStep
  <2>3. decisions' \in Seq(Decision) /\ Len(decisions') = Len(decisions) + 1
    BY <2>1, <2>2
  <2> QED BY <2>2, <2>3, MaxDecisionsAssumption DEF ChainTypeOK
<1> QED BY <1>1, <1>2 DEF ChainNext

\* The chain starts well typed.
LEMMA TypeInit == ChainInit => ChainTypeOK
<1> SUFFICES ASSUME ChainInit PROVE ChainTypeOK
  OBVIOUS
<1>1. decisions = <<GenesisDecision>> /\ GenesisDecision \in Decision
  BY GenesisType DEF ChainInit
<1> HIDE DEF ChainInit
<1> QED BY <1>1, MaxDecisionsAssumption DEF ChainTypeOK

\* Every state of the chain is well typed: a decision's header always holds a
\* state with members, terms and heights (State.Process).
THEOREM TypeCorrect == ChainSpec => []ChainTypeOK
<1> QED BY TypeInit, TypeStep, PTL DEF ChainSpec

-----------------------------------------------------------------------------
(* A batch is ordered once                                                 *)

\* A fragment that the round adds is not of a batch that was ordered: its
\* digest is not in the BADB.
LEMMA NewFragmentsUnordered ==
  ASSUME ChainTypeOK, PendingNotOrdered, NEW reqs \in Payloads, Order(reqs),
         NEW b \in Folded(reqs).pending, NEW i \in DOMAIN decisions
  PROVE  BatchID(b) \notin decisions[i].batches
<1> DEFINE ces == Unordered(DigestsOf(decisions), reqs)
<1>1. reqs \in SUBSET ControlEvent /\ IsFiniteSet(reqs)
  BY OrderStep
<1>2. ces \in SUBSET ControlEvent /\ IsFiniteSet(ces)
  BY <1>1, FS_Subset DEF Unordered
<1>3. Last.state \in State /\ ConfigSeq(Last) \in Nat
  BY Before
<1>4. b \in Last.state.pending \/ b \in OfType(FilterCEs(ConfigSeq(Last), ces), "baf")
  <2>1. Folded(reqs) = Rules(Last.state, ConfigSeq(Last), ces)
    BY DEF Folded, RulesOn, Last
  <2> DEFINE old == Kept(Last.state, ConfigSeq(Last))
  <2>2. Folded(reqs).pending = old \cup Fresh(old, FilterCEs(ConfigSeq(Last), ces))
    <3> HIDE DEF ces
    <3> QED BY <1>2, <1>3, <2>1, RulesPending
  <2> QED BY <2>2 DEF Kept, Fresh
<1>5. CASE b \in Last.state.pending
  BY <1>5 DEF PendingNotOrdered
<1>6. CASE b \in OfType(FilterCEs(ConfigSeq(Last), ces), "baf")
  <2>1. b.digest \notin DigestsOf(decisions)
    BY <1>6 DEF OfType, FilterCEs, Unordered
  <2>2. \A id \in decisions[i].batches : id[4] \in DigestsOf(decisions)
    BY DEF DigestsOf, OrderedDigests
  <2>3. BatchID(b)[4] = b.digest
    BY DEF BatchID
  <2> QED BY <2>1, <2>2, <2>3
<1> QED BY <1>4, <1>5, <1>6

\* The inductive step.
LEMMA OrderedOnceStep ==
  ChainTypeOK /\ NoBatchOrderedTwice /\ PendingNotOrdered /\ [ChainNext]_decisions
    => NoBatchOrderedTwice' /\ PendingNotOrdered'
<1> SUFFICES ASSUME ChainTypeOK, NoBatchOrderedTwice, PendingNotOrdered, [ChainNext]_decisions
             PROVE  NoBatchOrderedTwice' /\ PendingNotOrdered'
  OBVIOUS
<1>1. CASE UNCHANGED decisions
  BY <1>1 DEF NoBatchOrderedTwice, PendingNotOrdered, Last
<1>2. ASSUME NEW reqs \in Payloads, Order(reqs)
      PROVE  NoBatchOrderedTwice' /\ PendingNotOrdered'
  <2>1. PICK d \in Decision : decisions' = Append(decisions, d) /\ FollowsLast(d, reqs)
    BY <1>2, OrderStep
  <2>2. decisions \in Seq(Decision) /\ Len(decisions) \in Nat \ {0}
    BY Before
  <2> DEFINE n == Len(decisions) + 1
  <2>3. /\ DOMAIN decisions' = 1 .. n /\ DOMAIN decisions = 1 .. n - 1
        /\ \A i \in 1 .. n - 1 : decisions'[i] = decisions[i]
        /\ decisions'[n] = d /\ Last' = d /\ n \in Nat
    BY <2>1, <2>2 DEF Last
  <2>4. /\ d.batches = Attested(Folded(reqs))
        /\ d.state.pending \in SUBSET Folded(reqs).pending
        /\ \A b \in d.state.pending : BatchID(b) \notin d.batches
    BY <2>1 DEF FollowsLast, Follows, Folded
  <2>5. \A b \in Folded(reqs).pending : \A i \in DOMAIN decisions :
          BatchID(b) \notin decisions[i].batches
    BY <1>2, NewFragmentsUnordered
  <2>6. \A id \in d.batches : \E b \in Folded(reqs).pending : id = BatchID(b)
    BY <2>4 DEF Attested
  <2>7. \A i \in 1 .. n - 1 : d.batches \cap decisions[i].batches = {}
    BY <2>3, <2>5, <2>6
  <2> HIDE DEF n
  <2>8. NoBatchOrderedTwice'
    <3> SUFFICES ASSUME NEW i \in 1 .. n, NEW j \in 1 .. n, i # j
                 PROVE  decisions'[i].batches \cap decisions'[j].batches = {}
      BY <2>3 DEF NoBatchOrderedTwice
    <3>1. CASE i = n
      BY <2>3, <2>7, <3>1
    <3>2. CASE j = n
      BY <2>3, <2>7, <3>2
    <3>3. CASE i # n /\ j # n
      BY <2>3, <3>3 DEF NoBatchOrderedTwice
    <3> QED BY <3>1, <3>2, <3>3
  <2>9. PendingNotOrdered'
    <3> SUFFICES ASSUME NEW b \in d.state.pending, NEW i \in 1 .. n
                 PROVE  BatchID(b) \notin decisions'[i].batches
      BY <2>3 DEF PendingNotOrdered
    <3>1. CASE i = n
      BY <2>3, <2>4, <3>1
    <3>2. CASE i # n
      BY <2>3, <2>4, <2>5, <3>2
    <3> QED BY <3>1, <3>2
  <2> QED BY <2>8, <2>9
<1> QED BY <1>1, <1>2 DEF ChainNext

\* No batch is ordered in two decisions, whatever fragments are sent again, for
\* any parties and any length of the chain: a fragment is either kept from the
\* fold by the BADB or was pending when its batch was ordered, and then it went
\* with the batch (SimulateStateTransition, ExtractBatchAttestationsFromPending).
THEOREM OrderedOnce == ChainSpec => []NoBatchOrderedTwice
<1>1. ChainInit => NoBatchOrderedTwice /\ PendingNotOrdered
  BY GenesisType DEF ChainInit, NoBatchOrderedTwice, PendingNotOrdered, Last
<1> QED BY <1>1, TypeInit, TypeStep, OrderedOnceStep, PTL DEF ChainSpec

-----------------------------------------------------------------------------
(* A shard is rotated once at most                                         *)

\* Appending a decision leaves the earlier ones alone.
LEMMA AppendFacts ==
  ASSUME NEW ds \in Seq(Decision), Len(ds) \in Nat \ {0}, NEW d \in Decision,
         NEW es, es = Append(ds, d)
  PROVE  /\ DOMAIN es = 1 .. Len(ds) + 1
         /\ DOMAIN ds = 1 .. Len(ds)
         /\ Len(es) = Len(ds) + 1
         /\ \A i \in 1 .. Len(ds) : es[i] = ds[i]
         /\ es[Len(ds) + 1] = d
OBVIOUS

\* The inductive step: nobody complains about a term that is still to come.
LEMMA RotationStep ==
  ChainTypeOK /\ AtMostOneRotation /\ ComplaintsNotAhead(Last.state) /\ [ChainNext]_decisions
    => AtMostOneRotation' /\ ComplaintsNotAhead(Last.state)'
<1> SUFFICES ASSUME ChainTypeOK, AtMostOneRotation, ComplaintsNotAhead(Last.state),
                    [ChainNext]_decisions
             PROVE  AtMostOneRotation' /\ ComplaintsNotAhead(Last.state)'
  OBVIOUS
<1>1. CASE UNCHANGED decisions
  BY <1>1 DEF AtMostOneRotation, Rotations, ComplaintsNotAhead, Last
<1>2. ASSUME NEW reqs \in Payloads, Order(reqs)
      PROVE  AtMostOneRotation' /\ ComplaintsNotAhead(Last.state)'
  <2>1. PICK d \in Decision : decisions' = Append(decisions, d) /\ FollowsLast(d, reqs)
    BY <1>2, OrderStep
  <2>2. decisions \in Seq(Decision) /\ Len(decisions) \in Nat \ {0}
    BY Before
  <2> DEFINE n == Len(decisions) + 1
  <2>3. /\ DOMAIN decisions' = 1 .. n /\ DOMAIN decisions = 1 .. n - 1
        /\ \A i \in 1 .. n - 1 : decisions'[i] = decisions[i]
        /\ decisions'[n] = d /\ Last' = d /\ n \in Nat /\ n > 1
        /\ decisions'[n - 1] = Last
    BY <2>1, <2>2, AppendFacts DEF Last
  <2> DEFINE r == Folded(reqs)
             ces == Unordered(DigestsOf(decisions), reqs)
  <2>4. /\ d.state.complaints = r.complaints
        /\ \A sh \in Shards : d.state.term[sh] = r.term[sh]
                                + (IF N(d.state) # N(Last.state) THEN 1 ELSE 0)
    BY <2>1 DEF FollowsLast, Follows, Folded, Last
  <2>5. ces \in SUBSET ControlEvent /\ IsFiniteSet(ces)
    BY <1>2, OrderStep, FS_Subset DEF Unordered
  <2>6. Last.state \in State /\ ConfigSeq(Last) \in Nat
    BY Before
  <2>7. r = Rules(Last.state, ConfigSeq(Last), ces)
    BY DEF Folded, RulesOn, Last
  <2> HIDE DEF r, ces, n
  <2>8. /\ r \in State
        /\ ComplaintsNotAhead(r)
        /\ \A sh \in Shards : r.term[sh] \in {Last.state.term[sh], Last.state.term[sh] + 1}
    BY <2>5, <2>6, <2>7, RulesPending, RulesTerm
  <2>9. \A sh \in Shards : r.term[sh] \in Nat /\ Last.state.term[sh] \in Nat
    BY <2>6, <2>8 DEF State
  <2>10. AtMostOneRotation'
    <3> SUFFICES ASSUME NEW i \in (1 .. n) \ {1}, NEW sh \in Shards
                 PROVE  Rotations(i, sh)' \in {0, 1}
      BY <2>3 DEF AtMostOneRotation
    <3>1. CASE i = n
      <4> DEFINE bump == IF N(d.state) # N(Last.state) THEN 1 ELSE 0
      <4>1. Rotations(i, sh)' = d.state.term[sh] - Last.state.term[sh] - bump
        BY <2>3, <3>1 DEF Rotations
      <4>2. d.state.term[sh] = r.term[sh] + bump /\ bump \in {0, 1}
        BY <2>4
      <4> HIDE DEF bump
      <4> QED BY <2>8, <2>9, <4>1, <4>2
    <3>2. CASE i # n
      <4>1. i \in DOMAIN decisions \ {1} /\ i - 1 \in 1 .. n - 1 /\ i \in 1 .. n - 1
        BY <2>3, <3>2
      <4>2. Rotations(i, sh)' = Rotations(i, sh)
        BY <2>3, <4>1 DEF Rotations
      <4> QED BY <4>1, <4>2 DEF AtMostOneRotation
    <3> QED BY <3>1, <3>2
  <2>11. ComplaintsNotAhead(Last.state)'
    <3>1. \A c \in r.complaints : c.shard \in Shards /\ c.term \in Nat
      BY <2>8 DEF State, Complaint
    <3>2. \A c \in d.state.complaints : c.term <= d.state.term[c.shard]
      BY <2>4, <2>8, <2>9, <3>1 DEF ComplaintsNotAhead
    <3> QED BY <2>3, <3>2 DEF ComplaintsNotAhead
  <2> QED BY <2>10, <2>11
<1> QED BY <1>1, <1>2 DEF ChainNext

\* A decision moves a shard on by one term at most, complaints and equivocation
\* together (DetectEquivocation, PrimaryRotateDueToComplaints), apart from the
\* step that a change in the number of parties makes for every shard.
THEOREM RotatedOnce == ChainSpec => []AtMostOneRotation
<1>1. ChainInit => AtMostOneRotation /\ ComplaintsNotAhead(Last.state)
  BY GenesisType DEF ChainInit, AtMostOneRotation, ComplaintsNotAhead, Last
<1> QED BY <1>1, TypeInit, TypeStep, RotationStep, PTL DEF ChainSpec

-----------------------------------------------------------------------------
(* Only attested batches are ordered                                       *)

\* Every fragment that the fold counts was sent for the current config by one
\* of its members: those that are pending by the invariant, those of the round
\* because VerifyProposal checked them.
LEMMA CountedFragments ==
  ASSUME ChainTypeOK, PendingFromMembers, NEW reqs \in Payloads, Order(reqs),
         NEW b \in Folded(reqs).pending
  PROVE  /\ b \in Sent("baf", 1, Len(decisions)) \/ b \in OfType(reqs, "baf")
         /\ b.configSeq = ConfigSeq(Last)
         /\ b.signer \in Last.state.parties
<1> DEFINE ces == Unordered(DigestsOf(decisions), reqs)
<1>1. reqs \in SUBSET ControlEvent /\ IsFiniteSet(reqs)
  BY OrderStep
<1>2. ces \in SUBSET ControlEvent /\ IsFiniteSet(ces) /\ ces \in SUBSET reqs
  BY <1>1, FS_Subset DEF Unordered
<1>3. Last.state \in State /\ ConfigSeq(Last) \in Nat /\ Last \in Decision
  BY Before
<1> HIDE DEF ces
<1>4. \/ b \in Last.state.pending /\ b.configSeq = ConfigSeq(Last)
      \/ b \in OfType(FilterCEs(ConfigSeq(Last), ces), "baf")
  <2>1. Folded(reqs) = Rules(Last.state, ConfigSeq(Last), ces)
    BY DEF Folded, RulesOn, Last, ces
  <2> DEFINE old == Kept(Last.state, ConfigSeq(Last))
  <2>2. Folded(reqs).pending = old \cup Fresh(old, FilterCEs(ConfigSeq(Last), ces))
    BY <1>2, <1>3, <2>1, RulesPending
  <2> QED BY <2>2 DEF Kept, Fresh
<1>5. CASE b \in Last.state.pending /\ b.configSeq = ConfigSeq(Last)
  <2>1. /\ b \in Sent("baf", 1, Len(decisions))
        /\ b.configSeq = Last.seq
        /\ Last.config \/ b.signer \in Last.state.parties
    BY <1>5 DEF PendingFromMembers
  <2>2. ~Last.config
    BY <1>3, <1>5, <2>1 DEF ConfigSeq, Decision
  <2> QED BY <1>5, <2>1, <2>2
<1>6. CASE b \in OfType(FilterCEs(ConfigSeq(Last), ces), "baf")
  <2>1. b \in FilterCEs(ConfigSeq(Last), reqs) /\ b \in reqs /\ b.type = "baf"
          /\ b.configSeq = ConfigSeq(Last)
    BY <1>2, <1>6 DEF OfType, FilterCEs
  <2>2. Verified(decisions, Last.state.parties, b)
    BY <2>1, OrderStep DEF ValidPayload
  <2>3. b.signer \in Last.state.parties
    BY <2>1, <2>2 DEF Verified
  <2> QED BY <2>1, <2>3 DEF OfType
<1> QED BY <1>4, <1>5, <1>6

\* Equal fragments that the fold counts were pending both, or the payload holds
\* both: CollectAndDeduplicateEvents drops the repetition of a pending one.
LEMMA CountedTwice ==
  ASSUME ChainTypeOK, NEW reqs \in Payloads, Order(reqs),
         NEW b1 \in Folded(reqs).pending, NEW b2 \in Folded(reqs).pending,
         b1 # b2, AttestationKey(b1) = AttestationKey(b2)
  PROVE  \/ {b1, b2} \subseteq Last.state.pending
         \/ {b1, b2} \subseteq OfType(reqs, "baf")
<1> DEFINE ces == Unordered(DigestsOf(decisions), reqs)
           old == Kept(Last.state, ConfigSeq(Last))
           new == Fresh(old, FilterCEs(ConfigSeq(Last), ces))
<1>1. ces \in SUBSET ControlEvent /\ IsFiniteSet(ces) /\ ces \in SUBSET reqs
  BY OrderStep, FS_Subset DEF Unordered
<1>2. Last.state \in State /\ ConfigSeq(Last) \in Nat
  BY Before
<1>3. Folded(reqs) = Rules(Last.state, ConfigSeq(Last), ces)
  BY DEF Folded, RulesOn, Last
<1> HIDE DEF ces
<1>4. Folded(reqs).pending = old \cup new
  BY <1>1, <1>2, <1>3, RulesPending
<1>5. old \subseteq Last.state.pending
  BY DEF Kept
<1>6. new \subseteq OfType(reqs, "baf")
  BY <1>1 DEF Fresh, OfType, FilterCEs
<1>7. \A x \in old, y \in new : AttestationKey(x) # AttestationKey(y)
  BY DEF Fresh
<1> HIDE DEF old, new
<1> QED BY <1>4, <1>5, <1>6, <1>7

\* The inductive step.
LEMMA AttestedStep ==
  ChainTypeOK /\ OnlyAttestedBatchesOrdered /\ PendingFromMembers /\ PendingTwice
      /\ [ChainNext]_decisions
    => OnlyAttestedBatchesOrdered' /\ PendingFromMembers' /\ PendingTwice'
<1> SUFFICES ASSUME ChainTypeOK, OnlyAttestedBatchesOrdered, PendingFromMembers,
                    PendingTwice, [ChainNext]_decisions
             PROVE  OnlyAttestedBatchesOrdered' /\ PendingFromMembers' /\ PendingTwice'
  OBVIOUS
<1>1. CASE UNCHANGED decisions
  <2>1. \A lo, hi : Sent("baf", lo, hi)' = Sent("baf", lo, hi)
    BY <1>1 DEF Sent
  <2>2. \A i, id : Attesters(i, id)' = Attesters(i, id)
    BY <1>1, <2>1 DEF Attesters
  <2>3. \A i, id : SentTwice(i, id)' = SentTwice(i, id)
    BY <1>1 DEF SentTwice
  <2>4. OnlyAttestedBatchesOrdered'
    BY <1>1, <2>2, <2>3 DEF OnlyAttestedBatchesOrdered
  <2>5. PendingFromMembers' /\ PendingTwice'
    BY <1>1, <2>1 DEF PendingFromMembers, PendingTwice, Last
  <2> QED BY <2>4, <2>5
<1>2. ASSUME NEW reqs \in Payloads, Order(reqs)
      PROVE  OnlyAttestedBatchesOrdered' /\ PendingFromMembers' /\ PendingTwice'
  <2>1. PICK d \in Decision : decisions' = Append(decisions, d) /\ FollowsLast(d, reqs)
    BY <1>2, OrderStep
  <2>2. decisions \in Seq(Decision) /\ Len(decisions) \in Nat \ {0} /\ Last.state \in State
    BY Before
  <2> DEFINE r == Folded(reqs)
  <2>n. PICK n \in Nat : n = Len(decisions) + 1
    BY <2>2
  <2>3. /\ DOMAIN decisions' = 1 .. n /\ DOMAIN decisions = 1 .. n - 1
        /\ \A i \in 1 .. n - 1 : decisions'[i] = decisions[i]
        /\ decisions'[n] = d /\ Last' = d /\ n \in Nat /\ n > 1 /\ Len(decisions') = n
        /\ decisions'[n - 1] = Last /\ Len(decisions) = n - 1
    BY <2>n, <2>1, <2>2, AppendFacts DEF Last
  <2>4. /\ d.reqs = reqs /\ d.seq = ConfigSeq(Last)
        /\ d.batches = Attested(r)
        /\ d.state.pending \in SUBSET r.pending
        /\ ~d.config => d.state.parties = Last.state.parties
    BY <2>1 DEF FollowsLast, Follows, Folded, Last
  <2>5. r.parties = Last.state.parties
    <3> DEFINE ces == Unordered(DigestsOf(decisions), reqs)
    <3>1. ces \in SUBSET ControlEvent /\ IsFiniteSet(ces)
      BY <1>2, OrderStep, FS_Subset DEF Unordered
    <3>2. r = Rules(Last.state, ConfigSeq(Last), ces) /\ ConfigSeq(Last) \in Nat
      BY Before DEF Folded, RulesOn, Last
    <3> HIDE DEF ces, r
    <3> QED BY <2>2, <3>1, <3>2, RulesPending
  <2>6. \A b \in r.pending :
          /\ b \in Sent("baf", 1, n - 1) \/ b \in OfType(reqs, "baf")
          /\ b.configSeq = d.seq
          /\ b.signer \in Last.state.parties
    BY <1>2, <2>3, <2>4, CountedFragments
  <2> HIDE DEF r
  <2>7. /\ \A i \in 1 .. n - 1 : Sent("baf", 1, i)' = Sent("baf", 1, i)
        /\ Sent("baf", 1, n)' = Sent("baf", 1, n - 1) \cup OfType(reqs, "baf")
    <3>1. \A i \in 1 .. n - 1 : Sent("baf", 1, i)' = Sent("baf", 1, i)
      BY <2>3 DEF Sent
    <3>2. 1 .. n = (1 .. n - 1) \cup {n}
      BY <2>3
    <3>3. OfType(decisions'[n].reqs, "baf") = OfType(reqs, "baf")
      BY <2>3, <2>4
    <3>4. Sent("baf", 1, n)' = Sent("baf", 1, n - 1)' \cup OfType(decisions'[n].reqs, "baf")
      BY <3>2 DEF Sent
    <3>5. Sent("baf", 1, n - 1)' = Sent("baf", 1, n - 1)
      BY <2>3, <3>1
    <3> QED BY <3>1, <3>3, <3>4, <3>5
  <2>8. \A b \in r.pending : b \in Sent("baf", 1, n)'
    BY <2>6, <2>7
  <2>9. PendingFromMembers'
    <3>1. \A b \in d.state.pending :
            /\ b \in Sent("baf", 1, n)'
            /\ b.configSeq = d.seq
            /\ d.config \/ b.signer \in d.state.parties
      BY <2>4, <2>6, <2>8
    <3>2. Sent("baf", 1, Len(decisions))' = Sent("baf", 1, n)'
      BY <2>3 DEF Sent
    <3> QED BY <2>3, <3>1, <3>2 DEF PendingFromMembers
  <2>t. ASSUME NEW b1 \in r.pending, NEW b2 \in r.pending,
               b1 # b2, AttestationKey(b1) = AttestationKey(b2)
        PROVE  \E k \in 1 .. n : {b1, b2} \subseteq OfType(decisions'[k].reqs, "baf")
    <3>1. \/ {b1, b2} \subseteq Last.state.pending
          \/ {b1, b2} \subseteq OfType(reqs, "baf")
      BY <1>2, <2>t, CountedTwice DEF r
    <3>2. CASE {b1, b2} \subseteq Last.state.pending
      <4>1. PICK k \in 1 .. n - 1 : {b1, b2} \subseteq OfType(decisions[k].reqs, "baf")
        BY <2>3, <2>t, <3>2 DEF PendingTwice
      <4>2. k \in 1 .. n /\ decisions'[k] = decisions[k]
        BY <2>3
      <4> QED BY <4>1, <4>2
    <3>3. CASE {b1, b2} \subseteq OfType(reqs, "baf")
      <4>1. n \in 1 .. n /\ decisions'[n].reqs = reqs
        BY <2>3, <2>4
      <4> QED BY <3>3, <4>1
    <3> QED BY <3>1, <3>2, <3>3
  <2>u. PendingTwice'
    <3>1. d.state.pending \subseteq r.pending /\ Last' = d /\ Len(decisions') = n
      BY <2>3, <2>4
    <3> QED BY <2>t, <3>1 DEF PendingTwice
  <2>10. ASSUME NEW id \in d.batches, ~SentTwice(n, id)'
         PROVE  Cardinality(Attesters(n, id)') >= Threshold(Last.state)
    <3>1. Cardinality(Fragments(r, id)) >= Threshold(r)
      BY <2>4 DEF Attested
    <3>2. Attesters(n, id)' = {b.signer : b \in {x \in Sent("baf", 1, n)' :
                                 BatchID(x) = id /\ x.configSeq = d.seq}}
                                \cap Last.state.parties
      BY <2>3 DEF Attesters
    <3> DEFINE signer == [b \in Fragments(r, id) |-> b.signer]
    <3>3. signer \in Injection(Fragments(r, id), Attesters(n, id)')
      <4>1. \A b \in Fragments(r, id) : b.signer \in Attesters(n, id)'
        BY <2>6, <2>8, <3>2 DEF Fragments
      <4>2. ASSUME NEW b1 \in Fragments(r, id), NEW b2 \in Fragments(r, id),
                   b1.signer = b2.signer, b1 # b2
            PROVE  FALSE
        <5>1. BatchID(b1) = id /\ BatchID(b2) = id /\ b1 \in r.pending /\ b2 \in r.pending
          BY DEF Fragments
        <5>2. AttestationKey(b1) = AttestationKey(b2)
          BY <4>2, <5>1 DEF AttestationKey, BatchID
        <5>3. PICK k \in 1 .. n : {b1, b2} \subseteq OfType(decisions'[k].reqs, "baf")
          BY <2>t, <4>2, <5>1, <5>2
        <5>4. b1.configSeq = d.seq /\ b2.configSeq = d.seq /\ decisions'[n] = d
          BY <2>3, <2>6, <5>1
        <5> QED BY <2>10, <4>2, <5>1, <5>2, <5>3, <5>4 DEF SentTwice
      <4> QED BY <4>1, <4>2 DEF Injection, IsInjective
    <3>4. IsFiniteSet(Attesters(n, id)')
      <4>1. Attesters(n, id)' \in SUBSET Last.state.parties
        BY <3>2
      <4> QED BY <2>2, <4>1, ThresholdType, FS_Subset
    <3>5. Threshold(r) = Threshold(Last.state) /\ Threshold(r) \in Nat
      BY <2>2, <2>5, ThresholdType DEF Threshold, N
    <3> HIDE DEF signer
    <3>6. /\ IsFiniteSet(Fragments(r, id))
          /\ Cardinality(Fragments(r, id)) <= Cardinality(Attesters(n, id)')
      BY <3>3, <3>4, FS_Injection
    <3>7. /\ Cardinality(Attesters(n, id)') \in Nat
          /\ Cardinality(Fragments(r, id)) \in Nat
      BY <3>4, <3>6, FS_CardinalityType
    <3> QED BY <3>1, <3>5, <3>6, <3>7
  <2>11. OnlyAttestedBatchesOrdered'
    <3> SUFFICES ASSUME NEW i \in (1 .. n) \ {1}, NEW id \in decisions'[i].batches
                 PROVE  \/ Cardinality(Attesters(i, id)') >= Threshold(decisions'[i-1].state)
                        \/ SentTwice(i, id)'
      BY <2>3 DEF OnlyAttestedBatchesOrdered
    <3>1. CASE i = n
      BY <2>3, <2>10, <3>1
    <3>2. CASE i # n
      <4>1. i \in DOMAIN decisions \ {1} /\ i - 1 \in 1 .. n - 1 /\ i \in 1 .. n - 1
        BY <2>3, <3>2
      <4>2. Sent("baf", 1, i)' = Sent("baf", 1, i) /\ decisions'[i] = decisions[i]
              /\ decisions'[i-1] = decisions[i-1]
        BY <2>3, <2>7, <4>1
      <4>3. Attesters(i, id)' = Attesters(i, id)
        BY <4>2 DEF Attesters
      <4>4. SentTwice(i, id)' = SentTwice(i, id)
        <5>1. \A k \in 1 .. i : decisions'[k] = decisions[k]
          BY <2>3, <4>1
        <5> QED BY <4>2, <5>1 DEF SentTwice
      <4> QED BY <4>1, <4>2, <4>3, <4>4 DEF OnlyAttestedBatchesOrdered
    <3> QED BY <3>1, <3>2
  <2> QED BY <2>9, <2>11, <2>u
<1> QED BY <1>1, <1>2 DEF ChainNext

\* A batch is ordered only on the fragments of threshold different members of the
\* config in force, all for its digest, also when fragments of another config or
\* another digest are pending and when fragments are sent again in later
\* payloads; unless one payload holds a fragment of the batch twice, which
\* CollectAndDeduplicateEvents does not notice and
\* ExtractBatchAttestationsFromPending counts twice.
THEOREM OrderedOnlyIfAttested == ChainSpec => []OnlyAttestedBatchesOrdered
<1>1. ChainInit => OnlyAttestedBatchesOrdered /\ PendingFromMembers /\ PendingTwice
  BY GenesisType DEF ChainInit, OnlyAttestedBatchesOrdered, PendingFromMembers,
                     PendingTwice, Last
<1> QED BY <1>1, TypeInit, TypeStep, AttestedStep, PTL DEF ChainSpec
=============================================================================
