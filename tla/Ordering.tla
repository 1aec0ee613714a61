------------------------------ MODULE Ordering ------------------------------
(***************************************************************************)
(* What the consenters promise together: one chain of decisions, each the  *)
(* fold of its payload into the state of the decision before it, with a    *)
(* batch attestation DB that holds exactly the digests ordered so far.     *)
(* There is one copy of everything; the module Consensus, in which every   *)
(* consenter has a ledger and a DB of its own, implements this one.        *)
(***************************************************************************)
EXTENDS Decisions

CONSTANTS
  Payloads,     \* the sets of requests a leader may batch into a proposal
  MaxDecisions  \* bound: the length of the chain, genesis included

ASSUME MaxDecisionsAssumption == MaxDecisions \in Nat \ {0}

ASSUME PayloadsAssumption ==
  \A reqs \in Payloads : reqs \subseteq ControlEvent /\ IsFiniteSet(reqs)

VARIABLE decisions  \* decision number n is decisions[n + 1]

-----------------------------------------------------------------------------

ChainInit == decisions = <<GenesisDecision>>

Order(reqs) ==
  LET last == decisions[Len(decisions)]
      configSeq == ConfigSeq(last)
  IN /\ Len(decisions) < MaxDecisions
     /\ ValidPayload(decisions, last.state.parties, configSeq, reqs)
     /\ \E parties \in NextParties(decisions, configSeq, reqs) :
          decisions' = Append(decisions, NewDecision(decisions, configSeq,
                                           DigestsOf(decisions), reqs, parties))

ChainNext == \E reqs \in Payloads : Order(reqs)

ChainSpec == ChainInit /\ [][ChainNext]_decisions

-----------------------------------------------------------------------------
(* Properties.  They speak of the payloads, that is of what the parties     *)
(* really sent, and not of the bookkeeping in the state.                    *)

ChainTypeOK ==
  /\ decisions \in Seq(Decision)
  /\ Len(decisions) \in 1 .. MaxDecisions

\* The events of type t in the payloads of decisions lo .. hi.
Sent(t, lo, hi) == UNION {OfType(decisions[k].reqs, t) : k \in lo .. hi}

\* A batch is ordered at most once, whatever BAFs are sent again and however
\* many decisions lie between (Consenter.SimulateStateTransition and the BADB,
\* ExtractBatchAttestationsFromPending).
NoBatchOrderedTwice ==
  \A i, j \in DOMAIN decisions :
    i # j => decisions[i].batches \cap decisions[j].batches = {}

\* The members whose BAFs for a batch, up to decision i and for its config, were
\* sent.
Attesters(i, id) ==
  {b.signer : b \in {x \in Sent("baf", 1, i) :
                       BatchID(x) = id /\ x.configSeq = decisions[i].seq}}
    \cap decisions[i-1].state.parties

\* One payload, of decision i or before it, carries a BAF for the batch twice.
SentTwice(i, id) ==
  \E k \in 1 .. i : \E b1, b2 \in OfType(decisions[k].reqs, "baf") :
    /\ b1 # b2
    /\ AttestationKey(b1) = AttestationKey(b2)
    /\ BatchID(b1) = id
    /\ b1.configSeq = decisions[i].seq
    /\ b2.configSeq = decisions[i].seq

\* A batch is ordered only on the BAFs of threshold different members, all sent
\* for the config under which it is ordered, and none of them for another
\* digest, no matter which BAFs are sent again in later payloads.  The exception
\* is a BAF that occurs twice in one payload: CollectAndDeduplicateEvents keeps
\* both, and ExtractBatchAttestationsFromPending counts entries, not signers.
OnlyAttestedBatchesOrdered ==
  \A i \in DOMAIN decisions \ {1} : \A id \in decisions[i].batches :
    \/ Cardinality(Attesters(i, id)) >= Threshold(decisions[i-1].state)
    \/ SentTwice(i, id)

\* No attestation is forgotten: when threshold members attested a batch under
\* one config, by the time the last BAF is decided either the batch is
\* ordered, or another digest of it is, or its digest is ordered already
\* (CollectAndDeduplicateEvents, ExtractBatchAttestationsFromPending).
AttestedBatchIsOrdered ==
  \A i \in DOMAIN decisions \ {1} : \A b \in Sent("baf", 1, i) :
    LET sent(k) == {x \in OfType(decisions[k].reqs, "baf") :
                      /\ BatchID(x) = BatchID(b)
                      /\ x.configSeq = decisions[i].seq
                      /\ decisions[k].seq = decisions[i].seq}
        signers == {x.signer : x \in UNION {sent(k) : k \in 1 .. i}}
    IN Cardinality(signers) >= Threshold(decisions[i-1].state)
       => \E k \in 1 .. i : \E id \in decisions[k].batches :
            <<id[1], id[2], id[3]>> = BatchKey(b) \/ id[4] = b.digest

\* How much the fold, as opposed to a change in the number of parties, raised
\* the term of a shard in decision i.
Rotations(i, sh) ==
  LET before == decisions[i-1].state
      after  == decisions[i].state
  IN after.term[sh] - before.term[sh] - (IF N(after) # N(before) THEN 1 ELSE 0)

\* Who complained, in decisions up to i, about the term that decision i found
\* the shard in, each at a time when it was the shard's term.
Complainers(i, sh) ==
  LET before == decisions[i-1].state
      sent(k) == {c \in OfType(decisions[k].reqs, "complaint") :
                    /\ c.shard = sh
                    /\ c.term = before.term[sh]
                    /\ c.term = decisions[k-1].state.term[sh]
                    /\ c.configSeq = decisions[i].seq
                    /\ c.configSeq = decisions[k].seq}
  IN {c.signer : c \in UNION {sent(k) : k \in 2 .. i}}

ComplaintsRotate(i, sh) ==
  Cardinality(Complainers(i, sh)) >= Threshold(decisions[i-1].state)

\* The primaries of the shard of which secondaries hold two digests for one
\* batch.
Equivocators(i, sh) ==
  LET votes == {b \in Sent("baf", 2, i) : /\ b.shard = sh
                                          /\ b.configSeq = decisions[i].seq
                                          /\ b.signer # b.primary}
  IN {b.primary : b \in {x \in votes : \E y \in votes :
                            BatchKey(x) = BatchKey(y) /\ x.digest # y.digest}}

\* One decision rotates a shard at most once, also when it carries complaints
\* and proof of equivocation at the same time (DetectEquivocation followed by
\* PrimaryRotateDueToComplaints), and never backwards.
AtMostOneRotation ==
  \A i \in DOMAIN decisions \ {1}, sh \in Shards : Rotations(i, sh) \in {0, 1}

\* A shard is rotated only on the complaints of threshold members about its
\* current term, or on two digests for one batch.
RotationIsJustified ==
  \A i \in DOMAIN decisions \ {1}, sh \in Shards :
    Rotations(i, sh) > 0 => ComplaintsRotate(i, sh) \/ Equivocators(i, sh) # {}

\* No complaint is forgotten: once threshold members have complained about a
\* term, in whichever decisions, the shard leaves that term.
EnoughComplaintsRotate ==
  \A i \in DOMAIN decisions \ {1}, sh \in Shards :
    ComplaintsRotate(i, sh) => Rotations(i, sh) > 0

\* The durable watermark never decreases, and rises only to a decision that
\* 2f+1 members reported, each after it was committed (CollectAssemblerReports,
\* UpdateDurableWatermark, RetainAssemblerHeights).
WatermarkIsDurable ==
  \A i \in DOMAIN decisions \ {1} :
    LET before == decisions[i-1].state
        w == decisions[i].state.watermark
        reporters == {p \in before.parties :
                        \E k \in 2 .. i : \E r \in OfType(decisions[k].reqs, "report") :
                          /\ r.party = p
                          /\ r.configSeq = decisions[k].seq
                          /\ r.decision \in w .. k - 2}
    IN /\ w >= before.watermark
       /\ w > before.watermark => Cardinality(reporters) >= 2 * F(N(before)) + 1

\* Equivocation rotates the primary that equivocated (docs/consensus.md, 3.2:
\* "conflicting digests for one batch -> rotate that primary").
EquivocationRotatesThatPrimary ==
  \A i \in DOMAIN decisions \ {1}, sh \in Shards :
    Rotations(i, sh) > 0 /\ ~ComplaintsRotate(i, sh)
      => Primary(decisions[i-1].state, sh) \in Equivocators(i, sh)
=============================================================================
