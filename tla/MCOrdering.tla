----------------------------- MODULE MCOrdering -----------------------------
(* Instances of Ordering for TLC: which control events are sent.            *)
EXTENDS Ordering

CONSTANTS
  MaxRequests,  \* bound: the requests in one payload
  MaxFragments  \* bound: the fragments in one payload of nothing else

MCBaf(primary, seq, digest, signer, configSeq) ==
  [type |-> "baf", shard |-> 1, primary |-> primary, seq |-> seq,
   digest |-> digest, signer |-> signer, configSeq |-> configSeq, copy |-> 1]

MCComplaint(term, signer, configSeq) ==
  [type |-> "complaint", shard |-> 1, term |-> term, signer |-> signer,
   configSeq |-> configSeq]

MCReport(party, decision, configSeq) ==
  [type |-> "report", party |-> party, decision |-> decision,
   configSeq |-> configSeq]

MCConfig(parties, configSeq) ==
  [type |-> "config", configSeq |-> configSeq, parties |-> parties]

UpTo(n, events) == UNION {kSubset(k, events) : k \in 1 .. n}

\* Two batches of primary 1 that share digest "a", and a second digest; the last
\* payloads hold one fragment twice.
AttestationPayloads ==
  LET fragments ==
        {MCBaf(1, 0, "a", 2, 0), MCBaf(1, 0, "a", 3, 0), MCBaf(1, 0, "b", 3, 0),
         MCBaf(1, 0, "b", 4, 0), MCBaf(1, 1, "a", 2, 0), MCBaf(1, 1, "a", 4, 0)}
      twice == {MCBaf(1, 0, "b", 3, 0), [MCBaf(1, 0, "b", 3, 0) EXCEPT !.copy = 2]}
  IN UpTo(MaxFragments, fragments)
       \cup {twice \cup more : more \in UpTo(1, fragments)}

\* Complaints about terms 0 and 1, an equivocation of primary 2, who leads
\* shard 1 in term 0, and a party that leaves.
RotationPayloads ==
  UpTo(MaxRequests,
       {MCComplaint(0, 3, 0), MCComplaint(0, 4, 0), MCComplaint(1, 1, 0),
        MCComplaint(1, 3, 0), MCBaf(2, 0, "a", 1, 0), MCBaf(2, 0, "b", 3, 0),
        MCConfig({1, 2, 3}, 1)})

\* Reports before and after party 4 leaves, which lowers 2f+1 from 3 to 1.
ReportPayloads ==
  UpTo(MaxRequests,
       {MCReport(1, 1, 0), MCReport(2, 1, 0), MCReport(3, 1, 0),
        MCReport(4, 1, 0), MCReport(3, 2, 0), MCConfig({1, 2, 3}, 1),
        MCReport(1, 2, 1)})

AllPayloads == AttestationPayloads \cup RotationPayloads \cup ReportPayloads

\* A chain is made of the payloads of one of the three sets: an attestation and
\* a complaint or a report have no effect on each other.
OneConcern ==
  \E S \in {AttestationPayloads, RotationPayloads, ReportPayloads} :
    \A i \in 2 .. Len(decisions) : decisions[i].reqs \in S

\* An equivocation of primary 2 and nothing else.
EquivocationPayloads ==
  UpTo(MaxRequests,
       {MCBaf(2, 0, "a", 1, 0), MCBaf(2, 0, "b", 3, 0), MCBaf(3, 0, "c", 4, 0)})
=============================================================================
