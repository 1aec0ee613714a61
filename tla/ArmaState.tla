----------------------------- MODULE ArmaState -----------------------------
(***************************************************************************)
(* The replicated state machine of the consenters: State.Process of        *)
(* node/consensus/state/state.go and what surrounds it when a decision is  *)
(* proposed (Consenter.SimulateStateTransition, ApplyConfigToState).       *)
(*                                                                         *)
(* Data abstraction.  A control event is a record; signatures, sizes and   *)
(* free-text reasons are left out.  The slices of the code, the events of  *)
(* a round and the pending fragments, are sets.  The code does not keep    *)
(* equal fragments out of one round and counts them one by one, so two     *)
(* entries of a slice with equal fragments differ in the field copy.       *)
(* Nothing depends on how often a complaint, a report or a config request  *)
(* occurs in a round.  The order of the pending fragments, which only      *)
(* decides the order of the blocks within one decision, is left out.       *)
(***************************************************************************)
EXTENDS Integers, FiniteSets, FiniteSetsExt

CONSTANTS
  Shards,    \* shard identifiers, numbers
  Parties,   \* party identifiers, numbers: every party that is ever configured
  Seqs,      \* batch sequence numbers
  Digests    \* batch digests

ASSUME ShardsAssumption == Shards \subseteq Nat

ASSUME PartiesAssumption == Parties \subseteq Nat /\ IsFiniteSet(Parties)

-----------------------------------------------------------------------------
(* Control events (control_event.go)                                       *)

BAF == [type : {"baf"}, shard : Shards, primary : Parties, seq : Seqs,
        digest : Digests, signer : Parties, configSeq : Nat, copy : Nat]

Complaint == [type : {"complaint"}, shard : Shards, term : Nat,
              signer : Parties, configSeq : Nat]

AssemblerReport == [type : {"report"}, party : Parties, decision : Nat,
                    configSeq : Nat]

ConfigRequest == [type : {"config"}, configSeq : Nat,
                  parties : (SUBSET Parties) \ {{}}]

ControlEvent == BAF \cup Complaint \cup AssemblerReport \cup ConfigRequest

OfType(ces, t) == {ce \in ces : ce.type = t}

BatchKey(b) == <<b.shard, b.primary, b.seq>>

BatchID(b) == <<b.shard, b.primary, b.seq, b.digest>>

AttestationKey(b) == <<b.shard, b.primary, b.seq, b.signer, b.digest>>

BatchIDs == Shards \X Parties \X Seqs \X Digests

-----------------------------------------------------------------------------
(* The state carried in every decision's header                            *)

State == [parties    : (SUBSET Parties) \ {{}},
          term       : [Shards -> Nat],
          pending    : SUBSET BAF,
          complaints : SUBSET Complaint,
          stale      : SUBSET BAF,
          heights    : [Parties -> Nat],
          watermark  : Nat]

N(s) == Cardinality(s.parties)

F(n) == (n - 1) \div 3

Threshold(s) == F(N(s)) + 1

Quorum(s) == (N(s) + F(N(s)) + 2) \div 2

\* The primary of a shard: the batchers are sorted by party, and each term moves
\* on to the next one (Batcher.getPrimaryIDAndTerm).
Primary(s, shard) ==
  CHOOSE p \in s.parties :
    Cardinality({q \in s.parties : q < p}) = (shard + s.term[shard]) % N(s)

\* initialStateFromConfig: every shard starts in term 0.
InitialState(parties) ==
  [parties    |-> parties,
   term       |-> [sh \in Shards |-> 0],
   pending    |-> {},
   complaints |-> {},
   stale      |-> {},
   heights    |-> [p \in Parties |-> 0],
   watermark  |-> 0]

-----------------------------------------------------------------------------
(* The steps of Process, in the order in which it takes them               *)

\* A config request asks for the next config, everything else is for the
\* current one.
FilterCEs(configSeq, ces) ==
  {ce \in ces : ce.configSeq = IF ce.type = "config" THEN configSeq + 1
                                                    ELSE configSeq}

StaleConfigBAFs(configSeq, ces) ==
  {b \in OfType(ces, "baf") : b.configSeq < configSeq}

FilterPending(s, configSeq) ==
  [s EXCEPT !.pending    = {b \in @ : b.configSeq = configSeq},
            !.complaints = {c \in @ : c.configSeq = configSeq}]

\* Mutant: a signer's second digest for a batch is taken for a duplicate.
CollectEvents_KeyWithoutDigest(s, ces) ==
  [s EXCEPT !.pending = @ \cup {b \in OfType(ces, "baf") :
               \A x \in s.pending : <<BatchKey(x), x.signer>> # <<BatchKey(b), b.signer>>}]

\* A fragment is dropped if an equal one was pending before the round; equal
\* ones of the same round are all kept.
CollectEvents(s, ces) ==
  [s EXCEPT !.pending    = @ \cup {b \in OfType(ces, "baf") :
                 \A x \in s.pending : AttestationKey(x) # AttestationKey(b)},
            !.complaints = @ \cup {c \in OfType(ces, "complaint") :
                                     c.term = s.term[c.shard]}]

\* The highest decision that p reports, if it exceeds the recorded one.  A
\* party without an entry has height 0: entries of decision 0 never raise
\* the watermark either.
CollectReports(s, ces) ==
  LET reported(p) == {s.heights[p]} \cup
                     {r.decision : r \in {x \in OfType(ces, "report") : x.party = p}}
  IN [s EXCEPT !.heights = [p \in Parties |-> Max(reported(p))]]

\* Two digests of one batch, both attested by secondaries.
Equivocated(s, shard) ==
  \E b1, b2 \in s.pending :
    /\ b1.shard = shard
    /\ BatchKey(b1) = BatchKey(b2)
    /\ b1.digest # b2.digest
    /\ b1.signer # b1.primary
    /\ b2.signer # b2.primary

\* Mutant: the term goes the wrong way.
DetectEquivocation_Backwards(s) ==
  [s EXCEPT !.term = [sh \in Shards |->
                        IF Equivocated(s, sh) THEN @[sh] - 1 ELSE @[sh]]]

DetectEquivocation(s) ==
  [s EXCEPT !.term = [sh \in Shards |->
                        IF Equivocated(s, sh) THEN @[sh] + 1 ELSE @[sh]]]

\* Mutant: complaints about a term that the shard has just left count.
CurrentComplaints_AnyTerm(s, shard) == {c \in s.complaints : c.shard = shard}

CurrentComplaints(s, shard) ==
  {c \in s.complaints : c.shard = shard /\ c.term = s.term[shard]}

\* Mutant: f complaints are enough.
ComplaintsSuffice_OneLess(s, shard) ==
  Cardinality(CurrentComplaints(s, shard)) >= Threshold(s) - 1

ComplaintsSuffice(s, shard) ==
  Cardinality(CurrentComplaints(s, shard)) >= Threshold(s)

RotateDueToComplaints(s) ==
  [s EXCEPT !.term = [sh \in Shards |->
                        IF ComplaintsSuffice(s, sh) THEN @[sh] + 1 ELSE @[sh]],
            !.complaints = {c \in @ : ~ /\ ComplaintsSuffice(s, c.shard)
                                        /\ c.term = s.term[c.shard]}]

\* Mutant: complaints about the current term are cleaned up too.
CleanupOldComplaints_TooMany(s) ==
  [s EXCEPT !.complaints = {c \in @ : c.term > s.term[c.shard]}]

CleanupOldComplaints(s) ==
  [s EXCEPT !.complaints = {c \in @ : c.term >= s.term[c.shard]}]

Fragments(s, id) == {b \in s.pending : BatchID(b) = id}

\* Mutant: the fragments of all digests of a batch are counted together.
Attested_AnyDigest(s) ==
  {id \in {BatchID(b) : b \in s.pending} :
     Cardinality({b \in s.pending : BatchKey(b) = <<id[1], id[2], id[3]>>})
       >= Threshold(s)}

\* The digests that reached the threshold; the primary's own fragment counts,
\* and so does every entry of Pending, whoever signed it.
Attested(s) ==
  {id \in {BatchID(b) : b \in s.pending} :
     Cardinality(Fragments(s, id)) >= Threshold(s)}

\* A decided batch loses all its pending fragments, those of a minority
\* digest included.
DropDecided(s) ==
  [s EXCEPT !.pending =
     {b \in @ : \A id \in Attested(s) : <<id[1], id[2], id[3]>> # BatchKey(b)}]

\* Mutant: f+1 reports are enough.
Durable_Threshold(s) ==
  {d \in {s.heights[p] : p \in Parties} :
     Cardinality({p \in Parties : s.heights[p] >= d}) >= Threshold(s)}

\* The decisions that at least 2f+1 assemblers report as committed.
Durable(s) ==
  {d \in {s.heights[p] : p \in Parties} :
     Cardinality({p \in Parties : s.heights[p] >= d}) >= 2 * F(N(s)) + 1}

UpdateDurableWatermark(s) ==
  LET raised == {d \in Durable(s) : d > s.watermark}
  IN [s EXCEPT !.watermark = IF raised = {} THEN @ ELSE Max(raised)]

\* The state after the rules are applied and before extraction.
Rules(s, configSeq, ces) ==
  LET kept == FilterCEs(configSeq, ces)
      s0   == [FilterPending(s, configSeq)
                 EXCEPT !.stale = StaleConfigBAFs(configSeq, ces)]
  IN CleanupOldComplaints(RotateDueToComplaints(DetectEquivocation(
       CollectReports(CollectEvents(s0, kept), kept))))

\* State.Process: the next state, the batches that become blocks and the
\* config requests of the round.
Process(s, configSeq, ces) ==
  LET r == Rules(s, configSeq, ces)
  IN [state   |-> UpdateDurableWatermark(DropDecided(r)),
      batches |-> Attested(r),
      configs |-> OfType(FilterCEs(configSeq, ces), "config")]

\* Mutant: the BADB is not consulted.
SimulateStateTransition_NoDB(s, configSeq, db, ces) == Process(s, configSeq, ces)

\* Consenter.SimulateStateTransition: fragments of a digest in the batch
\* attestation DB are dropped first.
SimulateStateTransition(s, configSeq, db, ces) ==
  Process(s, configSeq, {ce \in ces : ce.type = "baf" => ce.digest \notin db})

\* DefaultConfigApplier.ApplyConfigToState
ApplyConfigToState(s, parties) ==
  [s EXCEPT !.parties = parties,
            !.term    = IF Cardinality(parties) # N(s)
                        THEN [sh \in Shards |-> @[sh] + 1] ELSE @,
            !.heights = [p \in Parties |-> IF p \in parties THEN @[p] ELSE 0]]
=============================================================================
