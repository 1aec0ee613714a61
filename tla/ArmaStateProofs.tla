-------------------------- MODULE ArmaStateProofs --------------------------
(***************************************************************************)
(* Lemmas about the fold of control events: every rule of State.Process    *)
(* yields a state, and what a round may add to, order from and leave in    *)
(* Pending.                                                                *)
(***************************************************************************)
EXTENDS ArmaState, FiniteSetTheorems, WellFoundedInduction, TLAPS

-----------------------------------------------------------------------------
(* Finite sets of numbers                                                  *)

\* A finite set of numbers that is not empty has a greatest element: a minimal
\* set without one stays without one when an element is removed.
LEMMA MaxExists ==
  ASSUME NEW S \in SUBSET Int, IsFiniteSet(S), S # {}
  PROVE  \E x \in S : \A y \in S : x >= y
<1> DEFINE Bad == {T \in FiniteSubsetsOf(S) :
                     T # {} /\ ~ \E x \in T : \A y \in T : x >= y}
<1> SUFFICES ASSUME Bad # {} PROVE FALSE
  BY DEF FiniteSubsetsOf
<1>1. PICK T \in Bad : \A U \in Bad : <<U, T>> \notin StrictSubsetOrdering(S)
  <2>1. IsWellFoundedOn(StrictSubsetOrdering(S), FiniteSubsetsOf(S))
    BY FS_StrictSubsetOrderingWellFounded
  <2>2. Bad \subseteq FiniteSubsetsOf(S)
    OBVIOUS
  <2> HIDE DEF Bad
  <2> QED BY <2>1, <2>2, WFMin
<1>2. PICK a \in T : TRUE
  OBVIOUS
<1>3. PICK b \in T : ~ a >= b
  BY <1>2
<1> DEFINE U == T \ {a}
<1>4. IsFiniteSet(U)
  BY FS_RemoveElement DEF FiniteSubsetsOf
<1>5. T \subseteq Int /\ U \subseteq S /\ T \subseteq S
  BY DEF FiniteSubsetsOf
<1>6. b \in U
  BY <1>2, <1>3, <1>5
<1>7. U \in FiniteSubsetsOf(S) /\ T \in FiniteSubsetsOf(S)
  BY <1>4, <1>5 DEF FiniteSubsetsOf
<1>8. <<U, T>> \in StrictSubsetOrdering(S)
  BY <1>2, <1>5, <1>7 DEF StrictSubsetOrdering
<1>9. PICK x \in U : \A y \in U : x >= y
  BY <1>1, <1>6, <1>7, <1>8
<1>10. x >= a
  BY <1>3, <1>5, <1>6, <1>9, <1>2
<1>11. \A y \in T : x >= y
  BY <1>9, <1>10
<1> QED BY <1>9, <1>11

\* The operator Max of the library picks that element.
LEMMA MaxIsGreatest ==
  ASSUME NEW S \in SUBSET Int, IsFiniteSet(S), S # {}
  PROVE  Max(S) \in S /\ \A y \in S : Max(S) >= y
BY MaxExists DEF Max

\* The image of a finite set is finite.
LEMMA ImageIsFinite ==
  ASSUME NEW S, IsFiniteSet(S), NEW f
  PROVE  IsFiniteSet({f[x] : x \in S})
<1> DEFINE g == [x \in S |-> f[x]]
           T == {f[x] : x \in S}
<1>1. g \in Surjection(S, T)
  BY DEF Surjection
<1> QED BY <1>1, FS_Surjection

-----------------------------------------------------------------------------
(* Types                                                                   *)

\* The events of a type are what the type says.
LEMMA OfTypeType ==
  ASSUME NEW ces \in SUBSET ControlEvent
  PROVE  /\ OfType(ces, "baf") \in SUBSET BAF
         /\ OfType(ces, "complaint") \in SUBSET Complaint
         /\ OfType(ces, "report") \in SUBSET AssemblerReport
         /\ OfType(ces, "config") \in SUBSET ConfigRequest
BY DEF OfType, ControlEvent, BAF, Complaint, AssemblerReport, ConfigRequest

\* A config has members, and the threshold is at least one of them.
LEMMA ThresholdType ==
  ASSUME NEW s \in State
  PROVE  /\ IsFiniteSet(s.parties)
         /\ N(s) \in Nat \ {0}
         /\ F(N(s)) \in Nat
         /\ Threshold(s) \in Nat \ {0}
<1>1. s.parties \in SUBSET Parties /\ s.parties # {}
  BY DEF State
<1>2. IsFiniteSet(s.parties)
  BY <1>1, PartiesAssumption, FS_Subset
<1>3. N(s) \in Nat /\ N(s) # 0
  BY <1>1, <1>2, FS_CardinalityType, FS_EmptySet DEF N
<1>4. F(N(s)) \in Nat
  <2> DEFINE n == N(s)
  <2> n \in Nat /\ n # 0
    BY <1>3
  <2> HIDE DEF n
  <2>1. F(n) \in Nat
    BY DEF F
  <2> QED BY <2>1 DEF n
<1> QED BY <1>2, <1>3, <1>4 DEF Threshold

\* FilterPendingEventsWithDiffConfigSeq and CollectAndDeduplicateEvents.
LEMMA CollectEventsType ==
  ASSUME NEW s \in State, NEW configSeq \in Nat,
         NEW ces \in SUBSET ControlEvent, NEW kept \in SUBSET ControlEvent
  PROVE  CollectEvents([FilterPending(s, configSeq)
                          EXCEPT !.stale = StaleConfigBAFs(configSeq, ces)], kept)
           \in State
<1> DEFINE s1 == FilterPending(s, configSeq)
           s2 == [s1 EXCEPT !.stale = StaleConfigBAFs(configSeq, ces)]
<1>1. s1 \in State
  BY DEF FilterPending, State
<1>2. StaleConfigBAFs(configSeq, ces) \in SUBSET BAF
  BY OfTypeType DEF StaleConfigBAFs
<1> HIDE DEF s1
<1>3. s2 \in State
  BY <1>1, <1>2 DEF State
<1> HIDE DEF s2
<1>4. CollectEvents(s2, kept) \in State
  BY <1>3, OfTypeType DEF CollectEvents, State
<1> QED BY <1>4 DEF s2, s1

\* CollectAssemblerReports
LEMMA CollectReportsType ==
  ASSUME NEW s \in State, NEW kept \in SUBSET ControlEvent, IsFiniteSet(kept)
  PROVE  CollectReports(s, kept) \in State
<1> DEFINE reports(p) == {x \in OfType(kept, "report") : x.party = p}
           reported(p) == {s.heights[p]} \cup {r.decision : r \in reports(p)}
<1>1. ASSUME NEW p \in Parties PROVE Max(reported(p)) \in Nat
  <2>1. IsFiniteSet(reports(p))
    BY FS_Subset DEF OfType
  <2>2. reports(p) \in SUBSET AssemblerReport
    BY OfTypeType
  <2> DEFINE f == [r \in reports(p) |-> r.decision]
  <2>3. IsFiniteSet({f[r] : r \in reports(p)})
    <3> HIDE DEF f
    <3> QED BY <2>1, ImageIsFinite
  <2>4. {f[r] : r \in reports(p)} = {r.decision : r \in reports(p)}
    OBVIOUS
  <2>5. {r.decision : r \in reports(p)} \in SUBSET Nat
    BY <2>2 DEF AssemblerReport
  <2>6. s.heights[p] \in Nat
    BY DEF State
  <2>7. IsFiniteSet(reported(p))
    <3>1. reported(p) = {r.decision : r \in reports(p)} \cup {s.heights[p]}
      OBVIOUS
    <3>2. IsFiniteSet({r.decision : r \in reports(p)})
      BY <2>3, <2>4
    <3> QED BY <3>1, <3>2, FS_AddElement
  <2>8. reported(p) \in SUBSET Nat /\ reported(p) # {}
    BY <2>5, <2>6
  <2> QED BY <2>7, <2>8, MaxIsGreatest
<1>2. CollectReports(s, kept) = [s EXCEPT !.heights = [p \in Parties |-> Max(reported(p))]]
  BY DEF CollectReports
<1> HIDE DEF reported
<1> QED BY <1>1, <1>2 DEF State

\* DetectEquivocation, PrimaryRotateDueToComplaints and CleanupOldComplaints
\* touch the terms and the complaints, and yield a state.
LEMMA RotationType ==
  ASSUME NEW s \in State
  PROVE  /\ DetectEquivocation(s) \in State
         /\ RotateDueToComplaints(s) \in State
         /\ CleanupOldComplaints(s) \in State
<1>1. DetectEquivocation(s) \in State
  BY DEF DetectEquivocation, State
<1>2. RotateDueToComplaints(s) \in State
  <2> DEFINE t == [sh \in Shards |-> IF ComplaintsSuffice(s, sh)
                                     THEN s.term[sh] + 1 ELSE s.term[sh]]
             cs == {c \in s.complaints : ~ /\ ComplaintsSuffice(s, c.shard)
                                           /\ c.term = s.term[c.shard]}
  <2>1. s.term \in [Shards -> Nat] /\ s.complaints \in SUBSET Complaint
    BY DEF State
  <2>2. t \in [Shards -> Nat] /\ cs \in SUBSET Complaint
    BY <2>1
  <2>3. RotateDueToComplaints(s) = [s EXCEPT !.term = t, !.complaints = cs]
    BY DEF RotateDueToComplaints
  <2> HIDE DEF t, cs
  <2> QED BY <2>2, <2>3 DEF State
<1>3. CleanupOldComplaints(s) \in State
  BY DEF CleanupOldComplaints, State
<1> QED BY <1>1, <1>2, <1>3

\* A digest that reached the threshold is that of a batch.
LEMMA AttestedType ==
  ASSUME NEW s \in State
  PROVE  /\ Attested(s) \in SUBSET BatchIDs
         /\ DropDecided(s) \in State
<1>1. \A b \in BAF : BatchID(b) \in BatchIDs
  BY DEF BAF, BatchID, BatchIDs
<1>2. s.pending \in SUBSET BAF
  BY DEF State
<1>3. Attested(s) \in SUBSET BatchIDs
  BY <1>1, <1>2 DEF Attested
<1>4. DropDecided(s) \in State
  BY DEF DropDecided, State
<1> QED BY <1>3, <1>4

\* UpdateDurableWatermark yields a state, and the watermark does not decrease.
LEMMA UpdateDurableWatermarkType ==
  ASSUME NEW s \in State
  PROVE  /\ UpdateDurableWatermark(s) \in State
         /\ UpdateDurableWatermark(s).watermark >= s.watermark
<1> DEFINE reached == {s.heights[p] : p \in Parties}
           raised == {d \in Durable(s) : d > s.watermark}
<1>1. IsFiniteSet(reached)
  BY PartiesAssumption, ImageIsFinite
<1>2. reached \in SUBSET Nat
  BY DEF State
<1>3. raised \in SUBSET reached
  BY DEF Durable
<1>4. IsFiniteSet(raised)
  BY <1>1, <1>3, FS_Subset
<1>5. s.watermark \in Nat
  BY DEF State
<1>6. ASSUME raised # {}
      PROVE  Max(raised) \in Nat /\ Max(raised) > s.watermark
  <2>1. Max(raised) \in raised
    BY <1>2, <1>3, <1>4, <1>6, MaxIsGreatest
  <2> QED BY <2>1, <1>2, <1>3
<1>7. UpdateDurableWatermark(s)
        = [s EXCEPT !.watermark = IF raised = {} THEN @ ELSE Max(raised)]
  BY DEF UpdateDurableWatermark
<1> HIDE DEF raised
<1> QED BY <1>5, <1>6, <1>7 DEF State

-----------------------------------------------------------------------------
(* One round                                                               *)

\* What a round keeps of its events are events, finitely many.
LEMMA FilterCEsType ==
  ASSUME NEW configSeq \in Nat, NEW ces \in SUBSET ControlEvent, IsFiniteSet(ces)
  PROVE  /\ FilterCEs(configSeq, ces) \in SUBSET ControlEvent
         /\ FilterCEs(configSeq, ces) \in SUBSET ces
         /\ IsFiniteSet(FilterCEs(configSeq, ces))
<1>1. FilterCEs(configSeq, ces) \in SUBSET ces
  BY DEF FilterCEs
<1> QED BY <1>1, FS_Subset

\* What stays pending of the current config, and the fragments that a round adds
\* to it.
Kept(s, configSeq) == {b \in s.pending : b.configSeq = configSeq}

Fresh(old, ces) ==
  {b \in OfType(ces, "baf") : \A x \in old : AttestationKey(x) # AttestationKey(b)}

\* After the rules, Pending holds what it held of the current config, and the
\* new fragments of the round; the members and the watermark are as before.
LEMMA RulesPending ==
  ASSUME NEW s \in State, NEW configSeq \in Nat,
         NEW ces \in SUBSET ControlEvent, IsFiniteSet(ces)
  PROVE  LET r == Rules(s, configSeq, ces)
         IN /\ r \in State
            /\ r.parties = s.parties
            /\ r.watermark = s.watermark
            /\ r.pending = Kept(s, configSeq)
                 \cup Fresh(Kept(s, configSeq), FilterCEs(configSeq, ces))
<1> DEFINE kept == FilterCEs(configSeq, ces)
           s0 == [FilterPending(s, configSeq)
                    EXCEPT !.stale = StaleConfigBAFs(configSeq, ces)]
           s1 == CollectEvents(s0, kept)
           s2 == CollectReports(s1, kept)
           s3 == DetectEquivocation(s2)
           s4 == RotateDueToComplaints(s3)
           s5 == CleanupOldComplaints(s4)
<1>1. kept \in SUBSET ControlEvent /\ IsFiniteSet(kept)
  BY FilterCEsType
<1>2. Rules(s, configSeq, ces) = s5
  BY DEF Rules
<1>3. s1 \in State
  BY <1>1, CollectEventsType
<1>4. /\ s1.parties = s.parties
      /\ s1.watermark = s.watermark
      /\ s1.pending = Kept(s, configSeq) \cup Fresh(Kept(s, configSeq), kept)
  <2>1. /\ s0.parties = s.parties
        /\ s0.watermark = s.watermark
        /\ s0.pending = Kept(s, configSeq)
        /\ s0 \in [parties : {s.parties}, term : {s.term}, pending : {s0.pending},
                   complaints : {s0.complaints}, stale : {s0.stale},
                   heights : {s.heights}, watermark : {s.watermark}]
    BY DEF FilterPending, State, Kept
  <2> HIDE DEF s0
  <2>2. /\ s1.parties = s0.parties /\ s1.watermark = s0.watermark
        /\ s1.pending = s0.pending \cup {b \in OfType(kept, "baf") :
              \A x \in s0.pending : AttestationKey(x) # AttestationKey(b)}
    BY <2>1 DEF CollectEvents
  <2> QED BY <2>1, <2>2 DEF Fresh
<1> HIDE DEF s1
<1>5. s2 \in State /\ s2.parties = s1.parties /\ s2.pending = s1.pending
        /\ s2.watermark = s1.watermark
  <2>1. s2 \in State
    BY <1>1, <1>3, CollectReportsType
  <2> QED BY <1>3, <2>1 DEF CollectReports, State
<1> HIDE DEF s2
<1>6. s3 \in State /\ s3.parties = s2.parties /\ s3.pending = s2.pending
        /\ s3.watermark = s2.watermark
  <2>1. s3 \in State
    BY <1>5, RotationType
  <2> QED BY <1>5, <2>1 DEF DetectEquivocation, State
<1> HIDE DEF s3
<1>7. s4 \in State /\ s4.parties = s3.parties /\ s4.pending = s3.pending
        /\ s4.watermark = s3.watermark
  <2>1. s4 \in State
    BY <1>6, RotationType
  <2> QED BY <1>6, <2>1 DEF RotateDueToComplaints, State
<1> HIDE DEF s4
<1>8. s5 \in State /\ s5.parties = s4.parties /\ s5.pending = s4.pending
        /\ s5.watermark = s4.watermark
  <2>1. s5 \in State
    BY <1>7, RotationType
  <2> QED BY <1>7, <2>1 DEF CleanupOldComplaints, State
<1> HIDE DEF s5, kept
<1>9. QED BY <1>2, <1>4, <1>5, <1>6, <1>7, <1>8 DEF kept

\* No complaint of a state is about a term that its shard has yet to reach.
ComplaintsNotAhead(s) == \A c \in s.complaints : c.term <= s.term[c.shard]

\* A shard that DetectEquivocation has just rotated is not rotated again by
\* PrimaryRotateDueToComplaints: nobody can have complained about its new term.
LEMMA RulesTerm ==
  ASSUME NEW s \in State, NEW configSeq \in Nat,
         NEW ces \in SUBSET ControlEvent, IsFiniteSet(ces),
         ComplaintsNotAhead(s)
  PROVE  LET r == Rules(s, configSeq, ces)
         IN /\ ComplaintsNotAhead(r)
            /\ \A sh \in Shards : r.term[sh] \in {s.term[sh], s.term[sh] + 1}
<1> DEFINE kept == FilterCEs(configSeq, ces)
           s0 == [FilterPending(s, configSeq)
                    EXCEPT !.stale = StaleConfigBAFs(configSeq, ces)]
           s1 == CollectEvents(s0, kept)
           s2 == CollectReports(s1, kept)
           s3 == DetectEquivocation(s2)
           s4 == RotateDueToComplaints(s3)
           s5 == CleanupOldComplaints(s4)
<1>1. kept \in SUBSET ControlEvent /\ IsFiniteSet(kept)
  BY FilterCEsType
<1>2. Rules(s, configSeq, ces) = s5
  BY DEF Rules
<1>3. s1 \in State
  BY <1>1, CollectEventsType
<1>4. s1.term = s.term /\ ComplaintsNotAhead(s1)
  <2>1. /\ s0.term = s.term
        /\ s0.complaints = {c \in s.complaints : c.configSeq = configSeq}
        /\ s0 \in [parties : {s.parties}, term : {s.term}, pending : {s0.pending},
                   complaints : {s0.complaints}, stale : {s0.stale},
                   heights : {s.heights}, watermark : {s.watermark}]
    BY DEF FilterPending, State
  <2> HIDE DEF s0
  <2>2. /\ s1.term = s.term
        /\ s1.complaints = s0.complaints \cup {c \in OfType(kept, "complaint") :
                                                 c.term = s.term[c.shard]}
    BY <2>1 DEF CollectEvents
  <2>3. \A c \in s1.complaints : c.term \in Nat /\ s.term[c.shard] \in Nat
    BY <1>3, <2>2 DEF State, Complaint
  <2> QED BY <2>1, <2>2, <2>3 DEF ComplaintsNotAhead
<1> HIDE DEF s1
<1>5. s2 \in State /\ s2.term = s1.term /\ s2.complaints = s1.complaints
  <2>1. s2 \in State
    BY <1>1, <1>3, CollectReportsType
  <2> QED BY <1>3, <2>1 DEF CollectReports, State
<1> HIDE DEF s2
<1>6. s3 \in State /\ s3.complaints = s2.complaints
        /\ \A sh \in Shards : s3.term[sh] = s2.term[sh] \/ s3.term[sh] = s2.term[sh] + 1
  <2>1. s3 \in State
    BY <1>5, RotationType
  <2> DEFINE t == [sh \in Shards |-> IF Equivocated(s2, sh)
                                     THEN s2.term[sh] + 1 ELSE s2.term[sh]]
  <2>2. s3 = [s2 EXCEPT !.term = t]
    BY DEF DetectEquivocation
  <2>3. \A sh \in Shards : t[sh] = s2.term[sh] \/ t[sh] = s2.term[sh] + 1
    OBVIOUS
  <2> HIDE DEF t, s3
  <2> QED BY <1>5, <2>1, <2>2, <2>3 DEF State
<1> HIDE DEF s3
<1>7. \A sh \in Shards : s3.term[sh] \in Nat /\ s2.term[sh] \in Nat
  BY <1>5, <1>6 DEF State
<1>8. ComplaintsNotAhead(s3) /\ \A c \in s3.complaints : c.shard \in Shards /\ c.term \in Nat
  <2>1. \A c \in s3.complaints : c.shard \in Shards /\ c.term \in Nat
    BY <1>6 DEF State, Complaint
  <2> QED BY <1>4, <1>5, <1>6, <1>7, <2>1 DEF ComplaintsNotAhead
<1>9. ASSUME NEW sh \in Shards, s3.term[sh] # s2.term[sh]
      PROVE  ~ComplaintsSuffice(s3, sh)
  <2>1. CurrentComplaints(s3, sh) = {}
    BY <1>4, <1>5, <1>6, <1>7, <1>8, <1>9 DEF CurrentComplaints, ComplaintsNotAhead
  <2>2. Threshold(s3) \in Nat \ {0}
    BY <1>6, ThresholdType
  <2> QED BY <2>1, <2>2, FS_EmptySet DEF ComplaintsSuffice
<1>10. /\ s4 \in State
       /\ s4.complaints \in SUBSET s3.complaints
       /\ \A sh \in Shards : s4.term[sh] = IF ComplaintsSuffice(s3, sh)
                                           THEN s3.term[sh] + 1 ELSE s3.term[sh]
  <2>1. s4 \in State
    BY <1>6, RotationType
  <2> DEFINE t == [sh \in Shards |-> IF ComplaintsSuffice(s3, sh)
                                     THEN s3.term[sh] + 1 ELSE s3.term[sh]]
             cs == {c \in s3.complaints : ~ /\ ComplaintsSuffice(s3, c.shard)
                                            /\ c.term = s3.term[c.shard]}
  <2>2. s4 = [s3 EXCEPT !.term = t, !.complaints = cs]
    BY DEF RotateDueToComplaints
  <2>3. cs \in SUBSET s3.complaints
    OBVIOUS
  <2>4. \A sh \in Shards : t[sh] = IF ComplaintsSuffice(s3, sh)
                                   THEN s3.term[sh] + 1 ELSE s3.term[sh]
    OBVIOUS
  <2> HIDE DEF t, cs, s4
  <2>5. s4.term = t /\ s4.complaints = cs
    BY <1>6, <2>2 DEF State
  <2> QED BY <2>1, <2>3, <2>4, <2>5
<1> HIDE DEF s4
<1>11. /\ s5.term = s4.term
       /\ s5.complaints \in SUBSET s3.complaints
  BY <1>10 DEF CleanupOldComplaints, State
<1> HIDE DEF s5
<1>12. ComplaintsNotAhead(s5)
  BY <1>7, <1>8, <1>10, <1>11 DEF ComplaintsNotAhead
<1>13. \A sh \in Shards : s5.term[sh] \in {s.term[sh], s.term[sh] + 1}
  BY <1>4, <1>5, <1>6, <1>7, <1>9, <1>10, <1>11
<1> QED BY <1>2, <1>12, <1>13

\* What State.Process does to a state: the batches it orders are those of
\* pending fragments, and no fragment of one of them stays pending.
LEMMA ProcessState ==
  ASSUME NEW s \in State, NEW configSeq \in Nat,
         NEW ces \in SUBSET ControlEvent, IsFiniteSet(ces)
  PROVE  LET p == Process(s, configSeq, ces)
             r == Rules(s, configSeq, ces)
         IN /\ p.state \in State
            /\ p.state.parties = s.parties
            /\ p.state.watermark >= s.watermark
            /\ p.state.term = r.term
            /\ p.state.complaints = r.complaints
            /\ p.state.pending \in SUBSET r.pending
            /\ p.batches = Attested(r)
            /\ p.batches \in SUBSET BatchIDs
            /\ \A b \in p.state.pending : BatchID(b) \notin p.batches
            /\ p.configs = OfType(FilterCEs(configSeq, ces), "config")
<1> DEFINE r == Rules(s, configSeq, ces)
           d == DropDecided(r)
           u == UpdateDurableWatermark(d)
           p == Process(s, configSeq, ces)
<1>1. /\ p.state = u
      /\ p.batches = Attested(r)
      /\ p.configs = OfType(FilterCEs(configSeq, ces), "config")
  BY DEF Process
<1>2. r \in State /\ r.parties = s.parties /\ r.watermark = s.watermark
  BY RulesPending
<1> HIDE DEF r
<1>3. /\ d \in State
      /\ Attested(r) \in SUBSET BatchIDs
  BY <1>2, AttestedType
<1>4. /\ d.parties = r.parties /\ d.watermark = r.watermark
      /\ d.term = r.term /\ d.complaints = r.complaints
      /\ d.pending = {b \in r.pending : \A id \in Attested(r) :
                                          <<id[1], id[2], id[3]>> # BatchKey(b)}
  BY <1>2 DEF DropDecided, State
<1> HIDE DEF d
<1>5. /\ u \in State
      /\ u.watermark >= d.watermark
  BY <1>3, UpdateDurableWatermarkType
<1>6. /\ u.parties = d.parties /\ u.pending = d.pending
      /\ u.term = d.term /\ u.complaints = d.complaints
  BY <1>3 DEF UpdateDurableWatermark, State
<1> HIDE DEF u, p
<1>7. \A b \in u.pending : BatchID(b) \notin Attested(r)
  BY <1>4, <1>6 DEF BatchID, BatchKey
<1> QED BY <1>1, <1>2, <1>3, <1>4, <1>5, <1>6, <1>7 DEF p, r

\* ApplyConfigToState changes the members, moves every shard on when their
\* number changes, and leaves Pending alone.
LEMMA ApplyConfigType ==
  ASSUME NEW s \in State, NEW parties \in (SUBSET Parties) \ {{}}
  PROVE  LET a == ApplyConfigToState(s, parties)
         IN /\ a \in State
            /\ a.parties = parties
            /\ a.pending = s.pending
            /\ a.complaints = s.complaints
            /\ a.watermark = s.watermark
            /\ \A sh \in Shards :
                 a.term[sh] = s.term[sh] + (IF N(a) # N(s) THEN 1 ELSE 0)
<1> DEFINE a == ApplyConfigToState(s, parties)
           t == IF Cardinality(parties) # N(s)
                THEN [sh \in Shards |-> s.term[sh] + 1] ELSE s.term
           h == [p \in Parties |-> IF p \in parties THEN s.heights[p] ELSE 0]
<1>1. a = [s EXCEPT !.parties = parties, !.term = t, !.heights = h]
  BY DEF ApplyConfigToState
<1>2. s.term \in [Shards -> Nat] /\ s.heights \in [Parties -> Nat]
  BY DEF State
<1>3. t \in [Shards -> Nat] /\ h \in [Parties -> Nat]
  BY <1>2
<1>4. \A sh \in Shards :
        t[sh] = s.term[sh] + (IF Cardinality(parties) # N(s) THEN 1 ELSE 0)
  BY <1>2
<1> HIDE DEF t, h, a
<1>5. /\ a \in State /\ a.parties = parties /\ a.pending = s.pending /\ a.term = t
      /\ a.complaints = s.complaints /\ a.watermark = s.watermark
  BY <1>1, <1>3 DEF State
<1> QED BY <1>4, <1>5 DEF a, N
=============================================================================
