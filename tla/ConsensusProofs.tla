-------------------------- MODULE ConsensusProofs --------------------------
(***************************************************************************)
(* The consenters and the chain.  Without any assumption on when configs   *)
(* are installed: the BADB follows the ledger, a consenter is outdated     *)
(* only after its synchronizer pulled a config, and a decision that the    *)
(* last config would not make takes a quorum of outdated and faulty        *)
(* consenters.  While there is no such quorum, the consenters implement    *)
(* Ordering, and what is proved of the chain holds of them.                *)
(***************************************************************************)
EXTENDS Consensus, OrderingProofs

\* Every config that is installed or under way is in the chain.
ConfigsAreDecided ==
  \A n \in Correct : /\ config[n] \in Configs(Len(decisions))
                     /\ installing[n] \subseteq Configs(Len(decisions))

\* A consenter that has not pulled a config has installed every config in its
\* ledger, or waits in Deliver for the only one that is under way.
InstalledUnlessPulled ==
  \A n \in Correct \ pulled :
    /\ phase[n] = "running" => /\ installing[n] = {}
                               /\ \A i \in Configs(height[n]) : i <= config[n]
    /\ phase[n] = "delivering" => installing[n] = {height[n]}

\* A consenter that is down or parked installs nothing.
DownIsClean ==
  \A n \in Correct : phase[n] \in {"down", "parked"} => installing[n] = {}

\* The inductive invariant.
ConsensusInv ==
  /\ TypeOK
  /\ BADBMatchesLedger
  /\ ConfigsAreDecided
  /\ InstalledUnlessPulled
  /\ DownIsClean

-----------------------------------------------------------------------------
(* Votes                                                                   *)

\* What holds of the chain and of the nodes' variables before a step.
LEMMA NodeTypes ==
  ASSUME ConsensusInv
  PROVE  /\ decisions \in Seq(Decision) /\ Len(decisions) \in Nat \ {0}
         /\ height \in [Correct -> 0 .. Len(decisions)]
         /\ badb \in [Correct -> SUBSET Digests]
         /\ config \in [Correct -> 1 .. Len(decisions)]
         /\ installing \in [Correct -> SUBSET (1 .. Len(decisions))]
         /\ phase \in [Correct -> Phases]
         /\ pulled \in SUBSET Correct
         /\ \A h \in 0 .. Len(decisions) - 1 : decisions[h + 1] \in Decision
BY Before DEF ConsensusInv, TypeOK

\* The configs of a ledger have a highest one.
LEMMA HighestConfig ==
  ASSUME NEW h \in Nat \ {0}
  PROVE  /\ Max(Configs(h)) \in Configs(h)
         /\ \A i \in Configs(h) : i <= Max(Configs(h))
<1>1. Configs(h) \in SUBSET (1 .. h) /\ Configs(h) \in SUBSET Int /\ 1 \in Configs(h)
  BY DEF Configs
<1>2. IsFiniteSet(Configs(h))
  <2>1. IsFiniteSet(1 .. h)
    BY FS_Interval
  <2> QED BY <1>1, <2>1, FS_Subset
<1>3. Max(Configs(h)) \in Configs(h) /\ \A i \in Configs(h) : Max(Configs(h)) >= i
  BY <1>1, <1>2, MaxIsGreatest
<1> QED BY <1>1, <1>3

\* A consenter that takes part and is not outdated knows the BADB and the config
\* of the chain.
LEMMA UpToDate ==
  ASSUME ConsensusInv, NEW n \in Correct, TakesPart(n), ~Outdated(n)
  PROVE  Lookups(n) = {DigestsOf(decisions)} /\ config[n] = LastConfig
<1>1. decisions \in Seq(Decision) /\ Len(decisions) \in Nat \ {0}
  BY NodeTypes
<1>2. height[n] = Len(decisions) /\ installing[n] = {} /\ config[n] = LastConfig
  BY DEF TakesPart, Outdated, LastConfig
<1>3. badb[n] = Indexed(Len(decisions))
  BY <1>1, <1>2 DEF ConsensusInv, BADBMatchesLedger
<1>4. Indexed(Len(decisions)) = DigestsOf(decisions)
  BY <1>1 DEF Indexed, DigestsOf
<1> QED BY <1>2, <1>3, <1>4 DEF Lookups

\* When the outdated and the faulty are no quorum, every quorum has a member that
\* is neither: it computed the decision from the last config and a full BADB.
LEMMA DecideUnderLast ==
  ASSUME ConsensusInv, NEW reqs \in Payloads, Decide(reqs), ~Overrun
  PROVE  /\ ValidPayload(decisions, Members(LastConfig),
                         ConfigSeq(decisions[LastConfig]), reqs)
         /\ \E parties \in NextParties(decisions, ConfigSeq(decisions[LastConfig]), reqs) :
              decisions' = Append(decisions,
                NewDecision(decisions, ConfigSeq(decisions[LastConfig]),
                            DigestsOf(decisions), reqs, parties))
<1>1. PICK d : Accepted(reqs, d) /\ decisions' = Append(decisions, d)
  BY DEF Decide
<1> DEFINE last   == decisions[Len(decisions)].state
           faulty == last.parties \cap Faulty
           voters == {n \in Correct \cap last.parties : Verifies(n, reqs, d)}
           late   == {n \in Correct \cap last.parties : Outdated(n)}
<1>2. PICK v \in Correct : Verifies(v, reqs, d) /\ ~Outdated(v)
  <2> SUFFICES ASSUME \A n \in voters : Outdated(n) PROVE FALSE
    OBVIOUS
  <2>1. voters \cup faulty \subseteq late \cup faulty
    OBVIOUS
  <2>2. IsFiniteSet(late \cup faulty)
    <3>1. late \cup faulty \subseteq Parties
      BY ConsensusAssumption DEF Correct
    <3> QED BY <3>1, PartiesAssumption, FS_Subset
  <2>3. IsFiniteSet(voters \cup faulty)
    BY <2>1, <2>2, FS_Subset
  <2>4. Cardinality(voters \cup faulty) <= Cardinality(late \cup faulty)
    BY <2>1, <2>2, FS_Subset
  <2>5. Cardinality(voters \cup faulty) \in Nat /\ Cardinality(late \cup faulty) \in Nat
    BY <2>2, <2>3, FS_CardinalityType
  <2>6. Cardinality(voters \cup faulty) >= Quorum(last)
    BY <1>1 DEF Accepted
  <2>7. Quorum(last) \in Int
    <3>1. last \in State
      BY Before DEF ConsensusInv, TypeOK, Last
    <3>2. N(last) \in Nat /\ F(N(last)) \in Int
      BY <3>1, ThresholdType DEF F
    <3> QED BY <3>2 DEF Quorum
  <2>8. Cardinality(late \cup faulty) >= Quorum(last)
    BY <2>4, <2>5, <2>6, <2>7
  <2> QED BY <2>8 DEF Overrun
<1>3. /\ TakesPart(v)
      /\ ValidPayload(decisions, Members(config[v]), InstalledSeq(v), reqs)
      /\ d \in Proposals(v, reqs)
  BY <1>2 DEF Verifies
<1>4. Lookups(v) = {DigestsOf(decisions)} /\ config[v] = LastConfig
  BY <1>2, <1>3, UpToDate
<1>5. PICK db \in Lookups(v) : \E parties \in NextParties(decisions, InstalledSeq(v), reqs) :
        d = NewDecision(decisions, InstalledSeq(v), db, reqs, parties)
  BY <1>3 DEF Proposals
<1> QED BY <1>1, <1>3, <1>4, <1>5 DEF InstalledSeq

\* Whoever voted for it, a decision is well-formed.
LEMMA DecideType ==
  ASSUME ConsensusInv, NEW reqs \in Payloads, Decide(reqs)
  PROVE  /\ \E d \in Decision : decisions' = Append(decisions, d)
         /\ ChainTypeOK'
<1>1. decisions \in Seq(Decision) /\ Len(decisions) \in Nat \ {0}
  BY NodeTypes
<1>2. PICK n \in Correct : \E d \in Proposals(n, reqs) : decisions' = Append(decisions, d)
  BY DEF Decide
<1>3. PICK db \in Lookups(n), parties \in NextParties(decisions, InstalledSeq(n), reqs) :
        decisions' = Append(decisions,
                       NewDecision(decisions, InstalledSeq(n), db, reqs, parties))
  BY <1>2 DEF Proposals
<1>4. InstalledSeq(n) \in Nat
  <2>1. config[n] \in 1 .. Len(decisions)
    BY NodeTypes
  <2>2. decisions[config[n]] \in Decision
    BY <1>1, <2>1
  <2> QED BY <2>2, ConfigSeqType DEF InstalledSeq
<1>5. reqs \in SUBSET ControlEvent /\ IsFiniteSet(reqs)
  BY PayloadsAssumption
<1>6. NewDecision(decisions, InstalledSeq(n), db, reqs, parties) \in Decision
  BY <1>1, <1>4, <1>5, NewDecisionFollows
<1>7. PICK d \in Decision : decisions' = Append(decisions, d)
  BY <1>3, <1>6
<1>8. decisions' \in Seq(Decision) /\ Len(decisions') = Len(decisions) + 1
  BY <1>1, <1>7
<1>9. Len(decisions) < MaxDecisions
  BY DEF Decide
<1> QED BY <1>1, <1>7, <1>8, <1>9, MaxDecisionsAssumption DEF ChainTypeOK

-----------------------------------------------------------------------------
(* The invariant is preserved, action by action                            *)

\* The digests of a decision are digests.
LEMMA OrderedDigestsType ==
  ASSUME NEW d \in Decision
  PROVE  OrderedDigests(d) \in SUBSET Digests
BY DEF OrderedDigests, Decision, BatchIDs

\* One more decision in the ledger is one more decision in the index.
LEMMA IndexedNext ==
  ASSUME NEW h \in Nat
  PROVE  Indexed(h + 1) = Indexed(h) \cup OrderedDigests(decisions[h + 1])
<1>1. 1 .. h + 1 = (1 .. h) \cup {h + 1}
  OBVIOUS
<1> QED BY <1>1 DEF Indexed

\* A decision changes no node.
LEMMA DecideStep ==
  ASSUME ConsensusInv, NEW reqs \in Payloads, Decide(reqs)
  PROVE  ConsensusInv'
<1> USE NodeTypes
<1>1. PICK d \in Decision : decisions' = Append(decisions, d)
  BY DecideType
<1>2. PICK m \in Nat \ {0} : m = Len(decisions)
  OBVIOUS
<1>3. /\ Len(decisions') = m + 1
      /\ \A i \in 1 .. m : decisions'[i] = decisions[i]
  BY <1>1, <1>2, AppendFacts
<1>4. UNCHANGED <<height, badb, config, installing, phase, pulled>>
  BY DEF Decide
<1>5. TypeOK'
  BY <1>2, <1>3, <1>4, DecideType DEF TypeOK
<1>6. \A n \in Correct : height[n] \in 0 .. m
  BY <1>2
<1>7. BADBMatchesLedger'
  <2>1. ASSUME NEW h \in 0 .. m PROVE Indexed(h)' = Indexed(h)
    <3>1. \A i \in 1 .. h : decisions'[i] = decisions[i]
      BY <1>2, <1>3
    <3> HIDE NodeTypes
    <3> QED BY <3>1 DEF Indexed
  <2>2. ASSUME NEW n \in Correct
        PROVE  \/ badb'[n] = Indexed(height[n])'
               \/ height'[n] < Len(decisions') /\ badb'[n] = Indexed(height[n] + 1)'
    <3> PICK h \in 0 .. m : h = height[n]
      BY <1>6
    <3>1. CASE badb[n] = Indexed(h)
      <4>1. Indexed(height[n])' = Indexed(h)'
        BY <1>4 DEF Indexed
      <4> QED BY <1>4, <2>1, <3>1, <4>1
    <3>2. CASE height[n] < Len(decisions) /\ badb[n] = Indexed(h + 1)
      <4>1. Indexed(height[n] + 1)' = Indexed(h + 1)'
        BY <1>4 DEF Indexed
      <4>2. h + 1 \in 0 .. m
        BY <1>2, <3>2
      <4> QED BY <1>2, <1>3, <1>4, <2>1, <3>2, <4>1, <4>2
    <3> QED BY <3>1, <3>2 DEF ConsensusInv, BADBMatchesLedger
  <2> QED BY <2>2 DEF BADBMatchesLedger
<1>8. ConfigsAreDecided'
  <2>1. Configs(m) \subseteq Configs(m + 1)'
    BY <1>3 DEF Configs
  <2>2. Configs(Len(decisions))' = Configs(m + 1)'
    BY <1>3 DEF Configs
  <2> QED BY <1>2, <1>4, <2>1, <2>2 DEF ConsensusInv, ConfigsAreDecided
<1>9. InstalledUnlessPulled'
  <2>1. ASSUME NEW n \in Correct PROVE Configs(height[n])' = Configs(height[n])
    BY <1>3, <1>4, <1>6 DEF Configs
  <2> QED BY <1>4, <2>1 DEF ConsensusInv, InstalledUnlessPulled
<1>10. DownIsClean'
  BY <1>4 DEF ConsensusInv, DownIsClean
<1> QED BY <1>5, <1>7, <1>8, <1>9, <1>10 DEF ConsensusInv

\* When no decision is made, what depends on the chain alone stays.
LEMMA ChainUnchanged ==
  ASSUME ConsensusInv, UNCHANGED decisions
  PROVE  /\ ChainTypeOK'
         /\ Len(decisions') = Len(decisions)
         /\ Configs(Len(decisions))' = Configs(Len(decisions))
BY DEF ConsensusInv, TypeOK, ChainTypeOK, Configs

\* A step that leaves the ledgers and the BADBs alone leaves them matching.
LEMMA LedgersUnchanged ==
  ASSUME ConsensusInv, UNCHANGED <<decisions, height, badb>>
  PROVE  BADBMatchesLedger'
BY DEF ConsensusInv, BADBMatchesLedger, Indexed

\* The next decision's digests are added to the BADB, with or without the
\* decision being appended.
LEMMA IndexStep ==
  ASSUME ConsensusInv, NEW n \in Correct, height[n] < Len(decisions),
         UNCHANGED decisions,
         badb' = [badb EXCEPT ![n] = @ \cup OrderedDigests(decisions[height[n] + 1])],
         \/ height' = height
         \/ height' = [height EXCEPT ![n] = @ + 1]
  PROVE  /\ badb' \in [Correct -> SUBSET Digests]
         /\ height' \in [Correct -> 0 .. Len(decisions)]
         /\ BADBMatchesLedger'
<1> USE NodeTypes
<1>1. PICK h \in 0 .. Len(decisions) - 1 : h = height[n]
  OBVIOUS
<1>2. badb' = [badb EXCEPT ![n] = @ \cup OrderedDigests(decisions[h + 1])]
  BY <1>1
<1>3. badb' \in [Correct -> SUBSET Digests]
  BY <1>2, OrderedDigestsType
<1>4. height' \in [Correct -> 0 .. Len(decisions)] /\ height'[n] \in {h, h + 1}
  <2>1. CASE height' = height
    BY <1>1, <2>1
  <2>2. CASE height' = [height EXCEPT ![n] = @ + 1]
    BY <1>1, <2>2
  <2> QED BY <2>1, <2>2
<1>5. Indexed(h + 1) = Indexed(h) \cup OrderedDigests(decisions[h + 1])
  BY IndexedNext
<1>6. badb[n] = Indexed(h) \/ badb[n] = Indexed(h + 1)
  BY <1>1 DEF ConsensusInv, BADBMatchesLedger
<1>7. badb'[n] = Indexed(h + 1)
  BY <1>2, <1>5, <1>6
<1>8. ASSUME NEW m \in Correct
      PROVE  \/ badb'[m] = Indexed(height'[m])
             \/ height'[m] < Len(decisions) /\ badb'[m] = Indexed(height'[m] + 1)
  <2>1. CASE m = n
    BY <1>1, <1>4, <1>7, <2>1
  <2>2. CASE m # n
    <3>1. badb'[m] = badb[m] /\ height'[m] = height[m]
      BY <1>2, <2>2
    <3> QED BY <3>1 DEF ConsensusInv, BADBMatchesLedger
  <2> QED BY <2>1, <2>2
<1>9. BADBMatchesLedger'
  BY <1>8 DEF BADBMatchesLedger, Indexed
<1> QED BY <1>3, <1>4, <1>9

-----------------------------------------------------------------------------
(* One lemma per action                                                    *)

\* A block is indexed and appended, by Deliver and by the synchronizer alike:
\* the goroutine that may be started installs a config of the chain.
LEMMA AppendStep ==
  ASSUME ConsensusInv, NEW n \in Correct, IndexAndAppend(n), UpdateState(n),
         UNCHANGED <<decisions, config>>
  PROVE  /\ BADBMatchesLedger' /\ ConfigsAreDecided'
         /\ badb' \in [Correct -> SUBSET Digests]
         /\ height' = [height EXCEPT ![n] = @ + 1]
         /\ height' \in [Correct -> 0 .. Len(decisions)]
         /\ installing' \in [Correct -> SUBSET (1 .. Len(decisions))]
<1> USE NodeTypes
<1>1. /\ BADBMatchesLedger'
      /\ badb' \in [Correct -> SUBSET Digests]
      /\ height' = [height EXCEPT ![n] = @ + 1]
      /\ height' \in [Correct -> 0 .. Len(decisions)]
  BY IndexStep DEF IndexAndAppend
<1>2. height[n] + 1 \in 1 .. Len(decisions)
  BY DEF IndexAndAppend
<1>3. installing' \in [Correct -> SUBSET (1 .. Len(decisions))]
  BY <1>2 DEF UpdateState
<1>4. ConfigsAreDecided'
  <2>1. IsNewConfig(n, height[n] + 1) => height[n] + 1 \in Configs(Len(decisions))
    BY <1>2 DEF IsNewConfig, Configs
  <2>2. \A m \in Correct : installing'[m] \subseteq Configs(Len(decisions))
    BY <2>1 DEF UpdateState, ConsensusInv, ConfigsAreDecided
  <2> QED BY <2>2, ChainUnchanged DEF ConsensusInv, ConfigsAreDecided
<1> QED BY <1>1, <1>3, <1>4

\* A decision without a new config leaves a running node with every config of
\* its ledger installed.
LEMMA NothingNew ==
  ASSUME ConsensusInv, NEW n \in Correct, height[n] < Len(decisions),
         ~IsNewConfig(n, height[n] + 1),
         \A i \in Configs(height[n]) : i <= config[n]
  PROVE  \A i \in Configs(height[n] + 1) : i <= config[n]
<1>1. config[n] \in Nat \ {0} /\ height[n] \in Nat
  BY NodeTypes
<1> QED BY <1>1 DEF Configs, IsNewConfig

LEMMA DeliverStep ==
  ASSUME ConsensusInv, NEW n \in Correct, Deliver(n)
  PROVE  ConsensusInv'
<1> USE NodeTypes
<1>1. /\ IndexAndAppend(n) /\ UpdateState(n)
      /\ UNCHANGED <<decisions, config, pulled>>
      /\ phase[n] = "running" /\ height[n] < Len(decisions)
      /\ phase' = [phase EXCEPT ![n] =
                     IF IsNewConfig(n, height[n] + 1) THEN "delivering" ELSE @]
  BY DEF Deliver, IndexAndAppend
<1>2. height' = [height EXCEPT ![n] = @ + 1]
  BY <1>1, AppendStep
<1>3. TypeOK'
  <2>1. phase' \in [Correct -> Phases]
    BY <1>1 DEF Phases
  <2> QED BY <1>1, <2>1, AppendStep, ChainUnchanged DEF TypeOK
<1>4. InstalledUnlessPulled'
  <2> SUFFICES ASSUME NEW m \in Correct \ pulled
               PROVE  /\ phase'[m] = "running" =>
                           /\ installing'[m] = {}
                           /\ \A i \in Configs(height'[m]) : i <= config[m]
                      /\ phase'[m] = "delivering" => installing'[m] = {height'[m]}
    BY <1>1 DEF InstalledUnlessPulled, Configs
  <2>1. CASE m # n
    BY <1>1, <1>2, <2>1 DEF UpdateState, ConsensusInv, InstalledUnlessPulled
  <2>2. CASE m = n
    <3>1. installing[n] = {} /\ \A i \in Configs(height[n]) : i <= config[n]
      BY <1>1, <2>2 DEF ConsensusInv, InstalledUnlessPulled
    <3>2. height'[n] = height[n] + 1
      BY <1>2
    <3>3. CASE IsNewConfig(n, height[n] + 1)
      <4>1. phase'[n] = "delivering" /\ installing'[n] = {height[n] + 1}
        BY <1>1, <3>1, <3>3 DEF UpdateState
      <4> QED BY <2>2, <3>2, <4>1
    <3>4. CASE ~IsNewConfig(n, height[n] + 1)
      <4>1. phase'[n] = "running" /\ installing'[n] = {}
        BY <1>1, <3>1, <3>4 DEF UpdateState
      <4>2. \A i \in Configs(height[n] + 1) : i <= config[n]
        BY <1>1, <3>1, <3>4, NothingNew
      <4> QED BY <2>2, <3>2, <4>1, <4>2
    <3> QED BY <3>3, <3>4
  <2> QED BY <2>1, <2>2
<1>5. DownIsClean'
  BY <1>1 DEF UpdateState, ConsensusInv, DownIsClean
<1> QED BY <1>1, <1>3, <1>4, <1>5, AppendStep DEF ConsensusInv

LEMMA SyncBlockStep ==
  ASSUME ConsensusInv, NEW n \in Correct, SyncBlock(n)
  PROVE  ConsensusInv'
<1> USE NodeTypes
<1>1. /\ IndexAndAppend(n) /\ UpdateState(n)
      /\ UNCHANGED <<decisions, config, phase>>
      /\ phase[n] = "running" /\ height[n] < Len(decisions)
      /\ pulled' = IF IsNewConfig(n, height[n] + 1) THEN pulled \cup {n} ELSE pulled
  BY DEF SyncBlock, IndexAndAppend
<1>2. height' = [height EXCEPT ![n] = @ + 1]
  BY <1>1, AppendStep
<1>3. TypeOK'
  <2>1. pulled' \subseteq Correct
    BY <1>1
  <2> QED BY <1>1, <2>1, AppendStep, ChainUnchanged DEF TypeOK
<1>4. InstalledUnlessPulled'
  <2> SUFFICES ASSUME NEW m \in Correct \ pulled'
               PROVE  /\ phase[m] = "running" =>
                           /\ installing'[m] = {}
                           /\ \A i \in Configs(height'[m]) : i <= config[m]
                      /\ phase[m] = "delivering" => installing'[m] = {height'[m]}
    BY <1>1 DEF InstalledUnlessPulled, Configs
  <2>1. m \notin pulled
    BY <1>1
  <2>2. CASE m # n
    BY <1>1, <1>2, <2>1, <2>2 DEF UpdateState, ConsensusInv, InstalledUnlessPulled
  <2>3. CASE m = n
    <3>1. installing[n] = {} /\ \A i \in Configs(height[n]) : i <= config[n]
      BY <1>1, <2>1, <2>3 DEF ConsensusInv, InstalledUnlessPulled
    <3>2. ~IsNewConfig(n, height[n] + 1)
      BY <1>1, <2>3
    <3>3. installing'[n] = {} /\ height'[n] = height[n] + 1
      BY <1>1, <1>2, <3>1, <3>2 DEF UpdateState
    <3>4. \A i \in Configs(height[n] + 1) : i <= config[n]
      BY <1>1, <3>1, <3>2, NothingNew
    <3> QED BY <1>1, <2>3, <3>3, <3>4
  <2> QED BY <2>2, <2>3
<1>5. DownIsClean'
  BY <1>1 DEF UpdateState, ConsensusInv, DownIsClean
<1> QED BY <1>1, <1>3, <1>4, <1>5, AppendStep DEF ConsensusInv

\* A node goes down: what it has to remember is in its ledger and its BADB.
LEMMA GoDownStep ==
  ASSUME ConsensusInv, NEW n \in Correct, GoDown(n), UNCHANGED <<decisions, config>>,
         \A m \in Correct \ {n} : height'[m] = height[m]
  PROVE  /\ phase' \in [Correct -> Phases]
         /\ installing' \in [Correct -> SUBSET (1 .. Len(decisions))]
         /\ pulled' \subseteq Correct
         /\ ConfigsAreDecided' /\ InstalledUnlessPulled' /\ DownIsClean'
<1> USE NodeTypes
<1>1. /\ phase' = [phase EXCEPT ![n] = "down"]
      /\ installing' = [installing EXCEPT ![n] = {}]
      /\ pulled' = pulled \ {n}
      /\ decisions' = decisions /\ config' = config
  BY DEF GoDown
<1>2. phase' \in [Correct -> Phases]
  BY <1>1 DEF Phases
<1>3. installing' \in [Correct -> SUBSET (1 .. Len(decisions))]
  BY <1>1
<1>4. ConfigsAreDecided'
  BY <1>1, ChainUnchanged DEF ConsensusInv, ConfigsAreDecided
<1>5. InstalledUnlessPulled'
  <2> SUFFICES ASSUME NEW m \in Correct \ pulled'
               PROVE  /\ phase'[m] = "running" =>
                           /\ installing'[m] = {}
                           /\ \A i \in Configs(height'[m]) : i <= config[m]
                      /\ phase'[m] = "delivering" => installing'[m] = {height'[m]}
    BY <1>1 DEF InstalledUnlessPulled, Configs
  <2>1. CASE m = n
    BY <1>1, <2>1
  <2>2. CASE m # n
    <3>1. /\ m \notin pulled /\ phase'[m] = phase[m] /\ height'[m] = height[m]
          /\ installing'[m] = installing[m]
      BY <1>1, <2>2
    <3> QED BY <3>1 DEF ConsensusInv, InstalledUnlessPulled
  <2> QED BY <2>1, <2>2
<1>6. DownIsClean'
  BY <1>1 DEF ConsensusInv, DownIsClean
<1> QED BY <1>1, <1>2, <1>3, <1>4, <1>5, <1>6

LEMMA CrashAfterIndexStep ==
  ASSUME ConsensusInv, NEW n \in Correct, CrashAfterIndex(n)
  PROVE  ConsensusInv'
<1>1. /\ GoDown(n) /\ UNCHANGED <<decisions, height, config>>
      /\ height[n] < Len(decisions)
      /\ badb' = [badb EXCEPT ![n] = @ \cup OrderedDigests(decisions[height[n] + 1])]
  BY DEF CrashAfterIndex
<1>2. badb' \in [Correct -> SUBSET Digests] /\ BADBMatchesLedger'
  BY <1>1, IndexStep
<1>3. /\ phase' \in [Correct -> Phases]
      /\ installing' \in [Correct -> SUBSET (1 .. Len(decisions))]
      /\ pulled' \subseteq Correct
      /\ ConfigsAreDecided' /\ InstalledUnlessPulled' /\ DownIsClean'
  BY <1>1, GoDownStep
<1>4. TypeOK'
  BY <1>1, <1>2, <1>3, NodeTypes, ChainUnchanged DEF TypeOK
<1> QED BY <1>2, <1>3, <1>4 DEF ConsensusInv

LEMMA CrashStep ==
  ASSUME ConsensusInv, NEW n \in Correct, Crash(n)
  PROVE  ConsensusInv'
<1>1. GoDown(n) /\ UNCHANGED <<decisions, height, badb, config>>
  BY DEF Crash
<1>2. BADBMatchesLedger'
  BY <1>1, LedgersUnchanged
<1>3. /\ phase' \in [Correct -> Phases]
      /\ installing' \in [Correct -> SUBSET (1 .. Len(decisions))]
      /\ pulled' \subseteq Correct
      /\ ConfigsAreDecided' /\ InstalledUnlessPulled' /\ DownIsClean'
  BY <1>1, GoDownStep
<1>4. TypeOK'
  BY <1>1, <1>3, NodeTypes, ChainUnchanged DEF TypeOK
<1> QED BY <1>2, <1>3, <1>4 DEF ConsensusInv

LEMMA InstallConfigStep ==
  ASSUME ConsensusInv, NEW n \in Correct, InstallConfig(n)
  PROVE  ConsensusInv'
<1> USE NodeTypes
<1>1. UNCHANGED <<decisions, height, badb, pulled>>
  BY DEF InstallConfig
<1>2. PICK k \in installing[n] :
        IF n \in Members(k)
        THEN /\ config' = [config EXCEPT ![n] = k]
             /\ installing' = [installing EXCEPT ![n] = @ \ {k}]
             /\ phase' = [phase EXCEPT ![n] = IF k = height[n] THEN "running" ELSE @]
        ELSE /\ phase' = [phase EXCEPT ![n] = "parked"]
             /\ installing' = [installing EXCEPT ![n] = {}]
             /\ UNCHANGED config
  BY DEF InstallConfig
<1>3. /\ k \in 1 .. Len(decisions) /\ k \in Configs(Len(decisions))
      /\ phase[n] \in {"running", "delivering"}
  BY DEF ConsensusInv, ConfigsAreDecided, DownIsClean, Phases
<1>4. BADBMatchesLedger'
  BY <1>1, LedgersUnchanged
<1>5. CASE n \in Members(k)
  <2>1. /\ config' = [config EXCEPT ![n] = k]
        /\ installing' = [installing EXCEPT ![n] = @ \ {k}]
        /\ phase' = [phase EXCEPT ![n] = IF k = height[n] THEN "running" ELSE @]
    BY <1>2, <1>5
  <2>2. /\ config' \in [Correct -> 1 .. Len(decisions)]
        /\ installing' \in [Correct -> SUBSET (1 .. Len(decisions))]
        /\ phase' \in [Correct -> Phases]
    BY <1>3, <2>1 DEF Phases
  <2>3. TypeOK'
    BY <1>1, <2>2, ChainUnchanged DEF TypeOK
  <2>4. ConfigsAreDecided'
    BY <1>1, <1>3, <2>1, ChainUnchanged DEF ConsensusInv, ConfigsAreDecided
  <2>5. InstalledUnlessPulled'
    <3> SUFFICES ASSUME NEW m \in Correct \ pulled
                 PROVE  /\ phase'[m] = "running" =>
                             /\ installing'[m] = {}
                             /\ \A i \in Configs(height[m]) : i <= config'[m]
                        /\ phase'[m] = "delivering" => installing'[m] = {height[m]}
      BY <1>1 DEF InstalledUnlessPulled, Configs
    <3>1. CASE m # n
      BY <2>1, <3>1 DEF ConsensusInv, InstalledUnlessPulled
    <3>2. CASE m = n
      <4>1. phase[n] = "delivering" => k = height[n] /\ installing[n] = {k}
        BY <3>2 DEF ConsensusInv, InstalledUnlessPulled
      <4>2. phase[n] # "running"
        BY <3>2 DEF ConsensusInv, InstalledUnlessPulled
      <4>3. \A i \in Configs(height[n]) : i <= height[n]
        BY DEF Configs
      <4> QED BY <1>3, <2>1, <3>2, <4>1, <4>2, <4>3
    <3> QED BY <3>1, <3>2
  <2>6. DownIsClean'
    BY <1>3, <2>1 DEF ConsensusInv, DownIsClean
  <2> QED BY <1>4, <2>3, <2>4, <2>5, <2>6 DEF ConsensusInv
<1>6. CASE n \notin Members(k)
  <2>1. /\ phase' = [phase EXCEPT ![n] = "parked"]
        /\ installing' = [installing EXCEPT ![n] = {}]
        /\ config' = config
    BY <1>2, <1>6
  <2>2. /\ installing' \in [Correct -> SUBSET (1 .. Len(decisions))]
        /\ phase' \in [Correct -> Phases]
    BY <2>1 DEF Phases
  <2>3. TypeOK'
    BY <1>1, <2>1, <2>2, ChainUnchanged DEF TypeOK
  <2>4. ConfigsAreDecided'
    BY <1>1, <2>1, ChainUnchanged DEF ConsensusInv, ConfigsAreDecided
  <2>5. InstalledUnlessPulled'
    <3> SUFFICES ASSUME NEW m \in Correct \ pulled
                 PROVE  /\ phase'[m] = "running" =>
                             /\ installing'[m] = {}
                             /\ \A i \in Configs(height[m]) : i <= config[m]
                        /\ phase'[m] = "delivering" => installing'[m] = {height[m]}
      BY <1>1, <2>1 DEF InstalledUnlessPulled, Configs
    <3>1. CASE m # n
      BY <2>1, <3>1 DEF ConsensusInv, InstalledUnlessPulled
    <3>2. CASE m = n
      BY <2>1, <3>2
    <3> QED BY <3>1, <3>2
  <2>6. DownIsClean'
    BY <2>1 DEF ConsensusInv, DownIsClean
  <2> QED BY <1>4, <2>3, <2>4, <2>5, <2>6 DEF ConsensusInv
<1> QED BY <1>5, <1>6

LEMMA StartStep ==
  ASSUME ConsensusInv, NEW n \in Correct, Start(n)
  PROVE  ConsensusInv'
<1> USE NodeTypes
<1>1. /\ UNCHANGED <<decisions, height, badb, installing, pulled>>
      /\ phase' = [phase EXCEPT ![n] = "running"]
      /\ installing[n] = {}
  BY DEF Start, ConsensusInv, DownIsClean
<1>2. PICK k \in Configs(Len(decisions)) :
        /\ \A i \in Configs(height[n]) : i <= k
        /\ config' = [config EXCEPT ![n] = k]
  BY DEF Start
<1>3. k \in 1 .. Len(decisions)
  BY DEF Configs
<1>4. config' \in [Correct -> 1 .. Len(decisions)] /\ phase' \in [Correct -> Phases]
  BY <1>1, <1>2, <1>3 DEF Phases
<1>5. TypeOK'
  BY <1>1, <1>4, ChainUnchanged DEF ConsensusInv, TypeOK
<1>6. BADBMatchesLedger'
  BY <1>1, LedgersUnchanged
<1>7. ConfigsAreDecided'
  BY <1>1, <1>2, ChainUnchanged DEF ConsensusInv, ConfigsAreDecided
<1>8. InstalledUnlessPulled'
  <2> SUFFICES ASSUME NEW m \in Correct \ pulled
               PROVE  /\ phase'[m] = "running" =>
                           /\ installing[m] = {}
                           /\ \A i \in Configs(height[m]) : i <= config'[m]
                      /\ phase'[m] = "delivering" => installing[m] = {height[m]}
    BY <1>1 DEF InstalledUnlessPulled, Configs
  <2>1. CASE m # n
    BY <1>1, <1>2, <2>1 DEF ConsensusInv, InstalledUnlessPulled
  <2>2. CASE m = n
    BY <1>1, <1>2, <2>2
  <2> QED BY <2>1, <2>2
<1>9. DownIsClean'
  BY <1>1 DEF ConsensusInv, DownIsClean
<1> QED BY <1>5, <1>6, <1>7, <1>8, <1>9 DEF ConsensusInv

LEMMA InvInit == Init => ConsensusInv
<1> SUFFICES ASSUME Init PROVE ConsensusInv
  OBVIOUS
<1>1. decisions = <<GenesisDecision>> /\ ChainTypeOK
  BY TypeInit DEF Init, ChainInit
<1>2. Len(decisions) = 1 /\ decisions[1] = GenesisDecision
  BY <1>1
<1>3. TypeOK
  BY <1>1, <1>2 DEF Init, TypeOK, Phases
<1>4. BADBMatchesLedger
  <2>1. OrderedDigests(GenesisDecision) = {}
    BY DEF OrderedDigests, GenesisDecision
  <2>2. Indexed(0) = {} /\ Indexed(1) = {}
    BY <1>2, <2>1 DEF Indexed
  <2>3. \A n \in Correct : badb[n] = {} /\ height[n] \in {0, 1}
    BY DEF Init
  <2> QED BY <2>2, <2>3 DEF BADBMatchesLedger
<1>5. ConfigsAreDecided
  BY <1>2 DEF Init, ConfigsAreDecided, Configs
<1>6. InstalledUnlessPulled
  <2>1. \A n \in Correct : /\ config[n] = 1 /\ height[n] \in {0, 1}
                           /\ installing[n] = {} /\ phase[n] # "delivering"
    BY DEF Init
  <2> QED BY <2>1 DEF InstalledUnlessPulled, Configs
<1>7. DownIsClean
  BY DEF Init, DownIsClean
<1> QED BY <1>3, <1>4, <1>5, <1>6, <1>7 DEF ConsensusInv

LEMMA InvStep ==
  ASSUME ConsensusInv, [Next]_vars
  PROVE  ConsensusInv'
<1>1. ASSUME NEW reqs \in Payloads, Decide(reqs)
      PROVE  ConsensusInv'
  BY <1>1, DecideStep
<1>2. ASSUME NEW n \in Correct, Deliver(n)
      PROVE  ConsensusInv'
  BY <1>2, DeliverStep
<1>3. ASSUME NEW n \in Correct, SyncBlock(n)
      PROVE  ConsensusInv'
  BY <1>3, SyncBlockStep
<1>4. ASSUME NEW n \in Correct, CrashAfterIndex(n)
      PROVE  ConsensusInv'
  BY <1>4, CrashAfterIndexStep
<1>5. ASSUME NEW n \in Correct, Crash(n)
      PROVE  ConsensusInv'
  BY <1>5, CrashStep
<1>6. ASSUME NEW n \in Correct, InstallConfig(n)
      PROVE  ConsensusInv'
  BY <1>6, InstallConfigStep
<1>7. ASSUME NEW n \in Correct, Start(n)
      PROVE  ConsensusInv'
  BY <1>7, StartStep
<1>8. CASE UNCHANGED vars
  BY <1>8, ChainUnchanged
     DEF vars, ConsensusInv, TypeOK, BADBMatchesLedger, Indexed, ConfigsAreDecided,
         InstalledUnlessPulled, Configs, DownIsClean
<1> QED BY <1>1, <1>2, <1>3, <1>4, <1>5, <1>6, <1>7, <1>8 DEF Next, NodeStep

\* No node decides anything alone.
LEMMA NodeStepKeepsChain == NodeStep => UNCHANGED decisions
BY DEF NodeStep, Deliver, SyncBlock, CrashAfterIndex, Crash, InstallConfig, Start

-----------------------------------------------------------------------------
(* Theorems, whatever the timing of the installations                      *)

\* The inductive invariant holds throughout.
THEOREM InvHolds == Spec => []ConsensusInv
<1>1. ConsensusInv /\ [Next]_vars => ConsensusInv'
  BY InvStep
<1> QED BY <1>1, InvInit, PTL DEF Spec

\* The BADB of a correct consenter never lacks a digest of a decision in its
\* ledger and holds none but those and the next decision's, whenever the node
\* fails between ConsensusDB.Index and ledger.Append.
THEOREM BADBNeverLags == Spec => []BADBMatchesLedger
<1>1. ConsensusInv => BADBMatchesLedger
  BY DEF ConsensusInv
<1> QED BY <1>1, InvHolds, PTL

\* A consenter that takes part with an outdated config or a closed BADB has
\* pulled a config with its synchronizer since it started: neither Deliver,
\* which waits for processNewConfigBlock, nor a crash leads there.
THEOREM OnlyPullsOutdate == Spec => []OutdatedOnlyAfterPull
<1>1. ConsensusInv => OutdatedOnlyAfterPull
  <2> SUFFICES ASSUME ConsensusInv, NEW n \in Correct \ pulled, TakesPart(n)
               PROVE  installing[n] = {} /\ config[n] = Max(Configs(height[n]))
    BY DEF OutdatedOnlyAfterPull, Outdated
  <2>1. height[n] = Len(decisions) /\ Len(decisions) \in Nat \ {0}
    BY NodeTypes DEF TakesPart
  <2>2. installing[n] = {} /\ \A i \in Configs(height[n]) : i <= config[n]
    BY DEF TakesPart, MayVote, ConsensusInv, InstalledUnlessPulled
  <2>3. config[n] \in Configs(height[n])
    BY <2>1 DEF ConsensusInv, ConfigsAreDecided
  <2>4. /\ Max(Configs(height[n])) \in Configs(height[n])
        /\ \A i \in Configs(height[n]) : i <= Max(Configs(height[n]))
    BY <2>1, HighestConfig
  <2>5. Configs(height[n]) \subseteq Int
    BY DEF Configs
  <2> QED BY <2>2, <2>3, <2>4, <2>5
<1> QED BY <1>1, InvHolds, PTL

\* A decision that the last config and a complete BADB would not make needs
\* outdated and faulty consenters that make up a quorum together: with fewer,
\* VerifyProposal at the others rejects it.
THEOREM OutdatedNeedQuorum == Spec => OutdatedTakesAQuorum
<1>1. ConsensusInv /\ [Next]_vars => [OrderedUnder(LastConfig) \/ Overrun]_decisions
  <2> SUFFICES ASSUME ConsensusInv, [Next]_vars
               PROVE  [OrderedUnder(LastConfig) \/ Overrun]_decisions
    OBVIOUS
  <2>1. ASSUME NEW reqs \in Payloads, Decide(reqs), ~Overrun
        PROVE  OrderedUnder(LastConfig)
    BY <2>1, DecideUnderLast DEF OrderedUnder
  <2>2. CASE NodeStep \/ UNCHANGED vars
    BY <2>2, NodeStepKeepsChain DEF vars
  <2> QED BY <2>1, <2>2 DEF Next
<1> QED BY <1>1, InvHolds, PTL DEF Spec, OutdatedTakesAQuorum

-----------------------------------------------------------------------------
(* Theorems, as long as the outdated and the faulty are no quorum          *)

\* Between two configs neither the members nor the sequence change.
StableBetweenConfigs ==
  \A k, i \in DOMAIN decisions :
    k <= i /\ (\A j \in k + 1 .. i : ~decisions[j].config)
      => /\ Members(i) = Members(k)
         /\ ConfigSeq(decisions[i]) = ConfigSeq(decisions[k])

\* What a quorum decides is then what the chain orders.
LEMMA DecideOrders ==
  ASSUME ConsensusInv, StableBetweenConfigs,
         NEW reqs \in Payloads, Decide(reqs), ~Overrun
  PROVE  Order(reqs)
<1>1. PICK m \in Nat \ {0} : m = Len(decisions)
  BY NodeTypes
<1>2. LastConfig \in Configs(m) /\ \A i \in Configs(m) : i <= LastConfig
  BY <1>1, HighestConfig DEF LastConfig
<1>3. LastConfig \in 1 .. m
  BY <1>2 DEF Configs
<1>4. \A j \in LastConfig + 1 .. m : ~decisions[j].config
  BY <1>2, <1>3 DEF Configs
<1>5. /\ Members(LastConfig) = Last.state.parties
      /\ ConfigSeq(decisions[LastConfig]) = ConfigSeq(Last)
  <2>1. LastConfig \in DOMAIN decisions /\ m \in DOMAIN decisions
    BY <1>1, <1>3, NodeTypes
  <2>2. LastConfig <= m
    BY <1>3
  <2>3. /\ Members(m) = Members(LastConfig)
        /\ ConfigSeq(decisions[m]) = ConfigSeq(decisions[LastConfig])
    BY <1>4, <2>1, <2>2 DEF StableBetweenConfigs
  <2> QED BY <1>1, <2>3 DEF Last, Members
<1>6. Len(decisions) < MaxDecisions
  BY DEF Decide
<1>7. /\ ValidPayload(decisions, Last.state.parties, ConfigSeq(Last), reqs)
      /\ \E parties \in NextParties(decisions, ConfigSeq(Last), reqs) :
           decisions' = Append(decisions, NewDecision(decisions, ConfigSeq(Last),
                                            DigestsOf(decisions), reqs, parties))
  BY <1>5, DecideUnderLast
<1> QED BY <1>6, <1>7 DEF Order, Last

\* A decision of the chain without a config keeps the members and the sequence.
LEMMA StableStep ==
  ASSUME ChainTypeOK, StableBetweenConfigs, NEW reqs \in Payloads, Order(reqs)
  PROVE  StableBetweenConfigs'
<1>1. PICK d \in Decision : decisions' = Append(decisions, d) /\ FollowsLast(d, reqs)
  BY OrderStep
<1>2. decisions \in Seq(Decision) /\ Len(decisions) \in Nat \ {0}
  BY Before
<1>3. PICK m \in Nat : m = Len(decisions)
  BY <1>2
<1>4. /\ DOMAIN decisions' = 1 .. m + 1 /\ DOMAIN decisions = 1 .. m
      /\ decisions[m] = Last /\ m > 0
      /\ \A i \in 1 .. m : decisions'[i] = decisions[i]
      /\ decisions'[m + 1] = d
  BY <1>1, <1>2, <1>3, AppendFacts DEF Last
<1>5. /\ ~d.config => d.state.parties = Last.state.parties
      /\ ~d.config => ConfigSeq(d) = ConfigSeq(Last)
  BY <1>1 DEF FollowsLast, Follows, Last, ConfigSeq
<1> SUFFICES ASSUME NEW k \in 1 .. m + 1, NEW i \in 1 .. m + 1, k <= i,
                    \A j \in k + 1 .. i : ~decisions'[j].config
             PROVE  /\ decisions'[i].state.parties = decisions'[k].state.parties
                    /\ ConfigSeq(decisions'[i]) = ConfigSeq(decisions'[k])
  BY <1>4 DEF StableBetweenConfigs, Members
<1>6. CASE k = m + 1
  BY <1>6
<1>7. CASE k # m + 1 /\ i # m + 1
  <2>1. k \in 1 .. m /\ i \in 1 .. m
    BY <1>7
  <2>2. \A j \in k + 1 .. i : ~decisions[j].config
    BY <1>4, <2>1
  <2>3. /\ decisions[i].state.parties = decisions[k].state.parties
        /\ ConfigSeq(decisions[i]) = ConfigSeq(decisions[k])
    BY <1>4, <2>1, <2>2 DEF StableBetweenConfigs, Members
  <2> QED BY <1>4, <2>1, <2>3
<1>8. CASE k # m + 1 /\ i = m + 1
  <2>1. k \in 1 .. m /\ m \in 1 .. m /\ k <= m /\ ~d.config
    BY <1>4, <1>8
  <2>2. \A j \in k + 1 .. m : ~decisions[j].config
    BY <1>4, <1>8, <2>1
  <2>3. /\ Last.state.parties = decisions[k].state.parties
        /\ ConfigSeq(Last) = ConfigSeq(decisions[k])
    BY <1>4, <2>1, <2>2 DEF StableBetweenConfigs, Members
  <2> QED BY <1>4, <1>5, <1>8, <2>1, <2>3
<1> QED BY <1>6, <1>7, <1>8

\* The consenters implement the chain of Ordering as long as no decision is made
\* while the outdated and the faulty make up a quorum: fewer consenters that
\* vote with an old config or a closed BADB, whatever order the goroutines of
\* processNewConfigBlock end in, leave no trace in the decisions.
THEOREM ImplementsOrdering == SteadySpec => OneChain
<1> DEFINE SteadyNext == (~Overrun /\ \E reqs \in Payloads : Decide(reqs)) \/ NodeStep
           Inv == ConsensusInv /\ StableBetweenConfigs
<1>1. Init => Inv /\ ChainInit
  <2> SUFFICES ASSUME Init PROVE StableBetweenConfigs /\ ChainInit
    BY InvInit
  <2>1. ChainInit
    BY DEF Init
  <2>2. DOMAIN decisions = {1}
    BY <2>1 DEF ChainInit
  <2> QED BY <2>1, <2>2 DEF StableBetweenConfigs
<1>2. Inv /\ [SteadyNext]_vars => Inv' /\ [ChainNext]_decisions
  <2> SUFFICES ASSUME Inv, [SteadyNext]_vars
               PROVE  StableBetweenConfigs' /\ [ChainNext]_decisions
    BY InvStep DEF Next
  <2>1. ASSUME NEW reqs \in Payloads, Decide(reqs), ~Overrun
        PROVE  StableBetweenConfigs' /\ ChainNext
    <3>1. Order(reqs)
      BY <2>1, DecideOrders
    <3> QED BY <3>1, StableStep DEF ChainNext, ConsensusInv, TypeOK
  <2>2. CASE UNCHANGED decisions
    BY <2>2 DEF StableBetweenConfigs, Members
  <2> QED BY <2>1, <2>2, NodeStepKeepsChain DEF vars
<1> HIDE DEF Inv
<1> QED BY <1>1, <1>2, PTL DEF SteadySpec, OneChain, ChainSpec

\* Under the same assumption the consenters never order a batch twice.
THEOREM ConsentersOrderOnce == SteadySpec => []NoBatchOrderedTwice
<1> QED BY ImplementsOrdering, OrderedOnce, PTL DEF OneChain
=============================================================================
