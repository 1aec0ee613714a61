----------------------------- MODULE Consensus -----------------------------
(***************************************************************************)
(* The consenters (node/consensus/consensus.go): every one has a ledger    *)
(* and a batch attestation DB (BADB) of its own, crashes and restarts,     *)
(* delivers decisions or pulls them with the synchronizer, and installs a  *)
(* config some time after it is decided, in a goroutine per config.        *)
(*                                                                         *)
(* SmartBFT's agreement is one step: a proposal is decided when a quorum   *)
(* of the members vote for it, and a correct member votes for what it has  *)
(* itself recomputed (VerifyProposal).  Faulty members vote for anything.  *)
(* A ledger is a prefix of the decided sequence, so it is modelled by its  *)
(* height; c.State is the state in the header of the ledger's last block.  *)
(*                                                                         *)
(* The decided sequence is the variable of Ordering.  A consenter may vote *)
(* with an outdated config; as long as too few of them do to make up a     *)
(* quorum, this module implements Ordering, in which there are no nodes    *)
(* (OneChain).                                                             *)
(***************************************************************************)
EXTENDS Ordering

CONSTANT Faulty  \* the parties whose consenter may deviate

ASSUME ConsensusAssumption == Faulty \subseteq Parties

\* No config has more than f faulty members.
ASSUME FaultBound ==
  \A P \in {Genesis} \cup {ce.parties : ce \in OfType(UNION Payloads, "config")} :
    Cardinality(P \cap Faulty) <= F(Cardinality(P))

VARIABLES
  height,     \* height[n]: the height of n's ledger
  badb,       \* badb[n]: the digests in n's BADB
  config,     \* config[n]: the decision whose config n has installed
  installing, \* installing[n]: the decisions whose config a goroutine of n is
              \* about to install
  phase,      \* phase[n]: where n is in its life cycle
  pulled      \* history: the nodes whose synchronizer has pulled a new config
              \* since they started

vars == <<decisions, height, badb, config, installing, phase, pulled>>

Correct == Parties \ Faulty

\* delivering: Deliver has appended a config block and waits for its config to
\* be installed.  parked: waits for an administrator, the party is not in the
\* config.
Phases == {"down", "running", "delivering", "parked"}

-----------------------------------------------------------------------------

\* The decisions up to h that hold a config; the genesis block is one.
Configs(h) == {i \in 1 .. h : i = 1 \/ decisions[i].config}

Members(i) == decisions[i].state.parties

InstalledSeq(n) == ConfigSeq(decisions[config[n]])

\* Deliver blocks SmartBFT until the new config is installed; the synchronizer
\* does not, and SoftStop, which turns new messages away, leaves SmartBFT to
\* work on the messages that it has.
MayVote(n) == phase[n] = "running"

\* n takes part in the next decision.
TakesPart(n) == MayVote(n) /\ height[n] = Len(decisions)

\* What n may find in its BADB: SoftStop closes it until the config is installed,
\* and Exists takes every digest for absent in a DB that is closed.
Lookups(n) == IF installing[n] = {} THEN {badb[n]} ELSE {badb[n], {}}

\* What n computes for a payload, as a leader or as a verifier.
Proposals(n, reqs) ==
  {NewDecision(decisions, InstalledSeq(n), db, reqs, parties) :
     db \in Lookups(n), parties \in NextParties(decisions, InstalledSeq(n), reqs)}

\* VerifyProposal at n.
Verifies(n, reqs, d) ==
  /\ TakesPart(n)
  /\ d.seq = InstalledSeq(n)
  /\ ValidPayload(decisions, Members(config[n]), InstalledSeq(n), reqs)
  /\ d \in Proposals(n, reqs)

\* Mutant: f+1 votes are enough.
Accepted_Threshold(reqs, d) ==
  LET last   == decisions[Len(decisions)].state
      voters == {n \in Correct \cap last.parties : Verifies(n, reqs, d)}
  IN /\ voters # {}
     /\ Cardinality(voters \cup (last.parties \cap Faulty)) >= Threshold(last)

\* A quorum of the members votes for d: correct ones, which verify it, and faulty
\* ones.
Accepted(reqs, d) ==
  LET last   == decisions[Len(decisions)].state
      voters == {n \in Correct \cap last.parties : Verifies(n, reqs, d)}
  IN /\ voters # {}
     /\ Cardinality(voters \cup (last.parties \cap Faulty)) >= Quorum(last)

Init ==
  /\ ChainInit
  /\ height = [n \in Correct |-> IF n \in Genesis THEN 1 ELSE 0]
  /\ badb   = [n \in Correct |-> {}]
  /\ config = [n \in Correct |-> 1]
  /\ installing = [n \in Correct |-> {}]
  /\ phase  = [n \in Correct |-> IF n \in Genesis THEN "running" ELSE "down"]
  /\ pulled = {}

\* A payload is decided.
Decide(reqs) ==
  /\ Len(decisions) < MaxDecisions
  /\ \E d \in UNION {Proposals(n, reqs) : n \in {x \in Correct : TakesPart(x)}} :
       Accepted(reqs, d) /\ decisions' = Append(decisions, d)
  /\ UNCHANGED <<height, badb, config, installing, phase, pulled>>

-----------------------------------------------------------------------------

\* Mutant: nothing is indexed.
IndexAndAppend_NoIndex(n) ==
  /\ height[n] < Len(decisions)
  /\ height' = [height EXCEPT ![n] = @ + 1]
  /\ UNCHANGED badb

\* Mutant: the block is appended twice.
IndexAndAppend_Twice(n) ==
  /\ height[n] < Len(decisions)
  /\ badb' = [badb EXCEPT ![n] = @ \cup OrderedDigests(decisions[height[n] + 1])]
  /\ height' = [height EXCEPT ![n] = @ + 2]

\* The next decision is indexed in the BADB and then appended to the ledger.
IndexAndAppend(n) ==
  /\ height[n] < Len(decisions)
  /\ badb' = [badb EXCEPT ![n] = @ \cup OrderedDigests(decisions[height[n] + 1])]
  /\ height' = [height EXCEPT ![n] = @ + 1]

\* The decision holds a config newer than the installed one.
IsNewConfig(n, i) == decisions[i].config /\ i > config[n]

\* The new state is in force at once; for a new config a goroutine is started,
\* processNewConfigBlock.
UpdateState(n) ==
  installing' = [installing EXCEPT ![n] =
                   IF IsNewConfig(n, height[n] + 1) THEN @ \cup {height[n] + 1} ELSE @]

\* Mutant: Deliver does not wait for the config to be installed.
Deliver_NoWait(n) ==
  /\ phase[n] = "running"
  /\ height[n] > 0
  /\ IndexAndAppend(n)
  /\ UpdateState(n)
  /\ UNCHANGED <<decisions, config, phase, pulled>>

\* Consensus.Deliver
Deliver(n) ==
  /\ phase[n] = "running"
  /\ height[n] > 0
  /\ IndexAndAppend(n)
  /\ UpdateState(n)
  /\ phase' = [phase EXCEPT ![n] =
                 IF IsNewConfig(n, height[n] + 1) THEN "delivering" ELSE @]
  /\ UNCHANGED <<decisions, config, pulled>>

\* One turn of getBlocksFromSyncBuffer: indexAndWrite, then OnCommit, which is
\* UpdateStateAndRuntimeConfig.  The loop goes on after a config block.
SyncBlock(n) ==
  /\ phase[n] = "running"
  /\ \E m \in Parties \ {n} : m \in Correct => height[m] > height[n]
  /\ IndexAndAppend(n)
  /\ UpdateState(n)
  /\ pulled' = IF IsNewConfig(n, height[n] + 1) THEN pulled \cup {n} ELSE pulled
  /\ UNCHANGED <<decisions, config, phase>>

\* The process ends: its goroutines end with it.
GoDown(n) ==
  /\ phase' = [phase EXCEPT ![n] = "down"]
  /\ installing' = [installing EXCEPT ![n] = {}]
  /\ pulled' = pulled \ {n}

\* Mutant: the block is appended first, and the crash comes before the index.
CrashAfterIndex_AppendFirst(n) ==
  /\ phase[n] = "running"
  /\ height[n] < Len(decisions)
  /\ height' = [height EXCEPT ![n] = @ + 1]
  /\ GoDown(n)
  /\ UNCHANGED <<decisions, badb, config>>

\* The node fails in Deliver or indexAndWrite between the two writes.
CrashAfterIndex(n) ==
  /\ phase[n] = "running"
  /\ height[n] < Len(decisions)
  /\ badb' = [badb EXCEPT ![n] = @ \cup OrderedDigests(decisions[height[n] + 1])]
  /\ GoDown(n)
  /\ UNCHANGED <<decisions, height, config>>

\* The node fails, or is stopped, anywhere else.
Crash(n) ==
  /\ phase[n] \in {"running", "delivering"}
  /\ GoDown(n)
  /\ UNCHANGED <<decisions, height, badb, config>>

\* Mutant: done is not closed.
InstallConfig_NotDone(n) ==
  /\ \E k \in installing[n] :
       IF n \in Members(k)
       THEN /\ config' = [config EXCEPT ![n] = k]
            /\ installing' = [installing EXCEPT ![n] = @ \ {k}]
            /\ UNCHANGED phase
       ELSE /\ phase' = [phase EXCEPT ![n] = "parked"]
            /\ installing' = [installing EXCEPT ![n] = {}]
            /\ UNCHANGED config
  /\ UNCHANGED <<decisions, height, badb, pulled>>

\* processNewConfigBlock and ApplyConfig, to their end: the config is installed,
\* whichever is installed already, or the node parks because its party is not
\* in it.  A Deliver that waits for this config goes on.
InstallConfig(n) ==
  /\ \E k \in installing[n] :
       IF n \in Members(k)
       THEN /\ config' = [config EXCEPT ![n] = k]
            /\ installing' = [installing EXCEPT ![n] = @ \ {k}]
            /\ phase' = [phase EXCEPT ![n] = IF k = height[n] THEN "running" ELSE @]
       ELSE /\ phase' = [phase EXCEPT ![n] = "parked"]
            /\ installing' = [installing EXCEPT ![n] = {}]
            /\ UNCHANGED config
  /\ UNCHANGED <<decisions, height, badb, pulled>>

\* The node starts from the last config in its ledger or from a bootstrap block
\* with a later one, in which case it synchronizes before it votes.
Start(n) ==
  /\ phase[n] = "down"
  /\ \E k \in Configs(Len(decisions)) :
       /\ \A i \in Configs(height[n]) : i <= k
       /\ n \in Members(k)
       /\ config' = [config EXCEPT ![n] = k]
  /\ phase' = [phase EXCEPT ![n] = "running"]
  /\ UNCHANGED <<decisions, height, badb, installing, pulled>>

NodeStep ==
  \E n \in Correct : \/ Deliver(n) \/ SyncBlock(n) \/ CrashAfterIndex(n)
                     \/ Crash(n) \/ InstallConfig(n) \/ Start(n)

Next == (\E reqs \in Payloads : Decide(reqs)) \/ NodeStep

Spec == Init /\ [][Next]_vars

\* A node that is up again and again gets to deliver the next decision, an
\* installation that is under way ends, and a node that is down is restarted.
Fairness ==
  \A n \in Correct : /\ SF_vars(Deliver(n) \/ SyncBlock(n))
                     /\ WF_vars(InstallConfig(n))
                     /\ WF_vars(Start(n))

FairSpec == Spec /\ Fairness

-----------------------------------------------------------------------------
(* Properties                                                              *)

TypeOK ==
  /\ ChainTypeOK
  /\ height \in [Correct -> 0 .. Len(decisions)]
  /\ badb \in [Correct -> SUBSET Digests]
  /\ config \in [Correct -> 1 .. Len(decisions)]
  /\ installing \in [Correct -> SUBSET (1 .. Len(decisions))]
  /\ phase \in [Correct -> Phases]
  /\ pulled \subseteq Correct

\* The digests of the first h decisions.
Indexed(h) == UNION {OrderedDigests(decisions[i]) : i \in 1 .. h}

\* A BADB holds the digests of the decisions in the ledger, and after a crash
\* between the two writes those of the next decision as well: never fewer, or a
\* batch could be ordered again, and never others, or a batch would be lost.
BADBMatchesLedger ==
  \A n \in Correct :
    \/ badb[n] = Indexed(height[n])
    \/ height[n] < Len(decisions) /\ badb[n] = Indexed(height[n] + 1)

\* The comment in VerifyProposal: "if it is unchanged here, c.State belongs to
\* the config the requests were verified against".
StateBelongsToConfig ==
  \A n \in Correct :
    TakesPart(n) => InstalledSeq(n) = ConfigSeq(decisions[height[n]])

\* n votes, and not with the last config of its ledger and an open BADB.
Outdated(n) ==
  /\ TakesPart(n)
  /\ installing[n] # {} \/ config[n] # Max(Configs(height[n]))

\* A consenter is outdated only after its synchronizer has pulled a config: not
\* when Deliver brought the config, which "prevents that goroutine from
\* proposing/verifying against the stale config", nor after a crash at any point
\* and a start from either of two configs.
OutdatedOnlyAfterPull == \A n \in Correct : Outdated(n) => n \in pulled

\* The outdated consenters and the faulty ones make up a quorum.
Overrun ==
  LET last == decisions[Len(decisions)].state
  IN Cardinality({n \in Correct \cap last.parties : Outdated(n)}
                   \cup (last.parties \cap Faulty)) >= Quorum(last)

\* The last config that is decided.
LastConfig == Max(Configs(Len(decisions)))

\* The next decision is what the config of decision k and a complete BADB make
\* of its payload.
OrderedUnder(k) ==
  \E reqs \in Payloads :
    /\ ValidPayload(decisions, Members(k), ConfigSeq(decisions[k]), reqs)
    /\ \E parties \in NextParties(decisions, ConfigSeq(decisions[k]), reqs) :
         decisions' = Append(decisions, NewDecision(decisions,
                        ConfigSeq(decisions[k]), DigestsOf(decisions), reqs, parties))

\* A decision is made under the last config and with every digest ordered so
\* far, whoever crashed, lags or votes with an outdated config or a closed BADB,
\* unless those who do make up a quorum with the faulty ones.
OutdatedTakesAQuorum == [][OrderedUnder(LastConfig) \/ Overrun]_decisions

\* Every correct member catches up again and again, hence gets every decision of
\* the bounded chain, however often it crashes, also between the two writes, and
\* whichever configs it has to install on the way: neither Deliver nor the
\* synchronizer waits for ever.
EveryMemberCatchesUp ==
  \A n \in Correct :
    []<>(height[n] = Len(decisions) \/ n \notin Members(Len(decisions)))

\* The assumption under which the consenters implement Ordering: no decision is
\* made while the outdated and the faulty make up a quorum.  VerifyProposal does
\* not ensure it.
SteadySpec ==
  Init /\ [][(~Overrun /\ \E reqs \in Payloads : Decide(reqs)) \/ NodeStep]_vars

\* The consenters together implement Ordering: crashes, restarts, lagging
\* ledgers, and configs that some install late or in the wrong order cannot be
\* told from its decisions.
OneChain == ChainSpec
=============================================================================
