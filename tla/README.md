# A verification of the Fabric-X Orderer (Arma) in TLA+

This directory holds TLA+ models of the ordering service in `../src`, the TLC
configurations that check them on small instances, and TLAPS proofs of what
matters most for every value of the constants. `PROJECT.json` is the index: which
definition models which lines, what each run checks, which mutation of the code
each property catches, which hazards of the code were considered.

Contents: [the system](#the-system) · [the modules](#the-modules) ·
[how the state and actions correspond to the code](#state-and-actions) ·
[runs](#runs) · [bounds](#bounds) · [fairness](#fairness) · [proofs](#proofs) ·
[where code and text disagree](#where-the-code-and-its-text-disagree) ·
[what is only model-checked](#what-is-only-model-checked) ·
[what is not modelled](#what-is-not-modelled) · [plan](#plan) ·
[how to run it](#how-to-run-it)

## The system

Every party runs one router, one assembler, one consenter, and one batcher per
shard. A transaction takes this way:

```
client -> router -> batcher (primary of a shard) -> batches -> secondaries
                        |                                         |
                        +--- batch attestation fragments (BAFs) --+
                                          |
                                      consenters  (SmartBFT over control events)
                                          |
                     decisions: state + batch attestations (BAs)
                        |                                     |
                     batchers (terms, pending BAFs)       assemblers (+ batches)
                                                              |
                                                           blocks
```

### Parts, their state, their operations

| part | code | state | operations that change it |
|---|---|---|---|
| consenter state machine | `node/consensus/state`, `consenter.go` | parties, term per shard, pending BAFs, complaints, stale BAFs, assembler heights, durable watermark | `Process` and its rules, `SimulateStateTransition`, `ApplyConfigToState` |
| consenter node | `node/consensus/consensus.go` | ledger, BADB, `c.State`, config, verification sequence | `AssembleProposal`, `VerifyProposal`, `Deliver`, `UpdateStateAndRuntimeConfig`, config installation, start, stop |
| BADB | `node/consensus/badb` | digests of ordered batches | `Put`, `Exists` |
| consenter synchronizer | `node/consensus/synchronizer` | the ledger, the sync buffer | fetch, index, write, commit |
| batcher role | `node/batcher/batcher_role.go` | term, primary, sequence | `run`, `runPrimary`, `runSecondary`, `getTermAndNotifyChange`, `ResubmitPendingBAFs`, `SoftStop` |
| batcher node | `node/batcher/batcher.go`, `batcher_builder.go` | term, primary, config, WAL, config store | `replicateDecision`, reviving BAFs, reconfiguration, start |
| acker | `node/batcher/acker.go` | confirmed sequence, acks | `HandleAck`, `WaitForSecondaries` |
| request pool | `request` | batch store or pending store, tombstones | `Submit`, `NextRequests`, `RemoveRequests`, `Restart`, `Halt` |
| BA replicator | `node/delivery` | start position, stream | connect, pull, skip, push |
| assembler | `node/assembler` | ledger, channel, config | `processOrderedBatchAttestations`, start, reconfiguration |
| assembler synchronizer | `node/assembler/synchronizer` | the ledger | genesis, fetch up to the target, give up |
| prefetch index | `node/assembler` | cache per partition, eviction heap, waiting pops | `Put`, `PutForce`, `PopOrWait`, expiry, stop |
| router | `node/router` | streams to batchers, pending requests | submit, forward, reply, renew, soft stop |
| config acks | `common/configack` | who has acked which config | wait, ack, timeout |
| BFT block deliverer | `common/deliverclient` | source, censorship monitor | receive, suspect, change source |
| ledgers | `common/ledger`, `node/ledger` | block files | append, read |

### How they interact, and what makes that hard

* Consenters agree on a *payload*; each recomputes the decision from its own
  state, BADB and config. These have to be equal at all of them, also while one
  lags, has just restarted, or has not installed the last config.
* The BADB and the ledger are two writes. A crash may come between them.
* A config is decided at one point of the chain and installed at other times at
  every node. BAFs, complaints and reports of the config before are still on their
  way.
* A batcher is three threads with two channels of capacity 1, a pool that changes
  its store when the role changes, and goroutines that outlive the batch for
  which they were started. Decisions are pulled again after a lost connection.
* Acks of secondaries are repeated, reordered and lost.
* An assembler has a pipeline (stream, channel, collator, ledger), and each stage
  is at another position when the node stops, reconnects or changes its config.

### What correctness means here

No batch is ordered twice; only what f+1 members attested is ordered (unless one
payload repeats a fragment, see [below](#where-the-code-and-its-text-disagree));
what they attested is not forgotten. A shard leaves a term only for a reason, and
leaves it when there is one. All consenters are on one chain, as long as those
with an outdated config make up no quorum. What a batcher attests it has and keeps. A request is not lost while the node stays up. Every ordered block is
committed by every assembler once, in order. Nobody waits for ever.

`PROJECT.json` lists 38 hazards, each at the line where it bites, with the
properties that would catch it, or the reason why none does yet.

## The modules

| module | what it is |
|---|---|
| `ArmaState` | pure operators: the state machine that every decision runs |
| `Decisions` | pure operators: how a decision is assembled and verified on top of a chain |
| `Ordering` | **abstract specification**: one chain, no nodes. What the consenters promise together |
| `Consensus` | the consenters, each with ledger, BADB and config. **Implements `Ordering`**, if the outdated ones are never a quorum |
| `Acker` | primary and secondaries of a shard: flow control |
| `Batcher` | one batcher: three threads, pool, disk, reconfiguration, crash |
| `Collation` | one assembler: replicator, channel, collator, ledger, synchronizer |
| `MC*` | instances for TLC |
| `*Proofs` | theorems about the module whose name they carry |

`Ordering` extends `Decisions`, which extends `ArmaState`. `Consensus` extends
`Ordering` and has its variable `decisions`, so the refinement mapping is the
identity on it: `OneChain == ChainSpec`. The consenters appear in `Batcher` and
`Collation` as an environment that does what `ArmaState` allows: `Order` in
`Batcher` keeps and drops pending and stale fragments as `Process` does, and
`Decide` in `Collation` appends decisions of any number of blocks.

## State and actions

**`ArmaState`.** A control event is a record, a state is a record; one operator
per rule, composed by `Rules` and `Process` in the order of `State.Process`. The
slices `Pending` and `Complaints` are sets. The code deduplicates complaints, and
fragments against those that were pending before the round, but not within it: a
fragment has a field `copy`, which tells the entries of a repeated fragment
apart, and `Attested` counts entries as `ExtractBatchAttestationsFromPending` does.
The order of pending fragments only decides the order of blocks within a
decision, and is left out. `AppContext` is a function of the state and the
payload, and is left out with header hashes and transaction counts.

**`Ordering`.** `Order(reqs)` is a decision as everyone sees it. Its properties
speak about `decisions[i].reqs`, that is about what parties really sent, and never
about the bookkeeping (`pending`, `complaints`) that the state machine
uses to get there. So they are not restatements of the rules.

**`Consensus`.** The ledger of a node is a prefix of `decisions` and is
represented by its height. `c.State` is the state in the last block of the ledger.
`config[n]` is the decision whose config `n` has installed, `installing[n]` the
decisions for whose config a goroutine is under way. `pulled` is a history
variable.

| action | code |
|---|---|
| `Decide` | SmartBFT's agreement as one step (`View.processCommits`): a quorum commits, in which every correct member passed `VerifyProposal` |
| `Deliver` | `Consensus.Deliver`: index, append, update the state, wait for the config |
| `SyncBlock` | one turn of `getBlocksFromSyncBuffer`: the same, but it does not wait |
| `CrashAfterIndex` | a crash between the BADB write and the append |
| `InstallConfig` | the end of one `processNewConfigBlock`: its config is installed, whichever is installed already, or the node parks |
| `Start` | from the last config in the ledger, or from a later one in a bootstrap file |

A node may vote while a config that its synchronizer pulled is being installed:
the code has no lock against it. It then verifies with the state of the new
config and the sequence of the old one (run `window`), and with a BADB that
`SoftStop` may have closed, in which `Exists` finds nothing (`Lookups`). Two
configs may be installed in either order, and the older one may stay. A node that
votes like this is `Outdated`. Two statements need no assumption:

* `OutdatedOnlyAfterPull`: neither `Deliver`, which waits, nor a crash and a start
  from any config makes a node outdated, only the synchronizer does;
* `OutdatedTakesAQuorum`: a decision is made under the last config and with a
  complete BADB, unless the outdated and the faulty make up a quorum (`Overrun`).

That they never do while a decision is made is `SteadySpec`, the hypothesis of
`OneChain`. It is an assumption and not a guarantee of the code: if enough members
pull a config at the same time, `VerifyProposal` does not keep them from deciding
together.

The model allows more than the code in two respects. `SoftStop` turns new
SmartBFT messages away, so an outdated node votes only on those that it has; the
model lets it vote throughout. And it looks up each payload in the open or the
closed BADB, at will.

**`Acker`.** A secondary stores a batch (`Store`) and acks it in a later step
(`Ack`), or never (`GiveUp`): `SendAck` gives up after its timeout, or the role
leaves the term, or stops, between the append and the ack. `sent` is a set out of
which an ack may be received at any time and any number of times, until it is lost
with its connection (`Lose`). Nothing sends an ack again. Sequences are unsigned
(`Minus` wraps at `Modulus`). `delivered` and `lost` are history variables.

**`Batcher`.** One variable per thread (`repl`, `notify`, `role`), with a `pc` for
the places where the thread blocks; `stateChan` and `termChan` have capacity 1.

| action | code |
|---|---|
| `Pull`, `Put`, `Reconnect` | `replicateDecision` and the decision replicator |
| `Receive`, `Notify`, `ResubmitPendingBAFs`, `NotifierStops` | `getTermAndNotifyChange` |
| `Begin`, `Cut`, `PullBatch`, `Sent`, `TermChanges`, `RoleStops` | `run`, `runPrimary`, `runSecondary` |
| `Reach`, `Cancel` | the goroutine of `SendBAF` |
| `Verify`, `Submit` | a handler: it verifies a request and later submits it, to whichever pool the node then has |
| `SoftStop`, `PendingAdmin`, `Reconfigure`, `Crash` | life cycle |
| `Expire` | tombstones of the pending store |
| `Order` | the consenters (environment) |

A batch is one request. The pool is a record: which store is in use, what it
holds, what is fetched and not yet removed, which ids are tombstones.

**`Collation`.** The ledger accepts block `n` at height `n` and panics otherwise,
so it is its height. `init` is the position at which the replicator was created,
`pull` the stream, `pushing`, `chan` and `taken` are the stages of the pipeline.
A panic takes the node down, as it does in the code. A block is a batch, a batch of
a primary that a later config evicts ("leaver"), or a config. `repulled` and
`short` are history variables: they name the two causes of a panic.

## Runs

Seven passing runs and five that refute a claim. `PROJECT.json` has the mutant
for every property of a passing run: a plausible slip in the modelled code that
makes the property fail under the same configuration.

| run | module, instance | states | what it shows |
|---|---|---|---|
| `ordering` | `MCOrdering` | 131k | what is ordered, when a shard rotates, when the watermark rises: no double order, only attested, none forgotten; at most one rotation per decision, never unjustified, never missed; the watermark only rises, on 2f+1 reports |
| `membership` | `MCConsensus` | 70k | `SteadySpec`: a party joins with an empty ledger and a second config follows; every node installs configs at its own time and in any order, crashes, and votes meanwhile: the chain is that of `Ordering` |
| `recovery` | `MCConsensus` | 48k | three correct consenters and a faulty one with crashes everywhere and no assumption on timing: the BADB matches the ledger up to one decision, only pulled configs make a node outdated, only a quorum of them changes a decision, everyone catches up |
| `acks` | `MCAcker` | 154k | what is confirmed is held by f+1 less the faulty, the window is kept, the unsigned subtraction never wraps, the primary never waits for what it was given, and it goes on unless too many acks for one batch were lost |
| `terms` | `MCBatcher` | 202k | two term changes and a failure: a request leaves the pool only into a stored batch, the role ends up with the primary of the last decision |
| `config` | `MCBatcher` | 1.3M | a term change, a config that invalidates a request, a crash: attested batches stay stored, appends are in order, old fragments do not bring the request back |
| `collation` | `MCCollation` | 150k | no block is left out, no batch is collated under an old config, panics have one of two causes, every ordered block is committed |
| `equivocation`, `window`, `term`, `softstop`, `reconnect` | | | see [below](#where-the-code-and-its-text-disagree) |

Deadlock is not checked: the environment of each instance is bounded, and when no
more decisions, requests or failures come the system is rightly idle. That
nobody gets stuck before is what the liveness properties say.

## Bounds

Every bound is a constant and occurs in a guard.

* `MaxDecisions`, `MaxDecided`: length of the chain with genesis. 4 leaves three
  rounds: a fragment or complaint in the first, the one that completes the
  threshold in the second, and its repetition after the fact in the third; or two
  configs and a batch in any order. 3 in `recovery` leaves two: a config and
  another, or a config and a batch before or after it.
* Four parties are the smallest number with f = 1 (`ordering`, `recovery`). With
  two or three, f = 0 and every quorum needs two members: in `membership` one
  outdated node of two or three is not a quorum, so all of them take turns at being
  outdated.
* `MaxFragments` = 3 in a payload of fragments: two that complete a threshold and
  one that contradicts or repeats. `MaxRequests` = 2 in any other payload: two that
  complete a threshold, or one together with a config or a proof of equivocation. The events of `MCOrdering` share a digest between
  two batches, have two digests for one batch, complain about two terms, and
  report before and after a party leaves. `OneConcern` keeps attestations,
  rotations and reports in separate chains; they touch different fields of the
  state (an equivocation, which is made of fragments and changes terms, is among
  the rotations).
* `Gap` = 2, `MaxSeq` = 4, `First` = 1 in `acks`: more than a window, and a term
  that does not start at sequence 0. `Threshold` = 3 is that of a shard of seven,
  three of which store nothing: a confirmation with the faulty ack still takes two
  correct ones, so the primary's own does not do. `Behind` says which secondaries
  may start behind, one. `Modulus` only has to be out of reach.
* `terms`: N = 2 parties, so that three terms make the node primary, secondary and
  primary again; one request, one batch per ledger, one failure. `config`: one
  config, one term change, one batch per ledger, one failure, and a fourth decision
  for what the config left behind.
* `term` and `RoleTermNeverGoesBack` take N = 4 and no requests, since they are
  about terms alone.
* `Capacity` = 2 with decisions of up to two blocks: the channel is full, and is
  empty, with a decision half pushed. Two failures let one hit the recovery from
  another.

## Fairness

* `Consensus`: strong fairness for `Deliver \/ SyncBlock` of a node that is up
  again and again: SmartBFT and the synchronizer retry as long as the node runs,
  and a node that crashes for ever at the same point is excluded. Weak fairness for
  `InstallConfig`, which is a goroutine, and `Start`, since an operator or
  a supervisor restarts nodes. None for crashes, nor for `Decide`.
* `Acker`: weak fairness for the primary's loop and the pull loops of the
  secondaries, whose `SendAck` returns, successfully or not, and that an ack which
  was sent arrives or is lost. No ack has to arrive, and nothing is assumed about
  faulty ones; `PrimaryGoesOn` therefore says which acks must be missing for the
  primary to stop.
* `Batcher`: weak fairness per thread (Go schedules a runnable goroutine), and
  `SendBAF` returns, because it is cancelled or reaches a consenter. None for
  clients, decisions, expiry and failures.
* `Collation`: weak fairness for the threads, the stream and the restart. That
  `Collate` is fair says that a batch arrives some time; it rests on the prefetcher
  and the batch fetcher, which are not modelled yet.

## Proofs

TLAPS checks six modules (2,954 obligations). All results are for any number of
parties, shards, requests, terms and decisions. The assumptions are the
`ASSUME`s of the modules, which TLC evaluates in the runs.

**`ArmaStateProofs`, `DecisionsProofs`** hold lemmas: a state stays a state under
every rule; what is pending afterwards was pending or sent; a term is raised by at
most one, because `RotateDueToComplaints` only counts complaints about the term
that `DetectEquivocation` left, and those were dropped on arrival.

**`OrderingProofs`**

* `TypeCorrect`.
* `OrderedOnce`: no batch is ordered twice. The property is not inductive. What is
  missing is `PendingNotOrdered`: no *batch* that was ordered has a fragment
  pending. It speaks of batches and not of digests: two batches may share a
  digest, and one may be pending while the other is ordered.
* `RotatedOnce`: a decision rotates a shard at most once, and never backwards.
* `OrderedOnlyIfAttested`: threshold members sent a fragment for the batch, for
  the config under which it is ordered, or one payload held one of its fragments
  twice. Inductive with `PendingFromMembers`, what is pending was sent for the
  config of the last decision by a member, except right after a config decision,
  whose next step drops it; and with `PendingTwice`, two pending entries of one
  fragment come from one payload. So entries are signers unless a payload repeats
  a fragment.

**`ConsensusProofs`**

* `InvHolds`: the inductive invariant `ConsensusInv`, without assumptions on
  timing. Besides types it says that the BADB of a node holds the digests of its
  ledger or of one decision more, that between two configs neither members nor
  sequence change, that what a node has installed or is installing was decided
  (`ConfigsAreDecided`), that a running node has installed every config in its
  ledger unless it pulled one (`InstalledUnlessPulled`), and that a node which is
  down has no goroutines (`DownIsClean`).
* `BADBNeverLags`, `OnlyPullsOutdate`: the two run properties that follow.
* `OutdatedNeedQuorum`: a decision outside an overrun is made under the last config
  with all digests. The heart is `UpToDate`: a correct voter that is not outdated
  has exactly the chain's BADB and config. Without an overrun every quorum holds
  one, and so the others voted for what it computed.
* `ImplementsOrdering`: every step of `SteadySpec` is a step of `Ordering` or a
  stutter. `ConsentersOrderOnce`: so the consenters never order a batch twice, under
  the same hypothesis. The hypothesis is about behaviours that the code allows, and
  is not discharged; see [above](#state-and-actions).

**`AckerProofs`**: `Held`, `GapKept`, `NeverStalled`. `Held` counts correct batchers
only: of f+1 that acked, at most the faulty ones lied. The inductive invariant adds
that acks of correct batchers are true, that none which still matters was dropped,
and that the oldest sequence may have f+1 acks without being confirmed, but not
when the primary has to wait. The last one explains why it is enough that
`HandleAck` confirms at most one sequence per ack.

**`BatcherProofs`**: `IInvHolds`, `Attested`, `InOrder`, `RevivedAreValid`. The
inductive invariant adds that decisions carry only fragments that were sent, and
that no fragment is of a config the node does not have yet.

## Where the code and its text disagree

Each of these is a property that states what a document or comment says, and a
run in which TLC finds a behaviour of the modelled code that violates it.

| run | claim | what happens |
|---|---|---|
| `equivocation` | `docs/consensus.md`: "conflicting digests for one batch → rotate that primary" | the conflicting fragments stay pending, so every later decision rotates the shard again, away from primaries that did not equivocate |
| `window` | comment in `VerifyProposal`: if the sequence is unchanged, "`c.State` belongs to the config the requests were verified against" | on the synchronizer's path the state changes before the sequence does |
| `term` | `docs/batcher.md`: batchers complain in the term of the latest decision | a node restarted in a term k·N keeps term 0, because the term is only updated when the primary changes; the consenters drop its complaints |
| `softstop` | comment on `SoftStop`: it stops the role | `getTermAndNotifyChange` may be blocked on `termChan`, which nobody reads, and `SoftStop` waits for it |
| `reconnect` | comment in `Replicate`: committed batches are skipped | what is pulled again after a lost connection is compared with the position at start-up; a batch that was in the channel reaches the collator twice and the ledger panics |

Five more claims about the batcher are stated in `Batcher` and have a
configuration each, to be run by hand (`tlc -config MCBatcher_<name>.cfg
MCBatcher`). TLC refutes each of them:

| configuration | property | claim, and what happens |
|---|---|---|
| `replay` | `RoleTermNeverGoesBack` | `docs/batcher.md`: the puller "hands the latest state to the batcher role". The decision replicator repeats its first request on every connection, so after a lost one the role goes through old terms again |
| `revive` | `RevivedAfterTermChange` | comment on `ResubmitPendingBAFs`. The resubmission does not wait for the pool's restart; the ids of the batch being attested are still known to the batch store, which rejects them and is then replaced |
| `stale` | `RevivedAfterConfig` | `docs/batcher.md`: the batcher "returns the batch's requests to its mempool". The same, after a soft stop in the middle of an attestation |
| `unsent` | `RemovedOnceBAFReached` | comment in `runPrimary`: "Once the BAF reached the consenters it is considered safe to remove the requests". `SendBAF` also returns when it is cancelled |
| `pooled` | `PooledIsValid` | comment in `VerifyBatchedRequests`: a pooled request "remains valid under the current config". A handler may verify before a reconfiguration and submit after it |

`revive`, `stale` and `unsent` end with a request missing from one pool, until a
client or another party submits it again; no batch is ordered wrongly. `pooled`
lets a request into a batch that the config in force would reject. The passing properties say what does hold: `LeavesOnlyIntoALedger`,
`OldConfigRevivesOnlyValid`, `FollowsTheTerm`.

`docs/consensus.md` says that a batch becomes a batch attestation "once
`threshold` distinct signers attest the same digest". The code counts the entries of
`Pending`, and deduplicates fragments against earlier rounds only; the comment in
`CollectAndDeduplicateEvents` leaves repetitions within a round to the leader's
request pool. `Ordering` has no such pool: `OnlyAttestedBatchesOrdered` says what
holds for any payload, and names the repetition as the exception (`SentTwice`).

`docs/assembler.md` also says that the assembler starts normally once the target
height is reached. `getBlocksFromSyncBuffer` returns no error if it got at least
one block, so the node may start below its target, with a config above its ledger.
`Collation` models this (`SyncTimeout`), and `PanicsForAReason` names it as one
of the two causes of a panic.

## What is only model-checked

* Liveness (`EveryMemberCatchesUp`, `PrimaryGoesOn`, `FollowsTheTerm`,
  `EveryBlockCommitted`): temporal reasoning under fairness and `ENABLED` are out
  of the prover's reach.
* `AttestedBatchIsOrdered`, `RotationIsJustified`, `EnoughComplaintsRotate`,
  `WatermarkIsDurable`, `LeavesOnlyIntoALedger` and the invariants of `Collation`:
  within reach, see the plan.
* Induction over data and `RECURSIVE` operators are out of reach too. No module
  uses recursion.

## What is not modelled

* The phases of SmartBFT (vendored): agreement is one step. View changes and
  leader election show up only as the nondeterminism of who proposes what.
* Router, config acks, prefetch index and batch fetching, the serving side of the
  deliver services, BFT block deliverer, the fine steps inside the pool: see the
  plan.
* Signatures, TLS, gRPC plumbing, encodings, block files, metrics, command-line
  tools: no state of the protocol, or I/O that the models take to be atomic.
* Contents of a config beside its sequence and its parties. A transition adds or
  removes one party.
* A faulty consenter may vote for anything but not forge signatures; a faulty
  batcher may ack or attest anything in its own name.

## Plan

Done, in this order: the state machine and the chain; the consenters over it; flow
control; the batcher; the assembler. Next:

1. `PartitionIndex`: the assembler's cache with its eviction heap, forced puts,
   `PopOrWait` and stop. No lost wake-up, cache and heap in step, a pop is
   eventually answered. It discharges the fairness of `Collate`.
2. `ConfigAck` and the admission of config requests: nobody applies a config that
   its party's consenter has not seen acked; the barrier ends.
3. `RouterStream`: each request gets exactly one answer across stream failures,
   renewals and soft stops; the config submitter.
4. `Pool`: the two stores with their locks, permits and strikes, as a refinement
   of the record in `Batcher`.
5. Synchronizers and `SyncBuffer`: target height, genesis by f+1, the buffer
   between deliverer and writer; the BFT deliverer with its censorship monitor.
6. Delivery: serving side and replicators; the ledgers.
7. Proofs: `CollationProofs` (`NothingLeftOut`, `ConfigNeverBehind`,
   `PanicsForAReason`), then `WatermarkIsDurable`, `RotationIsJustified`,
   `EnoughComplaintsRotate`, `AttestedBatchIsOrdered`.
8. Timing of `SoftStop` and SmartBFT's message queues, to find out for how long a
   consenter stays outdated, and whether a quorum of them can be.

## How to run it

```
tlc -workers 2 -config MCOrdering_ordering.cfg MCOrdering     # any run: cfg, then module
tlapm OrderingProofs.tla                                      # any *Proofs module
```
