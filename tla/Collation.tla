----------------------------- MODULE Collation -----------------------------
(***************************************************************************)
(* One assembler (node/assembler): the BA replicator pulls decisions from  *)
(* its party's consenter and puts the batch attestations into a channel,   *)
(* from which the collator takes one after the other, waits for the batch  *)
(* and appends the block to the ledger.  A config block makes the node     *)
(* rebuild itself.  A node that is started with a config block above its   *)
(* ledger synchronizes with the other assemblers first.                    *)
(*                                                                         *)
(* Data abstraction.  The ledger accepts block number n at height n only,  *)
(* and panics otherwise, so it is represented by its height, and a batch   *)
(* attestation by the number of its block.  The index that the collator    *)
(* waits on is abstract: a batch arrives some time.                        *)
(***************************************************************************)
EXTENDS Integers, Sequences

CONSTANTS
  Payloads,     \* what a decision may hold: sequences of kinds of blocks
  Capacity,     \* replicateBAChanSize
  MaxDecided,   \* bound: number of decisions, genesis included
  MaxFailures   \* bound: number of crashes, lost connections and timeouts

\* A batch; a batch of a primary that the next config evicts; a config block.
Kinds == {"batch", "leaver", "config"}

ASSUME CollationAssumption ==
  /\ Payloads \subseteq Seq(Kinds)
  /\ Capacity \in Nat \ {0}
  /\ MaxDecided \in Nat /\ MaxFailures \in Nat

VARIABLES
  decided,   \* the number of decisions of the consenters
  blocks,    \* the blocks in them; block number n is blocks[n + 1]
  height,    \* disk: the height of the ledger
  phase,     \* where the node is in its life cycle
  config,    \* lastConfigBlockNumber, or the target of the synchronizer
  fetched,   \* has this synchronization fetched a block beside genesis?
  init,      \* initPosition of the BA replicator
  pull,      \* the stream: is it up, and which decision comes next
  pushing,   \* the blocks of the decision at hand that are not pushed yet
  chan,      \* incomingBAsChan
  taken,     \* the attestation whose batch the collator waits for, {} if none
  failures,  \* counts crashes, lost connections and timeouts
  repulled,  \* history: a stream was opened with attestations in the pipeline
  short      \* history: a synchronization ended below its target

env     == <<decided, blocks>>
stream  == <<init, pull, pushing, chan, taken>>
history == <<repulled, short>>
vars == <<env, height, phase, config, fetched, stream, failures, history>>

Phases == {"down", "syncing", "running", "reconfiguring", "pending"}

Position == [d : Nat, i : Nat]

-----------------------------------------------------------------------------

Kind(n) == blocks[n + 1].kind

\* The config blocks among the first h blocks.
Configs(h) == {n \in 0 .. h - 1 : Kind(n) = "config"}

\* Mutant: the index is not advanced.
NextPosition_SameIndex(h) ==
  LET b == blocks[h]
  IN IF b.i # b.count - 1 THEN [d |-> b.d, i |-> b.i] ELSE [d |-> b.d + 1, i |-> 0]

\* createAssemblerConsensusPosition of the last block.
NextPosition(h) ==
  LET b == blocks[h]
  IN IF b.i # b.count - 1 THEN [d |-> b.d, i |-> b.i + 1]
                          ELSE [d |-> b.d + 1, i |-> 0]

Down ==
  /\ phase' = "down" /\ fetched' = FALSE
  /\ pull' = [up |-> FALSE, next |-> 0]
  /\ pushing' = <<>> /\ chan' = <<>> /\ taken' = {}
  /\ UNCHANGED init

\* initFromConfig: the collator runs on a new channel, from where the ledger ends.
Run(h) ==
  /\ phase' = "running"
  /\ init' = NextPosition(h)
  /\ pull' = [up |-> FALSE, next |-> 0]
  /\ pushing' = <<>> /\ chan' = <<>> /\ taken' = {}

Init ==
  /\ decided = 1
  /\ blocks = <<[d |-> 0, i |-> 0, count |-> 1, kind |-> "config"]>>
  /\ height = 0 /\ phase = "down" /\ config = 0 /\ fetched = FALSE
  /\ init = [d |-> 0, i |-> 0]
  /\ pull = [up |-> FALSE, next |-> 0]
  /\ pushing = <<>> /\ chan = <<>> /\ taken = {}
  /\ failures = 0 /\ repulled = FALSE /\ short = FALSE

\* The consenters decide.
Decide(p) ==
  /\ decided < MaxDecided
  /\ decided' = decided + 1
  /\ blocks' = blocks \o [k \in 1 .. Len(p) |->
                 [d |-> decided, i |-> k - 1, count |-> Len(p), kind |-> p[k]]]
  /\ UNCHANGED <<height, phase, config, fetched, stream, failures, history>>

-----------------------------------------------------------------------------
(* Starting: NewDefaultAssembler, initLedger and the synchronizer          *)

\* The node starts with the last config block of its ledger, or with that in
\* the bootstrap file if it is later.
Start(k) ==
  /\ phase = "down"
  /\ k \in Configs(Len(blocks))
  /\ \A n \in Configs(height) : n <= k
  /\ config' = k
  /\ IF k = 0 /\ height = 0
     THEN height' = 1 /\ Run(1) /\ UNCHANGED fetched
     ELSE IF k >= height
     THEN phase' = "syncing" /\ fetched' = FALSE /\ UNCHANGED <<height, stream>>
     ELSE Run(height) /\ UNCHANGED <<height, fetched>>
  /\ UNCHANGED <<env, failures, history>>

\* Mutant: the target is noticed too late.
SyncBlock_TooLate ==
  /\ phase = "syncing"
  /\ height' = height + 1
  /\ fetched' = (fetched \/ height > 0)
  /\ IF height > config + 1 THEN Run(height') ELSE UNCHANGED <<phase, stream>>
  /\ UNCHANGED <<env, config, failures, history>>

\* The genesis block that f+1 assemblers agree on, or the next block of the
\* stream, is committed; at the target the node starts.
SyncBlock ==
  /\ phase = "syncing"
  /\ height' = height + 1
  /\ fetched' = (fetched \/ height > 0)
  /\ IF height' = config + 1 THEN Run(height') ELSE UNCHANGED <<phase, stream>>
  /\ UNCHANGED <<env, config, failures, history>>

\* The deliverer gives up after ReplicationMaxRetryDuration: Sync returns an
\* error, on which the node panics, only if not a single block was fetched.
SyncTimeout ==
  /\ phase = "syncing" /\ failures < MaxFailures
  /\ failures' = failures + 1
  /\ IF fetched THEN Run(height) /\ short' = TRUE /\ UNCHANGED fetched
                ELSE Down /\ UNCHANGED short
  /\ UNCHANGED <<env, height, config, repulled>>

-----------------------------------------------------------------------------
(* The BA replicator                                                       *)

\* Mutant: the request asks for the decision after the last block's.
Connect_NextDecision ==
  /\ phase = "running" /\ ~pull.up
  /\ pull' = [up |-> TRUE, next |-> blocks[height].d + 1]
  /\ repulled' = (repulled \/ chan # <<>> \/ taken # {})
  /\ UNCHANGED <<env, height, phase, config, fetched, init, pushing, chan, taken,
                 failures, short>>

\* Pull, requestEnvelopeFactoryFunc: a new stream starts where the ledger ends
\* now, whatever is still in the channel.
Connect ==
  /\ phase = "running" /\ ~pull.up
  /\ pull' = [up |-> TRUE, next |-> NextPosition(height).d]
  /\ repulled' = (repulled \/ chan # <<>> \/ taken # {})
  /\ UNCHANGED <<env, height, phase, config, fetched, init, pushing, chan, taken,
                 failures, short>>

\* Mutant: the newest decision is not delivered.
Receive_NotTheLast ==
  /\ phase = "running" /\ pull.up /\ pushing = <<>>
  /\ pull.next < decided - 1
  /\ pull' = [pull EXCEPT !.next = @ + 1]
  /\ pushing' = SelectSeq([k \in 1 .. Len(blocks) |-> k - 1],
                          LAMBDA n : blocks[n + 1].d = pull.next)
  /\ UNCHANGED <<env, height, phase, config, fetched, init, chan, taken, failures,
                 history>>

\* pullBlocks: the next decision arrives.
Receive ==
  /\ phase = "running" /\ pull.up /\ pushing = <<>>
  /\ pull.next < decided
  /\ pull' = [pull EXCEPT !.next = @ + 1]
  /\ pushing' = SelectSeq([k \in 1 .. Len(blocks) |-> k - 1],
                          LAMBDA n : blocks[n + 1].d = pull.next)
  /\ UNCHANGED <<env, height, phase, config, fetched, init, chan, taken, failures,
                 history>>

\* Was committed before the replicator was created.
Skipped(n) == blocks[n + 1].d = init.d /\ blocks[n + 1].i < init.i

\* blockHandlerFunc, for one batch attestation.
Push ==
  /\ phase = "running" /\ pushing # <<>>
  /\ LET n == Head(pushing)
     IN \/ Skipped(n) /\ UNCHANGED chan
        \/ ~Skipped(n) /\ Len(chan) < Capacity /\ chan' = Append(chan, n)
  /\ pushing' = Tail(pushing)
  /\ UNCHANGED <<env, height, phase, config, fetched, init, pull, taken, failures,
                 history>>

\* Recv fails.
Disconnect ==
  /\ phase = "running" /\ pull.up /\ pushing = <<>>
  /\ failures < MaxFailures
  /\ failures' = failures + 1
  /\ pull' = [up |-> FALSE, next |-> 0]
  /\ UNCHANGED <<env, height, phase, config, fetched, init, pushing, chan, taken,
                 history>>

-----------------------------------------------------------------------------
(* The collator: processOrderedBatchAttestations                           *)

\* AppendConfig; a config above the one in force makes the collator return, and
\* what the replicator still puts into the channel is never read.
TakeConfig(n) ==
  /\ Kind(n) = "config" /\ n = height
  /\ height' = height + 1
  /\ chan' = Tail(chan)
  /\ phase' = IF n > config THEN "reconfiguring" ELSE phase
  /\ UNCHANGED <<fetched, init, pull, pushing, taken>>

\* The batch of a primary outside the config belongs to no partition of the
\* index.
Unknown(n) == Kind(n) = "leaver" /\ config > n

\* PopOrWait is called.
TakeBatch(n) ==
  /\ Kind(n) # "config" /\ ~Unknown(n)
  /\ taken' = {n}
  /\ chan' = Tail(chan)
  /\ UNCHANGED <<height, phase, fetched, init, pull, pushing>>

\* The node panics: the block does not continue the ledger, or its partition
\* does not exist.
TakePanics(n) ==
  /\ IF Kind(n) = "config" THEN n # height ELSE Unknown(n)
  /\ Down /\ UNCHANGED height

Take ==
  /\ phase = "running" /\ chan # <<>> /\ taken = {}
  /\ LET n == Head(chan) IN TakeConfig(n) \/ TakeBatch(n) \/ TakePanics(n)
  /\ UNCHANGED <<env, config, failures, history>>

\* PopOrWait returns the batch, and the block is appended.
Collate ==
  /\ phase = "running"
  /\ \E n \in taken :
       IF n = height
       THEN /\ height' = height + 1 /\ taken' = {}
            /\ UNCHANGED <<phase, fetched, init, pull, pushing, chan>>
       ELSE Down /\ UNCHANGED height
  /\ UNCHANGED <<env, config, failures, history>>

-----------------------------------------------------------------------------
(* ProcessNewConfigBlock, and failures                                     *)

\* Mutant: lastConfigBlockNumber is not updated.
Reconfigure_OldNumber ==
  /\ phase = "reconfiguring"
  /\ Run(height)
  /\ UNCHANGED <<env, height, config, fetched, failures, history>>

\* SoftStop, then initFromConfig.
Reconfigure ==
  /\ phase = "reconfiguring"
  /\ config' = height - 1
  /\ Run(height)
  /\ UNCHANGED <<env, height, fetched, failures, history>>

\* The config cannot be applied without an administrator.
PendingAdmin ==
  /\ phase = "reconfiguring"
  /\ phase' = "pending"
  /\ UNCHANGED <<env, height, config, fetched, stream, failures, history>>

\* The node fails, or is stopped.
Crash ==
  /\ phase # "down" /\ failures < MaxFailures
  /\ failures' = failures + 1
  /\ Down
  /\ UNCHANGED <<env, height, config, history>>

Next ==
  \/ \E p \in Payloads : Decide(p)
  \/ \E k \in Configs(Len(blocks)) : Start(k)
  \/ SyncBlock \/ SyncTimeout
  \/ Connect \/ Receive \/ Push \/ Disconnect
  \/ Take \/ Collate
  \/ Reconfigure \/ PendingAdmin \/ Crash

Spec == Init /\ [][Next]_vars

\* The node is restarted when it is down, and its threads go on.
Fairness ==
  /\ WF_vars(\E k \in Configs(Len(blocks)) : Start(k)) /\ WF_vars(SyncBlock)
  /\ WF_vars(Connect) /\ WF_vars(Receive) /\ WF_vars(Push)
  /\ WF_vars(Take) /\ WF_vars(Collate)
  /\ WF_vars(Reconfigure \/ PendingAdmin)

FairSpec == Spec /\ Fairness

-----------------------------------------------------------------------------
(* Properties                                                              *)

Block == [d : Nat, i : Nat, count : Nat, kind : Kinds]

TypeOK ==
  /\ decided \in Nat /\ blocks \in Seq(Block)
  /\ height \in 0 .. Len(blocks)
  /\ phase \in Phases
  /\ config \in 0 .. Len(blocks) - 1 /\ fetched \in BOOLEAN
  /\ init \in Position
  /\ pull \in [up : BOOLEAN, next : Nat]
  /\ pushing \in Seq(0 .. Len(blocks) - 1)
  /\ chan \in Seq(0 .. Len(blocks) - 1) /\ Len(chan) <= Capacity
  /\ taken \subseteq 0 .. Len(blocks) - 1
  /\ failures \in Nat /\ repulled \in BOOLEAN /\ short \in BOOLEAN

\* The collator never has a batch attestation ahead of the ledger, however the
\* node stopped in the middle of a decision, reconnected or changed its config:
\* no block is left out (createAssemblerConsensusPosition, Replicate).
NothingLeftOut == \A n \in taken : n <= height

\* A node panics only for one of two reasons: a stream was opened while earlier
\* attestations were on their way to the ledger, or the node started with a
\* config above its ledger.
PanicsForAReason ==
  [][phase = "running" /\ phase' = "down" /\ failures' = failures
       => repulled \/ short]_vars

\* A batch is never collated under a config older than the last one in the
\* ledger (processOrderedBatchAttestations returns, ReadConfig).
ConfigNeverBehind ==
  phase = "running" => \A n \in Configs(height) : n <= config

\* Every block that is ordered is committed some time, across crashes, lost
\* connections, panics and configs, unless the node waits for an administrator.
EveryBlockCommitted ==
  \A h \in 1 .. MaxDecided : Len(blocks) >= h ~> (height >= h \/ phase = "pending")

\* The comment in Replicate: "This skips those batches from a decision that were
\* already committed."
CommittedAreSkipped == \A n \in taken : n >= height
=============================================================================
