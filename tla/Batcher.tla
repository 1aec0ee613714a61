------------------------------ MODULE Batcher ------------------------------
(***************************************************************************)
(* One batcher node (node/batcher/batcher.go, batcher_builder.go,          *)
(* batcher_role.go) with its three threads: replicateDecision pulls the    *)
(* decisions of the consenters, getTermAndNotifyChange turns them into     *)
(* term changes, and run acts as primary or secondary.  They are coupled   *)
(* by two channels of capacity 1 and share the memory pool (request/).     *)
(* A config decision soft-stops and rebuilds the node; a crash loses       *)
(* everything but the batch ledgers, the WAL and the config store.         *)
(*                                                                         *)
(* The rest of the system is the environment: the consenters, which order  *)
(* the fragments that reach them as in ArmaState, the clients, and the     *)
(* other batchers, from whom any batch may be pulled.                      *)
(*                                                                         *)
(* Data abstraction.  A batch is one request.  Verification, signatures,   *)
(* strikes and the pace of the Acker are left out: they only decide        *)
(* whether a step that is modelled here is taken.  A decision is           *)
(* represented by its index in the chain.                                  *)
(***************************************************************************)
EXTENDS Integers, Sequences, FiniteSets

CONSTANTS
  N,             \* number of parties; the batchers of the shard are 1 .. N
  Shard,         \* the shard
  Me,            \* this batcher
  Requests,      \* requests
  Invalid,       \* the requests that are valid under the first config only
  MaxDecisions,  \* bound: length of the chain, the genesis decision included
  MaxTerm,       \* bound: the last term
  MaxConfigs,    \* bound: number of config decisions
  MaxHeight,     \* bound: height of each batch ledger
  MaxFailures    \* bound: number of crashes and of lost connections

ASSUME BatcherAssumption ==
  /\ N \in Nat \ {0} /\ Shard \in Nat /\ Me \in 1 .. N
  /\ Invalid \subseteq Requests
  /\ MaxDecisions \in Nat /\ MaxTerm \in Nat /\ MaxConfigs \in Nat
  /\ MaxHeight \in Nat /\ MaxFailures \in Nat

VARIABLES
  chain,        \* the decisions, as far as they concern this shard and batcher
  arriving,     \* fragments that reached the consenters and await a decision
  bafs,         \* history: the fragments that reached the consenters
  sends,        \* fragments that a SendBAF goroutine is still sending
  ledger,       \* disk: ledger[p] holds the batches of primary p
  wal,          \* disk: the last decision that was logged, 0 if none
  configStore,  \* disk: the decision of the last config block
  config,       \* the decision of the config in force
  repl,         \* the thread replicateDecision
  stateChan,    \* Batcher.stateChan: decisions
  node,         \* Batcher.term and Batcher.primaryID
  roleTerm,     \* BatcherRole.term
  termChan,     \* BatcherRole.termChan
  notify,       \* the thread getTermAndNotifyChange
  role,         \* the thread run
  pool,         \* the memory pool
  checked,      \* requests that a handler has verified and not submitted yet
  stop,         \* progress of a soft stop
  failures      \* counts crashes and lost connections

consenters == <<chain, arriving, bafs>>
disk       == <<ledger, wal, configStore>>
threads    == <<repl, notify, role>>
vars == <<consenters, disk, config, threads, stateChan, node, roleTerm, termChan,
          pool, checked, sends, stop, failures>>

Parties == 1 .. N

BAF == [primary : Parties, seq : Nat, configSeq : Nat, req : Requests]

Decision == [term : Nat, pending : SUBSET BAF, stale : SUBSET BAF, config : BOOLEAN]

\* BatcherRole.getPrimaryID and Batcher.getPrimaryIDAndTerm
PrimaryOf(t) == ((Shard + t) % N) + 1

\* The config sequence after decision i.
ConfigSeq(i) == Cardinality({k \in 1 .. i : chain[k].config})

Height(p) == Len(ledger[p])

\* VerifyRequest under the config in force.
Valid(r) == r \in Invalid => ConfigSeq(config) = 0

\* The batch being attested, from Append to the end of SendBAF.
CurrentBAF ==
  [primary |-> role.primary, seq |-> role.seq, configSeq |-> ConfigSeq(config),
   req |-> ledger[role.primary][role.seq + 1]]

-----------------------------------------------------------------------------
(* The memory pool.  A request is held (in the batch store or the pending  *)
(* store); fetched (part of the batch that the primary is attesting, no    *)
(* longer in the batch store but still known by its id); or its id is a    *)
(* tombstone of the pending store.                                         *)

EmptyPool == [batching |-> FALSE, halted |-> FALSE,
              held |-> {}, fetched |-> {}, tombs |-> {}]

\* Pool.Submit
PoolSubmit(p, reqs) ==
  IF p.halted THEN p
  ELSE [p EXCEPT !.held = @ \cup (reqs \ (p.fetched \cup p.tombs))]

\* Pool.RemoveRequests: the pending store remembers an id that it did not hold.
PoolRemove(p, r) ==
  [p EXCEPT !.held    = @ \ {r},
            !.fetched = @ \ {r},
            !.tombs   = IF p.batching \/ r \in p.held THEN @ \ {r} ELSE @ \cup {r}]

\* Mutant: the requests are not moved when the role changes.
PoolRestart_Drop(p, batching) ==
  [p EXCEPT !.batching = batching,
            !.halted   = FALSE,
            !.held     = IF p.batching = batching THEN @ ELSE {},
            !.fetched  = IF p.batching = batching THEN @ ELSE {},
            !.tombs    = IF p.batching = batching THEN @ ELSE {}]

\* Pool.Restart: only what a store holds is moved to the other one.
PoolRestart(p, batching) ==
  [p EXCEPT !.batching = batching,
            !.halted   = FALSE,
            !.fetched  = IF p.batching = batching THEN @ ELSE {},
            !.tombs    = IF p.batching = batching THEN @ ELSE {}]

-----------------------------------------------------------------------------
(* Starting the node                                                       *)

\* configureBatcher and Run: whatever the decisions say, the node and the role
\* start in term 0.  Decisions are pulled again from the last known one on.
Configure(from, mempool) ==
  /\ config'    = configStore
  /\ node'      = [term |-> 0, primary |-> PrimaryOf(0)]
  /\ repl'      = [pc |-> "pull", next |-> from, from |-> from]
  /\ stateChan' = <<>>
  /\ roleTerm'  = 0
  /\ termChan'  = <<>>
  /\ notify'    = [pc |-> "wait", decision |-> 1, prev |-> PrimaryOf(0)]
  /\ role'      = [pc |-> "top", primary |-> PrimaryOf(0), seq |-> 0]
  /\ pool'      = mempool
  /\ stop'      = "no"

Init ==
  /\ chain = <<[term |-> 0, pending |-> {}, stale |-> {}, config |-> FALSE]>>
  /\ arriving = {} /\ bafs = {} /\ sends = {} /\ checked = {}
  /\ ledger = [p \in Parties |-> <<>>]
  /\ wal = 0 /\ configStore = 1
  /\ config    = 1
  /\ node      = [term |-> 0, primary |-> PrimaryOf(0)]
  /\ repl      = [pc |-> "pull", next |-> 1, from |-> 1]
  /\ stateChan = <<>>
  /\ roleTerm  = 0
  /\ termChan  = <<>>
  /\ notify    = [pc |-> "wait", decision |-> 1, prev |-> PrimaryOf(0)]
  /\ role      = [pc |-> "top", primary |-> PrimaryOf(0), seq |-> 0]
  /\ pool      = EmptyPool
  /\ stop      = "no"
  /\ failures  = 0

-----------------------------------------------------------------------------
(* The environment                                                         *)

\* A client's request arrives through the router or is forwarded by a secondary,
\* and is verified.
Verify(r) ==
  /\ stop = "no" /\ r \notin checked /\ Valid(r)
  /\ checked' = checked \cup {r}
  /\ UNCHANGED <<consenters, disk, config, threads, stateChan, node, roleTerm, termChan,
                 pool, sends, stop, failures>>

\* It is then submitted to the pool that the node has at that time.
Submit(r) ==
  /\ r \in checked
  /\ checked' = checked \ {r}
  /\ pool' = PoolSubmit(pool, {r})
  /\ UNCHANGED <<consenters, disk, config, threads, stateChan, node, roleTerm, termChan,
                 sends, stop, failures>>

\* The consenters order some of the fragments that reached them; `done` are the
\* ones whose batch is decided.  See Process in ArmaState.
Order(new, done, t, isConfig) ==
  LET last == chain[Len(chain)]
      cs   == ConfigSeq(Len(chain))
      kept == {b \in last.pending \cup new : b.configSeq = cs}
  IN /\ Len(chain) < MaxDecisions
     /\ isConfig => cs < MaxConfigs
     /\ t \in {last.term, last.term + 1} /\ t <= MaxTerm
     /\ new \subseteq arriving /\ done \subseteq kept
     /\ chain' = Append(chain, [term |-> t, pending |-> kept \ done,
                                stale |-> {b \in new : b.configSeq < cs},
                                config |-> isConfig])
     /\ arriving' = arriving \ new
     /\ UNCHANGED <<bafs, disk, config, threads, stateChan, node, roleTerm, termChan,
                    pool, checked, sends, stop, failures>>

\* SendBAF: the fragment reaches the consenters.
Reach(b) ==
  /\ b \in sends
  /\ sends' = sends \ {b} /\ arriving' = arriving \cup {b} /\ bafs' = bafs \cup {b}
  /\ UNCHANGED <<chain, disk, config, threads, stateChan, node, roleTerm, termChan,
                 pool, stop, checked, failures>>

\* SendBAF gives up once the node stops, or the role has left the batch.
Cancel(b) ==
  /\ b \in sends
  /\ ~(stop = "no" /\ role.pc = "send" /\ b = CurrentBAF)
  /\ sends' = sends \ {b}
  /\ UNCHANGED <<consenters, disk, config, threads, stateChan, node, roleTerm, termChan,
                 pool, stop, checked, failures>>

\* PendingStore.garbageCollectProcessed: tombstones expire.
Expire ==
  /\ pool.tombs # {} /\ ~pool.halted
  /\ pool' = [pool EXCEPT !.tombs = {}]
  /\ UNCHANGED <<consenters, disk, config, threads, stateChan, node, roleTerm, termChan,
                 sends, stop, checked, failures>>

-----------------------------------------------------------------------------
(* replicateDecision                                                       *)

\* Mutant: the requests of an older config are not verified again.
Revive_Unverified(p, B) == PoolSubmit(p, {ledger[b.primary][b.seq + 1] : b \in B})

\* reviveBAFRequests for each of a set of fragments: those of an older config have
\* their requests verified again.
Revive(p, B) ==
  LET req(b) == ledger[b.primary][b.seq + 1]
  IN PoolSubmit(p, {req(b) : b \in {x \in B : x.configSeq < ConfigSeq(config) => Valid(req(x))}})

\* A decision is received and logged.  A config block that is not in the config
\* store yet is stored, and the thread ends in a soft stop; one that is the last
\* stored is the one the node was started from; one that is older is skipped.
Pull ==
  LET i == repl.next
      d == chain[i]
      ignorePrev == IF d.config /\ i = configStore THEN d.pending ELSE {}
  IN /\ repl.pc = "pull" /\ i <= Len(chain)
     /\ wal' = i
     /\ IF d.config /\ i > configStore
        THEN /\ configStore' = i
             /\ repl' = [repl EXCEPT !.pc = "done"]
             /\ stop' = "stopping"
             /\ UNCHANGED pool
        ELSE /\ UNCHANGED <<configStore, stop>>
             /\ IF d.config /\ i < configStore
                THEN repl' = [repl EXCEPT !.next = i + 1] /\ UNCHANGED pool
                ELSE /\ pool' = Revive(pool, ignorePrev \cup d.stale)
                     /\ repl' = [repl EXCEPT !.pc = "put"]
     /\ UNCHANGED <<consenters, ledger, config, notify, role, stateChan, node, roleTerm,
                    termChan, sends, checked, failures>>

\* Mutant: a decision that does not fit into the channel is dropped.
Put_Drop ==
  LET t == chain[repl.next].term
  IN /\ repl.pc = "put"
     /\ stateChan' = IF stateChan = <<>> THEN <<repl.next>> ELSE stateChan
     /\ node' = IF PrimaryOf(t) = node.primary THEN node
                ELSE [term |-> t, primary |-> PrimaryOf(t)]
     /\ repl' = [repl EXCEPT !.pc = "pull", !.next = @ + 1]
     /\ UNCHANGED <<consenters, disk, config, notify, role, roleTerm, termChan, pool, sends,
                    stop, checked, failures>>

\* The state is handed on, when there is room, and the node's primary and term are
\* updated: only if the primary changes.
Put ==
  LET t == chain[repl.next].term
  IN /\ repl.pc = "put" /\ stateChan = <<>>
     /\ stateChan' = <<repl.next>>
     /\ node' = IF PrimaryOf(t) = node.primary THEN node
                ELSE [term |-> t, primary |-> PrimaryOf(t)]
     /\ repl' = [repl EXCEPT !.pc = "pull", !.next = @ + 1]
     /\ UNCHANGED <<consenters, disk, config, notify, role, roleTerm, termChan, pool, sends,
                    stop, checked, failures>>

\* The stream of decisions breaks: the replicator asks again for what it was
\* created with.
Reconnect ==
  /\ failures < MaxFailures
  /\ repl.pc = "pull" /\ repl.next # repl.from
  /\ repl' = [repl EXCEPT !.next = repl.from]
  /\ failures' = failures + 1
  /\ UNCHANGED <<consenters, disk, config, notify, role, stateChan, node, roleTerm, termChan,
                 pool, sends, stop, checked>>

-----------------------------------------------------------------------------
(* getTermAndNotifyChange                                                  *)

\* A state is received.
Receive ==
  LET i == stateChan[1]
      t == chain[i].term
  IN /\ notify.pc = "wait" /\ stateChan # <<>>
     /\ stateChan' = <<>>
     /\ roleTerm' = t
     /\ notify' = IF t = roleTerm THEN notify
                  ELSE [pc |-> "send", decision |-> i, prev |-> PrimaryOf(roleTerm)]
     /\ UNCHANGED <<consenters, disk, config, repl, role, node, termChan, pool, sends, stop,
                    checked, failures>>

\* Mutant: the channel of terms has no bound.
Notify_NoWait ==
  /\ notify.pc = "send"
  /\ termChan' = Append(termChan, roleTerm)
  /\ notify' = [notify EXCEPT !.pc = "resubmit"]
  /\ UNCHANGED <<consenters, disk, config, repl, role, stateChan, node, roleTerm, pool, sends,
                 stop, checked, failures>>

\* The new term is sent when there is room.
Notify ==
  /\ notify.pc = "send" /\ termChan = <<>>
  /\ termChan' = <<roleTerm>>
  /\ notify' = [notify EXCEPT !.pc = "resubmit"]
  /\ UNCHANGED <<consenters, disk, config, repl, role, stateChan, node, roleTerm, pool, sends,
                 stop, checked, failures>>

\* The requests of pending fragments of the previous primary return to the pool.
PendingOfPrev == {b \in chain[notify.decision].pending : b.primary = notify.prev}

ResubmitPendingBAFs ==
  /\ notify.pc = "resubmit"
  /\ pool' = Revive(pool, PendingOfPrev)
  /\ notify' = [notify EXCEPT !.pc = "wait"]
  /\ UNCHANGED <<consenters, disk, config, repl, role, stateChan, node, roleTerm, termChan,
                 sends, stop, checked, failures>>

NotifierStops ==
  /\ stop # "no" /\ notify.pc = "wait"
  /\ notify' = [notify EXCEPT !.pc = "done"]
  /\ UNCHANGED <<consenters, disk, config, repl, role, stateChan, node, roleTerm, termChan,
                 pool, checked, sends, stop, failures>>

-----------------------------------------------------------------------------
(* run                                                                     *)

\* Mutant: the sequence of the previous role is kept.
Begin_KeepSeq ==
  LET p == PrimaryOf(roleTerm)
  IN /\ role.pc = "top" /\ stop = "no"
     /\ role' = [pc |-> IF p = Me THEN "lead" ELSE "follow", primary |-> p, seq |-> role.seq]
     /\ pool' = PoolRestart(pool, p = Me)
     /\ UNCHANGED <<consenters, disk, config, repl, notify, stateChan, node, roleTerm,
                    termChan, sends, stop, checked, failures>>

\* The top of the loop, up to the point where runPrimary or runSecondary waits.
Begin ==
  LET p == PrimaryOf(roleTerm)
  IN /\ role.pc = "top" /\ stop = "no"
     /\ role' = [pc |-> IF p = Me THEN "lead" ELSE "follow", primary |-> p, seq |-> Height(p)]
     /\ pool' = PoolRestart(pool, p = Me)
     /\ UNCHANGED <<consenters, disk, config, repl, notify, stateChan, node, roleTerm,
                    termChan, sends, stop, checked, failures>>

\* A batch is stored, and then its fragment is created and sent by a goroutine.
Store(r) ==
  /\ Height(role.primary) < MaxHeight
  /\ ledger' = [ledger EXCEPT ![role.primary] = Append(@, r)]
  /\ role' = [role EXCEPT !.pc = "send"]
  /\ sends' = sends \cup {[primary |-> role.primary, seq |-> role.seq,
                           configSeq |-> ConfigSeq(config), req |-> r]}

\* runPrimary: the next batch is taken from the pool.
Cut(r) ==
  /\ role.pc = "lead" /\ r \in pool.held /\ ~pool.halted
  /\ pool' = [pool EXCEPT !.held = @ \ {r}, !.fetched = @ \cup {r}]
  /\ Store(r)
  /\ UNCHANGED <<consenters, wal, configStore, config, repl, notify, stateChan, node, roleTerm,
                 termChan, stop, checked, failures>>

\* runSecondary: a batch of the primary arrives and passes verifyBatch, which does
\* not verify what the pool holds.
PullBatch(r) ==
  /\ role.pc = "follow"
  /\ Valid(r) \/ (r \in pool.held /\ ~pool.halted)
  /\ Store(r)
  /\ UNCHANGED <<consenters, wal, configStore, config, repl, notify, stateChan, node, roleTerm,
                 termChan, pool, stop, checked, failures>>

\* SendBAF has returned: the requests of the batch are removed from the pool.
Sent ==
  /\ role.pc = "send" /\ CurrentBAF \notin sends
  /\ pool' = PoolRemove(pool, CurrentBAF.req)
  /\ role' = [role EXCEPT !.pc = IF role.primary = Me THEN "lead" ELSE "follow", !.seq = @ + 1]
  /\ UNCHANGED <<consenters, disk, config, repl, notify, stateChan, node, roleTerm, termChan,
                 sends, stop, checked, failures>>

\* Wherever the role waits, a new term sends it back to the top.
TermChanges ==
  /\ role.pc \in {"lead", "follow", "send"} /\ termChan # <<>>
  /\ termChan' = <<>>
  /\ role' = [role EXCEPT !.pc = "top"]
  /\ UNCHANGED <<consenters, disk, config, repl, notify, stateChan, node, roleTerm, pool, sends,
                 stop, checked, failures>>

RoleStops ==
  /\ stop # "no" /\ role.pc # "done"
  /\ role' = [role EXCEPT !.pc = "done"]
  /\ UNCHANGED <<consenters, disk, config, repl, notify, stateChan, node, roleTerm, termChan,
                 pool, checked, sends, stop, failures>>

-----------------------------------------------------------------------------
(* Reconfiguration and crashes                                             *)

\* The rest of SoftStop: both threads of the role are waited for, then the pool is
\* halted and the channels are drained.
SoftStop ==
  /\ stop = "stopping" /\ notify.pc = "done" /\ role.pc = "done"
  /\ pool' = [pool EXCEPT !.halted = TRUE]
  /\ termChan' = <<>> /\ stateChan' = <<>>
  /\ stop' = "stopped"
  /\ UNCHANGED <<consenters, disk, config, threads, node, roleTerm, sends, checked, failures>>

\* ApplyConfig: an administrator has to act.
PendingAdmin ==
  /\ stop = "stopped"
  /\ stop' = "admin"
  /\ UNCHANGED <<consenters, disk, config, threads, stateChan, node, roleTerm, termChan, pool,
                 sends, checked, failures>>

\* stopAndReconfigure: the node is rebuilt with the same pool, without the requests
\* that are not valid under the new config.
Reconfigure ==
  /\ stop = "stopped"
  /\ Configure(configStore, [pool EXCEPT !.held = @ \ Invalid])
  /\ UNCHANGED <<consenters, disk, sends, checked, failures>>

\* A crash, also right after Pull has logged a decision, and a restart
\* (CreateBatcher, getLastKnownDecisionNum).
Crash(logged) ==
  /\ failures < MaxFailures
  /\ logged = wal \/ (repl.pc = "pull" /\ repl.next <= Len(chain) /\ logged = repl.next)
  /\ failures' = failures + 1
  /\ wal' = logged
  /\ Configure(IF logged > 1 THEN logged ELSE configStore, EmptyPool)
  /\ sends' = {} /\ checked' = {}
  /\ UNCHANGED <<consenters, ledger, configStore>>

-----------------------------------------------------------------------------

Replicator == Pull \/ Put

Notifier == Receive \/ Notify \/ ResubmitPendingBAFs \/ NotifierStops

Run == Begin \/ Sent \/ TermChanges \/ RoleStops

Stopping == SoftStop \/ PendingAdmin \/ Reconfigure

Next ==
  \/ \E r \in Requests : Verify(r) \/ Submit(r) \/ Cut(r) \/ PullBatch(r)
  \/ \E new \in SUBSET arriving :
       \E done \in SUBSET (chain[Len(chain)].pending \cup new) :
         \E t \in 0 .. MaxTerm, c \in BOOLEAN : Order(new, done, t, c)
  \/ \E b \in sends : Reach(b) \/ Cancel(b)
  \/ Expire \/ Reconnect
  \/ Replicator \/ Notifier \/ Run \/ Stopping
  \/ \E i \in 0 .. Len(chain) : Crash(i)

Spec == Init /\ [][Next]_vars

\* The threads of the node go on when they can, and SendBAF returns.
Fairness ==
  /\ WF_vars(Replicator) /\ WF_vars(Notifier) /\ WF_vars(Run) /\ WF_vars(Stopping)
  /\ WF_vars(\E b \in sends : Reach(b) \/ Cancel(b))

FairSpec == Spec /\ Fairness

-----------------------------------------------------------------------------
(* Properties                                                              *)

PoolType == [batching : BOOLEAN, halted : BOOLEAN, held : SUBSET Requests,
             fetched : SUBSET Requests, tombs : SUBSET Requests]

ConsentersOK ==
  /\ chain \in Seq(Decision) /\ Len(chain) > 0
  /\ arriving \subseteq bafs /\ bafs \subseteq BAF /\ sends \subseteq BAF

DiskOK ==
  /\ ledger \in [Parties -> Seq(Requests)]
  /\ wal \in 0 .. Len(chain)
  /\ configStore \in 1 .. Len(chain) /\ config \in 1 .. configStore

ReplOK ==
  /\ repl \in [pc : {"pull", "put", "done"}, next : Nat \ {0}, from : 1 .. Len(chain)]
  /\ repl.next <= Len(chain) + 1
  /\ repl.pc # "pull" => repl.next <= Len(chain)
  /\ stateChan \in Seq(1 .. Len(chain)) /\ Len(stateChan) <= 1
  /\ node \in [term : Nat, primary : Parties]

NotifyOK ==
  /\ roleTerm \in Nat
  /\ termChan \in Seq(Nat) /\ Len(termChan) <= 1
  /\ notify \in [pc : {"wait", "send", "resubmit", "done"}, decision : 1 .. Len(chain),
                 prev : Parties]

RoleOK ==
  role \in [pc : {"top", "lead", "follow", "send", "done"}, primary : Parties, seq : Nat]

NodeOK ==
  /\ pool \in PoolType /\ checked \subseteq Requests
  /\ stop \in {"no", "stopping", "stopped", "admin"}
  /\ failures \in 0 .. MaxFailures

\* The types of the variables.
TypeOK == ConsentersOK /\ DiskOK /\ ReplOK /\ NotifyOK /\ RoleOK /\ NodeOK

\* The batch that b attests.
Stored(b) ==
  /\ b.seq < Height(b.primary)
  /\ ledger[b.primary][b.seq + 1] = b.req

\* A fragment declares that its batch is stored, and it stays so across term
\* changes, reconfigurations and crashes.  So this batcher never attests two
\* batches of one primary and sequence, and a decision never makes
\* reviveBAFRequests look up a batch that is not there, which would panic.
AttestedIsStored == \A b \in bafs \cup sends : Stored(b)

\* The sequence at which the role appends is the height of the ledger; the ledger
\* panics on any other.
AppendsInOrder ==
  /\ role.pc \in {"lead", "follow"} => role.seq = Height(role.primary)
  /\ role.pc = "send" => role.seq = Height(role.primary) - 1

\* As long as the node neither crashes nor applies a config, a request leaves the
\* pool only into a stored batch, whichever store holds it and however often the
\* role changes.
LeavesOnlyIntoALedger ==
  [][config' = config /\ failures' = failures =>
       \A r \in (pool.held \cup pool.fetched) \ (pool'.held \cup pool'.fetched) :
         \E p \in Parties : \E i \in 1 .. Len(ledger'[p]) : ledger'[p][i] = r]_vars

\* A request that became invalid with a config is brought back by the fragments of
\* older configs neither when a decision is applied nor when the term changes.
OldConfigRevivesOnlyValid ==
  [][Pull \/ ResubmitPendingBAFs =>
       \A r \in pool'.held \ pool.held :
         Valid(r) \/ \E b \in bafs : b.req = r /\ b.configSeq = ConfigSeq(config)]_vars

\* The role ends up acting for the primary of the last decision.
FollowsTheTerm ==
  <>[](role.pc # "top" /\ role.primary = PrimaryOf(chain[Len(chain)].term))

\* What a complaint says (createComplaint).
ComplaintTerm == node.term

\* docs/batcher.md: "when `f+1` batchers of the shard complain in the same term, the
\* consenters increment the term".  The consenters only count complaints about
\* the current term, so that is the term a complaint must carry, once the node
\* has applied every decision.
ComplaintTermIsCurrent ==
  repl.pc = "pull" /\ repl.next = Len(chain) + 1 => ComplaintTerm = chain[Len(chain)].term

\* docs/batcher.md: the decision puller "hands the latest state to the batcher role".
\* So the role's term goes back only when the node is started again.
RoleTermNeverGoesBack == [][Receive => roleTerm' >= roleTerm]_vars

\* Comment on ResubmitPendingBAFs: "after a term change all batchers resubmit to
\* their pools txs in batches with their BAFs still in pending state".  So the
\* pool then holds them, unless they are in the batch that is being sent.
RevivedAfterTermChange ==
  [][ResubmitPendingBAFs =>
       \A b \in PendingOfPrev : \/ b.req \in pool'.held
                                \/ role.pc = "send" /\ CurrentBAF.req = b.req]_vars

\* docs/batcher.md: "When a decision reports such a BAF of this batcher, the batcher
\* returns the batch's requests to its mempool".
RevivedAfterConfig ==
  [][Pull /\ repl'.pc = "put" =>
       \A b \in chain[repl.next].stale :
         \/ ~Valid(b.req)
         \/ b.req \in pool'.held
         \/ role.pc = "send" /\ CurrentBAF.req = b.req]_vars

\* Comment in runPrimary and runSecondary: "Once the BAF reached the consenters it is
\* considered safe to remove the requests from the mem pool".
RemovedOnceBAFReached == [][Sent => CurrentBAF \in bafs]_vars

\* Comment in VerifyBatchedRequests: a request in the pool "was verified when it
\* entered the pool [...] and remains valid under the current config".
PooledIsValid == stop = "no" => \A r \in pool.held : Valid(r)

\* Comment on BatcherRole.SoftStop: "SoftStop stops the batcher role".
SoftStopReturns == (stop = "stopping") ~> (stop # "stopping")
=============================================================================
