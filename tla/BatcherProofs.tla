--------------------------- MODULE BatcherProofs ---------------------------
(***************************************************************************)
(* What a batcher attests is stored, for any number of parties, requests,  *)
(* terms, configs and crashes.                                             *)
(***************************************************************************)
EXTENDS Batcher, FiniteSetTheorems, TLAPS

\* The decisions only carry fragments that reached the consenters.
PendingReached ==
  \A i \in 1 .. Len(chain) : chain[i].pending \subseteq bafs /\ chain[i].stale \subseteq bafs

\* No fragment is of a config that the node does not have yet.
NotAhead == \A b \in bafs \cup sends : b.configSeq <= ConfigSeq(config)

IInv == TypeOK /\ AppendsInOrder /\ AttestedIsStored /\ PendingReached /\ NotAhead

LEMMA PrimaryType == \A t \in Nat : PrimaryOf(t) \in Parties
  BY BatcherAssumption DEF PrimaryOf, Parties

LEMMA ConfigSeqType ==
  ASSUME NEW i \in Nat
  PROVE  ConfigSeq(i) \in Nat
<1>1. IsFiniteSet(1 .. i)
  BY FS_Interval
<1>2. IsFiniteSet({k \in 1 .. i : chain[k].config})
  BY <1>1, FS_Subset
<1> QED
  BY <1>2, FS_CardinalityType DEF ConfigSeq

LEMMA ConfigSeqMonotonic ==
  ASSUME NEW i \in Nat, NEW j \in Nat, i <= j
  PROVE  ConfigSeq(i) <= ConfigSeq(j)
<1>1. IsFiniteSet(1 .. j)
  BY FS_Interval
<1>2. IsFiniteSet({k \in 1 .. j : chain[k].config})
  BY <1>1, FS_Subset
<1>3. {k \in 1 .. i : chain[k].config} \subseteq {k \in 1 .. j : chain[k].config}
  OBVIOUS
<1> QED
  BY <1>2, <1>3, FS_Subset DEF ConfigSeq

LEMMA InitIInv == Init => IInv
<1> SUFFICES ASSUME Init PROVE IInv
  OBVIOUS
<1>1. PrimaryOf(0) \in Parties
  BY PrimaryType
<1>2. chain \in Seq(Decision) /\ Len(chain) = 1
  BY DEF Init, Decision
<1>3. ConsentersOK /\ DiskOK
  BY <1>2 DEF Init, ConsentersOK, DiskOK
<1>4. ReplOK
  BY <1>1, <1>2 DEF Init, ReplOK
<1>5. NotifyOK
  BY <1>1, <1>2 DEF Init, NotifyOK
<1>6. RoleOK /\ NodeOK
  BY <1>1, BatcherAssumption DEF Init, RoleOK, NodeOK, EmptyPool, PoolType
<1>7. AppendsInOrder /\ AttestedIsStored /\ PendingReached /\ NotAhead
  BY <1>2 DEF Init, AppendsInOrder, AttestedIsStored, PendingReached, NotAhead
<1> QED
  BY <1>3, <1>4, <1>5, <1>6, <1>7 DEF IInv, TypeOK

LEMMA PoolOps ==
  ASSUME NEW p \in PoolType
  PROVE  /\ \A R \in SUBSET Requests : PoolSubmit(p, R) \in PoolType
         /\ \A r \in Requests : PoolRemove(p, r) \in PoolType
         /\ \A b \in BOOLEAN : PoolRestart(p, b) \in PoolType
<1>1. \A R \in SUBSET Requests : PoolSubmit(p, R) \in PoolType
  BY DEF PoolType, PoolSubmit
<1>2. \A r \in Requests : PoolRemove(p, r) \in PoolType
  BY DEF PoolType, PoolRemove
<1>3. \A b \in BOOLEAN : PoolRestart(p, b) \in PoolType
  BY DEF PoolType, PoolRestart
<1> QED
  BY <1>1, <1>2, <1>3

\* Reviving looks up stored batches only.
LEMMA ReviveType ==
  ASSUME IInv, NEW B \in SUBSET bafs
  PROVE  Revive(pool, B) \in PoolType
<1> DEFINE R == {ledger[b.primary][b.seq + 1] : b \in
                   {x \in B : x.configSeq < ConfigSeq(config)
                                => Valid(ledger[x.primary][x.seq + 1])}}
<1>1. \A b \in B : ledger[b.primary][b.seq + 1] = b.req /\ b.req \in Requests
  BY DEF IInv, AttestedIsStored, Stored, TypeOK, ConsentersOK, BAF
<1>2. R \in SUBSET Requests
  BY <1>1
<1>3. pool \in PoolType
  BY DEF IInv, TypeOK, NodeOK
<1>4. Revive(pool, B) = PoolSubmit(pool, R)
  BY DEF Revive
<1> HIDE DEF R
<1> QED
  BY <1>2, <1>3, <1>4, PoolOps

LEMMA SeqFirst ==
  ASSUME NEW S, NEW s \in Seq(S), s # <<>>
  PROVE  Len(s) \in Nat \ {0} /\ s[1] \in S
  OBVIOUS

LEMMA ChanDrained ==
  ASSUME NEW S, NEW s \in Seq(S), Len(s) <= 1, NEW t \in {<<>>, s}
  PROVE  t \in Seq(S) /\ Len(t) <= 1
<1>1. <<>> \in Seq(S) /\ Len(<<>>) <= 1
  OBVIOUS
<1> QED
  BY <1>1

LEMMA DecisionTerm ==
  ASSUME ConsentersOK, NEW i \in 1 .. Len(chain)
  PROVE  chain[i].term \in Nat
<1>1. chain[i] \in Decision
  BY DEF ConsentersOK
<1> QED
  BY <1>1 DEF Decision

-----------------------------------------------------------------------------
(* What a step keeps because it leaves variables alone                     *)

LEMMA TypesKept ==
  ASSUME TypeOK
  PROVE  /\ UNCHANGED <<chain, arriving, bafs, sends>> => ConsentersOK'
         /\ UNCHANGED <<chain, ledger, wal, configStore, config>> => DiskOK'
         /\ UNCHANGED <<chain, repl, stateChan, node>> => ReplOK'
         /\ UNCHANGED <<chain, roleTerm, termChan, notify>> => NotifyOK'
         /\ UNCHANGED role => RoleOK'
         /\ UNCHANGED <<pool, checked, stop, failures>> => NodeOK'
<1>1. UNCHANGED <<chain, arriving, bafs, sends>> => ConsentersOK'
  BY DEF TypeOK, ConsentersOK
<1>2. UNCHANGED <<chain, ledger, wal, configStore, config>> => DiskOK'
  BY DEF TypeOK, DiskOK
<1>3. UNCHANGED <<chain, repl, stateChan, node>> => ReplOK'
  BY DEF TypeOK, ReplOK
<1>4. UNCHANGED <<chain, roleTerm, termChan, notify>> => NotifyOK'
  BY DEF TypeOK, NotifyOK
<1>5. UNCHANGED role => RoleOK'
  BY DEF TypeOK, RoleOK
<1>6. UNCHANGED <<pool, checked, stop, failures>> => NodeOK'
  BY DEF TypeOK, NodeOK
<1> QED
  BY <1>1, <1>2, <1>3, <1>4, <1>5, <1>6

LEMMA OthersKeep ==
  ASSUME IInv, UNCHANGED <<chain, bafs, sends, ledger, config, role>>
  PROVE  AppendsInOrder' /\ AttestedIsStored' /\ PendingReached' /\ NotAhead'
<1>1. AppendsInOrder'
  BY DEF IInv, AppendsInOrder, Height
<1>2. AttestedIsStored'
  BY DEF IInv, AttestedIsStored, Stored, Height
<1>3. PendingReached'
  BY DEF IInv, PendingReached
<1>4. NotAhead'
  BY DEF IInv, NotAhead, ConfigSeq
<1> QED
  BY <1>1, <1>2, <1>3, <1>4

-----------------------------------------------------------------------------
(* The steps that leave the chain, the fragments, the ledgers, the config  *)
(* and the role alone                                                      *)

LEMMA VerifyKeeps ==
  ASSUME IInv, NEW r \in Requests, Verify(r) \/ Submit(r)
  PROVE  IInv'
<1>1. pool \in PoolType /\ {r} \in SUBSET Requests
  BY DEF IInv, TypeOK, NodeOK
<1>2. PoolSubmit(pool, {r}) \in PoolType
  BY <1>1, PoolOps
<1>3. pool' \in PoolType
  BY <1>1, <1>2 DEF Verify, Submit
<1>4. checked' \subseteq Requests
  BY DEF Verify, Submit, IInv, TypeOK, NodeOK
<1>5. NodeOK'
  BY <1>3, <1>4 DEF Verify, Submit, IInv, TypeOK, NodeOK
<1>6. UNCHANGED <<consenters, disk, config, threads, stateChan, node, roleTerm, termChan, sends>>
  BY DEF Verify, Submit
<1> QED
  BY <1>5, <1>6, TypesKept, OthersKeep DEF IInv, TypeOK, consenters, disk, threads

LEMMA ExpireKeeps == ASSUME IInv, Expire PROVE IInv'
<1>1. NodeOK'
  BY DEF Expire, IInv, TypeOK, NodeOK, PoolType
<1> QED
  BY <1>1, TypesKept, OthersKeep DEF Expire, IInv, TypeOK, consenters, disk, threads

LEMMA PullKeeps == ASSUME IInv, Pull PROVE IInv'
<1>1. repl.next \in 1 .. Len(chain)
  BY DEF Pull, IInv, TypeOK, ReplOK, ConsentersOK
<1> DEFINE d == chain[repl.next]
           B == (IF d.config /\ repl.next = configStore THEN d.pending ELSE {}) \cup d.stale
<1>2. B \subseteq bafs
  BY <1>1 DEF IInv, PendingReached
<1>3. pool' = pool \/ pool' = Revive(pool, B)
  BY DEF Pull
<1>4. pool' \in PoolType
  <2>1. pool \in PoolType
    BY DEF IInv, TypeOK, NodeOK
  <2>2. Revive(pool, B) \in PoolType
    BY <1>2, ReviveType
  <2> HIDE DEF B
  <2> QED
    BY <1>3, <2>1, <2>2
<1>5. NodeOK'
  BY <1>4 DEF Pull, IInv, TypeOK, NodeOK
<1>6. ReplOK'
  <2>1. \/ repl' = [repl EXCEPT !.pc = "done"]
        \/ repl' = [repl EXCEPT !.pc = "put"]
        \/ repl.pc = "pull" /\ repl' = [repl EXCEPT !.next = repl.next + 1]
    BY DEF Pull
  <2> QED
    BY <1>1, <2>1 DEF Pull, IInv, TypeOK, ReplOK, consenters
<1>7. DiskOK'
  BY <1>1 DEF Pull, IInv, TypeOK, DiskOK, consenters
<1>8. UNCHANGED <<consenters, ledger, config, notify, role, stateChan, node, roleTerm,
                  termChan, sends>>
  BY DEF Pull
<1> QED
  BY <1>5, <1>6, <1>7, <1>8, TypesKept, OthersKeep DEF IInv, TypeOK, consenters

LEMMA PutKeeps == ASSUME IInv, Put \/ Reconnect PROVE IInv'
<1>1. CASE Put
  <2>1. repl.next \in 1 .. Len(chain)
    BY <1>1 DEF Put, IInv, TypeOK, ReplOK
  <2>2. chain[repl.next].term \in Nat
    BY <2>1, DecisionTerm DEF IInv, TypeOK
  <2>3. PrimaryOf(chain[repl.next].term) \in Parties
    BY <2>2, PrimaryType
  <2>4. node' \in [term : Nat, primary : Parties]
    BY <1>1, <2>2, <2>3 DEF Put, IInv, TypeOK, ReplOK
  <2>5. stateChan' \in Seq(1 .. Len(chain)) /\ Len(stateChan') <= 1
    BY <1>1, <2>1 DEF Put
  <2>6. ReplOK'
    <3>1. repl' = [repl EXCEPT !.pc = "pull", !.next = repl.next + 1] /\ chain' = chain
      BY <1>1 DEF Put, consenters
    <3>2. /\ repl' \in [pc : {"pull", "put", "done"}, next : Nat \ {0}, from : 1 .. Len(chain)]
          /\ repl'.pc = "pull" /\ repl'.next = repl.next + 1
      <4>1. repl.next + 1 \in Nat \ {0}
        BY <2>1
      <4>2. repl \in [pc : {"pull", "put", "done"}, next : Nat \ {0}, from : 1 .. Len(chain)]
        BY DEF IInv, TypeOK, ReplOK
      <4> QED
        BY <3>1, <4>1, <4>2
    <3> QED
      BY <2>1, <2>4, <2>5, <3>1, <3>2 DEF ReplOK
  <2> QED
    BY <1>1, <2>6, TypesKept, OthersKeep DEF Put, IInv, TypeOK, consenters, disk
<1>2. CASE Reconnect
  <2>1. ReplOK'
    <3>1. repl.from \in Nat \ {0} /\ repl.from <= Len(chain) + 1 /\ Len(chain) \in Nat
      BY DEF IInv, TypeOK, ReplOK, ConsentersOK
    <3> QED
      BY <1>2, <3>1 DEF Reconnect, consenters, IInv, TypeOK, ReplOK
  <2>2. NodeOK'
    BY <1>2, BatcherAssumption DEF Reconnect, IInv, TypeOK, NodeOK
  <2> QED
    BY <1>2, <2>1, <2>2, TypesKept, OthersKeep DEF Reconnect, IInv, TypeOK, consenters, disk
<1> QED
  BY <1>1, <1>2

LEMMA NotifierKeeps == ASSUME IInv, Notifier PROVE IInv'
<1>1. CASE Receive
  <2>1. stateChan[1] \in 1 .. Len(chain)
    <3>1. stateChan \in Seq(1 .. Len(chain)) /\ stateChan # <<>>
      BY <1>1 DEF Receive, IInv, TypeOK, ReplOK
    <3> QED
      BY <3>1, SeqFirst
  <2>2. chain[stateChan[1]].term \in Nat
    BY <2>1, DecisionTerm DEF IInv, TypeOK
  <2>3. PrimaryOf(roleTerm) \in Parties
    BY PrimaryType DEF IInv, TypeOK, NotifyOK
  <2>4. NotifyOK'
    BY <1>1, <2>1, <2>2, <2>3 DEF Receive, consenters, IInv, TypeOK, NotifyOK
  <2>5. ReplOK'
    BY <1>1 DEF Receive, consenters, IInv, TypeOK, ReplOK
  <2> QED
    BY <1>1, <2>4, <2>5, TypesKept, OthersKeep DEF Receive, IInv, TypeOK, consenters, disk
<1>2. CASE Notify
  <2>1. NotifyOK'
    BY <1>2 DEF Notify, consenters, IInv, TypeOK, NotifyOK
  <2> QED
    BY <1>2, <2>1, TypesKept, OthersKeep DEF Notify, IInv, TypeOK, consenters, disk
<1>3. CASE ResubmitPendingBAFs
  <2>1. PendingOfPrev \subseteq bafs
    BY DEF PendingOfPrev, IInv, PendingReached, TypeOK, NotifyOK
  <2>2. pool' \in PoolType
    BY <1>3, <2>1, ReviveType DEF ResubmitPendingBAFs
  <2>3. NodeOK' 
    BY <1>3, <2>2 DEF ResubmitPendingBAFs, IInv, TypeOK, NodeOK
  <2>4. NotifyOK'
    BY <1>3 DEF ResubmitPendingBAFs, consenters, IInv, TypeOK, NotifyOK
  <2> QED
    BY <1>3, <2>3, <2>4, TypesKept, OthersKeep
    DEF ResubmitPendingBAFs, IInv, TypeOK, consenters, disk
<1>4. CASE NotifierStops
  <2>1. NotifyOK'
    BY <1>4 DEF NotifierStops, consenters, IInv, TypeOK, NotifyOK
  <2> QED
    BY <1>4, <2>1, TypesKept, OthersKeep DEF NotifierStops, IInv, TypeOK, consenters, disk
<1> QED
  BY <1>1, <1>2, <1>3, <1>4 DEF Notifier

LEMMA StopKeeps == ASSUME IInv, SoftStop \/ PendingAdmin PROVE IInv'
<1>1. NodeOK'
  BY DEF SoftStop, PendingAdmin, IInv, TypeOK, NodeOK, PoolType
<1>2. ReplOK' /\ NotifyOK'
  <2>1. stateChan' \in {<<>>, stateChan} /\ termChan' \in {<<>>, termChan}
    BY DEF SoftStop, PendingAdmin
  <2>2. UNCHANGED <<chain, repl, node, roleTerm, notify>>
    BY DEF SoftStop, PendingAdmin, consenters, threads
  <2>3. stateChan' \in Seq(1 .. Len(chain)) /\ Len(stateChan') <= 1
    BY <2>1, ChanDrained DEF IInv, TypeOK, ReplOK
  <2>4. termChan' \in Seq(Nat) /\ Len(termChan') <= 1
    BY <2>1, ChanDrained DEF IInv, TypeOK, NotifyOK
  <2> QED
    BY <2>2, <2>3, <2>4 DEF IInv, TypeOK, ReplOK, NotifyOK
<1> QED
  BY <1>1, <1>2, TypesKept, OthersKeep
  DEF SoftStop, PendingAdmin, IInv, TypeOK, consenters, disk, threads

-----------------------------------------------------------------------------
(* The consenters and the fragments                                        *)

LEMMA OrderKeeps ==
  ASSUME IInv, NEW new \in SUBSET arriving,
         NEW done \in SUBSET (chain[Len(chain)].pending \cup new),
         NEW t \in 0 .. MaxTerm, NEW c \in BOOLEAN, Order(new, done, t, c)
  PROVE  IInv'
<1> DEFINE cs == ConfigSeq(Len(chain))
           kept == {b \in chain[Len(chain)].pending \cup new : b.configSeq = cs}
           d == [term |-> t, pending |-> kept \ done,
                 stale |-> {b \in new : b.configSeq < cs}, config |-> c]
<1>1. /\ chain' = Append(chain, d) /\ arriving' = arriving \ new
      /\ UNCHANGED <<bafs, disk, config, threads, stateChan, node, roleTerm, termChan,
                     pool, checked, sends, stop, failures>>
  BY DEF Order
<1>2. chain \in Seq(Decision) /\ Len(chain) \in Nat \ {0} /\ new \subseteq bafs /\ bafs \subseteq BAF
  BY DEF IInv, TypeOK, ConsentersOK
<1>3. chain[Len(chain)].pending \subseteq bafs
  BY <1>2 DEF IInv, PendingReached
<1>4. d.pending \subseteq bafs /\ d.stale \subseteq bafs
  BY <1>2, <1>3
<1>5. t \in Nat
  BY BatcherAssumption
<1>6. d \in Decision
  BY <1>2, <1>4, <1>5 DEF Decision
<1> HIDE DEF d
<1>7. /\ chain' \in Seq(Decision) /\ Len(chain') = Len(chain) + 1
      /\ \A i \in 1 .. Len(chain) : chain'[i] = chain[i]
      /\ chain'[Len(chain) + 1] = d
  BY <1>1, <1>2, <1>6
<1>8. ConsentersOK'
  BY <1>1, <1>2, <1>7 DEF IInv, TypeOK, ConsentersOK
<1>9. DiskOK'
  BY <1>1, <1>2, <1>7 DEF disk, IInv, TypeOK, DiskOK
<1>10. ReplOK'
  <2>1. 1 .. Len(chain) \subseteq 1 .. Len(chain') /\ Len(chain) <= Len(chain')
    BY <1>2, <1>7
  <2>2. stateChan' \in Seq(1 .. Len(chain'))
    BY <1>1, <2>1 DEF IInv, TypeOK, ReplOK
  <2>3. UNCHANGED <<repl, stateChan, node>>
    BY <1>1 DEF threads
  <2> QED
    BY <1>2, <1>7, <2>1, <2>2, <2>3 DEF IInv, TypeOK, ReplOK
<1>11. NotifyOK'
  BY <1>1, <1>2, <1>7 DEF threads, IInv, TypeOK, NotifyOK
<1>12. AppendsInOrder'
  BY <1>1 DEF disk, threads, IInv, AppendsInOrder, Height
<1>13. AttestedIsStored'
  BY <1>1 DEF disk, IInv, AttestedIsStored, Stored, Height
<1>14. PendingReached'
  <2> SUFFICES ASSUME NEW i \in 1 .. Len(chain')
               PROVE  chain'[i].pending \subseteq bafs' /\ chain'[i].stale \subseteq bafs'
    BY DEF PendingReached
  <2>1. CASE i \in 1 .. Len(chain)
    BY <1>1, <1>7, <2>1 DEF IInv, PendingReached
  <2>2. CASE i = Len(chain) + 1
    BY <1>1, <1>4, <1>7, <2>2
  <2> QED
    BY <1>2, <1>7, <2>1, <2>2
<1>15. NotAhead'
  <2>1. config \in 1 .. Len(chain)
    BY <1>2 DEF IInv, TypeOK, DiskOK
  <2>2. {k \in 1 .. config : chain'[k].config} = {k \in 1 .. config : chain[k].config}
    BY <1>2, <1>7, <2>1
  <2>3. ConfigSeq(config)' = ConfigSeq(config)
    BY <1>1, <2>2 DEF ConfigSeq
  <2> QED
    BY <1>1, <2>3 DEF IInv, NotAhead
<1> QED
  BY <1>1, <1>8, <1>9, <1>10, <1>11, <1>12, <1>13, <1>14, <1>15, TypesKept
  DEF IInv, TypeOK, threads

LEMMA SendKeeps ==
  ASSUME IInv, NEW b \in sends, Reach(b) \/ Cancel(b)
  PROVE  IInv'
<1>1. /\ sends' \subseteq sends /\ bafs \subseteq bafs' /\ bafs' \subseteq bafs \cup sends
      /\ arriving' \subseteq bafs'
      /\ UNCHANGED <<chain, disk, config, threads, stateChan, node, roleTerm, termChan,
                     pool, stop, checked, failures>>
  BY DEF Reach, Cancel, IInv, TypeOK, ConsentersOK, consenters
<1>2. ConsentersOK'
  BY <1>1 DEF IInv, TypeOK, ConsentersOK
<1>3. AppendsInOrder'
  BY <1>1 DEF disk, threads, IInv, AppendsInOrder, Height
<1>4. AttestedIsStored'
  BY <1>1 DEF disk, IInv, AttestedIsStored, Stored, Height
<1>5. PendingReached'
  BY <1>1 DEF IInv, PendingReached
<1>6. NotAhead'
  BY <1>1 DEF IInv, NotAhead, ConfigSeq
<1> QED
  BY <1>1, <1>2, <1>3, <1>4, <1>5, <1>6, TypesKept DEF IInv, TypeOK, disk, threads

-----------------------------------------------------------------------------
(* The role                                                                *)

LEMMA StoreKeeps ==
  ASSUME IInv, NEW r \in Requests, role.pc \in {"lead", "follow"}, Store(r), pool' \in PoolType,
         UNCHANGED <<consenters, wal, configStore, config, repl, notify, stateChan, node,
                     roleTerm, termChan, stop, checked, failures>>
  PROVE  IInv'
<1> DEFINE p == role.primary
           b == [primary |-> p, seq |-> role.seq, configSeq |-> ConfigSeq(config), req |-> r]
<1>1. /\ ledger' = [ledger EXCEPT ![p] = Append(@, r)]
      /\ role' = [role EXCEPT !.pc = "send"] /\ sends' = sends \cup {b}
  BY DEF Store
<1>2. p \in Parties /\ role.seq \in Nat /\ role.seq = Len(ledger[p])
  BY DEF IInv, TypeOK, RoleOK, AppendsInOrder, Height
<1>3. ledger \in [Parties -> Seq(Requests)] /\ config \in Nat
  BY DEF IInv, TypeOK, DiskOK
<1>4. ConfigSeq(config) \in Nat
  BY <1>3, ConfigSeqType
<1>5. b \in BAF
  BY <1>2, <1>4 DEF BAF
<1>6. /\ ledger' \in [Parties -> Seq(Requests)]
      /\ Len(ledger'[p]) = role.seq + 1 /\ ledger'[p][role.seq + 1] = r
      /\ \A q \in Parties : /\ Len(ledger[q]) \in Nat /\ Len(ledger[q]) <= Len(ledger'[q])
                            /\ \A i \in 1 .. Len(ledger[q]) : ledger'[q][i] = ledger[q][i]
  BY <1>1, <1>2, <1>3
<1>7. b.primary = p /\ b.seq = role.seq /\ b.configSeq = ConfigSeq(config) /\ b.req = r
  OBVIOUS
<1> HIDE DEF b
<1>8. ConsentersOK'
  BY <1>1, <1>5 DEF consenters, IInv, TypeOK, ConsentersOK
<1>9. DiskOK'
  BY <1>6 DEF consenters, IInv, TypeOK, DiskOK
<1>10. RoleOK'
  BY <1>1 DEF IInv, TypeOK, RoleOK
<1>11. NodeOK'
  BY DEF IInv, TypeOK, NodeOK
<1>12. AppendsInOrder'
  <2>1. role'.pc = "send" /\ role'.primary = p /\ role'.seq = role.seq
    BY <1>1 DEF IInv, TypeOK, RoleOK
  <2> QED
    BY <1>2, <1>6, <2>1 DEF AppendsInOrder, Height
<1>13. AttestedIsStored'
  <2> SUFFICES ASSUME NEW x \in bafs' \cup sends' PROVE Stored(x)'
    BY DEF AttestedIsStored
  <2>1. CASE x = b
    BY <1>2, <1>6, <1>7, <2>1 DEF Stored, Height
  <2>2. CASE x \in bafs \cup sends
    <3>1. x.primary \in Parties /\ x.seq \in Nat
      BY <2>2 DEF IInv, TypeOK, ConsentersOK, BAF
    <3>2. x.seq < Len(ledger[x.primary]) /\ ledger[x.primary][x.seq + 1] = x.req
      BY <2>2 DEF IInv, AttestedIsStored, Stored, Height
    <3> QED
      <4>1. x.seq + 1 \in 1 .. Len(ledger[x.primary])
        BY <1>6, <3>1, <3>2
      <4>2. ledger'[x.primary][x.seq + 1] = x.req /\ x.seq < Len(ledger'[x.primary])
        BY <1>6, <3>1, <3>2, <4>1
      <4> QED
        BY <4>2 DEF Stored, Height
  <2> QED
    BY <1>1, <2>1, <2>2 DEF consenters
<1>14. PendingReached'
  BY DEF consenters, IInv, PendingReached
<1>15. NotAhead'
  BY <1>1, <1>4, <1>7 DEF consenters, IInv, NotAhead, ConfigSeq
<1> QED
  BY <1>8, <1>9, <1>10, <1>11, <1>12, <1>13, <1>14, <1>15, TypesKept DEF IInv, TypeOK, consenters

LEMMA RoleStepKeeps ==
  ASSUME IInv, RoleOK', AppendsInOrder', NodeOK', NotifyOK',
         UNCHANGED <<consenters, disk, config, repl, stateChan, node, sends>>
  PROVE  IInv'
<1>1. AttestedIsStored'
  BY DEF consenters, disk, IInv, AttestedIsStored, Stored, Height
<1>2. PendingReached'
  BY DEF consenters, IInv, PendingReached
<1>3. NotAhead'
  BY DEF consenters, IInv, NotAhead, ConfigSeq
<1> QED
  BY <1>1, <1>2, <1>3, TypesKept DEF IInv, TypeOK, consenters, disk

LEMMA CutKeeps == ASSUME IInv, NEW r \in Requests, Cut(r) \/ PullBatch(r) PROVE IInv'
<1>1. pool' \in PoolType
  <2>1. pool \in PoolType
    BY DEF IInv, TypeOK, NodeOK
  <2>2. [pool EXCEPT !.held = @ \ {r}, !.fetched = @ \cup {r}] \in PoolType
    BY <2>1 DEF PoolType
  <2> QED
    BY <2>1, <2>2 DEF Cut, PullBatch
<1> QED
  BY <1>1, StoreKeeps DEF Cut, PullBatch

LEMMA RunKeeps == ASSUME IInv, Run PROVE IInv'
<1>1. CASE Begin
  <2> DEFINE p == PrimaryOf(roleTerm)
  <2>1. p \in Parties
    BY PrimaryType DEF IInv, TypeOK, NotifyOK
  <2>2. Height(p) \in Nat
    BY <2>1 DEF Height, IInv, TypeOK, DiskOK
  <2>3. /\ role' = [pc |-> IF p = Me THEN "lead" ELSE "follow", primary |-> p, seq |-> Height(p)]
        /\ pool' = PoolRestart(pool, p = Me)
        /\ UNCHANGED <<consenters, disk, config, repl, notify, stateChan, node, roleTerm,
                       termChan, sends, stop, checked, failures>>
    BY <1>1 DEF Begin
  <2> HIDE DEF p
  <2>4. RoleOK'
    BY <2>1, <2>2, <2>3 DEF RoleOK
  <2>5. AppendsInOrder'
    BY <2>3 DEF AppendsInOrder, Height, disk
  <2>6. pool' \in PoolType
    <3>1. pool \in PoolType /\ (p = Me) \in BOOLEAN
      BY DEF IInv, TypeOK, NodeOK
    <3> QED
      BY <2>3, <3>1, PoolOps
  <2>7. NodeOK'
    BY <2>3, <2>6 DEF IInv, TypeOK, NodeOK
  <2>8. NotifyOK'
    BY <2>3, TypesKept DEF IInv, consenters
  <2> QED
    BY <2>3, <2>4, <2>5, <2>7, <2>8, RoleStepKeeps
<1>2. CASE Sent
  <2>1. role.primary \in Parties /\ role.seq \in Nat /\ Len(ledger[role.primary]) = role.seq + 1
    <3>1. role.primary \in Parties /\ role.seq \in Nat
      BY DEF IInv, TypeOK, RoleOK
    <3>2. Len(ledger[role.primary]) \in Nat
      BY <3>1 DEF IInv, TypeOK, DiskOK
    <3> QED
      BY <1>2, <3>1, <3>2 DEF Sent, IInv, AppendsInOrder, Height
  <2>2. CurrentBAF.req \in Requests
    BY <2>1 DEF CurrentBAF, IInv, TypeOK, DiskOK
  <2>3. /\ role' = [role EXCEPT !.pc = IF role.primary = Me THEN "lead" ELSE "follow",
                                !.seq = role.seq + 1]
        /\ pool' = PoolRemove(pool, CurrentBAF.req)
        /\ UNCHANGED <<consenters, disk, config, repl, notify, stateChan, node, roleTerm,
                       termChan, sends, stop, checked, failures>>
    BY <1>2 DEF Sent
  <2>4. RoleOK'
    <3>1. role.seq + 1 \in Nat
      BY <2>1
    <3>2. CASE role.primary = Me
      BY <2>3, <3>1, <3>2 DEF RoleOK, IInv, TypeOK
    <3>3. CASE role.primary # Me
      BY <2>3, <3>1, <3>3 DEF RoleOK, IInv, TypeOK
    <3> QED
      BY <3>2, <3>3
  <2>5. AppendsInOrder'
    <3>1. role'.primary = role.primary /\ role'.seq = role.seq + 1 /\ role'.pc # "send"
      BY <2>3 DEF IInv, TypeOK, RoleOK
    <3> QED
      BY <2>1, <2>3, <3>1 DEF AppendsInOrder, Height, disk
  <2>6. pool' \in PoolType
    BY <2>2, <2>3, PoolOps DEF IInv, TypeOK, NodeOK
  <2>7. NodeOK'
    BY <2>3, <2>6 DEF IInv, TypeOK, NodeOK
  <2>8. NotifyOK'
    BY <2>3, TypesKept DEF IInv, consenters
  <2> QED
    BY <2>3, <2>4, <2>5, <2>7, <2>8, RoleStepKeeps
<1>3. CASE TermChanges \/ RoleStops
  <2>1. /\ role' = [role EXCEPT !.pc = "top"] \/ role' = [role EXCEPT !.pc = "done"]
        /\ termChan' \in {<<>>, termChan}
        /\ UNCHANGED <<consenters, disk, config, repl, notify, stateChan, node, roleTerm,
                       pool, sends, stop, checked, failures>>
    BY <1>3 DEF TermChanges, RoleStops
  <2>2. RoleOK' /\ role'.pc \in {"top", "done"}
    BY <2>1 DEF IInv, TypeOK, RoleOK
  <2>3. AppendsInOrder'
    BY <2>2 DEF AppendsInOrder
  <2>4. termChan' \in Seq(Nat) /\ Len(termChan') <= 1
    BY <2>1, ChanDrained DEF IInv, TypeOK, NotifyOK
  <2>5. NotifyOK'
    BY <2>1, <2>4 DEF IInv, TypeOK, NotifyOK, consenters
  <2>6. NodeOK'
    BY <2>1, TypesKept DEF IInv
  <2> QED
    BY <2>1, <2>2, <2>3, <2>5, <2>6, RoleStepKeeps
<1> QED
  BY <1>1, <1>2, <1>3 DEF Run

-----------------------------------------------------------------------------
(* Reconfiguration and crashes                                             *)

LEMMA ConfigureKeeps ==
  ASSUME IInv, NEW from \in 1 .. Len(chain), NEW mempool \in PoolType,
         Configure(from, mempool), UNCHANGED <<consenters, ledger, configStore>>,
         wal' \in 0 .. Len(chain), sends' \subseteq sends, checked' \subseteq Requests,
         failures' \in 0 .. MaxFailures
  PROVE  IInv'
<1>1. PrimaryOf(0) \in Parties
  BY PrimaryType
<1>2. Len(chain) \in Nat \ {0} /\ config \in Nat /\ configStore \in Nat /\ config <= configStore
  BY DEF IInv, TypeOK, DiskOK, ConsentersOK
<1>3. ConsentersOK'
  BY DEF consenters, IInv, TypeOK, ConsentersOK
<1>4. DiskOK'
  BY <1>2 DEF Configure, consenters, IInv, TypeOK, DiskOK
<1>5. ReplOK'
  <2>1. stateChan' \in Seq(1 .. Len(chain)) /\ Len(stateChan') <= 1
    BY DEF Configure
  <2> QED
    BY <1>1, <1>2, <2>1 DEF Configure, consenters, ReplOK
<1>6. NotifyOK'
  <2>1. termChan' \in Seq(Nat) /\ Len(termChan') <= 1
    BY DEF Configure
  <2> QED
    BY <1>1, <1>2, <2>1 DEF Configure, consenters, NotifyOK
<1>7. RoleOK' /\ role'.pc = "top"
  BY <1>1 DEF Configure, RoleOK
<1>8. NodeOK'
  BY DEF Configure, NodeOK
<1>9. AppendsInOrder'
  BY <1>7 DEF AppendsInOrder
<1>10. AttestedIsStored'
  BY DEF consenters, IInv, AttestedIsStored, Stored, Height
<1>11. PendingReached'
  BY DEF consenters, IInv, PendingReached
<1>12. NotAhead'
  <2>1. ConfigSeq(config) <= ConfigSeq(configStore)
    BY <1>2, ConfigSeqMonotonic
  <2>2. ConfigSeq(config) \in Nat /\ ConfigSeq(configStore) \in Nat
    BY <1>2, ConfigSeqType
  <2>3. ConfigSeq(config)' = ConfigSeq(configStore)
    BY DEF Configure, ConfigSeq, consenters
  <2>4. \A b \in bafs' \cup sends' : b.configSeq \in Nat /\ b.configSeq <= ConfigSeq(config)
    BY DEF consenters, IInv, NotAhead, TypeOK, ConsentersOK, BAF
  <2> QED
    BY <2>1, <2>2, <2>3, <2>4 DEF NotAhead
<1> QED
  BY <1>3, <1>4, <1>5, <1>6, <1>7, <1>8, <1>9, <1>10, <1>11, <1>12 DEF IInv, TypeOK

LEMMA RestartKeeps ==
  ASSUME IInv, Reconfigure \/ \E i \in 0 .. Len(chain) : Crash(i)
  PROVE  IInv'
<1>1. configStore \in 1 .. Len(chain) /\ wal \in 0 .. Len(chain) /\ Len(chain) \in Nat
  BY DEF IInv, TypeOK, DiskOK, ConsentersOK
<1>2. CASE Reconfigure
  <2>1. [pool EXCEPT !.held = @ \ Invalid] \in PoolType
    BY DEF IInv, TypeOK, NodeOK, PoolType
  <2> DEFINE m == [pool EXCEPT !.held = @ \ Invalid]
  <2>2. Configure(configStore, m) /\ UNCHANGED <<consenters, disk, sends, checked, failures>>
    BY <1>2 DEF Reconfigure
  <2>3. checked \subseteq Requests /\ failures \in 0 .. MaxFailures
    BY DEF IInv, TypeOK, NodeOK
  <2> HIDE DEF m
  <2> QED
    BY <1>1, <2>1, <2>2, <2>3, ConfigureKeeps DEF disk, m
<1>3. ASSUME NEW i \in 0 .. Len(chain), Crash(i) PROVE IInv'
  <2> DEFINE from == IF i > 1 THEN i ELSE configStore
  <2>1. from \in 1 .. Len(chain)
    BY <1>1
  <2>2. EmptyPool \in PoolType
    BY DEF EmptyPool, PoolType
  <2>3. failures' \in 0 .. MaxFailures
    BY <1>3, BatcherAssumption DEF Crash, IInv, TypeOK, NodeOK
  <2>4. /\ Configure(from, EmptyPool) /\ wal' = i /\ sends' = {} /\ checked' = {}
        /\ UNCHANGED <<consenters, ledger, configStore>>
    BY <1>3 DEF Crash
  <2> HIDE DEF from
  <2> QED
    BY <2>1, <2>2, <2>3, <2>4, ConfigureKeeps
<1> QED
  BY <1>2, <1>3

-----------------------------------------------------------------------------
(* The theorems                                                            *)

LEMMA NextIInv == IInv /\ [Next]_vars => IInv'
<1> SUFFICES ASSUME IInv, [Next]_vars PROVE IInv'
  OBVIOUS
<1>1. ASSUME NEW r \in Requests, Verify(r) \/ Submit(r) \/ Cut(r) \/ PullBatch(r) PROVE IInv'
  BY <1>1, VerifyKeeps, CutKeeps
<1>2. ASSUME NEW new \in SUBSET arriving,
             NEW done \in SUBSET (chain[Len(chain)].pending \cup new),
             NEW t \in 0 .. MaxTerm, NEW c \in BOOLEAN, Order(new, done, t, c)
      PROVE  IInv'
  BY <1>2, OrderKeeps
<1>3. ASSUME NEW b \in sends, Reach(b) \/ Cancel(b) PROVE IInv'
  BY <1>3, SendKeeps
<1>4. CASE Expire
  BY <1>4, ExpireKeeps
<1>5. CASE Reconnect \/ Replicator
  BY <1>5, PullKeeps, PutKeeps DEF Replicator
<1>6. CASE Notifier \/ Run
  BY <1>6, NotifierKeeps, RunKeeps
<1>7. CASE Stopping \/ \E i \in 0 .. Len(chain) : Crash(i)
  BY <1>7, StopKeeps, RestartKeeps DEF Stopping
<1>8. CASE UNCHANGED vars
  <2>1. UNCHANGED <<chain, arriving, bafs, sends, ledger, wal, configStore, config, repl,
                    notify, role, stateChan, node, roleTerm, termChan, pool, checked, stop,
                    failures>>
    BY <1>8 DEF vars, consenters, disk, threads
  <2> QED
    BY <2>1, TypesKept, OthersKeep DEF IInv, TypeOK
<1> QED
  BY <1>1, <1>2, <1>3, <1>4, <1>5, <1>6, <1>7, <1>8 DEF Next

\* The inductive invariant of the batcher's threads, ledgers and fragments.
THEOREM IInvHolds == Spec => []IInv
  BY InitIInv, NextIInv, PTL DEF Spec

\* Whatever a batcher attests stays stored in its ledgers, across any number of
\* term changes, configs, reconnections and crashes.
THEOREM Attested == Spec => []AttestedIsStored
<1>1. IInv => AttestedIsStored
  BY DEF IInv
<1> QED
  BY <1>1, IInvHolds, PTL

\* The role never appends at a sequence that the ledger would reject.
THEOREM InOrder == Spec => []AppendsInOrder
<1>1. IInv => AppendsInOrder
  BY DEF IInv
<1> QED
  BY <1>1, IInvHolds, PTL

LEMMA ReviveValid ==
  ASSUME IInv, NEW B \in SUBSET bafs, NEW r \in Revive(pool, B).held \ pool.held
  PROVE  Valid(r) \/ \E b \in bafs : b.req = r /\ b.configSeq = ConfigSeq(config)
<1> DEFINE R == {ledger[b.primary][b.seq + 1] : b \in
                   {x \in B : x.configSeq < ConfigSeq(config)
                                => Valid(ledger[x.primary][x.seq + 1])}}
<1>1. Revive(pool, B) = PoolSubmit(pool, R)
  BY DEF Revive
<1>2. pool \in PoolType
  BY DEF IInv, TypeOK, NodeOK
<1>3. r \in R
  <2> HIDE DEF R
  <2> QED
    BY <1>1, <1>2 DEF PoolSubmit, PoolType
<1>4. PICK b \in B : /\ r = ledger[b.primary][b.seq + 1]
                     /\ b.configSeq < ConfigSeq(config) => Valid(ledger[b.primary][b.seq + 1])
  BY <1>3
<1>5. b \in bafs /\ b.req = r
  BY <1>4 DEF IInv, AttestedIsStored, Stored
<1>6. b.configSeq \in Nat /\ ConfigSeq(config) \in Nat /\ b.configSeq <= ConfigSeq(config)
  BY <1>5, ConfigSeqType DEF IInv, NotAhead, TypeOK, ConsentersOK, DiskOK, BAF
<1>7. Valid(r) \/ b.configSeq = ConfigSeq(config)
  BY <1>4, <1>6
<1> QED
  BY <1>5, <1>7

\* Neither a decision nor a term change brings back a request that a config made
\* invalid, unless a batch of the current config already contains it.
THEOREM RevivedAreValid == Spec => OldConfigRevivesOnlyValid
<1> DEFINE ReviveStep ==
      Pull \/ ResubmitPendingBAFs =>
        \A r \in pool'.held \ pool.held :
          Valid(r) \/ \E b \in bafs : b.req = r /\ b.configSeq = ConfigSeq(config)
<1>1. IInv => ReviveStep
  <2> SUFFICES ASSUME IInv, Pull \/ ResubmitPendingBAFs, NEW r \in pool'.held \ pool.held
               PROVE  Valid(r) \/ \E b \in bafs : b.req = r /\ b.configSeq = ConfigSeq(config)
    OBVIOUS
  <2>1. CASE Pull
    <3>1. repl.next \in 1 .. Len(chain)
      BY <2>1 DEF Pull, IInv, TypeOK, ReplOK, ConsentersOK
    <3> DEFINE d == chain[repl.next]
               B == (IF d.config /\ repl.next = configStore THEN d.pending ELSE {}) \cup d.stale
    <3>2. B \subseteq bafs
      BY <3>1 DEF IInv, PendingReached
    <3>3. pool' = pool \/ pool' = Revive(pool, B)
      BY <2>1 DEF Pull
    <3> HIDE DEF B
    <3> QED
      BY <3>2, <3>3, ReviveValid
  <2>2. CASE ResubmitPendingBAFs
    <3>1. PendingOfPrev \subseteq bafs
      BY DEF PendingOfPrev, IInv, PendingReached, TypeOK, NotifyOK
    <3> QED
      BY <2>2, <3>1, ReviveValid DEF ResubmitPendingBAFs
  <2> QED
    BY <2>1, <2>2
<1>2. IInv => [ReviveStep]_vars
  BY <1>1
<1> QED
  BY <1>2, IInvHolds, PTL DEF OldConfigRevivesOnlyValid
=============================================================================
