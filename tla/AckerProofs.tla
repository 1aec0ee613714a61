---------------------------- MODULE AckerProofs ----------------------------
(***************************************************************************)
(* Proofs about the module Acker, for every number of batchers, every      *)
(* threshold above the number of faulty ones and every gap.                *)
(***************************************************************************)
EXTENDS Acker, FiniteSetTheorems, TLAPS

\* What was sent or is counted for a correct batcher is true.
AcksAreTrue ==
  /\ \A s \in Nat, p \in Secondaries \ Faulty : <<s, p>> \in sent => s < stored[p]
  /\ \A s \in Nat, p \in Secondaries \ Faulty : <<s, p>> \in acks => s < stored[p]
  /\ \A s \in Nat : <<s, Primary>> \in acks => s < seq
  /\ \A p \in Secondaries \ Faulty : stored[p] <= Created
  /\ \A p \in Secondaries \ Faulty : acking[p] => stored[p] > 0

\* No ack of a correct batcher that still matters was dropped.
AcksAreKept ==
  \A s \in Nat, p \in Correct :
    <<s, p>> \in delivered /\ s >= confirmedSeq => <<s, p>> \in acks

\* The oldest sequence may have f+1 acks and not be confirmed, but not when the
\* primary has to wait.
OldestIsOpen ==
  Cardinality(Votes(acks, confirmedSeq)) >= Threshold => seq - confirmedSeq < Gap

\* No sequence that is not created yet is confirmed.
NotAhead == confirmedSeq <= Created

IInv ==
  /\ TypeOK /\ WithinGap /\ NotAhead
  /\ AcksAreTrue /\ AcksAreKept /\ OldestIsOpen /\ ConfirmedIsHeld

-----------------------------------------------------------------------------

\* Subsets of the batchers are finite, and smaller ones have fewer members.
LEMMA PartiesCard ==
  ASSUME NEW S \in SUBSET Parties, NEW T \in SUBSET Parties, S \subseteq T
  PROVE  /\ Cardinality(S) \in Nat /\ Cardinality(T) \in Nat
         /\ Cardinality(S) <= Cardinality(T)
<1>1. IsFiniteSet(S) /\ IsFiniteSet(T)
  BY AckerAssumption, FS_Subset
<1> QED
  BY <1>1, FS_CardinalityType, FS_Subset

\* A batch that more batchers hold is still held by enough.
LEMMA HeldStays ==
  ASSUME NEW S \in SUBSET Parties, NEW T \in SUBSET Parties, S \subseteq T,
         Cardinality(S) >= Threshold - Cardinality(Faulty)
  PROVE  Cardinality(T) >= Threshold - Cardinality(Faulty)
<1>1. Cardinality(Faulty) \in Nat
  BY AckerAssumption, FS_Subset, FS_CardinalityType
<1> QED
  BY <1>1, PartiesCard, AckerAssumption

\* Of the voters at most the faulty ones are missing from a set that has all the
\* correct ones.
LEMMA MostVotes ==
  ASSUME NEW V \in SUBSET Parties, NEW H \in SUBSET Parties, V \subseteq H \cup Faulty,
         Cardinality(V) >= Threshold
  PROVE  Cardinality(H) >= Threshold - Cardinality(Faulty)
<1>1. IsFiniteSet(V) /\ IsFiniteSet(H) /\ IsFiniteSet(Faulty) /\ IsFiniteSet(H \cup Faulty)
  BY AckerAssumption, FS_Subset
<1>2. /\ Cardinality(V) \in Nat /\ Cardinality(H) \in Nat
      /\ Cardinality(Faulty) \in Nat /\ Cardinality(H \cap Faulty) \in Nat
  BY <1>1, FS_CardinalityType, FS_Subset, FS_Intersection
<1>3. Cardinality(V) <= Cardinality(H \cup Faulty)
  BY <1>1, FS_Subset
<1>4. Cardinality(H \cup Faulty) = Cardinality(H) + Cardinality(Faulty) - Cardinality(H \cap Faulty)
  BY <1>1, FS_Union
<1> QED
  BY <1>2, <1>3, <1>4, AckerAssumption

\* What a call of HandleAck leaves: the ack is ignored, counted, or it confirms
\* the oldest sequence.
LEMMA HandleAckCases ==
  ASSUME TypeOK, NEW s \in Nat, NEW p \in Parties, HandleAck(s, p)
  PROVE  /\ delivered' = IF p \in Correct THEN delivered \cup {<<s, p>>} ELSE delivered
         /\ \/ /\ s < confirmedSeq \/ s - confirmedSeq > Gap \/ <<s, p>> \in acks
               /\ acks' = acks /\ confirmedSeq' = confirmedSeq
            \/ /\ s >= confirmedSeq /\ s - confirmedSeq <= Gap
               /\ Cardinality(Votes(acks \cup {<<s, p>>}, confirmedSeq)) >= Threshold
               /\ acks' = {a \in acks \cup {<<s, p>>} : a[1] # confirmedSeq}
               /\ confirmedSeq' = confirmedSeq + 1
            \/ /\ s >= confirmedSeq /\ s - confirmedSeq <= Gap
               /\ ~(Cardinality(Votes(acks \cup {<<s, p>>}, confirmedSeq)) >= Threshold)
               /\ acks' = acks \cup {<<s, p>>} /\ confirmedSeq' = confirmedSeq
  BY AckerAssumption DEF HandleAck, Minus, TypeOK

\* The initial states satisfy the inductive invariant.
LEMMA InitIInv == Init => IInv
<1> SUFFICES ASSUME Init PROVE IInv
  OBVIOUS
<1>1. TypeOK
  <2>1. 0 .. First \subseteq Nat
    BY AckerAssumption
  <2>2. /\ stored \in [Secondaries \ Faulty -> Nat]
        /\ acking \in [Secondaries \ Faulty -> BOOLEAN]
    BY <2>1 DEF Init
  <2>3. sending \in BOOLEAN
    BY DEF Init
  <2>4. /\ sent \cup lost \subseteq Nat \X (Secondaries \ Faulty) /\ acks \subseteq Nat \X Parties
        /\ delivered \subseteq Nat \X Correct
    BY DEF Init
  <2>5. seq \in Nat /\ seq >= First /\ confirmedSeq \in Nat /\ confirmedSeq >= First
    BY AckerAssumption DEF Init
  <2> QED
    BY <2>2, <2>3, <2>4, <2>5 DEF TypeOK
<1>4. WithinGap /\ NotAhead
  BY AckerAssumption DEF Init, WithinGap, NotAhead, Created
<1>2. AcksAreTrue /\ AcksAreKept
  BY AckerAssumption DEF Init, AcksAreTrue, AcksAreKept, Created
<1>3. OldestIsOpen /\ ConfirmedIsHeld
  BY AckerAssumption DEF Init, OldestIsOpen, ConfirmedIsHeld
<1> QED
  BY <1>1, <1>2, <1>3, <1>4 DEF IInv

\* A sequence that is not created yet has the acks of faulty batchers only.
LEMMA FewAcksAhead ==
  ASSUME IInv, NEW s \in Nat, NEW p \in Parties,
         p \in Correct => s < Created
  PROVE  ~(Cardinality(Votes(acks \cup {<<s, p>>}, Created)) >= Threshold)
<1>1. Created \in Nat
  BY DEF IInv, TypeOK, Created
<1>2. Votes(acks \cup {<<s, p>>}, Created) \subseteq Faulty
  <2> SUFFICES ASSUME NEW q \in Parties, <<Created, q>> \in acks \cup {<<s, p>>},
                      q \notin Faulty
               PROVE  FALSE
    BY DEF Votes
  <2>1. CASE q = p /\ Created = s
    BY <2>1, <1>1 DEF Correct
  <2>2. CASE <<Created, q>> \in acks /\ q = Primary
    BY <2>2, <1>1 DEF IInv, AcksAreTrue, Created, TypeOK
  <2>3. CASE <<Created, q>> \in acks /\ q # Primary
    <3>1. q \in Secondaries \ Faulty
      BY <2>3 DEF Secondaries
    <3>2. Created < stored[q] /\ stored[q] <= Created /\ stored[q] \in Nat
      BY <3>1, <2>3, <1>1 DEF IInv, AcksAreTrue, TypeOK
    <3> QED
      BY <3>2, <1>1
  <2> QED
    BY <2>1, <2>2, <2>3
<1>3. Votes(acks \cup {<<s, p>>}, Created) \in SUBSET Parties /\ Faulty \in SUBSET Parties
  BY AckerAssumption DEF Votes
<1>4. /\ Cardinality(Votes(acks \cup {<<s, p>>}, Created)) \in Nat
      /\ Cardinality(Faulty) \in Nat
      /\ Cardinality(Votes(acks \cup {<<s, p>>}, Created)) <= Cardinality(Faulty)
  BY <1>2, <1>3, PartiesCard
<1> QED
  BY <1>4, AckerAssumption

\* HandleAck preserves the invariant, for the primary's own ack and for the ack of
\* a secondary.
LEMMA HandleAckInv ==
  ASSUME IInv, NEW s \in Nat, NEW p \in Parties, HandleAck(s, p),
         UNCHANGED <<secondaries, sent, lost>>,
         p \in Secondaries \ Faulty => s < stored[p],
         \/ p = Primary /\ s = seq /\ sending /\ ~sending' /\ seq' = seq + 1
         \/ p # Primary /\ UNCHANGED <<seq, sending>>,
         sending' \in BOOLEAN
  PROVE  IInv'
<1> USE AckerAssumption DEF secondaries
<1>a. TypeOK /\ WithinGap /\ NotAhead /\ AcksAreTrue /\ AcksAreKept /\ OldestIsOpen
      /\ ConfirmedIsHeld
  BY DEF IInv
<1>b. /\ Created \in Nat /\ Created' = Created /\ seq \in Nat /\ confirmedSeq \in Nat
      /\ seq <= Created
  BY <1>a DEF TypeOK, Created
<1>c. p \in Correct => s < Created
  BY <1>a, <1>b DEF AcksAreTrue, Created, Correct, Secondaries, TypeOK
<1>d. p \in Correct => s - confirmedSeq <= Gap
  BY <1>a, <1>b, <1>c DEF WithinGap
<1> DEFINE got == acks \cup {<<s, p>>}
<1>e. /\ delivered' = IF p \in Correct THEN delivered \cup {<<s, p>>} ELSE delivered
      /\ \/ /\ s < confirmedSeq \/ s - confirmedSeq > Gap \/ <<s, p>> \in acks
            /\ acks' = acks /\ confirmedSeq' = confirmedSeq
         \/ /\ s >= confirmedSeq /\ s - confirmedSeq <= Gap
            /\ Cardinality(Votes(got, confirmedSeq)) >= Threshold
            /\ acks' = {a \in got : a[1] # confirmedSeq}
            /\ confirmedSeq' = confirmedSeq + 1
         \/ /\ s >= confirmedSeq /\ s - confirmedSeq <= Gap
            /\ ~(Cardinality(Votes(got, confirmedSeq)) >= Threshold)
            /\ acks' = got /\ confirmedSeq' = confirmedSeq
  BY <1>a, HandleAckCases
<1>1. TypeOK'
  BY <1>a, <1>b, <1>e DEF TypeOK, Correct
<1>2. NotAhead'
  <2>1. CASE confirmedSeq' = confirmedSeq
    BY <2>1, <1>a, <1>b DEF NotAhead
  <2>2. CASE confirmedSeq' = confirmedSeq + 1
    <3>1. Cardinality(Votes(got, confirmedSeq)) >= Threshold
      BY <2>2, <1>e, <1>b
    <3>2. confirmedSeq # Created
      BY <3>1, <1>c, FewAcksAhead
    <3> QED
      BY <3>2, <2>2, <1>a, <1>b DEF NotAhead
  <2> QED
    BY <2>1, <2>2, <1>e
<1>3. WithinGap'
  <2>1. Created' - confirmedSeq' <= Gap
    BY <1>a, <1>b, <1>e DEF WithinGap
  <2>2. ~sending' => Created' = seq'
    BY DEF Created
  <2>3. ~sending' => confirmedSeq' <= seq'
    BY <2>2, <1>2 DEF NotAhead
  <2> QED
    BY <2>1, <2>3 DEF WithinGap
<1>4. AcksAreTrue'
  <2>1. got \subseteq Nat \X Parties /\ acks' \subseteq got
    BY <1>a, <1>e DEF TypeOK
  <2>2. \A t \in Nat, q \in Secondaries \ Faulty : <<t, q>> \in acks' => t < stored[q]
    BY <2>1, <1>a DEF AcksAreTrue
  <2>3. \A t \in Nat : <<t, Primary>> \in acks' => t < seq'
    BY <2>1, <1>a, <1>b DEF AcksAreTrue
  <2> QED
    BY <2>2, <2>3, <1>a, <1>b DEF AcksAreTrue
<1>5. AcksAreKept'
  <2> SUFFICES ASSUME NEW t \in Nat, NEW q \in Correct, <<t, q>> \in delivered',
                      t >= confirmedSeq'
               PROVE  <<t, q>> \in acks'
    BY DEF AcksAreKept
  <2>1. t >= confirmedSeq
    BY <1>e, <1>b
  <2>2. CASE <<t, q>> \in delivered
    BY <2>1, <2>2, <1>a, <1>b, <1>e DEF AcksAreKept
  <2>3. CASE t = s /\ q = p
    BY <2>3, <2>1, <1>b, <1>d, <1>e
  <2> QED
    BY <2>2, <2>3, <1>e
<1>6. OldestIsOpen'
  <2>1. CASE acks' = acks /\ confirmedSeq' = confirmedSeq /\ p # Primary
    BY <2>1, <1>a DEF OldestIsOpen, Votes
  <2>2. CASE acks' = acks /\ confirmedSeq' = confirmedSeq /\ p = Primary /\ s < confirmedSeq
    BY <2>2, <1>b DEF OldestIsOpen
  <2>3. CASE p = Primary
    <3>1. <<s, p>> \notin acks /\ p \in Correct
      BY <2>3, <1>a, <1>b DEF AcksAreTrue, Correct
    <3>2. s < confirmedSeq \/ confirmedSeq' = confirmedSeq + 1 \/ acks' = got
      BY <3>1, <1>d, <1>e, <1>b
    <3>3. CASE confirmedSeq' = confirmedSeq + 1
      BY <3>3, <2>3, <1>a, <1>b DEF OldestIsOpen, WithinGap, Created
    <3>4. CASE s < confirmedSeq
      BY <3>4, <2>2, <2>3, <1>b, <1>e
    <3>5. CASE acks' = got /\ confirmedSeq' = confirmedSeq
      BY <3>5, <3>1, <1>e, <1>b DEF OldestIsOpen, Votes
    <3> QED
      BY <3>2, <3>3, <3>4, <3>5, <1>e
  <2>4. CASE p # Primary /\ confirmedSeq' = confirmedSeq + 1
    BY <2>4, <1>a, <1>b DEF OldestIsOpen, WithinGap, Created
  <2>5. CASE p # Primary /\ acks' = got /\ confirmedSeq' = confirmedSeq
             /\ ~(Cardinality(Votes(got, confirmedSeq)) >= Threshold)
    BY <2>5 DEF OldestIsOpen, Votes
  <2> QED
    BY <2>1, <2>3, <2>4, <2>5, <1>e
<1>7. ConfirmedIsHeld'
  <2>1. \A t : Holders(t)' = Holders(t)
    BY <1>b DEF Holders
  <2>2. CASE confirmedSeq' = confirmedSeq
    BY <2>1, <2>2, <1>a DEF ConfirmedIsHeld
  <2>3. CASE confirmedSeq' = confirmedSeq + 1
    <3>1. Cardinality(Votes(got, confirmedSeq)) >= Threshold
      BY <2>3, <1>e, <1>b
    <3>2. confirmedSeq < Created
      BY <2>3, <1>2, <1>b DEF NotAhead
    <3>3. Votes(got, confirmedSeq) \subseteq Holders(confirmedSeq) \cup Faulty
      <4> SUFFICES ASSUME NEW q \in Parties, <<confirmedSeq, q>> \in got, q \notin Faulty,
                          q # Primary
                   PROVE  stored[q] > confirmedSeq
        BY <3>2, <1>b DEF Votes, Holders, Correct
      <4>1. q \in Secondaries \ Faulty /\ stored[q] \in Nat
        BY <1>a DEF Secondaries, TypeOK
      <4>2. confirmedSeq < stored[q]
        BY <4>1, <1>a, <1>b DEF AcksAreTrue
      <4> QED
        BY <4>1, <4>2, <1>b
    <3>4. Votes(got, confirmedSeq) \in SUBSET Parties /\ Holders(confirmedSeq) \in SUBSET Parties
      BY DEF Votes, Holders, Correct
    <3>5. Cardinality(Holders(confirmedSeq)) >= Threshold - Cardinality(Faulty)
      <4> HIDE DEF got
      <4> QED
        BY <3>1, <3>3, <3>4, MostVotes
    <3> QED
      BY <3>5, <2>1, <2>3, <1>a, <1>b DEF ConfirmedIsHeld
  <2> QED
    BY <2>2, <2>3, <1>e
<1> QED
  BY <1>1, <1>2, <1>3, <1>4, <1>5, <1>6, <1>7 DEF IInv

\* A step that leaves the primary and the ledgers alone disturbs only the types
\* and the truth of the acks.
LEMMA RestStays ==
  ASSUME IInv, UNCHANGED <<seq, sending, stored, confirmedSeq, acks, delivered>>,
         TypeOK', AcksAreTrue'
  PROVE  IInv'
<1>1. Created' = Created /\ \A t : Holders(t)' = Holders(t)
  BY DEF Created, Holders
<1>2. WithinGap' /\ NotAhead'
  BY <1>1 DEF IInv, WithinGap, NotAhead
<1>3. AcksAreKept' /\ OldestIsOpen' /\ ConfirmedIsHeld'
  BY <1>1 DEF IInv, AcksAreKept, OldestIsOpen, ConfirmedIsHeld, Votes
<1> QED
  BY <1>2, <1>3 DEF IInv

\* Every step preserves the inductive invariant.
LEMMA NextIInv == IInv /\ [Next]_vars => IInv'
<1> SUFFICES ASSUME IInv, [Next]_vars PROVE IInv'
  OBVIOUS
<1> USE AckerAssumption
<1>a. TypeOK /\ WithinGap /\ NotAhead /\ AcksAreTrue /\ AcksAreKept /\ OldestIsOpen
      /\ ConfirmedIsHeld
  BY DEF IInv
<1>1. CASE Cut
  <2>1. /\ UNCHANGED <<seq, stored, acking, sent, lost, confirmedSeq, acks, delivered>>
        /\ sending' = TRUE /\ ~sending
    BY <1>1 DEF Cut, secondaries, acker
  <2>2. Created = seq /\ Created' = seq + 1
    BY <2>1 DEF Created
  <2>3. seq - confirmedSeq < Gap /\ seq \in Nat /\ confirmedSeq \in Nat /\ confirmedSeq <= seq
    BY <1>1, <1>a, <2>1 DEF Cut, SecondariesKeepUpWithMe, Minus, WithinGap, TypeOK
  <2>4. TypeOK'
    BY <2>1, <1>a DEF TypeOK
  <2>5. WithinGap' /\ NotAhead'
    BY <2>1, <2>2, <2>3 DEF WithinGap, NotAhead
  <2>6. AcksAreTrue'
    <3>1. \A q \in Secondaries \ Faulty : stored[q] <= seq /\ stored[q] \in Nat
      BY <1>a, <2>2 DEF AcksAreTrue, TypeOK
    <3>2. \A q \in Secondaries \ Faulty : stored[q] <= seq + 1
      BY <3>1, <2>3
    <3> QED
      BY <3>2, <2>1, <2>2, <1>a DEF AcksAreTrue
  <2>7. AcksAreKept' /\ OldestIsOpen'
    BY <2>1, <1>a DEF AcksAreKept, OldestIsOpen, Votes
  <2>8. ConfirmedIsHeld'
    <3>1. \A t \in Nat : Holders(t) \subseteq Holders(t)' /\ Holders(t)' \in SUBSET Parties
                         /\ Holders(t) \in SUBSET Parties
      BY <2>1, <2>2, <2>3 DEF Holders, Correct
    <3>2. \A t \in First .. confirmedSeq - 1 : t \in Nat
      OBVIOUS
    <3>3. \A t \in First .. confirmedSeq - 1 :
            Cardinality(Holders(t)') >= Threshold - Cardinality(Faulty)
      BY <3>1, <3>2, <1>a, HeldStays DEF ConfirmedIsHeld
    <3> QED
      BY <3>3, <2>1 DEF ConfirmedIsHeld
  <2> QED
    BY <2>4, <2>5, <2>6, <2>7, <2>8 DEF IInv
<1>2. CASE Sent
  <2>1. HandleAck(seq, Primary) /\ UNCHANGED <<secondaries, sent, lost>> /\ sending /\ ~sending'
        /\ seq' = seq + 1 /\ sending' \in BOOLEAN
    BY <1>2 DEF Sent
  <2>2. seq \in Nat /\ Primary \in Parties /\ Primary \notin Secondaries
    BY <1>a DEF TypeOK, Secondaries
  <2> QED
    BY <2>1, <2>2, HandleAckInv
<1>3. ASSUME NEW p \in Secondaries \ Faulty, Store(p) PROVE IInv'
  <2>1. /\ UNCHANGED <<seq, sending, sent, lost, confirmedSeq, acks, delivered>>
        /\ stored' = [stored EXCEPT ![p] = @ + 1]
        /\ acking' = [acking EXCEPT ![p] = TRUE]
        /\ stored[p] < Created /\ Created' = Created
    BY <1>3 DEF Store, Created, primary, acker
  <2>2. \A q \in Secondaries \ Faulty :
          stored[q] \in Nat /\ stored'[q] = IF q = p THEN stored[q] + 1 ELSE stored[q]
    BY <2>1, <1>a DEF TypeOK
  <2>a. Created \in Nat
    BY <1>a DEF TypeOK, Created
  <2>4. TypeOK'
    <3>1. stored' \in [Secondaries \ Faulty -> Nat]
      BY <2>1, <1>a DEF TypeOK
    <3>2. acking' \in [Secondaries \ Faulty -> BOOLEAN]
      BY <2>1, <1>a DEF TypeOK
    <3> QED
      BY <3>1, <3>2, <2>1, <1>a DEF TypeOK
  <2>5. WithinGap' /\ NotAhead'
    BY <2>1, <1>a DEF WithinGap, NotAhead
  <2>6. AcksAreTrue'
    <3>1. \A s \in Nat, q \in Secondaries \ Faulty : <<s, q>> \in sent' => s < stored'[q]
      BY <2>1, <2>2, <1>a DEF AcksAreTrue
    <3>2. \A s \in Nat, q \in Secondaries \ Faulty : <<s, q>> \in acks' => s < stored'[q]
      BY <2>1, <2>2, <1>a DEF AcksAreTrue
    <3>3. \A q \in Secondaries \ Faulty : stored'[q] <= Created'
      BY <2>1, <2>2, <2>a, <1>a DEF AcksAreTrue
    <3>5. \A q \in Secondaries \ Faulty : acking'[q] => stored'[q] > 0
      <4>1. \A q \in Secondaries \ Faulty : q # p => acking'[q] = acking[q]
        BY <2>1, <1>a DEF TypeOK
      <4> QED
        BY <4>1, <2>2, <1>a DEF AcksAreTrue
    <3>4. \A s \in Nat : <<s, Primary>> \in acks' => s < seq'
      BY <2>1, <1>a DEF AcksAreTrue
    <3> QED
      BY <3>1, <3>2, <3>3, <3>4, <3>5, Zenon DEF AcksAreTrue
  <2>7. AcksAreKept' /\ OldestIsOpen'
    BY <2>1, <1>a DEF AcksAreKept, OldestIsOpen, Votes
  <2>8. ConfirmedIsHeld'
    <3>1. \A t \in Nat : Holders(t) \subseteq Holders(t)' /\ Holders(t)' \in SUBSET Parties
                         /\ Holders(t) \in SUBSET Parties
      BY <2>1, <2>2 DEF Holders, Correct, Secondaries
    <3>2. \A t \in First .. confirmedSeq - 1 : t \in Nat
      OBVIOUS
    <3>3. \A t \in First .. confirmedSeq - 1 :
            Cardinality(Holders(t)') >= Threshold - Cardinality(Faulty)
      BY <3>1, <3>2, <1>a, HeldStays DEF ConfirmedIsHeld
    <3> QED
      BY <3>3, <2>1 DEF ConfirmedIsHeld
  <2> QED
    BY <2>4, <2>5, <2>6, <2>7, <2>8 DEF IInv
<1>6. ASSUME NEW p \in Secondaries \ Faulty, Ack(p) \/ GiveUp(p) PROVE IInv'
  <2>1. /\ UNCHANGED <<seq, sending, stored, confirmedSeq, acks, delivered>>
        /\ acking' = [acking EXCEPT ![p] = FALSE] /\ acking[p]
        /\ sent' \cup lost' \subseteq sent \cup lost \cup {<<stored[p] - 1, p>>}
        /\ sent' \subseteq sent \cup {<<stored[p] - 1, p>>}
    BY <1>6, Zenon DEF Ack, GiveUp, primary, acker
  <2>2. stored[p] \in Nat /\ stored[p] > 0
    BY <2>1, <1>a DEF TypeOK, AcksAreTrue
  <2>3. TypeOK'
    <3>1. acking' \in [Secondaries \ Faulty -> BOOLEAN]
      BY <2>1, <1>a DEF TypeOK
    <3>2. sent' \cup lost' \subseteq Nat \X (Secondaries \ Faulty)
      BY <2>1, <2>2, <1>a DEF TypeOK
    <3> QED
      BY <3>1, <3>2, <2>1, <1>a DEF TypeOK
  <2>4. AcksAreTrue'
    <3>1. \A t \in Nat, q \in Secondaries \ Faulty : <<t, q>> \in sent' => t < stored'[q]
      BY <2>1, <2>2, <1>a DEF AcksAreTrue
    <3>2. \A q \in Secondaries \ Faulty : acking'[q] => acking[q]
      BY <2>1, <1>a DEF TypeOK
    <3>3. Created' = Created
      BY <2>1 DEF Created
    <3> QED
      BY <3>1, <3>2, <3>3, <2>1, <1>a DEF AcksAreTrue
  <2> QED
    BY <2>1, <2>3, <2>4, RestStays
<1>7. ASSUME NEW s \in Seqs, NEW p \in Secondaries, Lose(s, p) PROVE IInv'
  <2>1. /\ UNCHANGED <<seq, sending, stored, acking, confirmedSeq, acks, delivered>>
        /\ sent' \subseteq sent /\ sent' \cup lost' \subseteq sent \cup lost
    BY <1>7, Zenon DEF Lose, primary, secondaries, acker
  <2>2. TypeOK'
    BY <2>1, <1>a DEF TypeOK
  <2>3. Created' = Created
    BY <2>1 DEF Created
  <2>4. AcksAreTrue'
    BY <2>1, <2>3, <1>a DEF AcksAreTrue
  <2> QED
    BY <2>1, <2>2, <2>4, RestStays
<1>4. ASSUME NEW s \in Seqs, NEW p \in Secondaries, Receive(s, p) PROVE IInv'
  <2>1. /\ HandleAck(s, p) /\ UNCHANGED <<seq, sending, secondaries, sent, lost>>
        /\ <<s, p>> \in sent \/ p \in Faulty
    BY <1>4 DEF Receive, primary
  <2>2. s \in Nat /\ p \in Parties /\ p # Primary
    BY DEF Seqs, Secondaries
  <2>3. p \in Secondaries \ Faulty => s < stored[p]
    BY <2>1, <2>2, <1>a DEF AcksAreTrue
  <2>4. sending' \in BOOLEAN
    BY <2>1, <1>a DEF TypeOK
  <2> QED
    BY <2>1, <2>2, <2>3, <2>4, HandleAckInv
<1>5. CASE UNCHANGED vars
  <2>1. UNCHANGED <<seq, sending, stored, acking, sent, lost, confirmedSeq, acks, delivered>>
    BY <1>5 DEF vars, primary, secondaries, acker
  <2>2. Created' = Created
    BY <2>1 DEF Created
  <2>3. TypeOK' /\ AcksAreTrue'
    BY <2>1, <2>2, <1>a DEF TypeOK, AcksAreTrue
  <2> QED
    BY <2>1, <2>3, RestStays
<1> QED
  BY <1>1, <1>2, <1>3, <1>4, <1>5, <1>6, <1>7 DEF Next

\* The inductive invariant holds in every reachable state.
LEMMA IInvHolds == Spec => []IInv
  BY InitIInv, NextIInv, PTL DEF Spec

\* A batch that the primary's Acker takes for confirmed is in the ledgers of f+1
\* batchers, less the faulty ones, whatever order the acks arrive in and
\* whatever the faulty ones ack (Acker.HandleAck).
THEOREM Held == Spec => []ConfirmedIsHeld
<1>1. IInv => ConfirmedIsHeld
  BY DEF IInv
<1> QED
  BY <1>1, IInvHolds, PTL

\* The primary is never more than the gap ahead of the confirmed sequence, and the
\* unsigned subtraction it waits on never wraps around
\* (Acker.secondariesKeepUpWithMe).
THEOREM GapKept == Spec => []WithinGap
<1>1. IInv => WithinGap
  BY DEF IInv
<1> QED
  BY <1>1, IInvHolds, PTL

\* Although one ack confirms at most one sequence, the primary waits only when
\* some sequence in its window lacks acks (Acker.HandleAck, Acker.wait).
THEOREM NeverStalled == Spec => []WaitsForAReason
<1>1. IInv => WaitsForAReason
  <2> SUFFICES ASSUME IInv, ~sending, ~SecondariesKeepUpWithMe(seq)
               PROVE  \E s \in confirmedSeq .. seq - 1 :
                        Cardinality(Votes(delivered, s)) < Threshold
    BY DEF WaitsForAReason
  <2>1. /\ TypeOK /\ WithinGap /\ AcksAreKept /\ OldestIsOpen
        /\ seq \in Nat /\ confirmedSeq \in Nat
    BY DEF IInv, TypeOK
  <2>2. confirmedSeq <= seq /\ seq - confirmedSeq >= Gap
    BY <2>1, AckerAssumption DEF WithinGap, SecondariesKeepUpWithMe, Minus
  <2>3. confirmedSeq \in confirmedSeq .. seq - 1
    BY <2>1, <2>2, AckerAssumption
  <2>4. ~(Cardinality(Votes(acks, confirmedSeq)) >= Threshold)
    BY <2>1, <2>2, AckerAssumption DEF OldestIsOpen
  <2>5. Votes(delivered, confirmedSeq) \subseteq Votes(acks, confirmedSeq)
    BY <2>1 DEF AcksAreKept, Votes, TypeOK
  <2>6. /\ Votes(delivered, confirmedSeq) \in SUBSET Parties
        /\ Votes(acks, confirmedSeq) \in SUBSET Parties
    BY DEF Votes
  <2>7. /\ Cardinality(Votes(delivered, confirmedSeq)) \in Nat
        /\ Cardinality(Votes(acks, confirmedSeq)) \in Nat
        /\ Cardinality(Votes(delivered, confirmedSeq)) <= Cardinality(Votes(acks, confirmedSeq))
    BY <2>5, <2>6, PartiesCard
  <2>8. Cardinality(Votes(delivered, confirmedSeq)) < Threshold
    BY <2>4, <2>7, AckerAssumption
  <2> QED
    BY <2>3, <2>8
<1> QED
  BY <1>1, IInvHolds, PTL
=============================================================================
