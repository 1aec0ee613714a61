------------------------------- MODULE Acker -------------------------------
(***************************************************************************)
(* The flow control of a shard's primary: the Acker of                     *)
(* node/batcher/acker.go, the part of runPrimary that waits for it, and    *)
(* the secondaries that store batches and ack them (runSecondary,          *)
(* PrimaryAckConnector).                                                   *)
(*                                                                         *)
(* A secondary may store a batch and never ack it: it stops or leaves the  *)
(* term in between, or SendAck gives up.  An ack that was sent may arrive  *)
(* late, several times, after later ones, or be lost with its connection.  *)
(* Acks are per sequence, so a later one does not make up for one that is  *)
(* missing.  Faulty secondaries ack anything.                              *)
(***************************************************************************)
EXTENDS Integers, FiniteSets

CONSTANTS
  Parties,    \* the batchers of the shard
  Primary,    \* the one that is the primary
  Faulty,     \* the secondaries that may deviate
  Behind,     \* bound: the secondaries that may be behind when the term starts
  Threshold,  \* f+1
  Gap,        \* BatchSequenceGap
  First,      \* the height of the primary's ledger when its term starts
  MaxSeq,     \* bound: the last sequence the primary reaches
  Modulus     \* sequences are unsigned numbers below Modulus

ASSUME AckerAssumption ==
  /\ IsFiniteSet(Parties) /\ Primary \in Parties
  /\ Faulty \subseteq Parties \ {Primary} /\ Behind \subseteq Parties
  /\ Threshold \in Nat /\ Cardinality(Faulty) < Threshold
  /\ Gap \in Nat \ {0}
  /\ First \in Nat /\ MaxSeq \in Nat
  /\ Modulus \in Nat /\ Modulus > MaxSeq + Gap + 1

VARIABLES
  seq,           \* b.seq of the primary
  sending,       \* the batch seq is stored, and its BAF is being sent
  stored,        \* stored[p]: the height of secondary p's ledger for the primary
  acking,        \* acking[p]: p stored a batch and has yet to ack it
  sent,          \* <<s, p>>: p sent an ack for s, which may still arrive
  confirmedSeq,  \* Acker.confirmedSeq
  acks,          \* Acker.confirmedSequences, as pairs <<s, p>>
  delivered,     \* history: the acks of correct batchers that arrived
  lost           \* history: the acks of correct batchers that never will

primary == <<seq, sending>>
secondaries == <<stored, acking>>
acker == <<confirmedSeq, acks, delivered>>
vars == <<primary, secondaries, sent, lost, acker>>

Secondaries == Parties \ {Primary}

Correct == Parties \ Faulty

Votes(A, s) == {p \in Parties : <<s, p>> \in A}

\* How many batches the primary has created.
Created == IF sending THEN seq + 1 ELSE seq

\* Subtraction of unsigned numbers.
Minus(a, b) == IF a >= b THEN a - b ELSE a - b + Modulus

\* Mutant: the acker starts at 0 in every term.
Init_FromZero ==
  /\ seq = First /\ sending = FALSE
  /\ stored \in [Secondaries \ Faulty -> 0 .. First]
  /\ \A p \in Secondaries \ (Faulty \cup Behind) : stored[p] = First
  /\ acking = [p \in Secondaries \ Faulty |-> FALSE]
  /\ sent = {} /\ lost = {}
  /\ confirmedSeq = 0 /\ acks = {} /\ delivered = {}

\* A secondary may be behind the primary when the term starts.
Init ==
  /\ seq = First /\ sending = FALSE
  /\ stored \in [Secondaries \ Faulty -> 0 .. First]
  /\ \A p \in Secondaries \ (Faulty \cup Behind) : stored[p] = First
  /\ acking = [p \in Secondaries \ Faulty |-> FALSE]
  /\ sent = {} /\ lost = {}
  /\ confirmedSeq = First /\ acks = {} /\ delivered = {}

\* Mutant: the oldest batch is looked at only if the ack is for it.
HandleAck_OnlyThisSeq(s, p) ==
  LET got == acks \cup {<<s, p>>}
  IN /\ delivered' = IF p \in Correct THEN delivered \cup {<<s, p>>} ELSE delivered
     /\ IF s < confirmedSeq \/ Minus(s, confirmedSeq) > Gap \/ <<s, p>> \in acks
        THEN UNCHANGED <<confirmedSeq, acks>>
        ELSE IF s = confirmedSeq /\ Cardinality(Votes(got, s)) >= Threshold
        THEN /\ acks' = {a \in got : a[1] # confirmedSeq}
             /\ confirmedSeq' = confirmedSeq + 1
        ELSE acks' = got /\ UNCHANGED confirmedSeq

\* Mutant: f acks are enough.
HandleAck_OneLess(s, p) ==
  LET got == acks \cup {<<s, p>>}
  IN /\ delivered' = IF p \in Correct THEN delivered \cup {<<s, p>>} ELSE delivered
     /\ IF s < confirmedSeq \/ Minus(s, confirmedSeq) > Gap \/ <<s, p>> \in acks
        THEN UNCHANGED <<confirmedSeq, acks>>
        ELSE IF Cardinality(Votes(got, confirmedSeq)) >= Threshold - 1
        THEN /\ acks' = {a \in got : a[1] # confirmedSeq}
             /\ confirmedSeq' = confirmedSeq + 1
        ELSE acks' = got /\ UNCHANGED confirmedSeq

\* Acker.HandleAck: an ack for any sequence in the window may confirm the oldest
\* one, and only that.
HandleAck(s, p) ==
  LET got == acks \cup {<<s, p>>}
  IN /\ delivered' = IF p \in Correct THEN delivered \cup {<<s, p>>} ELSE delivered
     /\ IF s < confirmedSeq \/ Minus(s, confirmedSeq) > Gap \/ <<s, p>> \in acks
        THEN UNCHANGED <<confirmedSeq, acks>>
        ELSE IF Cardinality(Votes(got, confirmedSeq)) >= Threshold
        THEN /\ acks' = {a \in got : a[1] # confirmedSeq}
             /\ confirmedSeq' = confirmedSeq + 1
        ELSE acks' = got /\ UNCHANGED confirmedSeq

\* Mutant: off by one.
SecondariesKeepUpWithMe_OrEqual(s) == Minus(s, confirmedSeq) <= Gap

SecondariesKeepUpWithMe(s) == Minus(s, confirmedSeq) < Gap

\* runPrimary: the wait is over, the next batch is cut and stored.
Cut ==
  /\ ~sending /\ seq < MaxSeq
  /\ SecondariesKeepUpWithMe(seq)
  /\ sending' = TRUE
  /\ UNCHANGED <<seq, secondaries, sent, lost, acker>>

\* runPrimary: the BAF is sent; the primary acks its own batch and goes on.
Sent ==
  /\ sending
  /\ HandleAck(seq, Primary)
  /\ seq' = seq + 1 /\ sending' = FALSE
  /\ UNCHANGED <<secondaries, sent, lost>>

\* runSecondary: the next batch is pulled and stored, and the BAF is being sent.
Store(p) ==
  /\ ~acking[p] /\ stored[p] < Created
  /\ stored' = [stored EXCEPT ![p] = @ + 1]
  /\ acking' = [acking EXCEPT ![p] = TRUE]
  /\ UNCHANGED <<primary, sent, lost, acker>>

\* Mutant: the sequence is incremented before it is acked.
Ack_Next(p) ==
  /\ acking[p]
  /\ acking' = [acking EXCEPT ![p] = FALSE]
  /\ sent' = sent \cup {<<stored[p], p>>}
  /\ UNCHANGED <<primary, stored, lost, acker>>

\* runSecondary: the BAF was sent, and SendAck sends the ack.
Ack(p) ==
  /\ acking[p]
  /\ acking' = [acking EXCEPT ![p] = FALSE]
  /\ sent' = sent \cup {<<stored[p] - 1, p>>}
  /\ UNCHANGED <<primary, stored, lost, acker>>

\* SendAck gives up; or the secondary left its loop, on a stop or a new term,
\* with the batch stored, and goes on behind it when it acts for the primary
\* again.
GiveUp(p) ==
  /\ acking[p]
  /\ acking' = [acking EXCEPT ![p] = FALSE]
  /\ lost' = lost \cup {<<stored[p] - 1, p>>}
  /\ UNCHANGED <<primary, stored, sent, acker>>

\* The connection breaks with the ack under way.
Lose(s, p) ==
  /\ <<s, p>> \in sent \ delivered
  /\ sent' = sent \ {<<s, p>>}
  /\ lost' = lost \cup {<<s, p>>}
  /\ UNCHANGED <<primary, secondaries, acker>>

\* NotifyAck: an ack arrives at the primary.
Receive(s, p) ==
  /\ <<s, p>> \in sent \/ p \in Faulty
  /\ HandleAck(s, p)
  /\ UNCHANGED <<primary, secondaries, sent, lost>>

Seqs == 0 .. MaxSeq + Gap

Next ==
  \/ Cut
  \/ Sent
  \/ \E p \in Secondaries \ Faulty : Store(p) \/ Ack(p) \/ GiveUp(p)
  \/ \E s \in Seqs, p \in Secondaries : Receive(s, p) \/ Lose(s, p)

Spec == Init /\ [][Next]_vars

\* The loops of the primary and of the secondaries go on when they can; SendAck
\* returns, with the ack sent or not, and what is sent arrives or is lost.
Fairness ==
  /\ WF_vars(Cut \/ Sent)
  /\ \A p \in Secondaries \ Faulty :
       /\ WF_vars(Store(p) \/ Ack(p) \/ GiveUp(p))
       /\ WF_vars(\E s \in Seqs : \/ Lose(s, p)
                                  \/ <<s, p>> \notin delivered /\ Receive(s, p))

FairSpec == Spec /\ Fairness

-----------------------------------------------------------------------------
(* Properties                                                              *)

TypeOK ==
  /\ seq \in Nat /\ seq >= First
  /\ sending \in BOOLEAN
  /\ stored \in [Secondaries \ Faulty -> Nat]
  /\ acking \in [Secondaries \ Faulty -> BOOLEAN]
  /\ sent \cup lost \subseteq Nat \X (Secondaries \ Faulty)
  /\ confirmedSeq \in Nat /\ confirmedSeq >= First
  /\ acks \subseteq Nat \X Parties
  /\ delivered \subseteq Nat \X Correct

\* The correct batchers that have batch s of this term in their ledgers.
Holders(s) ==
  {p \in Correct : IF p = Primary THEN Created > s ELSE stored[p] > s}

\* Whatever order the acks arrive in, which of them are missing and what the
\* faulty ones ack, a confirmed batch is in the ledgers of f+1 batchers, less the
\* faulty ones (HandleAck).
ConfirmedIsHeld ==
  \A s \in First .. confirmedSeq - 1 :
    Cardinality(Holders(s)) >= Threshold - Cardinality(Faulty)

\* When the primary waits it is never behind what is confirmed, where the
\* subtraction in secondariesKeepUpWithMe would wrap around and it would wait
\* for ever, and never more than Gap ahead.
WithinGap ==
  /\ Created - confirmedSeq <= Gap
  /\ ~sending => confirmedSeq <= seq

\* HandleAck confirms at most one sequence per ack, yet the primary never waits
\* for an ack that it was already given: if it has to wait, then f+1 correct
\* batchers have not all been heard of for some batch in the window.
WaitsForAReason ==
  ~sending /\ ~SecondariesKeepUpWithMe(seq)
    => \E s \in confirmedSeq .. seq - 1 :
         Cardinality(Votes(delivered, s)) < Threshold

\* The primary goes on for ever, unless so many acks for one batch are missing
\* that fewer than f+1 correct batchers are left to confirm it: nothing sends an
\* ack again, and WaitForSecondaries has no timeout.
PrimaryGoesOn ==
  <>(\/ seq = MaxSeq
     \/ \E s \in First .. MaxSeq : Cardinality(Correct \ Votes(lost, s)) < Threshold)
=============================================================================
