----------------------------- MODULE SessionProofs -----------------------------
(***************************************************************************)
(* What the operators of SigningSession do to a session: the lemmas the    *)
(* proofs about both coordinators rest on.                                 *)
(***************************************************************************)
EXTENDS SigningSession, FiniteSetTheorems, TLAPS

\* The submitters of a store are a finite set, so Count is a natural number.
LEMMA CountType ==
  ASSUME NEW store
  PROVE  /\ IsFiniteSet(Submitters(store))
         /\ Count(store) \in Nat
<1>1. Submitters(store) \subseteq Signers
  BY DEF Submitters
<1>2. IsFiniteSet(Submitters(store))
  BY <1>1, FS_Subset, SessionAssumption
<1> QED
  BY <1>2, FS_CardinalityType DEF Count

\* A store that keeps every entry of another counts at least as many.
LEMMA CountMonotone ==
  ASSUME NEW s, NEW t, \A x \in Signers : s[x] # Absent => t[x] # Absent
  PROVE  Submitters(s) \subseteq Submitters(t) /\ Count(s) <= Count(t)
<1>1. Submitters(s) \subseteq Submitters(t)
  BY DEF Submitters
<1> QED
  BY <1>1, CountType, FS_Subset DEF Count

\* NewSession, AddCommitment and AddShare build sessions.
LEMMA NewSessionType ==
  ASSUME NEW m \in Messages, NEW t \in Thresholds, NEW c \in SCHEMES
  PROVE  NewSession(m, t, c) \in Session
BY DEF NewSession, Session, States, Store

LEMMA RecordType ==
  ASSUME NEW V, NEW store \in Store(V), NEW x \in Signers, NEW b \in V
  PROVE  Record(store, x, b) \in Store(V)
BY DEF Record, Store

LEMMA AddShareType ==
  ASSUME NEW s \in Session, NEW x \in Signers, NEW b \in Blobs
  PROVE  AddShare(s, x, b) \in Session
<1>1. Record(s.shares, x, b) \in Store(Blobs)
  BY RecordType DEF Session
<1> QED
  BY <1>1 DEF AddShare, Session

LEMMA AddCommitmentType ==
  ASSUME NEW s \in Session, NEW x \in Signers, NEW b \in Commitments
  PROVE  AddCommitment(s, x, b) \in Session
<1>1. Record(s.commitments, x, b) \in Store(Commitments)
  BY RecordType DEF Session
<1>2. [s EXCEPT !.commitments = Record(@, x, b)] \in Session
  BY <1>1 DEF Session
<1> QED
  BY <1>2 DEF AddCommitment, CollectCommitments, Session, States

\* The parts of a session an operation leaves alone.
LEMMA AddCommitmentFields ==
  ASSUME NEW s \in Session, NEW x \in Signers, NEW b \in Commitments
  PROVE  LET t == AddCommitment(s, x, b)
         IN /\ t.message = s.message /\ t.threshold = s.threshold /\ t.scheme = s.scheme
            /\ t.shares = s.shares
            /\ t.commitments = Record(s.commitments, x, b)
            /\ t.state = IF AtLeast(Count(Record(s.commitments, x, b)), s.threshold)
                         THEN "commitments_collected" ELSE s.state
BY DEF AddCommitment, CollectCommitments, Session

LEMMA AddShareFields ==
  ASSUME NEW s \in Session, NEW x \in Signers, NEW b \in Blobs
  PROVE  LET t == AddShare(s, x, b)
         IN /\ t.message = s.message /\ t.threshold = s.threshold /\ t.scheme = s.scheme
            /\ t.commitments = s.commitments /\ t.state = s.state
            /\ t.shares = Record(s.shares, x, b)
BY DEF AddShare, Session

\* The state assignments of add_commitment and aggregate.
LEMMA StateTypes ==
  ASSUME NEW s \in Session
  PROVE  /\ CollectCommitments(s) \in Session
         /\ [s EXCEPT !.state = "completed"] \in Session
BY DEF CollectCommitments, Session, States

LEMMA CommitmentRecorded ==
  ASSUME NEW s \in Session, NEW x \in Signers, NEW b \in Commitments
  PROVE  [s EXCEPT !.commitments = Record(@, x, b)] \in Session
<1>1. Record(s.commitments, x, b) \in Store(Commitments)
  BY RecordType DEF Session
<1> QED
  BY <1>1 DEF Session

\* If a session meets its threshold it still does after any step.
LEMMA AtLeastMonotone ==
  ASSUME NEW m \in Nat, NEW n \in Nat, m <= n,
         NEW t \in Thresholds, AtLeast(m, t)
  PROVE  AtLeast(n, t)
BY SessionAssumption DEF AtLeast, Comparable
================================================================================
