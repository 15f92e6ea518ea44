--------------------------- MODULE CoordinatorProofs ---------------------------
(***************************************************************************)
(* Proofs about Coordinator: type correctness, that what is submitted      *)
(* stays, and that every signature has a quorum behind it, for any number  *)
(* of signers and sessions and any thresholds.                             *)
(***************************************************************************)
EXTENDS Coordinator, SessionProofs

\* Zenon first, the SMT solver where it is not named alone.
USE ZenonT(30), SMTT(60)

-------------------------------------------------------------------------------
(* Type correctness.                                                          *)

\* A step keeps the types of the registry, the histories and the call record.
LEMMA StepTypes ==
  ASSUME TypeOK, [Next]_vars
  PROVE  TypeOK'
<1> USE DEF TypeOK, Ended, Call, Ops, Errors
<1>1. CASE \E m \in Messages, t \in Thresholds, c \in Schemes : CreateSession(m, t, c)
  BY SMTT(60), <1>1, NewSessionType DEF CreateSession
<1>2. CASE \E c \in Schemes : CreateUnknownScheme(c)
  BY SMTT(60), <1>2 DEF CreateUnknownScheme, Raise
<1>3. CASE \E op \in {"commitment", "share", "aggregate"}, sid \in Ids : UnknownSession(op, sid)
  BY SMTT(60), <1>3, IdsAssumption DEF UnknownSession, Raise
<1>4. CASE \E sid \in Ids, x \in Signers, b \in Commitments : SubmitCommitment(sid, x, b)
  BY SMTT(60), <1>4, AddCommitmentType, IdsAssumption DEF SubmitCommitment, Known
<1>5. CASE \E sid \in Ids, x \in Signers : DuplicateCommitment(sid, x)
  BY SMTT(60), <1>5, IdsAssumption DEF DuplicateCommitment, Raise
<1>6. CASE \E sid \in Ids, x \in Signers, b \in Blobs : SubmitShare(sid, x, b)
  BY SMTT(60), <1>6, AddShareType, IdsAssumption DEF SubmitShare, Known
<1>7. CASE \E sid \in Ids, x \in Signers : DuplicateShare(sid, x)
  BY SMTT(60), <1>7, IdsAssumption DEF DuplicateShare, Raise
<1>8. CASE \E sid \in Ids : Aggregate(sid)
  <2> PICK sid \in Ids : Aggregate(sid)
    BY <1>8
  <2>1. sessions[sid] \in Session
    BY SMTT(60) DEF Aggregate, Known
  <2>2. [sessions[sid] EXCEPT !.state = "completed"] \in Session
    BY <2>1 DEF Session, States
  <2>3. SignatureOf(sid, sessions[sid]) \in Signature
    BY <2>1, IdsAssumption DEF SignatureOf, Signature, Session, Submitters
  <2>4. EventOf(sessions[sid], "success") \in Event
    BY <2>1 DEF EventOf, Event, Session
  <2> QED
    BY SMTT(60), <2>2, <2>3, <2>4, IdsAssumption DEF Aggregate, Known
<1>9. CASE \E sid \in Ids : AggregateFails(sid)
  <2> PICK sid \in Ids : AggregateFails(sid)
    BY <1>9
  <2>1. sessions[sid] \in Session
    BY SMTT(60) DEF AggregateFails, Known
  <2>2. EventOf(sessions[sid], "failure") \in Event
    BY <2>1 DEF EventOf, Event, Session
  <2> QED
    BY <2>2, IdsAssumption DEF AggregateFails
<1>10. CASE \E sid \in Ids : AggregateRejected(sid)
  BY SMTT(60), <1>10, IdsAssumption DEF AggregateRejected, Raise
<1>11. CASE \E sid \in Ids : AggregateBelowThreshold(sid)
  BY SMTT(60), <1>11, IdsAssumption DEF AggregateBelowThreshold, Raise
<1>12. CASE \E sid \in Ids : AggregateNotComparable(sid)
  BY SMTT(60), <1>12, IdsAssumption DEF AggregateNotComparable, Raise
<1>13. CASE UNCHANGED vars
  BY <1>13 DEF vars
<1> QED
  BY <1>1, <1>2, <1>3, <1>4, <1>5, <1>6, <1>7, <1>8, <1>9, <1>10, <1>11, <1>12, <1>13
     DEF Next

\* The registry, the histories and the call record keep their types.
THEOREM TypeCorrect == Spec => []TypeOK
<1>1. Init => TypeOK
  BY SMTT(60) DEF Init, TypeOK, Ended, Call, Ops
<1>2. TypeOK /\ [Next]_vars => TypeOK'
  BY StepTypes
<1> QED
  BY <1>1, <1>2, PTL DEF Spec

-------------------------------------------------------------------------------
(* What a step does to the registry.                                          *)

\* No step drops or changes what is on record.
LEMMA StepKeeps ==
  ASSUME TypeOK, [Next]_vars
  PROVE  KeepsSubmissions
<1> USE DEF TypeOK, KeepsSubmissions
<1>1. CASE sessions' = sessions
  BY SMTT(60), <1>1
<1>2. CASE \E m \in Messages, t \in Thresholds, c \in Schemes : CreateSession(m, t, c)
  BY SMTT(60), <1>2, NewSessionType DEF CreateSession
<1>3. CASE \E sid \in Ids, x \in Signers, b \in Commitments : SubmitCommitment(sid, x, b)
  <2> PICK sid \in Ids, x \in Signers, b \in Commitments : SubmitCommitment(sid, x, b)
    BY <1>3
  <2>0. sessions[sid] \in Session
    BY SMTT(60) DEF SubmitCommitment, Known
  <2>1. sessions[sid].commitments \in Store(Commitments)
    BY <2>0 DEF Session
  <2>2. \A y \in Signers : sessions[sid].commitments[y] # Absent =>
          Record(sessions[sid].commitments, x, b)[y] = sessions[sid].commitments[y]
    BY <2>1 DEF SubmitCommitment, Record, Store
  <2>3. /\ Len(sessions') = Len(sessions)
        /\ sessions'[sid] = AddCommitment(sessions[sid], x, b)
        /\ \A i \in DOMAIN sessions : i # sid => sessions'[i] = sessions[i]
    BY SMTT(60) DEF SubmitCommitment, Known
  <2> QED
    BY SMTT(60), <2>0, <2>2, <2>3, AddCommitmentFields
<1>4. CASE \E sid \in Ids, x \in Signers, b \in Blobs : SubmitShare(sid, x, b)
  <2> PICK sid \in Ids, x \in Signers, b \in Blobs : SubmitShare(sid, x, b)
    BY <1>4
  <2>0. sessions[sid] \in Session
    BY SMTT(60) DEF SubmitShare, Known
  <2>1. sessions[sid].shares \in Store(Blobs)
    BY <2>0 DEF Session
  <2>2. \A y \in Signers : sessions[sid].shares[y] # Absent =>
          Record(sessions[sid].shares, x, b)[y] = sessions[sid].shares[y]
    BY <2>1 DEF SubmitShare, Record, Store
  <2>3. /\ Len(sessions') = Len(sessions)
        /\ sessions'[sid] = AddShare(sessions[sid], x, b)
        /\ \A i \in DOMAIN sessions : i # sid => sessions'[i] = sessions[i]
    BY SMTT(60) DEF SubmitShare, Known
  <2> QED
    BY SMTT(60), <2>0, <2>2, <2>3, AddShareFields
<1>5. CASE \E sid \in Ids : Aggregate(sid)
  <2> PICK sid \in Ids : Aggregate(sid)
    BY <1>5
  <2>1. sessions[sid] \in Session
    BY SMTT(60) DEF Aggregate, Known
  <2> QED
    BY SMTT(60), <2>1 DEF Aggregate, Known, Session
<1> QED
  BY <1>1, <1>2, <1>3, <1>4, <1>5
     DEF Next, vars, CreateUnknownScheme, UnknownSession, DuplicateCommitment,
         DuplicateShare, AggregateFails, AggregateRejected, AggregateBelowThreshold,
         AggregateNotComparable, Raise

\* SubmissionsAreFinal for every instance: what was submitted stays.
THEOREM SubmissionsStay == Spec => SubmissionsAreFinal
<1>1. TypeOK /\ [Next]_vars => [KeepsSubmissions]_vars
  BY StepKeeps
<1> QED
  BY <1>1, TypeCorrect, PTL DEF Spec, SubmissionsAreFinal
-------------------------------------------------------------------------------
(* A quorum behind every signature.                                           *)

\* A step issues no signature, or the one of an aggregation of a session that
\* meets its threshold.
LEMMA StepIssues ==
  ASSUME [Next]_vars
  PROVE  \/ issued' = issued
         \/ \E sid \in DOMAIN sessions :
              /\ ThresholdMet(sessions[sid])
              /\ issued' = issued \cup {SignatureOf(sid, sessions[sid])}
BY DEF Next, vars, CreateSession, CreateUnknownScheme, UnknownSession, SubmitCommitment,
       DuplicateCommitment, SubmitShare, DuplicateShare, Aggregate, AggregateFails,
       AggregateRejected, AggregateBelowThreshold, AggregateNotComparable, Raise, Known

\* SignatureNeedsQuorum for every instance: a returned signature was combined
\* from the shares of at least threshold distinct signers of its session.
THEOREM QuorumBehindSignatures == Spec => []SignatureNeedsQuorum
<1> DEFINE Backed(g, reg) ==
      /\ g.sid \in DOMAIN reg
      /\ g.message = reg[g.sid].message
      /\ g.signers \subseteq Submitters(reg[g.sid].shares)
      /\ AtLeast(Cardinality(g.signers), reg[g.sid].threshold)
<1>1. Init => SignatureNeedsQuorum
  BY DEF Init, SignatureNeedsQuorum
<1>2. TypeOK /\ SignatureNeedsQuorum /\ [Next]_vars => SignatureNeedsQuorum'
  <2> SUFFICES ASSUME TypeOK, SignatureNeedsQuorum, [Next]_vars,
                      NEW g \in issued'
               PROVE  Backed(g, sessions')
    BY DEF SignatureNeedsQuorum, Known
  <2>1. KeepsSubmissions
    BY StepKeeps
  <2>2. Backed(g, sessions)
    <3>1. CASE g \in issued
      BY <3>1 DEF SignatureNeedsQuorum, Known
    <3>2. CASE g \notin issued
      <4> PICK sid \in DOMAIN sessions :
            ThresholdMet(sessions[sid]) /\ g = SignatureOf(sid, sessions[sid])
        BY <3>2, StepIssues
      <4> QED
        BY DEF SignatureOf, ThresholdMet, Count
    <3> QED
      BY <3>1, <3>2
  <2>3. Submitters(sessions[g.sid].shares) \subseteq Submitters(sessions'[g.sid].shares)
    BY <2>1, <2>2 DEF KeepsSubmissions, Submitters
  <2>4. g.sid \in DOMAIN sessions'
    <3>1. sessions' \in Seq(Session)
      BY StepTypes DEF TypeOK
    <3> QED
      BY SMTT(60), <2>1, <2>2, <3>1 DEF KeepsSubmissions, TypeOK
  <2> QED
    BY <2>1, <2>2, <2>3, <2>4 DEF KeepsSubmissions
<1> QED
  BY <1>1, <1>2, TypeCorrect, PTL DEF Spec
-------------------------------------------------------------------------------
(* The reported state is backed by what happened.                             *)

\* StateIsJustified for every instance: completed only after a signature,
\* commitments_collected only with threshold commitments on record.
THEOREM StatesAreJustified == Spec => []StateIsJustified
<1> DEFINE Justified(sid, s, iss) ==
      /\ s.state = "pending" =>
           \/ ~AtLeast(Count(s.commitments), s.threshold)
           \/ Count(s.commitments) = 0
      /\ s.state = "commitments_collected" => AtLeast(Count(s.commitments), s.threshold)
      /\ s.state = "completed" => \E g \in iss : g.sid = sid
<1>1. Init => StateIsJustified
  BY SMTT(60) DEF Init, StateIsJustified
<1>2. TypeOK /\ StateIsJustified /\ [Next]_vars => StateIsJustified'
  <2> SUFFICES ASSUME TypeOK, StateIsJustified, [Next]_vars,
                      NEW sid \in DOMAIN sessions'
               PROVE  Justified(sid, sessions'[sid], issued')
    BY DEF StateIsJustified
  <2>1. issued \subseteq issued'
    BY StepIssues
  <2>2. \A i \in DOMAIN sessions : Justified(i, sessions[i], issued')
    BY <2>1 DEF StateIsJustified
  <2>3. CASE sessions' = sessions
    BY <2>2, <2>3
  <2>4. CASE \E m \in Messages, t \in Thresholds, c \in Schemes : CreateSession(m, t, c)
    <3> PICK m \in Messages, t \in Thresholds, c \in Schemes : CreateSession(m, t, c)
      BY <2>4
    <3> DEFINE new == NewSession(m, t, c)
    <3>1. Count(new.commitments) = 0
      <4>1. Submitters(new.commitments) = {}
        BY DEF Submitters, NewSession
      <4> QED
        BY <4>1, FS_EmptySet DEF Count
    <3>2. new \in Session /\ new.state = "pending"
      BY NewSessionType DEF CreateSession, NewSession
    <3>3. sessions' = Append(sessions, new)
      BY DEF CreateSession
    <3>4. \/ sid \in DOMAIN sessions /\ sessions'[sid] = sessions[sid]
          \/ sessions'[sid] = new
      <4> HIDE DEF new
      <4> QED
        BY SMTT(60), <3>2, <3>3 DEF TypeOK
    <3> HIDE DEF new
    <3> QED
      BY SMTT(60), <2>2, <3>1, <3>2, <3>4
  <2>5. CASE \E i \in Ids, x \in Signers, b \in Commitments : SubmitCommitment(i, x, b)
    <3> PICK i \in Ids, x \in Signers, b \in Commitments : SubmitCommitment(i, x, b)
      BY <2>5
    <3> DEFINE s == sessions[i]
               t == AddCommitment(s, x, b)
    <3>1. i \in DOMAIN sessions /\ s \in Session
      BY SMTT(60) DEF SubmitCommitment, Known, TypeOK
    <3>2. Count(s.commitments) <= Count(t.commitments)
      <4>1. s.commitments \in Store(Commitments) /\ t.commitments = Record(s.commitments, x, b)
        BY <3>1, AddCommitmentFields DEF Session
      <4>2. \A y \in Signers : s.commitments[y] # Absent => t.commitments[y] # Absent
        BY <4>1, SessionAssumption DEF Record, Store
      <4> QED
        BY <4>2, CountMonotone
    <3>3. /\ t.threshold = s.threshold /\ s.threshold \in Thresholds
          /\ t.state = IF AtLeast(Count(t.commitments), s.threshold)
                       THEN "commitments_collected" ELSE s.state
      BY <3>1, AddCommitmentFields DEF Session
    <3>4. AtLeast(Count(s.commitments), s.threshold) => AtLeast(Count(t.commitments), s.threshold)
      BY <3>2, <3>3, CountType, AtLeastMonotone
    <3>5. Justified(i, t, issued')
      <4>1. Justified(i, s, issued')
        BY <2>2, <3>1
      <4> HIDE DEF t, s
      <4> QED
        BY <4>1, <3>3, <3>4
    <3>6. sid \in DOMAIN sessions /\ sessions'[sid] = IF sid = i THEN t ELSE sessions[sid]
      <4> HIDE DEF t
      <4>1. sessions' = [sessions EXCEPT ![i] = t]
        BY DEF SubmitCommitment, t
      <4> QED
        BY <4>1, <3>1 DEF TypeOK
    <3> HIDE DEF t
    <3> QED
      BY <2>2, <3>5, <3>6
  <2>6. CASE \E i \in Ids, x \in Signers, b \in Blobs : SubmitShare(i, x, b)
    <3> PICK i \in Ids, x \in Signers, b \in Blobs : SubmitShare(i, x, b)
      BY <2>6
    <3> DEFINE t == AddShare(sessions[i], x, b)
    <3>1. i \in DOMAIN sessions /\ sessions[i] \in Session
      BY SMTT(60) DEF SubmitShare, Known, TypeOK
    <3>2. /\ t.threshold = sessions[i].threshold
          /\ t.state = sessions[i].state
          /\ t.commitments = sessions[i].commitments
      BY <3>1, AddShareFields
    <3>3. sid \in DOMAIN sessions /\ sessions'[sid] = IF sid = i THEN t ELSE sessions[sid]
      <4>1. sessions' = [sessions EXCEPT ![i] = t]
        BY DEF SubmitShare
      <4> HIDE DEF t
      <4> QED
        BY <4>1, <3>1 DEF TypeOK
    <3> HIDE DEF t
    <3> QED
      BY <2>2, <3>1, <3>2, <3>3
  <2>7. CASE \E i \in Ids : Aggregate(i)
    <3> PICK i \in Ids : Aggregate(i)
      BY <2>7
    <3> DEFINE t == [sessions[i] EXCEPT !.state = "completed"]
    <3>1. i \in DOMAIN sessions /\ sessions[i] \in Session
      BY SMTT(60) DEF Aggregate, Known, TypeOK
    <3>2. t.state = "completed"
      BY <3>1 DEF Session
    <3>3. sid \in DOMAIN sessions /\ sessions'[sid] = IF sid = i THEN t ELSE sessions[sid]
      <4>1. sessions' = [sessions EXCEPT ![i] = t]
        BY DEF Aggregate
      <4> HIDE DEF t
      <4> QED
        BY <4>1, <3>1 DEF TypeOK
    <3>4. SignatureOf(i, sessions[i]) \in issued' /\ SignatureOf(i, sessions[i]).sid = i
      BY DEF Aggregate, SignatureOf
    <3> HIDE DEF t
    <3> QED
      BY <2>2, <3>2, <3>3, <3>4
  <2> QED
    BY <2>3, <2>4, <2>5, <2>6, <2>7
       DEF Next, vars, CreateUnknownScheme, UnknownSession, DuplicateCommitment,
           DuplicateShare, AggregateFails, AggregateRejected, AggregateBelowThreshold,
           AggregateNotComparable, Raise
<1> QED
  BY <1>1, <1>2, TypeCorrect, PTL DEF Spec
-------------------------------------------------------------------------------
(* Aggregating again, and the audit trail.                                    *)

\* RetryExtendsShares for every instance: a later signature of a session has all the
\* signers of an earlier one, since a session's shares only grow.
THEOREM RetriesExtend == Spec => []RetryExtendsShares
<1>1. Init => RetryExtendsShares
  BY DEF Init, RetryExtendsShares
<1>2. SignatureNeedsQuorum /\ RetryExtendsShares /\ [Next]_vars => RetryExtendsShares'
  <2> SUFFICES ASSUME SignatureNeedsQuorum, RetryExtendsShares, [Next]_vars
               PROVE  RetryExtendsShares'
    OBVIOUS
  <2>1. CASE issued' = issued
    BY <2>1 DEF RetryExtendsShares
  <2>2. CASE issued' # issued
    <3> PICK sid \in DOMAIN sessions : issued' = issued \cup {SignatureOf(sid, sessions[sid])}
      BY <2>2, StepIssues
    <3> DEFINE new == SignatureOf(sid, sessions[sid])
    <3>1. new.sid = sid /\ new.signers = Submitters(sessions[sid].shares)
      BY DEF SignatureOf
    <3> HIDE DEF new
    <3>2. \A g \in issued : g.sid = sid => g.signers \subseteq new.signers
      BY <3>1 DEF SignatureNeedsQuorum
    <3> QED
      BY <3>1, <3>2 DEF RetryExtendsShares, new
  <2> QED
    BY <2>1, <2>2
<1> QED
  BY <1>1, <1>2, QuorumBehindSignatures, PTL DEF Spec

\* A step fires a success event exactly when it returns a signature, of the session it
\* aggregates.
LEMMA StepAudits ==
  ASSUME [Next]_vars
  PROVE  \/ /\ issued' = issued
            /\ \A e : e.result = "success" => (e \in events' <=> e \in events)
         \/ \E sid \in DOMAIN sessions :
              /\ issued' = issued \cup {SignatureOf(sid, sessions[sid])}
              /\ events' = events \cup {EventOf(sessions[sid], "success")}
<1>1. CASE \E sid \in Ids : Aggregate(sid)
  BY <1>1 DEF Aggregate, Known
<1>2. CASE \E sid \in Ids : AggregateFails(sid)
  <2> PICK sid \in Ids : AggregateFails(sid)
    BY <1>2
  <2>1. EventOf(sessions[sid], "failure").result = "failure"
    BY DEF EventOf
  <2> QED
    BY <2>1 DEF AggregateFails
<1>3. CASE UNCHANGED <<issued, events>>
  BY <1>3
<1> QED
  BY <1>1, <1>2, <1>3
     DEF Next, vars, CreateSession, CreateUnknownScheme, UnknownSession, SubmitCommitment,
         DuplicateCommitment, SubmitShare, DuplicateShare, AggregateRejected,
         AggregateBelowThreshold, AggregateNotComparable, Raise

\* AuditMatchesSignatures for every instance: success events and returned signatures
\* name the same messages and schemes.
THEOREM AuditAgrees == Spec => []AuditMatchesSignatures
<1> DEFINE Success(m, c) == [result |-> "success", algorithm |-> c, payload |-> m]
           Signed(m, c, iss, reg) == \E g \in iss : g.message = m /\ reg[g.sid].scheme = c
<1>1. Init => AuditMatchesSignatures
  BY DEF Init, AuditMatchesSignatures
<1>2. TypeOK /\ SignatureNeedsQuorum /\ AuditMatchesSignatures /\ [Next]_vars
        => AuditMatchesSignatures'
  <2> SUFFICES ASSUME TypeOK, SignatureNeedsQuorum, AuditMatchesSignatures, [Next]_vars,
                      NEW m \in Messages, NEW c \in SCHEMES
               PROVE  Success(m, c) \in events' <=> Signed(m, c, issued', sessions')
    BY DEF AuditMatchesSignatures
  <2>1. Success(m, c) \in events <=> Signed(m, c, issued, sessions)
    BY DEF AuditMatchesSignatures
  <2>2. \A i \in DOMAIN sessions : sessions'[i].scheme = sessions[i].scheme
    BY StepKeeps DEF KeepsSubmissions
  <2>3. \A g \in issued : sessions'[g.sid].scheme = sessions[g.sid].scheme
    BY <2>2 DEF SignatureNeedsQuorum, Known
  <2>4. Success(m, c).result = "success"
    OBVIOUS
  <2>5. CASE issued' = issued /\ \A e : e.result = "success" => (e \in events' <=> e \in events)
    <3> HIDE DEF Success
    <3> QED
      BY <2>1, <2>3, <2>4, <2>5
  <2>6. ASSUME NEW sid \in DOMAIN sessions,
               issued' = issued \cup {SignatureOf(sid, sessions[sid])},
               events' = events \cup {EventOf(sessions[sid], "success")}
        PROVE  Success(m, c) \in events' <=> Signed(m, c, issued', sessions')
    <3> DEFINE new == SignatureOf(sid, sessions[sid])
               e == EventOf(sessions[sid], "success")
    <3>1. new.sid = sid /\ new.message = sessions[sid].message
      BY DEF SignatureOf
    <3>2. Success(m, c) = e <=> m = sessions[sid].message /\ c = sessions[sid].scheme
      BY DEF EventOf
    <3>3. issued' = issued \cup {new} /\ events' = events \cup {e}
      BY <2>6
    <3> HIDE DEF Success, new, e
    <3> QED
      BY <2>1, <2>2, <2>3, <3>1, <3>2, <3>3
  <2> QED
    BY <2>5, <2>6, StepAudits
<1> QED
  BY <1>1, <1>2, TypeCorrect, QuorumBehindSignatures, PTL DEF Spec
-------------------------------------------------------------------------------
(* Calls that raise.                                                          *)

\* Taking the commitments back undoes a submission that raised.
LEMMA CommitmentUndone ==
  ASSUME NEW s \in Session, NEW x \in Signers, NEW b \in Commitments, ~Comparable(s.threshold)
  PROVE  [AddCommitment(s, x, b) EXCEPT !.commitments = s.commitments] = s
<1> DEFINE t == [s EXCEPT !.commitments = Record(@, x, b)]
<1>1. AddCommitment(s, x, b) = t
  BY DEF AddCommitment, CollectCommitments, AtLeast, Session
<1>2. [t EXCEPT !.commitments = s.commitments] = s
  BY DEF Session
<1> QED
  BY <1>1, <1>2

\* RaiseLeavesRegistry for every instance: a call that raises changes nothing, except for
\* the commitment that add_commitment stores before its comparison raises.
THEOREM RaisesLeaveRegistry == Spec => RaiseLeavesRegistry
<1> DEFINE Undoes(sid) ==
             [sessions' EXCEPT ![sid].commitments = sessions[sid].commitments] = sessions
           Leaves == last'.out # "ok" =>
                       \/ sessions' = sessions
                       \/ /\ last'.op = "commitment"
                          /\ ~Comparable(sessions[last'.sid].threshold)
                          /\ Undoes(last'.sid)
<1>1. TypeOK /\ [Next]_vars => [Leaves]_vars
  <2> SUFFICES ASSUME TypeOK, Next PROVE Leaves
    OBVIOUS
  <2>1. CASE sessions' = sessions
    BY <2>1
  <2>2. CASE last'.out = "ok"
    BY <2>2
  <2>3. ASSUME NEW i \in Ids, NEW x \in Signers, NEW b \in Commitments, SubmitCommitment(i, x, b)
        PROVE  Leaves
    <3>1. CASE Comparable(sessions[i].threshold)
      BY <2>3, <3>1 DEF SubmitCommitment, Ended
    <3>2. CASE ~Comparable(sessions[i].threshold)
      <4> DEFINE s == sessions[i]
                 t == AddCommitment(sessions[i], x, b)
      <4>1. last'.op = "commitment" /\ last'.sid = i
        BY <2>3 DEF SubmitCommitment, Ended
      <4>2. i \in DOMAIN sessions /\ s \in Session
        BY SMTT(60), <2>3 DEF SubmitCommitment, Known, TypeOK
      <4>3. [t EXCEPT !.commitments = s.commitments] = s
        BY <3>2, <4>2, CommitmentUndone
      <4>4. sessions' = [sessions EXCEPT ![i] = t]
        BY <2>3 DEF SubmitCommitment
      <4>5. Undoes(i)
        <5>1. sessions = [j \in DOMAIN sessions |-> sessions[j]]
          BY SMTT(60) DEF TypeOK
        <5> HIDE DEF t
        <5>2. /\ sessions' = [j \in DOMAIN sessions |-> IF j = i THEN t ELSE sessions[j]]
              /\ DOMAIN sessions' = DOMAIN sessions /\ sessions'[i] = t
          BY <4>2, <4>4, <5>1
        <5>3. [sessions' EXCEPT ![i].commitments = s.commitments] = [sessions' EXCEPT ![i] = s]
          BY <4>3, <5>2
        <5>4. [sessions' EXCEPT ![i] = s] = [j \in DOMAIN sessions |-> sessions[j]]
          BY <5>2
        <5> QED BY <5>1, <5>3, <5>4
      <4> HIDE DEF Undoes
      <4> QED
        BY <3>2, <4>1, <4>5
    <3> QED
      BY <3>1, <3>2
  <2> HIDE DEF Leaves
  <2> QED
    BY SMTT(60), <2>1, <2>2, <2>3
       DEF Next, CreateSession, CreateUnknownScheme, UnknownSession, DuplicateCommitment,
           SubmitShare, DuplicateShare, Aggregate, AggregateFails, AggregateRejected,
           AggregateBelowThreshold, AggregateNotComparable, Raise, Ended
<1> QED
  BY <1>1, TypeCorrect, PTL DEF Spec, RaiseLeavesRegistry
================================================================================
