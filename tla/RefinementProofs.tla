---------------------------- MODULE RefinementProofs ----------------------------
(***************************************************************************)
(* The refinement of Coordinator by NetworkCoordinator, for any number of  *)
(* connections, lines, signers and sessions: while every call goes through *)
(* the mutex, what the handlers do is what Coordinator does in one step.   *)
(***************************************************************************)
EXTENDS NetworkRefinement, NetworkProofs

\* Zenon first, the SMT solver where it is not named alone.
USE ZenonT(30), SMTT(60)

(* The mapped registry.                                                       *)

LEMMA MappedQuiet ==
  ASSUME sessions \in Seq(Session), \A c \in Conns : pc[c] # "settle"
  PROVE  AbstractSessions = sessions
BY SMTT(60) DEF AbstractSessions, Unsettled

LEMMA MappedQuietPrime ==
  ASSUME sessions' \in Seq(Session), \A c \in Conns : pc'[c] # "settle"
  PROVE  AbstractSessions' = sessions'
BY SMTT(60) DEF AbstractSessions, Unsettled

LEMMA MappedSettling ==
  ASSUME sessions \in Seq(Session), NEW c \in Conns, pc[c] = "settle",
         \A d \in Conns : pc[d] = "settle" => d = c
  PROVE  AbstractSessions = [sessions EXCEPT ![Line(c).sid] = Settled(Line(c).op, @)]
<1>1. \A sid : Unsettled(sid) = IF sid = Line(c).sid THEN {c} ELSE {}
  BY DEF Unsettled
<1>2. \A U : U = {c} => (CHOOSE d \in U : TRUE) = c
  OBVIOUS
<1>3. \A sid : sid = Line(c).sid => (CHOOSE d \in Unsettled(sid) : TRUE) = c
  BY <1>1, <1>2
<1>4. \A sid \in DOMAIN sessions : sid # Line(c).sid => AbstractSessions[sid] = sessions[sid]
  BY <1>1 DEF AbstractSessions
<1>5. \A sid \in DOMAIN sessions : sid = Line(c).sid =>
        AbstractSessions[sid] = Settled(Line(c).op, sessions[sid])
  BY <1>1, <1>3 DEF AbstractSessions
<1>6. AbstractSessions = [sid \in DOMAIN sessions |-> AbstractSessions[sid]]
  BY SMTT(60) DEF AbstractSessions
<1> QED BY <1>4, <1>5, <1>6

LEMMA MappedSettlingPrime ==
  ASSUME sessions' \in Seq(Session), NEW c \in Conns, pc'[c] = "settle",
         \A d \in Conns : pc'[d] = "settle" => d = c
  PROVE  AbstractSessions' = [sessions' EXCEPT ![Line(c)'.sid] = Settled(Line(c)'.op, @)]
<1>1. \A sid : Unsettled(sid)' = IF sid = Line(c)'.sid THEN {c} ELSE {}
  BY DEF Unsettled
<1>2. \A U : U = {c} => (CHOOSE d \in U : TRUE) = c
  OBVIOUS
<1>3. \A sid : sid = Line(c)'.sid => (CHOOSE d \in Unsettled(sid)' : TRUE) = c
  BY <1>1, <1>2
<1>4. \A sid \in DOMAIN sessions' : sid # Line(c)'.sid => AbstractSessions'[sid] = sessions'[sid]
  BY <1>1 DEF AbstractSessions
<1>5. \A sid \in DOMAIN sessions' : sid = Line(c)'.sid =>
        AbstractSessions'[sid] = Settled(Line(c)'.op, sessions'[sid])
  BY <1>1, <1>3 DEF AbstractSessions
<1>6. AbstractSessions' = [sid \in DOMAIN sessions' |-> AbstractSessions'[sid]]
  BY SMTT(60) DEF AbstractSessions
<1> QED BY <1>4, <1>5, <1>6

\* The mapped registry changes only when the registry does, or who is about to settle.
LEMMA MappedSame ==
  ASSUME sessions \in Seq(Session), Exclusive, Synchronized, sessions' = sessions,
         \A d \in Conns : /\ pc'[d] = "settle" <=> pc[d] = "settle"
                          /\ pc[d] = "settle" => Line(d)' = Line(d)
  PROVE  AbstractSessions' = AbstractSessions
<1>2. CASE \A d \in Conns : pc[d] # "settle"
  BY <1>2, MappedQuiet, MappedQuietPrime
<1>3. CASE \E d \in Conns : pc[d] = "settle"
  <2> PICK d \in Conns : pc[d] = "settle" BY <1>3
  <2>1. \A e \in Conns : pc[e] = "settle" => e = d
    BY DEF Exclusive, Synchronized, Inside
  <2>2. pc'[d] = "settle" /\ \A e \in Conns : pc'[e] = "settle" => e = d
    BY <2>1
  <2>3. AbstractSessions = [sessions EXCEPT ![Line(d).sid] = Settled(Line(d).op, @)]
    BY <2>1, MappedSettling
  <2>4. AbstractSessions' = [sessions' EXCEPT ![Line(d)'.sid] = Settled(Line(d)'.op, @)]
    BY <2>2, MappedSettlingPrime
  <2>5. Line(d)' = Line(d)
    OBVIOUS
  <2> QED BY <2>3, <2>4, <2>5
<1> QED BY <1>2, <1>3
-------------------------------------------------------------------------------
(* What is known before a step, and after it.                                 *)

Guarded ==
  /\ Typed /\ Exclusive /\ Synchronized /\ sessions \in Seq(Session)
  /\ \A d \in Conns : Ready(d)

LEMMA GuardedHolds ==
  ASSUME NetInv, Synchronized
  PROVE  Guarded
BY DEF NetInv, Dependable, Calm, Synchronized, Guarded, Typed, NetType

\* These steps stutter.
LEMMA WireStutters ==
  ASSUME Guarded, NEW c \in Conns, WireStep(c) \/ Checks(c)
  PROVE  AbstractSessions' = AbstractSessions /\ UNCHANGED registry
<1>0. NetType /\ Placed(c)
  BY DEF Guarded, Typed
<1>1. UNCHANGED registry
  BY WireRegistry, ProceedFrame DEF registry
<1>2. \A d \in Conns : d # c => pc'[d] = pc[d] /\ Line(d)' = Line(d)
  BY <1>0, WireLocal, HandleLocal, HandleCases DEF Untouched
<1>3. /\ pc'[c] = "settle" <=> pc[c] = "settle"
      /\ pc[c] = "settle" => Line(c)' = Line(c)
  <2>1. CASE Checks(c)
    BY <1>0, <2>1, ProceedFrame DEF NetType
  <2>2. CASE HangUp(c)
    BY <2>2 DEF HangUp, Line
  <2>3. CASE WireStep(c) /\ ~ HangUp(c)
    <3>1. pc'[c] # "settle" /\ pc[c] # "settle"
      BY <1>0, <2>3 DEF NetType, Placed, WireStep, Connect, CallDirectly, ReadLine,
        ReadEof, ReadReset, Lock, Unlock, WriteReply, WriteFails, WriteError, Goto
    <3> QED BY <3>1
  <2> QED BY <2>1, <2>2, <2>3
<1> QED BY <1>1, <1>2, <1>3, MappedSame DEF Guarded, registry

\* Nobody else is between a write and the assignment of the state.
LEMMA HandlerMapped ==
  ASSUME Guarded, sessions' \in Seq(Session), NEW c \in Conns,
         NEW from \in Inside, NEW to \in {"settle", "unlock"}, HandlerStep(c, from, to)
  PROVE  /\ from # "settle" => AbstractSessions = sessions
         /\ from = "settle" =>
              AbstractSessions = [sessions EXCEPT ![Line(c).sid] = Settled(Line(c).op, @)]
         /\ to = "unlock" => AbstractSessions' = sessions'
         /\ to = "settle" =>
              AbstractSessions' = [sessions' EXCEPT ![Line(c).sid] = Settled(Line(c).op, @)]
<1>1. \A d \in Conns : d # c => pc[d] # "settle" /\ pc'[d] # "settle"
  BY DEF HandlerStep, Guarded, Exclusive, Synchronized, Typed, NetType, Inside
<1>2. pc[c] = from /\ pc'[c] = to /\ Line(c)' = Line(c) /\ sessions \in Seq(Session)
  BY DEF HandlerStep, Guarded, Typed, NetType, Line
<1>3. from # "settle" => AbstractSessions = sessions
  BY <1>1, <1>2, MappedQuiet
<1>4. from = "settle" => AbstractSessions = [sessions EXCEPT ![Line(c).sid] = Settled(Line(c).op, @)]
  BY <1>1, <1>2, MappedSettling
<1>5. to = "unlock" => AbstractSessions' = sessions'
  BY <1>1, <1>2, MappedQuietPrime
<1>6. to = "settle" => AbstractSessions' = [sessions' EXCEPT ![Line(c).sid] = Settled(Line(c).op, @)]
  BY <1>1, <1>2, MappedSettlingPrime
<1> QED BY <1>3, <1>4, <1>5, <1>6
-------------------------------------------------------------------------------
(* Each handler step is a step of Coordinator, or none.                       *)

Implemented == Coord!Next \/ UNCHANGED Coord!vars

\* Coordinator's operators on sessions are SigningSession's.
LEMMA SameOperators ==
  /\ Coord!SCHEMES = SCHEMES
  /\ \A m, t, k : Coord!NewSession(m, t, k) = NewSession(m, t, k)
  /\ \A op, sid, out : Coord!Ended(op, sid, out) = Ended(op, sid, out)
  /\ \A s, x, b : Coord!AddShare(s, x, b) = AddShare(s, x, b)
  /\ \A s, x, b : Coord!AddCommitment(s, x, b) = AddCommitment(s, x, b)
  /\ \A t : Coord!Comparable(t) <=> Comparable(t)
  /\ \A s : Coord!ThresholdMet(s) <=> ThresholdMet(s)
  /\ \A s : Coord!SignOutcomes(s) = SignOutcomes(s)
  /\ \A s, r : Coord!EventOf(s, r) = EventOf(s, r)
  /\ \A sid, s : Coord!SignatureOf(sid, s) = SignatureOf(sid, s)
<1>1. Coord!SCHEMES = SCHEMES
  BY DEF Coord!SCHEMES, SCHEMES
<1>2. \A m, t, k : Coord!NewSession(m, t, k) = NewSession(m, t, k)
  BY DEF Coord!NewSession, NewSession
<1>3. \A op, sid, out : Coord!Ended(op, sid, out) = Ended(op, sid, out)
  BY DEF Coord!Ended, Ended
<1>4. \A s, x, b : Coord!AddShare(s, x, b) = AddShare(s, x, b)
  BY DEF Coord!AddShare, AddShare, Coord!Record, Record
<1>5. \A t : Coord!Comparable(t) <=> Comparable(t)
  BY DEF Coord!Comparable, Comparable
<1>6. \A n, t : Coord!AtLeast(n, t) <=> AtLeast(n, t)
  BY <1>5 DEF Coord!AtLeast, AtLeast
<1>7. \A S : Coord!Cardinality(S) = Cardinality(S)
  BY DEF Coord!Cardinality, Cardinality
<1>8. \A store : Coord!Submitters(store) = Submitters(store)
  BY DEF Coord!Submitters, Submitters
<1>9. \A store : Coord!Count(store) = Count(store)
  BY <1>7, <1>8 DEF Coord!Count, Count
<1>10. \A s : Coord!CollectCommitments(s) = CollectCommitments(s)
  BY <1>6, <1>9 DEF Coord!CollectCommitments, CollectCommitments
<1>11. \A s, x, b : Coord!AddCommitment(s, x, b) = AddCommitment(s, x, b)
  BY <1>10 DEF Coord!AddCommitment, AddCommitment, Coord!Record, Record
<1>12. \A s : Coord!ThresholdMet(s) <=> ThresholdMet(s)
  BY <1>6, <1>9 DEF Coord!ThresholdMet, ThresholdMet
<1>13. \A s : Coord!ShareBlobs(s) = ShareBlobs(s)
  BY <1>8 DEF Coord!ShareBlobs, ShareBlobs
<1>14. \A b, n, t : Coord!Combine(b, n, t) = Combine(b, n, t)
  BY <1>7 DEF Coord!Combine, Combine
<1>15. \A s : Coord!SignOutcomes(s) = SignOutcomes(s)
  BY <1>9, <1>13, <1>14 DEF Coord!SignOutcomes, SignOutcomes
<1>16. \A s, r : Coord!EventOf(s, r) = EventOf(s, r)
  BY DEF Coord!EventOf, EventOf
<1>17. \A sid, s : Coord!SignatureOf(sid, s) = SignatureOf(sid, s)
  BY <1>8 DEF Coord!SignatureOf, SignatureOf
<1> QED BY <1>1, <1>2, <1>3, <1>4, <1>5, <1>11, <1>12, <1>15, <1>16, <1>17

\* A refused call changes nothing but what is known of the last call.
LEMMA RefuseFacts ==
  ASSUME Guarded, NEW c \in Conns, NEW from \in {"check", "apply"}, pc[c] = from,
         NEW error, Refuse(c, error)
  PROVE  /\ AbstractSessions = sessions /\ AbstractSessions' = AbstractSessions
         /\ issued' = issued
         /\ last' = Ended(Line(c).op, IF Line(c).op = "create" THEN 0 ELSE Line(c).sid, error)
<1>1. HandlerStep(c, from, "unlock") /\ sessions' = sessions /\ issued' = issued
  BY DEF Refuse, Return, HandlerStep, Goto, Answer, wire
<1>2. from \in Inside /\ from # "settle" /\ sessions' \in Seq(Session)
  BY <1>1 DEF Inside, Guarded
<1>3. AbstractSessions = sessions /\ AbstractSessions' = AbstractSessions
  BY <1>1, <1>2, HandlerMapped
<1>4. Failed(error).sid = 0
  BY DEF Failed, Reply
<1> QED BY <1>1, <1>3, <1>4 DEF Refuse, Return

\* The line a handler is at work on.
LEMMA HandledLine ==
  ASSUME Guarded, NEW c \in Conns, pc[c] \in Inside
  PROVE  /\ NetType /\ Placed(c) /\ Ready(c) /\ Line(c) \in Request
<1>1. NetType /\ Placed(c) /\ Ready(c) /\ pos[c] # 0
  BY DEF Guarded, Typed, Placed
<1> QED BY <1>1, LineType

LEMMA CreateImplemented ==
  ASSUME Guarded, NEW c \in Conns, ApplyCreate(c) \/ RefuseScheme(c)
  PROVE  Implemented
<1> DEFINE r == Line(c)
           new == NewSession(r.message, r.threshold, r.scheme)
<1>1. pc[c] = "apply" /\ r.op = "create" /\ pc[c] \in Inside
  BY DEF ApplyCreate, RefuseScheme, At, Inside
<1>2. NetType /\ Ready(c) /\ r \in Request
  BY <1>1, HandledLine
<1>3. r.message \in Messages /\ r.threshold \in Thresholds /\ r.scheme \in Schemes
  BY <1>1, <1>2, RequestFields
<1>4. CASE ApplyCreate(c)
  <2>1. key[c] = Len(sessions) + 1
    BY <1>1, <1>2 DEF Ready
  <2>2. sessions \in Seq(Session) /\ Len(sessions) + 1 \in 1 .. Len(sessions) + 1
    BY SMTT(60) DEF Guarded
  <2>3. r.scheme \in SCHEMES /\ new \in Session
    BY <1>3, <1>4, NewSessionType DEF ApplyCreate
  <2>4. HandlerStep(c, "apply", "unlock")
    BY <1>2, <1>4, HandlerFrame
  <2>5. sessions' = Insert(key[c], new)
    BY <1>4 DEF ApplyCreate
  <2> HIDE DEF new
  <2>6. sessions' = Append(sessions, new) /\ sessions' \in Seq(Session)
    BY <2>1, <2>2, <2>3, <2>5, InsertType
  <2>7. AbstractSessions = sessions /\ AbstractSessions' = sessions'
    BY <2>4, <2>6, HandlerMapped DEF Inside
  <2>8. last' = Ended("create", Len(sessions) + 1, "ok") /\ UNCHANGED <<issued, events>>
    BY <1>1, <1>4, <2>1 DEF ApplyCreate, Return, Ok, Reply
  <2>9. Coord!CreateSession(r.message, r.threshold, r.scheme)
    BY <2>3, <2>6, <2>7, <2>8, SameOperators DEF Coord!CreateSession, new
  <2> QED BY <1>3, <2>9 DEF Implemented, Coord!Next
<1>5. CASE RefuseScheme(c)
  <2>1. r.scheme \notin SCHEMES /\ Refuse(c, "ArgumentError") /\ events' = events
    BY <1>5 DEF RefuseScheme
  <2>2. /\ AbstractSessions' = AbstractSessions /\ issued' = issued
        /\ last' = Ended("create", 0, "ArgumentError")
    BY <1>1, <2>1, RefuseFacts
  <2>3. Coord!CreateUnknownScheme(r.scheme)
    BY <2>1, <2>2, SameOperators DEF Coord!CreateUnknownScheme, Coord!Raise
  <2> QED BY <1>3, <2>3 DEF Implemented, Coord!Next
<1> QED BY <1>4, <1>5

LEMMA RefusalImplemented ==
  ASSUME Guarded, NEW c \in Conns, RefuseUnknown(c) \/ RefuseDuplicate(c) \/ RefuseAggregate(c)
  PROVE  Implemented
<1> DEFINE r == Line(c)
<1>1. /\ pc[c] = "check" /\ pc[c] \in Inside /\ r.op \in {"commitment", "share", "aggregate"}
      /\ events' = events
  BY DEF RefuseUnknown, RefuseDuplicate, RefuseAggregate, At, Inside
<1>2. r.sid \in Ids /\ (r.op # "aggregate" => r.signer \in Signers)
  BY <1>1, HandledLine, RequestFields
<1>3. ASSUME NEW error, Refuse(c, error)
      PROVE  /\ AbstractSessions = sessions /\ AbstractSessions' = AbstractSessions
             /\ issued' = issued /\ last' = Coord!Ended(r.op, r.sid, error)
  <2>1. r.op # "create"
    BY <1>1
  <2> QED BY <1>1, <1>3, <2>1, RefuseFacts, SameOperators
<1> HIDE DEF r
<1>4. CASE RefuseUnknown(c)
  <2>1. Refuse(c, "NotFoundError") /\ r.sid \notin DOMAIN sessions
    BY <1>4 DEF RefuseUnknown, r
  <2>2. Coord!UnknownSession(r.op, r.sid)
    BY <1>1, <1>3, <2>1 DEF Coord!UnknownSession, Coord!Known, Coord!Raise
  <2> QED BY <1>1, <1>2, <2>2 DEF Implemented, Coord!Next
<1>5. CASE RefuseDuplicate(c)
  <2>1. /\ Refuse(c, "ValidationError") /\ r.sid \in DOMAIN sessions
        /\ r.op \in {"commitment", "share"}
        /\ r.op = "share" => sessions[r.sid].shares[r.signer] # Absent
        /\ r.op = "commitment" => sessions[r.sid].commitments[r.signer] # Absent
    BY <1>5 DEF RefuseDuplicate, At, StoreOf, r
  <2>2. CASE r.op = "share"
    <3>1. Coord!DuplicateShare(r.sid, r.signer)
      BY <1>1, <1>3, <2>1, <2>2 DEF Coord!DuplicateShare, Coord!Known, Coord!Raise
    <3> QED BY <1>2, <2>2, <3>1 DEF Implemented, Coord!Next
  <2>3. CASE r.op = "commitment"
    <3>1. Coord!DuplicateCommitment(r.sid, r.signer)
      BY <1>1, <1>3, <2>1, <2>3 DEF Coord!DuplicateCommitment, Coord!Known, Coord!Raise
    <3> QED BY <1>2, <2>3, <3>1 DEF Implemented, Coord!Next
  <2> QED BY <2>1, <2>2, <2>3
<1>6. CASE RefuseAggregate(c)
  <2> DEFINE t == sessions[r.sid].threshold
  <2>1. /\ Refuse(c, IF Comparable(t) THEN "ThresholdError" ELSE "ArgumentError")
        /\ r.sid \in DOMAIN sessions /\ r.op = "aggregate"
        /\ ~ ThresholdMet(sessions[r.sid])
    BY <1>6 DEF RefuseAggregate, At, r
  <2>2. CASE Comparable(t)
    <3>1. Coord!AggregateBelowThreshold(r.sid)
      BY <1>1, <1>3, <2>1, <2>2, SameOperators
         DEF Coord!AggregateBelowThreshold, Coord!Known, Coord!Raise
    <3> QED BY <1>2, <3>1 DEF Implemented, Coord!Next
  <2>3. CASE ~ Comparable(t)
    <3>1. Coord!AggregateNotComparable(r.sid)
      BY <1>1, <1>3, <2>1, <2>3, SameOperators
         DEF Coord!AggregateNotComparable, Coord!Known, Coord!Raise
    <3> QED BY <1>2, <3>1 DEF Implemented, Coord!Next
  <2> QED BY <2>2, <2>3
<1> QED BY <1>4, <1>5, <1>6

LEMMA ShareImplemented ==
  ASSUME Guarded, NEW c \in Conns, ApplyShare(c)
  PROVE  Implemented
<1> DEFINE r == Line(c)
           s == sessions[r.sid]
           t == AddShare(s, r.signer, r.bytes)
<1>1. pc[c] = "apply" /\ r.op = "share" /\ pc[c] \in Inside
  BY DEF ApplyShare, At, Inside
<1>2. NetType /\ Placed(c) /\ Ready(c) /\ r \in Request
  BY <1>1, HandledLine
<1>3. r.sid \in Ids /\ r.signer \in Signers /\ r.bytes \in Blobs
  BY <1>1, <1>2, RequestFields
<1>4. r.sid \in DOMAIN sessions /\ s.shares[r.signer] = Absent
  BY <1>1, <1>2 DEF Placed, Ready, StoreOf
<1>5. sessions \in Seq(Session) /\ s \in Session
  BY SMTT(60), <1>4 DEF Guarded
<1>6. t \in Session
  BY <1>3, <1>5, AddShareType
<1>7. /\ sessions' = [sessions EXCEPT ![r.sid] = t] /\ HandlerStep(c, "apply", "unlock")
      /\ last' = Ended("share", r.sid, "ok") /\ UNCHANGED <<issued, events>>
  BY <1>1, <1>2, HandlerFrame DEF ApplyShare, Return
<1>8. sessions' \in Seq(Session)
  <2> HIDE DEF t
  <2> QED BY SMTT(60), <1>4, <1>5, <1>6, <1>7
<1>9. AbstractSessions = sessions /\ AbstractSessions' = sessions'
  BY <1>7, <1>8, HandlerMapped DEF Inside
<1>10. Coord!SubmitShare(r.sid, r.signer, r.bytes)
  BY <1>4, <1>7, <1>9, SameOperators DEF Coord!SubmitShare, Coord!Known
<1> QED BY <1>3, <1>10 DEF Implemented, Coord!Next

LEMMA CommitmentImplemented ==
  ASSUME Guarded, NEW c \in Conns, ApplyCommitment(c)
  PROVE  Implemented
<1> DEFINE r == Line(c)
           s == sessions[r.sid]
           u == [s EXCEPT !.commitments = Record(@, r.signer, r.bytes)]
<1>1. pc[c] = "apply" /\ r.op = "commitment" /\ pc[c] \in Inside
  BY DEF ApplyCommitment, At, Inside
<1>2. NetType /\ Placed(c) /\ Ready(c) /\ r \in Request
  BY <1>1, HandledLine
<1>3. r.sid \in Ids /\ r.signer \in Signers /\ r.bytes \in Commitments
  BY <1>1, <1>2, RequestFields
<1>4. r.sid \in DOMAIN sessions /\ s.commitments[r.signer] = Absent
  BY <1>1, <1>2 DEF Placed, Ready, StoreOf
<1>5. sessions \in Seq(Session) /\ s \in Session
  BY SMTT(60), <1>4 DEF Guarded
<1>6. u \in Session /\ CollectCommitments(u) = AddCommitment(s, r.signer, r.bytes)
  BY <1>3, <1>5, CommitmentRecorded DEF AddCommitment
<1>7. /\ sessions' = [sessions EXCEPT ![r.sid] = u] /\ HandlerStep(c, "apply", "settle")
      /\ last' = Ended("commitment", r.sid, IF Comparable(s.threshold) THEN "ok" ELSE "ArgumentError")
      /\ UNCHANGED <<issued, events>>
  BY <1>1, <1>2, HandlerFrame DEF ApplyCommitment, Return
<1> HIDE DEF u
<1>8. sessions' \in Seq(Session) /\ DOMAIN sessions' = DOMAIN sessions /\ sessions'[r.sid] = u
  BY SMTT(60), <1>4, <1>5, <1>6, <1>7
<1>9. /\ AbstractSessions = sessions
      /\ AbstractSessions' = [sessions' EXCEPT ![r.sid] = Settled(r.op, u)]
  BY <1>7, <1>8, HandlerMapped DEF Inside
<1>10. Settled(r.op, u) = AddCommitment(s, r.signer, r.bytes)
  BY <1>1, <1>6 DEF Settled
<1>11. AbstractSessions' = [sessions EXCEPT ![r.sid] = AddCommitment(s, r.signer, r.bytes)]
  BY <1>5, <1>7, <1>9, <1>10
<1>12. Coord!SubmitCommitment(r.sid, r.signer, r.bytes)
  BY <1>4, <1>7, <1>9, <1>11, SameOperators
     DEF Coord!SubmitCommitment, Coord!Known
<1> QED BY <1>3, <1>12 DEF Implemented, Coord!Next

LEMMA AggregateImplemented ==
  ASSUME Guarded, NEW c \in Conns, ApplyAggregate(c) \/ FailAggregate(c)
  PROVE  Implemented
<1> DEFINE r == Line(c)
           s == sessions[r.sid]
<1>1. pc[c] = "apply" /\ r.op = "aggregate" /\ pc[c] \in Inside
  BY DEF ApplyAggregate, FailAggregate, At, Inside
<1>2. NetType /\ Placed(c) /\ Ready(c) /\ r \in Request
  BY <1>1, HandledLine
<1>3. r.sid \in Ids
  BY <1>1, <1>2, RequestFields
<1>4. r.sid \in DOMAIN sessions /\ ThresholdMet(s)
  BY <1>1, <1>2 DEF Placed, Ready
<1>5. sessions \in Seq(Session) /\ s \in Session
  BY SMTT(60), <1>4 DEF Guarded
<1>6. CASE ApplyAggregate(c)
  <2>1. /\ sessions' = sessions /\ HandlerStep(c, "apply", "settle")
        /\ last' = Ended("aggregate", r.sid, "ok")
        /\ "success" \in SignOutcomes(s)
        /\ events' = events \cup {EventOf(s, "success")}
        /\ issued' = issued \cup {SignatureOf(r.sid, s)}
    BY <1>1, <1>2, <1>6, HandlerFrame DEF ApplyAggregate, Return
  <2>2. /\ AbstractSessions = sessions
        /\ AbstractSessions' = [sessions EXCEPT ![r.sid] = Settled(r.op, s)]
    BY <1>5, <2>1, HandlerMapped DEF Inside
  <2>3. Settled(r.op, s) = [s EXCEPT !.state = "completed"]
    BY <1>1 DEF Settled
  <2>4. Coord!Aggregate(r.sid)
    BY <1>4, <2>1, <2>2, <2>3, SameOperators DEF Coord!Aggregate, Coord!Known
  <2> QED BY <1>3, <2>4 DEF Implemented, Coord!Next
<1>7. CASE FailAggregate(c)
  <2>1. ASSUME NEW error, Refuse(c, error)
        PROVE  /\ AbstractSessions = sessions /\ AbstractSessions' = AbstractSessions
               /\ issued' = issued /\ last' = Coord!Ended("aggregate", r.sid, error)
    BY <1>1, <2>1, RefuseFacts, SameOperators
  <2>2. CASE /\ "failure" \in SignOutcomes(s) /\ Refuse(c, "ThresholdError")
             /\ events' = events \cup {EventOf(s, "failure")}
    <3>1. Coord!AggregateFails(r.sid)
      BY <1>4, <2>1, <2>2, SameOperators DEF Coord!AggregateFails, Coord!Known
    <3> QED BY <1>3, <3>1 DEF Implemented, Coord!Next
  <2>3. CASE "reject" \in SignOutcomes(s) /\ Refuse(c, "reject") /\ events' = events
    <3>1. Coord!AggregateRejected(r.sid)
      BY <1>4, <2>1, <2>3, SameOperators
         DEF Coord!AggregateRejected, Coord!Known, Coord!Raise
    <3> QED BY <1>3, <3>1 DEF Implemented, Coord!Next
  <2> QED BY <1>7, <2>2, <2>3 DEF FailAggregate
<1> QED BY <1>6, <1>7

\* The assignment of the state is no step of Coordinator: it was counted as done.
LEMMA SettleImplemented ==
  ASSUME Guarded, NEW c \in Conns, SettleCommitment(c) \/ SettleAggregate(c)
  PROVE  Implemented
<1> DEFINE r == Line(c)
           s == sessions[r.sid]
           t == Settled(r.op, s)
<1>1. NetType /\ pc[c] = "settle" /\ Placed(c)
  BY DEF Guarded, Typed, SettleCommitment, SettleAggregate, At
<1>2. HandlerStep(c, "settle", "unlock")
  BY <1>1, HandlerFrame
<1>3. r.sid \in DOMAIN sessions /\ sessions \in Seq(Session)
  BY <1>1 DEF Placed, Guarded
<1>4. sessions' = [sessions EXCEPT ![r.sid] = t] /\ UNCHANGED <<issued, events, last>>
  BY DEF SettleCommitment, SettleAggregate, At, Settled
<1>5. t \in Session
  BY SMTT(60), <1>3, StateTypes DEF Settled
<1>6. sessions' \in Seq(Session)
  <2> HIDE DEF t
  <2> QED BY SMTT(60), <1>3, <1>4, <1>5
<1>7. AbstractSessions' = AbstractSessions
  BY <1>2, <1>4, <1>6, HandlerMapped DEF Inside
<1> QED BY <1>4, <1>7 DEF Implemented, Coord!vars

\* A line no handler is for.
LEMMA InvalidImplemented ==
  ASSUME Guarded, NEW c \in Conns, CheckInvalid(c)
  PROVE  Implemented
<1>1. NetType /\ UNCHANGED registry
  BY DEF Guarded, Typed, CheckInvalid
<1>2. HandlerStep(c, "check", "unlock") /\ sessions' \in Seq(Session)
  BY <1>1, HandlerFrame DEF Guarded, registry
<1>3. AbstractSessions' = AbstractSessions
  BY <1>1, <1>2, HandlerMapped DEF Inside, registry
<1> QED BY <1>1, <1>3 DEF Implemented, Coord!vars, registry
-------------------------------------------------------------------------------
(* The refinement.                                                            *)

\* Who once called past the mutex is never taken for a connection.
LEMMA SynchronizedBefore ==
  ASSUME Typed, NEW c \in Conns, WireStep(c) \/ Handle(c), Synchronized'
  PROVE  Synchronized
<1>1. NetType /\ Placed(c)
  BY DEF Typed
<1>2. \A d \in Conns : d # c => peer'[d] = peer[d]
  BY <1>1, WireLocal, HandleLocal DEF Untouched
<1>3. peer[c] = "direct" => peer'[c] = "direct"
  <2>1. CASE WireStep(c)
    BY <1>1, <2>1 DEF NetType, Placed, WireStep, HangUp, Connect, CallDirectly,
      ReadLine, ReadEof, ReadReset, Lock, Unlock, WriteReply, WriteFails, WriteError, wire
  <2>2. CASE Handle(c)
    BY <1>1, <2>2, HandleCases, ProceedFrame DEF HandlerStep
  <2> QED BY <2>1, <2>2
<1> QED BY <1>2, <1>3 DEF Synchronized

LEMMA StepImplemented ==
  ASSUME NetInv, [Next]_vars, Synchronized'
  PROVE  Implemented
<1>1. CASE UNCHANGED vars
  <2>1. UNCHANGED <<sessions, issued, events, last, pc, sent, pos>>
    BY <1>1 DEF vars, registry, wire
  <2>2. AbstractSessions' = AbstractSessions
    BY SMTT(60), <2>1 DEF AbstractSessions, Unsettled, Line
  <2> QED BY <2>1, <2>2 DEF Implemented, Coord!vars
<1>2. ASSUME NEW c \in Conns, WireStep(c) \/ Handle(c) PROVE Implemented
  <2>1. Guarded
    BY <1>2, SynchronizedBefore, GuardedHolds DEF NetInv
  <2>2. CASE WireStep(c) \/ Checks(c)
    <3>1. AbstractSessions' = AbstractSessions /\ UNCHANGED registry
      BY <2>1, <2>2, WireStutters
    <3> QED BY <3>1 DEF Implemented, Coord!vars, registry
  <2>3. CASE Writes(c)
    BY <2>1, <2>3, CommitmentImplemented, AggregateImplemented DEF Writes
  <2>4. CASE Finishes(c)
    BY <2>1, <2>4, CreateImplemented, RefusalImplemented, ShareImplemented, AggregateImplemented,
       SettleImplemented, InvalidImplemented DEF Finishes
  <2>5. NetType
    BY DEF NetInv, Typed
  <2> QED BY <1>2, <2>2, <2>3, <2>4, <2>5, HandleCases
<1> QED BY <1>1, <1>2, StepCases DEF Next

\* NetworkCoordinator implements Coordinator (ImplementsCoordinator for every instance):
\* under the mutex the statements of a handler are one atomic call of the in-process
\* coordinator, whatever the other connections do and wherever their clients go away.
THEOREM NetworkRefines == Spec => ImplementsCoordinator
<1>1. Init => Coord!Init
  <2> SUFFICES ASSUME Init PROVE Coord!Init
    OBVIOUS
  <2>1. sessions = <<>> /\ sessions \in Seq(Session) /\ \A c \in Conns : pc[c] # "settle"
    BY SMTT(60) DEF Init
  <2>2. AbstractSessions = <<>>
    BY <2>1, MappedQuiet
  <2> QED BY <2>2, SameOperators DEF Init, Coord!Init
<1>2. NetInv /\ [Next]_vars => [Synchronized' => Coord!Next]_(Coord!vars)
  BY StepImplemented DEF Implemented
<1> QED BY <1>1, <1>2, NetInvariant, PTL DEF Spec, ImplementsCoordinator
================================================================================
