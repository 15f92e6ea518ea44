------------------------------ MODULE Coordinator ------------------------------
(***************************************************************************)
(* Confium::TC::Coordinator (lib/confium/tc/coordinator.rb): the registry  *)
(* of signing sessions, each public method one atomic action.  It is both  *)
(* the model of the in-process coordinator and the abstract specification  *)
(* NetworkCoordinator is shown to implement.                               *)
(*                                                                         *)
(* Session ids are "session-1", "session-2", ...: the key is the registry  *)
(* size plus one and nothing is ever deleted, so the Hash is a sequence.   *)
(***************************************************************************)
EXTENDS SigningSession, Sequences

CONSTANT Ids   \* the session ids callers pass in

ASSUME IdsAssumption == Ids \subseteq Nat

VARIABLES
  sessions,  \* @sessions
  issued,    \* the signatures returned by aggregate (history)
  events,    \* the audit events the native sign calls fired (history)
  last       \* the most recent call and how it ended

vars == <<sessions, issued, events, last>>

Known(sid) == sid \in DOMAIN sessions

Init ==
  /\ sessions = <<>>
  /\ issued = {}
  /\ events = {}
  /\ last = Ended("none", 0, "ok")

\* A call that raises before it changes anything.
Raise(op, sid, error) ==
  /\ last' = Ended(op, sid, error)
  /\ UNCHANGED <<sessions, issued, events>>

\* Mutant: the key is the registry size without the plus one.
CreateSessionReusesId(message, threshold, scheme) ==
  /\ scheme \in SCHEMES
  /\ sessions' = Append(IF sessions = <<>> THEN <<>> ELSE SubSeq(sessions, 1, Len(sessions) - 1),
                        NewSession(message, threshold, scheme))
  /\ last' = Ended("create", Len(sessions'), "ok")
  /\ UNCHANGED <<issued, events>>

CreateSession(message, threshold, scheme) ==
  /\ scheme \in SCHEMES
  /\ sessions' = Append(sessions, NewSession(message, threshold, scheme))
  /\ last' = Ended("create", Len(sessions) + 1, "ok")
  /\ UNCHANGED <<issued, events>>

\* SigningSession.new raises before the registry is assigned.
CreateUnknownScheme(scheme) ==
  /\ scheme \notin SCHEMES
  /\ Raise("create", 0, "ArgumentError")

\* fetch raises.
UnknownSession(op, sid) ==
  /\ ~Known(sid)
  /\ Raise(op, sid, "NotFoundError")

\* add_commitment records first and compares afterwards: with a threshold that
\* does not compare the call raises although the commitment is stored.
SubmitCommitment(sid, signer, bytes) ==
  /\ Known(sid)
  /\ sessions[sid].commitments[signer] = Absent
  /\ sessions' = [sessions EXCEPT ![sid] = AddCommitment(@, signer, bytes)]
  /\ last' = Ended("commitment", sid, IF Comparable(sessions[sid].threshold)
                                      THEN "ok" ELSE "ArgumentError")
  /\ UNCHANGED <<issued, events>>

DuplicateCommitment(sid, signer) ==
  /\ Known(sid)
  /\ sessions[sid].commitments[signer] # Absent
  /\ Raise("commitment", sid, "ValidationError")

\* Mutant: a second share of a signer replaces the first.
SubmitShareReplaces(sid, signer, bytes) ==
  /\ Known(sid)
  /\ sessions' = [sessions EXCEPT ![sid] = AddShare(@, signer, bytes)]
  /\ last' = Ended("share", sid, "ok")
  /\ UNCHANGED <<issued, events>>

SubmitShare(sid, signer, bytes) ==
  /\ Known(sid)
  /\ sessions[sid].shares[signer] = Absent
  /\ sessions' = [sessions EXCEPT ![sid] = AddShare(@, signer, bytes)]
  /\ last' = Ended("share", sid, "ok")
  /\ UNCHANGED <<issued, events>>

DuplicateShare(sid, signer) ==
  /\ Known(sid)
  /\ sessions[sid].shares[signer] # Absent
  /\ Raise("share", sid, "ValidationError")

\* Mutant: the signature is returned without an event.
AggregateUnaudited(sid) ==
  /\ Known(sid)
  /\ ThresholdMet(sessions[sid])
  /\ "success" \in SignOutcomes(sessions[sid])
  /\ issued' = issued \cup {SignatureOf(sid, sessions[sid])}
  /\ sessions' = [sessions EXCEPT ![sid].state = "completed"]
  /\ last' = Ended("aggregate", sid, "ok")
  /\ UNCHANGED events

Aggregate(sid) ==
  /\ Known(sid)
  /\ ThresholdMet(sessions[sid])
  /\ "success" \in SignOutcomes(sessions[sid])
  /\ events' = events \cup {EventOf(sessions[sid], "success")}
  /\ issued' = issued \cup {SignatureOf(sid, sessions[sid])}
  /\ sessions' = [sessions EXCEPT ![sid].state = "completed"]
  /\ last' = Ended("aggregate", sid, "ok")

\* Mutant: a failed combine puts the session back to commitments_collected.
AggregateFailsReopens(sid) ==
  /\ Known(sid)
  /\ ThresholdMet(sessions[sid])
  /\ "failure" \in SignOutcomes(sessions[sid])
  /\ events' = events \cup {EventOf(sessions[sid], "failure")}
  /\ sessions' = [sessions EXCEPT ![sid] = CollectCommitments(@)]
  /\ last' = Ended("aggregate", sid, "ThresholdError")
  /\ UNCHANGED issued

\* The combine fails: the native layer fires a failure event and raises before
\* aggregate reaches its state assignment.
AggregateFails(sid) ==
  /\ Known(sid)
  /\ ThresholdMet(sessions[sid])
  /\ "failure" \in SignOutcomes(sessions[sid])
  /\ events' = events \cup {EventOf(sessions[sid], "failure")}
  /\ last' = Ended("aggregate", sid, "ThresholdError")
  /\ UNCHANGED <<sessions, issued>>

\* An argument the native layer does not take raises before any event.
AggregateRejected(sid) ==
  /\ Known(sid)
  /\ ThresholdMet(sessions[sid])
  /\ "reject" \in SignOutcomes(sessions[sid])
  /\ Raise("aggregate", sid, "reject")

AggregateBelowThreshold(sid) ==
  /\ Known(sid)
  /\ Comparable(sessions[sid].threshold)
  /\ ~ThresholdMet(sessions[sid])
  /\ Raise("aggregate", sid, "ThresholdError")

\* threshold_met? itself raises on a threshold that does not compare.
AggregateNotComparable(sid) ==
  /\ Known(sid)
  /\ ~Comparable(sessions[sid].threshold)
  /\ Raise("aggregate", sid, "ArgumentError")

Next ==
  \/ \E m \in Messages, t \in Thresholds, c \in Schemes : CreateSession(m, t, c)
  \/ \E c \in Schemes : CreateUnknownScheme(c)
  \/ \E op \in {"commitment", "share", "aggregate"}, sid \in Ids : UnknownSession(op, sid)
  \/ \E sid \in Ids, x \in Signers, b \in Commitments : SubmitCommitment(sid, x, b)
  \/ \E sid \in Ids, x \in Signers : DuplicateCommitment(sid, x)
  \/ \E sid \in Ids, x \in Signers, b \in Blobs : SubmitShare(sid, x, b)
  \/ \E sid \in Ids, x \in Signers : DuplicateShare(sid, x)
  \/ \E sid \in Ids : Aggregate(sid)
  \/ \E sid \in Ids : AggregateFails(sid)
  \/ \E sid \in Ids : AggregateRejected(sid)
  \/ \E sid \in Ids : AggregateBelowThreshold(sid)
  \/ \E sid \in Ids : AggregateNotComparable(sid)

Spec == Init /\ [][Next]_vars

-------------------------------------------------------------------------------
TypeOK ==
  /\ sessions \in Seq(Session)
  /\ issued \subseteq Signature
  /\ events \subseteq Event
  /\ last \in Call

\* Every signature aggregate returned was combined from the shares of at least
\* threshold distinct signers, all of which are on record in that very session,
\* and it signs that session's message: no signer counts twice and no session
\* borrows another's shares (SigningSession#record, #threshold_met?, #aggregate).
SignatureNeedsQuorum ==
  \A g \in issued :
    /\ Known(g.sid)
    /\ g.message = sessions[g.sid].message
    /\ g.signers \subseteq Submitters(sessions[g.sid].shares)
    /\ AtLeast(Cardinality(g.signers), sessions[g.sid].threshold)

\* The reported state is backed by what happened: completed only after a
\* signature was returned, commitments_collected only with threshold commitments
\* on record, pending only while there are fewer (or none at all).
StateIsJustified ==
  \A sid \in DOMAIN sessions :
    LET s == sessions[sid]
        enough == AtLeast(Count(s.commitments), s.threshold)
    IN /\ s.state = "pending" => ~enough \/ Count(s.commitments) = 0
       /\ s.state = "commitments_collected" => enough
       /\ s.state = "completed" => \E g \in issued : g.sid = sid

\* The native sign calls leave one trail: a signature was returned for a message
\* under a scheme exactly when a success event for both was fired, so an event
\* is never fired for a signature nobody got and never missing for one returned.
AuditMatchesSignatures ==
  \A m \in Messages, c \in SCHEMES :
    [result |-> "success", algorithm |-> c, payload |-> m] \in events
      <=> \E g \in issued : g.message = m /\ sessions[g.sid].scheme = c

\* What a step may not do to what is on record: drop a session, change its
\* message, threshold or scheme, or replace or drop a commitment or share.
KeepsSubmissions ==
  /\ Len(sessions) <= Len(sessions')
  /\ \A sid \in DOMAIN sessions :
       LET s == sessions[sid]
           t == sessions'[sid]
       IN /\ t.message = s.message /\ t.threshold = s.threshold /\ t.scheme = s.scheme
          /\ \A x \in Signers :
               /\ s.commitments[x] # Absent => t.commitments[x] = s.commitments[x]
               /\ s.shares[x] # Absent => t.shares[x] = s.shares[x]

\* What was submitted stays, whatever is called: SigningSession has no setter and
\* record refuses a key that is present.
SubmissionsAreFinal == [][KeepsSubmissions]_vars

\* A call that raises leaves the registry as it was, with one exception: a
\* commitment to a session whose threshold does not compare is stored before the
\* comparison raises, so the caller is told of a failure that took effect.
RaiseLeavesRegistry ==
  [][last'.out # "ok" =>
       \/ sessions' = sessions
       \/ /\ last'.op = "commitment"
          /\ ~Comparable(sessions[last'.sid].threshold)
          /\ [sessions' EXCEPT ![last'.sid].commitments = sessions[last'.sid].commitments]
               = sessions]_vars

\* The comment of SigningSession: pending -> commitments_collected -> completed.
\* A session never returns to an earlier state of that chain.
Rank(state) ==
  CASE state = "pending" -> 0 [] state = "commitments_collected" -> 1 [] state = "completed" -> 2

StateNeverRegresses ==
  [][\A sid \in DOMAIN sessions : Rank(sessions[sid].state) <= Rank(sessions'[sid].state)]_vars

\* Aggregating a session again, with shares and signatures of others in between,
\* combines every share combined before: of two signatures of one session, one
\* has all the signers of the other (aggregate takes @shares.values).
RetryExtendsShares ==
  \A g, h \in issued : g.sid = h.sid => g.signers \subseteq h.signers \/ h.signers \subseteq g.signers
================================================================================
