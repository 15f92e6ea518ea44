--------------------------- MODULE NetworkCoordinator ---------------------------
(***************************************************************************)
(* Confium::TC::NetworkCoordinator#serve and the request handlers          *)
(* (lib/confium/tc/network_coordinator.rb), with SignerClient as the peer. *)
(*                                                                         *)
(* Every accepted connection has a thread that reads a line, runs its      *)
(* handler inside @mutex and writes one reply.  Ruby may switch threads    *)
(* between any two statements of a handler, so a handler is two or three   *)
(* steps here: what it reads and refuses (check), what it writes (apply),  *)
(* and the assignment of the session state that follows (settle).  Peers   *)
(* send any request at any time, which includes resending one whose reply  *)
(* was lost, and go away at any time.  The program that passed its own     *)
(* Coordinator in may call it too, past the mutex.                         *)
(***************************************************************************)
EXTENDS SigningSession, Sequences

CONSTANTS
  Conns,     \* the connections, one thread each
  Ids,       \* the session ids peers pass in
  Scripts,   \* the sequences of lines a client may write on a connection
  DirectCalls, \* the calls a thread of the embedding program may make
  Nobody     \* @mutex is free

ASSUME NetworkAssumption ==
  /\ Nobody \notin Conns
  /\ Ids \subseteq Nat

VARIABLES
  sessions, issued, events, last,  \* the Coordinator's state, see that module
  mutex,    \* the connection whose thread holds @mutex
  pc,       \* where each connection's thread is
  peer,     \* the client's end of each connection
  sent,     \* the lines the client wrote
  pos,      \* how many of them the thread has read
  key,      \* session_id, computed by create_session before it inserts
  reply,    \* the response or exception of the current line, if any
  got       \* the replies the client received

registry == <<sessions, issued, events, last>>
wire == <<peer, sent, got>>
vars == <<registry, wire, mutex, pc, pos, key, reply>>

(* The lines: one well-formed request per operation, a line that is not JSON  *)
(* and a request dispatch or a handler's fetch refuses (missing or unknown    *)
(* op, missing field).                                                        *)
Request ==
  [op: {"create"}, message: Messages, threshold: Thresholds, scheme: Schemes]
    \cup [op: {"commitment"}, sid: Ids, signer: Signers, bytes: Commitments]
    \cup [op: {"share"}, sid: Ids, signer: Signers, bytes: Blobs]
    \cup [op: {"aggregate"}, sid: Ids]
    \cup [op: {"malformed", "invalid"}]

ASSUME ScriptsAssumption == Scripts \cup DirectCalls \subseteq Seq(Request)

Reply(out, sid, state, signers) ==
  [out |-> out, sid |-> sid, state |-> state, signers |-> signers]

Ok(sid, state, signers) == Reply("ok", sid, state, signers)

Failed(error) == Reply(error, 0, "none", {})

Line(c) == sent[c][pos[c]]

Init ==
  /\ sessions = <<>> /\ issued = {} /\ events = {}
  /\ last = Ended("none", 0, "ok")
  /\ mutex = Nobody
  /\ pc = [c \in Conns |-> "idle"]
  /\ peer = [c \in Conns |-> "none"]
  /\ sent = [c \in Conns |-> <<>>]
  /\ pos = [c \in Conns |-> 0]
  /\ key = [c \in Conns |-> 0]
  /\ reply = [c \in Conns |-> Failed("none")]
  /\ got = [c \in Conns |-> <<>>]

-------------------------------------------------------------------------------
(* The client's end.  A client's lines are on the wire from the start: the     *)
(* thread reads them when it gets to it, so a client that writes a line later *)
(* is one whose thread reads it later.                                        *)

Connect(c, lines) ==
  /\ peer[c] = "none"
  /\ peer' = [peer EXCEPT ![c] = "open"]
  /\ sent' = [sent EXCEPT ![c] = lines]
  /\ pc' = [pc EXCEPT ![c] = "read"]
  /\ UNCHANGED <<registry, mutex, pos, key, reply, got>>

\* A thread of the program that passed its Coordinator in: it calls the same methods, in
\* the same steps, without the mutex, and gets their results or exceptions.
CallDirectly(c, calls) ==
  /\ peer[c] = "none"
  /\ peer' = [peer EXCEPT ![c] = "direct"]
  /\ sent' = [sent EXCEPT ![c] = calls]
  /\ pc' = [pc EXCEPT ![c] = "read"]
  /\ UNCHANGED <<registry, mutex, pos, key, reply, got>>

\* The client closes, dies or loses the network; replies no longer reach it.
HangUp(c) ==
  /\ peer[c] = "open"
  /\ peer' = [peer EXCEPT ![c] = "gone"]
  /\ UNCHANGED <<registry, mutex, pc, sent, pos, key, reply, got>>

-------------------------------------------------------------------------------
(* serve: the read side of the loop.                                          *)

Goto(c, where) == pc' = [pc EXCEPT ![c] = where]

Answer(c, r) == reply' = [reply EXCEPT ![c] = r]

ReadLine(c) ==
  /\ pc[c] = "read"
  /\ pos[c] < Len(sent[c])
  /\ pos' = [pos EXCEPT ![c] = @ + 1]
  /\ IF sent[c][pos[c] + 1].op = "malformed"
     THEN Goto(c, "fail") /\ Answer(c, Failed("RequestError"))
     ELSE Goto(c, "lock") /\ UNCHANGED reply
  /\ UNCHANGED <<registry, wire, mutex, key>>

\* each_line ends at the end of the stream and the ensure clause closes.
ReadEof(c) ==
  /\ pc[c] = "read"
  /\ pos[c] = Len(sent[c])
  /\ peer[c] = "gone"
  /\ Goto(c, "closed")
  /\ UNCHANGED <<registry, wire, mutex, pos, key, reply>>

\* The connection was reset: reading raises, unread lines are lost.
ReadReset(c) ==
  /\ pc[c] = "read"
  /\ peer[c] = "gone"
  /\ Goto(c, "fail")
  /\ Answer(c, Failed("IOError"))
  /\ UNCHANGED <<registry, wire, mutex, pos, key>>

\* Mutant: share submissions are dispatched without synchronize.
LockAllButShares(c) ==
  /\ pc[c] = "lock"
  /\ IF peer[c] = "direct" \/ Line(c).op = "share" THEN UNCHANGED mutex
     ELSE mutex = Nobody /\ mutex' = c
  /\ Goto(c, "check")
  /\ UNCHANGED <<registry, wire, pos, key, reply>>

Lock(c) ==
  /\ pc[c] = "lock"
  /\ IF peer[c] = "direct" THEN UNCHANGED mutex ELSE mutex = Nobody /\ mutex' = c
  /\ Goto(c, "check")
  /\ UNCHANGED <<registry, wire, pos, key, reply>>

\* Mutant: an exception leaves the mutex locked.
UnlockUnlessRaised(c) ==
  /\ pc[c] = "unlock"
  /\ mutex' = IF reply[c].out = "ok" THEN Nobody ELSE mutex
  /\ key' = [key EXCEPT ![c] = 0]
  /\ Goto(c, IF reply[c].out = "ok" THEN "write" ELSE "fail")
  /\ UNCHANGED <<registry, wire, pos, reply>>

\* Mutant: the rescue clause is inside the loop.
UnlockAndGoOn(c) ==
  /\ pc[c] = "unlock"
  /\ mutex' = Nobody
  /\ key' = [key EXCEPT ![c] = 0]
  /\ Goto(c, "write")
  /\ UNCHANGED <<registry, wire, pos, reply>>

\* synchronize releases the mutex on a return and on an exception.
Unlock(c) ==
  /\ pc[c] = "unlock"
  /\ mutex' = IF peer[c] = "direct" THEN mutex ELSE Nobody
  /\ key' = [key EXCEPT ![c] = 0]
  /\ Goto(c, IF reply[c].out = "ok" THEN "write" ELSE "fail")
  /\ UNCHANGED <<registry, wire, pos, reply>>

-------------------------------------------------------------------------------
(* dispatch and the handlers, inside the mutex.                               *)

At(c, where, op) == pc[c] = where /\ Line(c).op = op

\* The handler returns or raises: the call's outcome is settled here.
Return(c, where, out, r) ==
  /\ last' = Ended(Line(c).op, IF Line(c).op = "create" THEN r.sid ELSE Line(c).sid, out)
  /\ Answer(c, r)
  /\ Goto(c, where)
  /\ UNCHANGED <<wire, mutex, pos, key>>

Refuse(c, error) ==
  /\ Return(c, "unlock", error, Failed(error))
  /\ UNCHANGED <<sessions, issued>>

Proceed(c) ==
  /\ Goto(c, "apply")
  /\ UNCHANGED <<registry, wire, mutex, pos, reply>>

CheckInvalid(c) ==
  /\ At(c, "check", "invalid")
  /\ Answer(c, Failed("RequestError"))
  /\ Goto(c, "unlock")
  /\ UNCHANGED <<registry, wire, mutex, pos, key>>

\* Mutant: the key is the registry size without the plus one.
CheckCreateReuses(c) ==
  /\ At(c, "check", "create")
  /\ key' = [key EXCEPT ![c] = IF sessions = <<>> THEN 1 ELSE Len(sessions)]
  /\ Proceed(c)

CheckCreate(c) ==
  /\ At(c, "check", "create")
  /\ key' = [key EXCEPT ![c] = Len(sessions) + 1]
  /\ Proceed(c)

Insert(id, s) ==
  [i \in 1 .. (IF id > Len(sessions) THEN id ELSE Len(sessions)) |->
     IF i = id THEN s ELSE sessions[i]]

ApplyCreate(c) ==
  /\ At(c, "apply", "create")
  /\ Line(c).scheme \in SCHEMES
  /\ sessions' = Insert(key[c], NewSession(Line(c).message, Line(c).threshold, Line(c).scheme))
  /\ Return(c, "unlock", "ok", Ok(key[c], "pending", {}))
  /\ UNCHANGED <<issued, events>>

RefuseScheme(c) ==
  /\ At(c, "apply", "create")
  /\ Line(c).scheme \notin SCHEMES
  /\ Refuse(c, "ArgumentError")
  /\ UNCHANGED events

RefuseUnknown(c) ==
  /\ \E op \in {"commitment", "share", "aggregate"} : At(c, "check", op)
  /\ Line(c).sid \notin DOMAIN sessions
  /\ Refuse(c, "NotFoundError")
  /\ UNCHANGED events

StoreOf(c) ==
  IF Line(c).op = "share" THEN sessions[Line(c).sid].shares
                          ELSE sessions[Line(c).sid].commitments

CheckSubmission(c) ==
  /\ \E op \in {"commitment", "share"} : At(c, "check", op)
  /\ Line(c).sid \in DOMAIN sessions
  /\ StoreOf(c)[Line(c).signer] = Absent
  /\ Proceed(c)
  /\ UNCHANGED key

RefuseDuplicate(c) ==
  /\ \E op \in {"commitment", "share"} : At(c, "check", op)
  /\ Line(c).sid \in DOMAIN sessions
  /\ StoreOf(c)[Line(c).signer] # Absent
  /\ Refuse(c, "ValidationError")
  /\ UNCHANGED events

ApplyShare(c) ==
  /\ At(c, "apply", "share")
  /\ sessions' = [sessions EXCEPT ![Line(c).sid] = AddShare(@, Line(c).signer, Line(c).bytes)]
  /\ Return(c, "unlock", "ok", Ok(0, "none", {}))
  /\ UNCHANGED <<issued, events>>

ApplyCommitment(c) ==
  /\ At(c, "apply", "commitment")
  /\ sessions' = [sessions EXCEPT ![Line(c).sid].commitments =
                                     Record(@, Line(c).signer, Line(c).bytes)]
  /\ LET out == IF Comparable(sessions[Line(c).sid].threshold) THEN "ok" ELSE "ArgumentError"
     IN Return(c, "settle", out, Failed(out))
  /\ UNCHANGED <<issued, events>>

\* add_commitment's state assignment, then session_state for the response.
SettleCommitment(c) ==
  /\ At(c, "settle", "commitment")
  /\ LET s == CollectCommitments(sessions[Line(c).sid])
     IN /\ sessions' = [sessions EXCEPT ![Line(c).sid] = s]
        /\ IF Comparable(s.threshold)
           THEN Answer(c, Ok(0, s.state, {}))
           ELSE Answer(c, Failed("ArgumentError"))
  /\ Goto(c, "unlock")
  /\ UNCHANGED <<issued, events, last, wire, mutex, pos, key>>

CheckAggregate(c) ==
  /\ At(c, "check", "aggregate")
  /\ Line(c).sid \in DOMAIN sessions
  /\ ThresholdMet(sessions[Line(c).sid])
  /\ Proceed(c)
  /\ UNCHANGED key

RefuseAggregate(c) ==
  /\ At(c, "check", "aggregate")
  /\ Line(c).sid \in DOMAIN sessions
  /\ ~ThresholdMet(sessions[Line(c).sid])
  /\ Refuse(c, IF Comparable(sessions[Line(c).sid].threshold)
               THEN "ThresholdError" ELSE "ArgumentError")
  /\ UNCHANGED events

\* The native sign call returns a signature; it fires its event before it does.
ApplyAggregate(c) ==
  /\ At(c, "apply", "aggregate")
  /\ LET s == sessions[Line(c).sid]
     IN /\ "success" \in SignOutcomes(s)
        /\ events' = events \cup {EventOf(s, "success")}
        /\ issued' = issued \cup {SignatureOf(Line(c).sid, s)}
        /\ Return(c, "settle", "ok", Ok(Line(c).sid, "completed", Submitters(s.shares)))
  /\ UNCHANGED sessions

\* Mutant: the state assignment is missing.
SettleAggregateForgets(c) ==
  /\ At(c, "settle", "aggregate")
  /\ Goto(c, "unlock")
  /\ UNCHANGED <<registry, wire, mutex, pos, key, reply>>

SettleAggregate(c) ==
  /\ At(c, "settle", "aggregate")
  /\ sessions' = [sessions EXCEPT ![Line(c).sid].state = "completed"]
  /\ Goto(c, "unlock")
  /\ UNCHANGED <<issued, events, last, wire, mutex, pos, key, reply>>

FailAggregate(c) ==
  /\ At(c, "apply", "aggregate")
  /\ LET s == sessions[Line(c).sid]
     IN \/ /\ "failure" \in SignOutcomes(s)
           /\ events' = events \cup {EventOf(s, "failure")}
           /\ Refuse(c, "ThresholdError")
        \/ /\ "reject" \in SignOutcomes(s)
           /\ events' = events
           /\ Refuse(c, "reject")

-------------------------------------------------------------------------------
(* serve: the write side of the loop.                                         *)

Deliver(c) ==
  IF peer[c] # "gone"
  THEN got' = [got EXCEPT ![c] = Append(@, [line |-> Line(c), reply |-> reply[c]])]
  ELSE UNCHANGED got

WriteReply(c) ==
  /\ pc[c] = "write"
  /\ Deliver(c)
  /\ Answer(c, Failed("none"))
  /\ Goto(c, "read")
  /\ UNCHANGED <<registry, mutex, peer, sent, pos, key>>

\* EPIPE: the rescue clause takes over although the request was carried out.
WriteFails(c) ==
  /\ pc[c] = "write"
  /\ peer[c] = "gone"
  /\ Goto(c, "fail")
  /\ UNCHANGED <<registry, wire, mutex, pos, key, reply>>

\* write_error and the ensure clause: one error line if the peer is there, and
\* the connection is closed with whatever it had left to read.
WriteError(c) ==
  /\ pc[c] = "fail"
  /\ IF pos[c] = 0 THEN UNCHANGED got ELSE Deliver(c)
  /\ Answer(c, Failed("none"))
  /\ Goto(c, "closed")
  /\ UNCHANGED <<registry, mutex, peer, sent, pos, key>>

-------------------------------------------------------------------------------
Handle(c) ==
  \/ CheckInvalid(c) \/ CheckCreate(c) \/ ApplyCreate(c) \/ RefuseScheme(c)
  \/ RefuseUnknown(c) \/ CheckSubmission(c) \/ RefuseDuplicate(c)
  \/ ApplyShare(c) \/ ApplyCommitment(c) \/ SettleCommitment(c)
  \/ CheckAggregate(c) \/ RefuseAggregate(c) \/ ApplyAggregate(c)
  \/ SettleAggregate(c) \/ FailAggregate(c)

Serve(c) ==
  \/ ReadLine(c) \/ ReadEof(c) \/ ReadReset(c) \/ Lock(c) \/ Handle(c)
  \/ Unlock(c) \/ WriteReply(c) \/ WriteFails(c) \/ WriteError(c)

Client(c) ==
  \/ HangUp(c)
  \/ \E lines \in Scripts : Connect(c, lines)
  \/ \E calls \in DirectCalls : CallDirectly(c, calls)

Next == \E c \in Conns : Client(c) \/ Serve(c)

\* Ruby runs every thread that can run, and a native combine returns.
Fairness == \A c \in Conns : WF_vars(Serve(c))

Spec == Init /\ [][Next]_vars /\ Fairness

-------------------------------------------------------------------------------
\* What the clients were told, as <<line, reply>> records.
Told == UNION {{got[c][k] : k \in DOMAIN got[c]} : c \in Conns}

\* A client that was told ok for a commitment or share finds exactly its bytes
\* on record; one that was told its submission is a duplicate (for instance
\* because it resent a line whose reply was lost) is on record as well.
AcknowledgedIsRecorded ==
  \A t \in Told :
    t.line.op \in {"commitment", "share"} =>
      LET stored == IF t.line.op = "share" THEN sessions[t.line.sid].shares[t.line.signer]
                                           ELSE sessions[t.line.sid].commitments[t.line.signer]
      IN /\ t.reply.out = "ok" => stored = t.line.bytes
         /\ t.reply.out = "ValidationError" => stored # Absent

\* A client can rely on what it was told.  A session id is its creator's alone and the
\* session behind it the one asked for: the registry size is read and the session
\* inserted without another thread in between.  A signature was issued, and
\* commitments_collected reported, with threshold signers behind it.
RepliesAreBacked ==
  /\ \A t \in Told : t.reply.out = "ok" =>
       /\ t.line.op = "create" =>
            /\ t.reply.sid \in DOMAIN sessions
            /\ sessions[t.reply.sid].message = t.line.message
            /\ sessions[t.reply.sid].threshold = t.line.threshold
       /\ t.line.op = "aggregate" =>
            /\ [sid |-> t.line.sid, message |-> sessions[t.line.sid].message,
                signers |-> t.reply.signers] \in issued
            /\ AtLeast(Cardinality(t.reply.signers), sessions[t.line.sid].threshold)
       /\ t.line.op = "commitment" /\ t.reply.state = "commitments_collected" =>
            AtLeast(Count(sessions[t.line.sid].commitments), sessions[t.line.sid].threshold)
  /\ \A c, d \in Conns : \A i \in DOMAIN got[c], j \in DOMAIN got[d] :
       /\ got[c][i].line.op = "create" /\ got[c][i].reply.out = "ok"
       /\ got[d][j].line.op = "create" /\ got[d][j].reply.out = "ok"
       /\ got[c][i].reply.sid = got[d][j].reply.sid
       => c = d /\ i = j

\* An error ends its connection: no line behind it is read, so a request
\* pipelined after a refused one never takes effect (the rescue clauses of serve
\* are outside its loop).
ErrorIsFinal ==
  \A c \in Conns : \A k \in DOMAIN got[c] :
    got[c][k].reply.out # "ok" => pos[c] = k /\ Len(got[c]) = k

\* A line the client wrote and stays for is answered, unless an earlier line of the
\* connection was refused; a connection whose client went away is closed and its thread
\* ends, wherever the thread was, and the mutex does not stay with a thread that ended.
ConnectionsEnd ==
  \A c \in Conns :
    /\ sent[c] # <<>> ~> (Len(got[c]) = Len(sent[c]) \/ peer[c] = "gone" \/ pc[c] = "closed")
    /\ peer[c] = "gone" ~> (pc[c] = "closed" /\ mutex # c)
================================================================================
