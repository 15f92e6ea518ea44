----------------------------- MODULE NetworkProofs -----------------------------
(***************************************************************************)
(* What a client of NetworkCoordinator can rely on, for any number of      *)
(* connections, lines, signers and sessions: an error is the last thing a  *)
(* connection carries, and a reply stays true whatever the other           *)
(* connections do.                                                         *)
(***************************************************************************)
EXTENDS NetworkCoordinator, SessionProofs

\* Zenon first, the SMT solver where it is not named alone.
USE ZenonT(30), SMTT(60)

Inside == {"check", "apply", "settle", "unlock"}

Places == Inside \cup {"idle", "read", "lock", "write", "fail", "closed"}

Outcomes == Errors \cup {"ok", "none", "RequestError", "IOError"}

Replies == [out: Outcomes, sid: Nat, state: States \cup {"none"}, signers: SUBSET Signers]

Entries == [line: Request, reply: Replies]

NetType ==
  /\ sessions \in Seq(Session)
  /\ pc \in [Conns -> Places]
  /\ peer \in [Conns -> {"none", "open", "gone", "direct"}]
  /\ sent \in [Conns -> Seq(Request)]
  /\ pos \in [Conns -> Nat]
  /\ key \in [Conns -> Nat]
  /\ reply \in [Conns -> Replies]
  /\ got \in [Conns -> Seq(Entries)]

\* Where a thread is tells what it has read and what it has found.
Placed(c) ==
  /\ pos[c] <= Len(sent[c])
  /\ pc[c] \in Inside \cup {"lock", "write"} => pos[c] # 0
  /\ peer[c] = "none" => pc[c] = "idle"
  /\ pc[c] = "idle" => pos[c] = 0 /\ peer[c] = "none"
  /\ pc[c] = "apply" =>
       \/ Line(c).op = "create" /\ key[c] \in 1 .. Len(sessions) + 1
       \/ /\ Line(c).op \in {"share", "commitment", "aggregate"}
          /\ Line(c).sid \in DOMAIN sessions
  /\ pc[c] = "settle" =>
       Line(c).op \in {"commitment", "aggregate"} /\ Line(c).sid \in DOMAIN sessions

Typed == NetType /\ \A c \in Conns : Placed(c)
-------------------------------------------------------------------------------
LEMMA LineType ==
  ASSUME NetType, NEW c \in Conns, Placed(c), pos[c] # 0
  PROVE  Line(c) \in Request
BY SMTT(60) DEF NetType, Placed, Line

LEMMA RequestFields ==
  ASSUME NEW r \in Request
  PROVE  /\ r.op = "create" => r.message \in Messages /\ r.threshold \in Thresholds /\ r.scheme \in Schemes
         /\ r.op = "commitment" => r.sid \in Ids /\ r.signer \in Signers /\ r.bytes \in Commitments
         /\ r.op = "share" => r.sid \in Ids /\ r.signer \in Signers /\ r.bytes \in Blobs
         /\ r.op = "aggregate" => r.sid \in Ids
BY SMTT(60) DEF Request

LEMMA ReplyFields ==
  /\ \A out : Failed(out).out = out
  /\ \A sid, state, signers : Ok(sid, state, signers).out = "ok" /\ Ok(sid, state, signers).state = state
BY DEF Ok, Failed, Reply

LEMMA RepliesType ==
  /\ \A out \in Outcomes : Failed(out) \in Replies /\ Failed(out).out = out
  /\ \A sid \in Nat, state \in States \cup {"none"}, signers \in SUBSET Signers :
       /\ Ok(sid, state, signers) \in Replies
       /\ Ok(sid, state, signers).out = "ok"
       /\ Ok(sid, state, signers).sid = sid
       /\ Ok(sid, state, signers).state = state
       /\ Ok(sid, state, signers).signers = signers
<1>1. \A o, n, s, g : /\ Reply(o, n, s, g).out = o /\ Reply(o, n, s, g).sid = n
                      /\ Reply(o, n, s, g).state = s /\ Reply(o, n, s, g).signers = g
  BY DEF Reply
<1>2. \A o \in Outcomes, n \in Nat, s \in States \cup {"none"}, g \in SUBSET Signers :
        Reply(o, n, s, g) \in Replies
  BY DEF Reply, Replies
<1>3. "ok" \in Outcomes
  BY DEF Outcomes
<1>4. \A out \in Outcomes : Failed(out) \in Replies /\ Failed(out).out = out
  BY SMTT(60), <1>1, <1>2 DEF Failed
<1>5. \A sid \in Nat, state \in States \cup {"none"}, signers \in SUBSET Signers :
        Ok(sid, state, signers) \in Replies
  BY <1>2, <1>3 DEF Ok
<1>6. \A sid, state, signers :
        /\ Ok(sid, state, signers).out = "ok" /\ Ok(sid, state, signers).sid = sid
        /\ Ok(sid, state, signers).state = state /\ Ok(sid, state, signers).signers = signers
  BY SMTT(60), <1>1 DEF Ok
<1> QED BY SMTT(60), <1>4, <1>5, <1>6

\* Handing out a reply adds it, with its line, to what the client has.
LEMMA DeliverType ==
  ASSUME NetType, NEW c \in Conns, Placed(c), pos[c] # 0, Deliver(c)
  PROVE  /\ got' \in [Conns -> Seq(Entries)]
         /\ \A d \in Conns : d # c => got'[d] = got[d]
         /\ peer[c] = "gone" => got'[c] = got[c]
         /\ peer[c] # "gone" => /\ Len(got'[c]) = Len(got[c]) + 1
                                /\ \A k \in 1 .. Len(got[c]) : got'[c][k] = got[c][k]
                                /\ got'[c][Len(got[c]) + 1].line = Line(c)
                                /\ got'[c][Len(got[c]) + 1].reply = reply[c]
<1> DEFINE e == [line |-> Line(c), reply |-> reply[c]]
<1>1. e \in Entries /\ e.line = Line(c) /\ e.reply = reply[c]
  BY LineType DEF NetType, Entries
<1>2. got[c] \in Seq(Entries)
  BY DEF NetType
<1>3. CASE peer[c] = "gone"
  BY <1>3 DEF Deliver, NetType
<1>4. CASE peer[c] # "gone"
  <2>1. got' = [got EXCEPT ![c] = Append(got[c], e)]
    BY <1>4 DEF Deliver
  <2> HIDE DEF e
  <2>2. Append(got[c], e) \in Seq(Entries)
    BY SMTT(60), <1>1, <1>2
  <2>3. got' \in [Conns -> Seq(Entries)] /\ got'[c] = Append(got[c], e)
        /\ \A d \in Conns : d # c => got'[d] = got[d]
    BY <2>1, <2>2 DEF NetType
  <2> QED BY SMTT(60), <1>1, <1>2, <1>4, <2>3
<1> QED BY <1>3, <1>4
-------------------------------------------------------------------------------
(* Types.                                                                     *)

\* The steps of serve and of the client: none of them touches the registry.
WireStep(c) ==
  \/ HangUp(c)
  \/ \E lines \in Scripts : Connect(c, lines)
  \/ \E calls \in DirectCalls : CallDirectly(c, calls)
  \/ ReadLine(c) \/ ReadEof(c) \/ ReadReset(c) \/ Lock(c)
  \/ Unlock(c) \/ WriteReply(c) \/ WriteFails(c) \/ WriteError(c)

LEMMA WireTypes ==
  ASSUME NetType, NEW c \in Conns, Placed(c), WireStep(c)
  PROVE  NetType'
<1> USE DEF NetType, Goto, Answer, registry, wire, Inside, Places
<1>0. Failed("none") \in Replies /\ Failed("IOError") \in Replies /\ Failed("RequestError") \in Replies
  BY RepliesType DEF Outcomes
<1>1. ASSUME NEW lines \in Scripts \cup DirectCalls, Connect(c, lines) \/ CallDirectly(c, lines)
      PROVE  NetType'
  <2>1. lines \in Seq(Request)
    BY ScriptsAssumption
  <2>2. /\ pc' = [pc EXCEPT ![c] = "read"]
        /\ sent' = [sent EXCEPT ![c] = lines]
        /\ UNCHANGED <<sessions, pos, key, reply, got>>
    BY <1>1 DEF Connect, CallDirectly
  <2>3. \E p \in {"open", "direct"} : peer' = [peer EXCEPT ![c] = p]
    BY <1>1 DEF Connect, CallDirectly
  <2> QED BY <2>1, <2>2, <2>3
<1>2. CASE HangUp(c)
  BY <1>2 DEF HangUp
<1>3. CASE ReadLine(c)
  <2>1. pos' = [pos EXCEPT ![c] = pos[c] + 1] /\ UNCHANGED <<sessions, peer, sent, key, got>>
    BY <1>3 DEF ReadLine
  <2>2. \E where \in {"fail", "lock"} : pc' = [pc EXCEPT ![c] = where]
    BY <1>3 DEF ReadLine
  <2>3. reply' = reply \/ reply' = [reply EXCEPT ![c] = Failed("RequestError")]
    BY <1>3 DEF ReadLine
  <2>4. pc' \in [Conns -> Places]
    BY <2>2
  <2>5. reply' \in [Conns -> Replies]
    BY <1>0, <2>3
  <2>6. pos' \in [Conns -> Nat]
    BY SMTT(60), <2>1
  <2> QED BY <2>1, <2>4, <2>5, <2>6
<1>4. CASE ReadEof(c)
  BY <1>4 DEF ReadEof
<1>5. CASE ReadReset(c)
  BY <1>0, <1>5 DEF ReadReset
<1>6. CASE Lock(c)
  BY <1>6 DEF Lock
<1>7. CASE Unlock(c)
  BY <1>7 DEF Unlock
<1>8. CASE WriteReply(c)
  <2>1. pos[c] # 0
    BY <1>8 DEF WriteReply, Placed
  <2>2. got' \in [Conns -> Seq(Entries)]
    BY <1>8, <2>1, DeliverType DEF WriteReply
  <2> QED BY <1>0, <1>8, <2>2 DEF WriteReply
<1>9. CASE WriteFails(c)
  BY <1>9 DEF WriteFails
<1>10. CASE WriteError(c)
  <2>1. got' \in [Conns -> Seq(Entries)]
    BY <1>10, DeliverType DEF WriteError
  <2> QED BY <1>0, <1>10, <2>1 DEF WriteError
<1> QED
  BY <1>1, <1>2, <1>3, <1>4, <1>5, <1>6, <1>7, <1>8, <1>9, <1>10 DEF WireStep

LEMMA ReturnTypes ==
  ASSUME NetType, NEW c \in Conns, NEW where \in Places, NEW out, NEW r \in Replies,
         Return(c, where, out, r), sessions' \in Seq(Session)
  PROVE  NetType'
BY DEF NetType, Return, Answer, Goto, wire

LEMMA RefuseTypes ==
  ASSUME NetType, NEW c \in Conns, NEW error \in Errors, Refuse(c, error)
  PROVE  NetType'
<1>1. Failed(error) \in Replies
  BY RepliesType DEF Outcomes
<1>2. Return(c, "unlock", error, Failed(error)) /\ sessions' \in Seq(Session)
  BY DEF Refuse, NetType
<1> QED BY <1>1, <1>2, ReturnTypes DEF Places, Inside

LEMMA ProceedTypes ==
  ASSUME NetType, NEW c \in Conns, Proceed(c), key' \in [Conns -> Nat]
  PROVE  NetType'
BY DEF NetType, Proceed, Goto, registry, wire, Places, Inside

LEMMA InsertType ==
  ASSUME sessions \in Seq(Session), NEW id \in 1 .. Len(sessions) + 1, NEW s \in Session
  PROVE  /\ Insert(id, s) \in Seq(Session)
         /\ Len(Insert(id, s)) >= Len(sessions) /\ Insert(id, s)[id] = s
         /\ id = Len(sessions) + 1 => Insert(id, s) = Append(sessions, s)
<1> DEFINE n == Len(sessions)
           m == IF id > n THEN id ELSE n
<1>1. n \in Nat /\ m \in Nat /\ m >= n /\ id \in 1..m
      /\ \A i \in 1..m : i # id => i \in 1..n
      /\ (id = n + 1 => m = n + 1)
  OBVIOUS
<1>2. Insert(id, s) = [i \in 1..m |-> IF i = id THEN s ELSE sessions[i]]
  BY DEF Insert
<1>3. \A i \in 1..n : sessions[i] \in Session
  OBVIOUS
<1>4. CASE id = n + 1
  <2> DEFINE longer == Append(sessions, s)
  <2>1. /\ longer \in Seq(Session) /\ Len(longer) = n + 1 /\ longer[n + 1] = s
        /\ \A i \in 1..n : longer[i] = sessions[i]
    OBVIOUS
  <2> HIDE DEF n, longer
  <2>2. longer = [i \in 1..n + 1 |-> longer[i]]
    BY SMTT(60), <1>1, <2>1
  <2>3. \A i \in 1..n + 1 : longer[i] = IF i = n + 1 THEN s ELSE sessions[i]
    BY SMTT(60), <1>1, <1>4, <2>1
  <2> HIDE DEF m
  <2>4. Insert(id, s) = longer
    BY SMTT(60), <1>1, <1>2, <1>4, <2>2, <2>3
  <2> QED BY SMTT(60), <1>1, <1>4, <2>1, <2>4 DEF n, longer
<1>5. CASE id # n + 1
  <2> HIDE DEF n, m
  <2>1. \A i \in 1..m : (IF i = id THEN s ELSE sessions[i]) \in Session
    BY <1>1, <1>3
  <2>2. Insert(id, s) \in [1..m -> Session]
    BY <1>2, <2>1
  <2>3. Insert(id, s) \in Seq(Session) /\ Len(Insert(id, s)) = m
    BY SMTT(60), <1>1, <2>2
  <2> QED BY <1>1, <1>2, <1>5, <2>3 DEF n
<1> QED BY <1>4, <1>5

LEMMA HandleTypes ==
  ASSUME Typed, NEW c \in Conns, Handle(c)
  PROVE  NetType' /\ Len(sessions') >= Len(sessions) /\ DOMAIN sessions \subseteq DOMAIN sessions'
<1> DEFINE r == Line(c)
           s == sessions[r.sid]
<1> USE DEF Typed
<1>0. NetType /\ Placed(c) /\ sessions \in Seq(Session)
  BY DEF NetType
<1>1. pc[c] \in Inside /\ r \in Request
  <2>1. pc[c] \in Inside
    BY SMTT(60) DEF Handle, CheckInvalid, CheckCreate, ApplyCreate, RefuseScheme, RefuseUnknown,
      CheckSubmission, RefuseDuplicate, ApplyShare, ApplyCommitment, SettleCommitment,
      CheckAggregate, RefuseAggregate, ApplyAggregate, SettleAggregate, FailAggregate, At, Inside
  <2> QED BY <1>0, <2>1, LineType DEF Placed
<1> HIDE DEF Typed
<1>2. CASE CheckInvalid(c)
  <2>1. Failed("RequestError") \in Replies
    BY RepliesType DEF Outcomes
  <2> QED BY SMTT(60), <1>0, <1>2, <2>1 DEF CheckInvalid, NetType, Answer, Goto, registry, wire, Places, Inside
<1>3. ASSUME CheckCreate(c) \/ CheckSubmission(c) \/ CheckAggregate(c)
      PROVE  NetType' /\ sessions' = sessions
  <2>1. Proceed(c) /\ key' \in [Conns -> Nat] /\ sessions' = sessions
    BY SMTT(60), <1>0, <1>3 DEF NetType, CheckCreate, CheckSubmission, CheckAggregate, Proceed, registry
  <2> QED BY <1>0, <2>1, ProceedTypes
<1>4. CASE ApplyCreate(c)
  <2> DEFINE new == NewSession(r.message, r.threshold, r.scheme)
  <2>1. key[c] \in 1 .. Len(sessions) + 1 /\ r.scheme \in SCHEMES /\ r.op = "create"
    BY <1>0, <1>4 DEF ApplyCreate, At, Placed
  <2>2. new \in Session
    BY <1>1, <2>1, RequestFields, NewSessionType
  <2>3. sessions' = Insert(key[c], new) /\ Return(c, "unlock", "ok", Ok(key[c], "pending", {}))
    BY <1>4 DEF ApplyCreate
  <2> HIDE DEF new
  <2>4. sessions' \in Seq(Session) /\ Len(sessions') >= Len(sessions)
    BY <1>0, <2>1, <2>2, <2>3, InsertType
  <2>5. Ok(key[c], "pending", {}) \in Replies
    BY <1>0, <2>1, RepliesType DEF NetType, States
  <2> QED BY SMTT(60), <1>0, <2>3, <2>4, <2>5, ReturnTypes DEF Places, Inside
<1>5. ASSUME RefuseScheme(c) \/ RefuseUnknown(c) \/ RefuseDuplicate(c) \/ RefuseAggregate(c)
             \/ FailAggregate(c)
      PROVE  NetType' /\ sessions' = sessions
  <2>1. \E error \in Errors : Refuse(c, error)
    BY <1>5 DEF RefuseScheme, RefuseUnknown, RefuseDuplicate, RefuseAggregate, FailAggregate, Errors
  <2> QED BY <1>0, <2>1, RefuseTypes DEF Refuse
<1>6. CASE ApplyShare(c)
  <2> DEFINE new == AddShare(s, r.signer, r.bytes)
  <2>1. r.sid \in DOMAIN sessions /\ r.op = "share"
    BY <1>0, <1>6 DEF ApplyShare, At, Placed
  <2>2. new \in Session
    BY SMTT(60), <1>0, <1>1, <2>1, RequestFields, AddShareType
  <2>3. sessions' = [sessions EXCEPT ![r.sid] = new] /\ Return(c, "unlock", "ok", Ok(0, "none", {}))
    BY <1>6 DEF ApplyShare
  <2> HIDE DEF new
  <2>4. sessions' \in Seq(Session) /\ Len(sessions') = Len(sessions)
    BY SMTT(60), <1>0, <2>1, <2>2, <2>3
  <2>5. Ok(0, "none", {}) \in Replies
    BY RepliesType
  <2> QED BY SMTT(60), <1>0, <2>3, <2>4, <2>5, ReturnTypes DEF Places, Inside
<1>7. CASE ApplyCommitment(c)
  <2> DEFINE new == [s EXCEPT !.commitments = Record(@, r.signer, r.bytes)]
             out == IF Comparable(s.threshold) THEN "ok" ELSE "ArgumentError"
  <2>1. r.sid \in DOMAIN sessions /\ r.op = "commitment"
    BY <1>0, <1>7 DEF ApplyCommitment, At, Placed
  <2>2. new \in Session
    BY SMTT(60), <1>0, <1>1, <2>1, RequestFields, CommitmentRecorded
  <2>3. sessions' = [sessions EXCEPT ![r.sid] = new] /\ Return(c, "settle", out, Failed(out))
    BY <1>7 DEF ApplyCommitment
  <2> HIDE DEF new
  <2>4. sessions' \in Seq(Session) /\ Len(sessions') = Len(sessions)
    BY SMTT(60), <1>0, <2>1, <2>2, <2>3
  <2>5. Failed(out) \in Replies
    BY RepliesType DEF Outcomes, Errors
  <2> QED BY SMTT(60), <1>0, <2>3, <2>4, <2>5, ReturnTypes DEF Places, Inside
<1>8. CASE SettleCommitment(c)
  <2> DEFINE new == CollectCommitments(s)
  <2>1. r.sid \in DOMAIN sessions
    BY <1>0, <1>8 DEF SettleCommitment, At, Placed
  <2>2. new \in Session
    <3>1. s \in Session
      BY SMTT(60), <1>0, <2>1
    <3> HIDE DEF s
    <3> QED BY <3>1, StateTypes
  <2>3. /\ sessions' = [sessions EXCEPT ![r.sid] = new] /\ Goto(c, "unlock")
        /\ UNCHANGED <<peer, sent, got, pos, key>>
    BY <1>8 DEF SettleCommitment, wire
  <2>7. Answer(c, Ok(0, new.state, {})) \/ Answer(c, Failed("ArgumentError"))
    BY <1>8 DEF SettleCommitment
  <2> HIDE DEF new
  <2>4. sessions' \in Seq(Session) /\ Len(sessions') = Len(sessions)
    BY SMTT(60), <1>0, <2>1, <2>2, <2>3
  <2>5. Failed("ArgumentError") \in Replies /\ Ok(0, new.state, {}) \in Replies
    <3>1. new.state \in States
      BY <2>2 DEF Session
    <3> QED BY <3>1, RepliesType DEF Outcomes, Errors
  <2>6. reply' \in [Conns -> Replies]
    BY <1>0, <2>5, <2>7 DEF Answer, NetType
  <2>8. pc' \in [Conns -> Places]
    BY <1>0, <2>3 DEF Goto, NetType, Places, Inside
  <2> QED BY SMTT(60), <1>0, <2>3, <2>4, <2>6, <2>8 DEF NetType
<1>9. CASE ApplyAggregate(c)
  <2> DEFINE answer == Ok(r.sid, "completed", Submitters(s.shares))
  <2>1. r.sid \in Nat
    BY <1>1, <1>9, RequestFields, NetworkAssumption DEF ApplyAggregate, At
  <2>2. answer \in Replies
    BY <2>1, RepliesType DEF States, Submitters
  <2>3. sessions' = sessions /\ Return(c, "settle", "ok", answer)
    BY <1>9 DEF ApplyAggregate
  <2> QED BY SMTT(60), <1>0, <2>2, <2>3, ReturnTypes DEF Places, Inside
<1>10. CASE SettleAggregate(c)
  <2> DEFINE new == [s EXCEPT !.state = "completed"]
  <2>1. r.sid \in DOMAIN sessions
    BY <1>0, <1>10 DEF SettleAggregate, At, Placed
  <2>2. new \in Session
    BY SMTT(60), <1>0, <2>1, StateTypes
  <2>3. /\ sessions' = [sessions EXCEPT ![r.sid] = new] /\ Goto(c, "unlock")
        /\ UNCHANGED <<peer, sent, got, pos, key, reply>>
    BY <1>10 DEF SettleAggregate, wire
  <2> HIDE DEF new
  <2>4. sessions' \in Seq(Session) /\ Len(sessions') = Len(sessions)
    BY SMTT(60), <1>0, <2>1, <2>2, <2>3
  <2> QED BY SMTT(60), <1>0, <2>3, <2>4 DEF NetType, Goto, Places, Inside
<1> QED
  <2>1. NetType' /\ Len(sessions') >= Len(sessions)
    BY SMTT(60), <1>0, <1>2, <1>3, <1>4, <1>5, <1>6, <1>7, <1>8, <1>9, <1>10 DEF Handle, CheckInvalid, registry
  <2> QED BY SMTT(60), <1>0, <2>1 DEF NetType
-------------------------------------------------------------------------------
(* What a step of one connection leaves alone.                                *)

Untouched(d) ==
  /\ pc'[d] = pc[d] /\ peer'[d] = peer[d] /\ sent'[d] = sent[d] /\ pos'[d] = pos[d]
  /\ key'[d] = key[d] /\ reply'[d] = reply[d] /\ got'[d] = got[d]
  /\ Line(d)' = Line(d)

LEMMA WireLocal ==
  ASSUME NetType, NEW c \in Conns, Placed(c), WireStep(c), NEW d \in Conns, d # c
  PROVE  Untouched(d)
<1> USE DEF NetType, Goto, Answer, registry, wire, Untouched, Line
<1>1. ASSUME NEW lines \in Scripts \cup DirectCalls, Connect(c, lines) \/ CallDirectly(c, lines)
      PROVE  Untouched(d)
  BY <1>1 DEF Connect, CallDirectly
<1>2. CASE HangUp(c)
  BY <1>2 DEF HangUp
<1>3. CASE ReadLine(c)
  BY <1>3 DEF ReadLine
<1>4. CASE ReadEof(c)
  BY <1>4 DEF ReadEof
<1>5. CASE ReadReset(c)
  BY <1>5 DEF ReadReset
<1>6. CASE Lock(c)
  BY <1>6 DEF Lock
<1>7. CASE Unlock(c)
  BY <1>7 DEF Unlock
<1>8. CASE WriteReply(c)
  BY <1>8 DEF WriteReply, Deliver
<1>9. CASE WriteFails(c)
  BY <1>9 DEF WriteFails
<1>10. CASE WriteError(c)
  BY <1>10 DEF WriteError, Deliver
<1> QED
  BY <1>1, <1>2, <1>3, <1>4, <1>5, <1>6, <1>7, <1>8, <1>9, <1>10 DEF WireStep

\* A handler's step moves its thread, and may set its answer; the rest of the wire stays.
HandlerStep(c, from, to) ==
  /\ pc[c] = from /\ pc' = [pc EXCEPT ![c] = to]
  /\ \E r : reply' = [reply EXCEPT ![c] = r]
  /\ UNCHANGED <<peer, sent, got, mutex, pos, key>>

LEMMA HandlerFrame ==
  ASSUME NEW c \in Conns, NetType
  PROVE  /\ ApplyCreate(c) \/ ApplyShare(c) => HandlerStep(c, "apply", "unlock")
         /\ RefuseScheme(c) \/ FailAggregate(c) => HandlerStep(c, "apply", "unlock")
         /\ CheckInvalid(c) \/ RefuseUnknown(c) \/ RefuseDuplicate(c) \/ RefuseAggregate(c)
              => HandlerStep(c, "check", "unlock")
         /\ ApplyCommitment(c) \/ ApplyAggregate(c) => HandlerStep(c, "apply", "settle")
         /\ SettleCommitment(c) \/ SettleAggregate(c) => HandlerStep(c, "settle", "unlock")
<1> USE DEF HandlerStep, At, Goto, Answer, Return, Refuse, wire
<1>1. ApplyCreate(c) \/ ApplyShare(c) => HandlerStep(c, "apply", "unlock")
  BY DEF ApplyCreate, ApplyShare
<1>2. RefuseScheme(c) \/ FailAggregate(c) => HandlerStep(c, "apply", "unlock")
  BY DEF RefuseScheme, FailAggregate
<1>3. CheckInvalid(c) \/ RefuseUnknown(c) \/ RefuseDuplicate(c) \/ RefuseAggregate(c)
        => HandlerStep(c, "check", "unlock")
  BY DEF CheckInvalid, RefuseUnknown, RefuseDuplicate, RefuseAggregate
<1>4. ApplyCommitment(c) \/ ApplyAggregate(c) => HandlerStep(c, "apply", "settle")
  BY DEF ApplyCommitment, ApplyAggregate
<1>5. SettleAggregate(c) => HandlerStep(c, "settle", "unlock")
  <2>1. reply = [reply EXCEPT ![c] = reply[c]]
    BY DEF NetType
  <2> QED BY <2>1 DEF SettleAggregate
<1>6. SettleCommitment(c) => HandlerStep(c, "settle", "unlock")
  BY DEF SettleCommitment
<1> QED BY <1>1, <1>2, <1>3, <1>4, <1>5, <1>6

Checks(c) == CheckCreate(c) \/ CheckSubmission(c) \/ CheckAggregate(c)

Writes(c) == ApplyCommitment(c) \/ ApplyAggregate(c)

Finishes(c) ==
  \/ CheckInvalid(c) \/ ApplyCreate(c) \/ RefuseScheme(c) \/ RefuseUnknown(c) \/ RefuseDuplicate(c)
  \/ ApplyShare(c) \/ SettleCommitment(c) \/ RefuseAggregate(c) \/ SettleAggregate(c)
  \/ FailAggregate(c)

\* A handler's check that lets the request through.
LEMMA ProceedFrame ==
  ASSUME NEW c \in Conns, Checks(c)
  PROVE  /\ pc[c] = "check" /\ pc' = [pc EXCEPT ![c] = "apply"]
         /\ UNCHANGED <<registry, peer, sent, got, mutex, pos, reply>>
         /\ \E k : key' = [key EXCEPT ![c] = k] \/ key' = key
BY DEF Checks, CheckCreate, CheckSubmission, CheckAggregate, Proceed, At, Goto, wire, registry

LEMMA HandleCases ==
  ASSUME NetType, NEW c \in Conns
  PROVE  /\ Handle(c) <=> Checks(c) \/ Writes(c) \/ Finishes(c)
         /\ Writes(c) => HandlerStep(c, "apply", "settle")
         /\ Finishes(c) => \E from \in {"check", "apply", "settle"} : HandlerStep(c, from, "unlock")
<1>1. Handle(c) <=> Checks(c) \/ Writes(c) \/ Finishes(c)
  BY DEF Handle, Checks, Writes, Finishes
<1> QED BY <1>1, HandlerFrame DEF Writes, Finishes

LEMMA HandleLocal ==
  ASSUME NetType, NEW c \in Conns, Handle(c), NEW d \in Conns, d # c
  PROVE  Untouched(d)
<1>1. CASE \E from, to : HandlerStep(c, from, to)
  BY <1>1 DEF HandlerStep, NetType, Untouched, Line
<1>2. CASE Checks(c)
  <2>1. /\ pc' = [pc EXCEPT ![c] = "apply"] /\ UNCHANGED <<peer, sent, got, pos, reply>>
        /\ \E k : key' = [key EXCEPT ![c] = k] \/ key' = key
    BY <1>2, ProceedFrame
  <2>2. pc'[d] = pc[d] /\ key'[d] = key[d]
    BY <2>1 DEF NetType
  <2> QED BY <2>1, <2>2 DEF Untouched, Line
<1> QED BY <1>1, <1>2, HandleCases

LEMMA WireRegistry ==
  ASSUME NEW c \in Conns, WireStep(c)
  PROVE  UNCHANGED registry
BY DEF WireStep, Connect, CallDirectly, HangUp, ReadLine, ReadEof, ReadReset, Lock, Unlock,
  WriteReply, WriteFails, WriteError, registry

LEMMA StepCases ==
  ASSUME NEW c \in Conns
  PROVE  Client(c) \/ Serve(c) <=> WireStep(c) \/ Handle(c)
BY DEF Client, Serve, WireStep

LEMMA PlacedKept ==
  ASSUME Typed, NEW c \in Conns, WireStep(c) \/ Handle(c)
  PROVE  Typed'
<1>0. NetType /\ Placed(c) /\ sessions \in Seq(Session)
  BY DEF Typed, NetType
<1>1. NetType' /\ Len(sessions') >= Len(sessions) /\ DOMAIN sessions \subseteq DOMAIN sessions'
  <2>1. CASE WireStep(c)
    BY SMTT(60), <1>0, <2>1, WireTypes, WireRegistry DEF registry
  <2>2. CASE Handle(c)
    BY <2>2, HandleTypes
  <2> QED BY <2>1, <2>2
<1>2. Len(sessions) \in Nat /\ Len(sessions') \in Nat
  BY SMTT(60), <1>0, <1>1 DEF NetType
<1>3. ASSUME NEW d \in Conns, d # c PROVE Placed(d)'
  <2>1. Untouched(d)
    BY <1>0, <1>3, WireLocal, HandleLocal
  <2>2. Placed(d)
    BY DEF Typed
  <2> QED BY SMTT(60), <1>1, <1>2, <2>1, <2>2 DEF Placed, Untouched
<1>4. Placed(c)'
  <2> USE <1>0 DEF NetType, Goto
  <2>1. ASSUME NEW lines \in Scripts \cup DirectCalls, Connect(c, lines) \/ CallDirectly(c, lines)
        PROVE  Placed(c)'
    <3>1. lines \in Seq(Request)
      BY ScriptsAssumption
    <3> QED BY SMTT(60), <2>1, <3>1 DEF Connect, CallDirectly, Placed, Inside
  <2>2. CASE HangUp(c)
    BY <2>2 DEF HangUp, Placed, Inside, Line, registry
  <2>3. CASE ReadLine(c)
    BY SMTT(60), <2>3 DEF ReadLine, Placed, Inside, wire
  <2>4. CASE ReadEof(c) \/ ReadReset(c)
    BY <2>4 DEF ReadEof, ReadReset, Placed, Inside, wire
  <2>5. CASE Lock(c)
    BY <2>5 DEF Lock, Placed, Inside, wire
  <2>6. CASE Unlock(c)
    BY <2>6 DEF Unlock, Placed, Inside, wire
  <2>7. CASE WriteReply(c)
    BY <2>7 DEF WriteReply, Placed, Inside
  <2>8. CASE WriteFails(c)
    BY <2>8 DEF WriteFails, Placed, Inside, wire
  <2>9. CASE WriteError(c)
    BY <2>9 DEF WriteError, Placed, Inside
  <2>10. CASE Writes(c)
    <3>1. Line(c)' = Line(c) /\ UNCHANGED <<pos, sent, peer>> /\ pc'[c] = "settle" /\ pc[c] = "apply"
      BY SMTT(60), <2>10, HandleCases DEF HandlerStep, Line
    <3>2. Line(c).op \in {"commitment", "aggregate"}
      BY <2>10 DEF Writes, ApplyCommitment, ApplyAggregate, At
    <3> QED BY <1>1, <3>1, <3>2 DEF Placed, Inside
  <2>13. CASE Finishes(c)
    <3>1. pc'[c] = "unlock" /\ pc[c] \in Inside /\ UNCHANGED <<pos, sent, peer>>
      BY SMTT(60), <2>13, HandleCases DEF HandlerStep, Inside
    <3> QED BY <3>1 DEF Placed, Inside
  <2>11. CASE CheckCreate(c)
    BY SMTT(60), <2>11 DEF CheckCreate, At, Proceed, Placed, Inside, Line, wire, registry
  <2>12. CASE CheckSubmission(c) \/ CheckAggregate(c)
    BY <2>12 DEF CheckSubmission, CheckAggregate, At, Proceed, Placed, Inside, Line, wire, registry
  <2> QED BY <2>1, <2>2, <2>3, <2>4, <2>5, <2>6, <2>7, <2>8, <2>9, <2>10, <2>11, <2>12, <2>13, HandleCases
      DEF WireStep, Checks
<1> QED BY <1>1, <1>3, <1>4 DEF Typed
-------------------------------------------------------------------------------
(* An error is the last thing a connection carries.                           *)

\* How many replies the client of an open connection has, and what they say.
Talk(c) ==
  /\ Len(got[c]) <= pos[c]
  /\ peer[c] # "gone" /\ pc[c] \in {"idle", "read"} => Len(got[c]) = pos[c]
  /\ peer[c] # "gone" /\ pc[c] \in Inside \cup {"lock", "write", "fail"} => Len(got[c]) + 1 = pos[c]
  /\ pc[c] = "write" => reply[c].out = "ok"
  /\ \A k \in 1 .. Len(got[c]) :
       got[c][k].reply.out # "ok" => pc[c] = "closed" /\ pos[c] = k /\ Len(got[c]) = k

LEMMA TalkKept ==
  ASSUME Typed, \A d \in Conns : Talk(d), NEW c \in Conns, WireStep(c) \/ Handle(c)
  PROVE  \A d \in Conns : Talk(d)'
<1>0. NetType /\ Placed(c) /\ Talk(c)
  BY DEF Typed
<1>1. ASSUME NEW d \in Conns, d # c PROVE Talk(d)'
  <2>1. Untouched(d) /\ Talk(d)
    BY <1>0, <1>1, WireLocal, HandleLocal
  <2> QED BY <2>1 DEF Talk, Untouched
<1>2. pos[c] \in Nat /\ Len(got[c]) \in Nat
  BY SMTT(60), <1>0 DEF NetType
<1>3. Talk(c)'
  <2> USE <1>0, <1>2 DEF NetType, Goto, Talk, Inside
  <2>1. ASSUME NEW lines, Connect(c, lines) \/ CallDirectly(c, lines)
        PROVE  Talk(c)'
    BY <2>1 DEF Connect, CallDirectly, Placed
  <2>2. CASE HangUp(c)
    BY <2>2 DEF HangUp
  <2>3. CASE ReadLine(c)
    BY SMTT(60), <2>3 DEF ReadLine, wire
  <2>4. CASE ReadEof(c) \/ ReadReset(c)
    BY <2>4 DEF ReadEof, ReadReset, wire
  <2>5. CASE Lock(c)
    BY <2>5 DEF Lock, wire
  <2>6. CASE Unlock(c)
    BY <2>6 DEF Unlock, wire
  <2>7. CASE WriteFails(c)
    BY <2>7 DEF WriteFails, wire
  <2>8. CASE WriteReply(c)
    <3>1. pos[c] # 0 /\ Deliver(c)
      BY <2>8 DEF WriteReply, Placed
    <3>2. /\ pc[c] = "write" /\ pc'[c] = "read" /\ pos'[c] = pos[c] /\ peer'[c] = peer[c]
      BY <2>8 DEF WriteReply
    <3>3. CASE peer[c] = "gone"
      <4>1. got'[c] = got[c]
        BY <3>1, <3>3, DeliverType
      <4> QED BY <3>2, <3>3, <4>1
    <3>4. CASE peer[c] # "gone"
      <4>1. /\ Len(got'[c]) = Len(got[c]) + 1
            /\ \A k \in 1 .. Len(got[c]) : got'[c][k] = got[c][k]
            /\ got'[c][Len(got[c]) + 1].reply = reply[c]
        BY <3>1, <3>4, DeliverType
      <4>2. \A k \in 1 .. Len(got'[c]) : got'[c][k].reply.out = "ok"
        <5>1. reply[c].out = "ok" /\ \A k \in 1 .. Len(got[c]) : got[c][k].reply.out = "ok"
          BY <3>2
        <5>2. \A k \in 1 .. Len(got'[c]) : k \in 1 .. Len(got[c]) \/ k = Len(got[c]) + 1
          BY SMTT(60), <4>1
        <5> QED BY <4>1, <5>1, <5>2
      <4> QED BY SMTT(60), <3>2, <3>4, <4>1, <4>2
    <3> QED BY <3>3, <3>4
  <2>9. CASE WriteError(c)
    <3>1. pc[c] = "fail" /\ pc'[c] = "closed" /\ pos'[c] = pos[c] /\ peer'[c] = peer[c]
      BY <2>9 DEF WriteError
    <3>2. CASE got'[c] = got[c]
      BY <3>1, <3>2
    <3>3. CASE pos[c] # 0 /\ peer[c] # "gone"
      <4>1. /\ Len(got'[c]) = Len(got[c]) + 1
            /\ \A k \in 1 .. Len(got[c]) : got'[c][k] = got[c][k]
        BY <2>9, <3>3, DeliverType DEF WriteError
      <4>2. \A k \in 1 .. Len(got[c]) : got'[c][k].reply.out = "ok"
        BY <3>1, <4>1
      <4> QED BY SMTT(60), <3>1, <3>3, <4>1, <4>2
    <3> QED BY <2>9, <3>2, <3>3 DEF WriteError, Deliver
  <2>10. CASE Checks(c)
    BY <2>10, ProceedFrame
  <2>11. CASE Writes(c) \/ Finishes(c)
    <3>1. /\ pc[c] \in {"check", "apply", "settle"} /\ pc'[c] \in {"settle", "unlock"}
          /\ UNCHANGED <<peer, got, pos>>
      BY SMTT(60), <2>11, HandleCases DEF HandlerStep
    <3> QED BY <3>1
  <2> QED BY <2>1, <2>2, <2>3, <2>4, <2>5, <2>6, <2>7, <2>8, <2>9, <2>10, <2>11, HandleCases
      DEF WireStep
<1> QED BY <1>1, <1>3
-------------------------------------------------------------------------------
(* The mutex, and what a thread has checked before it writes.                 *)

\* Of the connections, only the one that holds the mutex is inside a handler.
Exclusive == \A c \in Conns : pc[c] \in Inside /\ peer[c] # "direct" => mutex = c

\* The threads of the embedding program only aggregate.
Calm ==
  \A c \in Conns : peer[c] = "direct" => \A k \in DOMAIN sent[c] : sent[c][k].op = "aggregate"

\* What a thread has checked still holds when it writes.
Ready(c) ==
  pc[c] = "apply" =>
    /\ Line(c).op = "create" => key[c] = Len(sessions) + 1
    /\ Line(c).op \in {"share", "commitment"} => StoreOf(c)[Line(c).signer] = Absent
    /\ Line(c).op = "aggregate" => ThresholdMet(sessions[Line(c).sid])

LEMMA ExclusiveKept ==
  ASSUME Typed, Exclusive, NEW c \in Conns, WireStep(c) \/ Handle(c)
  PROVE  Exclusive'
<1>0. NetType /\ Placed(c)
  BY DEF Typed
<1>1. \A d \in Conns : d # c => pc'[d] = pc[d] /\ peer'[d] = peer[d]
  BY <1>0, WireLocal, HandleLocal DEF Untouched
<1>2. CASE mutex' = mutex /\ (pc'[c] \in Inside /\ peer'[c] # "direct" => pc[c] \in Inside /\ peer[c] # "direct")
  BY <1>1, <1>2 DEF Exclusive
<1>3. CASE Lock(c)
  <2>1. CASE peer[c] = "direct"
    BY <1>0, <1>1, <1>3, <2>1 DEF Lock, wire, Exclusive
  <2>2. CASE peer[c] # "direct"
    BY <1>1, <1>3, <2>2, NetworkAssumption DEF Lock, Exclusive
  <2> QED BY <2>1, <2>2
<1>4. CASE Unlock(c)
  <2>1. pc'[c] \notin Inside
    BY <1>0, <1>4 DEF Unlock, Goto, NetType, Inside
  <2>2. CASE peer[c] = "direct"
    BY <1>1, <1>4, <2>1, <2>2 DEF Unlock, Exclusive
  <2>3. CASE peer[c] # "direct"
    <3>1. mutex = c
      BY <1>4, <2>3 DEF Unlock, Exclusive, Inside
    <3> QED BY <1>1, <2>1, <3>1 DEF Exclusive
  <2> QED BY <2>2, <2>3
<1>5. CASE Handle(c)
  <2>1. mutex' = mutex /\ peer' = peer /\ pc[c] \in Inside
    BY <1>0, <1>5, HandleCases, ProceedFrame DEF HandlerStep, Inside
  <2> QED BY <1>2, <2>1
<1>6. CASE WireStep(c) /\ ~ Lock(c) /\ ~ Unlock(c)
  <2> USE <1>0, <1>2 DEF NetType, Goto, Inside
  <2>1. ASSUME NEW lines, Connect(c, lines) \/ CallDirectly(c, lines)
        PROVE  Exclusive'
    BY <2>1 DEF Connect, CallDirectly
  <2>2. CASE HangUp(c)
    BY <2>2 DEF HangUp
  <2>3. CASE ReadLine(c)
    BY <2>3 DEF ReadLine
  <2>4. CASE ReadEof(c) \/ ReadReset(c) \/ WriteReply(c) \/ WriteFails(c) \/ WriteError(c)
    BY <2>4 DEF ReadEof, ReadReset, WriteReply, WriteFails, WriteError
  <2> QED BY <1>6, <2>1, <2>2, <2>3, <2>4 DEF WireStep
<1> QED BY <1>3, <1>4, <1>5, <1>6

\* Who once called past the mutex to do more than aggregate is never forgotten.
LEMMA CalmBefore ==
  ASSUME Typed, NEW c \in Conns, WireStep(c) \/ Handle(c), Calm'
  PROVE  Calm
<1>0. NetType /\ Placed(c)
  BY DEF Typed
<1>1. \A d \in Conns : d # c => sent'[d] = sent[d] /\ peer'[d] = peer[d]
  BY <1>0, WireLocal, HandleLocal DEF Untouched
<1>2. peer[c] = "direct" => sent'[c] = sent[c] /\ peer'[c] = peer[c]
  <2> HAVE peer[c] = "direct"
  <2>1. CASE Handle(c)
    BY <1>0, <2>1, HandleCases, ProceedFrame DEF HandlerStep
  <2>2. CASE WireStep(c)
    BY <2>2 DEF WireStep, Connect, CallDirectly, HangUp, ReadLine, ReadEof, ReadReset, Lock,
      Unlock, WriteReply, WriteFails, WriteError, wire
  <2> QED BY <2>1, <2>2
<1> QED BY <1>1, <1>2 DEF Calm

\* While the embedding program only aggregates, who creates or submits holds the mutex.
LEMMA WriterHolds ==
  ASSUME Typed, Exclusive, Calm, NEW c \in Conns, pc[c] \in Inside, Line(c).op # "aggregate"
  PROVE  mutex = c
<1>1. pos[c] \in DOMAIN sent[c]
  BY SMTT(60) DEF Typed, NetType, Placed
<1> QED BY <1>1 DEF Exclusive, Calm, Line
-------------------------------------------------------------------------------
(* The registry only grows.                                                   *)

Keeps(before, after) == \A x \in Signers : before[x] # Absent => after[x] = before[x]

Extends(s, t) ==
  /\ t.message = s.message /\ t.threshold = s.threshold
  /\ Keeps(s.commitments, t.commitments) /\ Keeps(s.shares, t.shares)

Grows ==
  /\ issued \subseteq issued'
  /\ \A sid \in DOMAIN sessions : sid \in DOMAIN sessions' /\ Extends(sessions[sid], sessions'[sid])

LEMMA ExtendsTypes ==
  ASSUME NEW s \in Session
  PROVE  /\ Extends(s, s)
         /\ \A x \in Signers, b \in Blobs :
              s.shares[x] = Absent => Extends(s, AddShare(s, x, b))
         /\ \A x \in Signers, b \in Commitments :
              s.commitments[x] = Absent => Extends(s, [s EXCEPT !.commitments = Record(@, x, b)])
         /\ Extends(s, CollectCommitments(s))
         /\ Extends(s, [s EXCEPT !.state = "completed"])
<1>1. \A store, x, b : store[x] = Absent => Keeps(store, [store EXCEPT ![x] = b])
  BY SMTT(60) DEF Keeps
<1>2. \A x \in Signers, b \in Blobs : s.shares[x] = Absent => Extends(s, AddShare(s, x, b))
  <2> TAKE x \in Signers, b \in Blobs
  <2> HAVE s.shares[x] = Absent
  <2>1. LET t == AddShare(s, x, b)
        IN /\ t.message = s.message /\ t.threshold = s.threshold
           /\ t.commitments = s.commitments /\ t.shares = Record(s.shares, x, b)
    BY AddShareFields
  <2>2. Keeps(s.shares, Record(s.shares, x, b))
    BY <1>1 DEF Record
  <2> QED BY <2>1, <2>2 DEF Extends, Keeps
<1>3. \A x \in Signers, b \in Commitments :
        s.commitments[x] = Absent => Extends(s, [s EXCEPT !.commitments = Record(@, x, b)])
  BY SMTT(60), <1>1 DEF Extends, Record, Session, Keeps
<1>4. Extends(s, CollectCommitments(s)) /\ Extends(s, [s EXCEPT !.state = "completed"])
  BY DEF Extends, Keeps, Session, CollectCommitments
<1> QED BY <1>2, <1>3, <1>4 DEF Extends, Keeps

LEMMA GrowsQuiet ==
  ASSUME sessions' = sessions, issued \subseteq issued'
  PROVE  Grows
BY DEF Grows, Extends, Keeps

LEMMA GrowsReplaced ==
  ASSUME NetType, NEW sid \in DOMAIN sessions, NEW t, sessions' = [sessions EXCEPT ![sid] = t],
         Extends(sessions[sid], t), issued' = issued
  PROVE  Grows
<1>1. \A i \in DOMAIN sessions : Extends(sessions[i], sessions[i])
  BY DEF Extends, Keeps
<1>2. \A i \in DOMAIN sessions : i \in DOMAIN sessions' /\ sessions'[i] = IF i = sid THEN t ELSE sessions[i]
  BY DEF NetType
<1> QED BY <1>1, <1>2 DEF Grows

\* The cases of Handle by what they do to the registry.
LEMMA HandleGrows ==
  ASSUME Typed, Exclusive, Calm, NEW c \in Conns, Ready(c), Handle(c)
  PROVE  Grows
<1> DEFINE r == Line(c)
           s == sessions[r.sid]
<1>0. NetType /\ Placed(c)
  BY DEF Typed
<1>1. pc[c] \in Inside => r \in Request
  BY <1>0, LineType DEF Placed
<1>2. CASE Checks(c)
  BY <1>2, ProceedFrame, GrowsQuiet DEF registry
<1>3. CASE CheckInvalid(c) \/ RefuseScheme(c) \/ RefuseUnknown(c) \/ RefuseDuplicate(c)
           \/ RefuseAggregate(c) \/ FailAggregate(c)
  <2>1. sessions' = sessions /\ issued' = issued
    BY <1>3 DEF CheckInvalid, RefuseScheme, RefuseUnknown, RefuseDuplicate, RefuseAggregate,
      FailAggregate, Refuse, registry
  <2> QED BY <2>1, GrowsQuiet
<1>4. CASE ApplyAggregate(c)
  BY <1>4, GrowsQuiet DEF ApplyAggregate
<1>5. CASE ApplyCreate(c)
  <2> DEFINE new == NewSession(r.message, r.threshold, r.scheme)
  <2>1. r.op = "create" /\ pc[c] = "apply" /\ r.scheme \in SCHEMES
        /\ issued' = issued /\ sessions' = Insert(key[c], new)
    BY <1>5 DEF ApplyCreate, At
  <2>5. key[c] = Len(sessions) + 1
    BY <2>1 DEF Ready
  <2>2. new \in Session
    BY <1>1, <2>1, RequestFields, NewSessionType DEF Inside
  <2> HIDE DEF new
  <2>3. sessions' = Append(sessions, new) /\ sessions \in Seq(Session)
    <3>1. sessions \in Seq(Session) /\ Len(sessions) + 1 \in 1 .. Len(sessions) + 1
      BY SMTT(60), <1>0 DEF NetType
    <3>2. Insert(Len(sessions) + 1, new) = Append(sessions, new)
      BY <2>2, <3>1, InsertType
    <3> QED BY <2>1, <2>5, <3>1, <3>2
  <2>4. \A i \in DOMAIN sessions : i \in DOMAIN sessions' /\ sessions'[i] = sessions[i]
    BY SMTT(60), <2>2, <2>3
  <2> QED BY <2>1, <2>4 DEF Grows, Extends, Keeps
<1>6. CASE ApplyShare(c)
  <2>1. pc[c] = "apply" /\ r.op = "share" /\ r.sid \in DOMAIN sessions /\ s.shares[r.signer] = Absent
    BY <1>0, <1>6 DEF ApplyShare, At, Ready, Placed, StoreOf
  <2>2. s \in Session /\ r.signer \in Signers /\ r.bytes \in Blobs
    BY SMTT(60), <1>0, <1>1, <2>1, RequestFields DEF NetType, Inside
  <2>3. Extends(s, AddShare(s, r.signer, r.bytes))
    BY <2>1, <2>2, ExtendsTypes
  <2> QED BY <1>0, <1>6, <2>1, <2>3, GrowsReplaced DEF ApplyShare
<1>7. CASE ApplyCommitment(c)
  <2>1. pc[c] = "apply" /\ r.op = "commitment" /\ r.sid \in DOMAIN sessions /\ s.commitments[r.signer] = Absent
    BY <1>0, <1>7 DEF ApplyCommitment, At, Ready, Placed, StoreOf
  <2>2. s \in Session /\ r.signer \in Signers /\ r.bytes \in Commitments
    BY SMTT(60), <1>0, <1>1, <2>1, RequestFields DEF NetType, Inside
  <2>3. Extends(s, [s EXCEPT !.commitments = Record(@, r.signer, r.bytes)])
    BY <2>1, <2>2, ExtendsTypes
  <2> QED BY <1>0, <1>7, <2>1, <2>3, GrowsReplaced DEF ApplyCommitment
<1>8. CASE SettleCommitment(c)
  <2>1. r.sid \in DOMAIN sessions /\ s \in Session
    BY SMTT(60), <1>0, <1>8 DEF SettleCommitment, At, Placed, NetType
  <2>2. Extends(s, CollectCommitments(s))
    BY <2>1, ExtendsTypes
  <2> QED BY <1>0, <1>8, <2>1, <2>2, GrowsReplaced DEF SettleCommitment
<1>9. CASE SettleAggregate(c)
  <2>1. r.sid \in DOMAIN sessions /\ s \in Session
    BY SMTT(60), <1>0, <1>9 DEF SettleAggregate, At, Placed, NetType
  <2>2. Extends(s, [s EXCEPT !.state = "completed"])
    BY <2>1, ExtendsTypes
  <2> QED BY <1>0, <1>9, <2>1, <2>2, GrowsReplaced DEF SettleAggregate
<1> QED BY <1>2, <1>3, <1>4, <1>5, <1>6, <1>7, <1>8, <1>9, HandleCases, <1>0 DEF Writes, Finishes

LEMMA QuorumStays ==
  ASSUME NetType, Grows, NEW sid \in DOMAIN sessions
  PROVE  /\ AtLeast(Count(sessions[sid].commitments), sessions[sid].threshold)
              => AtLeast(Count(sessions'[sid].commitments), sessions'[sid].threshold)
         /\ ThresholdMet(sessions[sid]) => ThresholdMet(sessions'[sid])
<1> DEFINE s == sessions[sid]
           t == sessions'[sid]
<1>1. s \in Session /\ Extends(s, t)
  BY SMTT(60) DEF NetType, Grows
<1>2. t.threshold = s.threshold /\ s.threshold \in Thresholds
  BY <1>1 DEF Extends, Session
<1>3. /\ \A x \in Signers : s.commitments[x] # Absent => t.commitments[x] # Absent
      /\ \A x \in Signers : s.shares[x] # Absent => t.shares[x] # Absent
  BY <1>1 DEF Extends, Keeps
<1> HIDE DEF s, t
<1>4. Count(s.commitments) <= Count(t.commitments) /\ Count(s.shares) <= Count(t.shares)
  BY <1>3, CountMonotone
<1>5. /\ Count(s.commitments) \in Nat /\ Count(t.commitments) \in Nat
      /\ Count(s.shares) \in Nat /\ Count(t.shares) \in Nat
  BY CountType
<1>6. /\ AtLeast(Count(s.commitments), s.threshold) => AtLeast(Count(t.commitments), t.threshold)
      /\ AtLeast(Count(s.shares), s.threshold) => AtLeast(Count(t.shares), t.threshold)
  BY <1>2, <1>4, <1>5, AtLeastMonotone
<1> QED BY <1>6 DEF ThresholdMet, s, t

\* An aggregate submits nothing and creates nothing.
LEMMA AggregateLeaves ==
  ASSUME Typed, NEW c \in Conns, Handle(c), Line(c).op = "aggregate"
  PROVE  /\ DOMAIN sessions' = DOMAIN sessions /\ Len(sessions') = Len(sessions)
         /\ \A sid \in DOMAIN sessions : /\ sessions'[sid].shares = sessions[sid].shares
                                         /\ sessions'[sid].commitments = sessions[sid].commitments
<1>0. NetType /\ Placed(c) /\ sessions \in Seq(Session)
  BY DEF Typed, NetType
<1>1. CASE SettleAggregate(c)
  <2> DEFINE r == Line(c)
             t == [sessions[r.sid] EXCEPT !.state = "completed"]
  <2>1. r.sid \in DOMAIN sessions /\ sessions[r.sid] \in Session
    BY SMTT(60), <1>0, <1>1 DEF SettleAggregate, At, Placed
  <2>2. t \in Session /\ t.shares = sessions[r.sid].shares /\ t.commitments = sessions[r.sid].commitments
    BY <2>1, StateTypes DEF Session
  <2>3. sessions' = [sessions EXCEPT ![r.sid] = t]
    BY <1>1 DEF SettleAggregate
  <2> HIDE DEF t
  <2> QED BY SMTT(60), <1>0, <2>1, <2>2, <2>3
<1>2. CASE ~ SettleAggregate(c)
  <2>1. sessions' = sessions
    BY SMTT(60), <1>2 DEF Handle, CheckInvalid, CheckCreate, ApplyCreate, RefuseScheme, RefuseUnknown,
      CheckSubmission, RefuseDuplicate, ApplyShare, ApplyCommitment, SettleCommitment,
      CheckAggregate, RefuseAggregate, ApplyAggregate, FailAggregate, At, Refuse, Proceed, registry
  <2> QED BY <2>1
<1> QED BY <1>1, <1>2

\* What a thread has checked is not undone by another thread.
LEMMA ReadyKept ==
  ASSUME Typed, Typed', Exclusive, Calm, \A d \in Conns : Ready(d), NEW c \in Conns,
         WireStep(c) \/ Handle(c), Grows
  PROVE  \A d \in Conns : Ready(d)'
<1>0. NetType /\ Placed(c) /\ Ready(c)
  BY DEF Typed
<1>1. ASSUME NEW d \in Conns, d # c PROVE Ready(d)'
  <2>1. Untouched(d) /\ Ready(d) /\ Placed(d)
    BY <1>0, <1>1, WireLocal, HandleLocal DEF Typed
  <2> SUFFICES ASSUME pc[d] = "apply" PROVE Ready(d)'
    BY <2>1 DEF Ready, Untouched
  <2>2. CASE Line(d).op = "aggregate"
    <3>1. Line(d).sid \in DOMAIN sessions /\ ThresholdMet(sessions[Line(d).sid])
      BY <2>1, <2>2 DEF Ready, Placed
    <3>2. ThresholdMet(sessions'[Line(d).sid])
      BY <1>0, <3>1, QuorumStays
    <3> QED BY <2>1, <2>2, <3>2 DEF Ready, Untouched
  <2>3. CASE Line(d).op # "aggregate"
    <3>1. /\ DOMAIN sessions' = DOMAIN sessions /\ Len(sessions') = Len(sessions)
          /\ \A sid \in DOMAIN sessions : /\ sessions'[sid].shares = sessions[sid].shares
                                          /\ sessions'[sid].commitments = sessions[sid].commitments
      <4>1. CASE WireStep(c)
        BY <4>1, WireRegistry DEF registry
      <4>2. CASE Handle(c)
        <5>1. pc[c] \in Inside
          BY <1>0, <4>2, HandleCases, ProceedFrame DEF HandlerStep, Inside
        <5>2. Line(c).op = "aggregate"
          BY <1>1, <2>3, <5>1, WriterHolds DEF Inside
        <5> QED BY <4>2, <5>2, AggregateLeaves
      <4> QED BY <4>1, <4>2
    <3>2. CASE Line(d).op = "create"
      BY <2>1, <3>1, <3>2 DEF Ready, Untouched
    <3>3. CASE Line(d).op \in {"share", "commitment"}
      <4>1. Line(d).sid \in DOMAIN sessions
        BY <2>1, <3>3 DEF Placed
      <4>2. StoreOf(d)' = StoreOf(d)
        BY <2>1, <3>1, <4>1 DEF StoreOf, Untouched
      <4>3. StoreOf(d)[Line(d).signer] = Absent
        BY <2>1, <3>3 DEF Ready
      <4> QED BY <2>1, <3>3, <4>2, <4>3 DEF Ready, Untouched
    <3> QED BY <2>1, <2>3, <3>2, <3>3 DEF Placed
  <2> QED BY <2>2, <2>3
<1>2. Ready(c)'
  <2>1. CASE pc'[c] # "apply"
    BY <2>1 DEF Ready
  <2>2. CASE CheckCreate(c)
    BY <1>0, <2>2 DEF CheckCreate, At, Proceed, Ready, Line, wire, registry, NetType
  <2>3. CASE CheckSubmission(c)
    BY <1>0, <2>3 DEF CheckSubmission, At, Proceed, Ready, StoreOf, Line, wire, registry, NetType
  <2>4. CASE CheckAggregate(c)
    BY <1>0, <2>4 DEF CheckAggregate, At, Proceed, Ready, Line, wire, registry, NetType
  <2>5. CASE WireStep(c)
    <3>1. CASE HangUp(c)
      BY <1>0, <3>1 DEF HangUp, Ready, StoreOf, Line, registry
    <3>2. CASE ~ HangUp(c)
      <4>1. pc'[c] # "apply"
        BY <1>0, <2>5, <3>2 DEF NetType, WireStep, Connect, CallDirectly, ReadLine, ReadEof,
          ReadReset, Lock, Unlock, WriteReply, WriteFails, WriteError, Goto
      <4> QED BY <2>1, <4>1
    <3> QED BY <3>1, <3>2
  <2>6. CASE Writes(c) \/ Finishes(c)
    <3>1. pc'[c] # "apply"
      BY SMTT(60), <1>0, <2>6, HandleCases DEF HandlerStep, NetType
    <3> QED BY <2>1, <3>1
  <2> QED BY <1>0, <2>2, <2>3, <2>4, <2>5, <2>6, HandleCases DEF Checks
<1> QED BY <1>1, <1>2
-------------------------------------------------------------------------------
(* A reply is true when it is made, and stays true.                           *)

Stored(registered, line) ==
  IF line.op = "share" THEN registered[line.sid].shares[line.signer]
                       ELSE registered[line.sid].commitments[line.signer]

\* The parts of AcknowledgedIsRecorded and RepliesAreBacked about one line and its reply,
\* of the sessions registered and the signatures issued.
Recorded(registered, line, r) ==
  line.op \in {"commitment", "share"} /\ r.out \in {"ok", "ValidationError"} =>
    /\ line.sid \in DOMAIN registered
    /\ r.out = "ok" => Stored(registered, line) = line.bytes
    /\ r.out = "ValidationError" => Stored(registered, line) # Absent

CreateBacked(registered, line, r) ==
  line.op = "create" /\ r.out = "ok" =>
    /\ r.sid \in DOMAIN registered
    /\ registered[r.sid].message = line.message
    /\ registered[r.sid].threshold = line.threshold

AggregateBacked(registered, signatures, line, r) ==
  line.op = "aggregate" /\ r.out = "ok" =>
    /\ line.sid \in DOMAIN registered
    /\ [sid |-> line.sid, message |-> registered[line.sid].message, signers |-> r.signers] \in signatures
    /\ AtLeast(Cardinality(r.signers), registered[line.sid].threshold)

CommitmentBacked(registered, line, r) ==
  line.op = "commitment" /\ r.out = "ok" /\ r.state = "commitments_collected" =>
    AtLeast(Count(registered[line.sid].commitments), registered[line.sid].threshold)

Honest(registered, signatures, line, r) ==
  /\ Recorded(registered, line, r) /\ CreateBacked(registered, line, r)
  /\ AggregateBacked(registered, signatures, line, r) /\ CommitmentBacked(registered, line, r)

LEMMA HonestRefusals ==
  ASSUME NEW registered, NEW signatures, NEW line, NEW r, r.out \notin {"ok", "ValidationError"}
  PROVE  Honest(registered, signatures, line, r)
BY DEF Honest, Recorded, CreateBacked, AggregateBacked, CommitmentBacked

LEMMA StoredStays ==
  ASSUME NetType, Grows, NEW line \in Request, line.op \in {"commitment", "share"},
         line.sid \in DOMAIN sessions, Stored(sessions, line) # Absent
  PROVE  Stored(sessions', line) = Stored(sessions, line)
<1>1. line.signer \in Signers
  BY RequestFields
<1>2. Extends(sessions[line.sid], sessions'[line.sid])
  BY DEF Grows
<1> QED BY <1>1, <1>2 DEF Extends, Keeps, Stored

LEMMA BytesPresent ==
  ASSUME NEW line \in Request, line.op \in {"commitment", "share"}
  PROVE  line.bytes # Absent
BY RequestFields, SessionAssumption

LEMMA HonestStays ==
  ASSUME NetType, Grows, NEW line \in Request, NEW r, Honest(sessions, issued, line, r)
  PROVE  Honest(sessions', issued', line, r)
<1>1. Recorded(sessions', line, r)
  <2> SUFFICES ASSUME line.op \in {"commitment", "share"}, r.out \in {"ok", "ValidationError"}
               PROVE  /\ line.sid \in DOMAIN sessions'
                      /\ r.out = "ok" => Stored(sessions', line) = line.bytes
                      /\ r.out = "ValidationError" => Stored(sessions', line) # Absent
    BY DEF Recorded
  <2>1. /\ line.sid \in DOMAIN sessions
        /\ r.out = "ok" => Stored(sessions, line) = line.bytes
        /\ r.out = "ValidationError" => Stored(sessions, line) # Absent
    BY DEF Honest, Recorded
  <2>2. Stored(sessions, line) # Absent
    BY <2>1, BytesPresent
  <2>3. Stored(sessions', line) = Stored(sessions, line)
    BY <2>1, <2>2, StoredStays
  <2> QED BY <2>1, <2>3 DEF Grows
<1>2. CreateBacked(sessions', line, r)
  BY DEF Honest, CreateBacked, Grows, Extends
<1>3. AggregateBacked(sessions', issued', line, r)
  BY DEF Honest, AggregateBacked, Grows, Extends
<1>4. CommitmentBacked(sessions', line, r)
  <2> SUFFICES ASSUME line.op = "commitment", r.out = "ok", r.state = "commitments_collected"
               PROVE  AtLeast(Count(sessions'[line.sid].commitments), sessions'[line.sid].threshold)
    BY DEF CommitmentBacked
  <2>1. line.sid \in DOMAIN sessions
    BY DEF Honest, Recorded
  <2> QED BY <2>1, QuorumStays DEF Honest, CommitmentBacked
<1> QED BY <1>1, <1>2, <1>3, <1>4 DEF Honest

\* commitments_collected has threshold commitments behind it.
Justified ==
  \A sid \in DOMAIN sessions : sessions[sid].state = "commitments_collected" =>
    AtLeast(Count(sessions[sid].commitments), sessions[sid].threshold)

Unanswered == {"idle", "read", "lock", "check", "apply", "closed"}

\* What is known of a thread with an answer on its way.
Answered(c) ==
  /\ pc[c] \in Unanswered => reply[c].out = "none"
  /\ pc[c] = "settle" /\ Line(c).op = "commitment" => Stored(sessions, Line(c)) = Line(c).bytes
  /\ reply[c].out \in {"ok", "ValidationError"} => pos[c] # 0
  /\ Honest(sessions, issued, Line(c), reply[c])

TrueReplies(c) == \A k \in 1 .. Len(got[c]) : Honest(sessions, issued, got[c][k].line, got[c][k].reply)

LEMMA JustifiedReplaced ==
  ASSUME NetType, Grows, Justified, NEW sid \in DOMAIN sessions, NEW t,
         sessions' = [sessions EXCEPT ![sid] = t],
         t.state = "commitments_collected" =>
           sessions[sid].state = "commitments_collected" \/ AtLeast(Count(t.commitments), t.threshold)
  PROVE  Justified'
<1>1. DOMAIN sessions' = DOMAIN sessions /\ sessions'[sid] = t
      /\ \A i \in DOMAIN sessions : i # sid => sessions'[i] = sessions[i]
  BY DEF NetType
<1>2. \A i \in DOMAIN sessions :
        AtLeast(Count(sessions[i].commitments), sessions[i].threshold)
          => AtLeast(Count(sessions'[i].commitments), sessions'[i].threshold)
  BY QuorumStays
<1> QED BY <1>1, <1>2 DEF Justified

LEMMA JustifiedKept ==
  ASSUME Typed, Exclusive, Calm, Justified, NEW c \in Conns, Ready(c), WireStep(c) \/ Handle(c), Grows
  PROVE  Justified'
<1> DEFINE r == Line(c)
           s == sessions[r.sid]
<1>0. NetType /\ Placed(c) /\ sessions \in Seq(Session)
  BY DEF Typed, NetType
<1>1. pc[c] \in Inside => r \in Request
  BY <1>0, LineType DEF Placed
<1>2. CASE sessions' = sessions
  BY <1>2 DEF Justified
<1>3. CASE ApplyCreate(c)
  <2> DEFINE new == NewSession(r.message, r.threshold, r.scheme)
  <2>1. r.op = "create" /\ pc[c] = "apply" /\ r.scheme \in SCHEMES /\ sessions' = Insert(key[c], new)
    BY <1>3 DEF ApplyCreate, At
  <2>2. key[c] = Len(sessions) + 1 /\ Len(sessions) + 1 \in 1 .. Len(sessions) + 1
    BY SMTT(60), <1>0, <2>1 DEF Ready
  <2>3. new \in Session /\ new.state = "pending"
    BY <1>1, <2>1, RequestFields, NewSessionType DEF Inside, NewSession
  <2> HIDE DEF new
  <2>4. sessions' = Append(sessions, new)
    BY <1>0, <2>1, <2>2, <2>3, InsertType
  <2>5. \A i \in DOMAIN sessions' : sessions'[i] = new \/ (i \in DOMAIN sessions /\ sessions'[i] = sessions[i])
    BY SMTT(60), <1>0, <2>3, <2>4
  <2> QED BY <2>3, <2>5 DEF Justified
<1>4. CASE ApplyShare(c)
  <2>1. pc[c] = "apply" /\ r.op = "share" /\ r.sid \in DOMAIN sessions
    BY <1>0, <1>4 DEF ApplyShare, At, Placed
  <2>2. s \in Session /\ r.signer \in Signers /\ r.bytes \in Blobs
    BY SMTT(60), <1>0, <1>1, <2>1, RequestFields DEF Inside
  <2>3. AddShare(s, r.signer, r.bytes).state = s.state
    BY <2>2, AddShareFields
  <2> QED BY <1>0, <1>4, <2>1, <2>3, JustifiedReplaced DEF ApplyShare
<1>5. CASE ApplyCommitment(c)
  <2>1. r.sid \in DOMAIN sessions /\ s \in Session
    BY SMTT(60), <1>0, <1>5 DEF ApplyCommitment, At, Placed
  <2>2. [s EXCEPT !.commitments = Record(@, r.signer, r.bytes)].state = s.state
    BY <2>1 DEF Session
  <2> QED BY <1>0, <1>5, <2>1, <2>2, JustifiedReplaced DEF ApplyCommitment
<1>6. CASE SettleCommitment(c)
  <2>1. r.sid \in DOMAIN sessions /\ s \in Session
    BY SMTT(60), <1>0, <1>6 DEF SettleCommitment, At, Placed
  <2> DEFINE t == CollectCommitments(s)
  <2>2. /\ t.commitments = s.commitments /\ t.threshold = s.threshold
        /\ AtLeast(Count(s.commitments), s.threshold) \/ t.state = s.state
    BY <2>1 DEF CollectCommitments, Session
  <2>3. sessions' = [sessions EXCEPT ![r.sid] = t]
    BY <1>6 DEF SettleCommitment
  <2> HIDE DEF t
  <2> QED BY <1>0, <2>1, <2>2, <2>3, JustifiedReplaced
<1>7. CASE SettleAggregate(c)
  <2>1. r.sid \in DOMAIN sessions /\ s \in Session
    BY SMTT(60), <1>0, <1>7 DEF SettleAggregate, At, Placed
  <2>2. [s EXCEPT !.state = "completed"].state = "completed"
    BY <2>1 DEF Session
  <2> QED BY <1>0, <1>7, <2>1, <2>2, JustifiedReplaced DEF SettleAggregate
<1>8. CASE WireStep(c)
  BY <1>2, <1>8, WireRegistry DEF registry
<1>9. CASE Checks(c)
  BY <1>2, <1>9, ProceedFrame DEF registry
<1>10. CASE CheckInvalid(c) \/ RefuseScheme(c) \/ RefuseUnknown(c) \/ RefuseDuplicate(c)
            \/ RefuseAggregate(c) \/ FailAggregate(c) \/ ApplyAggregate(c)
  <2>1. sessions' = sessions
    BY <1>10 DEF CheckInvalid, RefuseScheme, RefuseUnknown, RefuseDuplicate, RefuseAggregate,
      FailAggregate, ApplyAggregate, Refuse, registry
  <2> QED BY <1>2, <2>1
<1> QED BY <1>0, <1>3, <1>4, <1>5, <1>6, <1>7, <1>8, <1>9, <1>10, HandleCases DEF Writes, Finishes

\* What a handler's step makes of its own thread's answer.
LEMMA AnsweredHere ==
  ASSUME Typed, Typed', Justified, NEW c \in Conns, Ready(c), Answered(c), Handle(c), Grows
  PROVE  Answered(c)'
<1> DEFINE r == Line(c)
           s == sessions[r.sid]
<1>0. NetType /\ Placed(c) /\ NetType' /\ sessions \in Seq(Session)
  BY DEF Typed, NetType
<1>1. pc[c] \in Inside => r \in Request
  BY <1>0, LineType DEF Placed
<1>2. Line(c)' = r /\ pos'[c] # 0
  <2>1. pos' = pos /\ sent' = sent /\ pc[c] \in Inside
    BY <1>0, HandleCases, ProceedFrame DEF HandlerStep, Inside
  <2> QED BY <1>0, <2>1 DEF Line, Placed
<1>3. ASSUME pc'[c] = "unlock", Honest(sessions', issued', r, reply'[c]) PROVE Answered(c)'
  BY <1>2, <1>3 DEF Answered, Unanswered
<1>4. ASSUME pc'[c] = "unlock", reply'[c].out \notin {"ok", "ValidationError"} PROVE Answered(c)'
  <2>1. Honest(sessions', issued', r, reply'[c])
    BY <1>4, HonestRefusals
  <2> QED BY <1>3, <1>4, <2>1
<1>5. ASSUME NEW error, Refuse(c, error), error \in Errors
      PROVE  pc'[c] = "unlock" /\ reply'[c].out = error /\ sessions' = sessions
  <2>1. Failed(error).out = error
    BY <1>5, RepliesType DEF Outcomes
  <2> QED BY <1>0, <1>5, <2>1 DEF Refuse, Return, Goto, Answer, NetType
<1>6. CASE Checks(c)
  <2>1. /\ pc'[c] = "apply" /\ reply'[c] = reply[c] /\ pc[c] = "check"
    BY SMTT(60), <1>0, <1>6, ProceedFrame DEF NetType
  <2>2. reply'[c].out = "none"
    BY <2>1 DEF Answered, Unanswered
  <2>3. Honest(sessions', issued', r, reply'[c])
    BY <2>2, HonestRefusals
  <2> QED BY <1>2, <2>1, <2>2, <2>3 DEF Answered
<1>7. CASE CheckInvalid(c)
  <2>1. Failed("RequestError").out = "RequestError"
    BY RepliesType DEF Outcomes
  <2>2. pc'[c] = "unlock" /\ reply'[c].out = "RequestError"
    BY <1>0, <1>7, <2>1 DEF CheckInvalid, Goto, Answer, NetType
  <2> QED BY <1>4, <2>2
<1>8. CASE RefuseScheme(c) \/ RefuseUnknown(c) \/ RefuseAggregate(c) \/ FailAggregate(c)
  <2>1. \E error \in Errors \ {"ValidationError"} : Refuse(c, error)
    BY <1>8 DEF RefuseScheme, RefuseUnknown, RefuseAggregate, FailAggregate, Errors
  <2>2. pc'[c] = "unlock" /\ reply'[c].out \notin {"ok", "ValidationError"}
    BY <1>5, <2>1 DEF Errors
  <2> QED BY <1>4, <2>2
<1>9. CASE RefuseDuplicate(c)
  <2>1. /\ Refuse(c, "ValidationError") /\ r.op \in {"commitment", "share"}
        /\ r.sid \in DOMAIN sessions /\ StoreOf(c)[r.signer] # Absent
    BY <1>9 DEF RefuseDuplicate, At
  <2>2. pc'[c] = "unlock" /\ reply'[c].out = "ValidationError" /\ sessions' = sessions
    BY <1>5, <2>1 DEF Errors
  <2>3. Stored(sessions', r) # Absent
    BY <2>1, <2>2 DEF Stored, StoreOf
  <2>4. Honest(sessions', issued', r, reply'[c])
    <3> HIDE DEF r
    <3> QED BY <2>1, <2>2, <2>3 DEF Honest, Recorded, CreateBacked, AggregateBacked, CommitmentBacked
  <2> QED BY <1>3, <2>2, <2>4
<1>10. CASE ApplyCreate(c)
  <2> DEFINE new == NewSession(r.message, r.threshold, r.scheme)
  <2>1. r.op = "create" /\ pc[c] = "apply" /\ r.scheme \in SCHEMES /\ sessions' = Insert(key[c], new)
        /\ Return(c, "unlock", "ok", Ok(key[c], "pending", {}))
    BY <1>10 DEF ApplyCreate, At
  <2>2. key[c] \in Nat /\ key[c] \in 1 .. Len(sessions) + 1
    BY <1>0, <2>1 DEF Placed, NetType
  <2>3. new \in Session /\ new.message = r.message /\ new.threshold = r.threshold
    BY <1>1, <2>1, RequestFields, NewSessionType DEF Inside, NewSession
  <2>4. pc'[c] = "unlock" /\ reply'[c].out = "ok" /\ reply'[c].sid = key[c]
    <3>1. reply'[c] = Ok(key[c], "pending", {}) /\ pc'[c] = "unlock"
      BY <1>0, <2>1 DEF Return, Goto, Answer, NetType
    <3> QED BY SMTT(60), <2>2, <3>1, RepliesType DEF States
  <2> HIDE DEF new
  <2>5. sessions'[key[c]] = new /\ key[c] \in DOMAIN sessions'
    <3>1. Insert(key[c], new)[key[c]] = new /\ Len(Insert(key[c], new)) >= Len(sessions)
      BY <1>0, <2>2, <2>3, InsertType
    <3>2. key[c] \in DOMAIN Insert(key[c], new)
      BY SMTT(60), <1>0, <2>2 DEF Insert
    <3> QED BY <2>1, <3>1, <3>2
  <2>6. Honest(sessions', issued', r, reply'[c])
    <3> HIDE DEF r
    <3> QED BY <2>1, <2>3, <2>4, <2>5 DEF Honest, Recorded, CreateBacked, AggregateBacked, CommitmentBacked
  <2> QED BY <1>3, <2>4, <2>6
<1> SUFFICES ASSUME ApplyShare(c) \/ ApplyCommitment(c) \/ SettleCommitment(c)
                    \/ ApplyAggregate(c) \/ SettleAggregate(c)
             PROVE  Answered(c)'
  BY <1>0, <1>6, <1>7, <1>8, <1>9, <1>10, HandleCases DEF Writes, Finishes
<1>11. CASE ApplyShare(c)
  <2>1. /\ pc[c] = "apply" /\ r.op = "share" /\ r.sid \in DOMAIN sessions
        /\ sessions' = [sessions EXCEPT ![r.sid] = AddShare(s, r.signer, r.bytes)]
        /\ Return(c, "unlock", "ok", Ok(0, "none", {}))
    BY <1>0, <1>11 DEF ApplyShare, At, Placed
  <2>2. s \in Session /\ r.signer \in Signers /\ r.bytes \in Blobs
    BY SMTT(60), <1>0, <1>1, <2>1, RequestFields DEF Inside
  <2>3. AddShare(s, r.signer, r.bytes).shares[r.signer] = r.bytes
    <3>1. AddShare(s, r.signer, r.bytes).shares = Record(s.shares, r.signer, r.bytes)
      BY <2>2, AddShareFields
    <3>2. s.shares \in Store(Blobs)
      BY <2>2 DEF Session
    <3> QED BY <2>2, <3>1, <3>2 DEF Record, Store
  <2>4. pc'[c] = "unlock" /\ reply'[c].out = "ok"
    <3>1. reply'[c] = Ok(0, "none", {}) /\ pc'[c] = "unlock"
      BY <1>0, <2>1 DEF Return, Goto, Answer, NetType
    <3> QED BY SMTT(60), <3>1, RepliesType
  <2>5. r.sid \in DOMAIN sessions' /\ Stored(sessions', r) = r.bytes
    BY <1>0, <2>1, <2>3 DEF Stored
  <2>6. Honest(sessions', issued', r, reply'[c])
    <3> HIDE DEF r
    <3> QED BY <2>1, <2>4, <2>5 DEF Honest, Recorded, CreateBacked, AggregateBacked, CommitmentBacked
  <2> QED BY <1>3, <2>4, <2>6
<1>12. CASE ApplyCommitment(c)
  <2> DEFINE out == IF Comparable(s.threshold) THEN "ok" ELSE "ArgumentError"
             t == [s EXCEPT !.commitments = Record(@, r.signer, r.bytes)]
  <2>1. /\ pc[c] = "apply" /\ r.op = "commitment" /\ r.sid \in DOMAIN sessions
        /\ sessions' = [sessions EXCEPT ![r.sid] = t]
        /\ Return(c, "settle", out, Failed(out))
    BY <1>0, <1>12 DEF ApplyCommitment, At, Placed
  <2>2. s \in Session /\ r.signer \in Signers /\ r.bytes \in Commitments
    BY SMTT(60), <1>0, <1>1, <2>1, RequestFields DEF Inside
  <2>3. t.commitments[r.signer] = r.bytes
    BY <2>2 DEF Record, Session, Store
  <2>4. pc'[c] = "settle" /\ reply'[c].out \in {"ok", "ArgumentError"} /\ reply'[c].state = "none"
    <3>1. reply'[c] = Failed(out) /\ pc'[c] = "settle"
      BY <1>0, <2>1 DEF Return, Goto, Answer, NetType
    <3> QED BY SMTT(60), <3>1 DEF Failed, Reply
  <2>5. r.sid \in DOMAIN sessions' /\ Stored(sessions', r) = r.bytes
    BY <1>0, <2>1, <2>3 DEF Stored
  <2>6. Honest(sessions', issued', r, reply'[c])
    <3> HIDE DEF r
    <3> QED BY <2>1, <2>4, <2>5 DEF Honest, Recorded, CreateBacked, AggregateBacked, CommitmentBacked
  <2> QED BY <1>2, <2>4, <2>5, <2>6 DEF Answered, Unanswered
<1>13. CASE SettleCommitment(c)
  <2> DEFINE t == CollectCommitments(s)
  <2>1. /\ pc[c] = "settle" /\ r.op = "commitment" /\ r.sid \in DOMAIN sessions /\ s \in Session
        /\ sessions' = [sessions EXCEPT ![r.sid] = t]
    BY SMTT(60), <1>0, <1>13 DEF SettleCommitment, At, Placed
  <2>2. /\ t.commitments = s.commitments /\ t.threshold = s.threshold
        /\ t.state = "commitments_collected" =>
             s.state = "commitments_collected" \/ AtLeast(Count(s.commitments), s.threshold)
        /\ t.state \in States
    BY <2>1 DEF CollectCommitments, Session, States
  <2>3. t.state = "commitments_collected" => AtLeast(Count(t.commitments), t.threshold)
    BY <2>1, <2>2 DEF Justified
  <2>4. pc'[c] = "unlock" /\ (reply'[c] = Ok(0, t.state, {}) \/ reply'[c] = Failed("ArgumentError"))
    BY <1>0, <1>13 DEF SettleCommitment, Goto, Answer, NetType
  <2> HIDE DEF t
  <2>5. reply'[c].out = "ArgumentError" \/ (reply'[c].out = "ok" /\ reply'[c].state = t.state)
    <3>1. CASE reply'[c] = Ok(0, t.state, {})
      <4>1. Ok(0, t.state, {}).out = "ok" /\ Ok(0, t.state, {}).state = t.state
        BY ReplyFields
      <4> QED BY <3>1, <4>1
    <3>2. CASE reply'[c] = Failed("ArgumentError")
      <4>1. Failed("ArgumentError").out = "ArgumentError"
        BY ReplyFields
      <4> QED BY <3>2, <4>1
    <3> QED BY <2>4, <3>1, <3>2
  <2>6. Stored(sessions, r) = r.bytes
    BY <2>1 DEF Answered
  <2>7. r.sid \in DOMAIN sessions' /\ Stored(sessions', r) = r.bytes /\ sessions'[r.sid] = t
    BY <1>0, <2>1, <2>2, <2>6 DEF Stored
  <2>8. Honest(sessions', issued', r, reply'[c])
    <3> HIDE DEF r
    <3> QED BY <2>1, <2>3, <2>5, <2>7 DEF Honest, Recorded, CreateBacked, AggregateBacked, CommitmentBacked
  <2> QED BY <1>3, <2>4, <2>8
<1>14. CASE ApplyAggregate(c)
  <2>1. /\ pc[c] = "apply" /\ r.op = "aggregate" /\ r.sid \in DOMAIN sessions /\ sessions' = sessions
        /\ issued' = issued \cup {SignatureOf(r.sid, s)}
        /\ Return(c, "settle", "ok", Ok(r.sid, "completed", Submitters(s.shares)))
    BY <1>0, <1>14 DEF ApplyAggregate, At, Placed
  <2>2. AtLeast(Cardinality(Submitters(s.shares)), s.threshold)
    BY <2>1 DEF Ready, ThresholdMet, Count
  <2>3. pc'[c] = "settle" /\ reply'[c].out = "ok" /\ reply'[c].signers = Submitters(s.shares)
    <3>1. reply'[c] = Ok(r.sid, "completed", Submitters(s.shares)) /\ pc'[c] = "settle"
      BY <1>0, <2>1 DEF Return, Goto, Answer, NetType
    <3> QED BY SMTT(60), <3>1 DEF Ok, Reply
  <2>4. [sid |-> r.sid, message |-> s.message, signers |-> Submitters(s.shares)] \in issued'
    BY <2>1 DEF SignatureOf
  <2>5. Honest(sessions', issued', r, reply'[c])
    <3> HIDE DEF r
    <3> QED BY <2>1, <2>2, <2>3, <2>4 DEF Honest, Recorded, CreateBacked, AggregateBacked, CommitmentBacked
  <2> QED BY <1>2, <2>1, <2>3, <2>5 DEF Answered, Unanswered
<1>15. CASE SettleAggregate(c)
  <2>1. pc[c] = "settle" /\ pc'[c] = "unlock" /\ reply'[c] = reply[c]
    BY <1>0, <1>15 DEF SettleAggregate, At, Goto, NetType
  <2>2. Honest(sessions', issued', r, reply[c])
    BY <1>0, <1>1, <2>1, HonestStays DEF Answered, Inside
  <2> QED BY <1>3, <2>1, <2>2
<1> QED BY <1>11, <1>12, <1>13, <1>14, <1>15

\* What a step of the wire makes of the answer of its thread.
WireAnswer(c) ==
  /\ \/ reply'[c].out \notin {"ok", "ValidationError"}
     \/ Line(c)' = Line(c) /\ reply'[c] = reply[c]
  /\ got' = got \/ (pos[c] # 0 /\ Deliver(c) /\ reply'[c].out = "none")
  /\ pc'[c] \in Unanswered => reply'[c].out = "none"
  /\ pos[c] # 0 => pos'[c] # 0
  /\ pc'[c] = "settle" => pc[c] = "settle" /\ Line(c)' = Line(c)

LEMMA WireAnswers ==
  ASSUME Typed, NEW c \in Conns, Answered(c), WireStep(c)
  PROVE  WireAnswer(c)
<1>0. NetType /\ Placed(c) /\ (pc[c] \in Unanswered => reply[c].out = "none")
  BY DEF Typed, Answered
<1>1. /\ Failed("none").out = "none" /\ Failed("IOError").out = "IOError"
      /\ Failed("RequestError").out = "RequestError"
  BY RepliesType DEF Outcomes
<1> USE <1>0, <1>1 DEF NetType, Goto, Answer, wire, WireAnswer, Unanswered
<1>2. ASSUME NEW lines, Connect(c, lines) \/ CallDirectly(c, lines) PROVE WireAnswer(c)
  BY <1>2 DEF Connect, CallDirectly, Placed
<1>3. CASE HangUp(c)
  BY <1>3 DEF HangUp, Line
<1>4. CASE ReadLine(c)
  BY SMTT(60), <1>4 DEF ReadLine
<1>5. CASE ReadEof(c) \/ ReadReset(c)
  BY <1>5 DEF ReadEof, ReadReset
<1>6. CASE Lock(c)
  BY <1>6 DEF Lock
<1>7. CASE Unlock(c) \/ WriteFails(c)
  BY <1>7 DEF Unlock, WriteFails, Line
<1>8. CASE WriteReply(c)
  <2>1. pos[c] # 0
    BY <1>8 DEF WriteReply, Placed
  <2> QED BY <1>8, <2>1 DEF WriteReply
<1>9. CASE WriteError(c)
  BY <1>9 DEF WriteError
<1> QED BY <1>2, <1>3, <1>4, <1>5, <1>6, <1>7, <1>8, <1>9 DEF WireStep

LEMMA AnsweredKept ==
  ASSUME Typed, Typed', Justified, NEW c \in Conns, Ready(c), \A d \in Conns : Answered(d),
         WireStep(c) \/ Handle(c), Grows
  PROVE  \A d \in Conns : Answered(d)'
<1>0. NetType /\ Placed(c) /\ NetType'
  BY DEF Typed
<1>1. ASSUME NEW d \in Conns, d # c PROVE Answered(d)'
  <2>1. Untouched(d) /\ Answered(d) /\ Placed(d)
    BY <1>0, <1>1, WireLocal, HandleLocal DEF Typed
  <2>2. pos[d] # 0 => Line(d) \in Request
    BY <1>0, <2>1, LineType
  <2>3. Honest(sessions', issued', Line(d), reply[d])
    <3>1. CASE reply[d].out \in {"ok", "ValidationError"}
      BY <1>0, <2>1, <2>2, <3>1, HonestStays DEF Answered
    <3>2. CASE reply[d].out \notin {"ok", "ValidationError"}
      BY <3>2, HonestRefusals
    <3> QED BY <3>1, <3>2
  <2>4. pc[d] = "settle" /\ Line(d).op = "commitment" => Stored(sessions', Line(d)) = Line(d).bytes
    <3> HAVE pc[d] = "settle" /\ Line(d).op = "commitment"
    <3>1. Line(d) \in Request /\ Line(d).sid \in DOMAIN sessions
      BY <2>1, <2>2 DEF Placed, Inside
    <3>2. Stored(sessions, Line(d)) = Line(d).bytes
      BY <2>1 DEF Answered
    <3> QED BY <1>0, <3>1, <3>2, StoredStays, BytesPresent
  <2> QED BY <2>1, <2>3, <2>4 DEF Answered, Untouched
<1>2. Answered(c)'
  <2>1. CASE Handle(c)
    BY <2>1, AnsweredHere
  <2>2. CASE WireStep(c)
    <3>1. WireAnswer(c) /\ UNCHANGED registry
      BY <2>2, WireAnswers, WireRegistry
    <3>2. CASE reply'[c].out \notin {"ok", "ValidationError"}
      <4>1. Honest(sessions', issued', Line(c)', reply'[c])
        BY <3>2, HonestRefusals
      <4> QED BY <3>1, <3>2, <4>1 DEF WireAnswer, Answered, registry
    <3>3. CASE Line(c)' = Line(c) /\ reply'[c] = reply[c]
      BY <3>1, <3>3 DEF WireAnswer, Answered, registry
    <3> QED BY <3>1, <3>2, <3>3 DEF WireAnswer
  <2> QED BY <2>1, <2>2
<1> QED BY <1>1, <1>2

LEMMA TrueRepliesKept ==
  ASSUME Typed, Typed', NEW c \in Conns, \A d \in Conns : Answered(d), \A d \in Conns : TrueReplies(d),
         WireStep(c) \/ Handle(c), Grows
  PROVE  \A d \in Conns : TrueReplies(d)'
<1>0. NetType /\ Placed(c) /\ Answered(c) /\ NetType'
  BY DEF Typed
<1>1. ASSUME NEW d \in Conns, NEW k \in 1 .. Len(got[d])
      PROVE  Honest(sessions', issued', got[d][k].line, got[d][k].reply)
  <2>1. got[d][k].line \in Request
    <3>1. got[d] \in Seq(Entries)
      BY <1>0 DEF NetType
    <3>2. got[d][k] \in Entries
      BY SMTT(60), <3>1
    <3> QED BY <3>2 DEF Entries
  <2> QED BY <1>0, <2>1, HonestStays DEF TrueReplies
<1>2. CASE got' = got
  BY <1>1, <1>2 DEF TrueReplies
<1>3. CASE pos[c] # 0 /\ Deliver(c) /\ UNCHANGED registry
  <2>1. Honest(sessions', issued', Line(c), reply[c])
    BY <1>0, <1>3 DEF Answered, registry
  <2>2. ASSUME NEW d \in Conns, NEW k \in 1 .. Len(got'[d])
        PROVE  Honest(sessions', issued', got'[d][k].line, got'[d][k].reply)
    <3>1. CASE got'[d] = got[d]
      BY <1>1, <2>2, <3>1
    <3>2. CASE d = c /\ peer[c] # "gone"
      <4>1. /\ Len(got'[c]) = Len(got[c]) + 1 /\ Len(got[c]) \in Nat
            /\ \A i \in 1 .. Len(got[c]) : got'[c][i] = got[c][i]
            /\ got'[c][Len(got[c]) + 1].line = Line(c)
            /\ got'[c][Len(got[c]) + 1].reply = reply[c]
        BY SMTT(60), <1>0, <1>3, <3>2, DeliverType DEF NetType
      <4>2. k \in 1 .. Len(got[c]) \/ k = Len(got[c]) + 1
        BY SMTT(60), <2>2, <3>2, <4>1
      <4> QED BY <1>1, <2>1, <3>2, <4>1, <4>2
    <3> QED BY <1>0, <1>3, <3>1, <3>2, DeliverType
  <2> QED BY <2>2 DEF TrueReplies
<1>4. CASE Handle(c)
  BY <1>0, <1>2, <1>4, HandleCases, ProceedFrame DEF HandlerStep
<1>5. CASE WireStep(c)
  BY <1>0, <1>2, <1>3, <1>5, WireAnswers, WireRegistry DEF WireAnswer
<1> QED BY <1>4, <1>5
-------------------------------------------------------------------------------
(* A session id is its creator's alone.                                       *)

Creates(line, r) == line.op = "create" /\ r.out = "ok"

\* The claims to a session id: replies the clients have, and answers on their way.
ToldDistinct ==
  \A c, d \in Conns : \A i \in 1 .. Len(got[c]), j \in 1 .. Len(got[d]) :
    /\ Creates(got[c][i].line, got[c][i].reply) /\ Creates(got[d][j].line, got[d][j].reply)
    /\ got[c][i].reply.sid = got[d][j].reply.sid
    => c = d /\ i = j

AnswersDistinct ==
  \A c, d \in Conns :
    /\ Creates(Line(c), reply[c]) /\ Creates(Line(d), reply[d]) /\ reply[c].sid = reply[d].sid
    => c = d

AnswersNew ==
  \A c, d \in Conns : \A j \in 1 .. Len(got[d]) :
    Creates(Line(c), reply[c]) /\ Creates(got[d][j].line, got[d][j].reply)
      => reply[c].sid # got[d][j].reply.sid

Distinct == ToldDistinct /\ AnswersDistinct /\ AnswersNew

\* A step that hands out no reply and makes no new claim.
LEMMA DistinctQuiet ==
  ASSUME Distinct, NEW c \in Conns, got' = got,
         \A d \in Conns : d # c => Line(d)' = Line(d) /\ reply'[d] = reply[d],
         Creates(Line(c)', reply'[c]) => Line(c)' = Line(c) /\ reply'[c] = reply[c]
  PROVE  Distinct'
<1>1. \A d \in Conns : Creates(Line(d)', reply'[d]) => Line(d)' = Line(d) /\ reply'[d] = reply[d]
  OBVIOUS
<1>2. ToldDistinct'
  BY SMTT(60) DEF Distinct, ToldDistinct
<1>3. AnswersDistinct'
  BY <1>1 DEF Distinct, AnswersDistinct
<1>4. AnswersNew'
  BY SMTT(60), <1>1 DEF Distinct, AnswersNew
<1> QED BY <1>2, <1>3, <1>4 DEF Distinct

\* create_session's answer names a session that was not there before.
LEMMA DistinctCreate ==
  ASSUME Typed, Distinct, \A d \in Conns : Answered(d), \A d \in Conns : TrueReplies(d),
         NEW c \in Conns, Ready(c), ApplyCreate(c)
  PROVE  Distinct'
<1>0. NetType /\ sessions \in Seq(Session)
  BY DEF Typed, NetType
<1>1. \A d \in Conns : d # c => Line(d)' = Line(d) /\ reply'[d] = reply[d]
  BY <1>0, HandleLocal DEF Handle, Untouched
<1>2. got' = got
  BY DEF ApplyCreate, Return, wire
<1>3. key[c] \notin DOMAIN sessions /\ key[c] \in Nat
  <2>1. key[c] = Len(sessions) + 1
    BY DEF Ready, ApplyCreate, At
  <2> QED BY SMTT(60), <1>0, <2>1
<1>4. reply'[c].sid = key[c]
  <2>1. reply'[c] = Ok(key[c], "pending", {})
    BY <1>0 DEF ApplyCreate, Return, Answer, NetType
  <2> QED BY SMTT(60), <1>3, <2>1, RepliesType DEF States
<1>5. \A d \in Conns : Creates(Line(d), reply[d]) => reply[d].sid \in DOMAIN sessions
  BY DEF Answered, Honest, CreateBacked, Creates
<1>6. \A d \in Conns : \A j \in 1 .. Len(got[d]) :
        Creates(got[d][j].line, got[d][j].reply) => got[d][j].reply.sid \in DOMAIN sessions
  BY DEF TrueReplies, Honest, CreateBacked, Creates
<1>7. ToldDistinct'
  BY SMTT(60), <1>2 DEF Distinct, ToldDistinct
<1>8. AnswersDistinct'
  BY <1>1, <1>3, <1>4, <1>5 DEF Distinct, AnswersDistinct
<1>9. AnswersNew'
  <2> SUFFICES ASSUME NEW a \in Conns, NEW d \in Conns, NEW j \in 1 .. Len(got[d]),
                      Creates(Line(a)', reply'[a]), Creates(got[d][j].line, got[d][j].reply)
               PROVE  reply'[a].sid # got[d][j].reply.sid
    BY <1>2 DEF AnswersNew
  <2>1. CASE a = c
    BY <1>3, <1>4, <1>6, <2>1
  <2>2. CASE a # c
    <3>1. Creates(Line(a), reply[a]) /\ reply'[a] = reply[a]
      BY <1>1, <2>2
    <3>2. AnswersNew
      BY DEF Distinct
    <3> QED BY <3>1, <3>2 DEF AnswersNew
  <2> QED BY <2>1, <2>2
<1> QED BY <1>7, <1>8, <1>9 DEF Distinct

LEMMA DistinctDeliver ==
  ASSUME NetType, Distinct, NEW c \in Conns, Placed(c), pos[c] # 0, Deliver(c), reply'[c].out = "none",
         \A d \in Conns : d # c => Line(d)' = Line(d) /\ reply'[d] = reply[d]
  PROVE  Distinct'
<1>1. ~ Creates(Line(c)', reply'[c])
  BY DEF Creates
<1>2. CASE peer[c] = "gone"
  <2>1. got' = got
    BY <1>2 DEF Deliver
  <2> QED BY <1>1, <2>1, DistinctQuiet
<1>3. CASE peer[c] # "gone"
  <2> DEFINE n == Len(got[c])
  <2>1. /\ \A d \in Conns : d # c => got'[d] = got[d]
        /\ Len(got'[c]) = n + 1 /\ n \in Nat
        /\ \A k \in 1 .. n : got'[c][k] = got[c][k]
        /\ got'[c][n + 1].line = Line(c) /\ got'[c][n + 1].reply = reply[c]
    BY SMTT(60), <1>3, DeliverType DEF NetType
  <2>2. \A k : k \in 1 .. Len(got'[c]) <=> k \in 1 .. n \/ k = n + 1
    BY SMTT(60), <2>1
  <2> HIDE DEF n
  <2>3. \A d \in Conns : \A k \in 1 .. Len(got'[d]) :
          \/ k \in 1 .. Len(got[d]) /\ got'[d][k] = got[d][k]
          \/ /\ d = c /\ k = n + 1 /\ got'[d][k].line = Line(c) /\ got'[d][k].reply = reply[c]
    BY <2>1, <2>2 DEF n
  <2>4. ToldDistinct'
    <3> SUFFICES ASSUME NEW a \in Conns, NEW b \in Conns,
                        NEW i \in 1 .. Len(got'[a]), NEW j \in 1 .. Len(got'[b]),
                        Creates(got'[a][i].line, got'[a][i].reply),
                        Creates(got'[b][j].line, got'[b][j].reply),
                        got'[a][i].reply.sid = got'[b][j].reply.sid
                 PROVE  a = b /\ i = j
      BY SMTT(60) DEF ToldDistinct
    <3>1. CASE i \in 1 .. Len(got[a]) /\ got'[a][i] = got[a][i]
      <4>1. CASE j \in 1 .. Len(got[b]) /\ got'[b][j] = got[b][j]
        BY SMTT(60), <3>1, <4>1 DEF Distinct, ToldDistinct
      <4>2. CASE got'[b][j].line = Line(c) /\ got'[b][j].reply = reply[c]
        BY <3>1, <4>2 DEF Distinct, AnswersNew
      <4> QED BY <2>3, <4>1, <4>2
    <3>2. CASE a = c /\ i = n + 1 /\ got'[a][i].line = Line(c) /\ got'[a][i].reply = reply[c]
      <4>1. CASE j \in 1 .. Len(got[b]) /\ got'[b][j] = got[b][j]
        BY <3>2, <4>1 DEF Distinct, AnswersNew
      <4>2. CASE b = c /\ j = n + 1
        BY <3>2, <4>2
      <4> QED BY <2>3, <4>1, <4>2
    <3> QED BY <2>3, <3>1, <3>2
  <2>5. AnswersDistinct'
    BY <1>1 DEF Distinct, AnswersDistinct
  <2>6. AnswersNew'
    <3> SUFFICES ASSUME NEW a \in Conns, NEW b \in Conns, NEW j \in 1 .. Len(got'[b]),
                        Creates(Line(a)', reply'[a]), Creates(got'[b][j].line, got'[b][j].reply)
                 PROVE  reply'[a].sid # got'[b][j].reply.sid
      BY DEF AnswersNew
    <3>1. a # c /\ Creates(Line(a), reply[a]) /\ reply'[a] = reply[a]
      BY <1>1
    <3>2. CASE j \in 1 .. Len(got[b]) /\ got'[b][j] = got[b][j]
      <4>1. AnswersNew
        BY DEF Distinct
      <4>2. reply[a].sid # got[b][j].reply.sid
        BY <3>1, <3>2, <4>1 DEF AnswersNew
      <4> QED BY <3>1, <3>2, <4>2
    <3>3. CASE got'[b][j].line = Line(c) /\ got'[b][j].reply = reply[c]
      BY <3>1, <3>3 DEF Distinct, AnswersDistinct
    <3> QED BY <2>3, <3>2, <3>3
  <2> QED BY <2>4, <2>5, <2>6 DEF Distinct
<1> QED BY <1>2, <1>3

LEMMA DistinctKept ==
  ASSUME Typed, Distinct, \A d \in Conns : Answered(d), \A d \in Conns : TrueReplies(d),
         NEW c \in Conns, Ready(c), Answered(c)', WireStep(c) \/ Handle(c)
  PROVE  Distinct'
<1>0. NetType /\ Placed(c)
  BY DEF Typed
<1>1. \A d \in Conns : d # c => Line(d)' = Line(d) /\ reply'[d] = reply[d]
  BY <1>0, WireLocal, HandleLocal DEF Untouched
<1>2. CASE WireStep(c)
  <2>1. WireAnswer(c)
    BY <1>2, WireAnswers
  <2>2. CASE got' = got
    BY <1>1, <2>1, <2>2, DistinctQuiet DEF WireAnswer, Creates
  <2>3. CASE pos[c] # 0 /\ Deliver(c) /\ reply'[c].out = "none"
    BY <1>0, <1>1, <2>3, DistinctDeliver
  <2> QED BY <2>1, <2>2, <2>3 DEF WireAnswer
<1>3. CASE ApplyCreate(c)
  BY <1>3, DistinctCreate
<1>4. CASE Handle(c) /\ ~ ApplyCreate(c)
  <2>1. got' = got
    BY <1>0, <1>4, HandleCases, ProceedFrame DEF HandlerStep
  <2>2. Line(c)' = Line(c)
    BY <1>0, <1>4, HandleCases, ProceedFrame DEF HandlerStep, Line
  <2>3. ~ Creates(Line(c)', reply'[c])
    <3>1. CASE Checks(c)
      <4>1. reply'[c].out = "none"
        BY <1>0, <3>1, ProceedFrame DEF Answered, Unanswered, NetType
      <4> QED BY <4>1 DEF Creates
    <3>2. CASE CheckInvalid(c)
      BY <2>2, <3>2 DEF CheckInvalid, At, Creates
    <3>3. CASE RefuseScheme(c)
      <4>1. reply'[c] = Failed("ArgumentError")
        BY <1>0, <3>3 DEF RefuseScheme, Refuse, Return, Answer, NetType
      <4> QED BY SMTT(60), <4>1, RepliesType DEF Creates, Outcomes, Errors
    <3>4. CASE ApplyShare(c) \/ ApplyCommitment(c) \/ SettleCommitment(c) \/ ApplyAggregate(c)
               \/ SettleAggregate(c) \/ RefuseUnknown(c) \/ RefuseDuplicate(c) \/ RefuseAggregate(c)
               \/ FailAggregate(c)
      BY <2>2, <3>4 DEF ApplyShare, ApplyCommitment, SettleCommitment, ApplyAggregate, SettleAggregate,
        RefuseUnknown, RefuseDuplicate, RefuseAggregate, FailAggregate, At, Creates
    <3> QED BY <1>0, <1>4, <3>1, <3>2, <3>3, <3>4, HandleCases DEF Writes, Finishes
  <2> QED BY <1>1, <2>1, <2>3, DistinctQuiet
<1> QED BY <1>2, <1>3, <1>4
-------------------------------------------------------------------------------
(* The invariant.  Only its last part needs the embedding program's threads   *)
(* to keep to aggregate: past the mutex two submissions may interleave.       *)

Dependable ==
  /\ Justified /\ Distinct
  /\ \A c \in Conns : Ready(c) /\ Answered(c) /\ TrueReplies(c)

NetInv ==
  /\ Typed /\ Exclusive /\ \A c \in Conns : Talk(c)
  /\ Calm => Dependable

LEMMA NetInvInit == Init => NetInv
<1> SUFFICES ASSUME Init PROVE NetInv
  OBVIOUS
<1>1. /\ sessions = <<>> /\ sessions \in Seq(Session)
      /\ \A c \in Conns : /\ pc[c] = "idle" /\ peer[c] = "none" /\ pos[c] = 0 /\ sent[c] = <<>>
                          /\ got[c] = <<>> /\ reply[c].out = "none"
  BY SMTT(60), RepliesType DEF Init, Outcomes
<1>2. NetType
  BY SMTT(60), RepliesType DEF Init, NetType, Places, Inside, Outcomes
<1>3. \A c \in Conns : Placed(c) /\ Talk(c)
  BY SMTT(60), <1>1 DEF Placed, Talk, Inside
<1>4. Exclusive /\ \A c \in Conns : Ready(c)
  BY <1>1 DEF Exclusive, Ready, Inside
<1>5. \A c \in Conns : Answered(c)
  BY <1>1, HonestRefusals DEF Answered
<1>6. Justified /\ Distinct /\ \A c \in Conns : TrueReplies(c)
  BY SMTT(60), <1>1 DEF Justified, Distinct, ToldDistinct, AnswersDistinct, AnswersNew, TrueReplies, Creates
<1> QED BY <1>2, <1>3, <1>4, <1>5, <1>6 DEF NetInv, Typed, Dependable

LEMMA NetInvStep ==
  ASSUME NetInv, NEW c \in Conns, WireStep(c) \/ Handle(c)
  PROVE  NetInv'
<1>1. Typed' /\ Exclusive' /\ \A d \in Conns : Talk(d)'
  BY PlacedKept, ExclusiveKept, TalkKept DEF NetInv
<1>2. ASSUME Calm' PROVE Dependable'
  <2>1. Calm /\ Dependable
    BY <1>2, CalmBefore DEF NetInv
  <2>2. Grows
    <3>1. CASE WireStep(c)
      BY <3>1, WireRegistry, GrowsQuiet DEF registry
    <3>2. CASE Handle(c)
      BY <2>1, <3>2, HandleGrows DEF NetInv, Dependable
    <3> QED BY <3>1, <3>2
  <2>3. Justified' /\ \A d \in Conns : Ready(d)'
    BY <1>1, <2>1, <2>2, JustifiedKept, ReadyKept DEF NetInv, Dependable
  <2>4. (\A d \in Conns : Answered(d)') /\ \A d \in Conns : TrueReplies(d)'
    BY <1>1, <2>1, <2>2, AnsweredKept, TrueRepliesKept DEF NetInv, Dependable
  <2>5. Distinct'
    BY <2>1, <2>4, DistinctKept DEF NetInv, Dependable
  <2> QED BY <2>3, <2>4, <2>5 DEF Dependable
<1> QED BY <1>1, <1>2 DEF NetInv

LEMMA NetInvStutter == NetInv /\ UNCHANGED vars => NetInv'
<1> SUFFICES ASSUME NetInv, UNCHANGED vars PROVE NetInv'
  OBVIOUS
<1>1. UNCHANGED <<sessions, issued, peer, sent, got, mutex, pc, pos, key, reply>>
  BY DEF vars, registry, wire
<1>2. \A c \in Conns : Line(c)' = Line(c)
  BY <1>1 DEF Line
<1>3. Typed'
  BY <1>1, <1>2 DEF NetInv, Typed, NetType, Placed
<1>4. Exclusive' /\ (Calm' <=> Calm) /\ \A c \in Conns : Talk(c)'
  BY <1>1 DEF NetInv, Exclusive, Calm, Talk
<1>5. ASSUME Dependable PROVE Dependable'
  <2>1. Justified' /\ Distinct'
    BY SMTT(60), <1>1, <1>2, <1>5 DEF Dependable, Justified, Distinct, ToldDistinct, AnswersDistinct, AnswersNew
  <2>2. \A c \in Conns : Ready(c)' /\ Answered(c)' /\ TrueReplies(c)'
    BY <1>1, <1>2, <1>5 DEF Dependable, Ready, StoreOf, Answered, TrueReplies
  <2> QED BY <2>1, <2>2 DEF Dependable
<1> QED BY <1>3, <1>4, <1>5 DEF NetInv

LEMMA NetInvariant == Spec => []NetInv
<1>1. NetInv /\ [Next]_vars => NetInv'
  BY NetInvStep, NetInvStutter, StepCases DEF Next
<1> QED BY <1>1, NetInvInit, PTL DEF Spec

\* ErrorIsFinal for every instance: serve answers at most one line with an error, the last
\* one it reads of that connection, whatever the other connections and threads do.
THEOREM ErrorsAreFinal == Spec => []ErrorIsFinal
<1>1. NetInv => ErrorIsFinal
  <2> SUFFICES ASSUME NetInv, NEW c \in Conns, NEW k \in DOMAIN got[c], got[c][k].reply.out # "ok"
               PROVE  pos[c] = k /\ Len(got[c]) = k
    BY DEF ErrorIsFinal
  <2>1. k \in 1 .. Len(got[c])
    BY SMTT(60) DEF NetInv, Typed, NetType
  <2> QED BY <2>1 DEF NetInv, Talk
<1> QED BY <1>1, NetInvariant, PTL

\* The embedding program makes no direct calls but aggregate.
OnlyAggregates == \A calls \in DirectCalls : \A k \in DOMAIN calls : calls[k].op = "aggregate"

LEMMA CalmInvariant ==
  ASSUME OnlyAggregates
  PROVE  Spec => []Calm
<1>1. Init => Calm
  BY DEF Init, Calm
<1>2. ASSUME NetInv, Calm, NEW c \in Conns, WireStep(c) \/ Handle(c) PROVE Calm'
  <2>0. NetType /\ Placed(c)
    BY <1>2 DEF NetInv, Typed
  <2>1. \A d \in Conns : d # c => sent'[d] = sent[d] /\ peer'[d] = peer[d]
    BY <1>2, <2>0, WireLocal, HandleLocal DEF Untouched
  <2>2. CASE \E calls \in DirectCalls : CallDirectly(c, calls)
    <3> PICK calls \in DirectCalls : CallDirectly(c, calls)
      BY <2>2
    <3>1. sent'[c] = calls
      BY <2>0 DEF CallDirectly, NetType
    <3> QED BY <1>2, <2>1, <3>1 DEF Calm, OnlyAggregates
  <2>3. CASE \E lines \in Scripts : Connect(c, lines)
    <3>1. peer'[c] = "open"
      BY <2>0, <2>3 DEF Connect, NetType
    <3> QED BY <1>2, <2>1, <3>1 DEF Calm
  <2>4. CASE HangUp(c)
    <3>1. peer'[c] = "gone"
      BY <2>0, <2>4 DEF HangUp, NetType
    <3> QED BY <1>2, <2>1, <3>1 DEF Calm
  <2>5. CASE sent' = sent /\ peer' = peer
    BY <1>2, <2>5 DEF Calm
  <2>6. CASE Handle(c)
    BY <2>0, <2>5, <2>6, HandleCases, ProceedFrame DEF HandlerStep
  <2>7. CASE ReadLine(c) \/ ReadEof(c) \/ ReadReset(c) \/ Lock(c) \/ Unlock(c) \/ WriteReply(c)
             \/ WriteFails(c) \/ WriteError(c)
    <3>1. sent' = sent /\ peer' = peer
      BY <2>7 DEF ReadLine, ReadEof, ReadReset, Lock, Unlock, WriteReply, WriteFails, WriteError, wire
    <3> QED BY <2>5, <3>1
  <2> QED BY <1>2, <2>2, <2>3, <2>4, <2>6, <2>7 DEF WireStep
<1>3. NetInv /\ Calm /\ [Next]_vars => Calm'
  <2>1. Calm /\ UNCHANGED vars => Calm'
    BY DEF Calm, vars, wire
  <2> QED BY <1>2, <2>1, StepCases DEF Next
<1> QED BY <1>1, <1>3, NetInvariant, PTL DEF Spec

LEMMA ToldHonest ==
  ASSUME NetInv, Calm, NEW t \in Told
  PROVE  Honest(sessions, issued, t.line, t.reply)
<1>1. \A c \in Conns : DOMAIN got[c] = 1 .. Len(got[c])
  BY SMTT(60) DEF NetInv, Typed, NetType
<1> QED BY <1>1 DEF Told, NetInv, Dependable, TrueReplies

\* AcknowledgedIsRecorded for every instance whose embedding program only aggregates: what
\* a client was told of its submission stays true, because only the thread that holds the
\* mutex submits and it finds its slot as it checked it.
THEOREM AcknowledgementsHold ==
  ASSUME OnlyAggregates
  PROVE  Spec => []AcknowledgedIsRecorded
<1>1. NetInv /\ Calm => AcknowledgedIsRecorded
  <2> SUFFICES ASSUME NetInv, Calm, NEW t \in Told, t.line.op \in {"commitment", "share"}
               PROVE  /\ t.reply.out = "ok" => Stored(sessions, t.line) = t.line.bytes
                      /\ t.reply.out = "ValidationError" => Stored(sessions, t.line) # Absent
    BY DEF AcknowledgedIsRecorded, Stored
  <2> QED BY ToldHonest DEF Honest, Recorded
<1> QED BY <1>1, NetInvariant, CalmInvariant, PTL

\* RepliesAreBacked for every instance whose embedding program only aggregates: a session
\* id is its creator's alone, a signature was issued, and a reported state has the
\* commitments behind it.
THEOREM RepliesHold ==
  ASSUME OnlyAggregates
  PROVE  Spec => []RepliesAreBacked
<1>1. NetInv /\ Calm => RepliesAreBacked
  <2> SUFFICES ASSUME NetInv, Calm PROVE RepliesAreBacked
    OBVIOUS
  <2>1. \A c \in Conns : DOMAIN got[c] = 1 .. Len(got[c])
    BY SMTT(60) DEF NetInv, Typed, NetType
  <2>2. \A t \in Told : Honest(sessions, issued, t.line, t.reply)
    BY ToldHonest
  <2>3. ASSUME NEW t \in Told, t.reply.out = "ok"
        PROVE  /\ t.line.op = "create" =>
                    /\ t.reply.sid \in DOMAIN sessions
                    /\ sessions[t.reply.sid].message = t.line.message
                    /\ sessions[t.reply.sid].threshold = t.line.threshold
               /\ t.line.op = "aggregate" =>
                    /\ [sid |-> t.line.sid, message |-> sessions[t.line.sid].message,
                        signers |-> t.reply.signers] \in issued
                    /\ AtLeast(Cardinality(t.reply.signers), sessions[t.line.sid].threshold)
               /\ t.line.op = "commitment" /\ t.reply.state = "commitments_collected" =>
                    AtLeast(Count(sessions[t.line.sid].commitments), sessions[t.line.sid].threshold)
    BY <2>2, <2>3 DEF Honest, CreateBacked, AggregateBacked, CommitmentBacked
  <2>4. ToldDistinct
    BY DEF NetInv, Dependable, Distinct
  <2>5. \A c, d \in Conns : \A i \in DOMAIN got[c], j \in DOMAIN got[d] :
          /\ got[c][i].line.op = "create" /\ got[c][i].reply.out = "ok"
          /\ got[d][j].line.op = "create" /\ got[d][j].reply.out = "ok"
          /\ got[c][i].reply.sid = got[d][j].reply.sid
          => c = d /\ i = j
    BY SMTT(60), <2>1, <2>4 DEF ToldDistinct, Creates
  <2> QED BY <2>3, <2>5 DEF RepliesAreBacked
<1> QED BY <1>1, NetInvariant, CalmInvariant, PTL
================================================================================
