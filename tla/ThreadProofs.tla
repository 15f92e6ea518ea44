------------------------------ MODULE ThreadProofs ------------------------------
(***************************************************************************)
(* Proofs about the objects that Ruby threads share, for any number of     *)
(* threads: the listener of NetworkCoordinator (no listening socket is     *)
(* orphaned, a running service accepts, a stopped one is quiet), a         *)
(* SecureBytes buffer (cleared? tells the truth, a call nobody interferes  *)
(* with keeps its contract), and the OTS client (its borrow follows the    *)
(* calls in flight).  The three share no state.                            *)
(***************************************************************************)
EXTENDS Listener, SecureBytes, OtsClient, TLAPS

\* Zenon first, the SMT solver where it is not named alone.
USE ZenonT(30), SMTT(60)

-------------------------------------------------------------------------------
(* The listener.                                                               *)

Handles == 0 .. MaxStarts

AcceptorRecord ==
  [at: {"none", "top", "accept", "serve", "ended", "died"}, server: Handles,
   socket: Clients \cup {Nobody}]

Typed ==
  /\ server \in Handles /\ thread \in Handles /\ held \in Handles
  /\ owner \in {"idle", "spawn", "close", "join"}
  /\ listener \in [Listeners -> {"none", "open", "closed"}]
  /\ acceptor \in [Listeners -> AcceptorRecord]

\* @server and the local of stop refer to open listeners, and to all of them.
Sockets ==
  /\ server # 0 => listener[server] = "open"
  /\ owner = "close" => held # 0 /\ listener[held] = "open"
  /\ owner \in {"close", "join"} => server = 0
  /\ owner = "spawn" => server # 0 /\ acceptor[server].at = "none"
  /\ NoOrphanListener

\* An acceptor exists only once its listener was opened, and refers to a listener only
\* while it is in accept.
Acceptors ==
  /\ \A a \in Listeners :
       /\ listener[a] = "none" => acceptor[a].at = "none"
       /\ acceptor[a].at = "accept" <=> acceptor[a].server # 0
  /\ thread # 0 => acceptor[thread].at # "none"
  /\ server # 0 /\ acceptor[server].at # "none" => thread = server

\* Until some join times out, the only acceptor at work is the last one spawned, and only
\* while its listener is @server or its stop has not returned.
OneAcceptor ==
  ~late => \A a \in Listeners :
             Live(a) => a = thread /\ (server = thread \/ owner \in {"close", "join"})

ListenerInv == Typed /\ Sockets /\ Acceptors /\ RunningAccepts /\ OneAcceptor

LEMMA InitEstablishes == Init => ListenerInv
<1> SUFFICES ASSUME Init PROVE ListenerInv
  OBVIOUS
<1>1. /\ \A a \in Listeners : acceptor[a] = Acceptor("none", 0, Nobody)
      /\ DOMAIN acceptor = Listeners
  BY DEF Init
<1>2. /\ Acceptor("none", 0, Nobody) \in AcceptorRecord
      /\ Acceptor("none", 0, Nobody).at = "none" /\ Acceptor("none", 0, Nobody).server = 0
  BY SMTT(60), ListenerAssumption DEF Acceptor, AcceptorRecord, Handles
<1>3. /\ server = 0 /\ thread = 0 /\ owner = "idle" /\ held = 0 /\ late = FALSE
      /\ listener \in [Listeners -> {"none", "open", "closed"}]
      /\ \A l \in Listeners : listener[l] = "none"
  BY DEF Init
<1>4. acceptor \in [Listeners -> AcceptorRecord]
  BY <1>1, <1>2 DEF Init
<1>5. Typed
  <2>1. 0 \in Handles
    BY SMTT(60), ListenerAssumption DEF Handles
  <2> QED BY <1>3, <1>4, <2>1 DEF Typed
<1>6. Sockets /\ RunningAccepts
  BY <1>3 DEF Sockets, NoOrphanListener, OpenListeners, RunningAccepts
<1>7. Acceptors /\ OneAcceptor
  BY <1>1, <1>2, <1>3 DEF Acceptors, OneAcceptor, Live
<1> QED BY <1>5, <1>6, <1>7 DEF ListenerInv
-------------------------------------------------------------------------------
(* The owner's steps that leave the acceptors alone.                          *)

LEMMA OwnerKeeps ==
  ASSUME ListenerInv,
         \/ StartRefused \/ BindFails \/ SpawnFails \/ StopIdle \/ Unset
         \/ Join \/ JoinTimesOut
  PROVE  ListenerInv'
<1> USE DEF ListenerInv
<1>1. acceptor' = acceptor /\ listener' = listener /\ thread' = thread
  BY DEF StartRefused, BindFails, SpawnFails, StopIdle, Unset, Join, JoinTimesOut, Return
<1>2. Typed'
  <2>1. 0 \in Handles
    BY SMTT(60), ListenerAssumption DEF Handles
  <2> QED BY <1>1, <2>1 DEF Typed, StartRefused, BindFails, SpawnFails, StopIdle, Unset, Join,
        JoinTimesOut, Return
<1>3. Sockets'
  BY <1>1 DEF Typed, Sockets, NoOrphanListener, OpenListeners, Handles, Listeners,
        StartRefused, BindFails, SpawnFails, StopIdle, Unset, Join, JoinTimesOut, Return
<1>4. Acceptors'
  <2>1. server' = server \/ server' = 0
    BY DEF StartRefused, BindFails, SpawnFails, StopIdle, Unset, Join, JoinTimesOut
  <2> QED BY <1>1, <2>1 DEF Acceptors
<1>5. RunningAccepts'
  BY <1>1 DEF Sockets, Acceptors, RunningAccepts, Live,
        StartRefused, BindFails, SpawnFails, StopIdle, Unset, Join, JoinTimesOut, Return
<1>6. OneAcceptor'
  <2>1. CASE Unset
    BY <1>1, <2>1 DEF Sockets, OneAcceptor, Live, Unset
  <2>2. CASE Join
    <3>1. late' = late /\ server = 0 /\ owner = "join"
      BY <2>2 DEF Join, Return, Sockets
    <3>2. ASSUME NEW a \in Listeners, Live(a), ~late
          PROVE  FALSE
      <4>1. a = thread
        BY <3>2 DEF OneAcceptor
      <4>2. a # 0
        BY SMTT(60), ListenerAssumption DEF Listeners
      <4> QED BY <2>2, <3>2, <4>1, <4>2 DEF Join, Live
    <3> QED BY <1>1, <3>1, <3>2 DEF OneAcceptor, Live
  <2>3. CASE JoinTimesOut
    BY <2>3 DEF OneAcceptor, JoinTimesOut
  <2>4. CASE StartRefused \/ BindFails \/ SpawnFails \/ StopIdle
    <3>1. late' = late /\ server' = server /\ owner \notin {"close", "join"}
      BY <2>4 DEF StartRefused, BindFails, SpawnFails, StopIdle, Return
    <3> QED BY <1>1, <3>1 DEF OneAcceptor, Live
  <2> QED BY <2>1, <2>2, <2>3, <2>4
<1> QED BY <1>2, <1>3, <1>4, <1>5, <1>6

LEMMA BindKeeps ==
  ASSUME ListenerInv, NEW l \in Listeners, Bind(l)
  PROVE  ListenerInv'
<1> USE DEF ListenerInv
<1>1. /\ owner = "idle" /\ server = 0 /\ listener[l] = "none" /\ owner' = "spawn" /\ server' = l
      /\ thread' = thread /\ held' = held /\ late' = late /\ acceptor' = acceptor
      /\ listener' = [listener EXCEPT ![l] = "open"]
  BY DEF Bind
<1>2. l \in Handles /\ l # 0
  BY SMTT(60), ListenerAssumption DEF Listeners, Handles
<1>3. /\ listener' \in [Listeners -> {"none", "open", "closed"}] /\ listener'[l] = "open"
      /\ \A k \in Listeners : k # l => listener'[k] = listener[k]
  BY <1>1 DEF Typed
<1>4. Typed'
  BY <1>1, <1>2, <1>3 DEF Typed
<1>5. acceptor[l].at = "none"
  BY <1>1 DEF Acceptors
<1>6. Sockets'
  <2>1. \A k \in Listeners : listener[k] # "open"
    BY SMTT(60), <1>1, ListenerAssumption DEF Sockets, NoOrphanListener, OpenListeners, Listeners
  <2> QED BY <1>1, <1>2, <1>3, <1>5, <2>1 DEF Sockets, NoOrphanListener, OpenListeners
<1>7. Acceptors'
  BY <1>1, <1>3 DEF Acceptors
<1>8. RunningAccepts'
  BY <1>1 DEF RunningAccepts
<1>9. OneAcceptor'
  <2>1. ASSUME NEW a \in Listeners, Live(a), ~late
        PROVE  FALSE
    <3>1. a = thread /\ server = thread
      BY <1>1, <2>1 DEF OneAcceptor
    <3> QED BY SMTT(60), <1>1, <3>1, ListenerAssumption DEF Listeners
  <2> QED BY <1>1, <2>1 DEF OneAcceptor, Live
<1> QED BY <1>4, <1>6, <1>7, <1>8, <1>9

LEMMA SpawnKeeps ==
  ASSUME ListenerInv, Spawn
  PROVE  ListenerInv'
<1> USE DEF ListenerInv
<1>1. /\ owner = "spawn" /\ owner' = "idle" /\ server' = server /\ thread' = server
      /\ held' = held /\ late' = late /\ listener' = listener
      /\ acceptor' = [acceptor EXCEPT ![server].at = "top"]
  BY DEF Spawn, Return
<1>2. /\ server \in Listeners /\ server # 0 /\ acceptor[server].at = "none"
      /\ listener[server] = "open" /\ acceptor[server] \in AcceptorRecord
  BY SMTT(60), <1>1, ListenerAssumption DEF Typed, Sockets, Handles, Listeners
<1>3. /\ acceptor' \in [Listeners -> AcceptorRecord]
      /\ acceptor'[server].at = "top" /\ acceptor'[server].server = acceptor[server].server
      /\ \A a \in Listeners : a # server => acceptor'[a] = acceptor[a]
  BY <1>1, <1>2 DEF Typed, AcceptorRecord
<1>4. Typed'
  BY <1>1, <1>3 DEF Typed
<1>5. Sockets'
  BY <1>1, <1>2 DEF Sockets, NoOrphanListener, OpenListeners
<1>6. acceptor[server].server = 0
  BY <1>2 DEF Acceptors
<1>7. Acceptors'
  BY <1>1, <1>2, <1>3, <1>6 DEF Acceptors
<1>8. RunningAccepts'
  BY <1>1, <1>3, <1>6 DEF RunningAccepts, Live
<1>9. OneAcceptor'
  BY <1>1, <1>2, <1>3 DEF OneAcceptor, Live
<1> QED BY <1>4, <1>5, <1>7, <1>8, <1>9

LEMMA CloseKeeps ==
  ASSUME ListenerInv, Close
  PROVE  ListenerInv'
<1> USE DEF ListenerInv
<1>1. /\ owner = "close" /\ owner' = "join" /\ held' = 0 /\ server' = server /\ thread' = thread
      /\ late' = late /\ acceptor' = acceptor
      /\ listener' = [listener EXCEPT ![held] = "closed"]
  BY DEF Close
<1>2. held \in Listeners /\ listener[held] = "open" /\ server = 0
  BY SMTT(60), <1>1, ListenerAssumption DEF Typed, Sockets, Handles, Listeners
<1>3. /\ listener' \in [Listeners -> {"none", "open", "closed"}] /\ listener'[held] = "closed"
      /\ \A k \in Listeners : k # held => listener'[k] = listener[k]
  BY <1>1, <1>2 DEF Typed
<1>4. Typed'
  BY <1>1, <1>2, <1>3 DEF Typed
<1>5. Sockets'
  BY <1>1, <1>2, <1>3 DEF Sockets, NoOrphanListener, OpenListeners
<1>6. Acceptors'
  BY <1>1, <1>2, <1>3 DEF Acceptors
<1>7. RunningAccepts' /\ OneAcceptor'
  BY <1>1, <1>2 DEF RunningAccepts, OneAcceptor, Live
<1> QED BY <1>4, <1>5, <1>6, <1>7
-------------------------------------------------------------------------------
(* The acceptors' steps: acceptor a, which is at work, becomes r.             *)

Turns(a, r) ==
  /\ acceptor' = [acceptor EXCEPT ![a] = r]
  /\ UNCHANGED <<server, thread, held, calls, listener>>

LEMMA AcceptorKeeps ==
  ASSUME ListenerInv, NEW a \in Listeners, Live(a), NEW r \in AcceptorRecord, Turns(a, r),
         r.at # "none", r.at = "accept" <=> r.server # 0,
         r.server \in {0, server},
         r.at = "ended" => server # a
  PROVE  ListenerInv'
<1> USE DEF ListenerInv
<1>1. /\ server' = server /\ thread' = thread /\ held' = held /\ owner' = owner /\ late' = late
      /\ listener' = listener
  BY DEF Turns, calls
<1>2. /\ acceptor' \in [Listeners -> AcceptorRecord] /\ acceptor'[a] = r
      /\ \A b \in Listeners : b # a => acceptor'[b] = acceptor[b]
  BY DEF Turns, Typed
<1>3. Typed'
  BY <1>1, <1>2 DEF Typed
<1>4. acceptor[a].at # "none"
  BY DEF Live
<1>5. Sockets'
  <2>1. owner = "spawn" => server \in Listeners /\ server # a
    BY SMTT(60), <1>4, ListenerAssumption DEF Typed, Sockets, Handles, Listeners
  <2> QED BY <1>1, <1>2, <2>1 DEF Sockets, NoOrphanListener, OpenListeners
<1>6. Acceptors'
  <2>1. thread # 0 => thread \in Listeners
    BY SMTT(60), ListenerAssumption DEF Typed, Handles, Listeners
  <2>2. server # 0 => server \in Listeners
    BY SMTT(60), ListenerAssumption DEF Typed, Handles, Listeners
  <2> QED BY <1>1, <1>2, <1>4, <2>1, <2>2 DEF Acceptors
<1>7. RunningAccepts'
  <2>1. r.at \in {"top", "accept", "serve", "ended", "died"}
    BY DEF AcceptorRecord
  <2>2. server # 0 => server \in Listeners
    BY SMTT(60), ListenerAssumption DEF Typed, Handles, Listeners
  <2> QED BY <1>1, <1>2, <2>1, <2>2 DEF RunningAccepts, Live
<1>8. OneAcceptor'
  BY <1>1, <1>2 DEF OneAcceptor, Live
<1> QED BY <1>3, <1>5, <1>6, <1>7, <1>8

LEMMA TurnKeeps ==
  ASSUME ListenerInv, NEW a \in Listeners, Live(a),
         NEW at \in {"top", "accept", "serve", "ended", "died"}, NEW l \in Handles,
         NEW c \in Clients \cup {Nobody}, Turns(a, Acceptor(at, l, c)),
         at = "accept" <=> l # 0, l \in {0, server}, at = "ended" => server # a
  PROVE  ListenerInv'
<1> DEFINE r == Acceptor(at, l, c)
<1>1. r \in AcceptorRecord /\ r.at = at /\ r.server = l
  BY DEF Acceptor, AcceptorRecord
<1> HIDE DEF r
<1>2. Turns(a, r)
  BY DEF r
<1> QED BY <1>1, <1>2, AcceptorKeeps

LEMMA LoopKeeps ==
  ASSUME ListenerInv, NEW a \in Listeners, AcceptLoop(a) \/ AcceptorDies(a)
  PROVE  ListenerInv'
<1>1. Live(a)
  BY DEF AcceptLoop, AcceptorDies, ReadServer, AcceptClosed, Serve, Accept, Live
<1>2. 0 \in Handles /\ server \in Handles
  BY SMTT(60), ListenerAssumption DEF ListenerInv, Typed, Handles
<1>3. CASE ReadServer(a)
  <2>1. CASE server = 0
    <3>1. Turns(a, Acceptor("ended", 0, Nobody))
      BY <1>3, <2>1 DEF ReadServer, Turns
    <3>2. server # a
      BY SMTT(60), <2>1, ListenerAssumption DEF Listeners
    <3> QED BY <1>1, <1>2, <3>1, <3>2, TurnKeeps
  <2>2. CASE server # 0
    <3>1. Turns(a, Acceptor("accept", server, Nobody))
      BY <1>3, <2>2 DEF ReadServer, Turns
    <3> QED BY <1>1, <1>2, <2>2, <3>1, TurnKeeps
  <2> QED BY <2>1, <2>2
<1>4. CASE AcceptClosed(a)
  <2>1. server # a
    <3>1. SUFFICES ASSUME server = a PROVE FALSE
      OBVIOUS
    <3>2. acceptor[a].at = "accept" /\ acceptor[a].server # 0
      BY <1>4 DEF AcceptClosed, ListenerInv, Acceptors
    <3>3. server # 0 /\ owner # "spawn" /\ listener[server] = "open"
      BY SMTT(60), <3>1, <3>2, ListenerAssumption DEF ListenerInv, Sockets, Listeners
    <3>4. thread = server
      BY <3>1, <3>2, <3>3 DEF ListenerInv, Acceptors
    <3> QED BY <1>4, <3>1, <3>2, <3>3, <3>4 DEF AcceptClosed, ListenerInv, RunningAccepts
  <2>2. Turns(a, Acceptor("ended", 0, Nobody))
    BY <1>4 DEF AcceptClosed, Turns
  <2> QED BY <1>1, <1>2, <2>1, <2>2, TurnKeeps
<1>5. CASE Serve(a)
  <2>1. Turns(a, Acceptor("top", 0, Nobody))
    BY <1>5 DEF Serve, Turns
  <2> QED BY <1>1, <1>2, <2>1, TurnKeeps
<1>6. ASSUME NEW c \in Clients, Accept(a, c)
      PROVE  ListenerInv'
  <2>1. Turns(a, Acceptor("serve", 0, c))
    BY <1>6 DEF Accept, Turns
  <2> QED BY <1>1, <1>2, <1>6, <2>1, TurnKeeps
<1>7. CASE AcceptorDies(a)
  <2>1. Turns(a, Acceptor("died", 0, Nobody))
    BY <1>7 DEF AcceptorDies, Turns
  <2> QED BY <1>1, <1>2, <2>1, TurnKeeps
<1> QED BY <1>3, <1>4, <1>5, <1>6, <1>7 DEF AcceptLoop

LEMMA ListenerInvariant == Spec => []ListenerInv
<1>1. Init => ListenerInv
  BY InitEstablishes
<1>2. ListenerInv /\ [Next]_vars => ListenerInv'
  <2> SUFFICES ASSUME ListenerInv, [Next]_vars PROVE ListenerInv'
    OBVIOUS
  <2>1. CASE Start
    BY <2>1, OwnerKeeps, BindKeeps, SpawnKeeps DEF Start
  <2>2. CASE Stop
    BY <2>2, OwnerKeeps, CloseKeeps DEF Stop
  <2>3. ASSUME NEW a \in Listeners, AcceptLoop(a) \/ AcceptorDies(a)
        PROVE  ListenerInv'
    BY <2>3, LoopKeeps
  <2>4. CASE (\E c \in Clients : Connect(c) \/ Refused(c)) \/ UNCHANGED vars
    <3>1. /\ server' = server /\ thread' = thread /\ held' = held /\ owner' = owner
          /\ late' = late /\ listener' = listener /\ acceptor' = acceptor
      BY <2>4 DEF Connect, Refused, vars, calls
    <3> QED BY <3>1 DEF ListenerInv, Typed, Sockets, NoOrphanListener, OpenListeners, Acceptors,
          RunningAccepts, OneAcceptor, Live
  <2> QED BY <2>1, <2>2, <2>3, <2>4 DEF Next
<1> QED BY <1>1, <1>2, PTL DEF Spec

\* No listening socket is orphaned, for any number of starts and stops (start's
\* `already started` check and the order of stop's statements).
THEOREM NoListenerOrphaned == Spec => []NoOrphanListener
<1>1. ListenerInv => NoOrphanListener
  BY DEF ListenerInv, Sockets
<1> QED BY <1>1, ListenerInvariant, PTL

\* running? means somebody accepts, whatever acceptors of earlier listeners still do,
\* those whose join timed out included (accept_loop).
THEOREM RunningMeansAccepting == Spec => []RunningAccepts
<1>1. ListenerInv => RunningAccepts
  BY DEF ListenerInv
<1> QED BY <1>1, ListenerInvariant, PTL

\* stop leaves no acceptor at work unless a join timed out, for any number of restarts
\* (stop's join).
THEOREM StopQuietens == Spec => []QuietAfterStop
<1>1. ListenerInv => QuietAfterStop
  <2> SUFFICES ASSUME ListenerInv, owner = "idle", server = 0, ~late, NEW a \in Listeners, Live(a)
               PROVE  FALSE
    BY DEF QuietAfterStop
  <2>1. a = thread /\ server = thread
    BY DEF ListenerInv, OneAcceptor
  <2> QED BY SMTT(60), <2>1, ListenerAssumption DEF Listeners
<1> QED BY <1>1, ListenerInvariant, PTL
-------------------------------------------------------------------------------
(* SecureBytes.                                                                *)

Statement == {"unless cleared raise", "dup", "unless cleared", "zero", "unset", "flag",
              "unless cleared size", "size"}

Methods == {"bytes", "take", "clear", "length"}

\* The statements of a method, the one it ends with, and which follows which.
Body(m) ==
  CASE m = "bytes" -> {"unless cleared raise", "dup"}
    [] m = "take" -> {"unless cleared raise", "dup", "unless cleared", "zero", "unset", "flag"}
    [] m = "clear" -> {"unless cleared", "zero", "unset", "flag"}
    [] m = "length" -> {"unless cleared size", "size"}

EndOf(m) == CASE m = "bytes" -> "dup" [] m = "length" -> "size" [] OTHER -> "flag"

Follows(a, b) ==
  \/ a = "unless cleared raise" /\ b = "dup"
  \/ a = "dup" /\ b = "unless cleared"
  \/ a = "unless cleared" /\ b = "zero"
  \/ a = "zero" /\ b = "unset"
  \/ a = "unset" /\ b = "flag"
  \/ a = "unless cleared size" /\ b = "size"

\* What may be left of method m.
Left(m, s) ==
  /\ s \in Seq(Statement) /\ s # <<>>
  /\ s[1] \in Body(m) /\ s[Len(s)] = EndOf(m)
  /\ \A i \in 2 .. Len(s) : Follows(s[i - 1], s[i])

LEMMA Positions ==
  /\ 4 # 0 /\ 6 # 0
  /\ \A n \in Nat : n # 0 /\ n # 1 => n > 1
  /\ \A i \in 2 .. 4 : \/ (i = 2 /\ i - 1 = 1) \/ (i = 3 /\ i - 1 = 2) \/ (i = 4 /\ i - 1 = 3)
  /\ \A i \in 2 .. 6 : \/ (i = 2 /\ i - 1 = 1) \/ (i = 3 /\ i - 1 = 2) \/ (i = 4 /\ i - 1 = 3)
                       \/ (i = 5 /\ i - 1 = 4) \/ (i = 6 /\ i - 1 = 5)
<1>1. \A n \in Nat : n # 0 /\ n # 1 => n > 1
  OBVIOUS
<1>2. ASSUME NEW i \in 2 .. 4
      PROVE  \/ (i = 2 /\ i - 1 = 1) \/ (i = 3 /\ i - 1 = 2) \/ (i = 4 /\ i - 1 = 3)
  OBVIOUS
<1>3. ASSUME NEW i \in 2 .. 6
      PROVE  \/ (i = 2 /\ i - 1 = 1) \/ (i = 3 /\ i - 1 = 2) \/ (i = 4 /\ i - 1 = 3)
             \/ (i = 5 /\ i - 1 = 4) \/ (i = 6 /\ i - 1 = 5)
  OBVIOUS
<1>4. 4 # 0 /\ 6 # 0
  OBVIOUS
<1> QED BY <1>1, <1>2, <1>3, <1>4, Zenon

LEMMA NonEmpty ==
  ASSUME NEW s \in Seq(Statement)
  PROVE  /\ Len(s) \in Nat
         /\ s # <<>> <=> Len(s) # 0
         /\ s # <<>> => Head(s) = s[1]
<1>1. s = <<>> => Len(s) = 0
  OBVIOUS
<1>2. s # <<>> => Len(s) # 0
  OBVIOUS
<1>3. Len(s) \in Nat /\ (s # <<>> => Head(s) = s[1])
  OBVIOUS
<1> QED BY <1>1, <1>2, <1>3, Zenon

LEMMA TailOf ==
  ASSUME NEW s \in Seq(Statement), s # <<>>, Len(s) # 1
  PROVE  /\ Tail(s) \in Seq(Statement) /\ Tail(s) # <<>> /\ Len(Tail(s)) = Len(s) - 1
         /\ Head(s) = s[1] /\ Head(Tail(s)) = s[2] /\ Tail(s)[1] = s[2]
         /\ Tail(s)[Len(Tail(s))] = s[Len(s)]
         /\ 2 \in 2 .. Len(s) /\ 2 - 1 = 1
         /\ \A i \in 2 .. Len(Tail(s)) :
              /\ i + 1 \in 2 .. Len(s) /\ (i + 1) - 1 = i
              /\ Tail(s)[i] = s[i + 1] /\ Tail(s)[i - 1] = s[i]
<1>1. Len(s) \in Nat /\ Len(s) > 1
  <2>1. Len(s) \in Nat /\ Len(s) # 0 /\ Len(s) # 1
    BY NonEmpty, Zenon
  <2> QED BY <2>1, Positions, Zenon
<1>2. /\ Tail(s) \in Seq(Statement) /\ Len(Tail(s)) = Len(s) - 1 /\ Head(s) = s[1]
      /\ \A i \in 1 .. Len(s) - 1 : Tail(s)[i] = s[i + 1]
  BY SMTT(60), <1>1
<1>3. Tail(s) # <<>> /\ Head(Tail(s)) = Tail(s)[1]
  <2>1. Len(Tail(s)) # 0
    BY SMTT(60), <1>1, <1>2
  <2> QED BY <1>2, <2>1, NonEmpty, Zenon
<1>4. 1 \in 1 .. Len(s) - 1 /\ 1 + 1 = 2
  BY SMTT(60), <1>1
<1>5. Len(s) - 1 \in 1 .. Len(s) - 1 /\ (Len(s) - 1) + 1 = Len(s)
  BY SMTT(60), <1>1
<1>6. Tail(s)[1] = s[2] /\ Tail(s)[Len(Tail(s))] = s[Len(s)]
  <2>1. Tail(s)[1] = s[1 + 1] /\ Tail(s)[Len(s) - 1] = s[(Len(s) - 1) + 1]
    BY <1>2, <1>4, <1>5
  <2> QED BY <1>2, <1>4, <1>5, <2>1
<1>7. ASSUME NEW i \in 2 .. Len(Tail(s))
      PROVE  /\ i + 1 \in 2 .. Len(s) /\ (i + 1) - 1 = i
             /\ Tail(s)[i] = s[i + 1] /\ Tail(s)[i - 1] = s[i]
  <2>1. /\ i + 1 \in 2 .. Len(s) /\ (i + 1) - 1 = i /\ (i - 1) + 1 = i
        /\ i \in 1 .. Len(s) - 1 /\ i - 1 \in 1 .. Len(s) - 1
    BY SMTT(60), <1>1, <1>2
  <2>2. Tail(s)[i] = s[i + 1] /\ Tail(s)[i - 1] = s[(i - 1) + 1]
    BY <1>2, <2>1
  <2> QED BY <2>1, <2>2
<1> QED BY SMTT(60), <1>1, <1>2, <1>3, <1>6, <1>7

LEMMA TailFacts ==
  ASSUME NEW m \in Methods, NEW s, Left(m, s), Head(s) # EndOf(m)
  PROVE  Left(m, Tail(s)) /\ Follows(Head(s), Head(Tail(s)))
<1>1. s \in Seq(Statement) /\ s # <<>>
  BY DEF Left
<1>2. Head(s) = s[1]
  BY SMTT(60), <1>1
<1>3. Len(s) # 1
  BY <1>2 DEF Left
<1>4. /\ Tail(s) \in Seq(Statement) /\ Tail(s) # <<>> /\ Head(Tail(s)) = s[2] /\ Tail(s)[1] = s[2]
      /\ Tail(s)[Len(Tail(s))] = s[Len(s)]
      /\ 2 \in 2 .. Len(s) /\ 2 - 1 = 1
      /\ \A i \in 2 .. Len(Tail(s)) :
           /\ i + 1 \in 2 .. Len(s) /\ (i + 1) - 1 = i
           /\ Tail(s)[i] = s[i + 1] /\ Tail(s)[i - 1] = s[i]
  BY <1>1, <1>3, TailOf, Zenon
<1>5. \A i \in 2 .. Len(s) : Follows(s[i - 1], s[i])
  BY  DEF Left
<1>6. Follows(s[1], s[2])
  BY <1>4, <1>5, Zenon
<1>7. \A i \in 2 .. Len(Tail(s)) : Follows(Tail(s)[i - 1], Tail(s)[i])
  BY <1>4, <1>5, Zenon
<1>8. s[2] \in Body(m)
  <2>1. s[1] \in Body(m) /\ s[1] # EndOf(m)
    BY <1>2 DEF Left
  <2> QED BY <1>6, <2>1 DEF Methods, Body, EndOf, Follows
<1>9. s[Len(s)] = EndOf(m)
  BY DEF Left
<1> QED BY <1>2, <1>4, <1>6, <1>7, <1>8, <1>9, Zenon DEF Left

\* Each statement belongs to its methods and goes on to the one after it.
GoesOn(m, s, statement) == Left(m, Tail(s)) /\ Head(Tail(s)) = statement

InOrder(m, s) ==
  /\ Head(s) = "unless cleared raise" => m \in {"bytes", "take"} /\ GoesOn(m, s, "dup")
  /\ Head(s) = "dup" => m = "bytes" \/ (m = "take" /\ GoesOn(m, s, "unless cleared"))
  /\ Head(s) = "unless cleared size" => m = "length" /\ GoesOn(m, s, "size")
  /\ Head(s) = "size" => m = "length"
  /\ Head(s) = "unless cleared" => m \in {"take", "clear"} /\ GoesOn(m, s, "zero")
  /\ Head(s) = "zero" => m \in {"take", "clear"} /\ GoesOn(m, s, "unset")
  /\ Head(s) = "unset" => m \in {"take", "clear"} /\ GoesOn(m, s, "flag")
  /\ Head(s) = "flag" => m \in {"take", "clear"}

LEMMA Proceeds ==
  ASSUME NEW m \in Methods, NEW s, Left(m, s)
  PROVE  InOrder(m, s)
<1> DEFINE h == Head(s)
<1>1. h \in Body(m)
  BY NonEmpty DEF Left
<1>2. h # EndOf(m) => \E b : Follows(h, b) /\ GoesOn(m, s, b)
  BY TailFacts DEF GoesOn
<1> HIDE DEF h
<1> USE <1>1, <1>2 DEF Body, EndOf, Follows
<1>3. CASE m = "bytes"
  BY <1>3 DEF InOrder, h
<1>4. CASE m = "take"
  BY <1>4 DEF InOrder, h
<1>5. CASE m = "clear"
  BY <1>5 DEF InOrder, h
<1>6. CASE m = "length"
  BY <1>6 DEF InOrder, h
<1> QED BY <1>3, <1>4, <1>5, <1>6 DEF Methods

LEMMA OfTwo ==
  ASSUME NEW m, NEW s \in Seq(Statement), Len(s) = 2,
         s[1] \in Body(m), s[2] = EndOf(m), Follows(s[1], s[2])
  PROVE  Left(m, s) /\ Head(s) = s[1]
<1>1. \A i \in 2 .. 2 : i = 2 /\ i - 1 = 1
  OBVIOUS
<1>2. \A i \in 2 .. 2 : Follows(s[i - 1], s[i])
  BY <1>1, Zenon
<1>3. s # <<>> /\ Head(s) = s[1]
  BY SMTT(60), NonEmpty
<1> QED BY <1>2, <1>3, Zenon DEF Left

LEMMA Beginnings ==
  ASSUME NEW m \in DOMAIN Statements
  PROVE  /\ m \in Methods /\ Left(m, Statements[m])
         /\ m \in {"bytes", "take"} => Head(Statements[m]) = "unless cleared raise"
         /\ m = "clear" => Head(Statements[m]) = "unless cleared"
         /\ m = "length" => Head(Statements[m]) = "unless cleared size"
<1> DEFINE bytes == <<"unless cleared raise", "dup">>
           take == <<"unless cleared raise", "dup", "unless cleared", "zero", "unset", "flag">>
           clear == <<"unless cleared", "zero", "unset", "flag">>
           length == <<"unless cleared size", "size">>
<1>1. m \in Methods
  BY DEF Statements, Methods
<1>2. /\ Statements["bytes"] = bytes /\ Statements["take"] = take
      /\ Statements["clear"] = clear /\ Statements["length"] = length
  BY DEF Statements
<1>3. /\ bytes \in Seq(Statement) /\ Len(bytes) = 2
      /\ bytes[1] = "unless cleared raise" /\ bytes[2] = "dup"
  BY SMTT(60) DEF Statement
<1>4. /\ clear \in Seq(Statement) /\ Len(clear) = 4
      /\ clear[1] = "unless cleared" /\ clear[2] = "zero"
      /\ clear[3] = "unset" /\ clear[4] = "flag"
  BY SMTT(60) DEF Statement
<1>5. /\ length \in Seq(Statement) /\ Len(length) = 2
      /\ length[1] = "unless cleared size" /\ length[2] = "size"
  BY SMTT(60) DEF Statement
<1>6. /\ take \in Seq(Statement) /\ Len(take) = 6
      /\ take[1] = "unless cleared raise" /\ take[2] = "dup"
      /\ take[3] = "unless cleared" /\ take[4] = "zero"
      /\ take[5] = "unset" /\ take[6] = "flag"
  BY SMTT(60) DEF Statement
<1> HIDE DEF bytes, take, clear, length
<1>7. Left("bytes", bytes) /\ Head(bytes) = bytes[1]
  <2>1. Follows(bytes[1], bytes[2]) /\ bytes[1] \in Body("bytes") /\ bytes[2] = EndOf("bytes")
    BY <1>3 DEF Follows, Body, EndOf
  <2> QED BY <1>3, <2>1, OfTwo, Zenon
<1>8. Left("length", length) /\ Head(length) = length[1]
  <2>1. Follows(length[1], length[2]) /\ length[1] \in Body("length") /\ length[2] = EndOf("length")
    BY <1>5 DEF Follows, Body, EndOf
  <2> QED BY <1>5, <2>1, OfTwo, Zenon
<1>9. /\ Follows(clear[1], clear[2]) /\ Follows(clear[2], clear[3])
      /\ Follows(clear[3], clear[4])
  BY <1>4 DEF Follows
<1>10. Left("clear", clear) /\ Head(clear) = clear[1]
  <2>1. clear[1] \in Body("clear") /\ clear[4] = EndOf("clear")
    BY <1>4 DEF Body, EndOf
  <2>3. \A i \in 2 .. 4 : Follows(clear[i - 1], clear[i])
    BY <1>9, Positions, Zenon
  <2>4. clear # <<>> /\ Head(clear) = clear[1]
    BY <1>4, NonEmpty, Positions, Zenon
  <2> QED BY <1>4, <2>1, <2>3, <2>4, Zenon DEF Left
<1>11. Left("take", take) /\ Head(take) = take[1]
  <2>1. take[1] \in Body("take") /\ take[6] = EndOf("take")
    BY <1>6 DEF Body, EndOf
  <2>3. /\ Follows(take[1], take[2]) /\ Follows(take[2], take[3]) /\ Follows(take[3], take[4])
        /\ Follows(take[4], take[5]) /\ Follows(take[5], take[6])
    BY <1>6 DEF Follows
  <2>4. \A i \in 2 .. 6 : Follows(take[i - 1], take[i])
    BY <2>3, Positions, Zenon
  <2>5. take # <<>> /\ Head(take) = take[1]
    BY <1>6, NonEmpty, Positions, Zenon
  <2> QED BY <1>6, <2>1, <2>4, <2>5, Zenon DEF Left
<1> QED BY <1>1, <1>2, <1>3, <1>4, <1>5, <1>6, <1>7, <1>8, <1>10, <1>11 DEF Methods
-------------------------------------------------------------------------------
\* Nobody has begun to clear the object, or it is cleared.
Whole == cleared \/ (buffer /\ memory = "secret")

Copied(t) == call[t] = "take" => copy[t] = "secret"

\* What a call that has been alone so far finds when its next statement runs.
Finds(t, statement) ==
  /\ statement \in {"unless cleared raise", "unless cleared size"} => Whole
  /\ statement = "dup" => buffer /\ memory = "secret"
  /\ statement = "size" => buffer
  /\ statement = "unless cleared" => Copied(t) /\ (cleared \/ buffer)
  /\ statement = "zero" => Copied(t) /\ buffer
  /\ statement \in {"unset", "flag"} => Copied(t)

\* What such a call returns.
Returns(t) ==
  /\ call[t] \in {"bytes", "take"} => out[t] \in {"secret", "ClearedError"}
  /\ call[t] = "clear" => out[t] = "self" /\ cleared
  /\ call[t] = "length" => out[t] \in {"size", "0"}

\* A thread about to drop the reference, or to set the flag, is past the step before.
Progress(t) ==
  Running(t) => /\ call[t] \in Methods /\ Left(call[t], todo[t])
                /\ Head(todo[t]) = "unset" => memory = "zeros"
                /\ Head(todo[t]) = "flag" => ~buffer

Alone(t) == alone[t] => IF Running(t) THEN Finds(t, Head(todo[t])) ELSE Returns(t)

\* A step on the way to cleared that has been taken was taken by a thread that is about
\* to take the next.
HalfCleared ==
  /\ memory = "zeros" => ~buffer \/ \E t \in Threads : At(t, "unset")
  /\ ~buffer => cleared \/ \E t \in Threads : At(t, "flag")

BufferTyped ==
  /\ memory \in {"secret", "zeros"} /\ buffer \in BOOLEAN /\ cleared \in BOOLEAN
  /\ DOMAIN todo = Threads /\ DOMAIN call = Threads /\ DOMAIN out = Threads
  /\ DOMAIN copy = Threads /\ DOMAIN alone = Threads

BufferInv ==
  /\ BufferTyped
  /\ ~buffer => memory = "zeros"
  /\ cleared => ~buffer
  /\ HalfCleared
  /\ object # "held" => \A t \in Threads : ~Running(t)
  /\ \A t \in Threads : Progress(t) /\ Alone(t)

LEMMA Going ==
  ASSUME BufferTyped, NEW t \in Threads, Go(t)
  PROVE  /\ todo'[t] = Tail(todo[t]) /\ out' = out /\ DOMAIN todo' = Threads
         /\ \A u \in Threads \ {t} : todo'[u] = todo[u]
BY DEF Go, BufferTyped

LEMMA Ending ==
  ASSUME BufferTyped, NEW t \in Threads, NEW r, Finish(t, r)
  PROVE  /\ todo'[t] = <<>> /\ out'[t] = r
         /\ DOMAIN todo' = Threads /\ DOMAIN out' = Threads
         /\ \A u \in Threads \ {t} : todo'[u] = todo[u] /\ out'[u] = out[u]
BY DEF Finish, BufferTyped

\* A thread that goes on is at the statement after, and has finished nothing.
LEMMA AtNext ==
  ASSUME BufferInv, NEW t \in Threads, Running(t), Go(t), call' = call,
         Left(call[t], Tail(todo[t]))
  PROVE  /\ Running(t)' /\ Left(call[t], todo[t])'
         /\ Head(todo'[t]) = Head(Tail(todo[t])) /\ call'[t] \in Methods
<1>1. todo'[t] = Tail(todo[t])
  BY Going DEF BufferInv
<1>2. call[t] \in Methods
  BY DEF BufferInv, Progress
<1>3. Left(call[t], todo[t])'
  BY <1>1
<1>4. Running(t)'
  BY <1>3 DEF Left, Running
<1> QED BY <1>1, <1>2, <1>3, <1>4

\* What the other threads rely on outlives a step of t: they are alone only as long as
\* nothing is written.
LEMMA StepKeeps ==
  ASSUME BufferInv, NEW t \in Threads, Running(t), call' = call, object' = object,
         BufferTyped', HalfCleared', Progress(t)', Alone(t)',
         \A u \in Threads \ {t} : /\ todo'[u] = todo[u] /\ out'[u] = out[u]
                                  /\ copy'[u] = copy[u] /\ (alone'[u] => alone[u]),
         memory = "zeros" => memory' = "zeros", ~buffer => ~buffer', cleared => cleared',
         ~buffer' => memory' = "zeros", cleared' => ~buffer',
         \/ memory' = memory /\ buffer' = buffer /\ cleared' = cleared
         \/ \A u \in Threads \ {t} : alone'[u] => ~Running(u)
  PROVE  BufferInv'
<1>1. object' = "held"
  BY DEF BufferInv
<1>2. ASSUME NEW u \in Threads, u # t
      PROVE  Progress(u)' /\ Alone(u)'
  <2>1. /\ todo'[u] = todo[u] /\ out'[u] = out[u] /\ copy'[u] = copy[u]
        /\ call'[u] = call[u] /\ (alone'[u] => alone[u]) /\ (Running(u)' <=> Running(u))
    BY <1>2 DEF Running
  <2>2. Progress(u) /\ Alone(u)
    BY DEF BufferInv
  <2>3. Progress(u)'
    BY <2>1, <2>2 DEF Progress
  <2>4. Alone(u)'
    <3> SUFFICES ASSUME alone'[u] PROVE Alone(u)'
      BY DEF Alone
    <3>1. CASE Running(u)
      <4>1. memory' = memory /\ buffer' = buffer /\ cleared' = cleared
        BY <1>2, <3>1
      <4> QED BY <2>1, <2>2, <3>1, <4>1 DEF Alone, Finds, Copied, Whole
    <3>2. CASE ~Running(u)
      BY <2>1, <2>2, <3>2 DEF Alone, Returns
    <3> QED BY <3>1, <3>2
  <2> QED BY <2>3, <2>4
<1> QED BY <1>1, <1>2 DEF BufferInv

\* A step that writes nothing, of a thread that is not about to drop the reference or to
\* set the flag.
LEMMA ReadKeeps ==
  ASSUME BufferInv, NEW t \in Threads, Running(t), Head(todo[t]) \notin {"unset", "flag"},
         UNCHANGED <<state, call, alone, object>>,
         DOMAIN todo' = Threads, DOMAIN out' = Threads, DOMAIN copy' = Threads,
         \A u \in Threads \ {t} : /\ todo'[u] = todo[u] /\ out'[u] = out[u]
                                  /\ copy'[u] = copy[u],
         Progress(t)', Alone(t)'
  PROVE  BufferInv'
<1>1. /\ memory' = memory /\ buffer' = buffer /\ cleared' = cleared
      /\ call' = call /\ alone' = alone /\ object' = object
  BY DEF state
<1>2. BufferTyped'
  BY <1>1 DEF BufferInv, BufferTyped
<1>3. \A u \in Threads, h \in {"unset", "flag"} : At(u, h) => At(u, h)'
  BY DEF At, Running
<1>4. HalfCleared'
  <2>1. HalfCleared
    BY DEF BufferInv
  <2> QED BY <1>1, <1>3, <2>1, Zenon DEF HalfCleared
<1>5. /\ ~buffer => memory = "zeros"
      /\ cleared => ~buffer
  BY DEF BufferInv
<1> QED BY <1>1, <1>2, <1>4, <1>5, StepKeeps

\* What a call that ends alone must answer.
Answers(t, r) ==
  /\ call[t] \in {"bytes", "take"} => r \in {"secret", "ClearedError"}
  /\ call[t] = "clear" => r = "self" /\ cleared
  /\ call[t] = "length" => r \in {"size", "0"}

LEMMA EndKeeps ==
  ASSUME BufferInv, NEW t \in Threads, Running(t), Head(todo[t]) \notin {"unset", "flag"},
         UNCHANGED <<state, call, copy, alone, object>>,
         NEW r, Finish(t, r), alone[t] => Answers(t, r)
  PROVE  BufferInv'
<1>1. /\ cleared' = cleared /\ call' = call /\ copy' = copy /\ alone' = alone
  BY DEF state
<1>2. /\ todo'[t] = <<>> /\ out'[t] = r
      /\ DOMAIN todo' = Threads /\ DOMAIN out' = Threads
      /\ \A u \in Threads \ {t} : todo'[u] = todo[u] /\ out'[u] = out[u]
  BY Ending DEF BufferInv
<1>3. ~Running(t)'
  BY <1>2 DEF Running
<1>4. Progress(t)' /\ Alone(t)'
  BY <1>1, <1>2, <1>3 DEF Progress, Alone, Returns, Answers
<1> QED BY <1>1, <1>2, <1>4, ReadKeeps DEF BufferInv, BufferTyped

LEMMA GoKeeps ==
  ASSUME BufferInv, NEW t \in Threads, Running(t), Head(todo[t]) \notin {"unset", "flag"},
         UNCHANGED <<state, call, copy, alone, object>>, Go(t),
         NEW h \in {"dup", "size", "zero"},
         Left(call[t], Tail(todo[t])), Head(Tail(todo[t])) = h, alone[t] => Finds(t, h)
  PROVE  BufferInv'
<1>1. /\ memory' = memory /\ buffer' = buffer /\ cleared' = cleared
      /\ call' = call /\ copy' = copy /\ alone' = alone
  BY DEF state
<1>2. /\ out' = out /\ DOMAIN todo' = Threads
      /\ \A u \in Threads \ {t} : todo'[u] = todo[u]
  BY Going DEF BufferInv
<1>3. /\ Running(t)' /\ Left(call[t], todo[t])'
      /\ Head(todo'[t]) = h /\ call'[t] \in Methods
  BY <1>1, AtNext
<1>4. Progress(t)'
  BY <1>1, <1>3 DEF Progress
<1>5. Alone(t)'
  BY <1>1, <1>3 DEF Alone, Finds, Whole, Copied
<1> QED BY <1>1, <1>2, <1>4, <1>5, ReadKeeps DEF BufferInv, BufferTyped

\* What the invariant says of a thread at a statement.
LEMMA Stands ==
  ASSUME BufferInv, NEW t \in Threads, NEW h, At(t, h)
  PROVE  /\ Running(t) /\ Head(todo[t]) = h
         /\ call[t] \in Methods /\ InOrder(call[t], todo[t])
         /\ alone[t] => Finds(t, h)
         /\ h = "unset" => memory = "zeros"
         /\ h = "flag" => ~buffer
<1>1. /\ Running(t) /\ Head(todo[t]) = h /\ Progress(t) /\ Alone(t)
  BY DEF BufferInv, At
<1>2. InOrder(call[t], todo[t])
  BY <1>1, Proceeds DEF Progress
<1> QED BY <1>1, <1>2 DEF Progress, Alone

LEMMA ReadsKeep ==
  ASSUME BufferInv, NEW t \in Threads,
         RaiseIfCleared(t) \/ Length(t) \/ Size(t) \/ ReturnIfCleared(t)
  PROVE  BufferInv'
<1>1. CASE RaiseIfCleared(t)
  <2>1. /\ At(t, "unless cleared raise") /\ UNCHANGED <<state, call, copy, alone, object>>
        /\ IF cleared THEN Finish(t, "ClearedError") ELSE Go(t)
    BY <1>1 DEF RaiseIfCleared
  <2> /\ Running(t) /\ Head(todo[t]) = "unless cleared raise"
      /\ call[t] \in Methods /\ InOrder(call[t], todo[t]) /\ (alone[t] => Finds(t, "unless cleared raise"))
    BY <2>1, Stands, Zenon
  <2> Head(todo[t]) \notin {"unset", "flag"}
    OBVIOUS
  <2>2. /\ call[t] \in {"bytes", "take"} /\ Left(call[t], Tail(todo[t]))
        /\ Head(Tail(todo[t])) = "dup"
    BY DEF InOrder, GoesOn
  <2>3. CASE cleared
    BY <2>1, <2>2, <2>3, EndKeeps DEF Answers
  <2>4. CASE ~cleared
    <3>1. alone[t] => Finds(t, "dup")
      BY <2>4 DEF Finds, Whole
    <3> QED BY <2>1, <2>2, <2>4, <3>1, GoKeeps
  <2> QED BY <2>3, <2>4
<1>2. CASE Length(t)
  <2>1. /\ At(t, "unless cleared size") /\ UNCHANGED <<state, call, copy, alone, object>>
        /\ IF cleared THEN Finish(t, "0") ELSE Go(t)
    BY <1>2 DEF Length
  <2> /\ Running(t) /\ Head(todo[t]) = "unless cleared size"
      /\ call[t] \in Methods /\ InOrder(call[t], todo[t]) /\ (alone[t] => Finds(t, "unless cleared size"))
    BY <2>1, Stands, Zenon
  <2> Head(todo[t]) \notin {"unset", "flag"}
    OBVIOUS
  <2>2. /\ call[t] = "length" /\ Left(call[t], Tail(todo[t]))
        /\ Head(Tail(todo[t])) = "size"
    BY DEF InOrder, GoesOn
  <2>3. CASE cleared
    <3>1. Answers(t, "0")
      BY <2>2 DEF Answers
    <3> QED BY <2>1, <2>3, <3>1, EndKeeps
  <2>4. CASE ~cleared
    <3>1. alone[t] => Finds(t, "size")
      BY <2>4 DEF Finds, Whole
    <3> QED BY <2>1, <2>2, <2>4, <3>1, GoKeeps
  <2> QED BY <2>3, <2>4
<1>3. CASE Size(t)
  <2>1. /\ At(t, "size") /\ UNCHANGED <<state, call, copy, alone, object>>
        /\ Finish(t, IF buffer THEN "size" ELSE "NoMethodError")
    BY <1>3 DEF Size
  <2> /\ Running(t) /\ Head(todo[t]) = "size"
      /\ call[t] \in Methods /\ InOrder(call[t], todo[t]) /\ (alone[t] => Finds(t, "size"))
    BY <2>1, Stands, Zenon
  <2> Head(todo[t]) \notin {"unset", "flag"}
    OBVIOUS
  <2>2. call[t] = "length"
    BY DEF InOrder, GoesOn
  <2>3. alone[t] => buffer
    BY DEF Finds
  <2>4. alone[t] => Answers(t, IF buffer THEN "size" ELSE "NoMethodError")
    BY <2>2, <2>3 DEF Answers
  <2> QED BY <2>1, <2>4, EndKeeps
<1>4. CASE ReturnIfCleared(t)
  <2>1. /\ At(t, "unless cleared") /\ UNCHANGED <<state, call, copy, alone, object>>
        /\ IF cleared THEN Finish(t, Result(t)) ELSE Go(t)
    BY <1>4 DEF ReturnIfCleared
  <2> /\ Running(t) /\ Head(todo[t]) = "unless cleared"
      /\ call[t] \in Methods /\ InOrder(call[t], todo[t]) /\ (alone[t] => Finds(t, "unless cleared"))
    BY <2>1, Stands, Zenon
  <2> Head(todo[t]) \notin {"unset", "flag"}
    OBVIOUS
  <2>2. /\ call[t] \in {"take", "clear"} /\ Left(call[t], Tail(todo[t]))
        /\ Head(Tail(todo[t])) = "zero"
    BY DEF InOrder, GoesOn
  <2>3. alone[t] => Copied(t) /\ (cleared \/ buffer)
    BY DEF Finds
  <2>4. CASE cleared
    <3>1. alone[t] => Answers(t, Result(t))
      BY <2>2, <2>3, <2>4 DEF Answers, Result, Copied
    <3> QED BY <2>1, <2>4, <3>1, EndKeeps
  <2>5. CASE ~cleared
    <3>1. alone[t] => Finds(t, "zero")
      BY <2>3, <2>5 DEF Finds
    <3> QED BY <2>1, <2>2, <2>5, <3>1, GoKeeps
  <2> QED BY <2>4, <2>5
<1> QED BY <1>1, <1>2, <1>3, <1>4

LEMMA DupKeeps ==
  ASSUME BufferInv, NEW t \in Threads, Dup(t)
  PROVE  BufferInv'
<1> DEFINE value == IF buffer THEN memory ELSE "nil"
<1>1. /\ At(t, "dup") /\ UNCHANGED <<state, call, alone, object>>
      /\ IF call[t] = "take" THEN Go(t) /\ copy' = [copy EXCEPT ![t] = value]
         ELSE Finish(t, value) /\ UNCHANGED copy
  BY DEF Dup
<1> /\ Running(t) /\ Head(todo[t]) = "dup"
    /\ call[t] \in Methods /\ InOrder(call[t], todo[t]) /\ (alone[t] => Finds(t, "dup"))
  BY <1>1, Stands, Zenon
<1> Head(todo[t]) \notin {"unset", "flag"}
  OBVIOUS
<1>2. \/ call[t] = "bytes"
      \/ /\ call[t] = "take" /\ Left(call[t], Tail(todo[t]))
         /\ Head(Tail(todo[t])) = "unless cleared"
  BY DEF InOrder, GoesOn
<1>3. alone[t] => buffer /\ value = "secret"
  BY DEF Finds
<1> HIDE DEF value
<1>4. CASE call[t] = "bytes"
  <2>1. alone[t] => Answers(t, value)
    BY <1>3, <1>4 DEF Answers
  <2>2. Finish(t, value) /\ UNCHANGED <<state, call, copy, alone, object>>
    BY <1>1, <1>4
  <2> QED BY <2>1, <2>2, EndKeeps
<1>5. CASE call[t] = "take"
  <2>1. /\ Go(t) /\ copy' = [copy EXCEPT ![t] = value] /\ Running(t) /\ Head(todo[t]) = "dup"
        /\ Left(call[t], Tail(todo[t])) /\ Head(Tail(todo[t])) = "unless cleared"
    BY <1>1, <1>2, <1>5
  <2>2. /\ memory' = memory /\ buffer' = buffer /\ cleared' = cleared
        /\ call' = call /\ alone' = alone
    BY <1>1 DEF state
  <2>3. /\ out' = out /\ DOMAIN todo' = Threads
        /\ \A u \in Threads \ {t} : todo'[u] = todo[u]
    BY <2>1, Going DEF BufferInv
  <2>4. /\ DOMAIN copy' = Threads /\ copy'[t] = value
        /\ \A u \in Threads \ {t} : copy'[u] = copy[u]
    BY <2>1 DEF BufferInv, BufferTyped
  <2>5. /\ Running(t)' /\ Left(call[t], todo[t])'
        /\ Head(todo'[t]) = "unless cleared" /\ call'[t] \in Methods
    BY <2>1, <2>2, AtNext
  <2>6. Progress(t)'
    BY <2>2, <2>5 DEF Progress
  <2>7. Alone(t)'
    BY <1>3, <2>2, <2>4, <2>5 DEF Alone, Finds, Copied
  <2> QED BY <1>1, <2>1, <2>2, <2>3, <2>4, <2>6, <2>7, ReadKeeps DEF BufferInv, BufferTyped
<1> QED BY <1>2, <1>4, <1>5

\* The steps of clear that write: the thread is the one that takes the next step, and no
\* other running call is alone any more.
LEMMA WriteKeeps ==
  ASSUME BufferInv, NEW t \in Threads, Running(t), Disturb(t),
         UNCHANGED <<call, copy, object>>,
         DOMAIN todo' = Threads, DOMAIN out' = Threads,
         \A u \in Threads \ {t} : todo'[u] = todo[u] /\ out'[u] = out[u],
         memory' \in {"secret", "zeros"}, buffer' \in BOOLEAN, cleared' \in BOOLEAN,
         memory = "zeros" => memory' = "zeros", ~buffer => ~buffer', cleared => cleared',
         ~buffer' => memory' = "zeros", cleared' => ~buffer',
         HalfCleared', Progress(t)', Alone(t)'
  PROVE  BufferInv'
<1>1. /\ DOMAIN alone' = Threads
      /\ \A u \in Threads : alone'[u] <=> alone[u] /\ (u = t \/ ~Running(u))
  BY DEF Disturb
<1>2. BufferTyped'
  BY <1>1 DEF BufferInv, BufferTyped
<1> QED BY <1>1, <1>2, StepKeeps

LEMMA ZeroKeeps ==
  ASSUME BufferInv, NEW t \in Threads, Zero(t)
  PROVE  BufferInv'
<1>1. /\ At(t, "zero") /\ UNCHANGED <<buffer, cleared, call, copy, object>>
      /\ IF buffer THEN Go(t) /\ memory' = "zeros" /\ Disturb(t)
         ELSE Finish(t, "NoMethodError") /\ UNCHANGED <<memory, alone>>
  BY DEF Zero
<1> /\ Running(t) /\ Head(todo[t]) = "zero"
    /\ call[t] \in Methods /\ InOrder(call[t], todo[t]) /\ (alone[t] => Finds(t, "zero"))
  BY <1>1, Stands, Zenon
<1>2. /\ call[t] \in {"take", "clear"} /\ Left(call[t], Tail(todo[t]))
      /\ Head(Tail(todo[t])) = "unset"
  BY DEF InOrder, GoesOn
<1>3. alone[t] => Copied(t) /\ buffer
  BY DEF Finds
<1>4. CASE buffer
  <2>1. /\ Go(t) /\ memory' = "zeros" /\ Disturb(t) /\ buffer' = buffer /\ cleared' = cleared
        /\ call' = call /\ copy' = copy /\ object' = object
    BY <1>1, <1>4
  <2>2. /\ out' = out /\ DOMAIN todo' = Threads
        /\ \A u \in Threads \ {t} : todo'[u] = todo[u]
    BY <2>1, Going DEF BufferInv
  <2>3. /\ Running(t)' /\ Left(call[t], todo[t])'
        /\ Head(todo'[t]) = "unset" /\ call'[t] \in Methods
    BY <1>2, <2>1, AtNext
  <2>4. Progress(t)'
    BY <2>1, <2>3 DEF Progress
  <2>5. alone'[t] => alone[t]
    BY <2>1 DEF Disturb
  <2>6. Alone(t)'
    BY <1>3, <2>1, <2>3, <2>5 DEF Alone, Finds, Copied
  <2>7. HalfCleared'
    BY <1>4, <2>1, <2>3 DEF HalfCleared, At
  <2>8. /\ buffer \in BOOLEAN /\ cleared \in BOOLEAN /\ DOMAIN out = Threads
        /\ (cleared => ~buffer)
    BY DEF BufferInv, BufferTyped
  <2> QED BY <1>4, <2>1, <2>2, <2>4, <2>6, <2>7, <2>8, WriteKeeps
<1>5. CASE ~buffer
  <2>1. Finish(t, "NoMethodError") /\ UNCHANGED <<state, call, copy, alone, object>>
    BY <1>1, <1>5 DEF state
  <2>2. ~alone[t] /\ Head(todo[t]) \notin {"unset", "flag"}
    BY <1>3, <1>5
  <2> QED BY <2>1, <2>2, EndKeeps
<1> QED BY <1>4, <1>5

LEMMA UnsetKeeps ==
  ASSUME BufferInv, NEW t \in Threads, UnsetBuffer(t)
  PROVE  BufferInv'
<1>1. /\ At(t, "unset") /\ buffer' = FALSE /\ Go(t) /\ Disturb(t)
      /\ memory' = memory /\ cleared' = cleared /\ call' = call /\ copy' = copy
      /\ object' = object
  BY DEF UnsetBuffer
<1> /\ Running(t) /\ Head(todo[t]) = "unset" /\ memory = "zeros"
    /\ call[t] \in Methods /\ InOrder(call[t], todo[t]) /\ (alone[t] => Finds(t, "unset"))
  BY <1>1, Stands
<1>2. /\ Left(call[t], Tail(todo[t])) /\ Head(Tail(todo[t])) = "flag"
  BY DEF InOrder, GoesOn
<1>3. alone[t] => Copied(t)
  BY DEF Finds
<1>4. /\ out' = out /\ DOMAIN todo' = Threads
      /\ \A u \in Threads \ {t} : todo'[u] = todo[u]
  BY <1>1, Going DEF BufferInv
<1>5. /\ Running(t)' /\ Left(call[t], todo[t])'
      /\ Head(todo'[t]) = "flag" /\ call'[t] \in Methods
  BY <1>1, <1>2, AtNext
<1>6. Progress(t)'
  BY <1>1, <1>5 DEF Progress
<1>7. alone'[t] => alone[t]
  BY <1>1 DEF Disturb
<1>8. Alone(t)'
  BY <1>1, <1>3, <1>5, <1>7 DEF Alone, Finds, Copied
<1>9. HalfCleared'
  BY <1>1, <1>5 DEF HalfCleared, At
<1>10. cleared \in BOOLEAN /\ DOMAIN out = Threads
  BY DEF BufferInv, BufferTyped
<1> QED BY <1>1, <1>4, <1>6, <1>8, <1>9, <1>10, WriteKeeps

LEMMA FlagKeeps ==
  ASSUME BufferInv, NEW t \in Threads, Flag(t)
  PROVE  BufferInv'
<1>1. /\ At(t, "flag") /\ cleared' = TRUE /\ Finish(t, Result(t)) /\ Disturb(t)
      /\ memory' = memory /\ buffer' = buffer /\ call' = call /\ copy' = copy
      /\ object' = object
  BY DEF Flag
<1> /\ Running(t) /\ Head(todo[t]) = "flag" /\ ~buffer
    /\ call[t] \in Methods /\ InOrder(call[t], todo[t]) /\ (alone[t] => Finds(t, "flag"))
  BY <1>1, Stands
<1>2. call[t] \in {"take", "clear"}
  BY DEF InOrder, GoesOn
<1>3. alone[t] => Copied(t)
  BY DEF Finds
<1>4. /\ todo'[t] = <<>> /\ out'[t] = Result(t)
      /\ DOMAIN todo' = Threads /\ DOMAIN out' = Threads
      /\ \A u \in Threads \ {t} : todo'[u] = todo[u] /\ out'[u] = out[u]
  BY <1>1, Ending DEF BufferInv
<1>5. ~Running(t)'
  BY <1>4 DEF Running
<1>6. Progress(t)'
  BY <1>5 DEF Progress
<1>7. alone'[t] => alone[t]
  BY <1>1 DEF Disturb
<1>8. Alone(t)'
  BY <1>1, <1>2, <1>3, <1>4, <1>5, <1>7 DEF Alone, Returns, Copied, Result
<1>9. memory \in {"secret", "zeros"} /\ buffer \in BOOLEAN /\ (~buffer => memory = "zeros")
  BY DEF BufferInv, BufferTyped
<1>10. HalfCleared'
  BY <1>1, <1>9 DEF HalfCleared
<1> QED BY <1>1, <1>4, <1>6, <1>8, <1>9, <1>10, WriteKeeps

\* A call that begins while no clear or destructive read runs finds the object whole or
\* cleared: a half cleared one has a thread at work on it.
LEMMA BeginsWhole ==
  ASSUME BufferInv, NEW t \in Threads, ~Running(t),
         \A u \in Threads \ {t} : call[u] \in {"clear", "take"} => ~Running(u)
  PROVE  Whole
<1>1. ASSUME NEW u \in Threads, NEW h \in {"unset", "flag"}, At(u, h)
      PROVE  FALSE
  <2>1. /\ Running(u) /\ Head(todo[u]) = h /\ InOrder(call[u], todo[u])
    BY <1>1, Stands
  <2>2. call[u] \in {"take", "clear"}
    BY <2>1 DEF InOrder
  <2> QED BY <2>1, <2>2
<1>2. /\ memory = "zeros" => ~buffer
      /\ ~buffer => cleared
      /\ memory \in {"secret", "zeros"}
  BY <1>1 DEF BufferInv, BufferTyped, HalfCleared
<1> QED BY <1>2 DEF Whole

LEMMA CallKeeps ==
  ASSUME BufferInv, NEW t \in Threads, NEW m \in DOMAIN Statements, Call(t, m)
  PROVE  BufferInv'
<1>1. /\ object = "held" /\ ~Running(t) /\ object' = object
      /\ memory' = memory /\ buffer' = buffer /\ cleared' = cleared
      /\ todo' = [todo EXCEPT ![t] = Statements[m]]
      /\ call' = [call EXCEPT ![t] = m]
      /\ out' = [out EXCEPT ![t] = "none"]
      /\ copy' = [copy EXCEPT ![t] = "none"]
      /\ alone' = [alone EXCEPT ![t] = \A u \in Threads \ {t} :
                                          call[u] \in {"clear", "take"} => ~Running(u)]
  BY DEF Call, state
<1>2. /\ DOMAIN todo' = Threads /\ DOMAIN call' = Threads /\ DOMAIN out' = Threads
      /\ DOMAIN copy' = Threads /\ DOMAIN alone' = Threads
      /\ todo'[t] = Statements[m] /\ call'[t] = m
      /\ \A u \in Threads \ {t} : /\ todo'[u] = todo[u] /\ call'[u] = call[u]
                                  /\ out'[u] = out[u] /\ copy'[u] = copy[u]
                                  /\ alone'[u] = alone[u]
  BY <1>1 DEF BufferInv, BufferTyped
<1>3. alone'[t] => \A u \in Threads \ {t} : call[u] \in {"clear", "take"} => ~Running(u)
  BY <1>1 DEF BufferInv, BufferTyped
<1>4. BufferTyped'
  BY <1>1, <1>2 DEF BufferInv, BufferTyped
<1>5. \A u \in Threads, h \in {"unset", "flag"} : At(u, h) => At(u, h)'
  BY <1>1, <1>2 DEF At, Running
<1>6. HalfCleared'
  <2>1. HalfCleared
    BY DEF BufferInv
  <2> QED BY <1>1, <1>5, <2>1, Zenon DEF HalfCleared
<1>7. ASSUME NEW u \in Threads, u # t
      PROVE  Progress(u)' /\ Alone(u)'
  <2>1. /\ todo'[u] = todo[u] /\ call'[u] = call[u] /\ out'[u] = out[u]
        /\ copy'[u] = copy[u] /\ alone'[u] = alone[u] /\ (Running(u)' <=> Running(u))
    BY <1>2, <1>7 DEF Running
  <2>2. Progress(u) /\ Alone(u)
    BY DEF BufferInv
  <2>3. Progress(u)'
    BY <1>1, <2>1, <2>2 DEF Progress
  <2>4. Alone(u)'
    BY <1>1, <2>1, <2>2 DEF Alone, Finds, Returns, Copied, Whole
  <2> QED BY <2>3, <2>4
<1>8. /\ m \in Methods /\ Left(m, todo'[t])
      /\ m \in {"bytes", "take"} => Head(todo'[t]) = "unless cleared raise"
      /\ m = "clear" => Head(todo'[t]) = "unless cleared"
      /\ m = "length" => Head(todo'[t]) = "unless cleared size"
  BY <1>2, Beginnings
<1>9. Running(t)'
  BY <1>8 DEF Left, Running
<1>10. Progress(t)'
  BY <1>2, <1>8 DEF Progress, Methods
<1>11. Alone(t)'
  <2> SUFFICES ASSUME alone'[t] PROVE Finds(t, Head(todo[t]))'
    BY <1>9 DEF Alone
  <2>1. Whole
    BY <1>1, <1>3, BeginsWhole
  <2>2. Whole' /\ (cleared' \/ buffer') /\ (m = "clear" => Copied(t)')
    BY <1>1, <1>2, <2>1 DEF Whole, Copied
  <2> QED BY <1>8, <2>2 DEF Finds, Methods
<1>12. /\ ~buffer' => memory' = "zeros"
       /\ cleared' => ~buffer'
       /\ object' = "held"
  BY <1>1 DEF BufferInv
<1> QED BY <1>4, <1>6, <1>7, <1>10, <1>11, <1>12 DEF BufferInv

LEMMA FinalizeKeeps ==
  ASSUME BufferInv, Finalize
  PROVE  BufferInv'
<1>1. /\ object = "exiting" /\ object' = object
      /\ memory' = (IF buffer THEN "zeros" ELSE memory) /\ buffer' = FALSE /\ cleared' = TRUE
      /\ todo' = todo /\ call' = call /\ out' = out /\ copy' = copy /\ alone' = alone
  BY DEF Finalize
<1>2. /\ memory' = "zeros" /\ BufferTyped'
  BY <1>1 DEF BufferInv, BufferTyped
<1>3. HalfCleared'
  BY <1>1 DEF HalfCleared
<1>4. ASSUME NEW t \in Threads
      PROVE  ~Running(t)' /\ Progress(t)' /\ Alone(t)'
  <2>1. ~Running(t) /\ ~Running(t)'
    BY <1>1 DEF BufferInv, Running
  <2>2. Alone(t)
    BY DEF BufferInv
  <2> QED BY <1>1, <2>1, <2>2 DEF Progress, Alone, Returns
<1> QED BY <1>1, <1>2, <1>3, <1>4 DEF BufferInv

LEMMA BufferInvariant == BufferSpec => []BufferInv
<1>1. BufferInit => BufferInv
  <2> SUFFICES ASSUME BufferInit PROVE BufferInv
    OBVIOUS
  <2>1. /\ memory = "secret" /\ buffer = TRUE /\ cleared = FALSE /\ object = "held"
        /\ BufferTyped
    BY DEF BufferInit, BufferTyped
  <2>2. ASSUME NEW t \in Threads
        PROVE  Progress(t) /\ Alone(t)
    BY DEF BufferInit, Progress, Alone, Running, Returns
  <2> QED BY <2>1, <2>2 DEF BufferInv, HalfCleared
<1>2. BufferInv /\ [BufferNext]_bufferVars => BufferInv'
  <2> SUFFICES ASSUME BufferInv, [BufferNext]_bufferVars PROVE BufferInv'
    OBVIOUS
  <2>1. ASSUME NEW t \in Threads, Step(t)
        PROVE  BufferInv'
    BY <2>1, ReadsKeep, DupKeeps, ZeroKeeps, UnsetKeeps, FlagKeeps, Zenon DEF Step
  <2>2. ASSUME NEW t \in Threads, NEW m \in DOMAIN Statements, Call(t, m)
        PROVE  BufferInv'
    BY <2>2, CallKeeps
  <2>3. CASE Drop \/ Exit \/ UNCHANGED bufferVars
    <3>1. /\ UNCHANGED <<memory, buffer, cleared, todo, call, out, copy, alone>>
          /\ object' = object \/ \A t \in Threads : ~Running(t)
      BY <2>3 DEF Drop, Exit, bufferVars, state, BufferInv
    <3>2. BufferTyped' /\ HalfCleared'
      BY <3>1 DEF BufferInv, BufferTyped, HalfCleared, At, Running
    <3>3. \A t \in Threads : Progress(t)' /\ Alone(t)' /\ (Running(t)' <=> Running(t))
      BY <3>1 DEF BufferInv, Progress, Alone, Running, Finds, Returns, Copied, Whole
    <3> QED BY <3>1, <3>2, <3>3 DEF BufferInv
  <2>4. CASE Finalize
    BY <2>4, FinalizeKeeps
  <2> QED BY <2>1, <2>2, <2>3, <2>4 DEF BufferNext
<1> QED BY <1>1, <1>2, PTL DEF BufferSpec

\* cleared? tells the truth for any number of racing clears, destructive reads and
\* the finalizer (clear, bytes! and finalize of secure_bytes.rb).
THEOREM ClearedTellsTheTruth == BufferSpec => []ClearedIsZeroed
<1>1. BufferInv => ClearedIsZeroed
  BY DEF BufferInv, ClearedIsZeroed
<1> QED BY <1>1, BufferInvariant, PTL

\* A call that no other call interferes with keeps the contract of bytes, bytes!, clear and
\* length, for any number of threads and however many calls went before it: no race leaves
\* the object in a state that breaks a later caller.
THEOREM UndisturbedCallsAreSound == BufferSpec => []CallsAloneAreSound
<1>1. BufferInv => CallsAloneAreSound
  <2> SUFFICES ASSUME BufferInv, NEW t \in Threads, alone[t], ~Running(t)
               PROVE  CASE call[t] \in {"bytes", "take"} -> out[t] \in {"secret", "ClearedError"}
                        [] call[t] = "clear" -> out[t] = "self" /\ cleared
                        [] call[t] = "length" -> out[t] \in {"size", "0"}
                        [] OTHER -> TRUE
    BY DEF CallsAloneAreSound
  <2>1. Returns(t)
    BY DEF BufferInv, Alone
  <2> QED BY <2>1 DEF Returns
<1> QED BY <1>1, BufferInvariant, PTL
-------------------------------------------------------------------------------
(* The OTS client.                                                             *)

Argument == [digest: Digests \cup {Nil}, level: {"none", "pending", "anchored", "junk"}]

Caller ==
  [at: {"idle", "default", "assign", "parse", "calendar"}, op: {"none", "stamp", "upgrade"},
   arg: Argument, client: Nat, interrupted: BOOLEAN,
   out: {"none", "ArgumentError", "ParseError", "fatal", "proof", "IOError", "RuntimeError",
         "interrupted"},
   proof: Argument]

InFlight(t) == caller[t].at = "calendar"

\* A call in flight has its client for itself and holds a borrow that is not leaked; every
\* other borrow is leaked.
Borrows ==
  /\ \A t \in Callers : InFlight(t) => caller[t].client \in borrowed \ leaked
  /\ \A t, u \in Callers : InFlight(t) /\ InFlight(u) /\ caller[t].client = caller[u].client
                             => t = u
  /\ \A c \in borrowed : c \in leaked \/ Inside(c) # {}
  /\ leaked \subseteq borrowed

OtsInv ==
  /\ default \in Nat /\ created \in Nat /\ caller \in [Callers -> Caller]
  /\ Borrows
  /\ fatal => leaked # {} \/ \E t \in Callers : InFlight(t)

LEMMA EndFacts ==
  ASSUME OtsInv, NEW t \in Callers,
         NEW o \in {"none", "ArgumentError", "ParseError", "fatal", "proof", "IOError",
                    "RuntimeError", "interrupted"},
         NEW p \in Argument, End(t, o, p)
  PROVE  /\ caller' \in [Callers -> Caller] /\ caller'[t].at = "idle"
         /\ \A u \in Callers \ {t} : caller'[u] = caller[u]
<1> DEFINE r == [caller[t] EXCEPT !.at = "idle", !.client = 0,
                   !.interrupted = FALSE, !.out = o, !.proof = p]
<1>1. caller' = [caller EXCEPT ![t] = r] /\ caller \in [Callers -> Caller]
  BY DEF End, OtsInv
<1>2. r \in Caller /\ r.at = "idle"
  <2> DEFINE s == caller[t]
  <2>1. s \in Caller
    BY <1>1
  <2> HIDE DEF s
  <2>2. [s EXCEPT !.at = "idle", !.client = 0, !.interrupted = FALSE, !.out = o, !.proof = p]
          \in Caller
    BY <2>1 DEF Caller
  <2>3. [s EXCEPT !.at = "idle", !.client = 0, !.interrupted = FALSE, !.out = o,
                  !.proof = p].at = "idle"
    BY <2>1 DEF Caller
  <2> QED BY <2>2, <2>3 DEF s
<1> HIDE DEF r
<1> QED BY <1>1, <1>2

LEMMA GotoFacts ==
  ASSUME OtsInv, NEW t \in Callers, NEW where \in {"default", "parse", "calendar"},
         Goto(t, where)
  PROVE  /\ caller' \in [Callers -> Caller] /\ caller'[t].at = where
         /\ caller'[t].client = caller[t].client
         /\ \A u \in Callers \ {t} : caller'[u] = caller[u]
<1> DEFINE r == [caller[t] EXCEPT !.at = where]
<1>1. caller' = [caller EXCEPT ![t] = r] /\ caller \in [Callers -> Caller]
  BY DEF Goto, OtsInv
<1>2. r \in Caller /\ r.at = where /\ r.client = caller[t].client
  BY <1>1 DEF Caller
<1> HIDE DEF r
<1> QED BY <1>1, <1>2

\* A thread that neither enters nor leaves the round trip changes no borrow.
LEMMA AsideKeeps ==
  ASSUME OtsInv, NEW t \in Callers, ~InFlight(t),
         caller' \in [Callers -> Caller], caller'[t].at # "calendar",
         \A u \in Callers \ {t} : caller'[u] = caller[u],
         default' \in Nat, created' \in Nat,
         borrowed' = borrowed, leaked' = leaked,
         fatal' => fatal \/ leaked # {} \/ \E u \in Callers : InFlight(u)
  PROVE  OtsInv'
<1>1. \A u \in Callers : /\ InFlight(u)' <=> InFlight(u)
                         /\ InFlight(u) => caller'[u] = caller[u]
  BY DEF InFlight
<1>2. \A c \in borrowed : Inside(c)' = Inside(c)
  BY <1>1 DEF Inside, InFlight
<1>3. Borrows'
  BY <1>1, <1>2 DEF OtsInv, Borrows
<1>4. fatal' => leaked' # {} \/ \E u \in Callers : InFlight(u)'
  BY <1>1 DEF OtsInv
<1> QED BY <1>3, <1>4 DEF OtsInv

LEMMA AsideSteps ==
  ASSUME OtsInv, NEW t \in Callers,
         \/ \E arg \in StampArgs : OtsCall(t, "stamp", arg)
         \/ \E arg \in Proof : OtsCall(t, "upgrade", arg)
         \/ UseDefault(t) \/ CreateDefault(t) \/ AssignDefault(t) \/ Refuse(t)
  PROVE  OtsInv'
<1> USE DEF CallerAt
<1>1. /\ default \in Nat /\ created \in Nat /\ caller \in [Callers -> Caller]
  BY DEF OtsInv
<1>2. ASSUME NEW op \in {"stamp", "upgrade"}, NEW arg \in Argument, OtsCall(t, op, arg)
      PROVE  OtsInv'
  <2> DEFINE r == [Idle EXCEPT !.at = "default", !.op = op, !.arg = arg]
  <2>1. r \in Caller /\ r.at = "default"
    BY DEF Idle, NoProof, Caller, Argument
  <2>2. caller' = [caller EXCEPT ![t] = r]
    BY <1>2 DEF OtsCall
  <2> HIDE DEF r
  <2>3. /\ caller' \in [Callers -> Caller] /\ caller'[t].at = "default"
        /\ \A u \in Callers \ {t} : caller'[u] = caller[u]
    BY <1>1, <2>1, <2>2
  <2> QED BY <1>1, <1>2, <2>3, AsideKeeps DEF OtsCall, InFlight
<1>3. StampArgs \subseteq Argument /\ Proof \subseteq Argument
  BY DEF StampArgs, Proof, Argument
<1>4. CASE UseDefault(t) \/ CreateDefault(t)
  <2>1. PICK where \in {"parse", "assign"}, c \in Nat :
           caller' = [caller EXCEPT ![t].at = where, ![t].client = c]
    BY SMTT(60), <1>1, <1>4 DEF UseDefault, CreateDefault
  <2> DEFINE r == [caller[t] EXCEPT !.at = where, !.client = c]
  <2>2. r \in Caller /\ r.at = where
    BY <1>1 DEF Caller
  <2>3. caller' = [caller EXCEPT ![t] = r]
    BY <1>1, <2>1
  <2> HIDE DEF r
  <2>4. /\ caller' \in [Callers -> Caller] /\ caller'[t].at = where
        /\ \A u \in Callers \ {t} : caller'[u] = caller[u]
    BY <1>1, <2>2, <2>3
  <2> QED BY SMTT(60), <1>1, <1>4, <2>4, AsideKeeps DEF UseDefault, CreateDefault, InFlight
<1>5. CASE AssignDefault(t)
  <2>1. /\ caller' \in [Callers -> Caller] /\ caller'[t].at = "parse"
        /\ \A u \in Callers \ {t} : caller'[u] = caller[u]
    BY <1>5, GotoFacts DEF AssignDefault
  <2>2. caller[t].client \in Nat
    BY <1>1 DEF Caller
  <2> QED BY <1>1, <1>5, <2>1, <2>2, AsideKeeps DEF AssignDefault, InFlight
<1>6. CASE Refuse(t)
  <2>1. NoProof \in Argument
    BY DEF NoProof, Argument
  <2>2. /\ caller' \in [Callers -> Caller] /\ caller'[t].at = "idle"
        /\ \A u \in Callers \ {t} : caller'[u] = caller[u]
    BY <1>6, <2>1, EndFacts DEF Refuse
  <2> QED BY <1>1, <1>6, <2>2, AsideKeeps DEF Refuse, InFlight
<1> QED BY <1>2, <1>3, <1>4, <1>5, <1>6

\* self.inner.borrow_mut(): a client that is borrowed has a call in flight or a leaked
\* borrow, and the process ends; one that is free has neither.
LEMMA BorrowKeeps ==
  ASSUME OtsInv, NEW t \in Callers, Borrow(t)
  PROVE  OtsInv'
<1>1. /\ caller[t].at = "parse" /\ ~fatal /\ UNCHANGED <<default, created, leaked>>
      /\ caller \in [Callers -> Caller] /\ Borrows
      /\ default' \in Nat /\ created' \in Nat
  BY DEF Borrow, CallerAt, OtsInv
<1>2. PICK c : c = caller[t].client
  OBVIOUS
<1>3. CASE c \in borrowed
  <2>1. fatal' = TRUE /\ End(t, "fatal", NoProof) /\ borrowed' = borrowed
    BY <1>3, <1>2 DEF Borrow
  <2>2. NoProof \in Argument
    BY DEF NoProof, Argument
  <2>3. /\ caller' \in [Callers -> Caller] /\ caller'[t].at = "idle"
        /\ \A u \in Callers \ {t} : caller'[u] = caller[u]
    BY <2>1, <2>2, EndFacts
  <2>4. leaked # {} \/ \E u \in Callers : InFlight(u)
    BY <1>1, <1>3 DEF Borrows, Inside, InFlight
  <2> QED BY <1>1, <2>1, <2>3, <2>4, AsideKeeps DEF InFlight
<1>4. CASE c \notin borrowed
  <2>1. borrowed' = borrowed \cup {c} /\ Goto(t, "calendar") /\ fatal' = fatal
    BY <1>4, <1>2 DEF Borrow
  <2>2. /\ caller' \in [Callers -> Caller] /\ caller'[t].at = "calendar"
        /\ caller'[t].client = c
        /\ \A u \in Callers \ {t} : caller'[u] = caller[u]
    BY <1>2, <2>1, GotoFacts
  <2>3. c \notin leaked /\ \A u \in Callers : InFlight(u) => caller[u].client # c
    BY <1>1, <1>4 DEF Borrows
  <2>4. \A u \in Callers : InFlight(u)' => caller'[u].client \in borrowed' \ leaked'
    BY <1>1, <2>1, <2>2, <2>3 DEF Borrows, InFlight
  <2>5. \A u, w \in Callers :
          InFlight(u)' /\ InFlight(w)' /\ caller'[u].client = caller'[w].client => u = w
    BY <1>1, <2>2, <2>3 DEF Borrows, InFlight
  <2>6. t \in Inside(c)'
    BY <2>2 DEF Inside
  <2>7. \A d \in borrowed : Inside(d) \subseteq Inside(d)'
    <3> SUFFICES ASSUME NEW d \in borrowed, NEW u \in Inside(d) PROVE u \in Inside(d)'
      OBVIOUS
    <3>1. u \in Callers /\ u # t /\ caller[u].at = "calendar" /\ caller[u].client = d
      BY <1>1 DEF Inside
    <3> QED BY <2>2, <3>1 DEF Inside
  <2>8. \A d \in borrowed' : d \in leaked' \/ Inside(d)' # {}
    BY <1>1, <2>1, <2>6, <2>7 DEF Borrows
  <2>9. leaked' \subseteq borrowed'
    BY <1>1, <2>1 DEF Borrows
  <2>10. Borrows'
    BY <2>4, <2>5, <2>8, <2>9 DEF Borrows
  <2> QED BY <1>1, <2>1, <2>2, <2>10 DEF OtsInv
<1> QED BY <1>3, <1>4

LEMMA InterruptKeeps ==
  ASSUME OtsInv, NEW t \in Callers, Interrupt(t)
  PROVE  OtsInv'
<1>1. /\ caller' = [caller EXCEPT ![t].interrupted = TRUE]
      /\ UNCHANGED <<default, created, borrowed, leaked, fatal>>
      /\ caller \in [Callers -> Caller]
  BY DEF Interrupt, OtsInv
<1>2. /\ caller' \in [Callers -> Caller]
      /\ \A u \in Callers : caller'[u].at = caller[u].at /\ caller'[u].client = caller[u].client
  <2> DEFINE r == [caller[t] EXCEPT !.interrupted = TRUE]
  <2>1. r \in Caller /\ r.at = caller[t].at /\ r.client = caller[t].client
    <3> DEFINE s == caller[t]
    <3>1. s \in Caller
      BY <1>1
    <3> HIDE DEF s
    <3>2. \A b \in BOOLEAN : [s EXCEPT !.interrupted = b] \in Caller
      BY SMTT(60), <3>1 DEF Caller
    <3>3. /\ [s EXCEPT !.interrupted = TRUE].at = s.at
          /\ [s EXCEPT !.interrupted = TRUE].client = s.client
      BY <3>1 DEF Caller
    <3> QED BY <3>2, <3>3 DEF s
  <2>2. caller' = [caller EXCEPT ![t] = r]
    BY SMTT(60), <1>1
  <2> HIDE DEF r
  <2>3. /\ caller' \in [Callers -> Caller] /\ caller'[t] = r
        /\ \A u \in Callers \ {t} : caller'[u] = caller[u]
    BY <1>1, <2>1, <2>2
  <2> QED BY <2>1, <2>3
<1>3. \A u \in Callers : InFlight(u)' <=> InFlight(u)
  BY <1>2 DEF InFlight
<1>4. \A c \in borrowed : Inside(c)' = Inside(c)
  BY <1>2 DEF Inside
<1>5. Borrows'
  BY <1>1, <1>2, <1>3, <1>4 DEF OtsInv, Borrows
<1> QED BY <1>1, <1>2, <1>3, <1>5 DEF OtsInv

\* A call leaves the round trip: its borrow ends with it, or is leaked.
LEMMA LeaveKeeps ==
  ASSUME OtsInv, NEW t \in Callers, Answered(t) \/ Fails(t) \/ Unwound(t)
  PROVE  OtsInv'
<1> DEFINE c == caller[t].client
<1>1. /\ InFlight(t) /\ ~fatal /\ fatal' = fatal /\ default' = default /\ created' = created
      /\ \/ borrowed' = borrowed \ {c} /\ leaked' = leaked
         \/ borrowed' = borrowed /\ leaked' = leaked \cup {c}
  BY DEF Answered, Fails, Unwound, Release, CallerAt, InFlight
<1>2. /\ caller \in [Callers -> Caller] /\ default \in Nat /\ created \in Nat /\ Borrows
  BY DEF OtsInv
<1>3. /\ caller' \in [Callers -> Caller] /\ caller'[t].at = "idle"
      /\ \A u \in Callers \ {t} : caller'[u] = caller[u]
  <2>1. NoProof \in Argument
    BY DEF NoProof, Argument
  <2>2. CASE Answered(t)
    <3>1. PICK level \in Upgraded(caller[t].arg) :
             End(t, "proof", [digest |-> caller[t].arg.digest, level |-> level])
      BY <2>2 DEF Answered
    <3>2. caller[t].arg \in Argument
      BY <1>2 DEF Caller
    <3>3. [digest |-> caller[t].arg.digest, level |-> level] \in Argument
      BY <3>1, <3>2 DEF Argument, Upgraded
    <3> QED BY <3>1, <3>3, EndFacts
  <2>3. CASE Fails(t)
    <3>1. PICK error \in {"IOError", "RuntimeError"} : End(t, error, NoProof)
      BY <2>3 DEF Fails
    <3> QED BY <2>1, <3>1, EndFacts
  <2>4. CASE Unwound(t)
    BY <2>1, <2>4, EndFacts DEF Unwound
  <2> QED BY <2>2, <2>3, <2>4
<1>4. c \in borrowed \ leaked /\ \A u \in Callers \ {t} : InFlight(u) => caller[u].client # c
  BY <1>1, <1>2 DEF Borrows
<1> HIDE DEF c
<1>5. \A u \in Callers : InFlight(u)' => u # t /\ InFlight(u) /\ caller'[u] = caller[u]
  BY <1>3 DEF InFlight
<1>6. \A u \in Callers : InFlight(u)' => caller'[u].client \in borrowed' \ leaked'
  BY <1>1, <1>2, <1>4, <1>5 DEF Borrows
<1>7. \A u, w \in Callers :
        InFlight(u)' /\ InFlight(w)' /\ caller'[u].client = caller'[w].client => u = w
  BY <1>2, <1>5 DEF Borrows
<1>8. \A d : d # c => Inside(d) \subseteq Inside(d)'
  BY <1>3 DEF Inside, c
<1>9. \A d \in borrowed' : d \in leaked' \/ Inside(d)' # {}
  BY <1>1, <1>2, <1>8 DEF Borrows
<1>10. leaked' \subseteq borrowed'
  BY SMTT(60), <1>1, <1>2, <1>4 DEF Borrows
<1>11. Borrows'
  BY <1>6, <1>7, <1>9, <1>10 DEF Borrows
<1> QED BY <1>1, <1>2, <1>3, <1>11 DEF OtsInv

LEMMA OtsInvariant == OtsSpec => []OtsInv
<1>1. OtsInit => OtsInv
  <2> SUFFICES ASSUME OtsInit PROVE OtsInv
    OBVIOUS
  <2>1. Idle \in Caller /\ Idle.at = "idle"
    BY DEF Idle, NoProof, Caller, Argument
  <2>2. caller \in [Callers -> Caller] /\ \A t \in Callers : ~InFlight(t)
    BY <2>1 DEF OtsInit, InFlight
  <2> QED BY <2>2 DEF OtsInit, OtsInv, Borrows
<1>2. OtsInv /\ [OtsNext]_otsVars => OtsInv'
  <2> SUFFICES ASSUME OtsInv, [OtsNext]_otsVars PROVE OtsInv'
    OBVIOUS
  <2>1. CASE UNCHANGED otsVars
    BY <2>1 DEF otsVars, OtsInv, Borrows, InFlight, Inside
  <2>2. CASE OtsNext
    BY <2>2, AsideSteps, BorrowKeeps, InterruptKeeps, LeaveKeeps, Zenon DEF OtsNext, Run
  <2> QED BY <2>1, <2>2
<1> QED BY <1>1, <1>2, PTL DEF OtsSpec

\* The borrow of the OTS client follows the calls in flight, for any number of threads,
\* clients, calls and interrupts: the default client is never left borrowed by a stamp or
\* upgrade that returned or raised by itself.
THEOREM BorrowFollowsCalls == OtsSpec => []BorrowIsCallInFlight
<1>1. OtsInv => BorrowIsCallInFlight
  <2> SUFFICES ASSUME OtsInv PROVE BorrowIsCallInFlight
    OBVIOUS
  <2>1. ASSUME NEW c \in OtsClients
        PROVE  /\ c \in borrowed <=> Inside(c) # {} \/ c \in leaked
               /\ \A t, u \in Inside(c) : t = u /\ c \notin leaked
    <3>1. c \in borrowed <=> Inside(c) # {} \/ c \in leaked
      BY DEF OtsInv, Borrows, Inside, InFlight
    <3>2. \A t, u \in Inside(c) : t = u /\ c \notin leaked
      BY DEF OtsInv, Borrows, Inside, InFlight
    <3> QED BY <3>1, <3>2
  <2>2. fatal => leaked # {} \/ \E t \in Callers : caller[t].at = "calendar"
    BY DEF OtsInv, InFlight
  <2> QED BY <2>1, <2>2 DEF BorrowIsCallInFlight
<1> QED BY <1>1, OtsInvariant, PTL
=================================================================================
