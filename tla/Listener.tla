------------------------------- MODULE Listener -------------------------------
(***************************************************************************)
(* The listener lifecycle of Confium::TC::NetworkCoordinator               *)
(* (lib/confium/tc/network_coordinator.rb): start, stop and accept_loop.   *)
(*                                                                         *)
(* One owner thread calls start and stop, any number of times; each start  *)
(* opens a listener and spawns an acceptor thread.  start and stop write   *)
(* @server without a lock and accept_loop reads it afresh on every turn,   *)
(* so their statements are separate steps.  join(5) may time out, accept   *)
(* and Thread.new may raise an error accept_loop does not rescue (too many *)
(* files or threads), and the port may be taken when start binds it.       *)
(***************************************************************************)
EXTENDS Naturals

CONSTANTS
  MaxStarts,   \* the number of listeners the owner ever opens
  Clients,     \* each connects at most once
  Nobody       \* an acceptor's socket outside the loop's body

ASSUME ListenerAssumption == MaxStarts \in Nat /\ Nobody \notin Clients

Listeners == 1 .. MaxStarts

VARIABLES
  server,    \* @server: a listener, or 0 for nil
  thread,    \* @accept_thread: the acceptor the last start spawned, or 0
  owner,     \* the statement the owner is at; "idle" between calls
  held,      \* the local `server` of the running stop, or 0
  result,    \* how the owner's last call ended
  late,      \* whether some join has timed out
  listener,  \* the state of each listening socket
  acceptor,  \* the state of each acceptor thread
  client     \* the state of each client's connection

calls == <<owner, result, late>>
vars == <<server, thread, held, calls, listener, acceptor, client>>

Acceptor(at, local, conn) == [at |-> at, server |-> local, socket |-> conn]

Connection(state, l) == [state |-> state, listener |-> l]

Init ==
  /\ server = 0 /\ thread = 0 /\ owner = "idle" /\ held = 0
  /\ result = "none" /\ late = FALSE
  /\ listener = [l \in Listeners |-> "none"]
  /\ acceptor = [a \in Listeners |-> Acceptor("none", 0, Nobody)]
  /\ client = [c \in Clients |-> Connection("none", 0)]

-------------------------------------------------------------------------------
(* start.  A listener and the acceptor spawned for it have the same number.   *)

Return(r) == owner' = "idle" /\ result' = r /\ UNCHANGED late

StartRefused ==
  /\ owner = "idle" /\ server # 0
  /\ Return("already started")
  /\ UNCHANGED <<server, thread, held, listener, acceptor, client>>

\* TCPServer.new raises: the port is taken.
BindFails ==
  /\ owner = "idle" /\ server = 0
  /\ Return("raised")
  /\ UNCHANGED <<server, thread, held, listener, acceptor, client>>

\* Without the `already started` check.
BindAgain(l) ==
  /\ owner = "idle"
  /\ listener[l] = "none" /\ \A k \in 1 .. l - 1 : listener[k] # "none"
  /\ listener' = [listener EXCEPT ![l] = "open"]
  /\ server' = l
  /\ owner' = "spawn"
  /\ UNCHANGED <<thread, held, result, late, acceptor, client>>

Bind(l) ==
  /\ owner = "idle" /\ server = 0
  /\ listener[l] = "none" /\ \A k \in 1 .. l - 1 : listener[k] # "none"
  /\ listener' = [listener EXCEPT ![l] = "open"]
  /\ server' = l
  /\ owner' = "spawn"
  /\ UNCHANGED <<thread, held, result, late, acceptor, client>>

Spawn ==
  /\ owner = "spawn"
  /\ acceptor' = [acceptor EXCEPT ![server].at = "top"]
  /\ thread' = server
  /\ Return("started")
  /\ UNCHANGED <<server, held, listener, client>>

SpawnFails ==
  /\ owner = "spawn"
  /\ Return("raised")
  /\ UNCHANGED <<server, thread, held, listener, acceptor, client>>

-------------------------------------------------------------------------------
(* stop.                                                                       *)

StopIdle ==
  /\ owner = "idle" /\ server = 0
  /\ Return("stopped")
  /\ UNCHANGED <<server, thread, held, listener, acceptor, client>>

Unset ==
  /\ owner = "idle" /\ server # 0
  /\ held' = server
  /\ server' = 0
  /\ owner' = "close"
  /\ UNCHANGED <<thread, result, late, listener, acceptor, client>>

\* Closing the listener resets the connections in its backlog.
Close ==
  /\ owner = "close"
  /\ listener' = [listener EXCEPT ![held] = "closed"]
  /\ client' = [c \in Clients |->
       IF client[c] = Connection("queued", held)
       THEN Connection("reset", held) ELSE client[c]]
  /\ held' = 0
  /\ owner' = "join"
  /\ UNCHANGED <<server, thread, result, late, acceptor>>

\* Without the wait for the acceptor.
JoinNothing ==
  /\ owner = "join"
  /\ Return("stopped")
  /\ UNCHANGED <<server, thread, held, listener, acceptor, client>>

\* @accept_thread is nil or has ended.  join re-raises what ended it.
Join ==
  /\ owner = "join"
  /\ thread # 0 => acceptor[thread].at \in {"ended", "died"}
  /\ Return(IF thread # 0 /\ acceptor[thread].at = "died" THEN "raised" ELSE "stopped")
  /\ UNCHANGED <<server, thread, held, listener, acceptor, client>>

JoinTimesOut ==
  /\ owner = "join"
  /\ thread # 0 /\ acceptor[thread].at \notin {"ended", "died"}
  /\ owner' = "idle" /\ result' = "timed out" /\ late' = TRUE
  /\ UNCHANGED <<server, thread, held, listener, acceptor, client>>

-------------------------------------------------------------------------------
(* accept_loop, thread a.                                                      *)

ReadServer(a) ==
  /\ acceptor[a].at = "top"
  /\ acceptor' = [acceptor EXCEPT ![a] =
       IF server = 0 THEN Acceptor("ended", 0, Nobody) ELSE Acceptor("accept", server, Nobody)]
  /\ UNCHANGED <<server, thread, held, calls, listener, client>>

Accept(a, c) ==
  /\ acceptor[a].at = "accept"
  /\ client[c] = Connection("queued", acceptor[a].server)
  /\ acceptor' = [acceptor EXCEPT ![a] = Acceptor("serve", 0, c)]
  /\ client' = [client EXCEPT ![c].state = "accepted"]
  /\ UNCHANGED <<server, thread, held, calls, listener>>

\* A rescue clause that takes any interruption of accept for a stop.
AcceptGivesUp(a) ==
  /\ acceptor[a].at = "accept"
  /\ acceptor' = [acceptor EXCEPT ![a] = Acceptor("ended", 0, Nobody)]
  /\ UNCHANGED <<server, thread, held, calls, listener, client>>

\* A rescue clause that retries accept instead of leaving the loop.
AcceptRetries(a) ==
  /\ acceptor[a].at = "accept"
  /\ listener[acceptor[a].server] = "closed"
  /\ UNCHANGED vars

\* The rescue clause: the listener was closed, before or during accept.
AcceptClosed(a) ==
  /\ acceptor[a].at = "accept"
  /\ listener[acceptor[a].server] = "closed"
  /\ acceptor' = [acceptor EXCEPT ![a] = Acceptor("ended", 0, Nobody)]
  /\ UNCHANGED <<server, thread, held, calls, listener, client>>

\* Without the loop.
ServeOnce(a) ==
  /\ acceptor[a].at = "serve"
  /\ client' = [client EXCEPT ![acceptor[a].socket].state = "served"]
  /\ acceptor' = [acceptor EXCEPT ![a] = Acceptor("ended", 0, Nobody)]
  /\ UNCHANGED <<server, thread, held, calls, listener>>

Serve(a) ==
  /\ acceptor[a].at = "serve"
  /\ client' = [client EXCEPT ![acceptor[a].socket].state = "served"]
  /\ acceptor' = [acceptor EXCEPT ![a] = Acceptor("top", 0, Nobody)]
  /\ UNCHANGED <<server, thread, held, calls, listener>>

\* accept or Thread.new raises an error that is not rescued: the thread dies.
AcceptorDies(a) ==
  /\ acceptor[a].at \in {"accept", "serve"}
  /\ acceptor' = [acceptor EXCEPT ![a] = Acceptor("died", 0, Nobody)]
  /\ UNCHANGED <<server, thread, held, calls, listener, client>>

-------------------------------------------------------------------------------
(* The clients: SignerClient opens a connection per call.                     *)

OpenListeners == {l \in Listeners : listener[l] = "open"}

Connect(c) ==
  /\ client[c].state = "none"
  /\ \E l \in OpenListeners : client' = [client EXCEPT ![c] = Connection("queued", l)]
  /\ UNCHANGED <<server, thread, held, calls, listener, acceptor>>

Refused(c) ==
  /\ client[c].state = "none"
  /\ OpenListeners = {}
  /\ client' = [client EXCEPT ![c] = Connection("refused", 0)]
  /\ UNCHANGED <<server, thread, held, calls, listener, acceptor>>

Start == StartRefused \/ BindFails \/ (\E l \in Listeners : Bind(l)) \/ Spawn \/ SpawnFails

Stop == StopIdle \/ Unset \/ Close \/ Join \/ JoinTimesOut

AcceptLoop(a) ==
  \/ ReadServer(a)
  \/ AcceptClosed(a)
  \/ Serve(a)
  \/ \E c \in Clients : Accept(a, c)

Next ==
  \/ Start
  \/ Stop
  \/ \E a \in Listeners : AcceptLoop(a) \/ AcceptorDies(a)
  \/ \E c \in Clients : Connect(c) \/ Refused(c)

(* Ruby's scheduler runs every runnable thread: an acceptor goes on, and a     *)
(* call the owner has begun ends.  Nothing makes the owner begin a call.      *)
Fairness ==
  /\ \A a \in Listeners : WF_vars(AcceptLoop(a))
  /\ WF_vars(Spawn \/ SpawnFails \/ Close \/ Join \/ JoinTimesOut)

Spec == Init /\ [][Next]_vars /\ Fairness

-------------------------------------------------------------------------------
Live(a) == acceptor[a].at \in {"top", "accept", "serve"}

\* No listening socket is orphaned: an open one is @server, or the one a stop
\* that has already cleared @server is about to close.  In particular a call of
\* start never leaves an older listener accepting on the port.
NoOrphanListener ==
  \A l \in OpenListeners : l = server \/ (owner = "close" /\ l = held)

\* running? means somebody accepts: once start has returned its service, its
\* acceptor is at work until stop clears @server or an error kills it, whatever
\* acceptors of earlier, stopped listeners still do.
RunningAccepts ==
  (server # 0 /\ owner # "spawn" /\ thread = server)
    => \/ acceptor[server].at = "died"
       \/ Live(server) /\ acceptor[server].server \in {0, server}

\* A stopped service is quiet: unless a join timed out, when stop has returned
\* no acceptor of this or of an earlier listener is left that could still hand a
\* connection to a serving thread or pick up the listener of a later start.
QuietAfterStop ==
  (owner = "idle" /\ server = 0 /\ ~late) => \A a \in Listeners : ~Live(a)

\* Every connection in a listener's backlog is accepted or reset, unless the
\* listener's acceptor died of an error or start failed to spawn it.
QueuedIsSettled ==
  \A c \in Clients :
    client[c].state = "queued"
      ~> \/ client[c].state # "queued"
         \/ acceptor[client[c].listener].at = "died"
         \/ owner = "idle" /\ server # 0 /\ thread # server

\* Stopping for good ends every acceptor, those whose join timed out included:
\* none stays blocked in accept on a closed listener.
AcceptorsEnd ==
  <>[](server = 0) => <>[](\A a \in Listeners : ~Live(a))
===============================================================================
