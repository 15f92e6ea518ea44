----------------------------- MODULE WinsockProbe -----------------------------
(***************************************************************************)
(* The Windows socket probes of the extension (winsock.rs): probe, once    *)
(* when the extension is loaded, and probe_on_demand.  Each is a sequence  *)
(* of cells: open a raw listener, connect clients to it and talk, then     *)
(* dispose of the listener, either by a blocking accept in the probing     *)
(* thread (drain) or by joining a server thread that accepts (push sends   *)
(* one byte, silent and mute send nothing; mute never closes what it       *)
(* accepted).  Any winsock call may fail: that is what is being probed.    *)
(***************************************************************************)
EXTENDS Naturals, Sequences

CONSTANTS
  MaxRuns     \* calls of probe_on_demand after the load

ASSUME ProbeAssumption == MaxRuns \in Nat

Cell(connects, server, talk) == [connects |-> connects, server |-> server, talk |-> talk]

(* probe_address_resolution_split, the one cell of the probe at load.         *)
LoadCells == << Cell(1, "drain", "nothing") >>

(* probe_on_demand.  The first cell makes four connections, two raw and two   *)
(* of std; "timed read" is probe (i), "read" a blocking read, "std poll" and  *)
(* "poll" the two reads of probe (l) on a nonblocking socket.                 *)
DemandCells ==
  << Cell(4, "drain", "nothing"), Cell(1, "drain", "write"), Cell(1, "drain", "write"),
     Cell(1, "drain", "timed read"), Cell(1, "drain", "write"),
     Cell(1, "push", "read"), Cell(1, "push", "read"), Cell(1, "push", "read"),
     Cell(1, "push", "read"), Cell(1, "push", "read"),
     Cell(1, "mute", "std poll"), Cell(1, "silent", "poll") >>

VARIABLES
  probed,     \* PROBED
  runs,       \* calls of probe_on_demand begun
  cells,      \* the cells left; the first is the current one
  at,         \* where the probing thread is
  remaining,  \* connections the current cell has still to attempt
  made,       \* connections the current cell has made to its listener
  server,     \* where the cell's server thread is
  listening,  \* the listener's handle is open
  accepted,   \* accepted handles that are open
  sent,       \* the server's byte, its close or a reset has reached the client
  dropped     \* accepted handles nobody holds any more

probeVars == <<probed, runs, cells, at, remaining, made, server, listening, accepted, sent,
               dropped>>

handles == <<listening, accepted, sent, dropped>>

ProbeInit ==
  /\ probed = FALSE /\ runs = 0 /\ cells = <<>> /\ at = "idle" /\ remaining = 0
  /\ made = 0 /\ server = "none" /\ listening = FALSE
  /\ accepted = 0 /\ sent = FALSE /\ dropped = 0

-------------------------------------------------------------------------------
Current == Head(cells)

\* The swap of PROBED: a second load does nothing.
Load ==
  /\ at = "idle" /\ ~probed
  /\ probed' = TRUE
  /\ cells' = LoadCells /\ at' = "listen"
  /\ UNCHANGED <<runs, remaining, made, server, handles>>

Demand ==
  /\ at = "idle" /\ probed /\ runs < MaxRuns
  /\ runs' = runs + 1
  /\ cells' = DemandCells /\ at' = "listen"
  /\ UNCHANGED <<probed, remaining, made, server, handles>>

(* The end of a cell.                                                         *)
NextCell ==
  /\ cells' = Tail(cells)
  /\ at' = IF Len(cells) > 1 THEN "listen" ELSE "idle"

\* A failed listen that leaves the bound socket open.
ListenFailsOpen ==
  /\ at = "listen"
  /\ IF Current.connects = 4 THEN cells' = <<>> /\ at' = "idle" ELSE NextCell
  /\ listening' = TRUE
  /\ UNCHANGED <<probed, runs, remaining, made, server, accepted, sent, dropped>>

\* raw_listener: every failing step closes the socket.  Without its first
\* listener probe_on_demand returns; another cell is skipped.  (The code still
\* calls ffi_recv_probe after a failed push_listener; nothing listens on the
\* port it holds, so its connect fails and closes its socket: the same states.)
ListenFails ==
  /\ at = "listen"
  /\ IF Current.connects = 4 THEN cells' = <<>> /\ at' = "idle" ELSE NextCell
  /\ UNCHANGED <<probed, runs, remaining, made, server, handles>>

\* getsockname fails at load: nothing connects and nothing is accepted.
NoPort ==
  /\ at = "listen" /\ cells = LoadCells
  /\ NextCell
  /\ UNCHANGED <<probed, runs, remaining, made, server, handles>>

Listen ==
  /\ at = "listen"
  /\ listening' = TRUE
  /\ made' = 0 /\ sent' = FALSE
  /\ server' = IF Current.server = "drain" THEN "none" ELSE "accept"
  /\ remaining' = Current.connects
  /\ at' = "connect"
  /\ UNCHANGED <<probed, runs, cells, accepted, dropped>>

-------------------------------------------------------------------------------
(* The clients.  ffi_connect and its kin close their socket on every path,    *)
(* std closes a stream that goes out of scope.                                *)

After == IF remaining > 1 THEN "connect" ELSE "dispose"

Connect ==
  /\ at = "connect" /\ listening
  /\ made' = made + 1
  /\ remaining' = remaining - 1
  /\ at' = IF Current.talk = "nothing" THEN After ELSE "talk"
  /\ UNCHANGED <<probed, runs, cells, server, handles>>

ConnectFails ==
  /\ at = "connect"
  /\ remaining' = remaining - 1
  /\ at' = After
  /\ UNCHANGED <<probed, runs, cells, made, server, handles>>

\* A write returns, and so does a read once its timeout or the nonblocking mode is set;
\* the poll of the FFI returns without reading when it could not be set.
Talk ==
  /\ at = "talk" /\ Current.talk # "read"
  /\ at' = "dispose"
  /\ UNCHANGED <<probed, runs, cells, remaining, made, server, handles>>

\* set_read_timeout fails, which is only logged, or set_nonblocking(true), which nobody
\* looks at: the read that follows waits.
ModeNotSet ==
  /\ at = "talk" /\ Current.talk \in {"timed read", "std poll"}
  /\ at' = "waiting read"
  /\ UNCHANGED <<probed, runs, cells, remaining, made, server, handles>>

Reading == at = "waiting read" \/ (at = "talk" /\ Current.talk = "read")

Read ==
  /\ Reading /\ sent
  /\ at' = "dispose"
  /\ UNCHANGED <<probed, runs, cells, remaining, made, server, handles>>

\* The read itself fails.
ReadFails ==
  /\ Reading
  /\ at' = "dispose"
  /\ UNCHANGED <<probed, runs, cells, remaining, made, server, handles>>

-------------------------------------------------------------------------------
(* Disposing of the listener.                                                 *)

\* drain_accepted: accept waits for a connection; both handles are closed.
Drain ==
  /\ at = "dispose" /\ Current.server = "drain"
  /\ made > 0
  /\ listening' = FALSE
  /\ NextCell
  /\ UNCHANGED <<probed, runs, remaining, made, server, accepted, sent, dropped>>

\* accept fails, without waiting.
DrainFails ==
  /\ at = "dispose" /\ Current.server = "drain"
  /\ listening' = FALSE
  /\ NextCell
  /\ UNCHANGED <<probed, runs, remaining, made, server, accepted, sent, dropped>>

Join ==
  /\ at = "dispose" /\ Current.server # "drain"
  /\ server = "ended"
  /\ NextCell
  /\ UNCHANGED <<probed, runs, remaining, made, server, handles>>

\* The server threads.  One that goes back to accept:
AcceptAgain ==
  /\ server = "accept" /\ made > 0
  /\ sent' = TRUE
  /\ UNCHANGED <<probed, runs, cells, at, remaining, made, server, listening, accepted, dropped>>

Accept ==
  /\ server = "accept" /\ made > 0
  /\ accepted' = accepted + 1
  /\ server' = "serve"
  /\ UNCHANGED <<probed, runs, cells, at, remaining, made, listening, sent, dropped>>

AcceptFails ==
  /\ server = "accept"
  /\ server' = "ended"
  /\ listening' = FALSE
  /\ sent' = TRUE
  /\ UNCHANGED <<probed, runs, cells, at, remaining, made, accepted, dropped>>

\* Send or sleep, then close; the mute server's `_acc` is a plain integer, so its
\* client is sent nothing and sees no close.
Serve ==
  /\ server = "serve"
  /\ server' = "ended"
  /\ sent' = (Current.server # "mute")
  /\ listening' = FALSE /\ accepted' = 0
  /\ dropped' = IF Current.server = "mute" THEN dropped + 1 ELSE dropped
  /\ UNCHANGED <<probed, runs, cells, at, remaining, made>>

ProbeStep ==
  \/ ListenFails \/ NoPort \/ Listen
  \/ Connect \/ ConnectFails
  \/ Talk \/ ModeNotSet \/ Read
  \/ Drain \/ Join

ServerStep == Accept \/ Serve

ProbeNext == Load \/ Demand \/ ProbeStep \/ ServerStep \/ ReadFails \/ DrainFails \/ AcceptFails

(* Both threads are scheduled; accept, join and a read that is left blocking   *)
(* wait, and nothing makes an accept or a read that could wait fail instead.   *)
ProbeSpec ==
  /\ ProbeInit /\ [][ProbeNext]_probeVars
  /\ WF_probeVars(ProbeStep) /\ WF_probeVars(ServerStep)

-------------------------------------------------------------------------------
\* Probing leaves no socket behind but the one the mute server drops: when a cell
\* begins or the probes are over, no listener and no accepted handle is open, on
\* any path of failing calls, and each call drops at most one handle.
HandlesAreClosed ==
  /\ at \in {"idle", "listen"} => ~listening /\ accepted = 0
  /\ dropped <= runs

(* An accept, or the join of a thread in it, that no connection of the cell    *)
(* will satisfy; or a read left blocking that nothing will wake: its listener   *)
(* is this thread's to accept on, or the mute server has come and gone.        *)
Stuck ==
  \/ at = "dispose" /\ made = 0 /\ server # "ended"
  \/ at = "waiting read" /\ ~sent /\ server \in {"none", "ended"}

\* A probe ends unless its own listener was never reached or a socket kept blocking
\* although the probe asked otherwise: every run comes back, or waits on an accept that
\* no connection of the cell will satisfy, or on a read that should not have waited.
ProbeEndsOrIsStuck == at # "idle" ~> (at = "idle" \/ Stuck)
===============================================================================
