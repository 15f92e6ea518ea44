--------------------------- MODULE NetworkRefinement ----------------------------
(***************************************************************************)
(* NetworkCoordinator as an implementation of Coordinator: what the state  *)
(* of the registry counts as while a handler is half done, and the claim   *)
(* that, seen this way, the handlers are Coordinator's operations.         *)
(***************************************************************************)
EXTENDS NetworkCoordinator

\* While a thread is between its write and the assignment of the session state, the
\* operation has happened and the assignment counts as done.
Settled(op, s) ==
  IF op = "commitment" THEN CollectCommitments(s) ELSE [s EXCEPT !.state = "completed"]

Unsettled(sid) == {c \in Conns : pc[c] = "settle" /\ Line(c).sid = sid}

AbstractSessions ==
  [sid \in DOMAIN sessions |->
     IF Unsettled(sid) = {} THEN sessions[sid]
     ELSE Settled(Line(CHOOSE c \in Unsettled(sid) : TRUE).op, sessions[sid])]

Coord == INSTANCE Coordinator WITH sessions <- AbstractSessions

\* Nobody calls the Coordinator past the mutex.
Synchronized == \A c \in Conns : peer[c] # "direct"

\* Seen from outside, concurrent connections behave like one caller of the in-process
\* Coordinator: its specification holds of the mapped state, for as long as the embedding
\* program keeps its own threads off the Coordinator it passed in.
ImplementsCoordinator == Coord!Init /\ [][Synchronized' => Coord!Next]_(Coord!vars)
================================================================================
