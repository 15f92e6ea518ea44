---------------------------- MODULE MCCoordinator ----------------------------
(* Constants for model-checking Coordinator on small instances. *)
EXTENDS Coordinator

CONSTANTS a, b              \* signers
CONSTANTS c1, c2            \* commitments
CONSTANTS g1, g2, junk, big \* share blobs: two genuine, one not, one too large
CONSTANTS m1, m2            \* messages

CONSTANT MaxSessions        \* bound on the sessions created

AllThresholds == {-1, 0, 1, 2, 3, NotComparable}

BoundedNext == Next /\ Len(sessions') <= MaxSessions

BoundedSpec == Init /\ [][BoundedNext]_vars
================================================================================
