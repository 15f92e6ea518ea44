------------------------- MODULE MCNetworkCoordinator -------------------------
(* Constants for model-checking NetworkCoordinator on small instances. *)
EXTENDS NetworkRefinement

CONSTANTS a, b          \* signers
CONSTANTS k1, g1, g2    \* a commitment, two genuine shares
CONSTANTS big           \* a share over the native size limit
CONSTANTS m1, m2        \* messages
CONSTANTS c1, c2        \* connections

Create(m, t) == [op |-> "create", message |-> m, threshold |-> t, scheme |-> "CMP20-ECDSA-P256"]
Submit(op, x, v) == [op |-> op, sid |-> 1, signer |-> x, bytes |-> v]

Sign == [op |-> "aggregate", sid |-> 1]

\* Two clients that create, submit for the same signer and aggregate, and what the
\* handlers refuse.
MCScripts ==
  {<<Create(m1, 1), Submit("share", a, g1), Submit("commitment", a, k1), Sign>>,
   <<Create(m2, 2), Submit("commitment", b, k1)>>,
   <<Submit("share", a, g2), Sign>>,
   <<Submit("commitment", a, k1), Submit("share", b, big)>>,
   <<Create(m1, 0), Sign>>,
   <<Create(m1, NotComparable), Submit("commitment", a, k1)>>,
   <<[Create(m1, 1) EXCEPT !.scheme = "RSA"]>>,
   <<[op |-> "invalid"]>>,
   <<[op |-> "malformed"], Sign>>}

\* The embedding program aggregates.
MCDirectCalls == {<<Sign>>}
================================================================================
