------------------------------- MODULE MCThreads -------------------------------
(***************************************************************************)
(* Three places where threads meet without a lock of their own: a          *)
(* SecureBytes buffer, the OTS default client, and the Winsock probes with *)
(* their server threads, side by side.  They share no state, so a          *)
(* behaviour uses one of them.                                             *)
(***************************************************************************)
EXTENDS SecureBytes, OtsClient, WinsockProbe

VARIABLE shared

mcVars == <<shared, bufferVars, otsVars, probeVars>>

MCInit == shared \in {"client", "buffer", "probe"} /\ BufferInit /\ OtsInit /\ ProbeInit

\* The part of the state a behaviour does not use.
OnClient == shared = "client" /\ UNCHANGED <<shared, bufferVars, probeVars>>
OnBuffer == shared = "buffer" /\ UNCHANGED <<shared, otsVars, probeVars>>
OnProbe == shared = "probe" /\ UNCHANGED <<shared, bufferVars, otsVars>>

MCNext ==
  \/ OnClient /\ OtsNext
  \/ OnBuffer /\ BufferNext
  \/ OnProbe /\ ProbeNext

\* The fairness of the specifications.
MCSpec ==
  /\ MCInit /\ [][MCNext]_mcVars
  /\ \A t \in Threads : WF_mcVars(OnBuffer /\ Step(t))
  /\ WF_mcVars(OnBuffer /\ Finalize)
  /\ WF_mcVars(OnProbe /\ ProbeStep)
  /\ WF_mcVars(OnProbe /\ ServerStep)
================================================================================
