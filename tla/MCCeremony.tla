------------------------------ MODULE MCCeremony ------------------------------
(***************************************************************************)
(* What parties do together without a coordinator, side by side:           *)
(* ceremonies of per-party sessions, MtA exchanges, and keygens kept in    *)
(* share files.  They share no state, so a behaviour uses one of them.     *)
(***************************************************************************)
EXTENDS TcSession, ShareFile, Mta

VARIABLE api

vars == <<api, ceremonyVars, shareVars, mtaVars>>

Init == api \in {"session", "file", "mta"} /\ CeremonyInit /\ ShareInit /\ MtaInit

Next ==
  \/ api = "session" /\ CeremonyNext /\ UNCHANGED <<api, shareVars, mtaVars>>
  \/ api = "file" /\ ShareNext /\ UNCHANGED <<api, ceremonyVars, mtaVars>>
  \/ api = "mta" /\ MtaNext /\ UNCHANGED <<api, ceremonyVars, shareVars>>

\* Every party's driver goes on while its session has something to do.
Fairness ==
  \A p \in Parties :
    WF_vars(api = "session" /\ Drive(p) /\ UNCHANGED <<api, shareVars, mtaVars>>)

Spec == Init /\ [][Next]_vars /\ Fairness

\* The ceremony is the business of the sessions.
SessionsComplete == api = "session" => CeremonyCompletes
================================================================================
