------------------------------- MODULE MCAudit -------------------------------
(* Constants for model-checking Audit on small instances. *)
EXTENDS Audit

CONSTANTS o1, o2, o3
==============================================================================
