-------------------------------- MODULE Policy --------------------------------
(***************************************************************************)
(* Confium::Policy (lib/confium/policy.rb): the process-wide jurisdiction  *)
(* and FIPS switch.  One thread sets the policy, statement by statement,   *)
(* while another runs check!, which reads the two variables one after the  *)
(* other; checks only read, so one checker stands for any number.          *)
(***************************************************************************)
EXTENDS Naturals

CONSTANTS
  Bits,      \* the key sizes check! is asked about
  Nil        \* Ruby's nil

Jurisdictions == {"eu", "us", "cnml"}

ASSUME PolicyAssumption ==
  Bits \subseteq Nat /\ Nil \notin Jurisdictions /\ Nil \notin BOOLEAN

(* JURISDICTIONS holds the same thresholds under its three keys.              *)
MinBits == [rsa |-> 2048, ecdsa_p256 |-> 256, ecdsa_p384 |-> 384, ed25519 |-> 256]

Algorithms == DOMAIN MinBits \cup {"sha1"}

FipsApproved == {"ecdsa_p256", "ecdsa_p384", "rsa"}

LargeEnough(alg, bits) == alg \in DOMAIN MinBits => bits >= MinBits[alg]

VARIABLES
  jurisdiction, fips_mode,  \* @jurisdiction and @fips_mode
  setter,   \* what is left of the setter's call
  given,    \* what fips_mode= was last given; FALSE at boot and after reset!
  check     \* the check! in progress, or the last one

vars == <<jurisdiction, fips_mode, setter, given, check>>

Policies == [jurisdiction: Jurisdictions \cup {Nil}, fips: BOOLEAN]

InForce == [jurisdiction |-> jurisdiction, fips |-> fips_mode]

(* What check! says under a policy that nobody changes meanwhile.             *)
Allows(policy, alg, bits) ==
  /\ policy.fips => alg \in FipsApproved
  /\ policy.jurisdiction # Nil => LargeEnough(alg, bits)

Init ==
  /\ jurisdiction = Nil /\ fips_mode = FALSE
  /\ setter = "idle" /\ given = FALSE
  /\ check = [at |-> "none", alg |-> "rsa", bits |-> 0, seen |-> {}, sets |-> 0]

-------------------------------------------------------------------------------
(* The setters.  sets and seen keep, for the properties, the number of setter  *)
(* calls that overlap the check! and, up to one, the policies in force.        *)

Checking == check.at \in {"fips", "active", "lookup"}

Observe(begins) ==
  LET sets == IF begins THEN check.sets + 1 ELSE check.sets
      now == [jurisdiction |-> jurisdiction', fips |-> fips_mode']
  IN  check' = CASE ~Checking \/ check.sets = 2 -> check
                 [] OTHER -> [check EXCEPT !.sets = sets,
                                           !.seen = IF sets < 2 THEN @ \cup {now} ELSE {}]

\* jurisdiction=: an unknown value raises and changes nothing.
SetJurisdiction(value) ==
  /\ setter = "idle"
  /\ jurisdiction' = IF value \in Jurisdictions \cup {Nil} THEN value ELSE jurisdiction
  /\ UNCHANGED <<fips_mode, setter, given>>
  /\ Observe(TRUE)

\* fips_mode=: every argument but nil switches it on.
SetFipsMode(value) ==
  /\ setter = "idle"
  /\ fips_mode' = (value # Nil)
  /\ given' = value
  /\ setter' = "default"
  /\ UNCHANGED jurisdiction
  /\ Observe(TRUE)

DefaultJurisdiction ==
  /\ setter = "default"
  /\ jurisdiction' = IF fips_mode /\ jurisdiction = Nil THEN "us" ELSE jurisdiction
  /\ setter' = "idle"
  /\ UNCHANGED <<fips_mode, given>>
  /\ Observe(FALSE)

ResetJurisdiction ==
  /\ setter = "idle"
  /\ jurisdiction' = Nil
  /\ setter' = "fips"
  /\ UNCHANGED <<fips_mode, given>>
  /\ Observe(TRUE)

ResetFips ==
  /\ setter = "fips"
  /\ fips_mode' = FALSE
  /\ given' = FALSE
  /\ setter' = "idle"
  /\ UNCHANGED jurisdiction
  /\ Observe(FALSE)

-------------------------------------------------------------------------------
(* check!(alg, key_bits: bits).                                                *)

Goto(where) == check' = [check EXCEPT !.at = where]

policy == <<jurisdiction, fips_mode, setter, given>>

Check(alg, bits) ==
  /\ ~Checking
  /\ check' = [at |-> "fips", alg |-> alg, bits |-> bits, seen |-> {InForce},
               sets |-> IF setter = "idle" THEN 0 ELSE 1]
  /\ UNCHANGED policy

ReadFips ==
  /\ check.at = "fips"
  /\ Goto(IF fips_mode /\ check.alg \notin FipsApproved THEN "raised" ELSE "active")
  /\ UNCHANGED policy

\* return true unless @jurisdiction
ReadActive ==
  /\ check.at = "active"
  /\ Goto(IF jurisdiction = Nil THEN "true" ELSE "lookup")
  /\ UNCHANGED policy

\* The lookup with no `return true unless policy` after it.
LookupRaises ==
  /\ check.at = "lookup"
  /\ Goto(IF jurisdiction # Nil /\ LargeEnough(check.alg, check.bits) THEN "true" ELSE "raised")
  /\ UNCHANGED policy

\* JURISDICTIONS[@jurisdiction] reads @jurisdiction again: nil has no entry.
Lookup ==
  /\ check.at = "lookup"
  /\ Goto(IF jurisdiction # Nil /\ ~LargeEnough(check.alg, check.bits) THEN "raised" ELSE "true")
  /\ UNCHANGED policy

Next ==
  \/ \E value \in Jurisdictions \cup {Nil, "mars"} : SetJurisdiction(value)
  \/ \E value \in BOOLEAN \cup {Nil} : SetFipsMode(value)
  \/ DefaultJurisdiction
  \/ ResetJurisdiction \/ ResetFips
  \/ \E alg \in Algorithms, bits \in Bits : Check(alg, bits)
  \/ ReadFips \/ ReadActive \/ Lookup

Spec == Init /\ [][Next]_vars

-------------------------------------------------------------------------------
\* check! takes effect at one moment: its verdict is the one of a policy that was
\* in force at some point of the call, although it reads @fips_mode and (twice)
\* @jurisdiction separately and the setters write them separately, provided at
\* most one setter call overlaps it.
VerdictOfOnePolicy ==
  (check.at \in {"true", "raised"} /\ check.sets < 2)
    => \E p \in check.seen : Allows(p, check.alg, check.bits) = (check.at = "true")

\* fips_mode= reads back: the mode is on exactly when it was last set to true
\* ("Enable/disable FIPS 140 mode").
FipsModeIsWhatWasSet ==
  setter = "idle" => fips_mode = (given = TRUE)
===============================================================================
