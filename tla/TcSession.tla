------------------------------- MODULE TcSession -------------------------------
(***************************************************************************)
(* Confium::TC::Session (ext/confium_native/src/tc_session.rs): every      *)
(* party runs the driver loop of that file's head on sessions of its own,  *)
(* a key generation by all parties and then a signing by some of them.     *)
(* Messages are broadcasts that a transport may delay, reorder and deliver *)
(* damaged before it delivers them whole.  The driver and the protocol     *)
(* core behind the binding are external: the driver hands over a round's   *)
(* messages together, and the core refuses one it already has and is       *)
(* complete after its last round.  What the core makes of a round that is  *)
(* handed over early or in parts is not in this repository.                *)
(***************************************************************************)
EXTENDS Integers, FiniteSets, Sequences

CONSTANTS
  Parties,     \* the ids given as :parties
  Signing,     \* the parties that sign
  Rounds,      \* the rounds of a protocol
  MaxDamage    \* bound: damaged deliveries

ASSUME CeremonyAssumption ==
  /\ IsFiniteSet(Parties) /\ Signing \subseteq Parties
  /\ Rounds \in Nat \ {0} /\ MaxDamage \in Nat

VARIABLES
  session,     \* each party's session of each scheme, or NoSession
  sent,        \* the messages broadcast so far
  damaged,     \* the damaged deliveries so far
  outcome      \* how each party's last call ended

ceremonyVars == <<session, sent, damaged, outcome>>

Schemes == {"dkg", "sign"}

Participants == [dkg |-> Parties, sign |-> Signing]

NoSession == [round |-> 0, complete |-> FALSE, taken |-> {}, open |-> FALSE]

Message(scheme, p, r) == [scheme |-> scheme, from |-> p, round |-> r]

CeremonyInit ==
  /\ session = [p \in Parties |-> [s \in Schemes |-> NoSession]]
  /\ sent = {}
  /\ damaged = 0
  /\ outcome = [p \in Parties |-> "none"]
-------------------------------------------------------------------------------
Ends(p, out) == outcome' = [outcome EXCEPT ![p] = out]

\* Session.new with options it refuses: none at all, fewer than two parties, a threshold
\* or index that is missing or no Integer.
NewRefused(p) ==
  /\ Ends(p, "ArgumentError")
  /\ UNCHANGED <<session, sent, damaged>>

\* result: the core has one only when it is complete.
ResultRefused(p, scheme) ==
  /\ session[p][scheme].open /\ ~ session[p][scheme].complete
  /\ Ends(p, "Error")
  /\ UNCHANGED <<session, sent, damaged>>

\* Session.new: a signing session is given the result of the party's key generation.
New(p, scheme) ==
  /\ p \in Participants[scheme]
  /\ ~ session[p][scheme].open
  /\ scheme = "sign" => session[p]["dkg"].complete
  /\ session' = [session EXCEPT ![p][scheme].open = TRUE]
  /\ Ends(p, "ok")
  /\ UNCHANGED <<sent, damaged>>

\* What the driver hands to round_step: nothing at first, then the messages of this round
\* from every other participant, in the order they arrived.
Others(p, scheme) == Participants[scheme] \ {p}

Arrived(p, scheme) ==
  LET r == session[p][scheme].round
  IN r = 0 \/ \A q \in Others(p, scheme) : Message(scheme, q, r) \in sent
Batch(p, scheme) ==
  LET r == session[p][scheme].round
  IN IF r = 0 THEN {} ELSE {Message(scheme, q, r) : q \in Others(p, scheme)}

\* Mutant: every message goes to the core as soon as it is parsed.
TakenAsParsed(s, parsed) == [s EXCEPT !.taken = @ \cup parsed]

\* parse_messages raises at the first message that is no Hash, lacks a field or has one of
\* the wrong type; what it parsed before is dropped with it.
Refused(s, parsed) == s

RoundStepRefused(p, scheme) ==
  /\ session[p][scheme].open /\ ~ session[p][scheme].complete
  /\ Arrived(p, scheme) /\ Batch(p, scheme) # {}
  /\ damaged < MaxDamage
  /\ \E parsed \in SUBSET Batch(p, scheme) :
       /\ parsed # Batch(p, scheme)
       /\ session' = [session EXCEPT ![p][scheme] = Refused(@, parsed)]
  /\ damaged' = damaged + 1
  /\ Ends(p, "ArgumentError")
  /\ UNCHANGED sent

\* round_step of the core (external), and its outgoing message, if it has one, broadcast.
Stepped(s, batch) ==
  [s EXCEPT !.round = @ + 1, !.complete = (s.round = Rounds), !.taken = @ \cup batch]
RoundStep(p, scheme) ==
  LET s == session[p][scheme]
      batch == Batch(p, scheme)
  IN /\ s.open /\ ~ s.complete
     /\ Arrived(p, scheme)
     /\ IF batch \cap s.taken = {}
        THEN /\ session' = [session EXCEPT ![p][scheme] = Stepped(s, batch)]
             /\ sent' = IF s.round = Rounds THEN sent
                        ELSE sent \cup {Message(scheme, p, s.round + 1)}
             /\ Ends(p, "ok")
        ELSE Ends(p, "Error") /\ UNCHANGED <<session, sent>>
     /\ UNCHANGED damaged

Drive(p) == \E scheme \in Schemes :
              New(p, scheme) \/ RoundStep(p, scheme) \/ RoundStepRefused(p, scheme)

CeremonyNext ==
  \E p \in Parties :
    \/ Drive(p)
    \/ NewRefused(p)
    \/ \E scheme \in Schemes : ResultRefused(p, scheme)

CeremonySpec == CeremonyInit /\ [][CeremonyNext]_ceremonyVars
-------------------------------------------------------------------------------
\* Every party completes the key generation and every signer the signing, whatever was
\* damaged on the way: a refused batch can be handed over again.
CeremonyCompletes ==
  <>(\A scheme \in Schemes : \A p \in Participants[scheme] : session[p][scheme].complete)
================================================================================
