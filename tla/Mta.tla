---------------------------------- MODULE Mta ----------------------------------
(***************************************************************************)
(* Confium::TC::Cmp20::Mta (ext/confium_native/src/tc_mta.rs): an          *)
(* initiator converts products k * x with a responder into additive shares *)
(* alpha - beta, in several exchanges at a time, over a transport that may *)
(* delay, reorder, repeat and damage the two messages of an exchange.      *)
(*                                                                         *)
(* The Paillier encryption and the two proofs are external.  A ciphertext  *)
(* is its plaintext and where it came from; a proof names the commitment   *)
(* key it was made under and the statement it is of, and verifies for that *)
(* key and statement only.                                                 *)
(***************************************************************************)
EXTENDS Integers, FiniteSets

CONSTANTS
  Exchanges,     \* the exchanges of the initiator
  Q,             \* the group order
  Secrets,       \* the secrets k and x of the two parties
  MaxResponses   \* bound: responses

ASSUME MtaAssumption == Q \in Nat \ {0} /\ Secrets \subseteq 0..Q - 1 /\ MaxResponses \in Nat

VARIABLES
  initiated,     \* the first message of each exchange, as the initiator keeps it
  responses,     \* the responses, with the secret and the share of the responder
  alpha,         \* the share the initiator got in each exchange
  fired,         \* the audit events, as pairs of operation and status
  ended          \* how the last call ended

mtaVars == <<initiated, responses, alpha, fired, ended>>

Residues == 0..Q - 1
Nothing == [of |-> "nothing"]

\* What a transport may do to a message on its way.
Conditions == {"whole", "other ciphertext", "field lost"}
Damaged(m, condition) ==
  CASE condition = "whole" -> m
    [] condition = "other ciphertext" -> [m EXCEPT !.ciphertext = Nothing]
    [] condition = "field lost" -> Nothing

\* The proofs (external): made and verified under a commitment key.
Proof(ck, statement) == [ck |-> ck, statement |-> statement]
-------------------------------------------------------------------------------
MtaInit ==
  /\ initiated = [e \in Exchanges |-> Nothing]
  /\ responses = {}
  /\ alpha = [e \in Exchanges |-> Nothing]
  /\ fired = {}
  /\ ended = [out |-> "none"]

\* The end of a call: malformed arguments raise before anything is done, the core's
\* result is audited before it is returned and its error before it is raised.
End(op, out, e, m) ==
  /\ ended' = [op |-> op, out |-> out, exchange |-> e, message |-> m]
  /\ fired' = CASE out = "ArgumentError" -> fired
                [] out = "MtaError" -> fired \cup {<<op, "failure">>}
                [] out = "ok" -> fired \cup {<<op, "success">>}

\* party_i_init: k under the initiator's key, proved under the responder's commitment key.
PartyIInit(e, k) ==
  LET c == [of |-> e, plain |-> k]
      m == [ciphertext |-> c, range_proof |-> Proof("ck_j", c)]
  IN /\ initiated[e] = Nothing
     /\ initiated' = [initiated EXCEPT ![e] = m]
     /\ End("init", "ok", e, m)
     /\ UNCHANGED <<responses, alpha>>

\* party_j_respond, to a first message as it arrived: beta is random.
PartyJRespond(e, condition, x, beta) ==
  LET m == Damaged(initiated[e], condition)
      c == [of |-> m.ciphertext, plain |-> (m.ciphertext.plain * x + beta) % Q]
      reply == [ciphertext |-> c, respondent_proof |-> Proof("ck_i", <<m.ciphertext, c>>),
                beta |-> beta]
  IN /\ initiated[e] # Nothing
     /\ IF m = Nothing THEN End("respond", "ArgumentError", e, m) /\ UNCHANGED responses
        ELSE IF m.range_proof # Proof("ck_j", m.ciphertext)
        THEN End("respond", "MtaError", e, m) /\ UNCHANGED responses
        ELSE /\ Cardinality(responses) < MaxResponses
             /\ responses' = responses \cup {[exchange |-> e, x |-> x, message |-> reply]}
             /\ End("respond", "ok", e, m)
     /\ UNCHANGED <<initiated, alpha>>

\* Mutant: the proof is checked against the statement of whatever exchange it names.
OwnStatement(e, m) == <<m.ciphertext.of, m.ciphertext>>

\* The statement party_i_finish has the proof checked against: the ciphertext of the first
\* message, which the caller hands in, and the one of the response.
FinishStatement(e, m) == <<initiated[e].ciphertext, m.ciphertext>>

\* party_i_finish, with a response as it arrived, of this exchange or of another.
PartyIFinish(e, r, condition) ==
  LET m == Damaged(r.message, condition)
  IN /\ initiated[e] # Nothing
     /\ IF m = Nothing THEN End("finish", "ArgumentError", e, m) /\ UNCHANGED alpha
        ELSE IF m.ciphertext = Nothing \/ m.respondent_proof # Proof("ck_i", FinishStatement(e, m))
        THEN End("finish", "MtaError", e, m) /\ UNCHANGED alpha
        ELSE /\ alpha' = [alpha EXCEPT ![e] = [of |-> r, share |-> m.ciphertext.plain]]
             /\ End("finish", "ok", e, m)
     /\ UNCHANGED <<initiated, responses>>

MtaNext ==
  \E e \in Exchanges :
    \/ \E k \in Secrets : PartyIInit(e, k)
    \/ \E condition \in Conditions, x \in Secrets, beta \in Residues :
          PartyJRespond(e, condition, x, beta)
    \/ \E r \in responses, condition \in Conditions : PartyIFinish(e, r, condition)

MtaSpec == MtaInit /\ [][MtaNext]_mtaVars
-------------------------------------------------------------------------------
\* The share an initiator got subtracts with the share of one response to this very
\* exchange to the product of the two secrets, however messages of several exchanges were
\* mixed up, repeated or damaged; and a whole response to its own exchange is not refused.
SharesMultiply ==
  /\ \A e \in Exchanges : alpha[e] # Nothing =>
       \E r \in responses :
         /\ r.exchange = e
         /\ alpha[e].of = r
         /\ (alpha[e].share - r.message.beta) % Q = (initiated[e].ciphertext.plain * r.x) % Q
  /\ ended.out = "MtaError" /\ ended.op = "finish" =>
       ~ \E r \in responses : r.exchange = ended.exchange /\ r.message = ended.message
================================================================================
