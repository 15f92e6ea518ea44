---------------------------- MODULE SigningSession ----------------------------
(***************************************************************************)
(* Confium::TC::SigningSession (lib/confium/tc/signing_session.rb): one    *)
(* threshold-signing session as a record, and its methods as operators on  *)
(* that record.  Coordinator and NetworkCoordinator are built from them.   *)
(*                                                                         *)
(* Ruby's Hash keyed by signer id is a function from Signers that maps a   *)
(* signer without an entry to Absent.  Messages, commitments and share     *)
(* blobs are opaque values.                                                *)
(***************************************************************************)
EXTENDS Integers, FiniteSets

CONSTANTS
  Signers,       \* the signer ids that may submit
  Commitments,   \* the byte strings submitted as commitments
  Blobs,         \* the byte strings submitted as shares
  Genuine,       \* the blobs that are shares of one key generation
  Oversized,     \* the blobs above the native layer's input size cap
  Messages,      \* the messages sessions are created for
  Thresholds,    \* the thresholds sessions are created with
  NotComparable, \* a threshold that is not a number (JSON null, a string)
  Schemes,       \* the scheme names callers ask for
  Absent         \* no entry

ASSUME SessionAssumption ==
  /\ IsFiniteSet(Signers)
  /\ Absent \notin Blobs \cup Commitments
  /\ Genuine \subseteq Blobs
  /\ Oversized \subseteq Blobs
  /\ NotComparable \notin Int
  /\ Thresholds \subseteq Int \cup {NotComparable}

SCHEMES == {"CMP20-ECDSA-P256", "GG18-ECDSA-P256"}

States == {"pending", "commitments_collected", "completed"}

Store(Values) == [Signers -> Values \cup {Absent}]

Session == [message: Messages, threshold: Thresholds, scheme: SCHEMES,
            state: States, commitments: Store(Commitments),
            shares: Store(Blobs)]

\* SigningSession#initialize past its scheme check.
NewSession(message, threshold, scheme) ==
  [message |-> message, threshold |-> threshold, scheme |-> scheme,
   state |-> "pending",
   commitments |-> [x \in Signers |-> Absent],
   shares |-> [x \in Signers |-> Absent]]

Submitters(store) == {x \in Signers : store[x] # Absent}

\* Hash#length of a store.
Count(store) == Cardinality(Submitters(store))

\* Integer#>= against a threshold that can be compared; the comparison raises
\* ArgumentError otherwise, which the callers of AtLeast model.
Comparable(threshold) == threshold # NotComparable

AtLeast(n, threshold) == Comparable(threshold) /\ n >= threshold

\* SigningSession#record past its duplicate check.
Record(store, signer, bytes) == [store EXCEPT ![signer] = bytes]

\* Mutant: the state changes one commitment early.
CollectCommitmentsEarly(s) ==
  IF AtLeast(Count(s.commitments) + 1, s.threshold)
  THEN [s EXCEPT !.state = "commitments_collected"]
  ELSE s

\* The second half of add_commitment: the state assignment under its modifier
\* if, whatever the current state is.
CollectCommitments(s) ==
  IF AtLeast(Count(s.commitments), s.threshold)
  THEN [s EXCEPT !.state = "commitments_collected"]
  ELSE s

AddCommitment(s, signer, bytes) ==
  CollectCommitments([s EXCEPT !.commitments = Record(@, signer, bytes)])

AddShare(s, signer, bytes) == [s EXCEPT !.shares = Record(@, signer, bytes)]

ThresholdMet(s) == AtLeast(Count(s.shares), s.threshold)

ShareBlobs(s) == {s.shares[x] : x \in Submitters(s.shares)}

(***************************************************************************)
(* SCHEMES.fetch(scheme).call(shares.values, threshold, message): the      *)
(* native Cmp20.sign / Gg18.sign.  Converting the arguments raises on a    *)
(* blob above the size cap and on a threshold that is no u32 ("reject").   *)
(* The combine itself is the confium-tc crates': it succeeds on a quorum   *)
(* of distinct shares of one key and fails below the threshold; on any     *)
(* other input both outcomes are possible.                                 *)
(***************************************************************************)
Combine(blobs, n, threshold) ==
  IF n < threshold \/ n = 0 THEN {"failure"}
  ELSE IF blobs \subseteq Genuine /\ Cardinality(blobs) = n THEN {"success"}
  ELSE {"success", "failure"}

SignOutcomes(s) ==
  IF ShareBlobs(s) \cap Oversized # {} \/ s.threshold < 0 THEN {"reject"}
  ELSE Combine(ShareBlobs(s), Count(s.shares), s.threshold)

-------------------------------------------------------------------------------
(* What callers of the coordinators observe: the signature aggregate returns  *)
(* (with the signers it was combined from), the audit event of the native     *)
(* sign call, and how a call ended.                                           *)

Signature == [sid: Nat, message: Messages, signers: SUBSET Signers]

\* Mutant: aggregate passes on a minimal quorum instead of all shares.
SignatureOfQuorum(sid, s) ==
  [sid |-> sid, message |-> s.message,
   signers |-> CHOOSE q \in SUBSET Submitters(s.shares) :
                 Cardinality(q) = IF s.threshold < 1 THEN 1 ELSE s.threshold]

SignatureOf(sid, s) ==
  [sid |-> sid, message |-> s.message, signers |-> Submitters(s.shares)]

Event == [result: {"success", "failure"}, algorithm: SCHEMES, payload: Messages]

EventOf(s, result) ==
  [result |-> result, algorithm |-> s.scheme, payload |-> s.message]

Errors == {"ArgumentError", "ValidationError", "NotFoundError", "ThresholdError", "reject"}

Ops == {"create", "commitment", "share", "aggregate"}

Call == [op: Ops \cup {"none"}, sid: Nat, out: Errors \cup {"ok"}]

Ended(op, sid, out) == [op |-> op, sid |-> sid, out |-> out]
===============================================================================
