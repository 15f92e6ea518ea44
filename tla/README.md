# Confium for Ruby: TLA+ models and proofs

This directory holds TLA+ models of the confium-ruby library, the TLC configurations that
check them on small instances, and TLAPS proofs of the properties that matter most.
`PROJECT.json` lists the runs, the source lines behind every definition (`map`), the hazards
the properties are aimed at, and the theorems.

## The system

| Part | State | Operations | What makes it hard |
|---|---|---|---|
| SigningSession (`lib/confium/tc/signing_session.rb`) | state, commitments and shares keyed by signer | add_commitment, add_share, aggregate | calls in any order, also after completion; unchecked thresholds; a combine that fails halfway |
| Coordinator (`tc/coordinator.rb`) | the session registry | create_session, submit_*, aggregate, session_state | key derived from the registry size; no synchronisation of its own |
| NetworkCoordinator (`tc/network_coordinator.rb`) | mutex, one thread and socket per connection, listener | serve, dispatch, the four handlers, start, stop, accept_loop | thread switches inside handlers, callers past the mutex, pipelined lines, clients that vanish, lost replies and resends, errors that end a connection |
| SignerClient (same file) | one connection per call | create_session, submit_*, aggregate | a reply lost after the request took effect |
| Audit (`ext/.../audit.rs`, `lib/confium/audit.rb`) | the process-wide sink; records of the sinks | fire_event, record, sink=, write, clear, close | the sink changes between being read and being called; it raises |
| OtlpSink (`lib/confium/audit/otlp_sink.rb`) | retry counter, dropped counter | write, deliver | refusals, exceptions, answers lost after ingestion, several threads |
| TC::Session (`ext/.../tc_session.rs`) | a round protocol per party | new, round_step, result | batches that arrive late or damaged |
| MtA (`ext/.../tc_mta.rs`) | none; the messages of an exchange | party_i_init, party_j_respond, party_i_finish | messages of several exchanges mixed up, repeated, damaged |
| ShareFile (`tc/share_file.rb`) | a file | save, load | writes cut short, processes that save and load at once |
| Composite (`composite.rs`, `composite.rb`) | components and their cached JSON | new, verify, to_json, from_json | an Array shared with the caller, encodings, verifier dispatch |
| CMS (`pki.rs`, `signed_data_builder.rb`) | a builder, documents | content, add_signer, build, from_json, verify_signatures | a builder used again, several signers, foreign documents |
| OpenPGP (`openpgp.rb`, `openpgp_verify.rs`) | none; a context per call | armor, dearmor, verify | rewrapped and damaged text |
| Policy (`policy.rb`) | process-wide switches | setters, check! | setters that overlap a check |
| SecureBytes (`secure_bytes.rb`) | a buffer and a cleared flag | bytes, bytes!, clear, finalizer | clear against readers |
| OpenTimestamps (`ots.rs`, `ots.rb`, `gvl.rs`) | a client cell | stamp, upgrade | the lock of the interpreter is released while the cell is borrowed |
| Transparency log (`transparency.rs`) | a growing Merkle log | append, proofs | proofs against a root that moved on |
| Winsock shim (`winsock.rs`) | socket table | the probes | calls that fail halfway, on Windows only |

A signing goes through SignerClient, NetworkCoordinator, Coordinator and SigningSession to the
native combine, which reports to Audit. The ceremonies that need no coordinator (TC::Session,
MtA) and the share files feed the same combine. The other parts stand beside this path.

## Modules

**SigningSession** – a session as a record; `NewSession`, `AddCommitment`, `AddShare`,
`ThresholdMet` and the two halves of `add_commitment` (`Record`, `CollectCommitments`) as
operators. A Ruby Hash keyed by signer is a function from `Signers` with `Absent` for no
entry. Commitments, share blobs and messages are opaque. The native `sign` is the operator
`SignOutcomes`: it refuses oversized blobs and negative thresholds (the conversion to `u32`
and the 1 MiB cap), and otherwise yields what the external combine may do: succeed on a
quorum of distinct shares of one key, fail below the threshold, either on anything else.

**Coordinator** – the registry; every public method is one action per way it can end.
Session ids are `session-1`, `session-2`, ... and nothing is deleted, so the Hash is a
sequence. `issued` and `events` are histories of the signatures returned and the audit events
fired; `last` is how the most recent call ended.

**NetworkCoordinator** – the threads of `serve`. `pc[c]` walks through read, lock, check,
apply, settle, unlock, write, fail and closed. A handler is split where a thread switch could
be seen: what it reads and refuses, what it writes, and the state assignment that follows.
`sent` and `pos` are the client's lines and how many were read; `got` pairs every reply a
client received with its line. Clients vanish at any point; then a write either disappears in
a buffer or raises. A Coordinator passed in by the embedding program can also be called by that
program's own threads: such a caller (`CallDirectly`) runs the same statements without the
mutex.

**NetworkRefinement** – `AbstractSessions`, the mapping from NetworkCoordinator to Coordinator:
between the write of a handler and its state assignment, the assignment counts as done.

**Listener** – `start`, `stop` and `accept_loop`, statement by statement, for one owner and the
acceptor threads its starts leave behind. An acceptor whose join timed out goes on reading
`@server`; `accept` may raise what the rescue names (the loop ends or goes on) or what it does
not (the acceptor dies). Clients connect to whichever listener is open.

**Audit** – operations that compute a result and then report it. `op[o]` holds where an operation
is, the result it computed, the sink it read and its delivery attempt. Replacing, closing and
clearing sinks are separate actions of other threads. A collector may have ingested a record
although it refused it or never answered; `refused` counts the refusals of an operation's posts.
`@dropped += 1` is one step: MRI checks for a thread switch at calls and loop edges, not between
this read and write of an Integer.

**TcSession** – every party runs the documented driver loop on sessions of its own, a key
generation by all and then a signing by some. Messages are broadcasts that arrive in any order;
a batch may arrive damaged, is refused by `parse_messages` and handed over again. The driver and
the round protocol are not in this repository and are marked external: the driver hands over the
messages of a round together, as the loop in the head of `tc_session.rs` does, and the core
refuses a message it has. What the core makes of a round that is stepped early or in parts
is the crate's business and nothing is claimed about it.

**Mta** – the three passes of an exchange, with the responder's share, the two proofs and the
audit events. A ciphertext is its plaintext and where it came from; a proof verifies for one
commitment key and one statement only (external). Products are computed modulo `Q`.

**ShareFile** – processes that share a path. `save` is an open that truncates and a write that
may be cut short (full disk, killed process) or overlap another; `load` parses what is there.
A file is a sequence of cells, so a torn file is visible as such. `from_json` does not
compare the number of shares with `party_count`, so a mixed file may well load.

**Composite** – components collected in a caller's Array, Signature objects built from it, and
JSON documents sent and revived. A String is its bytes and whether its encoding is ASCII-8BIT,
because `components_to_json` hexes only the latter.

**SignedData** – the CMS builder as a state machine that is used again, its documents and
foreign ones, and `verify_signatures` with its choice of the first certificate and the first
signer's algorithm. Of a certificate only the last 32 or 65 bytes matter, which are taken for the
raw key: a DER-encoded public key ends in it, an X.509 certificate in its issuer's signature
(`NoKey`), so a document verifies only when the caller passed the former as `cert_der`.

**Armor** – `armor` and `dearmor` with the base64 alphabet as numbers and the CRC-24 in the
code's arithmetic (bitwise, 24 bits), over a transport that rewraps, adds headers, damages a
character or loses a line.

**Policy** – `jurisdiction=`, `fips_mode=`, `reset!` and `check!`, split at the reads and writes
of the two module variables. `check.seen` and `check.sets` are histories: the policies in force
during a check and the setter calls that overlapped it. All three jurisdictions have the same
table in the code, so the table is one function.

**SecureBytes** – one buffer; a method is the sequence of its statements and each statement a
step of its thread. `alone` records whether another call wrote the object meanwhile.

**OtsClient** – the memoised default client and `stamp`/`upgrade`, with the `RefCell` borrow
held while the interpreter lock is released. Three facts about code outside the repository are
assumed, not tested: a second `borrow_mut` panics, magnus turns a panic into Ruby's `fatal`,
and `rb_thread_call_without_gvl` raises a pending interrupt with a `longjmp` that runs no Rust
destructor.

**MerkleLog** – the log, the proofs and roots an auditor kept, and the inclusion verifiers. Hashes
are injective terms. The tree belongs to the confium-transparency crate and is marked external; the
leaf and node hashing of the verifiers is the binding's own. Consistency proofs are made and
checked by the crate and left out. The tree is built level by level, neighbours joined and an odd
last node moved up, which gives the roots and paths of RFC 6962's recursive split; four levels are
written out, so a log has at most sixteen entries (`MerkleAssumption`).

**WinsockProbe** – the probe at load and `probe_on_demand` as sequences of cells (listen,
connect, talk, dispose), with the server threads of the cells that have one. Every winsock call
may fail, `set_read_timeout` and `set_nonblocking` included, after which the read waits; probes
that open one socket and close it are left out.

`MCCoordinator`, `MCNetworkCoordinator` and `MCAudit` give constants their values and, for the
coordinator, bound the number of sessions. `MCThreads` (SecureBytes, OtsClient, WinsockProbe),
`MCCeremony` (TcSession, Mta, ShareFile) and `MCVerification` (Composite, SignedData, Armor,
MerkleLog, Policy) put modules that share no state side by side: a behaviour uses one of them, so
each is checked exactly as it would be alone. Modules that are put together, here or in a `*Proofs`
module, keep their names apart (`BufferSpec`, `OtsSpec`, `CeremonySpec`, `ShareSpec`, `MtaSpec`,
`CompositeSpec`, `CmsSpec`, `LogSpec`, `ProbeSpec`). The `*Proofs` modules hold the theorems.

## Runs

| Run | What it shows |
|---|---|
| coordinator_one | one session, two signers, thresholds -1 to 3 and one that is no number, genuine, junk and oversized shares, a known and an unknown scheme: quorum, state, audit trail, finality of submissions, and that a raise changes nothing (but see below) |
| network | two connections, or a connection and a caller past the mutex, in every interleaving and with a hang-up at every moment; malformed lines, unknown schemes, unusable thresholds and oversized shares among the lines. What clients were told stays true (`AcknowledgedIsRecorded`, `RepliesAreBacked`), an error ends its connection, connections end, and connections alone implement Coordinator |
| listener_restart | three starts with stops in between, two clients: no listener without an owner, a running service has an acceptor or lost it to an unrescued error, nothing is accepted after an orderly stop, backlogs and acceptors settle |
| audit_sinks | two operations and all five kinds of sink: the signing result survives the sink, nothing is lost silently, the collector has a record again only for a refusal it answered and at most `retries + 1` times, the drop counter is exact, every call returns |
| threads | two threads over one SecureBytes buffer: the flag tells the truth, undisturbed calls keep their contract, overwriting ends in cleared, and exit overwrites what nobody cleared; two threads over the OTS client, with interrupts: the borrow follows the calls in flight, only overlapping or interrupted calls end the process; the load and two probe calls on every path of failing calls: handles are closed, and a probe ends or is stuck in one of two ways, waiting for a connection nobody made or for data nobody sends |
| verification | what a positive answer means: composite signatures sent on as JSON while their Array changes, CMS documents of a builder that is used again and of foreign origin, armored text on an unreliable way, up to six log entries over two artifacts with a kept inclusion proof that verifies against the root and the leaf it was made for and no other, and a policy check that overlaps at most one setter call and gives the verdict of a policy that was in force |
| ceremony | three parties generate a key and two sign while batches arrive damaged: everybody completes; MtA shares multiply whatever was mixed up; a loaded share file is one keygen's, whatever was cut short |

Five runs end in a violation, each a disagreement between the documentation and the code:

- `coordinator_regress`: a commitment after completion takes the state back
  (`signing_session.rb:48` against the chain in lines 10-11).
- `policy_fips`: `fips_mode = false` switches FIPS mode on (`policy.rb:80` tests for nil; the
  comment in line 75 says "Enable/disable", and `docs/cnml-profile.mdx:118` assigns false).
- `audit_retries`: an HTTP exception drops an audit record at the first attempt
  (`otlp_sink.rb:61` against lines 19-22 and `spec/confium/audit_otlp_spec.rb:157`, "drops the
  record only after the retries are exhausted"); only refusals are retried.
- `cms_algorithms`: `verify_signatures` uses the first signer's algorithm for all signers
  (`pki.rs:271-272` against 257-258, "found in each signer_info").
- `composite_stale`: `Signature#to_json` serializes the caller's Array as it is at that moment
  (`composite.rb:40` against lines 19-20, "the components this instance was built from").

Further disagreements met while modelling, which no run checks:

- a repeated aggregation is not over the same shares once a further signer submitted
  (`signing_session.rb:53` against lines 14-16); what does hold is `RetryExtendsShares`;
- verification and encryption fire no audit event (`audit.rb:5-7`);
- no signing or verification operation calls `Policy.check!` (`policy.rb:13-14`,
  `docs/policy.mdx:16-17`), and `check!` passes SHA-1, which has no entry in the tables
  (`policy.rb:112` against `docs/policy.mdx:54-55`);
- two setter calls that overlap one check can yield a verdict of no policy that was in force;
- the SecureBytes finalizer refers to its object, so it runs at exit and not at collection
  (`secure_bytes.rb:109` against lines 39-40);
- an overlapping or an interrupted `stamp` or `upgrade` leads to a panic where
  `transparency/ots.rb:29` documents IOError and ArgumentError (`ots.rs:115`, `gvl.rs:48`), under
  the assumptions named above;
- the probe at load waits for ever when its own connection failed (`winsock.rs:248` against
  line 64, "safe to call from init");
- a failed consistency check raises VerificationError, not RuntimeError
  (`transparency.rs:98`);
- `dearmor` takes "arbitrary line widths" (`openpgp.rb:73-74`) except one that breaks a line
  right before a pad, and then raises ArgumentError where lines 81-82 promise ParseError;
- `Signature#to_json` leaves binary fields in UTF-8 unhexed (`composite.rb:19-20`);
- the project's README calls share files encrypted (`README.adoc:163`); `save` writes plain
  JSON.

Three limits that no document denies and that shape the properties. `ShareFile.save` truncates
before it writes: an interrupted save loses the envelope that was there, and overlapping saves
may leave an unreadable or mixed file (`LoadIsOneKeygen` is about saves that do not overlap).
The Coordinator has no lock of its own: calls past the mutex of the NetworkCoordinator are not
atomic, so `ImplementsCoordinator` speaks of the time before the first one. Of such calls the
network run has aggregations, under which the replies stay true; direct creations and
submissions can overwrite each other and are left to the embedding program's own lock. What a
verifier callback of Composite returns is converted to a Boolean by the binding library;
the model has callbacks that answer true or false, or raise.

`RaiseLeavesRegistry` has one exception built in: a commitment to a session whose threshold
does not compare is stored before the comparison raises.

**Bounds.** Two signers are enough for a duplicate, a quorum of two and a quorum that is missed;
two connections for every race on the mutex; scripts of up to four lines for create, submit,
aggregate in one connection against the same in another. One retry distinguishes the first, a
repeated and the last attempt of a delivery. Three starts let an acceptor outlive two later
listeners. Two key sizes, below and at the RSA minimum, separate every verdict of the policy. Two
threads suffice for SecureBytes and OtsClient, where a third could only repeat what a second does
to the shared cell. Six leaves give a tree with perfect and ragged subtrees on both sides. Three
parties, two of them signers, with two rounds and two damaged batches let one party be a round
ahead while another is refused. Two processes and three keygens of two sizes let a short envelope
follow a long one. Two exchanges with two responses over residues modulo 3 mix up every message.
Originals of zero to four bytes cover all paddings of base64, widths below, at and above the line
length all rewrappings, and three changes a damaged character with a lost line and a rewrapping; a
CRC of 24 bits can collide, so `DearmorIsFaithful` is a statement about these originals and not
about all. One session at a time is checked by TLC; that sessions do not mix is proved for any
number of them.

**Fairness.** Weak fairness of each connection thread and of each operation: Ruby schedules
every runnable thread, the native combine returns, and Net::HTTP exchanges time out. Clients,
and whoever replaces sinks, are under no fairness. Acceptors, the owner within `start` and
`stop`, SecureBytes callers, probe threads and the driver loops of a ceremony have
weak fairness of their own steps for the same reason; interrupts, process exit, unrescued
errors, and accepts and reads that fail where they could wait are under none. OTS calls need none,
as only safety is checked of them. That damage ends is the
bound `MaxDamage`, not fairness. Deadlock checking is off where the system may stop: network
(the service is idle once its clients are gone), threads (after exit or a panic, after the
last probe, or stuck), ceremony (when all is complete) and verification (after the
bounded number of changes); the liveness properties cover a thread that is stuck.

Each property is accompanied by a mutant of the definition it depends on (operators commented
"Mutant" next to the originals, listed in `PROJECT.json`), under which TLC finds it violated.

## Proofs

The theorems hold for every value of the constants, under the named assumptions of the modules
(`SessionAssumption`, `IdsAssumption`, `NetworkAssumption`, `ScriptsAssumption`,
`ListenerAssumption`, `AuditAssumption`, `ShareFileAssumption`,
`MtaAssumption`, `CompositeAssumption`, `CmsAssumption`, `PolicyAssumption`, `ProbeAssumption`,
`MerkleAssumption`), which fix the kinds of the constants and nothing about their size beyond
finiteness, except that `MerkleAssumption` bounds the log by sixteen entries. Most modules open
with a `USE` of two backends, Zenon before the SMT solver: most of their leaves need no
arithmetic, and those that do say `SMTT`.

**CoordinatorProofs** (with the lemmas about sessions in **SessionProofs**), for any number of
signers, blobs, thresholds and sessions:

- `TypeCorrect`: `Spec => []TypeOK`;
- `SubmissionsStay`: `Spec => SubmissionsAreFinal`, from the step lemma `StepKeeps`;
- `QuorumBehindSignatures`: `Spec => []SignatureNeedsQuorum`. The invariant is inductive
  relative to `TypeOK`: a new signature is backed by the threshold check of its own step
  (`StepIssues`), an old one stays backed because shares are never dropped (`StepKeeps`);
- `StatesAreJustified`: `Spec => []StateIsJustified`, with `CountMonotone` for the counts;
- `RetriesExtend`: `Spec => []RetryExtendsShares`, inductive relative to
  `SignatureNeedsQuorum`: the signers of every signature still have their shares on record, so
  a later signature has them all;
- `AuditAgrees`: `Spec => []AuditMatchesSignatures`;
- `RaisesLeaveRegistry`: `Spec => RaiseLeavesRegistry`.

**NetworkProofs** – what clients were told, for any number of connections and any scripts:

- `ErrorsAreFinal`: `Spec => []ErrorIsFinal`;
- `AcknowledgementsHold`: `Spec => []AcknowledgedIsRecorded` and `RepliesHold`:
  `Spec => []RepliesAreBacked`, both under the hypothesis `OnlyAggregates`: of the calls past the
  mutex the embedding program makes, none creates or submits (see the limits above).

The invariant `NetInv` says that of the connections only the holder of the mutex is inside a
handler (`Exclusive`), and, while the direct callers only aggregate (`Calm`), that what a handler
checked still holds when it writes (`Ready`), that an answer on its way is true (`Answered`), that
answers received stay true (`TrueReplies`) and that session ids told to clients are distinct
(`Distinct`). None of these is inductive without the others: a true answer is one because of what
its handler checked, and what it checked lasts because nobody else is inside.

**RefinementProofs** – `NetworkRefines`: `Spec => ImplementsCoordinator`, from `NetInv`. Every step
of a handler is an operation of Coordinator (`CreateImplemented` to `SettleImplemented`) and every
other step a stutter of the mapped state (`WireStepStutters`).

**AuditProofs** – `SigningUnharmed`, `LossesAreReported`, `RepeatsAreAnswered`, `DropsAreCounted`:
the four safety properties of Audit, for any number of operations and retries. `AuditInv` adds to
the type invariant which sink each operation holds where, that only this sink keeps its record and,
but for the collector, only once it is done, that every post of a delivery under way was refused
(`Counted`), that a record kept nowhere was reported or its caller got the error, and that the drop
counter is the number of undelivered records.

**ThreadProofs** – three parts that threads share:

- Listener, for any number of starts and clients: `NoListenerOrphaned`, `RunningMeansAccepting`,
  `StopQuietens`. `ListenerInv` relates `@server`, `@thread`, the listeners and the acceptors at
  every statement of the owner; `OneAcceptor` (without a timed-out join at most the current
  acceptor is alive) is what the last theorem needs.
- SecureBytes, for any number of threads: `ClearedTellsTheTruth` (`BufferSpec =>
  []ClearedIsZeroed`) and `UndisturbedCallsAreSound` (`BufferSpec => []CallsAloneAreSound`).
  `BufferInv` says that a buffer that is gone was overwritten and that the flag is set only once it
  is gone, that a clear that is half done has a thread about to go on (`HalfCleared`), how far a
  call has come from the statements it has left (`Progress`), and what an undisturbed call finds at
  its next statement (`Alone`).
- OtsClient, for any number of threads, clients and interrupts: `BorrowFollowsCalls` (`OtsSpec =>
  []BorrowIsCallInFlight`). `OtsInv` adds that a borrowed cell has exactly one caller inside or was
  left by an interrupt, never both.

**CeremonyProofs** – two parts of the ceremonies:

- `LoadsAreWhole`: `ShareSpec => []LoadIsOneKeygen`. The invariant says that without overlapping
  saves the one save in flight finds the file empty, so the file is always the beginning of one
  envelope;
- `SharesAreOfTheProduct`: `MtaSpec => []SharesMultiply`, for every modulus. The invariant says
  that every response answers the first message of its exchange as it was sent, so an exchange that
  finishes does so with a response to its own message, and the masked product loses its mask
  modulo `Q`.

**VerdictProofs** – what a positive answer means, for any keys, messages and documents:

- `VerdictsOfOnePolicy`: `Spec => []VerdictOfOnePolicy`. `PolicyInv` says that a running check has
  seen the policy in force and, once it is past the FIPS switch (`PastFips`), that a policy it saw
  let the algorithm pass and that one such policy has no jurisdiction, unless the one overlapping
  setter call can no longer take the jurisdiction away;
- `CompositeVerdicts` and `RevivedSignatures`: `CompositeSpec => []CompositeVerdictIsSound` and
  `[]RevivedIsStable`. `CompositeInv` says that an object revived from JSON still decodes to its
  own document, that every document sent for it is that document, and that the last verdict is
  still what the object yields;
- `CmsVerdicts`: `CmsSpec => []CmsVerdictIsSound`. `CmsInv` keeps with every document built here
  the signer and content its one signature is of, that its first certificate is that signer's, and
  that the last result is what the document still yields;
- and, beside the verdicts, `ProbeClosesHandles`: `ProbeSpec => []HandlesAreClosed` for any number
  of probe calls. `ProbeInv` says who closes what within a cell (`InCell`) and that while the mute
  server has yet to drop its handle fewer were dropped than calls begun (`ToDrop`).
- `ProofsPinEntries`: `LogSpec => []ProofPinsItsEntry`, for any artifacts and logs of up to sixteen
  entries. `LogInv` says that the roots handed out are those of the log's prefixes and that the
  proof kept is the path of one entry in one of them. Three facts about the tree carry the theorem.
  Different prefixes have different roots (`RootsDiffer`): `Precedes` says of a level of the
  shorter and of the longer log that they agree before the shorter one's last node and that the
  longer one has more nodes or another node there; `Above` preserves it. A path leads from its leaf
  to the root (`PathsLead`, from the step `UpReaches`). Replaying a path is injective in the leaf
  (`ReplayPinsLeaf`), because node hashes are.

Model-checked only: all liveness and what needs fairness (`ConnectionsEnd`, `QueuedIsSettled`,
`AcceptorsEnd`, `OperationsEnd`, `ZeroedForGood`, `ProbeEndsOrIsStuck`,
`SessionsComplete`), which the prover cannot do; a log of more than sixteen entries, which would
need induction over the height of the tree; and `DearmorIsFaithful`, since the CRC of Armor is
bitwise and its packing folds over the data.

## Not modelled

- **Certificates, CSRs, paths, XML canonicalization** (`pki.rs`, `path.rs`,
  `certificate_builder.rb`, `cnml.rb`), **ERS, attributes, keystores** (`ers.rs`, `attributes.rs`,
  `store.rs`) and **deployment manifests** (`deployment.rs`): immutable objects over crates; every
  method converts its arguments, calls the crate once and converts the result. There is no state
  and no decision of this code that a property could be about.
- **Native transport clients** (`net.rs`): each method forwards to the confium_coordinator crate
  under the interpreter lock, so no two calls interleave; the state is the crate's.
- **Loader** (`confium.rb`, `native_windows.rb`, `lib.rs`): runs once, in one thread, before
  anything else. **Errors** (`errors.rb`, `util.rs`): classes and conversions without state.
- **Cryptography**: signatures, Paillier encryption, proofs, hashes and the round protocols are
  external crates, modelled by terms and by what the bindings rely on.
- **Layout**: JSON, hex, DER and OTLP envelopes, except where a property is about the conversion
  (Composite's encodings, ShareFile's text, Armor).
- **Partly modelled**: SignerClient (its hex encoding), StderrSink (a sink that takes a record or
  raises), the key generators and `full` of the native operations (one call, nothing kept), the
  proof parser of OpenTimestamps, consistency proofs of the log (forwarded to the crate), OpenPGP
  signature verification (a librnp context per call, nothing kept), the probes that open no
  listener and the `socket-smoke` test crate.
