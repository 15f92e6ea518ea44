-------------------------------- MODULE Audit --------------------------------
(***************************************************************************)
(* Confium::Audit: how the native operations report to the configured sink *)
(* (ext/confium_native/src/audit.rs), the sinks (lib/confium/audit.rb) and *)
(* the OTLP exporter (lib/confium/audit/otlp_sink.rb).                     *)
(*                                                                         *)
(* An operation runs in a Ruby thread of its own.  It reads @sink once and *)
(* calls what it read, and threads are switched on entry to the sink and   *)
(* at every HTTP exchange, so the sink may have been replaced, closed or   *)
(* cleared by then.  A record is identified with the operation it is about.*)
(***************************************************************************)
EXTENDS Integers, FiniteSets

CONSTANTS
  Ops,      \* the operations that run
  Retries,  \* OtlpSink's retries:
  Choices   \* the sinks Audit.sink= is called with

ASSUME AuditAssumption ==
  /\ IsFiniteSet(Ops)
  /\ Retries \in Nat
  /\ Choices \subseteq {"nil", "memory", "file", "otlp", "proc"}

VARIABLES
  sink,       \* @sink of Confium::Audit
  fileOpen,   \* the FileSink's @io is not closed
  memory,     \* MemorySink @records
  cleared,    \* the records MemorySink#clear removed (history)
  file,       \* the lines of the FileSink
  accepted,   \* the records a custom sink took
  collector,  \* how often the OTLP collector ingested each record
  acked,      \* the records it confirmed with a 2xx answer (history)
  refused,    \* how often it answered each record with anything else (history)
  dropped,    \* OtlpSink @dropped
  reported,   \* the records stderr reports as dropped
  op          \* each operation: where it is and what it knows

vars == <<sink, fileOpen, memory, cleared, file, accepted, collector, acked, refused,
          dropped, reported, op>>
stores == <<memory, cleared, file, accepted, collector, acked, refused, dropped>>
config == <<sink, fileOpen>>

Sinks == {"nil", "memory", "file", "otlp", "proc"}

Init ==
  /\ sink = "nil"
  /\ fileOpen = TRUE
  /\ memory = {} /\ cleared = {} /\ file = {} /\ accepted = {}
  /\ collector = [o \in Ops |-> 0]
  /\ refused = [o \in Ops |-> 0]
  /\ acked = {} /\ dropped = 0 /\ reported = {}
  /\ op = [o \in Ops |-> [pc |-> "idle", kind |-> "none", result |-> "none", armed |-> FALSE,
                          held |-> "nil", attempt |-> 0, out |-> "none"]]

-------------------------------------------------------------------------------
(* Operations.  A signing, key generation or MtA call computes its result and *)
(* then calls fire_event (kind "sign"); a verification or encryption call     *)
(* fires nothing (kind "quiet"); Audit.record is the caller's own entry.      *)

Begin(o, kind, result, pc, out) ==
  /\ op[o].pc = "idle"
  /\ op' = [op EXCEPT ![o] = [pc |-> pc, kind |-> kind, result |-> result, armed |-> sink # "nil",
                              held |-> "nil", attempt |-> 0, out |-> out]]
  /\ UNCHANGED <<config, stores, reported>>

Outcome == {"success", "failure"}

SignOp(o) == \E result \in Outcome : Begin(o, "sign", result, "fire", "none")

KeygenOp(o) == \E result \in Outcome : Begin(o, "sign", result, "fire", "none")

\* The MtA steps; only those that take messages can fail after their arguments.
MtaOp(o) == \E result \in Outcome : Begin(o, "sign", result, "fire", "none")

\* Arguments the conversions refuse raise before the computation starts.
RefusedOp(o) == Begin(o, "refused", "none", "done", "failure")

VerifyOp(o) == \E result \in Outcome : Begin(o, "quiet", result, "done", result)

EncryptOp(o) == \E result \in Outcome : Begin(o, "quiet", result, "done", result)

RecordOp(o) == Begin(o, "record", "success", "fire", "none")

End(o, out) == op' = [op EXCEPT ![o] = [@ EXCEPT !.pc = "done", !.out = out]]

-------------------------------------------------------------------------------
(* fire_event and Audit.record: read the sink, call it.                       *)

ReadSink(o) ==
  /\ op[o].pc = "fire"
  /\ IF sink = "nil"
     THEN End(o, op[o].result)
     ELSE op' = [op EXCEPT ![o] = [@ EXCEPT !.pc = "call", !.held = sink]]
  /\ UNCHANGED <<config, stores, reported>>

Calling(o, s) == op[o].pc = "call" /\ op[o].held = s

\* The sink returned.
SinkReturns(o) == End(o, op[o].result) /\ UNCHANGED reported

\* Mutant: fire_event propagates.
SinkRaisesToCaller(o) == End(o, "failure") /\ UNCHANGED reported

\* The sink raised: fire_event reports it and the operation goes on, record
\* raises to its caller.
SinkRaises(o) ==
  IF op[o].kind = "record"
  THEN End(o, "failure") /\ UNCHANGED reported
  ELSE End(o, op[o].result) /\ reported' = reported \cup {o}

WriteMemory(o) ==
  /\ Calling(o, "memory")
  /\ memory' = memory \cup {o}
  /\ SinkReturns(o)
  /\ UNCHANGED <<config, cleared, file, accepted, collector, acked, refused, dropped>>

WriteFile(o) ==
  /\ Calling(o, "file")
  /\ fileOpen
  /\ file' = file \cup {o}
  /\ SinkReturns(o)
  /\ UNCHANGED <<config, memory, cleared, accepted, collector, acked, refused, dropped>>

\* puts raises on a closed stream, and on a full disk or a closed descriptor.
WriteFileFails(o) ==
  /\ Calling(o, "file")
  /\ SinkRaises(o)
  /\ UNCHANGED <<config, stores>>

\* A Proc, a StderrSink or any other object that responds to call.
CallProc(o) ==
  /\ Calling(o, "proc")
  /\ accepted' = accepted \cup {o}
  /\ SinkReturns(o)
  /\ UNCHANGED <<config, memory, cleared, file, collector, acked, refused, dropped>>

CallProcFails(o) ==
  /\ Calling(o, "proc")
  /\ SinkRaises(o)
  /\ UNCHANGED <<config, stores>>

-------------------------------------------------------------------------------
(* OtlpSink#write and #deliver.                                               *)

StartDelivery(o) ==
  /\ Calling(o, "otlp")
  /\ op' = [op EXCEPT ![o].pc = "post"]
  /\ UNCHANGED <<config, stores, reported>>

Ingest(o) == collector' = [collector EXCEPT ![o] = @ + 1]

\* Mutant: the drop is counted but not reported.
DropQuietly(o) ==
  /\ dropped' = dropped + 1
  /\ UNCHANGED reported
  /\ End(o, op[o].result)

\* Mutant: the drop is reported but not counted.
DropUncounted(o) ==
  /\ reported' = reported \cup {o}
  /\ UNCHANGED dropped
  /\ End(o, op[o].result)

\* The rescue clause of write: the sink returns as if nothing had happened.  MRI
\* switches no thread inside @dropped += 1, so the increment is one step.
Drop(o) ==
  /\ dropped' = dropped + 1
  /\ reported' = reported \cup {o}
  /\ End(o, op[o].result)

\* envelope or JSON.generate raises, on a field that is not UTF-8.
EnvelopeFails(o) ==
  /\ Calling(o, "otlp")
  /\ Drop(o)
  /\ UNCHANGED <<config, memory, cleared, file, accepted, collector, acked, refused>>

PostSucceeds(o) ==
  /\ op[o].pc = "post"
  /\ Ingest(o)
  /\ acked' = acked \cup {o}
  /\ SinkReturns(o)
  /\ UNCHANGED <<config, memory, cleared, file, accepted, refused, dropped>>

\* Mutant: the attempts start over instead of ending.
PostRefusedForever(o) ==
  /\ op[o].pc = "post"
  /\ op' = [op EXCEPT ![o].attempt = (@ + 1) % (Retries + 1)]
  /\ UNCHANGED <<config, stores, reported>>

\* An answer that is no 2xx: back off and post again, or give up.  A gateway may
\* answer so (502, 504) for a collector that did ingest the record.
PostRefused(o) ==
  /\ op[o].pc = "post"
  /\ Ingest(o) \/ UNCHANGED collector
  /\ refused' = [refused EXCEPT ![o] = @ + 1]
  /\ IF op[o].attempt = Retries
     THEN Drop(o)
     ELSE /\ op' = [op EXCEPT ![o].attempt = @ + 1]
          /\ UNCHANGED <<dropped, reported>>
  /\ UNCHANGED <<config, memory, cleared, file, accepted, acked>>

\* Mutant: an exception is retried like an answer.
PostRaisesRetries(o) ==
  /\ op[o].pc = "post"
  /\ Ingest(o) \/ UNCHANGED collector
  /\ IF op[o].attempt = Retries
     THEN Drop(o)
     ELSE /\ op' = [op EXCEPT ![o].attempt = @ + 1]
          /\ UNCHANGED <<dropped, reported>>
  /\ UNCHANGED <<config, memory, cleared, file, accepted, acked, refused>>

\* Net::HTTP.post raises (refused, reset, timed out), which leaves the loop at
\* once; the collector may have ingested the record before the answer was lost.
PostRaises(o) ==
  /\ op[o].pc = "post"
  /\ Ingest(o) \/ UNCHANGED collector
  /\ Drop(o)
  /\ UNCHANGED <<config, memory, cleared, file, accepted, acked, refused>>

-------------------------------------------------------------------------------
(* What other threads do to the sinks meanwhile.                              *)

SetSink(s) ==
  /\ sink' = s
  /\ op' = [o \in Ops |-> [op[o] EXCEPT !.armed = @ /\ s # "nil"]]
  /\ UNCHANGED <<fileOpen, stores, reported>>

CloseFile ==
  /\ fileOpen' = FALSE
  /\ UNCHANGED <<sink, stores, reported, op>>

ClearMemory ==
  /\ cleared' = cleared \cup memory
  /\ memory' = {}
  /\ UNCHANGED <<config, file, accepted, collector, acked, refused, dropped,
                 reported, op>>

Step(o) ==
  \/ ReadSink(o) \/ WriteMemory(o) \/ WriteFile(o) \/ WriteFileFails(o)
  \/ CallProc(o) \/ CallProcFails(o) \/ StartDelivery(o) \/ EnvelopeFails(o)
  \/ PostSucceeds(o) \/ PostRefused(o) \/ PostRaises(o)

Next ==
  \/ \E o \in Ops :
       \/ SignOp(o) \/ KeygenOp(o) \/ MtaOp(o) \/ RefusedOp(o)
       \/ VerifyOp(o) \/ EncryptOp(o) \/ RecordOp(o)
       \/ Step(o)
  \/ \E s \in Choices : SetSink(s)
  \/ CloseFile
  \/ ClearMemory

\* A thread that can run does, and an HTTP exchange ends (Net::HTTP times out).
Fairness == \A o \in Ops : WF_vars(Step(o))

Spec == Init /\ [][Next]_vars /\ Fairness

-------------------------------------------------------------------------------
TypeOK ==
  /\ sink \in Sinks
  /\ fileOpen \in BOOLEAN
  /\ memory \subseteq Ops /\ cleared \subseteq Ops /\ file \subseteq Ops
  /\ accepted \subseteq Ops /\ acked \subseteq Ops /\ reported \subseteq Ops
  /\ collector \in [Ops -> Nat] /\ refused \in [Ops -> Nat]
  /\ dropped \in Nat
  /\ op \in [Ops -> [pc: {"idle", "fire", "call", "post", "done"},
                     kind: {"none", "sign", "refused", "quiet", "record"},
                     result: {"none", "success", "failure"}, armed: BOOLEAN, held: Sinks,
                     attempt: 0 .. Retries, out: {"none", "success", "failure"}]]

Done(o) == op[o].pc = "done"

\* A signing, key generation or MtA call ends with the result it computed, whatever
\* the sink does: raise, be closed or replaced meanwhile, or lose its collector
\* (fire_event).
AuditNeverBreaksSigning ==
  \A o \in Ops : Done(o) /\ op[o].kind = "sign" => op[o].out = op[o].result

\* No event is lost without a trace: when some sink was configured all through an
\* operation that reports (armed), replaced or not, or the operation got hold of
\* one, then a sink has the record (or was cleared since), or stderr reports the
\* drop, or Audit.record raised.
NoSilentLoss ==
  \A o \in Ops :
    Done(o) /\ op[o].kind \in {"sign", "record"} /\ (op[o].armed \/ op[o].held # "nil") =>
      \/ o \in memory \cup cleared \cup file \cup accepted \cup acked \cup reported
      \/ op[o].kind = "record" /\ op[o].out = "failure"

\* A record reaches one sink, whatever replaces the sink while the event is on its
\* way, and the collector ingests it again only because it answered: at most once
\* more than it gave answers other than 2xx, of which deliver asks for no more than
\* Retries + 1.  An attempt whose answer was lost (reset, timed out) may have been
\* ingested, and nothing is posted after it.
RepeatsFollowRefusals ==
  \A o \in Ops :
    /\ collector[o] <= refused[o] + 1
    /\ refused[o] <= Retries + 1
    /\ Cardinality({p \in {<<"memory", memory \cup cleared>>, <<"file", file>>,
                           <<"proc", accepted>>, <<"otlp", {x \in Ops : collector[x] > 0}>>} :
                      o \in p[2]}) <= 1

\* OtlpSink#dropped counts exactly the deliveries that ended without a 2xx
\* answer, with several threads exporting through one sink.
DroppedIsExact ==
  dropped = Cardinality({o \in Ops : Done(o) /\ op[o].held = "otlp" /\ o \notin acked})

\* Every operation comes back to its caller, with a slow, failing or vanishing
\* sink: the delivery loop is bounded by Retries.
OperationsEnd ==
  \A o \in Ops : op[o].pc # "idle" ~> Done(o)

\* "drops the record only after the retries are exhausted" (audit_otlp_spec.rb): a
\* delivery under way is given up at its last attempt and not before.
DropsAfterTheRetries ==
  [][\A o \in Ops :
       op[o].pc = "post" /\ op'[o].pc = "done" /\ o \notin acked' =>
         op[o].attempt = Retries]_vars
=============================================================================
