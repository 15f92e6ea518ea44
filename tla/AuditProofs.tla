------------------------------ MODULE AuditProofs ------------------------------
(***************************************************************************)
(* Proofs about Audit, for any number of operations, sinks and retries: no *)
(* event is lost silently, the collector ingests a record again only after *)
(* it refused it, and OtlpSink counts its drops exactly.                   *)
(***************************************************************************)
EXTENDS Audit, FiniteSetTheorems, TLAPS

\* Zenon first, the SMT solver where it is not named alone.
USE ZenonT(30), SMTT(60)

Kept(o) == o \in memory \cup cleared \cup file \cup accepted \cup acked

\* Nothing is kept of an operation before it is done, and then only by the sink it held.
KeptByHeld(o) ==
  /\ o \in memory \cup cleared => op[o].held = "memory"
  /\ o \in file => op[o].held = "file"
  /\ o \in accepted => op[o].held = "proc"
  /\ o \in acked \/ collector[o] > 0 => op[o].held = "otlp"
  /\ op[o].pc # "done" => ~ Kept(o)

\* A delivery under way is in the attempt that its refusals leave it, and has been
\* ingested at most once for each; the last attempt may add one.
Counted(o) ==
  /\ op[o].pc \in {"idle", "fire", "call"} =>
       collector[o] = 0 /\ refused[o] = 0 /\ op[o].attempt = 0
  /\ op[o].pc = "post" => collector[o] <= refused[o] /\ refused[o] = op[o].attempt
  /\ collector[o] <= refused[o] + 1 /\ refused[o] <= Retries + 1

\* Where an operation is, and what it holds there.
Placed(o) ==
  /\ op[o].pc \in {"idle", "fire"} => op[o].held = "nil"
  /\ op[o].pc \in {"fire", "call", "post"} => op[o].kind \in {"sign", "record"}
  /\ op[o].pc = "call" => op[o].held # "nil"
  /\ op[o].pc = "post" => op[o].held = "otlp"
  /\ op[o].armed => sink # "nil"

\* How a reporting operation ended.
Told(o) ==
  /\ op[o].pc = "done" /\ op[o].kind = "sign" => op[o].out = op[o].result
  /\ op[o].pc = "done" /\ op[o].kind \in {"sign", "record"} /\ op[o].held # "nil" =>
       Kept(o) \/ o \in reported \/ (op[o].kind = "record" /\ op[o].out = "failure")
  /\ op[o].pc = "done" /\ op[o].kind \in {"sign", "record"} /\ op[o].armed => op[o].held # "nil"

Sound(o) == KeptByHeld(o) /\ Counted(o) /\ Placed(o) /\ Told(o)

Undelivered == {o \in Ops : op[o].pc = "done" /\ op[o].held = "otlp" /\ o \notin acked}

AuditInv ==
  /\ TypeOK
  /\ \A o \in Ops : Sound(o)
  /\ dropped = Cardinality(Undelivered)
-------------------------------------------------------------------------------
(* What a step of one operation does to its record.                           *)

OpRecord == [pc: {"idle", "fire", "call", "post", "done"},
             kind: {"none", "sign", "refused", "quiet", "record"},
             result: {"none", "success", "failure"}, armed: BOOLEAN, held: Sinks,
             attempt: 0 .. Retries, out: {"none", "success", "failure"}]

LEMMA OneField ==
  ASSUME NEW x \in OpRecord, NEW a
  PROVE  /\ [x EXCEPT !.pc = a] =
              [pc |-> a, kind |-> x.kind, result |-> x.result, armed |-> x.armed,
               held |-> x.held, attempt |-> x.attempt, out |-> x.out]
         /\ [x EXCEPT !.out = a] =
              [pc |-> x.pc, kind |-> x.kind, result |-> x.result, armed |-> x.armed,
               held |-> x.held, attempt |-> x.attempt, out |-> a]
         /\ [x EXCEPT !.held = a] =
              [pc |-> x.pc, kind |-> x.kind, result |-> x.result, armed |-> x.armed,
               held |-> a, attempt |-> x.attempt, out |-> x.out]
         /\ [x EXCEPT !.attempt = a] =
              [pc |-> x.pc, kind |-> x.kind, result |-> x.result, armed |-> x.armed,
               held |-> x.held, attempt |-> a, out |-> x.out]
         /\ [x EXCEPT !.armed = a] =
              [pc |-> x.pc, kind |-> x.kind, result |-> x.result, armed |-> a,
               held |-> x.held, attempt |-> x.attempt, out |-> x.out]
BY SMTT(60) DEF OpRecord

LEMMA TwoFields ==
  ASSUME NEW x \in OpRecord, NEW a \in {"idle", "fire", "call", "post", "done"}, NEW b
  PROVE  /\ [x EXCEPT !.pc = a, !.out = b] =
              [pc |-> a, kind |-> x.kind, result |-> x.result, armed |-> x.armed,
               held |-> x.held, attempt |-> x.attempt, out |-> b]
         /\ [x EXCEPT !.pc = a, !.held = b] =
              [pc |-> a, kind |-> x.kind, result |-> x.result, armed |-> x.armed,
               held |-> b, attempt |-> x.attempt, out |-> x.out]
<1> DEFINE y == [x EXCEPT !.pc = a]
<1>1. y = [pc |-> a, kind |-> x.kind, result |-> x.result, armed |-> x.armed,
           held |-> x.held, attempt |-> x.attempt, out |-> x.out]
  BY OneField
<1>2. y \in OpRecord
  BY <1>1 DEF OpRecord
<1>3. /\ [x EXCEPT !.pc = a, !.out = b] = [y EXCEPT !.out = b]
      /\ [x EXCEPT !.pc = a, !.held = b] = [y EXCEPT !.held = b]
  BY DEF OpRecord
<1> HIDE DEF y
<1>4. /\ y.pc = a /\ y.kind = x.kind /\ y.result = x.result /\ y.armed = x.armed
      /\ y.held = x.held /\ y.attempt = x.attempt /\ y.out = x.out
  BY <1>1
<1>5. /\ [y EXCEPT !.out = b] =
           [pc |-> y.pc, kind |-> y.kind, result |-> y.result, armed |-> y.armed,
            held |-> y.held, attempt |-> y.attempt, out |-> b]
      /\ [y EXCEPT !.held = b] =
           [pc |-> y.pc, kind |-> y.kind, result |-> y.result, armed |-> y.armed,
            held |-> b, attempt |-> y.attempt, out |-> y.out]
  BY <1>2, OneField
<1> QED BY <1>3, <1>4, <1>5, Zenon

\* One operation moves to the record r.
LEMMA Moves ==
  ASSUME TypeOK, NEW o \in Ops, NEW r \in OpRecord, op' = [op EXCEPT ![o] = r]
  PROVE  /\ op' \in [Ops -> OpRecord]
         /\ \A q \in Ops : q # o => op'[q] = op[q]
         /\ op'[o] = r
BY DEF TypeOK, OpRecord

LEMMA EndFacts ==
  ASSUME TypeOK, NEW o \in Ops, NEW out \in {"none", "success", "failure"}, End(o, out)
  PROVE  /\ op' \in [Ops -> OpRecord]
         /\ \A q \in Ops : q # o => op'[q] = op[q]
         /\ op'[o].pc = "done" /\ op'[o].out = out
         /\ op'[o].kind = op[o].kind /\ op'[o].result = op[o].result
         /\ op'[o].armed = op[o].armed /\ op'[o].held = op[o].held
<1> DEFINE r == [op[o] EXCEPT !.pc = "done", !.out = out]
<1>1. op \in [Ops -> OpRecord] /\ op[o] \in OpRecord
  BY DEF TypeOK, OpRecord
<1>2. r = [pc |-> "done", kind |-> op[o].kind, result |-> op[o].result, armed |-> op[o].armed,
           held |-> op[o].held, attempt |-> op[o].attempt, out |-> out]
  BY <1>1, TwoFields
<1>3. r \in OpRecord
  BY <1>1, <1>2 DEF OpRecord
<1>4. op' = [op EXCEPT ![o] = r]
  BY DEF End
<1>5. /\ r.pc = "done" /\ r.out = out /\ r.kind = op[o].kind /\ r.result = op[o].result
      /\ r.armed = op[o].armed /\ r.held = op[o].held
  BY <1>2
<1> HIDE DEF r
<1> QED BY <1>3, <1>4, <1>5, Moves

LEMMA BeginFacts ==
  ASSUME TypeOK, NEW o \in Ops, NEW kind \in {"sign", "refused", "quiet", "record"},
         NEW result \in {"none", "success", "failure"}, NEW pc \in {"fire", "done"},
         NEW out \in {"none", "success", "failure"}, Begin(o, kind, result, pc, out)
  PROVE  /\ op' \in [Ops -> OpRecord]
         /\ \A q \in Ops : q # o => op'[q] = op[q]
         /\ op'[o].pc = pc /\ op'[o].out = out
         /\ op'[o].kind = kind /\ op'[o].result = result
         /\ op'[o].armed = (sink # "nil") /\ op'[o].held = "nil" /\ op'[o].attempt = 0
<1> DEFINE r == [pc |-> pc, kind |-> kind, result |-> result, armed |-> sink # "nil",
                 held |-> "nil", attempt |-> 0, out |-> out]
<1>1. r \in OpRecord
  BY SMTT(60), AuditAssumption DEF OpRecord, Sinks
<1>2. op' = [op EXCEPT ![o] = r]
  BY DEF Begin
<1>3. /\ r.pc = pc /\ r.out = out /\ r.kind = kind /\ r.result = result
      /\ r.armed = (sink # "nil") /\ r.held = "nil" /\ r.attempt = 0
  BY Zenon
<1> HIDE DEF r
<1> QED BY <1>1, <1>2, <1>3, Moves

\* An operation on its way moves on to pc, with the sink h in hand, in attempt n.
Advances(o, pc, h, n) ==
  \/ /\ op' = [op EXCEPT ![o] = [@ EXCEPT !.pc = "call", !.held = h]]
     /\ pc = "call" /\ n = op[o].attempt
  \/ op' = [op EXCEPT ![o].pc = pc] /\ h = op[o].held /\ n = op[o].attempt
  \/ /\ op' = [op EXCEPT ![o].attempt = @ + 1] /\ h = op[o].held
     /\ pc = op[o].pc /\ op[o].attempt # Retries /\ n = op[o].attempt + 1

LEMMA AdvanceFacts ==
  ASSUME TypeOK, NEW o \in Ops, NEW pc \in {"call", "post"}, NEW h \in Sinks, NEW k,
         Advances(o, pc, h, k)
  PROVE  /\ op' \in [Ops -> OpRecord]
         /\ \A q \in Ops : q # o => op'[q] = op[q]
         /\ op'[o].pc = pc /\ op'[o].held = h /\ op'[o].out = op[o].out
         /\ op'[o].kind = op[o].kind /\ op'[o].result = op[o].result
         /\ op'[o].armed = op[o].armed /\ op'[o].attempt = k
<1>1. op \in [Ops -> OpRecord] /\ op[o] \in OpRecord
  BY DEF TypeOK, OpRecord
<1>2. ASSUME NEW r, op' = [op EXCEPT ![o] = r],
             NEW n \in 0 .. Retries,
             r = [pc |-> pc, kind |-> op[o].kind, result |-> op[o].result,
                  armed |-> op[o].armed, held |-> h, attempt |-> n, out |-> op[o].out]
      PROVE  /\ op' \in [Ops -> OpRecord]
             /\ \A q \in Ops : q # o => op'[q] = op[q]
             /\ op'[o].pc = pc /\ op'[o].held = h /\ op'[o].out = op[o].out
             /\ op'[o].kind = op[o].kind /\ op'[o].result = op[o].result
             /\ op'[o].armed = op[o].armed /\ op'[o].attempt = n
  <2>1. r \in OpRecord
    BY <1>1, <1>2 DEF OpRecord
  <2>2. /\ r.pc = pc /\ r.held = h /\ r.out = op[o].out
        /\ r.kind = op[o].kind /\ r.result = op[o].result /\ r.armed = op[o].armed
        /\ r.attempt = n
    BY <1>2
  <2> QED BY <1>2, <2>1, <2>2, Moves, Zenon
<1>3. CASE /\ op' = [op EXCEPT ![o] = [@ EXCEPT !.pc = "call", !.held = h]]
           /\ pc = "call" /\ k = op[o].attempt
  <2> DEFINE r == [op[o] EXCEPT !.pc = "call", !.held = h]
  <2>1. r = [pc |-> "call", kind |-> op[o].kind, result |-> op[o].result,
             armed |-> op[o].armed, held |-> h, attempt |-> op[o].attempt, out |-> op[o].out]
    BY <1>1, TwoFields
  <2>2. op' = [op EXCEPT ![o] = r] /\ op[o].attempt \in 0 .. Retries
    BY <1>1, <1>3 DEF OpRecord
  <2> HIDE DEF r
  <2> QED BY <1>2, <1>3, <2>1, <2>2, Zenon
<1>4. CASE op' = [op EXCEPT ![o].pc = pc] /\ h = op[o].held /\ k = op[o].attempt
  <2> DEFINE r == [op[o] EXCEPT !.pc = pc]
  <2>1. r = [pc |-> pc, kind |-> op[o].kind, result |-> op[o].result,
             armed |-> op[o].armed, held |-> h, attempt |-> op[o].attempt, out |-> op[o].out]
    BY <1>1, <1>4, OneField, Zenon
  <2>2. op' = [op EXCEPT ![o] = r] /\ op[o].attempt \in 0 .. Retries
    BY <1>1, <1>4 DEF OpRecord
  <2> HIDE DEF r
  <2> QED BY <1>2, <1>4, <2>1, <2>2, Zenon
<1>5. CASE /\ op' = [op EXCEPT ![o].attempt = @ + 1] /\ h = op[o].held
           /\ pc = op[o].pc /\ op[o].attempt # Retries /\ k = op[o].attempt + 1
  <2> DEFINE r == [op[o] EXCEPT !.attempt = op[o].attempt + 1]
  <2>1. r = [pc |-> pc, kind |-> op[o].kind, result |-> op[o].result,
             armed |-> op[o].armed, held |-> h, attempt |-> op[o].attempt + 1, out |-> op[o].out]
    BY <1>1, <1>5, OneField
  <2>2. op' = [op EXCEPT ![o] = r]
    BY <1>1, <1>5 DEF OpRecord
  <2>3. op[o].attempt + 1 \in 0 .. Retries
    BY SMTT(60), <1>1, <1>5, AuditAssumption DEF OpRecord
  <2> HIDE DEF r
  <2> QED BY <1>2, <1>5, <2>1, <2>2, <2>3, ZenonT(40)
<1> QED BY <1>3, <1>4, <1>5 DEF Advances
-------------------------------------------------------------------------------
(* What a step of one operation leaves of the others.                         *)

Same(q) ==
  /\ op'[q] = op[q] /\ collector'[q] = collector[q] /\ refused'[q] = refused[q]
  /\ (q \in memory' <=> q \in memory) /\ (q \in cleared' <=> q \in cleared)
  /\ (q \in file' <=> q \in file) /\ (q \in accepted' <=> q \in accepted)
  /\ (q \in acked' <=> q \in acked) /\ (q \in reported => q \in reported')

LEMMA SameSound ==
  ASSUME NEW q \in Ops, Sound(q), Same(q), sink' = sink
  PROVE  Sound(q)' /\ (q \in Undelivered' <=> q \in Undelivered)
<1>1. KeptByHeld(q)'
  BY DEF Sound, KeptByHeld, Kept, Same
<1>2. Placed(q)'
  BY DEF Sound, Placed, Same
<1>3. Told(q)'
  BY DEF Sound, Told, Kept, Same
<1>4. q \in Undelivered' <=> q \in Undelivered
  BY DEF Undelivered, Same
<1>5. Counted(q)'
  BY DEF Sound, Counted, Same
<1> QED BY <1>1, <1>2, <1>3, <1>4, <1>5 DEF Sound

\* A step of o that keeps the types and o's own facts, and counts o exactly when
\* o becomes an undelivered record, keeps the invariant.
LEMMA OneMoves ==
  ASSUME AuditInv, NEW o \in Ops, TypeOK', sink' = sink, Sound(o)',
         \A q \in Ops : q # o => Same(q),
         o \notin Undelivered,
         \/ o \notin Undelivered' /\ dropped' = dropped
         \/ o \in Undelivered' /\ dropped' = dropped + 1
  PROVE  AuditInv'
<1>1. \A q \in Ops : q # o => Sound(q)' /\ (q \in Undelivered' <=> q \in Undelivered)
  BY SameSound DEF AuditInv
<1>2. \A q \in Ops : Sound(q)'
  BY <1>1
<1>3. /\ Undelivered \subseteq Ops /\ Undelivered' \subseteq Ops
      /\ IsFiniteSet(Undelivered)
  BY FS_Subset, AuditAssumption DEF Undelivered
<1>4. dropped' = Cardinality(Undelivered')
  <2>1. CASE o \notin Undelivered' /\ dropped' = dropped
    <3>1. Undelivered' = Undelivered
      BY SMTT(60), <1>1, <1>3, <2>1
    <3> QED BY <2>1, <3>1 DEF AuditInv
  <2>2. CASE o \in Undelivered' /\ dropped' = dropped + 1
    <3>1. Undelivered' = Undelivered \cup {o}
      BY <1>1, <1>3, <2>2
    <3>2. Cardinality(Undelivered \cup {o}) = Cardinality(Undelivered) + 1
      BY <1>3, FS_AddElement
    <3> QED BY <2>2, <3>1, <3>2 DEF AuditInv
  <2> QED BY <2>1, <2>2
<1> QED BY <1>2, <1>4 DEF AuditInv
-------------------------------------------------------------------------------
StoresOK ==
  /\ sink \in Sinks /\ fileOpen \in BOOLEAN
  /\ memory \subseteq Ops /\ cleared \subseteq Ops /\ file \subseteq Ops
  /\ accepted \subseteq Ops /\ acked \subseteq Ops /\ reported \subseteq Ops
  /\ collector \in [Ops -> Nat] /\ refused \in [Ops -> Nat] /\ dropped \in Nat

LEMMA Types ==
  /\ TypeOK <=> StoresOK /\ op \in [Ops -> OpRecord]
  /\ TypeOK' <=> StoresOK' /\ op' \in [Ops -> OpRecord]
BY DEF TypeOK, StoresOK, OpRecord

\* What the sinks hold of q does not change.
SameStores(q) ==
  /\ collector'[q] = collector[q] /\ refused'[q] = refused[q]
  /\ (q \in memory' <=> q \in memory) /\ (q \in cleared' <=> q \in cleared)
  /\ (q \in file' <=> q \in file) /\ (q \in accepted' <=> q \in accepted)
  /\ (q \in acked' <=> q \in acked) /\ (q \in reported => q \in reported')

LEMMA BeginKeeps ==
  ASSUME AuditInv, NEW o \in Ops, NEW kind \in {"sign", "refused", "quiet", "record"},
         NEW result \in {"none", "success", "failure"}, NEW pc \in {"fire", "done"},
         NEW out \in {"none", "success", "failure"}, Begin(o, kind, result, pc, out),
         kind \in {"sign", "record"} <=> pc = "fire"
  PROVE  AuditInv'
<1>1. TypeOK /\ Sound(o) /\ op[o].pc = "idle"
  BY DEF AuditInv, Begin
<1>2. /\ op' \in [Ops -> OpRecord]
      /\ \A q \in Ops : q # o => op'[q] = op[q]
      /\ op'[o].pc = pc /\ op'[o].kind = kind /\ op'[o].armed = (sink # "nil")
      /\ op'[o].held = "nil" /\ op'[o].attempt = 0
  BY SMTT(60), <1>1, BeginFacts
<1>3. /\ sink' = sink /\ memory' = memory /\ cleared' = cleared /\ file' = file
      /\ accepted' = accepted /\ collector' = collector /\ acked' = acked /\ refused' = refused
      /\ reported' = reported /\ dropped' = dropped /\ fileOpen' = fileOpen
  BY DEF Begin, config, stores
<1>4. TypeOK'
  BY <1>1, <1>2, <1>3, Types DEF StoresOK
<1>5. \A q \in Ops : q # o => Same(q)
  BY <1>2, <1>3 DEF Same
<1>6. KeptByHeld(o)'
  BY SMTT(60), <1>1, <1>3 DEF Sound, Counted, KeptByHeld, Kept
<1>7. Placed(o)'
  BY <1>2, <1>3 DEF Placed
<1>8. Told(o)'
  BY <1>2 DEF Told
<1>9. o \notin Undelivered /\ o \notin Undelivered'
  BY <1>1, <1>2 DEF Undelivered
<1>10. Counted(o)'
  BY SMTT(60), <1>1, <1>2, <1>3 DEF Sound, Counted
<1> QED BY <1>3, <1>4, <1>5, <1>6, <1>7, <1>8, <1>9, <1>10, OneMoves DEF Sound

LEMMA AdvanceKeeps ==
  ASSUME AuditInv, NEW o \in Ops, NEW pc \in {"call", "post"}, NEW h \in Sinks,
         UNCHANGED <<config, stores, reported>>,
         Advances(o, pc, h, op[o].attempt),
         op[o].pc \in {"fire", "call"}, h # "nil", pc = "post" => h = "otlp"
  PROVE  AuditInv'
<1>1. TypeOK /\ Sound(o)
  BY DEF AuditInv
<1>2. /\ op' \in [Ops -> OpRecord]
      /\ \A q \in Ops : q # o => op'[q] = op[q]
      /\ op'[o].pc = pc /\ op'[o].held = h /\ op'[o].kind = op[o].kind
      /\ op'[o].armed = op[o].armed /\ op'[o].attempt = op[o].attempt
  BY <1>1, AdvanceFacts
<1>3. /\ sink' = sink /\ memory' = memory /\ cleared' = cleared /\ file' = file
      /\ accepted' = accepted /\ collector' = collector /\ acked' = acked /\ refused' = refused
      /\ reported' = reported /\ dropped' = dropped /\ fileOpen' = fileOpen
  BY DEF config, stores
<1>4. TypeOK'
  BY <1>1, <1>2, <1>3, Types DEF StoresOK
<1>5. \A q \in Ops : q # o => Same(q)
  BY <1>2, <1>3 DEF Same
<1>6. KeptByHeld(o)'
  BY SMTT(60), <1>1, <1>2, <1>3 DEF Sound, Counted, KeptByHeld, Kept
<1>7. Placed(o)'
  BY <1>1, <1>2, <1>3 DEF Sound, Placed
<1>8. Told(o)'
  BY <1>2 DEF Told
<1>9. o \notin Undelivered /\ o \notin Undelivered'
  BY <1>1, <1>2 DEF Undelivered
<1>10. Counted(o)'
  BY SMTT(60), <1>1, <1>2, <1>3 DEF Sound, Counted
<1> QED BY <1>3, <1>4, <1>5, <1>6, <1>7, <1>8, <1>9, <1>10, OneMoves DEF Sound

\* An operation ends with out: what its sink kept, reported and counted settles it.
Settled(o, out) ==
  /\ op[o].pc \in {"fire", "call", "post"}
  /\ StoresOK' /\ sink' = sink
  /\ \A q \in Ops : q # o => SameStores(q)
  /\ op[o].kind = "sign" => out = op[o].result
  /\ op[o].armed => op[o].held # "nil"
  /\ o \in memory' \cup cleared' => op[o].held = "memory"
  /\ o \in file' => op[o].held = "file"
  /\ o \in accepted' => op[o].held = "proc"
  /\ o \in acked' \/ collector'[o] > 0 => op[o].held = "otlp"
  /\ collector'[o] <= refused'[o] + 1 /\ refused'[o] <= Retries + 1
  /\ op[o].held # "nil" =>
       Kept(o)' \/ o \in reported' \/ (op[o].kind = "record" /\ out = "failure")
  /\ dropped' = IF op[o].held = "otlp" /\ o \notin acked' THEN dropped + 1 ELSE dropped

LEMMA EndKeeps ==
  ASSUME AuditInv, NEW o \in Ops, NEW out \in {"none", "success", "failure"}, End(o, out),
         Settled(o, out)
  PROVE  AuditInv'
<1>1. TypeOK /\ Sound(o)
  BY DEF AuditInv
<1>2. /\ op' \in [Ops -> OpRecord]
      /\ \A q \in Ops : q # o => op'[q] = op[q]
      /\ op'[o].pc = "done" /\ op'[o].out = out
      /\ op'[o].kind = op[o].kind /\ op'[o].result = op[o].result
      /\ op'[o].armed = op[o].armed /\ op'[o].held = op[o].held
  BY <1>1, EndFacts
<1>3. TypeOK'
  BY <1>2, Types DEF Settled
<1>4. \A q \in Ops : q # o => Same(q)
  BY <1>2 DEF Settled, Same, SameStores
<1>5. KeptByHeld(o)'
  BY <1>2 DEF Settled, KeptByHeld
<1>6. Placed(o)'
  BY <1>1, <1>2 DEF Settled, Sound, Placed
<1>7. Told(o)'
  BY <1>1, <1>2 DEF Settled, Sound, Placed, Told
<1>8. o \notin Undelivered
  BY <1>1 DEF Settled, Undelivered
<1>9. o \in Undelivered' <=> op[o].held = "otlp" /\ o \notin acked'
  BY <1>2 DEF Undelivered
<1>10. Counted(o)'
  BY <1>2 DEF Settled, Counted
<1> QED BY <1>3, <1>4, <1>5, <1>6, <1>7, <1>8, <1>9, <1>10, OneMoves DEF Settled, Sound
-------------------------------------------------------------------------------
(* The steps.                                                                 *)

\* What the invariant says of an operation that holds a sink.
LEMMA Holding ==
  ASSUME AuditInv, NEW o \in Ops, op[o].pc \in {"fire", "call", "post"}
  PROVE  /\ StoresOK /\ op[o].result \in {"none", "success", "failure"}
         /\ o \notin memory /\ o \notin cleared /\ o \notin file /\ o \notin accepted
         /\ o \notin acked
         /\ collector[o] \in Nat /\ refused[o] \in Nat /\ collector[o] <= refused[o]
         /\ op[o].pc # "post" => collector[o] = 0 /\ refused[o] = 0
         /\ op[o].pc = "post" => refused[o] = op[o].attempt
         /\ op[o].attempt \in 0 .. Retries /\ refused[o] <= Retries
         /\ collector[o] <= refused[o] + 1 /\ refused[o] <= Retries + 1
         /\ op[o].kind \in {"sign", "record"}
         /\ op[o].pc \in {"call", "post"} => op[o].held # "nil"
         /\ op[o].pc = "post" => op[o].held = "otlp"
         /\ op[o].pc = "fire" => op[o].held = "nil"
         /\ op[o].armed => sink # "nil"
<1>1. Sound(o) /\ StoresOK /\ op[o] \in OpRecord
  BY Types DEF AuditInv
<1>2. op[o].result \in {"none", "success", "failure"}
  BY <1>1 DEF OpRecord
<1>3. op[o].attempt \in 0 .. Retries /\ collector[o] \in Nat /\ refused[o] \in Nat
  BY <1>1 DEF OpRecord, StoresOK
<1>4. /\ op[o].pc # "post" => collector[o] = 0 /\ refused[o] = 0
      /\ op[o].pc = "post" => collector[o] <= refused[o] /\ refused[o] = op[o].attempt
  BY <1>1 DEF Sound, Counted
<1>5. /\ collector[o] <= refused[o] /\ refused[o] <= Retries
      /\ collector[o] <= refused[o] + 1 /\ refused[o] <= Retries + 1
  BY SMTT(60), <1>3, <1>4, AuditAssumption
<1> QED BY <1>1, <1>2, <1>3, <1>4, <1>5 DEF Sound, KeptByHeld, Kept, Placed

LEMMA ReadSinkKeeps ==
  ASSUME AuditInv, NEW o \in Ops, ReadSink(o)
  PROVE  AuditInv'
<1>1. op[o].pc = "fire" /\ UNCHANGED <<config, stores, reported>>
  BY DEF ReadSink
<1>2. /\ sink' = sink /\ memory' = memory /\ cleared' = cleared /\ file' = file
      /\ accepted' = accepted /\ collector' = collector /\ acked' = acked /\ refused' = refused
      /\ reported' = reported /\ dropped' = dropped /\ fileOpen' = fileOpen
  BY <1>1 DEF config, stores
<1>3. CASE sink = "nil"
  <2>1. End(o, op[o].result)
    BY <1>3 DEF ReadSink
  <2>2. StoresOK' /\ \A q \in Ops : q # o => SameStores(q)
    BY <1>1, <1>2, Holding DEF StoresOK, SameStores
  <2>3. Settled(o, op[o].result)
    BY SMTT(60), <1>1, <1>2, <1>3, <2>2, Holding DEF Settled
  <2> QED BY <1>1, <2>1, <2>3, Holding, EndKeeps
<1>4. CASE sink # "nil"
  <2>1. op' = [op EXCEPT ![o] = [@ EXCEPT !.pc = "call", !.held = sink]]
    BY <1>4 DEF ReadSink
  <2>2. sink \in Sinks
    BY <1>1, Holding DEF StoresOK
  <2>3. Advances(o, "call", sink, op[o].attempt)
    BY <2>1 DEF Advances
  <2> QED BY <1>1, <1>4, <2>2, <2>3, AdvanceKeeps
<1> QED BY <1>3, <1>4

LEMMA CallKeeps ==
  ASSUME AuditInv, NEW o \in Ops,
         \/ WriteMemory(o) \/ WriteFile(o) \/ WriteFileFails(o) \/ CallProc(o) \/ CallProcFails(o)
  PROVE  AuditInv'
<1>1. op[o].pc = "call"
  BY DEF WriteMemory, WriteFile, WriteFileFails, CallProc, CallProcFails, Calling
<1>2. CASE WriteMemory(o)
  <2>1. /\ op[o].held = "memory" /\ memory' = memory \cup {o} /\ End(o, op[o].result)
        /\ sink' = sink /\ fileOpen' = fileOpen /\ cleared' = cleared /\ file' = file
        /\ accepted' = accepted /\ collector' = collector /\ acked' = acked /\ refused' = refused
        /\ reported' = reported /\ dropped' = dropped
    BY <1>2 DEF WriteMemory, Calling, SinkReturns, config
  <2>2. StoresOK' /\ \A q \in Ops : q # o => SameStores(q)
    BY <1>1, <2>1, Holding DEF StoresOK, SameStores
  <2>3. Kept(o)'
    BY <2>1 DEF Kept
  <2>4. Settled(o, op[o].result)
    BY SMTT(60), <1>1, <2>1, <2>2, <2>3, Holding DEF Settled
  <2> QED BY <1>1, <2>1, <2>4, Holding, EndKeeps
<1>3. CASE WriteFile(o)
  <2>1. /\ op[o].held = "file" /\ file' = file \cup {o} /\ End(o, op[o].result)
        /\ sink' = sink /\ fileOpen' = fileOpen /\ cleared' = cleared /\ memory' = memory
        /\ accepted' = accepted /\ collector' = collector /\ acked' = acked /\ refused' = refused
        /\ reported' = reported /\ dropped' = dropped
    BY <1>3 DEF WriteFile, Calling, SinkReturns, config
  <2>2. StoresOK' /\ \A q \in Ops : q # o => SameStores(q)
    BY <1>1, <2>1, Holding DEF StoresOK, SameStores
  <2>3. Kept(o)'
    BY <2>1 DEF Kept
  <2>4. Settled(o, op[o].result)
    BY SMTT(60), <1>1, <2>1, <2>2, <2>3, Holding DEF Settled
  <2> QED BY <1>1, <2>1, <2>4, Holding, EndKeeps
<1>4. CASE CallProc(o)
  <2>1. /\ op[o].held = "proc" /\ accepted' = accepted \cup {o} /\ End(o, op[o].result)
        /\ sink' = sink /\ fileOpen' = fileOpen /\ cleared' = cleared /\ memory' = memory
        /\ file' = file /\ collector' = collector /\ acked' = acked /\ refused' = refused
        /\ reported' = reported /\ dropped' = dropped
    BY <1>4 DEF CallProc, Calling, SinkReturns, config
  <2>2. StoresOK' /\ \A q \in Ops : q # o => SameStores(q)
    BY <1>1, <2>1, Holding DEF StoresOK, SameStores
  <2>3. Kept(o)'
    BY <2>1 DEF Kept
  <2>4. Settled(o, op[o].result)
    BY SMTT(60), <1>1, <2>1, <2>2, <2>3, Holding DEF Settled
  <2> QED BY <1>1, <2>1, <2>4, Holding, EndKeeps
<1>5. CASE WriteFileFails(o) \/ CallProcFails(o)
  <2>1. /\ op[o].held \in {"file", "proc"} /\ SinkRaises(o)
        /\ sink' = sink /\ fileOpen' = fileOpen /\ cleared' = cleared /\ memory' = memory
        /\ file' = file /\ collector' = collector /\ acked' = acked /\ refused' = refused
        /\ accepted' = accepted /\ dropped' = dropped
    BY <1>5 DEF WriteFileFails, CallProcFails, Calling, config, stores
  <2>2. CASE op[o].kind = "record"
    <3>1. End(o, "failure") /\ reported' = reported
      BY <2>1, <2>2 DEF SinkRaises
    <3>2. StoresOK' /\ \A q \in Ops : q # o => SameStores(q)
      BY <1>1, <2>1, <3>1, Holding DEF StoresOK, SameStores
    <3>3. Settled(o, "failure")
      BY SMTT(60), <1>1, <2>1, <2>2, <3>1, <3>2, Holding DEF Settled
    <3> QED BY <3>1, <3>3, EndKeeps
  <2>3. CASE op[o].kind # "record"
    <3>1. End(o, op[o].result) /\ reported' = reported \cup {o}
      BY <2>1, <2>3 DEF SinkRaises
    <3>2. StoresOK' /\ \A q \in Ops : q # o => SameStores(q)
      BY <1>1, <2>1, <3>1, Holding DEF StoresOK, SameStores
    <3>3. Settled(o, op[o].result)
      BY SMTT(60), <1>1, <2>1, <2>3, <3>1, <3>2, Holding DEF Settled
    <3> QED BY <1>1, <3>1, <3>3, Holding, EndKeeps
  <2> QED BY <2>2, <2>3
<1> QED BY <1>2, <1>3, <1>4, <1>5

\* An attempt that may have been ingested, and an answer to it that may be a refusal.
LEMMA AttemptFacts ==
  ASSUME AuditInv, NEW o \in Ops, op[o].pc \in {"call", "post"},
         Ingest(o) \/ collector' = collector,
         refused' = [refused EXCEPT ![o] = @ + 1] \/ refused' = refused
  PROVE  /\ collector' \in [Ops -> Nat] /\ refused' \in [Ops -> Nat]
         /\ collector'[o] <= refused[o] + 1 /\ collector'[o] <= refused'[o] + 1
         /\ refused'[o] <= Retries + 1
         /\ \A q \in Ops : q # o => collector'[q] = collector[q] /\ refused'[q] = refused[q]
<1>1. /\ collector \in [Ops -> Nat] /\ refused \in [Ops -> Nat] /\ Retries \in Nat
      /\ collector[o] <= refused[o] /\ refused[o] <= Retries
  BY Holding, AuditAssumption DEF StoresOK
<1>2. /\ collector' \in [Ops -> Nat]
      /\ collector'[o] = collector[o] \/ collector'[o] = collector[o] + 1
      /\ \A q \in Ops : q # o => collector'[q] = collector[q]
  BY SMTT(60), <1>1 DEF Ingest
<1>3. /\ refused' \in [Ops -> Nat]
      /\ refused'[o] = refused[o] \/ refused'[o] = refused[o] + 1
      /\ \A q \in Ops : q # o => refused'[q] = refused[q]
  BY SMTT(60), <1>1
<1> QED BY SMTT(60), <1>1, <1>2, <1>3

\* An export that ends without a 2xx answer, ingested or not.
LEMMA DropKeeps ==
  ASSUME AuditInv, NEW o \in Ops, op[o].pc \in {"call", "post"}, op[o].held = "otlp", Drop(o),
         Ingest(o) \/ collector' = collector,
         refused' = [refused EXCEPT ![o] = @ + 1] \/ refused' = refused,
         UNCHANGED <<config, memory, cleared, file, accepted, acked>>
  PROVE  AuditInv'
<1>1. /\ End(o, op[o].result) /\ dropped' = dropped + 1 /\ reported' = reported \cup {o}
      /\ sink' = sink /\ fileOpen' = fileOpen /\ cleared' = cleared /\ memory' = memory
      /\ file' = file /\ acked' = acked /\ accepted' = accepted
  BY DEF Drop, config
<1>2. /\ collector' \in [Ops -> Nat] /\ refused' \in [Ops -> Nat]
      /\ collector'[o] <= refused'[o] + 1 /\ refused'[o] <= Retries + 1
      /\ \A q \in Ops : q # o => collector'[q] = collector[q] /\ refused'[q] = refused[q]
  BY AttemptFacts
<1>3. StoresOK' /\ \A q \in Ops : q # o => SameStores(q)
  BY SMTT(60), <1>1, <1>2, Holding DEF StoresOK, SameStores
<1>4. Settled(o, op[o].result)
  BY <1>1, <1>2, <1>3, Holding DEF Settled
<1> QED BY <1>1, <1>4, Holding, EndKeeps

\* A refused attempt that is not the last.
LEMMA RetryKeeps ==
  ASSUME AuditInv, NEW o \in Ops, PostRefused(o), op[o].attempt # Retries
  PROVE  AuditInv'
<1>1. /\ op[o].pc = "post"
      /\ Ingest(o) \/ collector' = collector
      /\ refused' = [refused EXCEPT ![o] = @ + 1]
      /\ op' = [op EXCEPT ![o].attempt = @ + 1] /\ dropped' = dropped /\ reported' = reported
      /\ sink' = sink /\ fileOpen' = fileOpen /\ cleared' = cleared /\ memory' = memory
      /\ file' = file /\ acked' = acked /\ accepted' = accepted
  BY DEF PostRefused, config
<1>2. /\ collector' \in [Ops -> Nat] /\ refused' \in [Ops -> Nat]
      /\ collector'[o] <= refused[o] + 1
      /\ collector'[o] <= refused'[o] + 1 /\ refused'[o] <= Retries + 1
      /\ \A q \in Ops : q # o => collector'[q] = collector[q] /\ refused'[q] = refused[q]
  BY <1>1, AttemptFacts
<1>3. TypeOK /\ Sound(o) /\ op[o].held = "otlp" /\ refused[o] = op[o].attempt
  BY <1>1, Holding DEF AuditInv
<1>4. Advances(o, "post", "otlp", op[o].attempt + 1)
  BY <1>1, <1>3 DEF Advances
<1>5. /\ op' \in [Ops -> OpRecord]
      /\ \A q \in Ops : q # o => op'[q] = op[q]
      /\ op'[o].pc = "post" /\ op'[o].held = "otlp" /\ op'[o].kind = op[o].kind
      /\ op'[o].armed = op[o].armed /\ op'[o].attempt = op[o].attempt + 1
  BY <1>3, <1>4, AdvanceFacts DEF Sinks
<1>6. TypeOK'
  BY <1>1, <1>2, <1>5, Types, Holding DEF StoresOK
<1>7. \A q \in Ops : q # o => Same(q)
  BY <1>1, <1>2, <1>5 DEF Same
<1>8. refused'[o] = refused[o] + 1
  BY <1>1, Holding DEF StoresOK
<1>9. Counted(o)'
  BY <1>2, <1>3, <1>5, <1>8 DEF Counted
<1>10. KeptByHeld(o)'
  BY <1>1, <1>3, <1>5 DEF Sound, KeptByHeld, Kept
<1>11. Placed(o)'
  BY <1>1, <1>3, <1>5 DEF Sound, Placed
<1>12. Told(o)'
  BY <1>5 DEF Told
<1>13. o \notin Undelivered /\ o \notin Undelivered'
  BY <1>1, <1>5 DEF Undelivered
<1> QED BY <1>1, <1>6, <1>7, <1>9, <1>10, <1>11, <1>12, <1>13, OneMoves DEF Sound

LEMMA DeliveryKeeps ==
  ASSUME AuditInv, NEW o \in Ops,
         \/ StartDelivery(o) \/ EnvelopeFails(o) \/ PostSucceeds(o) \/ PostRefused(o)
         \/ PostRaises(o)
  PROVE  AuditInv'
<1>1. /\ op[o].pc \in {"call", "post"} /\ op[o].held = "otlp"
      /\ PostSucceeds(o) \/ PostRefused(o) \/ PostRaises(o) => op[o].pc = "post"
  BY Holding DEF StartDelivery, EnvelopeFails, PostSucceeds, PostRefused, PostRaises, Calling
<1>2. CASE StartDelivery(o)
  <2>1. /\ Advances(o, "post", "otlp", op[o].attempt) /\ op[o].pc = "call"
        /\ UNCHANGED <<config, stores, reported>>
    BY <1>1, <1>2 DEF StartDelivery, Advances, Calling
  <2> QED BY <1>1, <2>1, AdvanceKeeps DEF Sinks
<1>3. CASE EnvelopeFails(o)
  BY <1>1, <1>3, DropKeeps DEF EnvelopeFails
<1>4. CASE PostSucceeds(o)
  <2>1. /\ End(o, op[o].result) /\ Ingest(o) /\ acked' = acked \cup {o}
        /\ dropped' = dropped /\ reported' = reported
        /\ sink' = sink /\ fileOpen' = fileOpen /\ cleared' = cleared /\ memory' = memory
        /\ file' = file /\ accepted' = accepted /\ refused' = refused
    BY <1>4 DEF PostSucceeds, SinkReturns, config
  <2>2. /\ collector' \in [Ops -> Nat] /\ refused' \in [Ops -> Nat]
        /\ collector'[o] <= refused'[o] + 1 /\ refused'[o] <= Retries + 1
        /\ \A q \in Ops : q # o => collector'[q] = collector[q]
    BY <1>1, <2>1, AttemptFacts
  <2>3. StoresOK' /\ \A q \in Ops : q # o => SameStores(q)
    BY <1>1, <2>1, <2>2, Holding DEF StoresOK, SameStores
  <2>4. Kept(o)'
    BY SMTT(60), <2>1 DEF Kept
  <2>5. Settled(o, op[o].result)
    BY <1>1, <2>1, <2>2, <2>3, <2>4, Holding DEF Settled
  <2> QED BY <1>1, <2>1, <2>5, Holding, EndKeeps
<1>5. CASE PostRefused(o)
  <2>1. CASE op[o].attempt = Retries
    BY <1>1, <1>5, <2>1, DropKeeps DEF PostRefused
  <2>2. CASE op[o].attempt # Retries
    BY <1>5, <2>2, RetryKeeps
  <2> QED BY <2>1, <2>2
<1>6. CASE PostRaises(o)
  BY <1>1, <1>6, DropKeeps DEF PostRaises
<1> QED BY <1>2, <1>3, <1>4, <1>5, <1>6

LEMMA SetSinkKeeps ==
  ASSUME AuditInv, NEW s \in Choices, SetSink(s)
  PROVE  AuditInv'
<1>1. TypeOK /\ StoresOK /\ op \in [Ops -> OpRecord] /\ \A q \in Ops : Sound(q)
  BY Types DEF AuditInv
<1>2. /\ sink' = s /\ memory' = memory /\ cleared' = cleared /\ file' = file
      /\ accepted' = accepted /\ collector' = collector /\ acked' = acked /\ refused' = refused
      /\ reported' = reported /\ dropped' = dropped /\ fileOpen' = fileOpen
  BY DEF SetSink, stores
<1>3. ASSUME NEW q \in Ops
      PROVE  /\ op'[q] \in OpRecord
             /\ op'[q].pc = op[q].pc /\ op'[q].kind = op[q].kind
             /\ op'[q].result = op[q].result /\ op'[q].held = op[q].held
             /\ op'[q].attempt = op[q].attempt
             /\ op'[q].out = op[q].out /\ op'[q].armed = (op[q].armed /\ s # "nil")
  <2> DEFINE a == op[q].armed /\ s # "nil"
             r == [op[q] EXCEPT !.armed = a]
  <2>1. op[q] \in OpRecord
    BY SMTT(60), <1>1
  <2>2. r = [pc |-> op[q].pc, kind |-> op[q].kind, result |-> op[q].result, armed |-> a,
             held |-> op[q].held, attempt |-> op[q].attempt, out |-> op[q].out]
    BY <2>1, OneField
  <2>3. a \in BOOLEAN
    OBVIOUS
  <2>4. op'[q] = r
    BY DEF SetSink
  <2> HIDE DEF a, r
  <2>5. r \in OpRecord
    BY <2>1, <2>2, <2>3 DEF OpRecord
  <2>6. /\ r.pc = op[q].pc /\ r.kind = op[q].kind /\ r.result = op[q].result
        /\ r.held = op[q].held /\ r.out = op[q].out /\ r.armed = a /\ r.attempt = op[q].attempt
    BY <2>2, Zenon
  <2> QED BY <2>4, <2>5, <2>6 DEF a
<1>4. op' \in [Ops -> OpRecord]
  <2>1. op' = [q \in Ops |-> op'[q]]
    BY DEF SetSink
  <2> QED BY <1>3, <2>1
<1>5. TypeOK'
  BY <1>1, <1>2, <1>4, Types, AuditAssumption DEF StoresOK, Sinks
<1>6. ASSUME NEW q \in Ops
      PROVE  Sound(q)'
  <2>1. KeptByHeld(q)'
    BY <1>1, <1>2, <1>3 DEF Sound, KeptByHeld, Kept
  <2>2. Placed(q)'
    BY <1>1, <1>2, <1>3 DEF Sound, Placed
  <2>3. Told(q)'
    BY <1>1, <1>2, <1>3 DEF Sound, Told, Kept
  <2>4. Counted(q)'
    BY <1>1, <1>2, <1>3 DEF Sound, Counted
  <2> QED BY <2>1, <2>2, <2>3, <2>4 DEF Sound
<1>7. Undelivered' = Undelivered
  BY <1>2, <1>3 DEF Undelivered
<1> QED BY <1>2, <1>5, <1>6, <1>7 DEF AuditInv

LEMMA ClearKeeps ==
  ASSUME AuditInv, CloseFile \/ ClearMemory
  PROVE  AuditInv'
<1>1. /\ memory' \cup cleared' = memory \cup cleared
      /\ sink' = sink /\ file' = file /\ accepted' = accepted /\ collector' = collector
      /\ acked' = acked /\ refused' = refused /\ reported' = reported /\ dropped' = dropped
      /\ op' = op
  BY DEF CloseFile, ClearMemory, config, stores
<1>2. StoresOK' /\ op' \in [Ops -> OpRecord]
  BY Types DEF AuditInv, StoresOK, CloseFile, ClearMemory, config, stores
<1>3. ASSUME NEW q \in Ops
      PROVE  Sound(q)'
  BY <1>1 DEF AuditInv, Sound, KeptByHeld, Counted, Placed, Told, Kept
<1>4. Undelivered' = Undelivered
  BY <1>1 DEF Undelivered
<1> QED BY <1>1, <1>2, <1>3, <1>4, Types DEF AuditInv
-------------------------------------------------------------------------------
LEMMA InitEstablishes == Init => AuditInv
<1> SUFFICES ASSUME Init PROVE AuditInv
  OBVIOUS
<1> DEFINE r == [pc |-> "idle", kind |-> "none", result |-> "none", armed |-> FALSE,
                 held |-> "nil", attempt |-> 0, out |-> "none"]
<1>1. op = [o \in Ops |-> r]
  BY DEF Init
<1>2. /\ r \in OpRecord /\ r.pc = "idle" /\ r.held = "nil" /\ r.armed = FALSE /\ r.attempt = 0
  BY SMTT(60), AuditAssumption DEF OpRecord, Sinks
<1> HIDE DEF r
<1>3. TypeOK
  BY <1>1, <1>2, Types DEF Init, StoresOK, Sinks
<1>4. ASSUME NEW o \in Ops
      PROVE  Sound(o)
  <2>1. op[o] = r
    BY <1>1
  <2> QED BY SMTT(60), <1>2, <2>1, AuditAssumption DEF Init, Sound, KeptByHeld, Counted, Placed, Told, Kept
<1>5. Undelivered = {}
  BY <1>1, <1>2 DEF Undelivered
<1>6. dropped = Cardinality(Undelivered)
  BY <1>5, FS_EmptySet DEF Init
<1> QED BY <1>3, <1>4, <1>6 DEF AuditInv

LEMMA NextKeeps == AuditInv /\ [Next]_vars => AuditInv'
<1> SUFFICES ASSUME AuditInv, [Next]_vars PROVE AuditInv'
  OBVIOUS
<1>1. ASSUME NEW o \in Ops,
             \/ SignOp(o) \/ KeygenOp(o) \/ MtaOp(o) \/ RefusedOp(o)
             \/ VerifyOp(o) \/ EncryptOp(o) \/ RecordOp(o)
      PROVE  AuditInv'
  <2>1. CASE SignOp(o) \/ KeygenOp(o) \/ MtaOp(o)
    <3>1. PICK result \in Outcome : Begin(o, "sign", result, "fire", "none")
      BY <2>1 DEF SignOp, KeygenOp, MtaOp
    <3> QED BY <3>1, BeginKeeps DEF Outcome
  <2>2. CASE VerifyOp(o) \/ EncryptOp(o)
    <3>1. PICK result \in Outcome : Begin(o, "quiet", result, "done", result)
      BY <2>2 DEF VerifyOp, EncryptOp
    <3> QED BY <3>1, BeginKeeps DEF Outcome
  <2>3. CASE RefusedOp(o)
    BY <2>3, BeginKeeps DEF RefusedOp
  <2>4. CASE RecordOp(o)
    BY <2>4, BeginKeeps DEF RecordOp
  <2> QED BY <1>1, <2>1, <2>2, <2>3, <2>4
<1>2. ASSUME NEW o \in Ops, Step(o)
      PROVE  AuditInv'
  BY <1>2, ReadSinkKeeps, CallKeeps, DeliveryKeeps DEF Step
<1>3. ASSUME NEW s \in Choices, SetSink(s)
      PROVE  AuditInv'
  BY <1>3, SetSinkKeeps
<1>4. CASE CloseFile \/ ClearMemory
  BY <1>4, ClearKeeps
<1>5. CASE UNCHANGED vars
  <2>1. /\ sink' = sink /\ fileOpen' = fileOpen /\ memory' = memory /\ cleared' = cleared
        /\ file' = file /\ accepted' = accepted /\ collector' = collector /\ acked' = acked /\ refused' = refused
        /\ reported' = reported /\ dropped' = dropped /\ op' = op
    BY <1>5 DEF vars
  <2>2. ASSUME NEW q \in Ops
        PROVE  Sound(q)'
    BY <2>1 DEF AuditInv, Sound, KeptByHeld, Counted, Placed, Told, Kept
  <2> QED BY <2>1, <2>2, Types DEF AuditInv, StoresOK, Undelivered
<1> QED BY <1>1, <1>2, <1>3, <1>4, <1>5 DEF Next

LEMMA AuditInvariant == Spec => []AuditInv
<1>1. Init => AuditInv
  BY InitEstablishes
<1>2. AuditInv /\ [Next]_vars => AuditInv'
  BY NextKeeps
<1> QED BY <1>1, <1>2, PTL DEF Spec

\* A signing, key generation or MtA call ends with the result it computed, for any
\* number of threads and any behaviour of the sinks (fire_event, audit.rs).
THEOREM SigningUnharmed == Spec => []AuditNeverBreaksSigning
<1>1. AuditInv => AuditNeverBreaksSigning
  BY DEF AuditInv, Sound, Told, AuditNeverBreaksSigning, Done
<1> QED BY <1>1, AuditInvariant, PTL

\* No event is lost silently, for any number of threads, sinks and retries
\* (fire_event, Audit.record and the rescue clause of OtlpSink#write).
THEOREM LossesAreReported == Spec => []NoSilentLoss
<1>1. AuditInv => NoSilentLoss
  BY DEF AuditInv, Sound, Told, Kept, NoSilentLoss, Done
<1> QED BY <1>1, AuditInvariant, PTL

\* OtlpSink#dropped is exact, for any number of threads exporting through one sink.
THEOREM DropsAreCounted == Spec => []DroppedIsExact
<1>1. AuditInv => DroppedIsExact
  BY DEF AuditInv, Undelivered, DroppedIsExact, Done
<1> QED BY <1>1, AuditInvariant, PTL

\* A record reaches one sink, and the collector ingests it again only after it gave
\* an answer that was no 2xx, for any number of threads, sinks and retries
\* (OtlpSink#deliver retries answers only, never exceptions).
THEOREM RepeatsAreAnswered == Spec => []RepeatsFollowRefusals
<1>1. ASSUME AuditInv, NEW o \in Ops
      PROVE  /\ collector[o] <= refused[o] + 1 /\ refused[o] <= Retries + 1
             /\ Cardinality({p \in {<<"memory", memory \cup cleared>>, <<"file", file>>,
                                    <<"proc", accepted>>,
                                    <<"otlp", {x \in Ops : collector[x] > 0}>>} :
                               o \in p[2]}) <= 1
  <2> DEFINE all == {<<"memory", memory \cup cleared>>, <<"file", file>>, <<"proc", accepted>>,
                     <<"otlp", {x \in Ops : collector[x] > 0}>>}
             has == {p \in all : o \in p[2]}
  <2>1. KeptByHeld(o) /\ Counted(o)
    BY <1>1 DEF AuditInv, Sound
  <2>2. \A p \in has : p[1] = op[o].held
    BY SMTT(60), <2>1 DEF KeptByHeld
  <2>3. \A p, r \in all : p[1] = r[1] => p = r
    OBVIOUS
  <2>4. CASE has = {}
    <3> HIDE DEF has
    <3>1. Cardinality(has) = 0
      BY <2>4, FS_EmptySet
    <3> QED BY SMTT(60), <2>1, <3>1 DEF Counted, has
  <2>5. CASE has # {}
    <3>1. PICK p \in has : TRUE
      BY <2>5
    <3>2. has = {p}
      BY <2>2, <2>3, <3>1
    <3> HIDE DEF has
    <3>3. Cardinality(has) = 1
      BY <3>2, FS_Singleton
    <3> QED BY SMTT(60), <2>1, <3>3 DEF Counted, has
  <2> QED BY <2>4, <2>5
<1>2. AuditInv => RepeatsFollowRefusals
  BY <1>1 DEF RepeatsFollowRefusals
<1> QED BY <1>2, AuditInvariant, PTL
================================================================================
