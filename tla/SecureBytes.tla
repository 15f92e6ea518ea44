----------------------------- MODULE SecureBytes -----------------------------
(***************************************************************************)
(* Confium::SecureBytes (lib/confium/secure_bytes.rb): one wrapped buffer, *)
(* the threads that read and clear it, and the garbage collector.  Ruby    *)
(* may switch threads between two statements of a method, so a method is   *)
(* the sequence of its statements and each statement is a step.            *)
(***************************************************************************)
EXTENDS Naturals, Sequences

CONSTANTS
  Threads    \* the threads that share the object

VARIABLES
  memory,    \* what the wrapped String holds: the secret or zeros
  buffer,    \* whether @buffer still refers to it (FALSE: nil)
  cleared,   \* @cleared
  todo,      \* the statements each thread has left to run
  call,      \* the method each thread is in, or was in last
  out,       \* what that call returned or raised
  copy,      \* the local `copy` of bytes!
  alone,     \* no other call changed the object during this one
  object     \* "held" by the program, "dropped", or "exiting" with the process

bufferVars == <<memory, buffer, cleared, todo, call, out, copy, alone, object>>

state == <<memory, buffer, cleared>>

\* bytes! reads as bytes does, then calls clear.
Statements ==
  [bytes |-> <<"unless cleared raise", "dup">>,
   take |-> <<"unless cleared raise", "dup", "unless cleared", "zero", "unset", "flag">>,
   clear |-> <<"unless cleared", "zero", "unset", "flag">>,
   length |-> <<"unless cleared size", "size">>]

BufferInit ==
  /\ memory = "secret" /\ buffer = TRUE /\ cleared = FALSE
  /\ todo = [t \in Threads |-> <<>>]
  /\ call = [t \in Threads |-> "none"]
  /\ out = [t \in Threads |-> "none"]
  /\ copy = [t \in Threads |-> "none"]
  /\ alone = [t \in Threads |-> TRUE]
  /\ object = "held"

-------------------------------------------------------------------------------
Running(t) == todo[t] # <<>>

Call(t, m) ==
  /\ object = "held"
  /\ ~Running(t)
  /\ todo' = [todo EXCEPT ![t] = Statements[m]]
  /\ call' = [call EXCEPT ![t] = m]
  /\ out' = [out EXCEPT ![t] = "none"]
  /\ copy' = [copy EXCEPT ![t] = "none"]
  /\ alone' = [alone EXCEPT ![t] = \A u \in Threads \ {t} : call[u] \in {"clear", "take"} => ~Running(u)]
  /\ UNCHANGED <<state, object>>

Go(t) == todo' = [todo EXCEPT ![t] = Tail(@)] /\ UNCHANGED out

Finish(t, result) ==
  /\ todo' = [todo EXCEPT ![t] = <<>>]
  /\ out' = [out EXCEPT ![t] = result]

At(t, statement) == Running(t) /\ Head(todo[t]) = statement

\* A statement that writes the object: other calls are no longer alone.
Disturb(t) == alone' = [u \in Threads |-> alone[u] /\ (u = t \/ ~Running(u))]

\* raise ClearedError if @cleared
RaiseIfCleared(t) ==
  /\ At(t, "unless cleared raise")
  /\ IF cleared THEN Finish(t, "ClearedError") ELSE Go(t)
  /\ UNCHANGED <<state, call, copy, alone, object>>

\* @buffer.dup, which is nil for nil; bytes! keeps it, bytes returns it.
Dup(t) ==
  /\ At(t, "dup")
  /\ LET value == IF buffer THEN memory ELSE "nil" IN
       IF call[t] = "take"
       THEN Go(t) /\ copy' = [copy EXCEPT ![t] = value]
       ELSE Finish(t, value) /\ UNCHANGED copy
  /\ UNCHANGED <<state, call, alone, object>>

\* length: 0 when cleared, else @buffer.bytesize, which nil does not have.
Length(t) ==
  /\ At(t, "unless cleared size")
  /\ IF cleared THEN Finish(t, "0") ELSE Go(t)
  /\ UNCHANGED <<state, call, copy, alone, object>>

Size(t) ==
  /\ At(t, "size")
  /\ Finish(t, IF buffer THEN "size" ELSE "NoMethodError")
  /\ UNCHANGED <<state, call, copy, alone, object>>

Result(t) == IF call[t] = "take" THEN copy[t] ELSE "self"

\* return self if @cleared
ReturnIfCleared(t) ==
  /\ At(t, "unless cleared")
  /\ IF cleared THEN Finish(t, Result(t)) ELSE Go(t)
  /\ UNCHANGED <<state, call, copy, alone, object>>

\* Without the overwrite.
ZeroNothing(t) ==
  /\ At(t, "zero")
  /\ Go(t)
  /\ UNCHANGED <<state, call, copy, alone, object>>

\* @buffer.replace("\x00" * @buffer.bytesize)
Zero(t) ==
  /\ At(t, "zero")
  /\ IF buffer
     THEN Go(t) /\ memory' = "zeros" /\ Disturb(t)
     ELSE Finish(t, "NoMethodError") /\ UNCHANGED <<memory, alone>>
  /\ UNCHANGED <<buffer, cleared, call, copy, object>>

UnsetBuffer(t) ==
  /\ At(t, "unset")
  /\ buffer' = FALSE
  /\ Go(t) /\ Disturb(t)
  /\ UNCHANGED <<memory, cleared, call, copy, object>>

\* Without @cleared = true.
FlagNothing(t) ==
  /\ At(t, "flag")
  /\ Finish(t, Result(t)) /\ Disturb(t)
  /\ UNCHANGED <<state, call, copy, object>>

Flag(t) ==
  /\ At(t, "flag")
  /\ cleared' = TRUE
  /\ Finish(t, Result(t)) /\ Disturb(t)
  /\ UNCHANGED <<memory, buffer, call, copy, object>>

-------------------------------------------------------------------------------
(* The collector.  The finalizer table refers to method(:finalize), and a      *)
(* Method refers to its receiver, so the table keeps the object reachable: it  *)
(* is finalized with all others when the process exits, and not before.        *)

Drop ==
  /\ object = "held" /\ \A t \in Threads : ~Running(t)
  /\ object' = "dropped"
  /\ UNCHANGED <<state, todo, call, out, copy, alone>>

\* Ruby runs the finalizers of all objects when the process ends.
Exit ==
  /\ object = "dropped"
  /\ object' = "exiting"
  /\ UNCHANGED <<state, todo, call, out, copy, alone>>

\* A finalizer that finds nothing to do.
FinalizeNothing ==
  /\ object = "exiting"
  /\ ~cleared
  /\ UNCHANGED bufferVars

Finalize ==
  /\ object = "exiting"
  /\ ~cleared
  /\ memory' = IF buffer THEN "zeros" ELSE memory
  /\ buffer' = FALSE /\ cleared' = TRUE
  /\ UNCHANGED <<todo, call, out, copy, alone, object>>

Step(t) ==
  \/ RaiseIfCleared(t) \/ Dup(t) \/ Length(t) \/ Size(t)
  \/ ReturnIfCleared(t) \/ Zero(t) \/ UnsetBuffer(t) \/ Flag(t)

BufferNext ==
  \/ \E t \in Threads : Step(t) \/ \E m \in DOMAIN Statements : Call(t, m)
  \/ Drop \/ Exit \/ Finalize

(* Ruby schedules every running thread, and runs the finalizers of a process    *)
(* that exits.  Nothing makes it exit.                                         *)
BufferSpec ==
  /\ BufferInit /\ [][BufferNext]_bufferVars
  /\ \A t \in Threads : WF_bufferVars(Step(t))
  /\ WF_bufferVars(Finalize)

-------------------------------------------------------------------------------
\* cleared? tells the truth: once @cleared reads true the secret has been
\* overwritten and the reference dropped, whichever of several racing clears,
\* destructive reads and the finalizer set the flag.
ClearedIsZeroed ==
  cleared => memory = "zeros" /\ ~buffer

\* A call during which no other call changes the object keeps its contract:
\* bytes and bytes! return the secret or raise ClearedError, clear and length
\* never raise.
CallsAloneAreSound ==
  \A t \in Threads : (alone[t] /\ ~Running(t)) =>
    CASE call[t] \in {"bytes", "take"} -> out[t] \in {"secret", "ClearedError"}
      [] call[t] = "clear" -> out[t] = "self" /\ cleared
      [] call[t] = "length" -> out[t] \in {"size", "0"}
      [] OTHER -> TRUE

\* Racing calls never let the secret back in and never hang: once somebody has begun to
\* overwrite it, @cleared is eventually true for good; and an object nobody cleared is
\* overwritten when the process exits, whatever races over it went before.  (Only then:
\* the finalizer table keeps the object reachable, so no collection finalizes it.)
ZeroedForGood ==
  /\ memory = "zeros" ~> [](cleared)
  /\ object = "exiting" ~> memory = "zeros"
================================================================================
