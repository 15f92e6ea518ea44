------------------------------- MODULE OtsClient -------------------------------
(***************************************************************************)
(* Confium::Transparency::OTS: the memoised default client (ots.rb) and    *)
(* the native Client's stamp and upgrade (ots.rs), which hold the RefCell  *)
(* borrow of the client across a calendar round trip made without the GVL  *)
(* (gvl.rs), so other Ruby threads run meanwhile.  A second borrow panics, *)
(* which magnus raises as Ruby's fatal: the process ends.  An interrupt    *)
(* (Timeout, Thread#raise, Thread#kill) that arrives during the round trip *)
(* is raised when the GVL is taken again and unwinds past the Rust frame.  *)
(***************************************************************************)
EXTENDS Naturals, FiniteSets

CONSTANTS
  Callers,         \* the Ruby threads that call OTS.stamp and OTS.upgrade
  Digests,         \* what they stamp
  Nil              \* no digest

(* `@default_client ||= Client.new` may run once in every racing thread.        *)
OtsClients == 1 .. Cardinality(Callers)

VARIABLES
  default,    \* @default_client: a client, or 0 for nil
  created,    \* the number of clients created
  borrowed,   \* the clients whose inner is mutably borrowed
  caller,     \* each thread's call
  leaked,     \* the clients an interrupt unwound from without dropping the borrow
  fatal       \* the process has ended in a panic

otsVars == <<default, created, borrowed, leaked, caller, fatal>>

(* A proof is the digest it anchors and how complete it is.                   *)
Proof == [digest: Digests, level: {"pending", "anchored", "junk"}]

NoProof == [digest |-> Nil, level |-> "none"]

Idle == [at |-> "idle", op |-> "none", arg |-> NoProof, client |-> 0,
         interrupted |-> FALSE, out |-> "none", proof |-> NoProof]

OtsInit ==
  /\ default = 0 /\ created = 0 /\ borrowed = {} /\ leaked = {} /\ fatal = FALSE
  /\ caller = [t \in Callers |-> Idle]

-------------------------------------------------------------------------------
CallerAt(t, where) == ~fatal /\ caller[t].at = where

Goto(t, where) == caller' = [caller EXCEPT ![t].at = where]

End(t, out, proof) ==
  caller' = [caller EXCEPT ![t] = [@ EXCEPT !.at = "idle", !.client = 0,
               !.interrupted = FALSE, !.out = out, !.proof = proof]]

\* stamp takes a digest, upgrade a proof; junk is a proof parse refuses, or for
\* stamp a digest that is not 32 bytes long.
OtsCall(t, op, arg) ==
  /\ CallerAt(t, "idle")
  /\ caller' = [caller EXCEPT ![t] =
       [Idle EXCEPT !.at = "default", !.op = op, !.arg = arg]]
  /\ UNCHANGED <<default, created, borrowed, leaked, fatal>>

\* default_client: `||=` reads, creates and assigns.
UseDefault(t) ==
  /\ CallerAt(t, "default") /\ default # 0
  /\ caller' = [caller EXCEPT ![t].at = "parse", ![t].client = default]
  /\ UNCHANGED <<default, created, borrowed, leaked, fatal>>

CreateDefault(t) ==
  /\ CallerAt(t, "default") /\ default = 0
  /\ created' = created + 1
  /\ caller' = [caller EXCEPT ![t].at = "assign", ![t].client = created + 1]
  /\ UNCHANGED <<default, borrowed, leaked, fatal>>

AssignDefault(t) ==
  /\ CallerAt(t, "assign")
  /\ default' = caller[t].client
  /\ Goto(t, "parse")
  /\ UNCHANGED <<created, borrowed, leaked, fatal>>

Refuse(t) ==
  /\ CallerAt(t, "parse") /\ caller[t].arg.level = "junk"
  /\ End(t, IF caller[t].op = "stamp" THEN "ArgumentError" ELSE "ParseError", NoProof)
  /\ UNCHANGED <<default, created, borrowed, leaked, fatal>>

\* An UnsafeCell: no check that the client is free.
BorrowUnchecked(t) ==
  /\ CallerAt(t, "parse") /\ caller[t].arg.level # "junk"
  /\ borrowed' = borrowed \cup {caller[t].client}
  /\ Goto(t, "calendar")
  /\ UNCHANGED <<default, created, leaked, fatal>>

\* self.inner.borrow_mut()
Borrow(t) ==
  /\ CallerAt(t, "parse") /\ caller[t].arg.level # "junk"
  /\ IF caller[t].client \in borrowed
     THEN fatal' = TRUE /\ End(t, "fatal", NoProof) /\ UNCHANGED borrowed
     ELSE /\ borrowed' = borrowed \cup {caller[t].client}
          /\ Goto(t, "calendar") /\ UNCHANGED fatal
  /\ UNCHANGED <<default, created, leaked>>

Interrupt(t) ==
  /\ CallerAt(t, "calendar")
  /\ caller' = [caller EXCEPT ![t].interrupted = TRUE]
  /\ UNCHANGED <<default, created, borrowed, leaked, fatal>>

\* The end of the Rust function drops the borrow, on every return path.
Release(t) == borrowed' = borrowed \ {caller[t].client}

Upgraded(arg) == IF arg.level = "none" THEN {"pending"} ELSE {arg.level, "anchored"}

\* The calendar answers: the proof keeps the digest that was sent.
Answered(t) ==
  /\ CallerAt(t, "calendar") /\ ~caller[t].interrupted
  /\ \E level \in Upgraded(caller[t].arg) :
       End(t, "proof", [digest |-> caller[t].arg.digest, level |-> level])
  /\ Release(t)
  /\ UNCHANGED <<default, created, leaked, fatal>>

\* The round trip fails or times out, or its answer does not serialize.
Fails(t) ==
  /\ CallerAt(t, "calendar") /\ ~caller[t].interrupted
  /\ \E error \in {"IOError", "RuntimeError"} : End(t, error, NoProof)
  /\ Release(t)
  /\ UNCHANGED <<default, created, leaked, fatal>>

\* The round trip ends and rb_thread_call_without_gvl raises the interrupt with
\* a longjmp: no destructor runs, so the borrow is never dropped.
Unwound(t) ==
  /\ CallerAt(t, "calendar") /\ caller[t].interrupted
  /\ End(t, "interrupted", NoProof)
  /\ leaked' = leaked \cup {caller[t].client}
  /\ UNCHANGED <<default, created, borrowed, fatal>>

Run(t) ==
  \/ UseDefault(t) \/ CreateDefault(t) \/ AssignDefault(t)
  \/ Refuse(t) \/ Borrow(t)
  \/ Answered(t) \/ Fails(t) \/ Unwound(t)

StampArgs ==
  [digest: Digests, level: {"none", "junk"}]

OtsNext ==
  \E t \in Callers :
    \/ Run(t)
    \/ Interrupt(t)
    \/ \E arg \in StampArgs : OtsCall(t, "stamp", arg)
    \/ \E arg \in Proof : OtsCall(t, "upgrade", arg)

OtsSpec == OtsInit /\ [][OtsNext]_otsVars

-------------------------------------------------------------------------------
Inside(c) == {t \in Callers : caller[t].at = "calendar" /\ caller[t].client = c}

\* The borrow follows the calls in flight: a client is borrowed while one thread, and no
\* second one, is in its calendar round trip, is free again after every way stamp and
\* upgrade return, and stays borrowed for good only when an interrupt unwound past the
\* function.  So calls made one after the other, each of which returned or raised by
\* itself, never end the process.
BorrowIsCallInFlight ==
  /\ \A c \in OtsClients :
       /\ c \in borrowed <=> Inside(c) # {} \/ c \in leaked
       /\ \A t, u \in Inside(c) : t = u /\ c \notin leaked
  /\ fatal => leaked # {} \/ \E t \in Callers : caller[t].at = "calendar"
===============================================================================
