------------------------------- MODULE ShareFile -------------------------------
(***************************************************************************)
(* Confium::TC::ShareFile (lib/confium/tc/share_file.rb): processes that   *)
(* share one path save the results of Cmp20.keygen and Gg18.keygen there   *)
(* and load them back.  save truncates the file and then writes it, so a   *)
(* process may be killed in between or in the middle of the write, the     *)
(* disk may fill up, and other processes may load or save meanwhile.       *)
(*                                                                         *)
(* A file is a sequence of cells: the first one stands for the scheme, the *)
(* counts and the public key of a keygen, the others for its shares and    *)
(* the end of the JSON text.                                               *)
(***************************************************************************)
EXTENDS Naturals, Sequences

CONSTANTS
  Procs,        \* the processes
  Counts,       \* the party counts of the keygens
  MaxKeygens    \* bound: keygens

ASSUME ShareFileAssumption == Counts \subseteq Nat \ {0} /\ MaxKeygens \in Nat

VARIABLES
  file,         \* the cells at the path; none before the first save
  keygens,      \* the party count of every keygen so far
  proc,         \* where each process is, and the keygen it holds
  overlap,      \* two saves were in flight together since one began alone
  whole,        \* the keygen of the save that completed last, 0 if one began since
  load          \* the last load: what it gave, and when

shareVars == <<file, keygens, proc, overlap, whole, load>>

Idle == [at |-> "idle", holds |-> 0]
NoLoad == [out |-> "none"]

ShareInit ==
  /\ file = <<>> /\ keygens = <<>>
  /\ proc = [p \in Procs |-> Idle]
  /\ overlap = FALSE /\ whole = 0
  /\ load = NoLoad
-------------------------------------------------------------------------------
\* to_json: the envelope of a keygen.
Envelope(g) == [i \in 1..keygens[g] + 2 |-> [keygen |-> g, at |-> i, count |-> keygens[g]]]

\* JSON.parse and the fetches of from_json, which look at the text and not at where it came
\* from: one whole object with every field, its end the end of the text.  The shares are
\* not counted.
WellFormed(cells) ==
  /\ cells # <<>>
  /\ \A i \in DOMAIN cells :
       /\ cells[i].at = i
       /\ i = Len(cells) <=> i = cells[i].count + 2

\* What a write at offset 0 of an open file leaves.
Overwritten(old, new) == new \o SubSeq(old, Len(new) + 1, Len(old))

\* cmp20_keygen and gg18_keygen; from_keygen takes over the public key and the shares.
Keygen(p, n) ==
  /\ proc[p].at = "idle"
  /\ Len(keygens) < MaxKeygens
  /\ keygens' = Append(keygens, n)
  /\ proc' = [proc EXCEPT ![p].holds = Len(keygens) + 1]
  /\ UNCHANGED <<file, overlap, whole, load>>

InFlight == {p \in Procs : proc[p].at = "write"}

\* Mutant: the file is opened for update.
OpenForUpdate(p) ==
  /\ proc[p].at = "idle" /\ proc[p].holds # 0
  /\ proc' = [proc EXCEPT ![p].at = "write"]
  /\ overlap' = (InFlight # {})
  /\ whole' = 0
  /\ UNCHANGED <<file, keygens, load>>

\* save: the directories are made and the file is opened and truncated.
Open(p) ==
  /\ proc[p].at = "idle" /\ proc[p].holds # 0
  /\ proc' = [proc EXCEPT ![p].at = "write"]
  /\ file' = <<>>
  /\ overlap' = (InFlight # {})
  /\ whole' = 0
  /\ UNCHANGED <<keygens, load>>

\* save: File.write ends and the file is closed.
Write(p) ==
  /\ proc[p].at = "write"
  /\ file' = Overwritten(file, Envelope(proc[p].holds))
  /\ proc' = [proc EXCEPT ![p].at = "idle"]
  /\ whole' = IF overlap THEN 0 ELSE proc[p].holds
  /\ UNCHANGED <<keygens, overlap, load>>

\* The write is cut short: the disk is full, which raises, or the process is killed, and
\* is started again with nothing in memory.
CutShort(p, killed) ==
  /\ proc[p].at = "write"
  /\ \E n \in 0..keygens[proc[p].holds] + 1 :
       file' = Overwritten(file, SubSeq(Envelope(proc[p].holds), 1, n))
  /\ proc' = [proc EXCEPT ![p] = IF killed THEN Idle ELSE [@ EXCEPT !.at = "idle"]]
  /\ UNCHANGED <<keygens, overlap, whole, load>>

\* load: a missing, empty or torn file raises.
Load(p) ==
  /\ proc[p].at = "idle"
  /\ load' = [out |-> IF WellFormed(file) THEN "ok" ELSE "raised",
              cells |-> file, overlap |-> overlap, whole |-> whole]
  /\ UNCHANGED <<file, keygens, proc, overlap, whole>>

ShareNext ==
  \E p \in Procs :
    \/ \E n \in Counts : Keygen(p, n)
    \/ Open(p) \/ Write(p) \/ Load(p)
    \/ \E killed \in BOOLEAN : CutShort(p, killed)

ShareSpec == ShareInit /\ [][ShareNext]_shareVars
-------------------------------------------------------------------------------
\* What is loaded is the public key and all the shares of one keygen, never the key of one
\* and the shares of another, and once a save has completed every load gives what was
\* saved, whatever was cut short before it; this fails only for saves that overlap.
LoadIsOneKeygen ==
  load # NoLoad /\ ~ load.overlap =>
    /\ load.out = "ok" => load.cells = Envelope(load.cells[1].keygen)
    /\ load.whole # 0 => load.out = "ok" /\ load.cells = Envelope(load.whole)
================================================================================
