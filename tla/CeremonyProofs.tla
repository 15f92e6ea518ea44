---------------------------- MODULE CeremonyProofs ----------------------------
(***************************************************************************)
(* What parties do together without a coordinator: share files             *)
(* (ShareFile), for any number of processes, keygens and parties of a      *)
(* keygen; and MtA exchanges (Mta), for any group order and any number of  *)
(* exchanges, secrets and responses.                                       *)
(***************************************************************************)
EXTENDS ShareFile, Mta, SequenceTheorems, TLAPS

\* Zenon first, the SMT solver where it is not named alone.
USE ZenonT(30), SMTT(60)

-------------------------------------------------------------------------------
(* Share files.                                                               *)

Cell(g, i) == [keygen |-> g, at |-> i, count |-> keygens[g]]

\* The first n cells of an envelope.
Piece(g, n) == [i \in 1..n |-> Cell(g, i)]

Writing(p) == proc[p].at = "write"

ShareType ==
  /\ keygens \in Seq(Nat \ {0})
  /\ proc \in [Procs -> [at: {"idle", "write"}, holds: 0..Len(keygens)]]
  /\ \A p \in Procs : Writing(p) => proc[p].holds # 0
  /\ overlap \in BOOLEAN
  /\ whole \in 0..Len(keygens)

\* Without overlapping saves the one save in flight finds the file empty, so the file is
\* always the beginning of one envelope, and all of it once the save completed.
FileInv ==
  /\ ~ overlap =>
       /\ \A p, q \in Procs : Writing(p) /\ Writing(q) => p = q
       /\ \A p \in Procs : Writing(p) => file = <<>>
       /\ file = <<>> \/ \E g \in 1..Len(keygens) : \E n \in 1..keygens[g] + 2 : file = Piece(g, n)
  /\ whole # 0 => ~ overlap /\ file = Envelope(whole) /\ \A p \in Procs : ~ Writing(p)

\* What the last load said still stands.
LoadInv ==
  load # NoLoad /\ ~ load.overlap =>
    /\ load.out = "ok" => \E g \in 1..Len(keygens) : load.cells = Envelope(g)
    /\ load.whole # 0 => /\ load.whole \in 1..Len(keygens)
                         /\ load.out = "ok" /\ load.cells = Envelope(load.whole)

ShareInv == ShareType /\ FileInv /\ LoadInv
-------------------------------------------------------------------------------
LEMMA FieldsAfter ==
  ASSUME NEW S, NEW T, NEW r \in [at: S, holds: T], NEW x
  PROVE  /\ [r EXCEPT !.holds = x] = [at |-> r.at, holds |-> x]
         /\ [r EXCEPT !.at = x] = [at |-> x, holds |-> r.holds]
OBVIOUS

LEMMA EnvelopeIsPiece == \A g : Envelope(g) = Piece(g, keygens[g] + 2)
BY DEF Envelope, Piece, Cell

LEMMA CellFacts ==
  \A g, i : Cell(g, i).keygen = g /\ Cell(g, i).at = i /\ Cell(g, i).count = keygens[g]
BY DEF Cell

LEMMA PieceFacts ==
  ASSUME NEW g, NEW n \in Nat
  PROVE  /\ Len(Piece(g, n)) = n
         /\ DOMAIN Piece(g, n) = 1..n
         /\ \A i \in 1..n : Piece(g, n)[i] = Cell(g, i)
         /\ Piece(g, n) \in Seq({Cell(g, i) : i \in 1..n})
BY SMTT(60) DEF Piece

LEMMA PrefixIsPiece ==
  ASSUME NEW g, NEW n \in Nat, NEW m \in 0..n
  PROVE  SubSeq(Piece(g, n), 1, m) = Piece(g, m)
<1> DEFINE S == {Cell(g, i) : i \in 1..n}
           b == Piece(g, n)
           a == SubSeq(b, 1, m)
<1>1. b \in Seq(S) /\ Len(b) = n /\ \A i \in 1..n : b[i] = Cell(g, i) BY PieceFacts
<1> HIDE DEF b, S
<1>2. a \in Seq(S) /\ Len(a) = m /\ \A i \in 1..m : a[i] = b[i]
  BY SMTT(60), <1>1
<1>3. \A i \in 1..m : a[i] = Cell(g, i)
  BY SMTT(60), <1>1, <1>2
<1>4. a = [i \in 1..m |-> a[i]]
  BY SMTT(60), <1>2
<1> HIDE DEF a
<1>5. [i \in 1..m |-> a[i]] = [i \in 1..m |-> Cell(g, i)]
  BY <1>3
<1>6. a = Piece(g, m) BY <1>4, <1>5 DEF Piece
<1> QED BY <1>6 DEF a, b

LEMMA OverwrittenEmpty ==
  ASSUME NEW S, NEW new \in Seq(S)
  PROVE  Overwritten(<<>>, new) = new
<1>1. SubSeq(<<>>, Len(new) + 1, Len(<<>>)) = <<>>
  OBVIOUS
<1> QED BY SMTT(60), <1>1 DEF Overwritten

\* The parser takes no proper beginning of an envelope.
LEMMA WellFormedPiece ==
  ASSUME ShareType, NEW g \in 1..Len(keygens), NEW n \in 1..keygens[g] + 2,
         WellFormed(Piece(g, n))
  PROVE  Piece(g, n) = Envelope(g)
<1>1. keygens[g] \in Nat BY SMTT(60) DEF ShareType
<1>2. n \in Nat /\ n \in 1..n BY SMTT(60), <1>1
<1>3. Len(Piece(g, n)) = n /\ DOMAIN Piece(g, n) = 1..n /\ Piece(g, n)[n] = Cell(g, n)
  BY <1>2, PieceFacts
<1>4. Piece(g, n)[n].count = keygens[g]
  BY <1>3, CellFacts
<1>5. n = keygens[g] + 2
  BY <1>2, <1>3, <1>4 DEF WellFormed
<1> QED BY <1>5, EnvelopeIsPiece

LEMMA EnvelopeWellFormed ==
  ASSUME ShareType, NEW g \in 1..Len(keygens)
  PROVE  WellFormed(Envelope(g)) /\ Envelope(g)[1].keygen = g
<1>1. keygens[g] \in Nat BY SMTT(60) DEF ShareType
<1> DEFINE n == keygens[g] + 2
           e == Piece(g, n)
<1>2. n \in Nat /\ 1 \in 1..n /\ n \in 1..n BY SMTT(60), <1>1
<1>3. Len(e) = n /\ DOMAIN e = 1..n /\ \A i \in 1..n : e[i] = Cell(g, i)
  BY <1>2, PieceFacts
<1> HIDE DEF e
<1>4. e[1].keygen = g
  BY SMTT(60), <1>2, <1>3, CellFacts
<1>5. \A i \in 1..n : e[i].at = i /\ e[i].count + 2 = n
  BY SMTT(60), <1>3, CellFacts
<1>6. e # <<>>
  BY SMTT(60), <1>1, <1>3
<1>7. WellFormed(e)
  BY <1>3, <1>5, <1>6 DEF WellFormed
<1> QED BY <1>4, <1>7, EnvelopeIsPiece DEF e
-------------------------------------------------------------------------------
\* What a save in flight leaves in a file nobody else writes.
LEMMA WriteFindsEmpty ==
  ASSUME ShareInv, ~ overlap, NEW p \in Procs, Writing(p), NEW n \in Nat,
         n <= keygens[proc[p].holds] + 2
  PROVE  /\ proc[p].holds \in 1..Len(keygens)
         /\ Overwritten(file, SubSeq(Envelope(proc[p].holds), 1, n)) = Piece(proc[p].holds, n)
         /\ Overwritten(file, Envelope(proc[p].holds)) = Envelope(proc[p].holds)
<1> DEFINE g == proc[p].holds
<1>1. g \in 0..Len(keygens) /\ g # 0 /\ keygens \in Seq(Nat \ {0})
  BY DEF ShareInv, ShareType
<1> HIDE DEF g
<1>2. g \in 1..Len(keygens) /\ keygens[g] \in Nat BY SMTT(60), <1>1
<1>3. file = <<>> BY DEF ShareInv, FileInv
<1> DEFINE m == keygens[g] + 2
<1>4. m \in Nat /\ n \in 0..m BY SMTT(60), <1>2 DEF g
<1>5. Envelope(g) = Piece(g, m) BY EnvelopeIsPiece
<1> HIDE DEF m
<1>6. SubSeq(Envelope(g), 1, n) = Piece(g, n)
  BY <1>4, <1>5, PrefixIsPiece
<1>7. Overwritten(<<>>, Piece(g, n)) = Piece(g, n)
  BY PieceFacts, OverwrittenEmpty
<1>8. Overwritten(<<>>, Piece(g, m)) = Piece(g, m)
  BY <1>4, PieceFacts, OverwrittenEmpty
<1> QED BY <1>2, <1>3, <1>5, <1>6, <1>7, <1>8 DEF g

\* A new keygen leaves the envelopes of the earlier ones as they are.
LEMMA KeygenKeeps ==
  ASSUME ShareInv, NEW p \in Procs, NEW n \in Counts, Keygen(p, n)
  PROVE  ShareInv'
<1>1. n \in Nat \ {0} BY ShareFileAssumption
<1>2. keygens \in Seq(Nat \ {0}) BY DEF ShareInv, ShareType
<1>3. /\ keygens' \in Seq(Nat \ {0})
      /\ Len(keygens') = Len(keygens) + 1
      /\ \A g \in 1..Len(keygens) : keygens'[g] = keygens[g]
  BY SMTT(60), <1>1, <1>2 DEF Keygen
<1>4. \A g \in 1..Len(keygens) : g \in 1..Len(keygens')
  BY SMTT(60), <1>2, <1>3
<1>5. \A g \in 1..Len(keygens) : Envelope(g)' = Envelope(g)
  BY <1>3 DEF Envelope
<1>6. \A g \in 1..Len(keygens) : \A k : Piece(g, k)' = Piece(g, k)
  BY <1>3 DEF Piece, Cell
<1>7. ShareType'
  <2>2. proc \in [Procs -> [at: {"idle", "write"}, holds: 0..Len(keygens)]]
    BY DEF ShareInv, ShareType
  <2>0. [proc[p] EXCEPT !.holds = Len(keygens) + 1] = [at |-> "idle", holds |-> Len(keygens) + 1]
    BY SMTT(60), <2>2, FieldsAfter DEF Keygen
  <2>1. proc' = [proc EXCEPT ![p] = [at |-> "idle", holds |-> Len(keygens) + 1]]
    BY <2>0, <2>2 DEF Keygen
  <2>3. proc' \in [Procs -> [at: {"idle", "write"}, holds: 0..Len(keygens')]]
    BY SMTT(60), <1>2, <1>3, <2>1, <2>2
  <2>4. \A q \in Procs : (Writing(q) => proc[q].holds # 0)'
    BY <2>1, <2>2 DEF Writing, ShareInv, ShareType
  <2> QED BY SMTT(60), <1>2, <1>3, <2>3, <2>4 DEF ShareInv, ShareType, Keygen
<1>8. \A q \in Procs : Writing(q)' <=> Writing(q)
  BY DEF Writing, Keygen, ShareInv, ShareType
<1>9. FileInv'
  BY SMTT(60), <1>3, <1>4, <1>5, <1>6, <1>8 DEF FileInv, ShareInv, ShareType, Keygen
<1>10. LoadInv'
  BY <1>4, <1>5 DEF LoadInv, ShareInv, Keygen
<1> QED BY <1>7, <1>9, <1>10 DEF ShareInv

LEMMA OpenKeeps ==
  ASSUME ShareInv, NEW p \in Procs, Open(p)
  PROVE  ShareInv'
<1> USE DEF ShareInv
<1>1. proc \in [Procs -> [at: {"idle", "write"}, holds: 0..Len(keygens)]]
  BY DEF ShareType
<1>2. [proc[p] EXCEPT !.at = "write"] = [at |-> "write", holds |-> proc[p].holds]
  BY SMTT(60), <1>1, FieldsAfter
<1>3. proc' = [proc EXCEPT ![p] = [at |-> "write", holds |-> proc[p].holds]]
  BY <1>1, <1>2 DEF Open
<1>4. Writing(p)' /\ \A q \in Procs : q # p => (Writing(q)' <=> Writing(q))
  BY <1>1, <1>3 DEF Writing
<1>5. ShareType'
  <2>1. proc' \in [Procs -> [at: {"idle", "write"}, holds: 0..Len(keygens)]]
    BY <1>1, <1>3
  <2>2. \A q \in Procs : (Writing(q) => proc[q].holds # 0)'
    BY <1>1, <1>3 DEF Writing, ShareType, Open
  <2>3. overlap' \in BOOLEAN BY DEF Open
  <2> QED BY SMTT(60), <2>1, <2>2, <2>3 DEF ShareType, Open
<1>6. FileInv'
  <2>1. ~ overlap' => \A q \in Procs : Writing(q)' => q = p
    BY <1>4 DEF Open, InFlight, Writing
  <2> QED BY <2>1 DEF FileInv, Open
<1>7. LoadInv'
  BY SMTT(60) DEF LoadInv, Open, Envelope
<1> QED BY <1>5, <1>6, <1>7

\* A save that ends, whole or cut short, leaves a piece of its own envelope.
LEMMA WriteKeeps ==
  ASSUME ShareInv, NEW p \in Procs, Write(p)
  PROVE  ShareInv'
<1> USE DEF ShareInv
<1> DEFINE g == proc[p].holds
<1>1. proc \in [Procs -> [at: {"idle", "write"}, holds: 0..Len(keygens)]] /\ keygens \in Seq(Nat \ {0})
  BY DEF ShareType
<1>2. [proc[p] EXCEPT !.at = "idle"] = [at |-> "idle", holds |-> g]
  BY SMTT(60), <1>1, FieldsAfter
<1>3. proc' = [proc EXCEPT ![p] = [at |-> "idle", holds |-> g]]
  BY <1>1, <1>2 DEF Write
<1>4. ~ Writing(p)' /\ \A q \in Procs : q # p => (Writing(q)' <=> Writing(q))
  BY <1>1, <1>3 DEF Writing
<1>5. Writing(p) /\ g \in 1..Len(keygens) /\ keygens[g] \in Nat \ {0}
  BY SMTT(60), <1>1 DEF Write, Writing, ShareType
<1>6. ShareType'
  <2>1. proc' \in [Procs -> [at: {"idle", "write"}, holds: 0..Len(keygens)]]
    BY <1>1, <1>3
  <2>2. \A q \in Procs : (Writing(q) => proc[q].holds # 0)'
    BY <1>1, <1>3 DEF Writing, ShareType
  <2>3. whole' \in 0..Len(keygens)
    BY SMTT(60), <1>1, <1>5 DEF Write
  <2> QED BY <2>1, <2>2, <2>3 DEF ShareType, Write
<1>7. ~ overlap => file' = Envelope(g) /\ Envelope(g) = Piece(g, keygens[g] + 2)
  BY <1>5, 0 \in Nat, 0 <= keygens[g] + 2, WriteFindsEmpty, EnvelopeIsPiece DEF Write
<1>8. Envelope(g)' = Envelope(g) /\ \A h, n : Envelope(h)' = Envelope(h) /\ Piece(h, n)' = Piece(h, n)
  BY SMTT(60) DEF Write, Envelope, Piece, Cell
<1>9. ~ overlap => \A q \in Procs : ~ Writing(q)'
  BY <1>4, <1>5 DEF FileInv
<1>10. ~ overlap => \E n \in 1..keygens[g] + 2 : file' = Piece(g, n)
  BY SMTT(60), <1>5, <1>7
<1>11. FileInv'
  BY <1>5, <1>7, <1>8, <1>9, <1>10 DEF FileInv, Write
<1>12. LoadInv'
  BY <1>8 DEF LoadInv, Write
<1> QED BY <1>6, <1>11, <1>12

LEMMA CutShortKeeps ==
  ASSUME ShareInv, NEW p \in Procs, NEW killed \in BOOLEAN, CutShort(p, killed)
  PROVE  ShareInv'
<1> USE DEF ShareInv
<1> DEFINE g == proc[p].holds
           r == IF killed THEN Idle ELSE [at |-> "idle", holds |-> g]
<1>1. proc \in [Procs -> [at: {"idle", "write"}, holds: 0..Len(keygens)]] /\ keygens \in Seq(Nat \ {0})
  BY DEF ShareType
<1>2. [proc[p] EXCEPT !.at = "idle"] = [at |-> "idle", holds |-> g]
  BY SMTT(60), <1>1, FieldsAfter
<1>3. proc' = [proc EXCEPT ![p] = r]
  BY <1>1, <1>2 DEF CutShort
<1>r. r \in [at: {"idle", "write"}, holds: 0..Len(keygens)] /\ r.at = "idle"
  BY SMTT(60), <1>1 DEF Idle
<1> HIDE DEF r
<1>4. ~ Writing(p)' /\ \A q \in Procs : q # p => (Writing(q)' <=> Writing(q))
  BY <1>1, <1>3, <1>r DEF Writing
<1>5. Writing(p) /\ g \in 1..Len(keygens) /\ keygens[g] \in Nat \ {0}
  BY SMTT(60), <1>1 DEF CutShort, Writing, ShareType
<1>6. ShareType'
  <2>1. proc' \in [Procs -> [at: {"idle", "write"}, holds: 0..Len(keygens)]]
    BY <1>1, <1>3, <1>r
  <2>2. \A q \in Procs : (Writing(q) => proc[q].holds # 0)'
    BY <1>1, <1>3, <1>r DEF Writing, ShareType
  <2> QED BY <2>1, <2>2 DEF ShareType, CutShort
<1>7. PICK n \in 0..keygens[g] + 1 : file' = Overwritten(file, SubSeq(Envelope(g), 1, n))
  BY DEF CutShort
<1>8. n \in Nat /\ n <= keygens[g] + 2 /\ (n # 0 => n \in 1..keygens[g] + 2)
  BY SMTT(60), <1>5
<1>9. ~ overlap => file' = Piece(g, n)
  BY <1>5, <1>7, <1>8, WriteFindsEmpty
<1>10. Piece(g, 0) = <<>>
  BY SMTT(60) DEF Piece
<1>11. \A h, k : Envelope(h)' = Envelope(h) /\ Piece(h, k)' = Piece(h, k)
  BY DEF CutShort, Envelope, Piece, Cell
<1>12. ~ overlap => \A q \in Procs : ~ Writing(q)'
  BY <1>4, <1>5 DEF FileInv
<1>13. ~ overlap => file' = <<>> \/ \E k \in 1..keygens[g] + 2 : file' = Piece(g, k)
  BY <1>8, <1>9, <1>10
<1>14. whole' = 0
  BY <1>5 DEF FileInv, CutShort
<1>15. FileInv'
  BY <1>5, <1>11, <1>12, <1>13, <1>14 DEF FileInv, CutShort
<1>16. LoadInv'
  BY <1>11 DEF LoadInv, CutShort
<1> QED BY <1>6, <1>15, <1>16

LEMMA LoadKeeps ==
  ASSUME ShareInv, NEW p \in Procs, Load(p)
  PROVE  ShareInv'
<1> USE DEF ShareInv
<1>1. \A h, k : Envelope(h)' = Envelope(h) /\ Piece(h, k)' = Piece(h, k)
  BY DEF Load, Envelope, Piece, Cell
<1>2. ShareType' BY DEF ShareType, Load, Writing
<1>3. FileInv' BY <1>1 DEF FileInv, Load, Writing
<1>4. /\ load'.cells = file /\ load'.overlap = overlap /\ load'.whole = whole
      /\ load'.out = IF WellFormed(file) THEN "ok" ELSE "raised"
  BY DEF Load
<1>5. ~ overlap /\ WellFormed(file) => \E g \in 1..Len(keygens) : file = Envelope(g)
  BY WellFormedPiece DEF FileInv, WellFormed
<1>6. whole # 0 => whole \in 1..Len(keygens) /\ file = Envelope(whole)
  BY SMTT(60) DEF FileInv, ShareType
<1>7. whole # 0 => WellFormed(file)
  BY <1>6, EnvelopeWellFormed
<1>8. LoadInv'
  BY <1>1, <1>4, <1>5, <1>6, <1>7 DEF LoadInv, Load
<1> QED BY <1>2, <1>3, <1>8

\* Share files (ShareFile.save and .load): whatever is cut short, killed or read in
\* between, what a load gives is one keygen's key with all of its shares, and what the
\* last completed save wrote, unless saves overlapped.
THEOREM LoadsAreWhole == ShareSpec => []LoadIsOneKeygen
<1>1. ShareInit => ShareInv
  <2> SUFFICES ASSUME ShareInit PROVE ShareInv
    OBVIOUS
  <2>1. keygens = <<>> /\ Len(keygens) = 0 /\ keygens \in Seq(Nat \ {0})
    BY SMTT(60) DEF ShareInit
  <2>2. Idle \in [at: {"idle", "write"}, holds: 0..0] /\ Idle.at = "idle"
    BY SMTT(60) DEF Idle
  <2>3. proc \in [Procs -> [at: {"idle", "write"}, holds: 0..0]] /\ \A p \in Procs : ~ Writing(p)
    BY <2>2 DEF ShareInit, Writing
  <2>4. 0 \in 0..0 /\ whole = 0 /\ overlap = FALSE
    BY SMTT(60) DEF ShareInit
  <2>5. proc \in [Procs -> [at: {"idle", "write"}, holds: 0..Len(keygens)]]
    BY <2>1, <2>3
  <2>6. ShareType
    BY <2>1, <2>3, <2>4, <2>5 DEF ShareType
  <2> QED BY <2>3, <2>6 DEF ShareInit, ShareInv, FileInv, LoadInv
<1>2. ShareInv /\ [ShareNext]_shareVars => ShareInv'
  <2> SUFFICES ASSUME ShareInv, [ShareNext]_shareVars PROVE ShareInv'
    OBVIOUS
  <2>1. ASSUME NEW p \in Procs, NEW n \in Counts, Keygen(p, n) PROVE ShareInv'
    BY <2>1, KeygenKeeps
  <2>2. ASSUME NEW p \in Procs, Open(p) PROVE ShareInv'
    BY <2>2, OpenKeeps
  <2>3. ASSUME NEW p \in Procs, Write(p) PROVE ShareInv'
    BY <2>3, WriteKeeps
  <2>4. ASSUME NEW p \in Procs, Load(p) PROVE ShareInv'
    BY <2>4, LoadKeeps
  <2>5. ASSUME NEW p \in Procs, NEW killed \in BOOLEAN, CutShort(p, killed) PROVE ShareInv'
    BY <2>5, CutShortKeeps
  <2>6. ASSUME UNCHANGED shareVars PROVE ShareInv'
    <3>1. UNCHANGED <<file, keygens, proc, overlap, whole, load>>
      BY <2>6 DEF shareVars
    <3>2. \A p : Writing(p)' = Writing(p)
      BY <3>1 DEF Writing
    <3>3. \A g, n : Piece(g, n)' = Piece(g, n) /\ Envelope(g)' = Envelope(g)
      BY <3>1 DEF Piece, Cell, Envelope
    <3>4. ShareType'
      BY <3>1, <3>2 DEF ShareInv, ShareType
    <3>5. FileInv'
      BY <3>1, <3>2, <3>3 DEF ShareInv, FileInv
    <3>6. LoadInv'
      BY <3>1, <3>3 DEF ShareInv, LoadInv
    <3> QED BY <3>4, <3>5, <3>6 DEF ShareInv
  <2> QED BY <2>1, <2>2, <2>3, <2>4, <2>5, <2>6 DEF ShareNext
<1>3. ShareInv => LoadIsOneKeygen
  BY EnvelopeWellFormed DEF ShareInv, LoadInv, LoadIsOneKeygen
<1> QED BY <1>1, <1>2, <1>3, PTL DEF ShareSpec
-------------------------------------------------------------------------------
(* MtA exchanges.                                                             *)

\* Division with remainder, and that its remainder is the only one.
LEMMA DivMod ==
  ASSUME NEW q \in Nat \ {0}, NEW a \in Int
  PROVE  a \div q \in Int /\ a % q \in 0 .. q - 1 /\ a = q * (a \div q) + (a % q)
BY SMTT(60), SMTT(30)

LEMMA Remainder ==
  ASSUME NEW q \in Nat \ {0}, NEW d \in Int, NEW e \in Int, NEW r \in 0 .. q - 1, NEW s \in 0 .. q - 1,
         q * d + r = q * e + s
  PROVE  r = s
<1>1. q * (d - e) = s - r
  BY SMTT(60), SMTT(30)
<1>2. d - e \in Int /\ (d - e = 0 \/ d - e >= 1 \/ d - e <= -1)
  OBVIOUS
<1>3. \A n \in Int : n >= 1 => q * n >= q
  BY SMTT(60), SMTT(30)
<1>4. \A n \in Int : n <= -1 => q * n <= -q
  BY SMTT(60), SMTT(30)
<1>5. q * 0 = 0
  OBVIOUS
<1> QED BY SMTT(60), <1>1, <1>2, <1>3, <1>4, <1>5

\* What is added before the remainder is taken can be subtracted after it.
LEMMA ShareOut ==
  ASSUME NEW q \in Nat \ {0}, NEW p \in Int, NEW b \in Int
  PROVE  (((p + b) % q) - b) % q = p % q
<1> DEFINE s == (p + b) % q
           d == (p + b) \div q
           e == (s - b) \div q
           f == p \div q
<1>1. p + b \in Int /\ s \in Int /\ s - b \in Int
  BY SMTT(60), DivMod
<1>2. d \in Int /\ p + b = q * d + s
  BY <1>1, DivMod
<1>3. e \in Int /\ (s - b) % q \in 0 .. q - 1 /\ s - b = q * e + ((s - b) % q)
  BY <1>1, DivMod
<1>4. f \in Int /\ p % q \in 0 .. q - 1 /\ p = q * f + (p % q)
  BY DivMod
<1> HIDE DEF s, d, e, f
<1>5. q * (d + e) = q * d + q * e /\ d + e \in Int
  BY SMTT(60), <1>2, <1>3
<1>6. q * (d + e) + ((s - b) % q) = q * f + (p % q)
  BY SMTT(60), <1>1, <1>2, <1>3, <1>4, <1>5
<1>7. (s - b) % q = p % q
  BY <1>3, <1>4, <1>5, <1>6, Remainder
<1> QED BY <1>7 DEF s

First(e, k) ==
  [ciphertext |-> [of |-> e, plain |-> k], range_proof |-> Proof("ck_j", [of |-> e, plain |-> k])]

Masked(k, x, beta) == (k * x + beta) % Q

Product(c, x, beta) == [of |-> c, plain |-> Masked(c.plain, x, beta)]

Response(c, x, beta) ==
  [ciphertext |-> Product(c, x, beta),
   respondent_proof |-> Proof("ck_i", <<c, Product(c, x, beta)>>),
   beta |-> beta]

\* Every first message is of its exchange, and every response answers the first message of
\* its exchange as it was sent: what was damaged on the way got no answer.
Genuine(r) ==
  /\ r.exchange \in Exchanges /\ initiated[r.exchange] # Nothing
  /\ r.x \in Secrets
  /\ \E beta \in Residues : r.message = Response(initiated[r.exchange].ciphertext, r.x, beta)

MtaInv ==
  /\ DOMAIN initiated = Exchanges /\ DOMAIN alpha = Exchanges
  /\ \A e \in Exchanges : initiated[e] = Nothing \/ \E k \in Secrets : initiated[e] = First(e, k)
  /\ \A r \in responses : Genuine(r)
  /\ \A e \in Exchanges : alpha[e] = Nothing \/
       \E r \in responses : r.exchange = e /\ alpha[e] = [of |-> r, share |-> r.message.ciphertext.plain]
  /\ ended.out = "MtaError" /\ ended.op = "finish" =>
       ~ \E r \in responses : r.exchange = ended.exchange /\ r.message = ended.message

\* No message is mistaken for a lost one, and none of its fields for another's.
LEMMA FirstFacts ==
  ASSUME NEW e, NEW k
  PROVE  /\ First(e, k) # Nothing /\ First(e, k).ciphertext # Nothing
         /\ First(e, k).ciphertext.of = e /\ First(e, k).ciphertext.plain = k
         /\ First(e, k).range_proof = Proof("ck_j", First(e, k).ciphertext)
<1>1. [of |-> e, plain |-> k] # Nothing
  <2>1. DOMAIN [of |-> e, plain |-> k] # DOMAIN Nothing
    BY SMTT(60) DEF Nothing
  <2> QED BY <2>1
<1>2. First(e, k) # Nothing
  <2>1. DOMAIN First(e, k) # DOMAIN Nothing
    BY DEF Nothing, First
  <2> QED BY <2>1
<1> QED BY <1>1, <1>2 DEF First

LEMMA ResponseFacts ==
  ASSUME NEW c, NEW x, NEW beta
  PROVE  /\ Response(c, x, beta) # Nothing /\ Response(c, x, beta).ciphertext # Nothing
         /\ Response(c, x, beta).respondent_proof =
              Proof("ck_i", <<c, Response(c, x, beta).ciphertext>>)
<1>1. Product(c, x, beta) # Nothing
  <2>1. DOMAIN Product(c, x, beta) # DOMAIN Nothing
    BY SMTT(60) DEF Nothing, Product
  <2> QED BY <2>1
<1>2. Response(c, x, beta) # Nothing
  <2>1. DOMAIN Response(c, x, beta) # DOMAIN Nothing
    BY DEF Nothing, Response
  <2> QED BY <2>1
<1> QED BY <1>1, <1>2 DEF Response

LEMMA ResponseShares ==
  ASSUME NEW c, NEW x, NEW beta
  PROVE  /\ Response(c, x, beta).beta = beta
         /\ Response(c, x, beta).ciphertext.plain = Masked(c.plain, x, beta)
BY DEF Response, Product

\* A proof is of one key and one statement.
LEMMA ProofFacts ==
  ASSUME NEW ck, NEW s, NEW dk, NEW t, Proof(ck, s) = Proof(dk, t)
  PROVE  s = t
<1>1. Proof(ck, s).statement = s /\ Proof(dk, t).statement = t
  BY DEF Proof
<1> QED BY <1>1

LEMMA InitiateKeeps ==
  ASSUME MtaInv, NEW e \in Exchanges, NEW k \in Secrets, PartyIInit(e, k)
  PROVE  MtaInv'
<1>1. /\ initiated[e] = Nothing /\ initiated' = [initiated EXCEPT ![e] = First(e, k)]
      /\ responses' = responses /\ alpha' = alpha /\ ended'.op = "init"
  BY DEF PartyIInit, End, First
<1>2. /\ DOMAIN initiated' = Exchanges /\ initiated'[e] = First(e, k)
      /\ \A d \in Exchanges : d # e => initiated'[d] = initiated[d]
  BY <1>1 DEF MtaInv
<1>3. \A r \in responses : Genuine(r)'
  <2> SUFFICES ASSUME NEW r \in responses PROVE Genuine(r)'
    OBVIOUS
  <2>1. Genuine(r) /\ r.exchange \in Exchanges /\ r.exchange # e
    BY <1>1 DEF MtaInv, Genuine
  <2>2. initiated'[r.exchange] = initiated[r.exchange]
    BY <1>2, <2>1
  <2> QED BY <2>1, <2>2 DEF Genuine
<1>4. \A d \in Exchanges : initiated'[d] = Nothing \/ \E j \in Secrets : initiated'[d] = First(d, j)
  BY SMTT(60), <1>2 DEF MtaInv
<1> QED BY SMTT(60), <1>1, <1>2, <1>3, <1>4 DEF MtaInv

\* A first message that arrives damaged is refused.
LEMMA RespondsToWhole ==
  ASSUME MtaInv, NEW e \in Exchanges, NEW condition \in Conditions, initiated[e] # Nothing,
         Damaged(initiated[e], condition) # Nothing,
         Damaged(initiated[e], condition).range_proof =
           Proof("ck_j", Damaged(initiated[e], condition).ciphertext)
  PROVE  Damaged(initiated[e], condition) = initiated[e]
<1>1. PICK k \in Secrets : initiated[e] = First(e, k)
  BY DEF MtaInv
<1>2. CASE condition = "other ciphertext"
  <2>1. Damaged(initiated[e], condition) = [First(e, k) EXCEPT !.ciphertext = Nothing]
    BY <1>1, <1>2 DEF Damaged
  <2>2. /\ Damaged(initiated[e], condition).ciphertext = Nothing
        /\ Damaged(initiated[e], condition).range_proof = First(e, k).range_proof
    BY <2>1 DEF First
  <2>3. Proof("ck_j", First(e, k).ciphertext) = Proof("ck_j", Nothing)
    BY SMTT(60), <2>2, FirstFacts
  <2>4. First(e, k).ciphertext = Nothing
    BY <2>3, ProofFacts
  <2> QED BY <2>4, FirstFacts
<1> QED BY <1>2 DEF Damaged, Conditions

LEMMA RespondKeeps ==
  ASSUME MtaInv, NEW e \in Exchanges, NEW condition \in Conditions, NEW x \in Secrets,
         NEW beta \in Residues, PartyJRespond(e, condition, x, beta)
  PROVE  MtaInv'
<1> DEFINE m == Damaged(initiated[e], condition)
           new == [exchange |-> e, x |-> x, message |-> Response(m.ciphertext, x, beta)]
<1>1. /\ initiated[e] # Nothing /\ initiated' = initiated /\ alpha' = alpha /\ ended'.op = "respond"
      /\ \/ responses' = responses
         \/ /\ m # Nothing /\ m.range_proof = Proof("ck_j", m.ciphertext)
            /\ responses' = responses \cup {new}
  BY SMTT(60) DEF PartyJRespond, End, Response, Product, Masked
<1>2. ASSUME responses' # responses, NEW r \in responses', r \notin responses
      PROVE  Genuine(r)'
  <2>1. m = initiated[e] /\ r = new
    BY <1>1, <1>2, RespondsToWhole
  <2>2. r.exchange = e /\ r.x = x /\ r.message = Response(initiated[e].ciphertext, x, beta)
    BY <2>1
  <2> QED BY <1>1, <2>2 DEF Genuine, Residues
<1>3. \A r \in responses' : Genuine(r)'
  <2>1. \A r \in responses : Genuine(r)'
    BY <1>1 DEF MtaInv, Genuine, Residues
  <2> QED BY <1>2, <2>1
<1>4. responses \subseteq responses'
  BY <1>1
<1> QED BY SMTT(60), <1>1, <1>3, <1>4 DEF MtaInv

\* A response that is accepted is of this exchange and whole, and one that is both is
\* accepted.
LEMMA FinishAccepts ==
  ASSUME MtaInv, NEW e \in Exchanges, initiated[e] # Nothing,
         NEW r \in responses, NEW condition \in Conditions
  PROVE  LET m == Damaged(r.message, condition)
             accepted == /\ m # Nothing /\ m.ciphertext # Nothing
                         /\ m.respondent_proof = Proof("ck_i", FinishStatement(e, m))
         IN /\ accepted => r.exchange = e /\ m = r.message
            /\ \A s \in responses : s.exchange = e /\ s.message = m => accepted
<1> DEFINE m == Damaged(r.message, condition)
<1>1. PICK beta \in Residues : r.message = Response(initiated[r.exchange].ciphertext, r.x, beta)
  BY DEF MtaInv, Genuine
<1>2. r.exchange \in Exchanges /\ initiated[r.exchange] # Nothing
  BY DEF MtaInv, Genuine
<1>3. PICK k \in Secrets : initiated[e] = First(e, k)
  BY DEF MtaInv
<1>4. PICK j \in Secrets : initiated[r.exchange] = First(r.exchange, j)
  BY <1>2 DEF MtaInv
<1>5. ASSUME m # Nothing, m.ciphertext # Nothing
      PROVE  m = r.message
  <2>1. CASE condition = "other ciphertext"
    <3>1. m.ciphertext = Nothing
      BY <1>1, <2>1 DEF Damaged, Response
    <3> QED BY <1>5, <3>1
  <2> QED BY <1>5, <2>1 DEF Damaged, Conditions
<1>6. ASSUME m = r.message, m.respondent_proof = Proof("ck_i", FinishStatement(e, m))
      PROVE  r.exchange = e
  <2>1. m.respondent_proof = Proof("ck_i", <<initiated[r.exchange].ciphertext, m.ciphertext>>)
    BY SMTT(60), <1>1, <1>6, ResponseFacts
  <2>2. <<initiated[r.exchange].ciphertext, m.ciphertext>> = FinishStatement(e, m)
    BY <1>6, <2>1, ProofFacts
  <2>3. initiated[r.exchange].ciphertext = initiated[e].ciphertext
    BY <2>2 DEF FinishStatement
  <2> QED BY SMTT(60), <1>3, <1>4, <2>3, FirstFacts
<1>7. ASSUME NEW s \in responses, s.exchange = e, s.message = m
      PROVE  /\ m # Nothing /\ m.ciphertext # Nothing
             /\ m.respondent_proof = Proof("ck_i", FinishStatement(e, m))
  <2>1. PICK b \in Residues : s.message = Response(initiated[e].ciphertext, s.x, b)
    BY <1>7 DEF MtaInv, Genuine
  <2> QED BY SMTT(60), <1>7, <2>1, ResponseFacts DEF FinishStatement
<1> QED BY <1>5, <1>6, <1>7

LEMMA FinishKeeps ==
  ASSUME MtaInv, NEW e \in Exchanges, NEW r \in responses, NEW condition \in Conditions,
         PartyIFinish(e, r, condition)
  PROVE  MtaInv'
<1> DEFINE m == Damaged(r.message, condition)
           accepted == /\ m # Nothing /\ m.ciphertext # Nothing
                       /\ m.respondent_proof = Proof("ck_i", FinishStatement(e, m))
           got == [of |-> r, share |-> m.ciphertext.plain]
<1>1. /\ initiated[e] # Nothing /\ initiated' = initiated /\ responses' = responses
      /\ ended'.exchange = e /\ ended'.message = m
      /\ \/ ended'.out = "MtaError" /\ ~ accepted /\ alpha' = alpha
         \/ ended'.out # "MtaError" /\ alpha' = alpha
         \/ ended'.out # "MtaError" /\ accepted /\ alpha' = [alpha EXCEPT ![e] = got]
  BY SMTT(60) DEF PartyIFinish, End
<1>2. /\ accepted => r.exchange = e /\ m = r.message
      /\ \A s \in responses : s.exchange = e /\ s.message = m => accepted
  BY <1>1, FinishAccepts
<1>3. \A s \in responses : Genuine(s)'
  BY SMTT(60), <1>1 DEF MtaInv, Genuine, Residues
<1> HIDE DEF m, accepted
<1>4. DOMAIN alpha' = Exchanges
  BY <1>1 DEF MtaInv
<1>5. ASSUME NEW d \in Exchanges, alpha'[d] # Nothing
      PROVE  \E s \in responses : s.exchange = d /\ alpha'[d] = [of |-> s, share |-> s.message.ciphertext.plain]
  <2>1. CASE alpha'[d] = alpha[d]
    BY SMTT(60), <1>5, <2>1 DEF MtaInv
  <2>2. CASE alpha'[d] # alpha[d]
    <3>1. d = e /\ accepted /\ alpha'[d] = got
      BY <1>1, <2>2 DEF MtaInv
    <3> QED BY <1>2, <3>1
  <2> QED BY <2>1, <2>2
<1>6. ended'.out = "MtaError" => ~ \E s \in responses : s.exchange = ended'.exchange /\ s.message = ended'.message
  BY <1>1, <1>2
<1> QED BY SMTT(60), <1>1, <1>3, <1>4, <1>5, <1>6 DEF MtaInv

LEMMA MtaInvariant == MtaSpec => []MtaInv
<1>1. MtaInit => MtaInv
  BY DEF MtaInit, MtaInv
<1>2. MtaInv /\ [MtaNext]_mtaVars => MtaInv'
  <2> SUFFICES ASSUME MtaInv, [MtaNext]_mtaVars PROVE MtaInv'
    OBVIOUS
  <2>1. CASE UNCHANGED mtaVars
    <3>1. /\ initiated' = initiated /\ responses' = responses /\ alpha' = alpha /\ ended' = ended
      BY <2>1 DEF mtaVars
    <3> QED BY <3>1 DEF MtaInv, Genuine
  <2> QED BY <2>1, InitiateKeeps, RespondKeeps, FinishKeeps DEF MtaNext
<1> QED BY <1>1, <1>2, PTL DEF MtaSpec

\* The shares of an exchange subtract to the product of the two secrets, for every group
\* order and any number of exchanges and responses, whatever the transport mixed up
\* (party_i_init, party_j_respond and party_i_finish of tc_mta.rs).
THEOREM SharesAreOfTheProduct == MtaSpec => []SharesMultiply
<1>1. ASSUME MtaInv, NEW e \in Exchanges, alpha[e] # Nothing
      PROVE  \E r \in responses :
               /\ r.exchange = e /\ alpha[e].of = r
               /\ (alpha[e].share - r.message.beta) % Q = (initiated[e].ciphertext.plain * r.x) % Q
  <2>1. PICK r \in responses : r.exchange = e /\ alpha[e] = [of |-> r, share |-> r.message.ciphertext.plain]
    BY <1>1 DEF MtaInv
  <2>2. PICK beta \in Residues : r.message = Response(initiated[e].ciphertext, r.x, beta)
    BY <1>1, <2>1 DEF MtaInv, Genuine
  <2>3. PICK k \in Secrets : initiated[e] = First(e, k)
    BY <1>1, <2>1 DEF MtaInv, Genuine
  <2>4. initiated[e].ciphertext.plain = k
    BY SMTT(60), <2>3, FirstFacts
  <2>5. alpha[e].of = r /\ alpha[e].share = Masked(k, r.x, beta) /\ r.message.beta = beta
    <3>1. alpha[e].of = r /\ alpha[e].share = r.message.ciphertext.plain
      BY SMTT(60), <2>1
    <3>2. /\ r.message.beta = beta
          /\ r.message.ciphertext.plain = Masked(initiated[e].ciphertext.plain, r.x, beta)
      BY SMTT(60), <2>2, ResponseShares
    <3> QED BY <2>4, <3>1, <3>2
  <2>6. Q \in Nat \ {0} /\ k \in Int /\ beta \in Int
    BY SMTT(60), MtaAssumption DEF Residues
  <2>7. r.x \in Int
    <3>1. r.x \in Secrets
      BY <1>1 DEF MtaInv, Genuine
    <3>2. Secrets \subseteq Int
      BY SMTT(60), MtaAssumption
    <3> QED BY <3>1, <3>2
  <2>8. k * r.x \in Int
    BY SMTT(60), <2>6, <2>7
  <2>9. (Masked(k, r.x, beta) - beta) % Q = (k * r.x) % Q
    BY <2>6, <2>8, ShareOut DEF Masked
  <2> QED BY <2>1, <2>4, <2>5, <2>9
<1>2. MtaInv => SharesMultiply
  BY SMTT(60), <1>1 DEF MtaInv, SharesMultiply
<1> QED BY <1>2, MtaInvariant, PTL
================================================================================
