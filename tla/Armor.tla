--------------------------------- MODULE Armor ---------------------------------
(***************************************************************************)
(* OpenPGP ASCII armor: lib/confium/openpgp.rb.  A block is armored,       *)
(* carried by a transport that rewraps its lines, adds headers and may     *)
(* damage or lose some, and dearmored.                                     *)
(*                                                                         *)
(* A text is a sequence of lines without their line ends, a line a         *)
(* sequence of characters: the Radix-64 digits 0..63 and the marks below.  *)
(***************************************************************************)
EXTENDS Naturals, Sequences, FiniteSetsExt, SequencesExt, Bitwise

CONSTANTS Originals,   \* byte strings that are armored
          Width,       \* characters on a data line (76 in the code)
          Widths,      \* widths a transport may rewrap to
          Noise,       \* characters a transport may put in place of another
          MaxChanges   \* bound: changes made by the transport

VARIABLES original,    \* the bytes last armored
          text,        \* their armored text, as the transport left it
          changes,     \* how many changes the transport made, and of which kinds
          decoded      \* the outcome of the last dearmor

armorVars == <<original, text, changes, decoded>>

Pad == 64
BeginLine == <<65>>
EndLine == <<66>>
HeaderLine == <<67>>    \* Comment: ..., Version: ...

ParseError == [raised |-> "ParseError"]
ArgumentError == [raised |-> "ArgumentError"]
Bytes(b) == [bytes |-> b]
None == [raised |-> "none"]
-------------------------------------------------------------------------------
(* The encodings.                                                             *)

\* CRC_TABLE and crc24_armor, in the integers of the code.
CrcShift(c) == (IF c >= 2^23 THEN (2 * c) ^^ 25578747 ELSE 2 * c) % 2^24
CRC_TABLE == [i \in 0..255 |-> FoldSeq(LAMBDA k, c : CrcShift(c), i * 2^16, <<1, 2, 3, 4, 5, 6, 7, 8>>)]
Crc24(bytes) ==
  FoldLeft(LAMBDA crc, b : ((crc % 2^16) * 256) ^^ CRC_TABLE[(crc \div 2^16) ^^ b], 11994318, bytes)

\* One group of one to three bytes as four characters.
Group(g) ==
  LET n == FoldLeft(LAMBDA a, b : a * 256 + b, 0, g) * (256 ^ (3 - Len(g)))
  IN [i \in 1..4 |-> IF i > Len(g) + 1 THEN Pad ELSE (n \div 64 ^ (4 - i)) % 64]

\* Cut into pieces of w, the last one shorter.
Pieces(s, w) ==
  [i \in 1..((Len(s) + w - 1) \div w) |-> SubSeq(s, (i - 1) * w + 1, Min({i * w, Len(s)}))]

\* pack('m0') and unpack1('m0') (external): unpacking is strict, it takes only what
\* packing can yield and raises ArgumentError otherwise.
Pack(bytes) == FlattenSeq([i \in DOMAIN Pieces(bytes, 3) |-> Group(Pieces(bytes, 3)[i])])
UnpackGroup(g) ==
  LET v == FoldLeft(LAMBDA a, c : a * 64 + (IF c = Pad THEN 0 ELSE c), 0, g)
      size == 3 - Cardinality({i \in DOMAIN g : g[i] = Pad})
  IN [i \in 1..size |-> (v \div 256 ^ (3 - i)) % 256]
Unpack(chars) ==
  LET groups == Pieces(chars, 4)
      bytes == FlattenSeq([i \in DOMAIN groups |-> UnpackGroup(groups[i])])
  IN IF Pack(bytes) = chars THEN Bytes(bytes) ELSE ArgumentError

CrcChars(bytes) ==
  LET crc == Crc24(bytes) IN Group(<<crc \div 2^16, (crc \div 256) % 256, crc % 256>>)

\* armor: the BEGIN line, a blank one, the data, the checksum, the END line.
Framed(data, bytes) ==
  <<BeginLine, <<>>>> \o data \o <<<<Pad>> \o CrcChars(bytes), EndLine>>
ArmorText(bytes) ==
  Framed(IF bytes = <<>> THEN <<<<>>>> ELSE Pieces(Pack(bytes), Width), bytes)
-------------------------------------------------------------------------------
(* dearmor.                                                                   *)

\* block_slice: from the first BEGIN line up to the first END line; one that lacks
\* either is no block.
BlockSlice(t) ==
  LET begins == {i \in DOMAIN t : t[i] = BeginLine}
      ends == {i \in DOMAIN t : t[i] = EndLine}
  IN IF begins = {} \/ ends = {} THEN <<>> ELSE SubSeq(t, Min(begins), Min(ends) - 1)

\* block_lines: without the BEGIN line, the headers after it and one blank line.
BlockLines(slice) ==
  LET rest == IF slice = <<>> THEN <<>> ELSE Tail(slice)
      others == {i \in DOMAIN rest : rest[i] # HeaderLine}
      body == IF others = {} THEN <<>> ELSE SubSeq(rest, Min(others), Len(rest))
  IN IF body # <<>> /\ Head(body) = <<>> THEN Tail(body) ELSE body

\* A line of collect_data: the checksum begins with the pad character, data is digits
\* and then at most two pads, anything else is refused.
IsCrcLine(l) == l # <<>> /\ l[1] = Pad
IsDataLine(l) ==
  /\ l # <<>>
  /\ l[1] < Pad
  /\ \E n \in 0..2 : /\ n < Len(l)
                     /\ \A i \in DOMAIN l : IF i > Len(l) - n THEN l[i] = Pad ELSE l[i] < Pad

\* collect_data and extract_body: the joined data and the last checksum line, if any.
CollectData(lines) ==
  [data |-> FlattenSeq(SelectSeq(lines, IsDataLine)),
   crc  |-> LET c == SelectSeq(lines, IsCrcLine) IN IF c = <<>> THEN <<>> ELSE <<Tail(Last(c))>>]

\* Mutant: the checksum is compared only when the data is whole groups of three bytes.
MismatchOfWholeGroups(body, bytes) ==
  body.crc # <<>> /\ Len(bytes) % 3 = 0 /\ CrcChars(bytes) # body.crc[1]

\* The checksum is verified when its line is there.
CrcMismatch(body, bytes) == body.crc # <<>> /\ CrcChars(bytes) # body.crc[1]

Dearmored(t) ==
  LET lines == BlockLines(BlockSlice(t))
      body == CollectData(lines)
      bytes == Unpack(body.data)
  IN IF \/ BlockSlice(t) = <<>>
        \/ \E i \in DOMAIN lines : ~ (lines[i] = <<>> \/ IsCrcLine(lines[i]) \/ IsDataLine(lines[i]))
        \/ body.data = <<>> /\ body.crc = <<>>
     THEN ParseError
     ELSE IF bytes = ArgumentError THEN bytes
     ELSE IF CrcMismatch(body, bytes.bytes) THEN ParseError ELSE bytes
-------------------------------------------------------------------------------
NoChange == [count |-> 0, kinds |-> {}]

ArmorInit ==
  /\ original = <<>>
  /\ text = <<>>
  /\ changes = NoChange
  /\ decoded = None

Armor(bytes) ==
  /\ original' = bytes
  /\ text' = ArmorText(bytes)
  /\ changes' = NoChange
  /\ decoded' = None

\* One change by the transport (external): other line widths, a header, a character
\* damaged, a line lost.
Transport(kind, t) ==
  /\ text # <<>>
  /\ changes.count < MaxChanges
  /\ text' = t
  /\ changes' = [count |-> changes.count + 1, kinds |-> changes.kinds \cup {kind}]
  /\ decoded' = None
  /\ UNCHANGED original

Dearmor ==
  /\ text # <<>>
  /\ decoded' = Dearmored(text)
  /\ UNCHANGED <<original, text, changes>>

ArmorNext ==
  \/ \E b \in Originals : Armor(b)
  \/ \E w \in Widths :
        /\ changes = NoChange /\ original # <<>>
        /\ Transport("rewrap", Framed(Pieces(Pack(original), w), original))
  \/ text # <<>> /\ text[1] = BeginLine /\ Transport("header", InsertAt(text, 2, HeaderLine))
  \/ \E i \in DOMAIN text : \E j \in DOMAIN text[i], c \in Noise :
        /\ text[i][j] \in 0..Pad \ {c}
        /\ Transport("damage", [text EXCEPT ![i][j] = c])
  \/ \E i \in DOMAIN text : Transport("loss", RemoveAt(text, i))
  \/ Dearmor
-------------------------------------------------------------------------------
CrcArrived == \E i \in DOMAIN text : text[i] = <<Pad>> \o CrcChars(original)

\* A block in which the checksum line of the original arrived unharmed yields the armored
\* bytes or an error, whatever characters were damaged and lines lost around it; one that
\* was only rewrapped or given headers yields the armored bytes, as long as no line break
\* falls right before a pad.
DearmorIsFaithful ==
  decoded # None =>
    /\ "bytes" \in DOMAIN decoded /\ CrcArrived => decoded.bytes = original
    /\ changes.kinds \subseteq {"rewrap", "header"}
         /\ Cardinality({i \in DOMAIN text : IsCrcLine(text[i])}) = 1
       => decoded = Bytes(original)
================================================================================
