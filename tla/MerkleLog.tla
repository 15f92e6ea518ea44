------------------------------- MODULE MerkleLog -------------------------------
(***************************************************************************)
(* Confium::Transparency::MerkleTree and InclusionProof (transparency.rs). *)
(* The tree itself is the confium_transparency crate's: its RFC 6962 root  *)
(* and audit path are external here.  The extension re-derives the leaf    *)
(* hash, replays proofs with its own copies of the two hash functions and  *)
(* hands proofs and roots out, which auditors keep while the log grows.    *)
(* Hashes are free constructors, tagged with the domain byte.  The crate's *)
(* consistency check, which the extension only forwards, is left out.      *)
(***************************************************************************)
EXTENDS Naturals, Sequences

CONSTANTS
  Artifacts,   \* the 32-byte artifact hashes
  MaxSize      \* the number of entries appended

ASSUME MerkleAssumption == MaxSize \in 0 .. 16

VARIABLES
  log,     \* the tree's entries, as artifact hashes in order
  roots,   \* roots[n + 1]: the root handed out when the log had n entries
  proof,   \* the inclusion proof an auditor keeps, and the log's size then
  last     \* how the last call ended

logVars == <<log, roots, proof, last>>

-------------------------------------------------------------------------------
(* The crate's tree.                                                          *)

Entry(seq, artifact) == <<"entry", seq, artifact>>

TreeLeaf(seq, artifact) == <<1, Entry(seq, artifact)>>

TreeNode(left, right) == <<2, left, right>>

EmptyRoot == <<0>>

(* A level of the tree: how many nodes it has, and the nodes.                 *)
Leaves(l) == [size |-> Len(l), node |-> [i \in 1 .. Len(l) |-> TreeLeaf(i - 1, l[i])]]

(* The level above: neighbours are joined, an odd last node moves up as it is. *)
Above(v) ==
  LET half == (v.size + 1) \div 2
  IN  [size |-> half,
       node |-> [i \in 1 .. half |->
                   IF 2 * i <= v.size THEN TreeNode(v.node[2 * i - 1], v.node[2 * i])
                   ELSE v.node[2 * i - 1]]]

(* MaxSize leaves are at most four levels below the root.                     *)
Root(l) ==
  IF l = <<>> THEN EmptyRoot ELSE Above(Above(Above(Above(Leaves(l))))).node[1]

(* A path: the level and the position it has reached, and its steps so far,   *)
(* one for every level on which the node has a sibling.                       *)
Start(l, seq) == [level |-> Leaves(l), pos |-> seq + 1, steps |-> <<>>]

Up(c) ==
  LET v == c.level
      i == c.pos
  IN  [level |-> Above(v), pos |-> (i + 1) \div 2,
       steps |-> IF i % 2 = 0
                 THEN Append(c.steps, [side |-> "left", sibling |-> v.node[i - 1]])
                 ELSE IF i < v.size
                 THEN Append(c.steps, [side |-> "right", sibling |-> v.node[i + 1]])
                 ELSE c.steps]

Steps(l, seq) == Up(Up(Up(Up(Start(l, seq))))).steps

-------------------------------------------------------------------------------
(* The extension.                                                             *)

hash_leaf(entry_hash) == <<1, entry_hash>>

hash_internal(left, right) == <<2, left, right>>

(* One turn of the loop over the steps, and the loop: a path has at most four. *)
Turn(steps, n, current) ==
  IF n > Len(steps) THEN current
  ELSE IF steps[n].side = "left" THEN hash_internal(steps[n].sibling, current)
  ELSE hash_internal(current, steps[n].sibling)

Replay(leaf, steps) ==
  Turn(steps, 4, Turn(steps, 3, Turn(steps, 2, Turn(steps, 1, leaf))))

\* With the stored leaf hash instead of the auditor's.
verify_with_own_leaf(p, leaf, root) == Replay(p.leaf_hash, p.steps) = root

verify_with_leaf(p, leaf, root) == Replay(leaf, p.steps) = root

verify(p, root) == verify_with_leaf(p, p.leaf_hash, root)

NoProof == [sequence |-> 0, leaf_hash |-> EmptyRoot, steps |-> <<>>, size |-> 0]

(* inclusion_proof: the crate's path, with the leaf hash derived from the entry. *)
ProofOf(seq) ==
  [sequence |-> seq, leaf_hash |-> hash_leaf(Entry(seq, log[seq + 1])),
   steps |-> Steps(log, seq), size |-> Len(log)]

LogInit ==
  /\ log = <<>> /\ roots = <<EmptyRoot>> /\ proof = NoProof
  /\ last = "ok"

AppendEntry(artifact) ==
  /\ Len(log) < MaxSize
  /\ log' = Append(log, artifact)
  /\ roots' = Append(roots, Root(log'))
  /\ last' = "ok"
  /\ UNCHANGED proof

\* append is given bytes that are not 32 long.
WrongLength ==
  /\ last' = "ArgumentError"
  /\ UNCHANGED <<log, roots, proof>>

\* inclusion_proof, and entries, which asks for every proof in turn.
Prove(seq) ==
  /\ IF seq < Len(log)
     THEN proof' = ProofOf(seq) /\ last' = "ok"
     ELSE UNCHANGED proof /\ last' = "IndexError"
  /\ UNCHANGED <<log, roots>>

Sizes == 0 .. Len(log)

LogNext ==
  \/ \E a \in Artifacts : AppendEntry(a)
  \/ WrongLength
  \/ \E seq \in 0 .. MaxSize : Prove(seq)

LogSpec == LogInit /\ [][LogNext]_logVars

-------------------------------------------------------------------------------
HasProof == proof # NoProof

\* A proof is good for exactly the root of the tree it was taken from and the entry it
\* was taken for: however the log grew since, #verify accepts that root and none of the
\* other roots the log ever handed out, and verify_with_leaf accepts, for that root, the
\* leaf hash of the entry at the proof's sequence number and of no other, an equal
\* artifact included.  It takes the extension's hash functions to agree with the crate's,
\* and the sides to be replayed as the crate records them.
ProofPinsItsEntry ==
  HasProof =>
    /\ \A n \in Sizes : verify(proof, roots[n + 1]) = (n = proof.size)
    /\ \A i \in 0 .. Len(log) - 1 :
         verify_with_leaf(proof, hash_leaf(Entry(i, log[i + 1])), roots[proof.size + 1])
           = (i = proof.sequence)
===============================================================================
