CONSTANTS
  Keys = {k1, k2}
  Payloads = {m1, m2}
  Components <- MCComponents
  MaxArray = 2
  MaxSigs = 2
  SigningKeys = {s1, s2}
  BadKey = short
  NoKey = NoKey
  Contents = {c1, c2}
  SignerInputs <- MCSignerInputs
  ForeignDocs <- MCForeignDocs
  MaxSigners = 2
  MaxDocs = 1
  Originals <- MCOriginals
  Width = 4
  Widths = {1, 2, 3, 5}
  Noise = {0, 63, 64}
  MaxChanges = 3
  Artifacts = {a, b}
  MaxSize = 6
  Bits = {128, 2048}
  Nil = Nil
SPECIFICATION MCSpec
INVARIANTS
  CompositeVerdictIsSound
  RevivedIsStable
  CmsVerdictIsSound
  DearmorIsFaithful
  ProofPinsItsEntry
  VerdictOfOnePolicy
CHECK_DEADLOCK FALSE
