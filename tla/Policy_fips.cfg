SPECIFICATION Spec
CONSTANTS
  Bits = {128, 2048}
  Nil = Nil
INVARIANT FipsModeIsWhatWasSet
