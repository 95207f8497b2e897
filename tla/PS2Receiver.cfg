CONSTANTS
  Bytes <- MCBytes
  Lossy = TRUE
SPECIFICATION Spec
INVARIANTS TypeOK AlignedFrame MisalignmentNeverGrows HighTailRealigns OneBytePerFrame
