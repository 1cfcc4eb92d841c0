\* Every pair of three-bit codes after every other, in frames of six bits.
SPECIFICATION Spec
CONSTANTS
  CODE_BITS = 3
  FRAME_BITS = 6
  NoCodes = NoCodes
  Broken = Broken
INVARIANTS
  TypeOK
  FrameArrives
PROPERTIES
  DataStable
  SyncFramesClock
