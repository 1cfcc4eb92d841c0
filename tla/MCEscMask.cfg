\* The masks and the three contexts.
SPECIFICATION Spec
CONSTANTS
  LED_TICKS = 2
INVARIANTS
  TypeOK
  NeverLeftMasked
  MaskedAccessWhole
PROPERTIES
  CutOnlyByTim2
  PdiEntered
