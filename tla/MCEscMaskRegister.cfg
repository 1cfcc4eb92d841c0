\* Does PDI_Isr ever break a register access of the main loop?
SPECIFICATION Spec
CONSTANTS
  LED_TICKS = 2
INVARIANTS
  RegisterAccessWhole
