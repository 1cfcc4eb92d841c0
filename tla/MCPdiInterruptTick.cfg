\* Does every period of TIM7 get its frame?
SPECIFICATION Spec
CONSTANTS
  MAX_PDO = 2
  COUNTER_MOD = 16
INVARIANTS
  EveryPeriodHasFrame
