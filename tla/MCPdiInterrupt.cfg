\* Up to six PDOs through the interrupt.
SPECIFICATION Spec
CONSTANTS
  MAX_PDO = 6
  COUNTER_MOD = 16
INVARIANTS
  TypeOK
  EchoConfirms
  LossIsReported
  PendingIsEntered
PROPERTIES
  LatchedIsServed
