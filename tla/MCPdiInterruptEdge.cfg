\* Is every SM2 event served?
SPECIFICATION Spec
CONSTANTS
  MAX_PDO = 3
  COUNTER_MOD = 16
PROPERTIES
  EventServed
