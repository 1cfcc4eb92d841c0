\* The safe state after OP, in one run of the program.
SPECIFICATION Spec
CONSTANTS
  Points = {origin}
  Origin = origin
  SEQ_MOD = 2
  MAX_LOST_FRAMES = 1
  START_TRIES = 1
  MAX_EXCHANGES = 4
  MAX_IN_FLIGHT = 1
PROPERTIES
  SafeAfterOp
