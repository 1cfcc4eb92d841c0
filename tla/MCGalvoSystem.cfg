\* Master, bus and slave over two runs of the program.
SPECIFICATION Spec
CONSTANTS
  Points = {origin, far}
  Origin = origin
  SEQ_MOD = 2
  MAX_LOST_FRAMES = 2
  START_TRIES = 1
  MAX_EXCHANGES = 6
  MAX_IN_FLIGHT = 2
INVARIANTS
  TypeOK
  TargetIsLatest
PROPERTIES
  DeliversInOrder
