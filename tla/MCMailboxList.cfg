\* A firmware whose object list takes two fragments.
SPECIFICATION Spec
CONSTANTS
  Buffers = {1, 2, 3, 4, 5, 6}
  QUEUE_SIZE = 3
  COUNTERS = 2
  FRAGMENTS = 1
  Kinds = {"sdo", "unsupported", "list"}
  MAX_OPEN = 2
  MAX_REQUESTS = 3
  MAX_LOSSES = 2
  MAX_STOPS = 1
INVARIANTS
  ListStartsFresh
