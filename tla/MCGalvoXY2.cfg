\* The interpolator with 3 frames per movement, stale after 4.
SPECIFICATION Spec
CONSTANTS
  INTERP_FRAMES = 3
  STALE_FRAMES = 4
  MinCode <- MCMinCode
  MaxCode = 4
  Points <- MCPoints
  Sequences <- MCSequences
  COUNTER_MOD = 2
  NoCall = NoCall
  NoFrame = NoFrame
INVARIANTS
  TypeOK
  OnTrack
  Lockstep
  StaleAtRest
PROPERTIES
  BoundedStep
  FollowsTarget
  Settles
