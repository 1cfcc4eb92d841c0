\* The state machine in both synchronisation modes.
SPECIFICATION Spec
CONSTANTS
  ESM_TIMEOUT = 1
  SyncTypes <- AnySync
  Targets <- AnyTarget
  NoRequest = NoRequest
INVARIANTS
  TypeOK
  HandlersMatchState
  RegisterAgrees
  PendingArmed
  ErrorHasCode
PROPERTIES
  ErrorNeedsAck
  PendingAnswered
  OpNeedsFreshOutputs
  PendingResolves
  SilentMasterEndsOp
