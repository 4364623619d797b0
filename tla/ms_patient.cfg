SPECIFICATION FairSpec
CONSTANTS
  ZERO_WRITE_STOP_COUNT = 2
  ZERO_WRITE_STARTUP_STOP_COUNT = 3
  DRAIN_POLLS = 1
  PREROLL_POLLS = 2
  PREROLL_TARGET = 2
  RING_SIZE = 2
  TrackChanges = TRUE
  Commands <- AllCalls
  EagerPlay = FALSE
  CreateMayFail = FALSE
INVARIANTS
  TypeOK
  ActiveHasReader
  StopOwnsTask
  GateHasRequest
PROPERTIES
  StopCompletes
  LifecycleKept
