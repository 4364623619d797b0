SPECIFICATION Spec
CONSTANTS
  ZERO_WRITE_STOP_COUNT = 2
  ZERO_WRITE_STARTUP_STOP_COUNT = 3
  DRAIN_POLLS = 1
  PREROLL_POLLS = 2
  PREROLL_TARGET = 1
  RING_SIZE = 2
  TrackChanges = FALSE
  Commands = {"PLAY_URI"}
  EagerPlay = FALSE
  CreateMayFail = FALSE
PROPERTIES
  PausedMeansStopped
