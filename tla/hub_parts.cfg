SPECIFICATION PartsSpec
CONSTANTS
  Phones = {p1, p2}
  NoName = NoName
  NAME_QUEUE = 3
  NAME_REQUESTS = 2
  Tracks = {a, b}
  NoTrack = NoTrack
  TITLE_QUEUE = 2
  TITLE_REQUESTS = 1
  ChangeInGap = FALSE
  Volumes = {0, 64, 127}
  InitialVolume = 127
  VOLUME_QUEUE = 3
  Configs <- AllConfigs
  RING_BYTES = 3
  MAX_PACKET = 2
  DIAG_LIMIT = 7
  W = 8
  SLACK = 2
  DELAYS = {1, 3}
  DURATION = 4
INVARIANTS
  PartsTypeOK
  BitrateEstimated
  DropsAccounted
  HighWaterTrue
  VolumeAgreed
  SensorsSettled
  TitleSettled
PROPERTIES
  SensorsConverge
  TitleFollows
  DeadlineKept
  ElapsedKept
