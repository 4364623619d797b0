SPECIFICATION Spec
CONSTANTS
  Peers = {p1}
  NoPeer = NoPeer
  EVENT_QUEUE_LEN = 2
  Overflow = FALSE
  Avrcp = FALSE
  Chatter = FALSE
  SoftwareCoexistence = FALSE
  PreferBtWhileStreaming = FALSE
  PreferBtWhileDiscoverable = FALSE
  PauseWifiSourcesOnConnect = FALSE
  PsModes = {PsNone, PsMin, PsMax}
  PsNone = PsNone
  PsDefault = PsMin
  PsConfigured = PsMax
  AutoStart = TRUE
  AutoReconnect = TRUE
  DiscoverableTimed = FALSE
  KeepDiscoverableAfterConnect = FALSE
  RECONNECT_MAX_ATTEMPTS = 2
  AVRC_LABELS = 1
  Commands = {"enable", "disable"}
  InitMayFail = FALSE
  SaveMayFail = FALSE
  PowerLoss = FALSE
INVARIANTS
  StackNeverAsserts
