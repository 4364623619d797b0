SPECIFICATION HistorySpec
CONSTANTS
  Peers = {p1, p2}
  NoPeer = NoPeer
  EVENT_QUEUE_LEN = 3
  Overflow = TRUE
  Avrcp = FALSE
  Chatter = FALSE
  SoftwareCoexistence = FALSE
  PreferBtWhileStreaming = FALSE
  PreferBtWhileDiscoverable = FALSE
  PauseWifiSourcesOnConnect = FALSE
  PsModes = {PsNone, PsMin, PsMax}
  PsNone = PsNone
  PsDefault = PsMin
  PsConfigured = PsMax
  AutoStart = TRUE
  AutoReconnect = TRUE
  DiscoverableTimed = FALSE
  KeepDiscoverableAfterConnect = FALSE
  RECONNECT_MAX_ATTEMPTS = 2
  AVRC_LABELS = 1
  Commands = {"enable", "disconnect", "restart_discovery"}
  InitMayFail = TRUE
  SaveMayFail = FALSE
  PowerLoss = TRUE
INVARIANTS
  LinkSettled
  EnabledReachable
PROPERTIES
  LinkTracked
  ReconnectOnlyAfterLoss
