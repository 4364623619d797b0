SPECIFICATION Spec
CONSTANTS
  Peers = {p1}
  NoPeer = NoPeer
  EVENT_QUEUE_LEN = 2
  Overflow = TRUE
  Avrcp = TRUE
  Chatter = FALSE
  SoftwareCoexistence = TRUE
  PreferBtWhileStreaming = TRUE
  PreferBtWhileDiscoverable = TRUE
  PauseWifiSourcesOnConnect = FALSE
  PsModes = {PsNone, PsMin, PsMax}
  PsNone = PsNone
  PsDefault = PsMin
  PsConfigured = PsMax
  AutoStart = TRUE
  AutoReconnect = TRUE
  DiscoverableTimed = FALSE
  KeepDiscoverableAfterConnect = FALSE
  RECONNECT_MAX_ATTEMPTS = 2
  AVRC_LABELS = 2
  Commands = {"enable", "disable", "disconnect", "restart_discovery", "request_audio_suspend", "passthrough"}
  InitMayFail = TRUE
  SaveMayFail = TRUE
  PowerLoss = TRUE
INVARIANTS
  TypeOK
  SubscribersAgree
  ReconnectArmedSafely
  Reachable
  WifiPsRestorable
