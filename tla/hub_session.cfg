SPECIFICATION Spec
CONSTANTS
  Peers = {p1, p2}
  NoPeer = NoPeer
  EVENT_QUEUE_LEN = 4
  Overflow = FALSE
  Avrcp = TRUE
  Chatter = FALSE
  SoftwareCoexistence = TRUE
  PreferBtWhileStreaming = TRUE
  PreferBtWhileDiscoverable = FALSE
  PauseWifiSourcesOnConnect = TRUE
  PsModes = {PsNone, PsMin, PsMax}
  PsNone = PsNone
  PsDefault = PsMin
  PsConfigured = PsMax
  AutoStart = TRUE
  AutoReconnect = TRUE
  DiscoverableTimed = TRUE
  KeepDiscoverableAfterConnect = TRUE
  RECONNECT_MAX_ATTEMPTS = 2
  AVRC_LABELS = 1
  Commands = {"enable", "restart_discovery", "passthrough"}
  InitMayFail = TRUE
  SaveMayFail = TRUE
  PowerLoss = FALSE
SYMMETRY PeerSymmetry
INVARIANTS
  StreamingOnlyConnected
  QueueCompletes
  TracksFollowed
  CoexOnlyWhileStreaming
  WifiPsRestorable
PROPERTIES
  StartsAnnounced
  SessionsTold
