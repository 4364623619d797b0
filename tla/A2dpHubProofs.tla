--------------------------- MODULE A2dpHubProofs ---------------------------
(***************************************************************************)
(* Machine-checked proofs of the hub's safety properties, for every        *)
(* configuration: any set of phones, any queue length, any number of       *)
(* attempts, any set of commands and failures.                             *)
(***************************************************************************)
EXTENDS A2dpHub, SequenceTheorems, TLAPS

-----------------------------------------------------------------------------
(* The queue holds records, whatever is posted and dequeued.               *)

LEMMA EventTyped ==
  ASSUME NEW type \in A2DPEvent
  PROVE  Event(type) \in A2DPEventRecord
  BY DEF Event, A2DPEventRecord

LEMMA PostTyped ==
  ASSUME event_queue \in Seq(A2DPEventRecord),
         NEW ev \in A2DPEventRecord, Post(ev)
  PROVE  event_queue' \in Seq(A2DPEventRecord)
  BY DEF Post

LEMMA PostsTyped ==
  ASSUME event_queue \in Seq(A2DPEventRecord)
  PROVE  /\ \A p \in Peers \cup {NoPeer} :
              PostConnected(p) => event_queue' \in Seq(A2DPEventRecord)
         /\ \A abnormal \in BOOLEAN :
              PostDisconnected(abnormal) => event_queue' \in Seq(A2DPEventRecord)
         /\ \A b \in BOOLEAN :
              PostAudioState(b) => event_queue' \in Seq(A2DPEventRecord)
         /\ \A b \in BOOLEAN :
              PostCtState(b) => event_queue' \in Seq(A2DPEventRecord)
         /\ PostTrackChange => event_queue' \in Seq(A2DPEventRecord)
         /\ Post(Event("INFO")) => event_queue' \in Seq(A2DPEventRecord)
<1>1. \A p \in Peers \cup {NoPeer} :
        [Event("CONNECTED") EXCEPT !.remote_bda = p] \in A2DPEventRecord
  BY DEF Event, A2DPEventRecord, A2DPEvent
<1>2. \A abnormal \in BOOLEAN :
        [Event("DISCONNECTED") EXCEPT !.abnormal = abnormal] \in A2DPEventRecord
  BY DEF Event, A2DPEventRecord, A2DPEvent
<1>3. \A type \in A2DPEvent : Event(type) \in A2DPEventRecord
  BY EventTyped
<1>4. QED
  BY <1>1, <1>2, <1>3, PostTyped
  DEF PostConnected, PostDisconnected, PostAudioState, PostCtState,
      PostTrackChange, A2DPEvent

LEMMA DequeueTyped ==
  ASSUME event_queue \in Seq(A2DPEventRecord), NEW type, Dequeue(type)
  PROVE  /\ event_queue' \in Seq(A2DPEventRecord)
         /\ Head(event_queue) \in A2DPEventRecord
  BY DEF Dequeue

-----------------------------------------------------------------------------
(* Type correctness, module by module.                                     *)

LEMMA BtStepTyped ==
  ASSUME BtTypeOK, BtStep
  PROVE  BtTypeOK'
<1>0. /\ event_queue \in Seq(A2DPEventRecord)
      /\ link_peer \in Peers \cup {NoPeer}
  BY DEF BtTypeOK
<1> USE DEF BtTypeOK, StackStates, ScanModes, LinkStates, ctVars, linkVars
<1>1. ASSUME NEW p \in Peers, PeerConnects(p) PROVE BtTypeOK'
  BY <1>0, <1>1, PostsTyped DEF PeerConnects
<1>2. CASE ConnectSucceeds
  BY <1>0, <1>2, PostsTyped DEF ConnectSucceeds
<1>3. CASE ConnectFails
  BY <1>0, <1>3, PostsTyped DEF ConnectFails
<1>4. CASE AudioStarts
  BY <1>0, <1>4, PostsTyped DEF AudioStarts
<1>5. CASE AudioStops
  BY <1>0, <1>5, PostsTyped DEF AudioStops
<1>6. ASSUME NEW abnormal \in BOOLEAN, LinkDrops(abnormal) PROVE BtTypeOK'
  BY <1>0, <1>6, PostsTyped DEF LinkDrops
<1>7. CASE CtConnects
  BY <1>0, <1>7, PostsTyped DEF CtConnects
<1>8. CASE CtDisconnects
  BY <1>0, <1>8, PostsTyped DEF CtDisconnects
<1>9. CASE TrackChanges
  BY <1>0, <1>9, PostsTyped DEF TrackChanges
<1>10. CASE Chat
  BY <1>0, <1>10, PostsTyped DEF Chat
<1>11. QED
  BY <1>1, <1>2, <1>3, <1>4, <1>5, <1>6, <1>7, <1>8, <1>9, <1>10 DEF BtStep

LEMMA CoexTyped ==
  ASSUME CoexTypeOK
  PROVE  /\ \A wanted, bt \in BOOLEAN : SetCoexPreferenceIf(wanted, bt) =>
              /\ prefer_bt' \in BOOLEAN
              /\ wifi_ps' \in PsModes
              /\ saved_wifi_ps' \in PsModes
              /\ wifi_ps_saved' \in BOOLEAN
         /\ SetCoexPreference(TRUE) =>
              /\ prefer_bt' \in BOOLEAN
              /\ wifi_ps' \in PsModes
              /\ saved_wifi_ps' \in PsModes
              /\ wifi_ps_saved' \in BOOLEAN
         /\ \A pause \in BOOLEAN : ApplyWifiPause(pause) =>
              wifi_paused' \in BOOLEAN /\ high_performance' \in BOOLEAN
  BY PsAssumption
  DEF CoexTypeOK, SetCoexPreferenceIf, SetCoexPreference, PreferBt, PreferWifi,
      SetPs, psVars, pauseVars, ApplyWifiPause

LEMMA StackCallsTyped ==
  ASSUME BtTypeOK
  PROVE  /\ StackDisable \/ StackReset =>
              /\ stack' \in StackStates
              /\ scan' \in ScanModes
              /\ link' \in LinkStates
              /\ link_peer' \in Peers \cup {NoPeer}
              /\ stream' \in BOOLEAN /\ suspending' \in BOOLEAN
              /\ ct_link' \in BOOLEAN /\ ct_registered' \in BOOLEAN
         /\ \A p \in Peers \cup {NoPeer} : SinkConnect(p) \/ SinkDisconnect(p) =>
              /\ link' \in LinkStates
              /\ link_peer' \in Peers \cup {NoPeer}
              /\ stream' \in BOOLEAN
         /\ \A mode \in ScanModes : SetScanMode(mode) => scan' \in ScanModes
  BY DEF BtTypeOK, StackDisable, StackReset, SinkConnect, SinkDisconnect,
         SetScanMode, StackStates, ScanModes, LinkStates

LEMMA LabelsTyped ==
  ASSUME avrc_ct_tl \in 0 .. AVRC_LABELS - 1, NEW n \in Nat
  PROVE  /\ (avrc_ct_tl + n) % AVRC_LABELS \in 0 .. AVRC_LABELS - 1
         /\ SendAvrcp(n) => avrc_ct_tl' \in 0 .. AVRC_LABELS - 1
  BY LabelsAssumption DEF SendAvrcp

LEMMA ZeroesTyped ==
  /\ << >> \in Seq(A2DPEventRecord)
  /\ 0 \in 0 .. AVRC_LABELS - 1
  BY LabelsAssumption

LEMMA BtTypePreserved ==
  ASSUME BtTypeOK, HubTypeOK, [Next]_vars
  PROVE  BtTypeOK'
<1>0. last_peer \in Peers \cup {NoPeer}
  BY DEF HubTypeOK
<1> USE DEF BtTypeOK, StackStates, ScanModes, LinkStates, btVars, linkVars, ctVars
<1>1. CASE Setup
  BY <1>1
  DEF Setup, EnableCall, EnableSucceeds, EnableFails
<1>2. CASE PanicReboot
  BY <1>2, ZeroesTyped
  DEF PanicReboot, Reset, StackReset
<1>3. CASE PowerCut
  BY <1>3, ZeroesTyped
  DEF PowerCut, Reset, StackReset
<1>4. CASE Enable
  BY <1>4
  DEF Enable, Calls, EnableCall, EnableSucceeds, EnableFails
<1>5. CASE DisableConnected
  BY <1>5, <1>0
  DEF DisableConnected, DisableCommon, Calls, StopDiscovery,
        SetScanMode, SinkDisconnect
<1>6. CASE DisableUnconnected
  BY <1>6
  DEF DisableUnconnected, DisableCommon, Calls, FinishDisable, DeinitBt,
        StackDisable
<1>7. CASE Disconnect
  BY <1>7, <1>0
  DEF Disconnect, Calls, SinkDisconnect, StartDiscovery, SetScanMode
<1>8. CASE RestartDiscovery
  BY <1>8
  DEF RestartDiscovery, Calls, EnableCall, EnableSucceeds,
        EnableFails, StartDiscovery, SetScanMode
<1>9. CASE RequestAudioSuspend
  BY <1>9
  DEF RequestAudioSuspend
<1>10. CASE SendAvrcPassthrough
  BY <1>10
  DEF SendAvrcPassthrough, Calls
<1>11. CASE LoopTop
  BY <1>11, <1>0
  DEF LoopTop, CheckSuspend, MediaCtrlSuspend, CheckDiscoverable,
        StopDiscovery, SetScanMode, CheckReconnect,
        ReconnectToLastPeer, SinkConnect, SinkConnectStarts,
        CheckMetadataRefresh, RequestTrackChangeNotification,
        RegisterTrackChange
<1>12. CASE HandleConnected
  BY <1>12
  DEF HandleConnected, Dequeue, StopDiscovery, SetScanMode
<1>13. CASE HandleDisconnectedPending
  BY <1>13, StackCallsTyped, DequeueTyped
  DEF HandleDisconnectedPending, FinishDisable, DeinitBt
<1>14. CASE HandleDisconnected
  BY <1>14
  DEF HandleDisconnected, Dequeue, StartDiscovery, SetScanMode
<1>15. CASE HandleAudioStarted
  BY <1>15
  DEF HandleAudioStarted, Dequeue
<1>16. CASE HandleAudioStopped
  BY <1>16
  DEF HandleAudioStopped, Dequeue
<1>17. CASE HandleCtConnected
  BY <1>17
  DEF HandleCtConnected, Dequeue
<1>18. CASE HandleCtDisconnected
  BY <1>18
  DEF HandleCtDisconnected, Dequeue
<1>19. CASE HandleTrackChanged
  BY <1>19
  DEF HandleTrackChanged, Dequeue, RequestTrackChangeNotification,
        RegisterTrackChange
<1>20. CASE HandleNothingNew
  BY <1>20
  DEF HandleNothingNew, Dequeue
<1>21. CASE DrainDone
  BY <1>21
  DEF DrainDone
<1>22. CASE BtStep /\ UNCHANGED <<coexVars, hubVars>>
  BY <1>22, BtStepTyped
<1>23. CASE WifiStep
  BY <1>23 DEF WifiStep
<1>24. CASE UNCHANGED vars
  BY <1>24
  DEF vars
<1>25. QED
  BY <1>1, <1>2, <1>3, <1>4, <1>5, <1>6, <1>7, <1>8, <1>9, <1>10, <1>11, <1>12, <1>13, <1>14, <1>15, <1>16, <1>17, <1>18, <1>19, <1>20, <1>21, <1>22, <1>23, <1>24
  DEF Next, Command, Handle

LEMMA CoexTypePreserved ==
  ASSUME CoexTypeOK, [Next]_vars
  PROVE  CoexTypeOK'
<1> USE DEF CoexTypeOK, coexVars, psVars, pauseVars, wifiVars
<1>1. ASSUME EnableCall(last_peer) \/ EnableCall(saved_peer),
             UNCHANGED wifiVars
      PROVE  CoexTypeOK'
  BY <1>1, CoexTyped, CoexFlagsAssumption
  DEF EnableCall, EnableSucceeds, EnableFails
<1>2. CASE Setup
  BY <1>1, <1>2 DEF Setup
<1>3. CASE PanicReboot \/ PowerCut
  BY <1>3, PsAssumption DEF PanicReboot, PowerCut, Reset, CoexReset
<1>4. CASE Enable \/ RestartDiscovery
  BY <1>1, <1>4 DEF Enable, RestartDiscovery, Calls
<1>5. CASE DisableConnected \/ DisableUnconnected
  BY <1>5, CoexTyped
  DEF DisableConnected, DisableUnconnected, DisableCommon, Calls
<1>6. CASE Disconnect
  BY <1>6, CoexTyped DEF Disconnect, Calls
<1>7. CASE RequestAudioSuspend \/ SendAvrcPassthrough
  BY <1>7 DEF RequestAudioSuspend, SendAvrcPassthrough, Calls
<1>8. CASE LoopTop
  BY <1>8, CoexTyped DEF LoopTop, CheckCoex
<1>9. CASE HandleConnected
  BY <1>9, CoexTyped DEF HandleConnected, Dequeue
<1>10. CASE HandleDisconnected \/ HandleDisconnectedPending
  BY <1>10, CoexTyped DEF HandleDisconnected, HandleDisconnectedPending, Dequeue
<1>11. CASE HandleAudioStopped
  BY <1>11, CoexTyped, CoexFlagsAssumption DEF HandleAudioStopped, Dequeue
<1>12. CASE HandleAudioStarted \/ HandleCtConnected \/ HandleCtDisconnected
              \/ HandleTrackChanged \/ HandleNothingNew
  BY <1>12 DEF HandleAudioStarted, HandleCtConnected, HandleCtDisconnected,
               HandleTrackChanged, HandleNothingNew, Dequeue
<1>13. CASE WifiStep
  BY <1>13, PsAssumption DEF WifiStep, WifiStarts, WifiLoop
<1>14. CASE DrainDone \/ UNCHANGED coexVars
  BY <1>14 DEF DrainDone
<1>15. QED
  BY <1>2, <1>3, <1>4, <1>5, <1>6, <1>7, <1>8, <1>9, <1>10, <1>11, <1>12,
     <1>13, <1>14
  DEF Next, Command, Handle, vars

\* HubTypeOK in two parts: Zenon is at home with the flags, SMT with the rest.
FlagsTyped ==
  /\ enabled \in BOOLEAN
  /\ connected \in BOOLEAN
  /\ audio_streaming \in BOOLEAN
  /\ discoverable \in BOOLEAN
  /\ pending_deinit \in BOOLEAN
  /\ reconnect_at \in BOOLEAN
  /\ resume_playback_on_reconnect \in BOOLEAN
  /\ audio_suspend_requested \in BOOLEAN
  /\ avrcp_ct_connected \in BOOLEAN
  /\ metadata_refresh_at \in BOOLEAN
  /\ coex_apply_at \in BOOLEAN
  /\ connection_sensor \in BOOLEAN
  /\ sink_streaming \in BOOLEAN

DataTyped ==
  /\ main_pc \in {"off", "idle", "drain"}
  /\ reconnect_attempts \in Nat
  /\ last_peer \in Peers \cup {NoPeer}
  /\ saved_peer \in Peers \cup {NoPeer}
  /\ avrc_ct_tl \in 0 .. AVRC_LABELS - 1

LEMMA FlagsTypePreserved ==
  ASSUME FlagsTyped, [Next]_vars
  PROVE  FlagsTyped'
<1> USE DEF FlagsTyped, hubVars, sessionVars, reconnectVars, peerVars, avrcpVars
<1>1. CASE Setup
  BY <1>1, Zenon
  DEF Setup, EnableCall, EnableSucceeds, EnableFails, ArmReconnect
<1>2. CASE PanicReboot \/ PowerCut
  <2>1. CASE PanicReboot
    BY <2>1, Zenon DEF PanicReboot, Reset, HubRamReset, EndSession
  <2>2. CASE PowerCut
    BY <2>2, Zenon DEF PowerCut, Reset, HubRamReset, EndSession
  <2>3. QED
    BY <1>2, <2>1, <2>2
<1>3. CASE Enable
  BY <1>3, Zenon
  DEF Enable, Calls, EnableCall, EnableSucceeds, EnableFails, ArmReconnect
<1>4. CASE DisableConnected
  BY <1>4, Zenon
  DEF DisableConnected, DisableCommon, Calls, DisarmReconnect, DisarmCoex,
      StopDiscovery
<1>5. CASE DisableUnconnected
  BY <1>5, Zenon
  DEF DisableUnconnected, DisableCommon, Calls, DisarmReconnect,
      DisarmCoex, FinishDisable, DeinitBt
<1>6. CASE Disconnect
  BY <1>6, Zenon
  DEF Disconnect, Calls, DisarmReconnect, EndSession, NotifyConnection,
      NotifyAudioState, StartDiscovery
<1>7. CASE RestartDiscovery
  BY <1>7, Zenon
  DEF RestartDiscovery, Calls, EnableCall, EnableSucceeds, EnableFails,
      ArmReconnect, StartDiscovery
<1>8. CASE RequestAudioSuspend \/ SendAvrcPassthrough
  <2>1. CASE RequestAudioSuspend
    BY <2>1, Zenon DEF RequestAudioSuspend, Calls
  <2>2. CASE SendAvrcPassthrough
    BY <2>2, Zenon DEF SendAvrcPassthrough, Calls
  <2>3. QED
    BY <1>8, <2>1, <2>2
<1>9. CASE LoopTop
  <2>1. pending_deinit' \in BOOLEAN
    BY <1>9, Zenon DEF LoopTop, CheckDeinitDeadline
  <2>2. audio_suspend_requested' \in BOOLEAN
    BY <1>9, Zenon DEF LoopTop, CheckSuspend
  <2>3. discoverable' \in BOOLEAN
    BY <1>9, Zenon DEF LoopTop, CheckDiscoverable, StopDiscovery
  <2>4. reconnect_at' \in BOOLEAN /\ resume_playback_on_reconnect' \in BOOLEAN
    BY <1>9 DEF LoopTop, CheckReconnect, ReconnectToLastPeer
  <2>5. metadata_refresh_at' \in BOOLEAN /\ coex_apply_at' \in BOOLEAN
    BY <1>9, Zenon DEF LoopTop, CheckMetadataRefresh, CheckCoex
  <2>6. QED
    BY <1>9, <2>1, <2>2, <2>3, <2>4, <2>5, Zenon DEF LoopTop
<1>10. CASE HandleConnected
  BY <1>10, Zenon
  DEF HandleConnected, Dequeue, DisarmReconnect, SavePeer, StopDiscovery,
      NotifyConnection
<1>11. CASE HandleDisconnectedPending
  BY <1>11, Zenon
  DEF HandleDisconnectedPending, Dequeue, EndSession, DisarmCoex,
      NotifyConnection, NotifyAudioState, FinishDisable, DeinitBt
<1>12. CASE HandleDisconnected
  BY <1>12, Zenon
  DEF HandleDisconnected, Dequeue, EndSession, DisarmCoex,
      NotifyConnection, NotifyAudioState, ArmReconnect, StartDiscovery
<1>13. CASE HandleAudioStarted \/ HandleAudioStopped
  <2>1. CASE HandleAudioStarted
    BY <2>1, Zenon DEF HandleAudioStarted, Dequeue, DisarmCoex, NotifyAudioState
  <2>2. CASE HandleAudioStopped
    BY <2>2, Zenon DEF HandleAudioStopped, Dequeue, DisarmCoex, NotifyAudioState
  <2>3. QED
    BY <1>13, <2>1, <2>2
<1>14. CASE HandleCtConnected \/ HandleCtDisconnected
  <2>1. CASE HandleCtConnected
    BY <2>1, Zenon DEF HandleCtConnected, Dequeue
  <2>2. CASE HandleCtDisconnected
    BY <2>2, Zenon DEF HandleCtDisconnected, Dequeue
  <2>3. QED
    BY <1>14, <2>1, <2>2
<1>15. CASE HandleTrackChanged \/ HandleNothingNew
  <2>1. CASE HandleTrackChanged
    BY <2>1, Zenon DEF HandleTrackChanged, Dequeue
  <2>2. CASE HandleNothingNew
    BY <2>2, Zenon DEF HandleNothingNew, Dequeue
  <2>3. QED
    BY <1>15, <2>1, <2>2
<1>16. CASE DrainDone \/ UNCHANGED hubVars
  BY <1>16, ZenonT(30)
  DEF DrainDone
<1>17. QED
  BY <1>1, <1>2, <1>3, <1>4, <1>5, <1>6, <1>7, <1>8, <1>9, <1>10, <1>11,
     <1>12, <1>13, <1>14, <1>15, <1>16
  DEF Next, Command, Handle, WifiStep, vars

LEMMA DataTypePreserved ==
  ASSUME BtTypeOK, DataTyped, [Next]_vars
  PROVE  DataTyped'
<1>0. event_queue \in Seq(A2DPEventRecord)
  BY DEF BtTypeOK
<1> USE DEF DataTyped, hubVars, sessionVars, reconnectVars, peerVars, avrcpVars
<1>a. ASSUME NEW peer, EnableCall(peer)
      PROVE  reconnect_attempts' \in Nat
  <2>1. reconnect_attempts' = 0 \/ reconnect_attempts' = reconnect_attempts
    BY <1>a, Zenon DEF EnableCall, EnableSucceeds, EnableFails, ArmReconnect
  <2>2. QED
    BY <2>1
<1>1. CASE Setup
  BY <1>1, <1>a DEF Setup
<1>2. CASE PanicReboot \/ PowerCut
  BY <1>2, ZeroesTyped
  DEF PanicReboot, PowerCut, Reset, HubRamReset, EndSession
<1>3. CASE Enable
  BY <1>3, <1>a DEF Enable, Calls
<1>4. CASE DisableConnected
  BY <1>4
  DEF DisableConnected, DisableCommon, Calls, DisarmReconnect, DisarmCoex,
      StopDiscovery
<1>5. CASE DisableUnconnected
  BY <1>5
  DEF DisableUnconnected, DisableCommon, Calls, DisarmReconnect,
      DisarmCoex, FinishDisable, DeinitBt
<1>6. CASE Disconnect
  BY <1>6
  DEF Disconnect, Calls, DisarmReconnect, EndSession, NotifyConnection,
      NotifyAudioState, StartDiscovery
<1>7. CASE RestartDiscovery
  BY <1>7, <1>a DEF RestartDiscovery, Calls
<1>8. CASE RequestAudioSuspend \/ SendAvrcPassthrough
  BY <1>8, LabelsTyped
  DEF RequestAudioSuspend, SendAvrcPassthrough, Calls
<1>9. CASE LoopTop
  BY <1>9, LabelsTyped
  DEF LoopTop, CheckReconnect, ReconnectToLastPeer, CheckMetadataRefresh
<1>10. CASE HandleConnected
  BY <1>10, <1>0, DequeueTyped
  DEF HandleConnected, Dequeue, DisarmReconnect, SavePeer, StopDiscovery,
      NotifyConnection, A2DPEventRecord
<1>11. CASE HandleDisconnectedPending
  BY <1>11
  DEF HandleDisconnectedPending, Dequeue, EndSession, DisarmCoex,
      NotifyConnection, NotifyAudioState, FinishDisable, DeinitBt
<1>12. CASE HandleDisconnected
  BY <1>12
  DEF HandleDisconnected, Dequeue, EndSession, DisarmCoex,
      NotifyConnection, NotifyAudioState, ArmReconnect, StartDiscovery
<1>13. CASE HandleAudioStarted \/ HandleAudioStopped
  BY <1>13
  DEF HandleAudioStarted, HandleAudioStopped, Dequeue, DisarmCoex,
      NotifyAudioState
<1>14. CASE HandleCtConnected \/ HandleCtDisconnected
  BY <1>14, LabelsTyped
  DEF HandleCtConnected, HandleCtDisconnected, Dequeue
<1>15. CASE HandleTrackChanged \/ HandleNothingNew
  BY <1>15, LabelsTyped
  DEF HandleTrackChanged, HandleNothingNew, Dequeue
<1>16. CASE DrainDone \/ UNCHANGED hubVars
  BY <1>16
  DEF DrainDone
<1>17. QED
  BY <1>1, <1>2, <1>3, <1>4, <1>5, <1>6, <1>7, <1>8, <1>9, <1>10, <1>11,
     <1>12, <1>13, <1>14, <1>15, <1>16
  DEF Next, Command, Handle, WifiStep, vars

\* Every variable of the hub, the stack and the coexistence code keeps its
\* type: the queue holds records of A2DPEventRecord, the AVRC label stays a
\* label, the peers are phones or the zeroed address.
THEOREM TypeCorrect == Spec => []TypeOK
<1>1. Init => TypeOK
  <2> SUFFICES ASSUME Init PROVE TypeOK
    OBVIOUS
  <2>1. BtTypeOK
    BY ZeroesTyped DEF Init, BtInit, BtTypeOK, StackStates, ScanModes, LinkStates
  <2>2. CoexTypeOK
    BY PsAssumption DEF Init, CoexInit, CoexTypeOK
  <2>3. HubTypeOK
    BY ZeroesTyped DEF Init, HubRamInit, HubTypeOK
  <2>4. QED
    BY <2>1, <2>2, <2>3 DEF TypeOK
<1>2. TypeOK /\ [Next]_vars => TypeOK'
  <2> SUFFICES ASSUME TypeOK, [Next]_vars PROVE TypeOK'
    OBVIOUS
  <2>1. FlagsTyped /\ DataTyped
    BY DEF TypeOK, HubTypeOK, FlagsTyped, DataTyped
  <2>2. FlagsTyped' /\ DataTyped'
    BY <2>1, FlagsTypePreserved, DataTypePreserved DEF TypeOK
  <2>3. HubTypeOK'
    BY <2>2 DEF HubTypeOK, FlagsTyped, DataTyped
  <2>4. QED
    BY <2>3, BtTypePreserved, CoexTypePreserved DEF TypeOK
<1>3. QED
  BY <1>1, <1>2, PTL DEF Spec

-----------------------------------------------------------------------------
(* SubscribersAgree is inductive as it stands.                             *)

LEMMA SubscribersPreserved ==
  ASSUME SubscribersAgree, [Next]_vars
  PROVE  SubscribersAgree'
<1> USE DEF SubscribersAgree, sessionVars
<1>1. CASE Setup \/ Enable \/ RestartDiscovery
  BY <1>1
  DEF Setup, Enable, RestartDiscovery, Calls
<1>2. CASE PanicReboot \/ PowerCut
  BY <1>2
  DEF PanicReboot, PowerCut, Reset, HubRamReset, EndSession
<1>3. CASE DisableConnected \/ DisableUnconnected
  BY <1>3
  DEF DisableConnected, DisableUnconnected, DisableCommon
<1>4. CASE Disconnect
  BY <1>4
  DEF Disconnect, EndSession, NotifyConnection, NotifyAudioState
<1>5. CASE RequestAudioSuspend \/ SendAvrcPassthrough \/ LoopTop \/
           DrainDone
  BY <1>5
  DEF RequestAudioSuspend, SendAvrcPassthrough, LoopTop, DrainDone
<1>6. CASE HandleConnected
  BY <1>6
  DEF HandleConnected, NotifyConnection
<1>7. CASE HandleDisconnectedPending \/ HandleDisconnected
  BY <1>7
  DEF HandleDisconnectedPending, HandleDisconnected, EndSession,
      NotifyConnection, NotifyAudioState
<1>8. CASE HandleAudioStarted \/ HandleAudioStopped
  BY <1>8
  DEF HandleAudioStarted, HandleAudioStopped, NotifyAudioState
<1>9. CASE HandleCtConnected \/ HandleCtDisconnected \/ HandleTrackChanged
           \/ HandleNothingNew
  BY <1>9
  DEF HandleCtConnected, HandleCtDisconnected, HandleTrackChanged,
      HandleNothingNew
<1>10. CASE UNCHANGED hubVars
  BY <1>10
  DEF hubVars
<1>11. QED
  BY <1>1, <1>2, <1>3, <1>4, <1>5, <1>6, <1>7, <1>8, <1>9, <1>10
  DEF Next, Command, Handle, WifiStep, vars

\* Whatever sequence of calls, events and failures: the subscribers of the
\* connection and audio callbacks know what the hub knows.
THEOREM SubscribersCorrect == Spec => []SubscribersAgree
<1>1. Init => SubscribersAgree
  BY DEF Init, HubRamInit, SubscribersAgree
<1>2. SubscribersAgree /\ [Next]_vars => SubscribersAgree'
  BY SubscribersPreserved
<1>3. QED
  BY <1>1, <1>2, PTL DEF Spec

-----------------------------------------------------------------------------
(* A reconnect is armed with attempts left.  setup() may fail to start the *)
(* stack and then leaves the deadline as it is: RAM was just zeroed.       *)

ReconnectInv ==
  /\ ReconnectArmedSafely
  /\ main_pc = "off" => ~reconnect_at

LEMMA ReconnectPreserved ==
  ASSUME TypeOK, ReconnectInv, [Next]_vars
  PROVE  ReconnectInv'
<1>0. 0 < RECONNECT_MAX_ATTEMPTS
  BY AttemptsAssumption
<1> USE DEF ReconnectInv, ReconnectArmedSafely, reconnectVars, peerVars
<1>1. CASE Setup
  BY <1>1, <1>0, Zenon
  DEF Setup, EnableCall, EnableSucceeds, EnableFails, ArmReconnect
<1>2. CASE PanicReboot \/ PowerCut
  BY <1>2
  DEF PanicReboot, PowerCut, Reset, HubRamReset
<1>3. CASE Enable \/ RestartDiscovery
  <2>1. UNCHANGED <<main_pc, last_peer>>
    BY <1>3 DEF Enable, RestartDiscovery, Calls
  <2>2. \/ reconnect_attempts' = 0 /\ last_peer # NoPeer
        \/ UNCHANGED <<reconnect_at, reconnect_attempts>>
    BY <1>3, Zenon
    DEF Enable, RestartDiscovery, EnableCall, EnableSucceeds, EnableFails,
        ArmReconnect
  <2>3. main_pc # "off"
    BY <1>3 DEF Enable, RestartDiscovery, Calls
  <2>4. QED
    BY <2>1, <2>2, <2>3, <1>0
<1>4. CASE DisableConnected \/ DisableUnconnected
  BY <1>4
  DEF DisableConnected, DisableUnconnected, DisableCommon, Calls,
      DisarmReconnect
<1>5. CASE Disconnect
  BY <1>5
  DEF Disconnect, Calls, DisarmReconnect
<1>6. CASE RequestAudioSuspend \/ SendAvrcPassthrough \/ DrainDone
  BY <1>6
  DEF RequestAudioSuspend, SendAvrcPassthrough, Calls, DrainDone
<1>7. CASE LoopTop
  <2>1. /\ reconnect_at' =>
             \/ reconnect_attempts' < RECONNECT_MAX_ATTEMPTS /\ reconnect_at
             \/ UNCHANGED reconnectVars
        /\ UNCHANGED last_peer
        /\ main_pc' = "drain"
    BY <1>7, Zenon DEF LoopTop, CheckReconnect, ReconnectToLastPeer
  <2>2. QED
    BY <2>1
<1>8. CASE HandleConnected
  BY <1>8
  DEF HandleConnected, DisarmReconnect, Dequeue
<1>9. CASE HandleDisconnected
  BY <1>9, <1>0
  DEF HandleDisconnected, ArmReconnect, Dequeue
<1>10. CASE HandleDisconnectedPending \/ HandleAudioStarted
              \/ HandleAudioStopped
  <2>1. CASE HandleDisconnectedPending
    BY <2>1 DEF HandleDisconnectedPending, Dequeue
  <2>2. CASE HandleAudioStarted
    BY <2>2 DEF HandleAudioStarted, Dequeue
  <2>3. CASE HandleAudioStopped
    BY <2>3 DEF HandleAudioStopped, Dequeue
  <2>4. QED
    BY <1>10, <2>1, <2>2, <2>3
<1>11. CASE HandleCtConnected \/ HandleCtDisconnected \/ HandleTrackChanged
           \/ HandleNothingNew
  BY <1>11
  DEF HandleCtConnected, HandleCtDisconnected, HandleTrackChanged,
      HandleNothingNew, Dequeue
<1>12. CASE UNCHANGED hubVars
  BY <1>12
  DEF hubVars
<1>13. QED
  BY <1>1, <1>2, <1>3, <1>4, <1>5, <1>6, <1>7, <1>8, <1>9, <1>10, <1>11,
     <1>12
  DEF Next, Command, Handle, WifiStep, vars

\* The retry chain, for any bound on the attempts and any history of losses,
\* commands, failed starts and reboots: never armed out of attempts, never
\* armed without a peer.
THEOREM ReconnectCorrect == Spec => []ReconnectArmedSafely
<1>1. Init => ReconnectInv
  BY DEF Init, HubRamInit, ReconnectInv, ReconnectArmedSafely
<1>2. TypeOK /\ ReconnectInv /\ [Next]_vars => ReconnectInv'
  BY ReconnectPreserved
<1>3. ReconnectInv => ReconnectArmedSafely
  BY DEF ReconnectInv
<1>4. QED
  BY <1>1, <1>2, <1>3, TypeCorrect, PTL DEF Spec


-----------------------------------------------------------------------------
(* The scan mode.  StopDiscovery clears discoverable_ whether or not the   *)
(* stack still runs; that is the truth because a stack that does not run   *)
(* does not scan.                                                          *)

ReachableInv ==
  /\ Reachable
  /\ stack # "on" => scan = "off"

LEMMA ReachablePreserved ==
  ASSUME TypeOK, ReachableInv, [Next]_vars
  PROVE  ReachableInv'
<1> USE DEF ReachableInv, Reachable, sessionVars
<1>1. CASE Setup
  BY <1>1
  DEF Setup, EnableCall, EnableSucceeds, EnableFails
<1>2. CASE PanicReboot \/ PowerCut
  BY <1>2
  DEF PanicReboot, PowerCut, Reset, HubRamReset, StackReset
<1>3. CASE Enable \/ RestartDiscovery
  <2>1. /\ UNCHANGED connected
        /\ \/ EnableCall(last_peer) /\ ~enabled
           \/ StartDiscovery /\ UNCHANGED <<stack, enabled>>
    BY <1>3, Zenon DEF Enable, RestartDiscovery, Calls
  <2>2. CASE EnableSucceeds(last_peer)
    BY <2>1, <2>2 DEF EnableSucceeds
  <2>3. CASE EnableFails /\ ~enabled
    BY <2>1, <2>3 DEF EnableFails
  <2>4. CASE StartDiscovery /\ UNCHANGED <<stack, enabled>>
    BY <2>1, <2>4 DEF StartDiscovery, SetScanMode
  <2>5. QED
    BY <2>1, <2>2, <2>3, <2>4 DEF EnableCall
<1>4. CASE DisableConnected
  BY <1>4
  DEF DisableConnected, DisableCommon, StopDiscovery, SetScanMode
<1>5. CASE DisableUnconnected
  BY <1>5
  DEF DisableUnconnected, DisableCommon, FinishDisable, DeinitBt, StackDisable
<1>6. CASE Disconnect
  BY <1>6
  DEF Disconnect, StartDiscovery, SetScanMode
<1>7. CASE RequestAudioSuspend \/ SendAvrcPassthrough \/ DrainDone
  <2>1. UNCHANGED <<stack, scan, enabled, connected, discoverable>>
    BY <1>7, Zenon
    DEF RequestAudioSuspend, SendAvrcPassthrough, DrainDone, btVars
  <2>2. QED
    BY <2>1
<1>8. CASE LoopTop
  BY <1>8
  DEF LoopTop, CheckDiscoverable, StopDiscovery, SetScanMode
<1>9. CASE HandleConnected
  BY <1>9
  DEF HandleConnected, StopDiscovery, SetScanMode
<1>10. CASE HandleDisconnectedPending
  BY <1>10
  DEF HandleDisconnectedPending, FinishDisable, DeinitBt, StackDisable
<1>11. CASE HandleDisconnected
  BY <1>11
  DEF HandleDisconnected, StartDiscovery, SetScanMode
<1>12. CASE HandleAudioStarted \/ HandleAudioStopped
  <2>1. CASE HandleAudioStarted
    BY <2>1 DEF HandleAudioStarted
  <2>2. CASE HandleAudioStopped
    BY <2>2 DEF HandleAudioStopped
  <2>3. QED
    BY <1>12, <2>1, <2>2
<1>13. CASE HandleCtConnected \/ HandleCtDisconnected
  BY <1>13
  DEF HandleCtConnected, HandleCtDisconnected
<1>14. CASE HandleTrackChanged \/ HandleNothingNew
  BY <1>14
  DEF HandleTrackChanged, HandleNothingNew
<1>15. CASE BtStep /\ UNCHANGED <<coexVars, hubVars>>
  BY <1>15
  DEF BtStep, PeerConnects, ConnectSucceeds, ConnectFails, AudioStarts,
      AudioStops, LinkDrops, CtConnects, CtDisconnects, TrackChanges,
      Chat, hubVars
<1>16. CASE UNCHANGED <<btVars, hubVars>>
  BY <1>16
  DEF hubVars, btVars
<1>17. QED
  BY <1>1, <1>2, <1>3, <1>4, <1>5, <1>6, <1>7, <1>8, <1>9, <1>10, <1>11,
     <1>12, <1>13, <1>14, <1>15, <1>16
  DEF Next, Command, Handle, WifiStep, vars

\* discoverable_ is the truth about the scan mode, and a phone can reach an
\* enabled hub whose stack runs: for any sequence of commands, half-failed
\* starts, teardowns and lost events.  That the stack does run is
\* EnabledReachableCorrect, and needs a hub that nobody disables.
THEOREM ReachableCorrect == Spec => []Reachable
<1>1. Init => ReachableInv
  BY DEF Init, HubRamInit, BtInit, ReachableInv, Reachable
<1>2. TypeOK /\ ReachableInv /\ [Next]_vars => ReachableInv'
  BY ReachablePreserved
<1>3. ReachableInv => Reachable
  BY DEF ReachableInv
<1>4. QED
  BY <1>1, <1>2, <1>3, TypeCorrect, PTL DEF Spec

-----------------------------------------------------------------------------
(* Without disable() the stack of an enabled hub runs: only a teardown     *)
(* switches it off, and there is none.                                     *)

NeverDisabled == "disable" \notin Commands

StackInv ==
  /\ ~pending_deinit
  /\ enabled => stack = "on"

LEMMA StackPreserved ==
  ASSUME NeverDisabled, StackInv, [Next]_vars
  PROVE  StackInv'
<1> USE DEF StackInv
<1>1. CASE Setup \/ Enable \/ RestartDiscovery
  <2>1. UNCHANGED pending_deinit
    BY <1>1 DEF Setup, Enable, RestartDiscovery
  <2>2. \/ UNCHANGED <<stack, enabled>>
        \/ stack' = "on"
        \/ ~enabled /\ UNCHANGED enabled
        \/ EnableFails
    BY <1>1
    DEF Setup, Enable, RestartDiscovery, Calls, EnableCall, EnableSucceeds
  <2>3. EnableFails => UNCHANGED enabled /\ (stack = "on" => stack' = "on")
    BY DEF EnableFails
  <2>4. QED
    BY <2>1, <2>2, <2>3
<1>2. CASE PanicReboot \/ PowerCut
  BY <1>2 DEF PanicReboot, PowerCut, Reset, HubRamReset
<1>3. CASE DisableConnected \/ DisableUnconnected
  BY <1>3
  DEF DisableConnected, DisableUnconnected, DisableCommon, Calls, NeverDisabled
<1>4. CASE Disconnect \/ RequestAudioSuspend \/ SendAvrcPassthrough
  <2>1. UNCHANGED <<pending_deinit, stack, enabled>>
    BY <1>4, Zenon
    DEF Disconnect, RequestAudioSuspend, SendAvrcPassthrough, btVars
  <2>2. QED
    BY <2>1
<1>5. CASE LoopTop
  BY <1>5 DEF LoopTop, CheckDeinitDeadline
<1>6. CASE HandleDisconnectedPending
  BY <1>6 DEF HandleDisconnectedPending
<1>7. CASE HandleConnected \/ HandleDisconnected \/ HandleAudioStarted
           \/ HandleAudioStopped \/ HandleCtConnected \/ HandleCtDisconnected
           \/ HandleTrackChanged \/ HandleNothingNew \/ DrainDone
  <2>1. UNCHANGED <<pending_deinit, stack, enabled>>
    BY <1>7, Zenon
    DEF HandleConnected, HandleDisconnected, HandleAudioStarted,
        HandleAudioStopped, HandleCtConnected, HandleCtDisconnected,
        HandleTrackChanged, HandleNothingNew, DrainDone, btVars
  <2>2. QED
    BY <2>1
<1>8. CASE BtStep /\ UNCHANGED <<coexVars, hubVars>>
  <2>1. UNCHANGED stack
    BY <1>8
    DEF BtStep, PeerConnects, ConnectSucceeds, ConnectFails, AudioStarts,
        AudioStops, LinkDrops, CtConnects, CtDisconnects, TrackChanges, Chat
  <2>2. QED
    BY <1>8, <2>1 DEF hubVars
<1>9. CASE UNCHANGED <<btVars, hubVars>>
  BY <1>9 DEF btVars, hubVars
<1>10. QED
  BY <1>1, <1>2, <1>3, <1>4, <1>5, <1>6, <1>7, <1>8, <1>9
  DEF Next, Command, Handle, WifiStep, vars

\* Unless somebody calls disable(), a phone can reach every enabled hub, after
\* any sequence of failed starts, lost events, disconnects and reboots.
THEOREM EnabledReachableCorrect == NeverDisabled /\ Spec => []EnabledReachable
<1>1. Init => StackInv
  BY DEF Init, HubRamInit, StackInv
<1>2. NeverDisabled /\ StackInv /\ [Next]_vars => NeverDisabled' /\ StackInv'
  BY StackPreserved DEF NeverDisabled
<1>3. StackInv /\ Reachable => EnabledReachable
  BY DEF StackInv, Reachable, EnabledReachable
<1>4. QED
  BY <1>1, <1>2, <1>3, ReachableCorrect, PTL DEF Spec

-----------------------------------------------------------------------------
(* The power-save mode.  A saved mode means that Wi-Fi has started, since  *)
(* only then does set_coex_preference_ find a mode to save and only then   *)
(* does restoring it have an effect; and that no high performance is       *)
(* requested or served, since then the driver's mode is not the user's.    *)

SavedInv ==
  /\ WifiPsRestorable
  /\ wifi_ps_saved => wifi_up /\ ~wifi_fast /\ ~high_performance
  /\ wifi_fast => wifi_up

WifiPsInv ==
  /\ SavedInv
  /\ wifi_ps_saved \/ coex_apply_at => SoftwareCoexistence

\* When a preference may be set, by loop() or by enable(), no request of the
\* hub's stands, and enable() makes none.
PreferAllowed ==
  /\ coex_apply_at => ~high_performance
  /\ PreferBtWhileDiscoverable /\ (~enabled \/ main_pc = "off")
       => ~high_performance /\ ~wifi_fast
  /\ PauseWifiSourcesOnConnect /\ wifi_paused => enabled /\ main_pc # "off"

LEMMA CoexKeepsSaved ==
  ASSUME CoexTypeOK, SavedInv, UNCHANGED wifiVars,
         \/ /\ PreferBt
            /\ ~wifi_fast /\ ~high_performance /\ ~high_performance'
         \/ PreferWifi
         \/ UNCHANGED psVars /\ (high_performance' => high_performance \/ ~wifi_ps_saved)
  PROVE  SavedInv'
<1> USE DEF SavedInv, WifiPsRestorable, CoexTypeOK, wifiVars
<1>1. CASE /\ PreferBt
           /\ ~wifi_fast /\ ~high_performance /\ ~high_performance'
  BY <1>1 DEF PreferBt, SetPs
<1>2. CASE PreferWifi
  BY <1>2 DEF PreferWifi, SetPs
<1>3. CASE UNCHANGED psVars /\ (high_performance' => high_performance \/ ~wifi_ps_saved)
  BY <1>3 DEF psVars
<1>4. QED
  BY <1>1, <1>2, <1>3

LEMMA EnableKeepsSaved ==
  ASSUME CoexTypeOK, SavedInv, PreferAllowed, UNCHANGED wifiVars,
         ~enabled \/ main_pc = "off", NEW peer, EnableCall(peer)
  PROVE  SavedInv'
<1>1. UNCHANGED pauseVars
  BY DEF EnableCall, EnableSucceeds, EnableFails, PreferAllowed, ApplyWifiPause,
         CoexTypeOK, pauseVars
<1>2. \/ PreferBt /\ PreferBtWhileDiscoverable
      \/ UNCHANGED psVars
  BY DEF EnableCall, EnableSucceeds, EnableFails, SetCoexPreferenceIf,
         SetCoexPreference, psVars
<1>3. QED
  BY <1>1, <1>2, CoexKeepsSaved DEF PreferAllowed, pauseVars

LEMMA EveryStepKeepsSaved ==
  ASSUME TypeOK, WifiPsInv, PreferAllowed, [Next]_vars
  PROVE  SavedInv'
<1>0. CoexTypeOK /\ SavedInv
  BY DEF TypeOK, WifiPsInv
<1>1. CASE Setup \/ Enable \/ RestartDiscovery
  <2>1. UNCHANGED wifiVars
    BY <1>1 DEF Setup, Enable, RestartDiscovery, Calls
  <2>2. CASE UNCHANGED <<psVars, pauseVars>>
    BY <1>0, <2>1, <2>2, CoexKeepsSaved DEF pauseVars
  <2>3. CASE ~UNCHANGED <<psVars, pauseVars>>
    <3>1. /\ EnableCall(last_peer) \/ EnableCall(saved_peer)
          /\ ~enabled \/ main_pc = "off"
      BY <1>1, <2>3 DEF Setup, Enable, RestartDiscovery
    <3>2. QED
      BY <1>0, <2>1, <3>1, EnableKeepsSaved
  <2>4. QED
    BY <2>2, <2>3
<1>2. CASE DisableConnected \/ DisableUnconnected \/ Disconnect
           \/ HandleDisconnected \/ HandleAudioStopped
  <2>1. UNCHANGED wifiVars
    BY <1>2
    DEF DisableConnected, DisableUnconnected, DisableCommon, Disconnect, Calls,
        HandleDisconnected, HandleAudioStopped, Dequeue
  <2>2. \/ SetCoexPreferenceIf(TRUE, FALSE)
        \/ SetCoexPreferenceIf(PreferBtWhileStreaming, FALSE) /\ UNCHANGED pauseVars
    BY <1>2
    DEF DisableConnected, DisableUnconnected, DisableCommon, Disconnect,
        HandleDisconnected, HandleAudioStopped
  <2>3. \/ PreferWifi
        \/ UNCHANGED psVars /\ (~SoftwareCoexistence \/ UNCHANGED pauseVars)
    BY <2>2 DEF SetCoexPreferenceIf, SetCoexPreference
  <2>4. \/ PreferWifi
        \/ /\ UNCHANGED psVars
           /\ high_performance' => high_performance \/ ~wifi_ps_saved
    BY <2>3 DEF WifiPsInv, pauseVars
  <2>5. QED
    BY <1>0, <2>1, <2>4, CoexKeepsSaved
<1>3. CASE LoopTop
  <2>1. /\ UNCHANGED <<wifiVars, pauseVars>>
        /\ ~WifiLoopDue
        /\ UNCHANGED psVars \/ (coex_apply_at /\ PreferBt)
    BY <1>3 DEF LoopTop, CheckCoex, SetCoexPreference
  <2>2. UNCHANGED high_performance
    BY <2>1 DEF pauseVars
  <2>3. CASE UNCHANGED psVars
    BY <1>0, <2>1, <2>2, <2>3, CoexKeepsSaved
  <2>4. CASE coex_apply_at /\ PreferBt
    <3>1. ~high_performance /\ ~wifi_fast
      BY <1>0, <2>1, <2>4 DEF PreferAllowed, WifiLoopDue, SavedInv, CoexTypeOK
    <3>2. QED
      BY <1>0, <2>1, <2>2, <2>4, <3>1, CoexKeepsSaved
  <2>5. QED
    BY <2>1, <2>3, <2>4
<1>4. CASE HandleConnected
  <2>1. UNCHANGED <<wifiVars, psVars>> /\ (high_performance' => high_performance)
    BY <1>4 DEF HandleConnected, Dequeue, ApplyWifiPause, pauseVars
  <2>2. QED
    BY <1>0, <2>1, CoexKeepsSaved
<1>5. CASE RequestAudioSuspend \/ SendAvrcPassthrough \/ DrainDone
           \/ HandleDisconnectedPending \/ HandleAudioStarted \/ HandleCtConnected
           \/ HandleCtDisconnected \/ HandleTrackChanged \/ HandleNothingNew
           \/ UNCHANGED coexVars
  <2>1. UNCHANGED <<wifiVars, psVars, pauseVars>>
    BY <1>5, Zenon
    DEF RequestAudioSuspend, SendAvrcPassthrough, Calls, DrainDone,
        HandleDisconnectedPending, HandleAudioStarted, HandleCtConnected,
        HandleCtDisconnected, HandleTrackChanged, HandleNothingNew, Dequeue,
        coexVars
  <2>2. QED
    BY <1>0, <2>1, CoexKeepsSaved DEF pauseVars
<1>6. CASE PanicReboot \/ PowerCut
  BY <1>6 DEF PanicReboot, PowerCut, Reset, CoexReset, SavedInv, WifiPsRestorable
<1>7. CASE WifiStarts
  BY <1>0, <1>7 DEF WifiStarts, psVars, pauseVars, SavedInv, WifiPsRestorable
<1>8. CASE WifiLoop
  BY <1>0, <1>8
  DEF WifiLoop, WifiLoopDue, pauseVars, SavedInv, WifiPsRestorable, CoexTypeOK
<1>9. QED
  BY <1>1, <1>2, <1>3, <1>4, <1>5, <1>6, <1>7, <1>8
  DEF Next, Command, Handle, WifiStep, vars

LEMMA OnlySoftware ==
  ASSUME WifiPsInv, [Next]_vars
  PROVE  wifi_ps_saved' \/ coex_apply_at' => SoftwareCoexistence
<1>0. wifi_ps_saved \/ coex_apply_at => SoftwareCoexistence
  BY DEF WifiPsInv
<1>s. \A wanted, bt : SetCoexPreferenceIf(wanted, bt) =>
        (wifi_ps_saved' => wifi_ps_saved \/ SoftwareCoexistence)
  BY Zenon DEF SetCoexPreferenceIf, psVars
<1>1. CASE Setup \/ Enable \/ RestartDiscovery
  <2>1. UNCHANGED coex_apply_at
    BY <1>1 DEF Setup, Enable, RestartDiscovery
  <2>2. wifi_ps_saved' => wifi_ps_saved \/ SoftwareCoexistence
    BY <1>1, <1>s, Zenon
    DEF Setup, Enable, RestartDiscovery, EnableCall, EnableSucceeds, EnableFails,
        psVars
  <2>3. QED
    BY <1>0, <2>1, <2>2
<1>2. CASE DisableConnected \/ DisableUnconnected \/ Disconnect
           \/ HandleDisconnected \/ HandleAudioStopped
  <2>1. coex_apply_at' => coex_apply_at
    BY <1>2, Zenon
    DEF DisableConnected, DisableUnconnected, DisableCommon, Disconnect,
        HandleDisconnected, HandleAudioStopped, DisarmCoex
  <2>2. wifi_ps_saved' => wifi_ps_saved \/ SoftwareCoexistence
    BY <1>2, <1>s, Zenon
    DEF DisableConnected, DisableUnconnected, DisableCommon, Disconnect,
        HandleDisconnected, HandleAudioStopped
  <2>3. QED
    BY <1>0, <2>1, <2>2
<1>3. CASE LoopTop
  <2>1. \/ UNCHANGED <<wifi_ps_saved, coex_apply_at>>
        \/ coex_apply_at
    BY <1>3, Zenon DEF LoopTop, CheckCoex, psVars
  <2>2. QED
    BY <1>0, <2>1
<1>4. CASE HandleDisconnectedPending \/ HandleAudioStarted
  <2>1. UNCHANGED wifi_ps_saved
    BY <1>4 DEF HandleDisconnectedPending, HandleAudioStarted, psVars
  <2>2. coex_apply_at' => coex_apply_at \/ SoftwareCoexistence
    BY <1>4, Zenon DEF HandleDisconnectedPending, HandleAudioStarted, DisarmCoex
  <2>3. QED
    BY <1>0, <2>1, <2>2
<1>5. CASE HandleConnected \/ RequestAudioSuspend \/ SendAvrcPassthrough
           \/ HandleCtConnected \/ HandleCtDisconnected \/ HandleTrackChanged
           \/ HandleNothingNew \/ DrainDone
  <2>1. UNCHANGED <<wifi_ps_saved, coex_apply_at>>
    BY <1>5, Zenon
    DEF HandleConnected, RequestAudioSuspend, SendAvrcPassthrough, DrainDone,
        HandleCtConnected, HandleCtDisconnected, HandleTrackChanged,
        HandleNothingNew, psVars, coexVars
  <2>2. QED
    BY <1>0, <2>1
<1>6. CASE PanicReboot \/ PowerCut
  BY <1>6 DEF PanicReboot, PowerCut, Reset, CoexReset, HubRamReset
<1>7. CASE UNCHANGED hubVars /\ (UNCHANGED coexVars \/ WifiStarts \/ WifiLoop)
  BY <1>0, <1>7 DEF WifiStarts, WifiLoop, hubVars, coexVars, psVars
<1>8. QED
  BY <1>1, <1>2, <1>3, <1>4, <1>5, <1>6, <1>7
  DEF Next, Command, Handle, WifiStep, vars

\* Without pause_wifi_sources_on_connect the hub requests nothing.
NothingRequested ==
  /\ ~PauseWifiSourcesOnConnect
  /\ ~high_performance /\ ~wifi_fast

LEMMA NothingRequestedPreserved ==
  ASSUME NothingRequested, [Next]_vars
  PROVE  NothingRequested'
<1>p. \A pause : ApplyWifiPause(pause) => UNCHANGED pauseVars
  BY DEF ApplyWifiPause, NothingRequested
<1>1. CASE PanicReboot \/ PowerCut
  BY <1>1 DEF PanicReboot, PowerCut, Reset, CoexReset, NothingRequested
<1>2. CASE WifiStep
  BY <1>2
  DEF WifiStep, WifiStarts, WifiLoop, WifiLoopDue, NothingRequested, pauseVars
<1>3. CASE Setup \/ Command \/ LoopTop \/ Handle \/ DrainDone \/ UNCHANGED coexVars
  <2> DEFINE Idle == UNCHANGED <<pauseVars, wifiVars>>
  <2>1. Setup \/ Enable \/ RestartDiscovery => Idle
    BY <1>p, Zenon
    DEF Setup, Enable, RestartDiscovery, Calls, EnableCall, EnableSucceeds,
        EnableFails
  <2>2. DisableConnected \/ DisableUnconnected \/ Disconnect => Idle
    BY <1>p, Zenon
    DEF DisableConnected, DisableUnconnected, DisableCommon, Calls, Disconnect
  <2>3. HandleConnected \/ HandleDisconnected => Idle
    BY <1>p, Zenon DEF HandleConnected, HandleDisconnected, Dequeue
  <2>4. RequestAudioSuspend \/ SendAvrcPassthrough \/ LoopTop
          \/ HandleDisconnectedPending \/ HandleAudioStarted
          \/ HandleAudioStopped \/ HandleCtConnected \/ HandleCtDisconnected
          \/ HandleTrackChanged \/ HandleNothingNew \/ DrainDone
          \/ UNCHANGED coexVars
        => Idle
    BY Zenon
    DEF RequestAudioSuspend, SendAvrcPassthrough, Calls, LoopTop,
        HandleDisconnectedPending, HandleAudioStarted, HandleAudioStopped,
        HandleCtConnected, HandleCtDisconnected, HandleTrackChanged,
        HandleNothingNew, DrainDone, Dequeue, coexVars
  <2> HIDE DEF Idle
  <2>5. Idle
    BY <1>3, <2>1, <2>2, <2>3, <2>4 DEF Command, Handle
  <2>6. QED
    BY <2>5 DEF Idle, NothingRequested, pauseVars, wifiVars
<1>4. QED
  BY <1>1, <1>2, <1>3 DEF Next, vars

\* Without pause_wifi_sources_on_connect the configured power-save mode is never
\* lost, for every other coexistence option and every sequence of preferences,
\* events and resets.
THEOREM WifiPsCorrect ==
  ~PauseWifiSourcesOnConnect /\ Spec => []WifiPsRestorable
<1>1. ~PauseWifiSourcesOnConnect /\ Init => NothingRequested /\ WifiPsInv
  BY DEF Init, CoexInit, HubRamInit, NothingRequested, WifiPsInv, SavedInv,
         WifiPsRestorable
<1>2. NothingRequested /\ TypeOK /\ WifiPsInv /\ [Next]_vars
        => NothingRequested' /\ WifiPsInv'
  <2>1. NothingRequested => PreferAllowed
    BY DEF NothingRequested, PreferAllowed
  <2>2. QED
    BY <2>1, EveryStepKeepsSaved, OnlySoftware, NothingRequestedPreserved
    DEF WifiPsInv
<1>3. WifiPsInv => WifiPsRestorable
  BY DEF WifiPsInv, SavedInv
<1>4. QED
  BY <1>1, <1>2, <1>3, TypeCorrect, PTL DEF Spec

=============================================================================
