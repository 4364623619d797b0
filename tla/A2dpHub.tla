------------------------------ MODULE A2dpHub ------------------------------
(***************************************************************************)
(* The A2DP hub: class A2DP of components/a2dp.  One main loop owns all of *)
(* its state.  It runs the due timers at the top of loop() (LoopTop), then *)
(* one handler per record of the event queue until the queue is empty      *)
(* (Handle..., DrainDone); between two loops an automation may call        *)
(* enable(), disable(), disconnect()...  The Bluetooth task (BtStack) runs *)
(* between any two of these steps: it posts events, and moves the link     *)
(* under state the main loop has not updated yet.                          *)
(*                                                                         *)
(* Time: a deadline field is modelled by whether it is armed (the code's   *)
(* "# 0"); an armed deadline may or may not be due at a LoopTop.           *)
(* deinit_deadline_ is armed with pending_deinit_ and cleared with it, so  *)
(* pending_deinit stands for both.  pending_coex_prefer_bt_ is only ever   *)
(* set, together with coex_apply_at_.                                      *)
(***************************************************************************)
EXTENDS BtStack, Coexistence

CONSTANTS
  AutoStart, AutoReconnect,
  DiscoverableTimed,         \* discoverable_duration_ms_ > 0
  KeepDiscoverableAfterConnect,
  RECONNECT_MAX_ATTEMPTS,    \* 5 in the code
  AVRC_LABELS,               \* transaction labels (15 in the code)
  Commands,                  \* the calls automations and other tasks make
  InitMayFail,               \* may init_bt_ fail half way?
  SaveMayFail,               \* may the flash write of the peer fail?
  PowerLoss                  \* may the device lose power at any time?

AllCommands ==
  {"enable", "disable", "disconnect", "restart_discovery",
   "request_audio_suspend", "passthrough"}

ASSUME HubFlagsAssumption ==
  {AutoStart, AutoReconnect, DiscoverableTimed, KeepDiscoverableAfterConnect,
   InitMayFail, SaveMayFail, PowerLoss} \subseteq BOOLEAN
ASSUME AttemptsAssumption == RECONNECT_MAX_ATTEMPTS \in Nat \ {0}
ASSUME LabelsAssumption == AVRC_LABELS \in Nat \ {0}
ASSUME CommandsAssumption == Commands \subseteq AllCommands

VARIABLES
  main_pc,                \* "off" before setup(), "idle" between two loops,
                          \* "drain" while loop() empties the queue
  enabled, connected, audio_streaming, discoverable,
  pending_deinit,         \* disable() waits for DISCONNECTED
  reconnect_at,           \* armed?
  reconnect_attempts,
  resume_playback_on_reconnect,
  last_peer,              \* NoPeer iff ~has_last_peer_
  saved_peer,             \* the copy in flash
  audio_suspend_requested,
  avrcp_ct_connected, avrc_ct_tl,
  metadata_refresh_at,    \* armed?
  coex_apply_at,          \* armed?
  connection_sensor,      \* what connection_callback_ subscribers were told
  sink_streaming          \* A2DPSink::audio_streaming_, set by the callback

sessionVars == <<connected, audio_streaming, connection_sensor, sink_streaming>>
reconnectVars == <<reconnect_at, reconnect_attempts, resume_playback_on_reconnect>>
peerVars == <<last_peer, saved_peer>>
avrcpVars == <<avrcp_ct_connected, avrc_ct_tl, metadata_refresh_at>>
hubVars == <<main_pc, enabled, discoverable, pending_deinit, coex_apply_at,
             audio_suspend_requested,
             sessionVars, reconnectVars, peerVars, avrcpVars>>
vars == <<btVars, coexVars, hubVars>>

HubTypeOK ==
  /\ main_pc \in {"off", "idle", "drain"}
  /\ enabled \in BOOLEAN
  /\ connected \in BOOLEAN
  /\ audio_streaming \in BOOLEAN
  /\ discoverable \in BOOLEAN
  /\ pending_deinit \in BOOLEAN
  /\ reconnect_at \in BOOLEAN
  /\ reconnect_attempts \in Nat
  /\ resume_playback_on_reconnect \in BOOLEAN
  /\ last_peer \in Peers \cup {NoPeer}
  /\ saved_peer \in Peers \cup {NoPeer}
  /\ audio_suspend_requested \in BOOLEAN
  /\ avrcp_ct_connected \in BOOLEAN
  /\ avrc_ct_tl \in 0 .. AVRC_LABELS - 1
  /\ metadata_refresh_at \in BOOLEAN
  /\ coex_apply_at \in BOOLEAN
  /\ connection_sensor \in BOOLEAN
  /\ sink_streaming \in BOOLEAN

HubRamInit ==
  /\ enabled = FALSE
  /\ connected = FALSE
  /\ audio_streaming = FALSE
  /\ discoverable = FALSE
  /\ pending_deinit = FALSE
  /\ reconnect_at = FALSE
  /\ reconnect_attempts = 0
  /\ resume_playback_on_reconnect = FALSE
  /\ last_peer = NoPeer
  /\ audio_suspend_requested = FALSE
  /\ avrcp_ct_connected = FALSE
  /\ avrc_ct_tl = 0
  /\ metadata_refresh_at = FALSE
  /\ coex_apply_at = FALSE
  /\ connection_sensor = FALSE
  /\ sink_streaming = FALSE

Init ==
  /\ main_pc = "off"
  /\ saved_peer = NoPeer
  /\ HubRamInit
  /\ BtInit
  /\ CoexInit

-----------------------------------------------------------------------------
(* What handlers and commands share; each operator sets its own variables. *)

\* Faulty variant: the deferred disable() tells nobody.
NotifyConnectionMissed(up) ==
  connection_sensor' = IF pending_deinit THEN connection_sensor ELSE up

NotifyConnection(up) == connection_sensor' = up

\* Faulty variant: only a start is passed on.
NotifyAudioStart(streaming) == sink_streaming' = (sink_streaming \/ streaming)

NotifyAudioState(streaming) == sink_streaming' = streaming

\* Faulty variant: the end of the link does not end the stream.
EndSessionOnly == connected' = FALSE /\ UNCHANGED audio_streaming

EndSession == connected' = FALSE /\ audio_streaming' = FALSE

\* Faulty variant: the deferred preference survives the end of the stream.
DisarmCoexNever == UNCHANGED coex_apply_at

DisarmCoex == coex_apply_at' = FALSE

\* Faulty variant: the result of esp_bt_gap_set_scan_mode is not looked at.
StartDiscoveryUnchecked ==
  /\ SetScanMode("discoverable")
  /\ discoverable' = TRUE

StartDiscovery ==
  /\ SetScanMode("discoverable")
  /\ discoverable' = (discoverable \/ stack = "on")

StopDiscovery ==
  IF discoverable
    THEN SetScanMode("connectable") /\ discoverable' = FALSE
    ELSE UNCHANGED <<scan, discoverable>>

SavePeer(p) ==
  /\ last_peer' = p
  /\ \/ saved_peer' = p
     \/ SaveMayFail /\ UNCHANGED saved_peer

\* Faulty variant: the label does not wrap.
SendAvrcpUnwrapped(n) ==
  avrc_ct_tl' = IF avrcp_ct_connected THEN avrc_ct_tl + n ELSE avrc_ct_tl

\* send_avrc_passthrough and request_avrcp_...: n commands with n labels,
\* none at all without the control channel.
SendAvrcp(n) ==
  avrc_ct_tl' =
    IF avrcp_ct_connected THEN (avrc_ct_tl + n) % AVRC_LABELS ELSE avrc_ct_tl

\* Faulty variant: the notification is not renewed.
RequestNothing == UNCHANGED ct_registered

RequestTrackChangeNotification ==
  IF avrcp_ct_connected THEN RegisterTrackChange ELSE UNCHANGED ct_registered

ArmReconnect == reconnect_attempts' = 0 /\ reconnect_at' = TRUE

\* Faulty variant: the counter is reset and the deadline forgotten.
DisarmCounter == reconnect_attempts' = 0 /\ UNCHANGED reconnect_at

DisarmReconnect == reconnect_attempts' = 0 /\ reconnect_at' = FALSE

\* Faulty variants: one attempt too many; attempts that are not counted.
ReconnectOnceMore ==
  /\ reconnect_attempts' = reconnect_attempts + 1
  /\ SinkConnect(last_peer)
  /\ reconnect_at' = (reconnect_attempts' <= RECONNECT_MAX_ATTEMPTS)
  /\ UNCHANGED resume_playback_on_reconnect

ReconnectUncounted ==
  /\ SinkConnect(last_peer)
  /\ reconnect_at' = (reconnect_attempts < RECONNECT_MAX_ATTEMPTS)
  /\ UNCHANGED <<reconnect_attempts, resume_playback_on_reconnect>>

ReconnectToLastPeer ==
  /\ reconnect_attempts' = reconnect_attempts + 1
  /\ SinkConnect(last_peer)
  /\ reconnect_at' = (reconnect_attempts' < RECONNECT_MAX_ATTEMPTS)
  /\ UNCHANGED resume_playback_on_reconnect

\* deinit_bt_: the event queue is not flushed.
DeinitBt ==
  /\ discoverable' = FALSE
  /\ avrcp_ct_connected' = FALSE
  /\ StackDisable

FinishDisable == pending_deinit' = FALSE /\ DeinitBt

\* Faulty variant: enabled_ is set before init_bt_ has succeeded.
EnableFailsLate ==
  /\ InitMayFail
  /\ stack' \in IF stack = "on" THEN {"on"} ELSE {stack, "half"}
  /\ enabled' = TRUE
  /\ UNCHANGED <<reconnect_at, reconnect_attempts, scan, discoverable, psVars,
                 pauseVars>>

\* enable() after init_bt_ succeeded; peer is last_peer_bda_.
EnableSucceeds(peer) ==
  /\ stack' = "on"
  /\ enabled' = TRUE
  /\ IF AutoReconnect /\ peer # NoPeer
       THEN ArmReconnect
       ELSE UNCHANGED <<reconnect_at, reconnect_attempts>>
  /\ scan' = "discoverable"
  /\ discoverable' = TRUE
  /\ SetCoexPreferenceIf(PreferBtWhileDiscoverable, TRUE)
  /\ ApplyWifiPause(FALSE)

\* init_bt_ stops at the first call that fails and undoes nothing.
EnableFails ==
  /\ InitMayFail
  /\ stack' \in IF stack = "on" THEN {"on"} ELSE {stack, "half"}
  /\ UNCHANGED <<enabled, reconnect_at, reconnect_attempts, scan, discoverable,
                 psVars, pauseVars>>

EnableCall(peer) == EnableSucceeds(peer) \/ EnableFails

-----------------------------------------------------------------------------
(* setup() and reset.                                                      *)

Setup ==
  /\ main_pc = "off"
  /\ main_pc' = "idle"
  /\ last_peer' = saved_peer
  /\ IF AutoStart
       THEN EnableCall(saved_peer)
       ELSE UNCHANGED <<stack, enabled, reconnect_at, reconnect_attempts, scan,
                        discoverable, psVars, pauseVars>>
  /\ UNCHANGED <<linkVars, ctVars, event_queue, wifiVars, pending_deinit,
                 coex_apply_at, audio_suspend_requested, sessionVars,
                 resume_playback_on_reconnect, saved_peer, avrcpVars>>

HubRamReset ==
  /\ enabled' = FALSE
  /\ EndSession
  /\ discoverable' = FALSE
  /\ pending_deinit' = FALSE
  /\ reconnect_at' = FALSE
  /\ reconnect_attempts' = 0
  /\ resume_playback_on_reconnect' = FALSE
  /\ last_peer' = NoPeer
  /\ audio_suspend_requested' = FALSE
  /\ avrcp_ct_connected' = FALSE
  /\ avrc_ct_tl' = 0
  /\ metadata_refresh_at' = FALSE
  /\ coex_apply_at' = FALSE
  /\ connection_sensor' = FALSE
  /\ sink_streaming' = FALSE

\* A panic reboots the chip; so does a power cut.  RAM is lost.
Reset ==
  /\ main_pc # "off"
  /\ main_pc' = "off"
  /\ HubRamReset
  /\ StackReset
  /\ CoexReset
  /\ UNCHANGED saved_peer

PanicReboot == stack = "asserted" /\ Reset
PowerCut == PowerLoss /\ Reset

-----------------------------------------------------------------------------
(* The commands, called between two loops on the main task.                *)

Calls(command) ==
  /\ command \in Commands
  /\ main_pc = "idle" /\ stack # "asserted"
  /\ UNCHANGED <<main_pc, event_queue, wifiVars>>

Enable ==
  /\ Calls("enable")
  /\ ~enabled
  /\ EnableCall(last_peer)
  /\ UNCHANGED <<linkVars, ctVars, pending_deinit, coex_apply_at,
                 audio_suspend_requested, sessionVars,
                 resume_playback_on_reconnect, peerVars, avrcpVars>>

\* What disable() does before it looks at connected_.
DisableCommon ==
  /\ Calls("disable")
  /\ enabled /\ ~pending_deinit
  /\ enabled' = FALSE
  /\ DisarmReconnect
  /\ resume_playback_on_reconnect' = FALSE
  /\ DisarmCoex
  /\ SetCoexPreferenceIf(TRUE, FALSE)
  /\ metadata_refresh_at' = FALSE
  /\ ApplyWifiPause(FALSE)
  /\ UNCHANGED <<audio_suspend_requested, sessionVars, peerVars, avrc_ct_tl>>

DisableConnected ==
  /\ connected
  /\ DisableCommon
  /\ StopDiscovery
  /\ pending_deinit' = TRUE
  /\ SinkDisconnect(last_peer)
  /\ UNCHANGED <<stack, suspending, ctVars, avrcp_ct_connected>>

DisableUnconnected ==
  /\ ~connected
  /\ DisableCommon
  /\ FinishDisable

\* disconnect() with its default argument, as the automation calls it.
Disconnect ==
  /\ Calls("disconnect")
  /\ enabled /\ connected
  /\ SinkDisconnect(last_peer)
  /\ resume_playback_on_reconnect' = FALSE
  /\ DisarmReconnect
  /\ EndSession
  /\ audio_suspend_requested' = FALSE
  /\ SetCoexPreferenceIf(TRUE, FALSE)
  /\ NotifyConnection(FALSE)
  /\ NotifyAudioState(FALSE)
  /\ StartDiscovery
  /\ UNCHANGED <<stack, suspending, ctVars, pauseVars, enabled,
                 pending_deinit, coex_apply_at, peerVars, avrcpVars>>

RestartDiscovery ==
  /\ Calls("restart_discovery")
  /\ \/ ~enabled /\ EnableCall(last_peer)
     \/ /\ enabled /\ ~connected
        /\ StartDiscovery
        /\ UNCHANGED <<stack, enabled, reconnect_at, reconnect_attempts,
                       psVars, pauseVars>>
  /\ UNCHANGED <<linkVars, ctVars, pending_deinit, coex_apply_at,
                 audio_suspend_requested, sessionVars,
                 resume_playback_on_reconnect, peerVars, avrcpVars>>

\* The reader task calls it too, so it may come at any time.
RequestAudioSuspend ==
  /\ "request_audio_suspend" \in Commands
  /\ main_pc # "off" /\ stack # "asserted"
  /\ audio_suspend_requested' = TRUE
  /\ UNCHANGED <<btVars, coexVars, main_pc, enabled, discoverable,
                 pending_deinit, coex_apply_at, sessionVars, reconnectVars,
                 peerVars, avrcpVars>>

\* A transport button: press and release, two labels.
SendAvrcPassthrough ==
  /\ Calls("passthrough")
  /\ avrcp_ct_connected
  /\ SendAvrcp(2)
  /\ \E refresh_metadata \in BOOLEAN :
       metadata_refresh_at' = (metadata_refresh_at \/ refresh_metadata)
  /\ UNCHANGED <<stack, scan, linkVars, ctVars, psVars, pauseVars, enabled,
                 discoverable, pending_deinit, coex_apply_at,
                 audio_suspend_requested, sessionVars, reconnectVars, peerVars,
                 avrcp_ct_connected>>

-----------------------------------------------------------------------------
(* The top of loop(): each check may find its deadline due or not yet.     *)

\* Faulty variant: disable() has no deadline.
CheckNoDeadline == UNCHANGED pending_deinit

CheckDeinitDeadline ==
  \/ UNCHANGED pending_deinit
  \/ pending_deinit /\ pending_deinit' = FALSE

CheckSuspend ==
  /\ audio_suspend_requested' = FALSE
  /\ IF audio_suspend_requested /\ enabled /\ connected /\ audio_streaming
       THEN MediaCtrlSuspend ELSE UNCHANGED suspending

CheckDiscoverable ==
  \/ UNCHANGED <<scan, discoverable>>
  \/ discoverable /\ DiscoverableTimed /\ StopDiscovery

CheckReconnect ==
  \/ UNCHANGED <<reconnectVars, link, link_peer, stream>>
  \/ enabled /\ ~connected /\ reconnect_at /\ ReconnectToLastPeer

CheckMetadataRefresh ==
  \/ UNCHANGED <<metadata_refresh_at, avrc_ct_tl, ct_registered>>
  \/ /\ metadata_refresh_at
     /\ metadata_refresh_at' = FALSE
     /\ SendAvrcp(2)
     /\ RequestTrackChangeNotification

CheckCoex ==
  \/ UNCHANGED <<coex_apply_at, psVars>>
  \/ /\ coex_apply_at
     /\ coex_apply_at' = FALSE
     /\ SetCoexPreference(TRUE)

\* A request for high performance made in the last loop() has been served when
\* the next begins: the Wi-Fi component's loop() comes in between.  (A command
\* may come after that one and make a request too, but only disable(), or an
\* enable() after it, when it lifts the pause; here it is then served at once.)
LoopTop ==
  /\ main_pc = "idle" /\ stack # "asserted"
  /\ ~WifiLoopDue
  /\ main_pc' = "drain"
  /\ CheckDeinitDeadline
  /\ CheckSuspend
  /\ CheckDiscoverable
  /\ CheckReconnect
  /\ CheckMetadataRefresh
  /\ CheckCoex
  /\ UNCHANGED <<stack, ct_link, event_queue, wifiVars, pauseVars, enabled,
                 sessionVars, peerVars, avrcp_ct_connected>>

-----------------------------------------------------------------------------
(* The handlers of the queue's records.                                    *)

Dequeue(type) ==
  /\ main_pc = "drain" /\ stack # "asserted"
  /\ event_queue # << >>
  /\ Head(event_queue).type = type
  /\ event_queue' = Tail(event_queue)
  /\ UNCHANGED <<main_pc, wifiVars>>

HandleConnected ==
  /\ Dequeue("CONNECTED")
  /\ ~connected
  /\ connected' = TRUE
  /\ DisarmReconnect
  /\ SavePeer(Head(event_queue).remote_bda)
  /\ IF KeepDiscoverableAfterConnect
       THEN UNCHANGED <<scan, discoverable>> ELSE StopDiscovery
  /\ NotifyConnection(TRUE)
  /\ ApplyWifiPause(TRUE)
  /\ UNCHANGED <<stack, linkVars, ctVars, psVars, enabled, pending_deinit,
                 coex_apply_at, audio_suspend_requested, audio_streaming,
                 sink_streaming, resume_playback_on_reconnect, avrcpVars>>

\* DISCONNECTED while disable() waits for it.
HandleDisconnectedPending ==
  /\ Dequeue("DISCONNECTED")
  /\ pending_deinit
  /\ EndSession
  /\ DisarmCoex
  /\ metadata_refresh_at' = FALSE
  /\ NotifyConnection(FALSE)
  /\ NotifyAudioState(FALSE)
  /\ FinishDisable
  /\ UNCHANGED <<psVars, pauseVars, enabled, audio_suspend_requested,
                 reconnectVars, peerVars, avrc_ct_tl>>

\* An unexpected loss in mid-playback is worth a reconnect; an idle or a
\* graceful disconnect is not.
HandleDisconnected ==
  /\ Dequeue("DISCONNECTED")
  /\ ~pending_deinit /\ connected
  /\ EndSession
  /\ audio_suspend_requested' = FALSE
  /\ DisarmCoex
  /\ SetCoexPreferenceIf(TRUE, FALSE)
  /\ metadata_refresh_at' = FALSE
  /\ ApplyWifiPause(FALSE)
  /\ NotifyConnection(FALSE)
  /\ NotifyAudioState(FALSE)
  /\ IF /\ Head(event_queue).abnormal /\ audio_streaming
        /\ enabled /\ AutoReconnect /\ last_peer # NoPeer
       THEN ArmReconnect /\ resume_playback_on_reconnect' = TRUE
       ELSE UNCHANGED reconnectVars
  /\ StartDiscovery
  /\ UNCHANGED <<stack, linkVars, ctVars, enabled, pending_deinit, peerVars,
                 avrcp_ct_connected, avrc_ct_tl>>

HandleAudioStarted ==
  /\ Dequeue("AUDIO_STARTED")
  /\ ~audio_streaming
  /\ audio_streaming' = TRUE
  /\ resume_playback_on_reconnect' = FALSE
  /\ coex_apply_at' =
       (coex_apply_at \/ (SoftwareCoexistence /\ PreferBtWhileStreaming))
  /\ metadata_refresh_at' = (metadata_refresh_at \/ Avrcp)
  /\ NotifyAudioState(TRUE)
  /\ UNCHANGED <<stack, scan, linkVars, ctVars, psVars, pauseVars, enabled,
                 discoverable, pending_deinit, audio_suspend_requested,
                 connected, connection_sensor, reconnect_at,
                 reconnect_attempts, peerVars, avrcp_ct_connected, avrc_ct_tl>>

HandleAudioStopped ==
  /\ Dequeue("AUDIO_STOPPED")
  /\ audio_streaming
  /\ audio_streaming' = FALSE
  /\ audio_suspend_requested' = FALSE
  /\ DisarmCoex
  /\ SetCoexPreferenceIf(PreferBtWhileStreaming, FALSE)
  /\ metadata_refresh_at' = FALSE
  /\ NotifyAudioState(FALSE)
  /\ UNCHANGED <<stack, scan, linkVars, ctVars, pauseVars, enabled,
                 discoverable, pending_deinit, connected, connection_sensor,
                 reconnectVars, peerVars, avrcp_ct_connected, avrc_ct_tl>>

HandleCtConnected ==
  /\ Dequeue("AVRCP_CT_CONNECTED")
  /\ avrcp_ct_connected' = TRUE
  /\ metadata_refresh_at' = TRUE
  /\ avrc_ct_tl' =
       IF resume_playback_on_reconnect /\ ~audio_streaming
         THEN (avrc_ct_tl + 2) % AVRC_LABELS   \* PLAY, pressed and released
         ELSE avrc_ct_tl
  /\ resume_playback_on_reconnect' = FALSE
  /\ UNCHANGED <<stack, scan, linkVars, ctVars, psVars, pauseVars, enabled,
                 discoverable, pending_deinit, coex_apply_at,
                 audio_suspend_requested, sessionVars, reconnect_at,
                 reconnect_attempts, peerVars>>

HandleCtDisconnected ==
  /\ Dequeue("AVRCP_CT_DISCONNECTED")
  /\ avrcp_ct_connected' = FALSE
  /\ UNCHANGED <<stack, scan, linkVars, ctVars, psVars, pauseVars, enabled,
                 discoverable, pending_deinit, coex_apply_at,
                 audio_suspend_requested, sessionVars, reconnectVars, peerVars,
                 avrc_ct_tl, metadata_refresh_at>>

HandleTrackChanged ==
  /\ Dequeue("AVRCP_TRACK_CHANGED")
  /\ metadata_refresh_at' = TRUE
  /\ SendAvrcp(1)
  /\ RequestTrackChangeNotification
  /\ UNCHANGED <<stack, scan, linkVars, ct_link, psVars, pauseVars, enabled,
                 discoverable, pending_deinit, coex_apply_at,
                 audio_suspend_requested, sessionVars, reconnectVars, peerVars,
                 avrcp_ct_connected>>

\* Records that change nothing: what the hub already knows, and what it only
\* forwards to callbacks.
HandleNothingNew ==
  /\ \/ Dequeue("CONNECTED") /\ connected
     \/ Dequeue("DISCONNECTED") /\ ~pending_deinit /\ ~connected
     \/ Dequeue("AUDIO_STARTED") /\ audio_streaming
     \/ Dequeue("AUDIO_STOPPED") /\ ~audio_streaming
     \/ Dequeue("INFO")
  /\ UNCHANGED <<stack, scan, linkVars, ctVars, psVars, pauseVars, enabled,
                 discoverable, pending_deinit, coex_apply_at,
                 audio_suspend_requested, sessionVars, reconnectVars, peerVars,
                 avrcpVars>>

Handle ==
  \/ HandleConnected
  \/ HandleDisconnectedPending
  \/ HandleDisconnected
  \/ HandleAudioStarted
  \/ HandleAudioStopped
  \/ HandleCtConnected
  \/ HandleCtDisconnected
  \/ HandleTrackChanged
  \/ HandleNothingNew

DrainDone ==
  /\ main_pc = "drain" /\ stack # "asserted"
  /\ event_queue = << >>
  /\ main_pc' = "idle"
  /\ UNCHANGED <<btVars, coexVars, enabled, discoverable, pending_deinit,
                 coex_apply_at, audio_suspend_requested, sessionVars,
                 reconnectVars, peerVars, avrcpVars>>

-----------------------------------------------------------------------------
Command ==
  \/ Enable
  \/ DisableConnected
  \/ DisableUnconnected
  \/ Disconnect
  \/ RestartDiscovery
  \/ RequestAudioSuspend
  \/ SendAvrcPassthrough

WifiStep ==
  /\ \/ (SoftwareCoexistence \/ PauseWifiSourcesOnConnect) /\ WifiStarts
     \/ main_pc = "idle" /\ stack # "asserted" /\ WifiLoop
  /\ UNCHANGED <<btVars, hubVars>>

Next ==
  \/ Setup
  \/ PanicReboot
  \/ PowerCut
  \/ Command
  \/ LoopTop
  \/ Handle
  \/ DrainDone
  \/ BtStep /\ UNCHANGED <<coexVars, hubVars>>
  \/ WifiStep

Spec == Init /\ [][Next]_vars

\* The main task keeps running loop(), its own and the Wi-Fi component's, and
\* boots after a reset.  SF for the two deadlines: millis() passes them while
\* loop() comes round again and again, so a deadline that stays armed is
\* eventually found due.
DeadlineFound == LoopTop /\ pending_deinit /\ ~pending_deinit'
ReconnectFound == LoopTop /\ reconnect_attempts' # reconnect_attempts

Fairness ==
  /\ WF_vars(Setup)
  /\ WF_vars(PanicReboot)
  /\ WF_vars(LoopTop)
  /\ WF_vars(WifiStep /\ WifiLoop)
  /\ WF_vars(Handle)
  /\ WF_vars(DrainDone)
  /\ SF_vars(DeadlineFound)
  /\ SF_vars(ReconnectFound)

FairSpec == Spec /\ Fairness
-----------------------------------------------------------------------------
(* Safety.                                                                 *)

TypeOK == BtTypeOK /\ CoexTypeOK /\ HubTypeOK

\* What the connection and audio callbacks last said is what the hub holds:
\* none of the paths that change connected_ or audio_streaming_ (handlers,
\* disconnect(), the deferred disable(), a reboot) forgets its subscribers.
SubscribersAgree ==
  /\ connection_sensor = connected
  /\ sink_streaming = audio_streaming

\* A reconnect is only ever scheduled to a known peer, with attempts left:
\* the attempt counter is reset by enable(), by CONNECTED, by a new loss and
\* by the commands, and counted by the retry that re-arms the deadline.
ReconnectArmedSafely ==
  reconnect_at => /\ reconnect_attempts < RECONNECT_MAX_ATTEMPTS
                  /\ last_peer # NoPeer

\* Whatever sequence of commands, failed starts, teardowns and lost events led
\* here: discoverable_ tells the scan mode truthfully; while the stack of an
\* enabled hub runs a phone can reach it, and without a discoverable_duration it
\* is visible when nobody is connected.
Reachable ==
  /\ enabled /\ stack = "on" => scan # "off"
  /\ discoverable <=> scan = "discoverable"
  /\ enabled /\ stack = "on" /\ ~connected /\ ~DiscoverableTimed => discoverable

\* Without disable(): the stack of an enabled hub does run, and so a phone can
\* reach it, through failed starts, restart_discovery() and resets.  (With
\* disable() it may not: enable() looks only at enabled_, a2dp.cpp:468, and a
\* teardown that was pending then switches the stack off under it.)
EnabledReachable ==
  enabled => /\ stack = "on" /\ scan # "off"
             /\ ~connected /\ ~DiscoverableTimed => discoverable

\* The power-save mode the user configured is never lost: while Bluetooth has
\* switched power save off, the saved mode is the configured one; otherwise the
\* driver has it, or the Wi-Fi component has it off for a request it serves.  So
\* the end of the BT preference restores it, however often and in whatever order
\* BT and Wi-Fi preference are set, and whether or not Wi-Fi had been started.
\* (With pause_wifi_sources_on_connect this takes more: a preference set while
\* the hub's own request is served would save PS_NONE: a2dp.cpp:823, 787-789.)
WifiPsRestorable ==
  IF wifi_ps_saved
    THEN saved_wifi_ps = PsConfigured /\ wifi_ps = PsNone
    ELSE wifi_ps = IF wifi_fast THEN PsNone ELSE PsConfigured

\* Without disconnect() and disable(): the radio is handed to Bluetooth, or
\* about to be, only while audio streams, and the Wi-Fi sources are paused
\* only while a phone is connected.
CoexOnlyWhileStreaming ==
  /\ prefer_bt \/ coex_apply_at => audio_streaming
  /\ wifi_paused => connected

\* Streaming without a connection is impossible for the hub as well as for
\* the stack, as long as no event is lost and the link is not torn down by a
\* command: the order of CONNECTED, AUDIO_STARTED and DISCONNECTED in the
\* queue is the order in which they happened.
StreamingOnlyConnected == audio_streaming => connected

\* While audio streams and the queue is empty, the hub follows the tracks:
\* a TRACK_CHANGE notification is registered, or a refresh that registers one
\* is scheduled.  A registration is consumed by every change, dies with the
\* control channel, and needs that channel when the refresh falls due.
TracksFollowed ==
  audio_streaming /\ avrcp_ct_connected /\ ct_link /\ event_queue = << >>
    => ct_registered \/ metadata_refresh_at

\* Every AUDIO_STARTED the hub handles finds it not streaming, so that
\* on_audio_start fires once for each start of the stream.
StartsAnnounced ==
  [][Dequeue("AUDIO_STARTED") => ~audio_streaming]_vars

-----------------------------------------------------------------------------
(* Liveness, while loop() returns: nothing keeps the queue from emptying.  *)

LoopReturns == []<>(main_pc # "drain")

\* disable() never waits for ever: DISCONNECTED, or the deadline, ends it.
DisableCompletes == LoopReturns => (pending_deinit ~> ~pending_deinit)

\* A chain of reconnect attempts ends, with a connection or out of attempts,
\* whatever commands come in between and whatever events are lost.
RetriesEnd == LoopReturns => (reconnect_at ~> ~reconnect_at \/ connected)
-----------------------------------------------------------------------------
(* What comments and the README say of the hub, and the code does not do.  *)

\* "Never call esp_bluedroid_disable() while an ACL link or inquiry is still
\* live" (a2dp.cpp:514): so the stack never asserts.
StackNeverAsserts == stack # "asserted"

\* prefer_bt_while_streaming "disables Wi-Fi power-save while audio is
\* streaming and restores your configured mode afterwards" (README.md:232).
PowerSaveRestored == wifi_ps = PsNone /\ PsConfigured # PsNone => audio_streaming
=============================================================================
