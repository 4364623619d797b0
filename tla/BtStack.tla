------------------------------ MODULE BtStack ------------------------------
(***************************************************************************)
(* The Bluetooth side of the A2DP hub: Bluedroid and the phone (external   *)
(* code, modelled from the calls the hub makes and the callbacks it        *)
(* registers), and the hub's own callback handlers handle_a2d_event_ and   *)
(* handle_avrc_ct_event_, which run on the Bluetooth task and do nothing   *)
(* but post a record onto the FreeRTOS event queue.                        *)
(*                                                                         *)
(* The module has actions and no Spec: A2dpHub.tla composes it with the    *)
(* hub's main loop, which shares the queue and calls the stack.            *)
(***************************************************************************)
EXTENDS Naturals, Sequences

CONSTANTS
  Peers,             \* Bluetooth addresses of the phones
  NoPeer,            \* the zeroed address
  EVENT_QUEUE_LEN,   \* length of the FreeRTOS queue (8 in the code)
  Overflow,          \* may an event find the queue full?
  Avrcp,             \* compiled with USE_A2DP_AVRCP
  Chatter            \* also post the events that only feed callbacks

ASSUME NoPeerAssumption == NoPeer \notin Peers
ASSUME QueueAssumption == EVENT_QUEUE_LEN \in Nat \ {0}
ASSUME BtFlagsAssumption == {Overflow, Avrcp, Chatter} \subseteq BOOLEAN

VARIABLES
  stack,          \* controller, Bluedroid and profiles
  scan,           \* GAP scan mode
  link,           \* the ACL/A2DP link as the stack sees it
  link_peer,      \* who is at the other end
  stream,         \* is SBC flowing on the link?
  suspending,     \* the stack was told to suspend that stream
  ct_link,        \* the AVRCP control channel
  ct_registered,  \* TRACK_CHANGE notification registered with the phone
  event_queue     \* A2DPEventRecords waiting for the main loop

linkVars == <<link, link_peer, stream, suspending>>
ctVars == <<ct_link, ct_registered>>
btVars == <<stack, scan, linkVars, ctVars, event_queue>>

StackStates == {"off", "half", "on", "asserted"}
ScanModes == {"off", "connectable", "discoverable"}
LinkStates == {"down", "connecting", "up", "closing"}

A2DPEvent ==
  {"CONNECTED", "DISCONNECTED", "AUDIO_STARTED", "AUDIO_STOPPED",
   "AVRCP_CT_CONNECTED", "AVRCP_CT_DISCONNECTED", "AVRCP_TRACK_CHANGED",
   \* AUDIO_CFG_UPDATED, PEER_NAME_UPDATED, AVRCP_METADATA_UPDATED and
   \* AVRCP_VOLUME_CHANGED: the main loop only forwards them to callbacks
   "INFO"}

\* remote_bda and disc_rsn are the fields the main loop reads.
A2DPEventRecord ==
  [type: A2DPEvent, remote_bda: Peers \cup {NoPeer}, abnormal: BOOLEAN]

\* A2DPEventRecord ev{}: what a callback does not fill in is zero.
Event(type) == [type |-> type, remote_bda |-> NoPeer, abnormal |-> FALSE]

BtTypeOK ==
  /\ stack \in StackStates
  /\ scan \in ScanModes
  /\ link \in LinkStates
  /\ link_peer \in Peers \cup {NoPeer}
  /\ stream \in BOOLEAN
  /\ suspending \in BOOLEAN
  /\ ct_link \in BOOLEAN
  /\ ct_registered \in BOOLEAN
  /\ event_queue \in Seq(A2DPEventRecord)

BtInit ==
  /\ stack = "off"
  /\ scan = "off"
  /\ link = "down"
  /\ link_peer = NoPeer
  /\ stream = FALSE
  /\ suspending = FALSE
  /\ ct_link = FALSE
  /\ ct_registered = FALSE
  /\ event_queue = << >>

-----------------------------------------------------------------------------
(* Callbacks: each posts one record with xQueueSend(queue, &ev, 0), whose  *)
(* result nobody looks at, so a full queue loses the record.  ~Overflow is *)
(* the assumption that the main loop keeps the queue from filling up.      *)

Full == Len(event_queue) >= EVENT_QUEUE_LEN

Post(ev) ==
  \/ ~Full /\ event_queue' = Append(event_queue, ev)
  \/ Full /\ Overflow /\ UNCHANGED event_queue

(***************************************************************************)
(* ESP_A2D_CONNECTION_STATE_EVT: CONNECTED carries the address and         *)
(* DISCONNECTED the reason; CONNECTING and DISCONNECTING post nothing.     *)
(***************************************************************************)
PostConnected(p) == Post([Event("CONNECTED") EXCEPT !.remote_bda = p])

\* Faulty variant: a graceful disconnect is not posted.
PostAbnormalOnly(abnormal) ==
  IF abnormal THEN Post([Event("DISCONNECTED") EXCEPT !.abnormal = TRUE])
              ELSE UNCHANGED event_queue

PostDisconnected(abnormal) ==
  Post([Event("DISCONNECTED") EXCEPT !.abnormal = abnormal])

PostAudioState(started) ==
  Post(Event(IF started THEN "AUDIO_STARTED" ELSE "AUDIO_STOPPED"))

PostCtState(up) ==
  Post(Event(IF up THEN "AVRCP_CT_CONNECTED" ELSE "AVRCP_CT_DISCONNECTED"))

PostTrackChange == Post(Event("AVRCP_TRACK_CHANGED"))

-----------------------------------------------------------------------------
(* The phone and the stack.  A phone reaches a connectable stack at will.  *)

PeerConnects(p) ==
  /\ stack = "on" /\ scan # "off" /\ link = "down"
  /\ link' = "up"
  /\ link_peer' = p
  /\ PostConnected(p)
  /\ UNCHANGED <<stack, scan, stream, suspending, ctVars>>

\* The answer to esp_a2d_sink_connect.
ConnectSucceeds ==
  /\ link = "connecting"
  /\ link' = "up"
  /\ PostConnected(link_peer)
  /\ UNCHANGED <<stack, scan, link_peer, stream, suspending, ctVars>>

ConnectFails ==
  /\ link = "connecting"
  /\ link' = "down"
  /\ link_peer' = NoPeer
  /\ PostDisconnected(TRUE)
  /\ UNCHANGED <<stack, scan, stream, suspending, ctVars>>

AudioStarts ==
  /\ link = "up" /\ ~stream
  /\ stream' = TRUE
  /\ PostAudioState(TRUE)
  /\ UNCHANGED <<stack, scan, link, link_peer, suspending, ctVars>>

\* The phone pauses, or the stack obeys ESP_A2D_MEDIA_CTRL_SUSPEND.
AudioStops ==
  /\ stream
  /\ stream' = FALSE
  /\ suspending' = FALSE
  /\ PostAudioState(FALSE)
  /\ UNCHANGED <<stack, scan, link, link_peer, ctVars>>

\* The link ends, by itself or after esp_a2d_sink_disconnect.  Audio that was
\* flowing ends with it: no separate AUDIO_STOPPED is reported.
LinkDrops(abnormal) ==
  /\ link \in {"up", "closing"}
  /\ link' = "down"
  /\ link_peer' = NoPeer
  /\ stream' = FALSE
  /\ suspending' = FALSE
  /\ PostDisconnected(abnormal)
  /\ UNCHANGED <<stack, scan, ctVars>>

CtConnects ==
  /\ Avrcp /\ link = "up" /\ ~ct_link
  /\ ct_link' = TRUE
  /\ PostCtState(TRUE)
  /\ UNCHANGED <<stack, scan, linkVars, ct_registered>>

\* The control channel closes on its own: before, with or after the link.
CtDisconnects ==
  /\ ct_link
  /\ ct_link' = FALSE
  /\ ct_registered' = FALSE
  /\ PostCtState(FALSE)
  /\ UNCHANGED <<stack, scan, linkVars>>

\* A CHANGE_NOTIFY response consumes the registration it answers.
TrackChanges ==
  /\ ct_link /\ ct_registered
  /\ ct_registered' = FALSE
  /\ PostTrackChange
  /\ UNCHANGED <<stack, scan, linkVars, ct_link>>

Chat ==
  /\ Chatter /\ link = "up"
  /\ Post(Event("INFO"))
  /\ UNCHANGED <<stack, scan, linkVars, ctVars>>

BtStep ==
  \/ \E p \in Peers : PeerConnects(p)
  \/ ConnectSucceeds
  \/ ConnectFails
  \/ AudioStarts
  \/ AudioStops
  \/ \E abnormal \in BOOLEAN : LinkDrops(abnormal)
  \/ CtConnects
  \/ CtDisconnects
  \/ TrackChanges
  \/ Chat

-----------------------------------------------------------------------------
(* Calls the hub makes, as operators over the variables each can change.   *)

\* esp_bt_gap_set_scan_mode: an error unless Bluedroid is enabled.
SetScanMode(mode) == scan' = IF stack = "on" THEN mode ELSE scan

\* esp_a2d_sink_connect: an error while any link exists or is being made.
SinkConnectStarts == stack = "on" /\ link = "down"

SinkConnect(p) ==
  /\ link' = IF SinkConnectStarts THEN "connecting" ELSE link
  /\ link_peer' = IF SinkConnectStarts THEN p ELSE link_peer
  /\ UNCHANGED stream

\* esp_a2d_media_ctrl(SUSPEND): AudioStops is the stack's answer.
MediaCtrlSuspend == suspending' = stream

\* esp_a2d_sink_disconnect: an error unless that peer is connected.
SinkDisconnect(p) ==
  /\ link' = IF link = "up" /\ link_peer = p THEN "closing" ELSE link
  /\ UNCHANGED <<link_peer, stream>>

RegisterTrackChange == ct_registered' = (ct_registered \/ ct_link)

\* Bluedroid asserts when it is disabled over a live link (the comments at
\* a2dp.cpp:204 and a2dp.cpp:514); it may also get away with it.
LiveLink == link \in {"up", "closing"}

StackDisable ==
  /\ stack' \in IF LiveLink THEN {"off", "asserted"} ELSE {"off"}
  /\ scan' = "off"
  /\ link' = "down"
  /\ link_peer' = NoPeer
  /\ stream' = FALSE
  /\ suspending' = FALSE
  /\ ct_link' = FALSE
  /\ ct_registered' = FALSE

\* A reset of the chip: everything is gone, the queue with it.
StackReset ==
  /\ stack' = "off"
  /\ scan' = "off"
  /\ link' = "down"
  /\ link_peer' = NoPeer
  /\ stream' = FALSE
  /\ suspending' = FALSE
  /\ ct_link' = FALSE
  /\ ct_registered' = FALSE
  /\ event_queue' = << >>
=============================================================================
