------------------------------- MODULE Avrcp -------------------------------
(***************************************************************************)
(* The title sensor and what keeps it true: the hub asks the phone for the *)
(* metadata a while after the audio starts, after the control channel      *)
(* comes up, after a track change and after a transport button, and        *)
(* registers for track changes, of which each registration reports one.    *)
(* Answers come later, through the event queue, in the order of the        *)
(* requests, and show the track of the moment they are given.              *)
(*                                                                         *)
(* One metadata attribute stands for the three that are asked for: each    *)
(* sensor filters its own.  Control that A2dpHub.tla models is kept only   *)
(* as far as the refresh depends on it.                                    *)
(***************************************************************************)
EXTENDS Naturals, Sequences

CONSTANTS
  Tracks, NoTrack,   \* titles, and the empty string
  TITLE_QUEUE,       \* records in the queue; none is lost here
  TITLE_REQUESTS,    \* bound: requests unanswered when a new cause for one comes
  ChangeInGap        \* may the track change between a metadata answer and the
                     \* registration sent right behind that request?

ASSUME TracksAssumption == NoTrack \notin Tracks
ASSUME AvrcpBounds == TITLE_QUEUE \in Nat \ {0} /\ TITLE_REQUESTS \in Nat
ASSUME GapAssumption == ChangeInGap \in BOOLEAN

VARIABLES
  \* the phone
  session,           \* the A2DP link: "down", "up", or "closing" by disconnect()
  playing,           \* does SBC flow on it?
  channel,           \* is the AVRCP control channel up?
  track, registered,
  requests,          \* commands on their way to it, oldest first
  events,            \* the event queue
  \* the hub
  is_connected, is_streaming, ct_connected,
  refresh_at,        \* metadata_refresh_at_, armed?
  title_sensor       \* what the text sensor published

sourceVars == <<session, playing, channel, track, registered, requests>>
titleVars == <<is_connected, is_streaming, ct_connected, refresh_at, title_sensor>>
avrcVars == <<sourceVars, events, titleVars>>

EventTypes == {"CONNECTED", "DISCONNECTED", "AUDIO_STARTED", "AUDIO_STOPPED",
               "AVRCP_CT_CONNECTED", "AVRCP_CT_DISCONNECTED",
               "AVRCP_METADATA_UPDATED", "AVRCP_TRACK_CHANGED"}

AvrcTypeOK ==
  /\ session \in {"down", "up", "closing"}
  /\ {playing, channel, registered} \subseteq BOOLEAN
  /\ track \in Tracks
  /\ requests \in Seq({"metadata", "register"})
  /\ events \in Seq([type: EventTypes, title: Tracks \cup {NoTrack}])
  /\ {is_connected, is_streaming, ct_connected, refresh_at} \subseteq BOOLEAN
  /\ title_sensor \in Tracks \cup {NoTrack}

AvrcInit ==
  /\ session = "down" /\ playing = FALSE /\ channel = FALSE
  /\ track \in Tracks
  /\ registered = FALSE
  /\ requests = << >> /\ events = << >>
  /\ is_connected = FALSE /\ is_streaming = FALSE /\ ct_connected = FALSE
  /\ refresh_at = FALSE
  /\ title_sensor = NoTrack

-----------------------------------------------------------------------------
(* The phone, and the callbacks on the Bluetooth task.                     *)

MayCauseRequest == Len(requests) <= TITLE_REQUESTS

Send(type, title) ==
  /\ Len(events) < TITLE_QUEUE
  /\ events' = Append(events, [type |-> type, title |-> title])

\* A new session finds the channels of the last one gone.
SessionUp ==
  /\ session = "down" /\ ~channel
  /\ session' = "up"
  /\ Send("CONNECTED", NoTrack)
  /\ UNCHANGED <<playing, channel, track, registered, requests, titleVars>>

SessionDown ==
  /\ session # "down"
  /\ session' = "down" /\ playing' = FALSE
  /\ Send("DISCONNECTED", NoTrack)
  /\ UNCHANGED <<channel, track, registered, requests, titleVars>>

PlaybackChanges ==
  /\ session = "up" /\ MayCauseRequest
  /\ playing' = ~playing
  /\ Send(IF playing' THEN "AUDIO_STARTED" ELSE "AUDIO_STOPPED", NoTrack)
  /\ UNCHANGED <<session, channel, track, registered, requests, titleVars>>

\* Requests die with the channel; it may outlive the session.
ChannelChanges ==
  /\ session = "up" \/ channel
  /\ channel' = ~channel
  /\ registered' = FALSE /\ requests' = << >>
  /\ Send(IF channel' THEN "AVRCP_CT_CONNECTED" ELSE "AVRCP_CT_DISCONNECTED", NoTrack)
  /\ UNCHANGED <<session, playing, track, titleVars>>

\* The metadata is answered, the registration sent right behind is not, and the
\* hub has no other reason to ask again.
InGap ==
  /\ requests # << >> /\ "metadata" \notin {requests[i] : i \in DOMAIN requests}
  /\ ~registered /\ ~refresh_at

TrackTurns ==
  /\ (InGap => ChangeInGap) /\ MayCauseRequest
  /\ \E t \in Tracks \ {track} : track' = t
  /\ registered' = FALSE
  /\ IF registered THEN Send("AVRCP_TRACK_CHANGED", NoTrack) ELSE UNCHANGED events
  /\ UNCHANGED <<session, playing, channel, requests, titleVars>>

PhoneAnswers ==
  /\ requests # << >>
  /\ requests' = Tail(requests)
  /\ \/ /\ Head(requests) = "metadata"
        /\ Send("AVRCP_METADATA_UPDATED", track)
        /\ UNCHANGED registered
     \/ /\ Head(requests) = "register"
        /\ registered' = TRUE
        /\ UNCHANGED events
  /\ UNCHANGED <<session, playing, channel, track, titleVars>>

-----------------------------------------------------------------------------
(* The hub.                                                                *)

\* request_avrcp_metadata, request_avrcp_track_change_notification: nothing
\* without the control channel.
Request(commands) ==
  requests' = IF ct_connected /\ channel THEN requests \o commands ELSE requests

\* Faulty variant: the refresh does not register.
RefreshOnce ==
  /\ refresh_at
  /\ refresh_at' = FALSE
  /\ Request(<<"metadata">>)
  /\ UNCHANGED <<session, playing, channel, track, registered, events,
                 is_connected, is_streaming, ct_connected, title_sensor>>

RefreshDue ==
  /\ refresh_at
  /\ refresh_at' = FALSE
  /\ Request(<<"metadata", "register">>)
  /\ UNCHANGED <<session, playing, channel, track, registered, events,
                 is_connected, is_streaming, ct_connected, title_sensor>>

\* A transport button that changes the track: play, next, previous.
Button ==
  /\ ct_connected /\ MayCauseRequest
  /\ refresh_at' = TRUE
  /\ UNCHANGED <<sourceVars, events, is_connected, is_streaming, ct_connected, title_sensor>>

Take(type) ==
  /\ events # << >> /\ Head(events).type = type
  /\ events' = Tail(events)
  /\ UNCHANGED <<session, playing, channel, track, registered>>

TakeConnected ==
  /\ Take("CONNECTED")
  /\ is_connected' = TRUE
  /\ UNCHANGED <<requests, is_streaming, ct_connected, refresh_at, title_sensor>>

\* The sensor is cleared when the connection ends.
TakeDisconnected ==
  /\ Take("DISCONNECTED")
  /\ is_connected' = FALSE
  /\ IF is_connected
       THEN is_streaming' = FALSE /\ refresh_at' = FALSE /\ title_sensor' = NoTrack
       ELSE UNCHANGED <<is_streaming, refresh_at, title_sensor>>
  /\ UNCHANGED <<requests, ct_connected>>

TakeAudioStarted ==
  /\ Take("AUDIO_STARTED")
  /\ is_streaming' = TRUE
  /\ refresh_at' = (refresh_at \/ ~is_streaming)
  /\ UNCHANGED <<requests, is_connected, ct_connected, title_sensor>>

TakeAudioStopped ==
  /\ Take("AUDIO_STOPPED")
  /\ is_streaming' = FALSE
  /\ refresh_at' = (refresh_at /\ ~is_streaming)
  /\ UNCHANGED <<requests, is_connected, ct_connected, title_sensor>>

TakeChannel ==
  /\ \/ Take("AVRCP_CT_CONNECTED") /\ ct_connected' = TRUE /\ refresh_at' = TRUE
     \/ Take("AVRCP_CT_DISCONNECTED") /\ ct_connected' = FALSE /\ UNCHANGED refresh_at
  /\ UNCHANGED <<requests, is_connected, is_streaming, title_sensor>>

TakeTrackChanged ==
  /\ Take("AVRCP_TRACK_CHANGED")
  /\ refresh_at' = TRUE
  /\ Request(<<"register">>)
  /\ UNCHANGED <<is_connected, is_streaming, ct_connected, title_sensor>>

TakeMetadata ==
  /\ Take("AVRCP_METADATA_UPDATED")
  /\ title_sensor' = Head(events).title
  /\ UNCHANGED <<requests, is_connected, is_streaming, ct_connected, refresh_at>>

\* disconnect(): the stack is asked to close the link, the subscribers are told
\* at once; the refresh stays armed.
DisconnectNow ==
  /\ is_connected
  /\ session' = IF session = "up" THEN "closing" ELSE session
  /\ is_connected' = FALSE /\ is_streaming' = FALSE
  /\ title_sensor' = NoTrack
  /\ UNCHANGED <<playing, channel, track, registered, requests, events,
                 ct_connected, refresh_at>>

TakeEvent ==
  \/ TakeConnected
  \/ TakeDisconnected
  \/ TakeAudioStarted
  \/ TakeAudioStopped
  \/ TakeChannel
  \/ TakeTrackChanged
  \/ TakeMetadata

AvrcNext ==
  \/ SessionUp
  \/ SessionDown
  \/ PlaybackChanges
  \/ ChannelChanges
  \/ TrackTurns
  \/ PhoneAnswers
  \/ RefreshDue
  \/ Button
  \/ TakeEvent
  \/ DisconnectNow

\* loop() comes round and finds its deadline due, and the phone answers.
AvrcFairness ==
  WF_avrcVars(TakeEvent) /\ WF_avrcVars(RefreshDue) /\ WF_avrcVars(PhoneAnswers)

-----------------------------------------------------------------------------
\* Nothing is left to come - no record in the queue, no command unanswered, no
\* refresh armed - only when the title is the phone's and the hub will hear of
\* the next one, whatever interrupted or disconnected it before.
TitleSettled ==
  session = "up" /\ playing /\ channel
    /\ events = << >> /\ requests = << >> /\ ~refresh_at
    => title_sensor = track /\ registered

\* The title follows the phone: once it plays on and on with the control
\* channel up and stays on a track, the sensor comes to show that track,
\* whatever interrupted it before and whichever registration was used up.
TitleFollows ==
  \A t \in Tracks :
    <>[](session = "up" /\ playing /\ channel /\ track = t) => <>[](title_sensor = t)
=============================================================================
