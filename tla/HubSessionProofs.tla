-------------------------- MODULE HubSessionProofs --------------------------
(***************************************************************************)
(* Machine-checked proofs that the hub follows the link in order, for any  *)
(* number of phones and any queue that loses nothing, without disconnect():*)
(* audio only streams in a session, and the callbacks tell sessions.       *)
(***************************************************************************)
EXTENDS HubSession, A2dpHubProofs

-----------------------------------------------------------------------------
(* The order of a queue q, for a hub that is in a session now or is not.   *)

\* Position i of q lies in a session: a CONNECTED comes before it, or the hub is
\* in one already, and no DISCONNECTED in between.
InSession(q, now, i) ==
  \E j \in 0 .. i - 1 :
    /\ IF j = 0 THEN now ELSE q[j].type = "CONNECTED"
    /\ \A k \in j + 1 .. i - 1 : q[k].type # "DISCONNECTED"

EndsInSession(q, now) == InSession(q, now, Len(q) + 1)

StartsInSession(q, now) ==
  \A i \in 1 .. Len(q) : q[i].type = "AUDIO_STARTED" => InSession(q, now, i)

\* A record may be appended: AUDIO_STARTED only in a session.
LEMMA AppendOrder ==
  ASSUME NEW q \in Seq(A2DPEventRecord), NEW ev \in A2DPEventRecord,
         NEW now \in BOOLEAN,
         StartsInSession(q, now),
         ev.type = "AUDIO_STARTED" => EndsInSession(q, now)
  PROVE  LET r == Append(q, ev)
         IN  /\ StartsInSession(r, now)
             /\ ev.type = "CONNECTED" => EndsInSession(r, now)
             /\ ev.type # "DISCONNECTED" /\ EndsInSession(q, now)
                  => EndsInSession(r, now)
<1> DEFINE n == Len(q)
           r == Append(q, ev)
<1>1. n \in Nat /\ Len(r) = n + 1
  OBVIOUS
<1>2. r[n + 1] = ev
  OBVIOUS
<1>3. \A i \in 1 .. n : r[i] = q[i]
  OBVIOUS
<1> HIDE DEF r
<1>4. \A i \in 1 .. n + 1 : InSession(q, now, i) => InSession(r, now, i)
  <2>1. SUFFICES ASSUME NEW i \in 1 .. n + 1, InSession(q, now, i)
                 PROVE  InSession(r, now, i)
    OBVIOUS
  <2>2. PICK j \in 0 .. i - 1 :
          /\ IF j = 0 THEN now ELSE q[j].type = "CONNECTED"
          /\ \A k \in j + 1 .. i - 1 : q[k].type # "DISCONNECTED"
    BY <2>1 DEF InSession
  <2>3. IF j = 0 THEN now ELSE r[j].type = "CONNECTED"
    BY <1>1, <1>3, <2>1, <2>2
  <2>4. \A k \in j + 1 .. i - 1 : r[k].type # "DISCONNECTED"
    BY <1>1, <1>3, <2>1, <2>2
  <2>5. QED
    BY <2>3, <2>4 DEF InSession
<1>5. StartsInSession(r, now)
  <2>1. SUFFICES ASSUME NEW i \in 1 .. n + 1, r[i].type = "AUDIO_STARTED"
                 PROVE  InSession(r, now, i)
    BY <1>1 DEF StartsInSession
  <2>2. InSession(q, now, i)
    BY <1>1, <1>2, <1>3, <2>1 DEF StartsInSession, EndsInSession
  <2>3. QED
    BY <1>4, <2>1, <2>2
<1>6. ev.type = "CONNECTED" => EndsInSession(r, now)
  BY <1>1, <1>2 DEF InSession, EndsInSession
<1>7. ASSUME ev.type # "DISCONNECTED", EndsInSession(q, now)
      PROVE  EndsInSession(r, now)
  <2>1. PICK j \in 0 .. n :
          /\ IF j = 0 THEN now ELSE q[j].type = "CONNECTED"
          /\ \A k \in j + 1 .. n : q[k].type # "DISCONNECTED"
    BY <1>1, <1>7 DEF InSession, EndsInSession
  <2>2. IF j = 0 THEN now ELSE r[j].type = "CONNECTED"
    BY <1>1, <1>3, <2>1
  <2>3. \A k \in j + 1 .. n + 1 : r[k].type # "DISCONNECTED"
    BY <1>1, <1>2, <1>3, <1>7, <2>1
  <2>4. QED
    BY <1>1, <2>2, <2>3 DEF InSession, EndsInSession
<1>8. QED
  BY <1>5, <1>6, <1>7 DEF r

\* The first record may be taken, when the hub's session becomes what it tells.
LEMMA TakeOrder ==
  ASSUME NEW q \in Seq(A2DPEventRecord), q # << >>,
         NEW now \in BOOLEAN, NEW next \in BOOLEAN,
         Head(q).type = "CONNECTED" => next,
         Head(q).type # "DISCONNECTED" /\ now => next,
         StartsInSession(q, now)
  PROVE  /\ StartsInSession(Tail(q), next)
         /\ EndsInSession(q, now) => EndsInSession(Tail(q), next)
<1> DEFINE n == Len(q)
           r == Tail(q)
<1>1. n \in Nat \ {0} /\ Len(r) = n - 1
  OBVIOUS
<1>2. \A i \in 1 .. n - 1 : r[i] = q[i + 1]
  OBVIOUS
<1>3. Head(q) = q[1]
  OBVIOUS
<1> HIDE DEF r
<1>4. \A i \in 1 .. n : InSession(q, now, i + 1) => InSession(r, next, i)
  <2>1. SUFFICES ASSUME NEW i \in 1 .. n, InSession(q, now, i + 1)
                 PROVE  InSession(r, next, i)
    OBVIOUS
  <2>2. PICK j \in 0 .. i :
          /\ IF j = 0 THEN now ELSE q[j].type = "CONNECTED"
          /\ \A k \in j + 1 .. i : q[k].type # "DISCONNECTED"
    BY <1>1, <2>1 DEF InSession
  <2>3. CASE j \in {0, 1}
    <3>1. next
      BY <1>1, <1>3, <2>2, <2>3
    <3>2. \A k \in 2 .. i : q[k].type # "DISCONNECTED"
      BY <1>1, <2>2, <2>3
    <3>3. \A k \in 1 .. i - 1 : r[k].type # "DISCONNECTED"
      BY <1>1, <1>2, <3>2
    <3>4. QED
      BY <1>1, <3>1, <3>3 DEF InSession
  <2>4. CASE j \in 2 .. i
    <3>1. j - 1 \in 1 .. i - 1
      BY <1>1, <2>4
    <3>2. r[j - 1].type = "CONNECTED"
      BY <1>1, <1>2, <2>2, <2>4
    <3>3. \A k \in j .. i - 1 : r[k].type # "DISCONNECTED"
      BY <1>1, <1>2, <2>2, <2>4
    <3>4. QED
      BY <1>1, <3>1, <3>2, <3>3 DEF InSession
  <2>5. QED
    BY <1>1, <2>3, <2>4
<1>5. StartsInSession(r, next)
  <2>1. SUFFICES ASSUME NEW i \in 1 .. n - 1, r[i].type = "AUDIO_STARTED"
                 PROVE  InSession(r, next, i)
    BY <1>1 DEF StartsInSession
  <2>2. InSession(q, now, i + 1)
    BY <1>1, <1>2, <2>1 DEF StartsInSession
  <2>3. QED
    BY <1>1, <1>4, <2>1, <2>2
<1>6. ASSUME EndsInSession(q, now) PROVE EndsInSession(r, next)
  <2>1. InSession(q, now, n + 1)
    BY <1>6 DEF EndsInSession
  <2>2. InSession(r, next, n)
    BY <1>1, <1>4, <2>1
  <2>3. QED
    BY <1>1, <2>2 DEF EndsInSession
<1>7. QED
  BY <1>5, <1>6 DEF r

LEMMA PostedRecord ==
  ASSUME TypeOK, ~Overflow, NEW ev, Post(ev)
  PROVE  event_queue' = Append(event_queue, ev)
  BY DEF Post

\* What a posted record does to a hub that is in a session or is not.
LEMMA PostOrder ==
  ASSUME TypeOK, ~Overflow, BtStep, NEW now \in BOOLEAN,
         StartsInSession(event_queue, now),
         link = "up" => EndsInSession(event_queue, now)
  PROVE  /\ StartsInSession(event_queue', now)
         /\ link' = "up" => EndsInSession(event_queue', now)
<1>1. event_queue \in Seq(A2DPEventRecord)
  BY DEF TypeOK, BtTypeOK
<1> DEFINE Goal == /\ StartsInSession(event_queue', now)
                   /\ link' = "up" => EndsInSession(event_queue', now)
<1>2. ASSUME NEW ev \in A2DPEventRecord, Post(ev),
             ev.type = "AUDIO_STARTED" => link = "up",
             link' = "up" => \/ ev.type = "CONNECTED"
                             \/ link = "up" /\ ev.type # "DISCONNECTED"
      PROVE  Goal
  <2>1. event_queue' = Append(event_queue, ev)
    BY <1>2, PostedRecord
  <2>2. /\ StartsInSession(event_queue', now)
        /\ ev.type = "CONNECTED" => EndsInSession(event_queue', now)
        /\ ev.type # "DISCONNECTED" /\ EndsInSession(event_queue, now)
             => EndsInSession(event_queue', now)
    BY <1>1, <1>2, <2>1, AppendOrder
  <2>3. QED
    BY <1>2, <2>2, Zenon
<1> SUFFICES Goal
  OBVIOUS
<1> HIDE DEF Goal
<1>3. \A type \in A2DPEvent :
        Event(type) \in A2DPEventRecord /\ Event(type).type = type
  BY DEF Event, A2DPEventRecord
<1>4. \A p \in Peers \cup {NoPeer} :
        LET ev == [Event("CONNECTED") EXCEPT !.remote_bda = p]
        IN  ev \in A2DPEventRecord /\ ev.type = "CONNECTED"
  BY DEF Event, A2DPEventRecord, A2DPEvent
<1>5. \A abnormal \in BOOLEAN :
        LET ev == [Event("DISCONNECTED") EXCEPT !.abnormal = abnormal]
        IN  ev \in A2DPEventRecord /\ ev.type = "DISCONNECTED"
  BY DEF Event, A2DPEventRecord, A2DPEvent
<1>6. ASSUME NEW p \in Peers, PeerConnects(p) PROVE Goal
  BY <1>2, <1>4, <1>6 DEF PeerConnects, PostConnected
<1>7. CASE ConnectSucceeds
  <2>1. link_peer \in Peers \cup {NoPeer}
    BY DEF TypeOK, BtTypeOK
  <2>2. QED
    BY <1>2, <1>4, <1>7, <2>1 DEF ConnectSucceeds, PostConnected
<1>8. CASE ConnectFails
  BY <1>2, <1>5, <1>8 DEF ConnectFails, PostDisconnected
<1>9. ASSUME NEW abnormal \in BOOLEAN, LinkDrops(abnormal) PROVE Goal
  BY <1>2, <1>5, <1>9 DEF LinkDrops, PostDisconnected
<1>10. CASE AudioStarts
  <2>1. Post(Event("AUDIO_STARTED")) /\ link = "up" /\ link' = link
    BY <1>10 DEF AudioStarts, PostAudioState
  <2>2. QED
    BY <1>2, <1>3, <2>1 DEF A2DPEvent
<1>11. CASE AudioStops \/ CtConnects \/ CtDisconnects \/ TrackChanges \/ Chat
  <2>1. PICK type \in {"AUDIO_STOPPED", "AVRCP_CT_CONNECTED", "INFO",
                       "AVRCP_CT_DISCONNECTED", "AVRCP_TRACK_CHANGED"} :
          Post(Event(type)) /\ link' = link
    BY <1>11
    DEF AudioStops, CtConnects, CtDisconnects, TrackChanges, Chat, linkVars,
        PostAudioState, PostCtState, PostTrackChange
  <2>2. QED
    BY <1>2, <1>3, <2>1 DEF A2DPEvent
<1>12. QED
  BY <1>6, <1>7, <1>8, <1>9, <1>10, <1>11 DEF BtStep

-----------------------------------------------------------------------------
(* Audio in sessions only, now and in what the queue tells.                *)

\* No record is lost, and nothing moves the hub ahead of its queue.
QueueLeads == ~Overflow /\ "disconnect" \notin Commands

SessionInv ==
  /\ StreamingOnlyConnected
  /\ StartsInSession(event_queue, connected)
  /\ link = "up" => EndsInSession(event_queue, connected)

-----------------------------------------------------------------------------
(* SessionInv is inductive.                                                *)

\* A step that neither posts nor takes a record, and brings no link up.
LEMMA QuietSession ==
  ASSUME SessionInv, link' = "up" => link = "up",
         UNCHANGED <<event_queue, connected, audio_streaming>>
  PROVE  SessionInv'
<1>1. /\ StartsInSession(event_queue', connected')
      /\ link' = "up" => EndsInSession(event_queue', connected')
  BY Zenon DEF SessionInv
<1>2. QED
  BY <1>1 DEF SessionInv, StreamingOnlyConnected, StartsInSession, EndsInSession,
              InSession

\* A reset, or the hub unconnected with its stack switched off.
LEMMA EmptySession ==
  ASSUME event_queue' = << >>, link' = "down", ~connected', ~audio_streaming'
  PROVE  SessionInv'
  BY DEF SessionInv, StreamingOnlyConnected, StartsInSession

LEMMA PostSession ==
  ASSUME TypeOK, SessionInv, ~Overflow,
         BtStep, UNCHANGED <<connected, audio_streaming>>
  PROVE  SessionInv'
<1>1. connected \in BOOLEAN
  BY DEF TypeOK, HubTypeOK
<1>2. /\ StartsInSession(event_queue', connected)
      /\ link' = "up" => EndsInSession(event_queue', connected)
  BY <1>1, PostOrder DEF SessionInv
<1>3. QED
  BY <1>2 DEF SessionInv, StreamingOnlyConnected, StartsInSession, EndsInSession,
              InSession

LEMMA TakeSession ==
  ASSUME TypeOK, SessionInv, Handle
  PROVE  SessionInv'
<1> DEFINE ev == Head(event_queue)
<1>1. /\ event_queue \in Seq(A2DPEventRecord)
      /\ connected \in BOOLEAN /\ audio_streaming \in BOOLEAN
  BY DEF TypeOK, BtTypeOK, HubTypeOK
<1>2. ASSUME event_queue # << >>, event_queue' = Tail(event_queue),
             connected' \in BOOLEAN,
             ev.type = "CONNECTED" => connected',
             ev.type # "DISCONNECTED" /\ connected => connected',
             audio_streaming' => connected',
             link' = "up" => link = "up"
      PROVE  SessionInv'
  <2>1. /\ StartsInSession(event_queue', connected')
        /\ EndsInSession(event_queue, connected)
             => EndsInSession(event_queue', connected')
    BY <1>1, <1>2, TakeOrder DEF SessionInv
  <2>2. link' = "up" => EndsInSession(event_queue', connected')
    BY <1>2, <2>1, Zenon DEF SessionInv
  <2>3. QED
    BY <1>2, <2>1, <2>2 DEF SessionInv, StreamingOnlyConnected, StartsInSession,
                            EndsInSession, InSession
<1>3. audio_streaming => connected
  BY DEF SessionInv, StreamingOnlyConnected
<1> USE DEF Dequeue, sessionVars, linkVars
<1>4. CASE HandleConnected
  BY <1>1, <1>2, <1>4 DEF HandleConnected
<1>5. CASE HandleDisconnectedPending
  BY <1>1, <1>2, <1>5
  DEF HandleDisconnectedPending, EndSession, FinishDisable, DeinitBt, StackDisable
<1>6. CASE HandleDisconnected
  BY <1>1, <1>2, <1>6 DEF HandleDisconnected, EndSession
<1>7. CASE HandleAudioStarted
  <2>1. /\ event_queue # << >> /\ event_queue[1].type = "AUDIO_STARTED"
        /\ 1 \in 1 .. Len(event_queue)
    BY <1>1, <1>7 DEF HandleAudioStarted
  <2>2. InSession(event_queue, connected, 1)
    BY <2>1 DEF SessionInv, StartsInSession
  <2>3. connected
    BY <2>2 DEF InSession
  <2>4. QED
    BY <1>1, <1>2, <1>7, <2>3 DEF HandleAudioStarted
<1>8. CASE HandleAudioStopped
  BY <1>1, <1>2, <1>8 DEF HandleAudioStopped
<1>9. CASE HandleCtConnected \/ HandleCtDisconnected \/ HandleTrackChanged
  BY <1>1, <1>2, <1>3, <1>9
  DEF HandleCtConnected, HandleCtDisconnected, HandleTrackChanged
<1>10. CASE HandleNothingNew
  BY <1>1, <1>2, <1>3, <1>10 DEF HandleNothingNew
<1>11. QED
  BY <1>4, <1>5, <1>6, <1>7, <1>8, <1>9, <1>10 DEF Handle

LEMMA SessionPreserved ==
  ASSUME QueueLeads, TypeOK, SessionInv, [Next]_vars
  PROVE  SessionInv'
<1> USE DEF sessionVars, linkVars
<1>1. CASE Setup \/ Enable \/ RestartDiscovery
  BY <1>1, QuietSession DEF Setup, Enable, RestartDiscovery, Calls
<1>2. CASE PanicReboot \/ PowerCut
  BY <1>2, EmptySession
  DEF PanicReboot, PowerCut, Reset, HubRamReset, EndSession, StackReset
<1>3. CASE DisableConnected
  BY <1>3, QuietSession
  DEF DisableConnected, DisableCommon, Calls, SinkDisconnect
<1>4. CASE DisableUnconnected
  BY <1>4, QuietSession
  DEF DisableUnconnected, DisableCommon, Calls, FinishDisable, DeinitBt,
      StackDisable
<1>5. CASE RequestAudioSuspend \/ SendAvrcPassthrough \/ DrainDone
  BY <1>5, QuietSession
  DEF RequestAudioSuspend, SendAvrcPassthrough, DrainDone, Calls, btVars
<1>6. CASE LoopTop
  BY <1>6, QuietSession
  DEF LoopTop, CheckReconnect, ReconnectToLastPeer, SinkConnect
<1>7. CASE Handle
  BY <1>7, TakeSession
<1>8. CASE BtStep /\ UNCHANGED <<coexVars, hubVars>>
  BY <1>8, PostSession DEF QueueLeads, hubVars
<1>9. CASE UNCHANGED <<btVars, hubVars>>
  BY <1>9, QuietSession DEF btVars, hubVars
<1>10. QED
  BY <1>1, <1>2, <1>3, <1>4, <1>5, <1>6, <1>7, <1>8, <1>9
  DEF QueueLeads, Next, Command, Disconnect, Calls, WifiStep, vars

-----------------------------------------------------------------------------
\* Audio streams only in a session, for the hub as for the stack: the records
\* of the queue are handled in the order in which things happened.
THEOREM StreamingCorrect == QueueLeads /\ Spec => []StreamingOnlyConnected
<1>1. Init => SessionInv
  BY DEF Init, HubRamInit, BtInit, SessionInv, StreamingOnlyConnected,
         StartsInSession
<1>2. QueueLeads /\ TypeOK /\ SessionInv /\ [Next]_vars
        => QueueLeads' /\ SessionInv'
  BY SessionPreserved DEF QueueLeads
<1>3. SessionInv => StreamingOnlyConnected
  BY DEF SessionInv
<1>4. QED
  BY <1>1, <1>2, <1>3, TypeCorrect, PTL DEF Spec

-----------------------------------------------------------------------------
(* The refinement.  With SubscribersAgree the callbacks' view is the hub's *)
(* own state, so it is enough to follow connected_ and audio_streaming_.   *)

LEMMA OneAtATime ==
  ASSUME [Next]_vars
  PROVE  \/ UNCHANGED connected
         \/ UNCHANGED audio_streaming
         \/ connected' = FALSE
<1> USE DEF sessionVars
<1>1. CASE Setup \/ Enable \/ RestartDiscovery
  BY <1>1 DEF Setup, Enable, RestartDiscovery
<1>2. CASE PanicReboot \/ PowerCut \/ Disconnect
  BY <1>2
  DEF PanicReboot, PowerCut, Reset, HubRamReset, Disconnect, EndSession
<1>3. CASE DisableConnected \/ DisableUnconnected
  BY <1>3 DEF DisableConnected, DisableUnconnected, DisableCommon
<1>4. CASE RequestAudioSuspend \/ SendAvrcPassthrough \/ LoopTop \/ DrainDone
  BY <1>4 DEF RequestAudioSuspend, SendAvrcPassthrough, LoopTop, DrainDone
<1>5. CASE HandleConnected \/ HandleAudioStarted \/ HandleAudioStopped
  BY <1>5 DEF HandleConnected, HandleAudioStarted, HandleAudioStopped
<1>6. CASE HandleDisconnectedPending \/ HandleDisconnected
  BY <1>6 DEF HandleDisconnectedPending, HandleDisconnected, EndSession
<1>7. CASE HandleCtConnected \/ HandleCtDisconnected \/ HandleTrackChanged
           \/ HandleNothingNew
  BY <1>7
  DEF HandleCtConnected, HandleCtDisconnected, HandleTrackChanged,
      HandleNothingNew
<1>8. CASE UNCHANGED hubVars
  BY <1>8 DEF hubVars
<1>9. QED
  BY <1>1, <1>2, <1>3, <1>4, <1>5, <1>6, <1>7, <1>8
  DEF Next, Command, Handle, WifiStep, vars

LEMMA ViewStep ==
  ASSUME TypeOK, TypeOK', SubscribersAgree, SubscribersAgree',
         SessionInv, SessionInv', [Next]_vars
  PROVE  [View!ViewNext]_<<connection_sensor, sink_streaming>>
<1>1. /\ connected \in BOOLEAN /\ audio_streaming \in BOOLEAN
      /\ connected' \in BOOLEAN /\ audio_streaming' \in BOOLEAN
  BY DEF TypeOK, HubTypeOK
<1>2. /\ connection_sensor = connected /\ sink_streaming = audio_streaming
      /\ connection_sensor' = connected' /\ sink_streaming' = audio_streaming'
  BY DEF SubscribersAgree
<1>3. /\ audio_streaming => connected
      /\ audio_streaming' => connected'
  BY DEF SessionInv, StreamingOnlyConnected
<1> USE DEF View!ViewNext, View!PhoneComes, View!AudioStarts, View!AudioStops,
            View!PhoneGoes
<1>4. CASE connected' = connected
  BY <1>1, <1>2, <1>3, <1>4, Zenon
<1>5. CASE ~connected /\ connected' /\ audio_streaming' = audio_streaming
  BY <1>1, <1>2, <1>3, <1>5, Zenon
<1>6. CASE connected /\ ~connected'
  BY <1>1, <1>2, <1>3, <1>6, Zenon
<1>7. QED
  BY <1>1, <1>4, <1>5, <1>6, OneAtATime

\* What the subscribers of the connection and audio callbacks are told, for any
\* sequence of calls, events and failures, are sessions: SessionView.
THEOREM SessionsCorrect == QueueLeads /\ Spec => SessionsTold
<1>1. Init => SessionInv /\ SubscribersAgree /\ View!ViewInit
  <2>1. SUFFICES ASSUME Init PROVE SessionInv /\ SubscribersAgree /\ View!ViewInit
    OBVIOUS
  <2>2. SessionInv
    BY <2>1
    DEF Init, HubRamInit, BtInit, SessionInv, StreamingOnlyConnected,
         StartsInSession
  <2>3. SubscribersAgree
    BY <2>1 DEF Init, HubRamInit, SubscribersAgree
  <2>4. View!ViewInit
    BY <2>1, Zenon DEF Init, HubRamInit, View!ViewInit
  <2>5. QED
    BY <2>2, <2>3, <2>4
<1>2. QueueLeads /\ TypeOK /\ SessionInv /\ [Next]_vars
        => QueueLeads' /\ SessionInv'
  BY SessionPreserved DEF QueueLeads
<1>3. SubscribersAgree /\ [Next]_vars => SubscribersAgree'
  BY SubscribersPreserved
<1>4. /\ TypeOK /\ SubscribersAgree /\ SessionInv /\ [Next]_vars
      /\ TypeOK' /\ SubscribersAgree' /\ SessionInv'
      => [View!ViewNext]_<<connection_sensor, sink_streaming>>
  BY ViewStep
<1>5. QED
  BY <1>1, <1>2, <1>3, <1>4, TypeCorrect, PTL
  DEF Spec, SessionsTold, View!ViewSpec

-----------------------------------------------------------------------------
(* The radio.  Without disable() and disconnect(), and when discoverability*)
(* is no reason to prefer Bluetooth, only a stream is.                     *)

OnlyStreamsPreferBt ==
  /\ {"disable", "disconnect"} \cap Commands = {}
  /\ ~PreferBtWhileDiscoverable

CoexInv ==
  /\ prefer_bt \/ coex_apply_at =>
       audio_streaming /\ SoftwareCoexistence /\ PreferBtWhileStreaming
  /\ wifi_paused => connected /\ PauseWifiSourcesOnConnect
  /\ ~pending_deinit

\* enable() takes the preference from nobody, and gives it to nobody.
LEMMA EnableCoex ==
  ASSUME OnlyStreamsPreferBt, NEW peer, EnableCall(peer)
  PROVE  UNCHANGED prefer_bt /\ (wifi_paused' => wifi_paused)
<1>1. ApplyWifiPause(FALSE) => (wifi_paused' => wifi_paused)
  BY Zenon DEF ApplyWifiPause, pauseVars
<1>2. wifi_paused' => wifi_paused
  BY <1>1, Zenon DEF EnableCall, EnableSucceeds, EnableFails, pauseVars
<1>3. UNCHANGED prefer_bt
  BY DEF OnlyStreamsPreferBt, EnableCall, EnableSucceeds, EnableFails,
         SetCoexPreferenceIf, psVars
<1>4. QED
  BY <1>2, <1>3

LEMMA CoexPreserved ==
  ASSUME OnlyStreamsPreferBt, TypeOK, CoexInv, [Next]_vars
  PROVE  CoexInv'
<1> USE DEF CoexInv, sessionVars, psVars, pauseVars
<1>1. CASE Setup
  <2>1. EnableCall(saved_peer) \/ UNCHANGED <<psVars, pauseVars>>
    BY <1>1 DEF Setup
  <2>2. UNCHANGED prefer_bt /\ (wifi_paused' => wifi_paused)
    BY <2>1, EnableCoex
  <2>3. UNCHANGED <<coex_apply_at, pending_deinit, connected, audio_streaming>>
    BY <1>1 DEF Setup
  <2>4. QED
    BY <2>2, <2>3
<1>2. CASE Enable \/ RestartDiscovery
  <2>1. EnableCall(last_peer) \/ UNCHANGED <<psVars, pauseVars>>
    BY <1>2 DEF Enable, RestartDiscovery
  <2>2. UNCHANGED prefer_bt /\ (wifi_paused' => wifi_paused)
    BY <2>1, EnableCoex
  <2>3. UNCHANGED <<coex_apply_at, pending_deinit, connected, audio_streaming>>
    BY <1>2 DEF Enable, RestartDiscovery
  <2>4. QED
    BY <2>2, <2>3
<1>3. CASE PanicReboot \/ PowerCut
  BY <1>3 DEF PanicReboot, PowerCut, Reset, HubRamReset, EndSession, CoexReset
<1>4. CASE DisableConnected \/ DisableUnconnected \/ Disconnect
  BY <1>4
  DEF DisableConnected, DisableUnconnected, DisableCommon, Disconnect, Calls,
      OnlyStreamsPreferBt
<1>5. CASE RequestAudioSuspend \/ SendAvrcPassthrough \/ DrainDone
  BY <1>5
  DEF RequestAudioSuspend, SendAvrcPassthrough, DrainDone, coexVars, Calls
<1>6. CASE LoopTop
  BY <1>6
  DEF LoopTop, CheckCoex, CheckDeinitDeadline, SetCoexPreference, PreferBt
<1>7. CASE HandleConnected
  BY <1>7 DEF HandleConnected, ApplyWifiPause
<1>8. CASE HandleDisconnectedPending
  BY <1>8 DEF HandleDisconnectedPending
<1>9. CASE HandleDisconnected
  BY <1>9
  DEF HandleDisconnected, EndSession, DisarmCoex, SetCoexPreferenceIf,
      SetCoexPreference, PreferWifi, ApplyWifiPause
<1>10. CASE HandleAudioStarted
  BY <1>10 DEF HandleAudioStarted
<1>11. CASE HandleAudioStopped
  BY <1>11
  DEF HandleAudioStopped, DisarmCoex, SetCoexPreferenceIf, SetCoexPreference,
      PreferWifi
<1>12. CASE HandleCtConnected \/ HandleCtDisconnected \/ HandleTrackChanged
            \/ HandleNothingNew
  BY <1>12
  DEF HandleCtConnected, HandleCtDisconnected, HandleTrackChanged,
      HandleNothingNew
<1>13. CASE UNCHANGED <<coexVars, hubVars>>
  BY <1>13 DEF coexVars, hubVars
<1>14. CASE WifiStep
  BY <1>14 DEF WifiStep, WifiStarts, WifiLoop, hubVars
<1>15. QED
  BY <1>1, <1>2, <1>3, <1>4, <1>5, <1>6, <1>7, <1>8, <1>9, <1>10, <1>11,
     <1>12, <1>13, <1>14
  DEF Next, Command, Handle, vars

\* The arbiter prefers Bluetooth, or is about to, only while audio streams, and
\* the Wi-Fi sources are paused only while a phone is connected, even when the
\* queue loses records.
THEOREM CoexCorrect == OnlyStreamsPreferBt /\ Spec => []CoexOnlyWhileStreaming
<1>1. Init => CoexInv
  BY DEF Init, HubRamInit, CoexInit, CoexInv
<1>2. OnlyStreamsPreferBt /\ TypeOK /\ CoexInv /\ [Next]_vars
        => OnlyStreamsPreferBt' /\ CoexInv'
  BY CoexPreserved DEF OnlyStreamsPreferBt
<1>3. CoexInv => CoexOnlyWhileStreaming
  BY DEF CoexInv, CoexOnlyWhileStreaming
<1>4. QED
  BY <1>1, <1>2, <1>3, TypeCorrect, PTL DEF Spec
=============================================================================
