---------------------------- MODULE PartsProofs ----------------------------
(***************************************************************************)
(* Machine-checked proofs about the parts beside the hub, run side by side *)
(* as the sensors, the title, the volume, the codec configuration, the PCM *)
(* ring buffer and the timers are: every part keeps its variables in their *)
(* ranges, what is proved of a part alone holds of it there, hub and       *)
(* automations have the volume the phone set, and the sensors show the     *)
(* phone and its title once nothing is left to come.                       *)
(***************************************************************************)
EXTENDS MCParts, AudioConfigProofs, PcmRingProofs, TimersProofs

-----------------------------------------------------------------------------
(* A queue without its head.                                               *)

LEMMA RestOfQueue ==
  ASSUME NEW S, NEW queue \in Seq(S), queue # << >>
  PROVE  \E m \in Nat :
           /\ Len(queue) = m + 1 /\ Len(Tail(queue)) = m
           /\ Head(queue) = queue[1] /\ (Tail(queue) = << >> <=> m = 0)
           /\ \A i \in 1 .. m : Tail(queue)[i] = queue[i + 1]
<1>1. Len(queue) - 1 \in Nat
  OBVIOUS
<1>2. PICK m \in Nat : m = Len(queue) - 1
  BY <1>1
<1>3. Len(queue) = m + 1 /\ Len(Tail(queue)) = m /\ Head(queue) = queue[1]
  BY <1>2
<1>4. Tail(queue) = << >> <=> m = 0
  BY <1>2
<1>5. \A i \in 1 .. m : Tail(queue)[i] = queue[i + 1]
  BY <1>2
<1>6. QED
  BY <1>3, <1>4, <1>5

LEMMA LastOfRest ==
  ASSUME NEW S, NEW queue \in Seq(S), Len(queue) > 1
  PROVE  /\ Tail(queue) \in Seq(S) /\ Tail(queue) # << >>
         /\ Tail(queue)[Len(Tail(queue))] = queue[Len(queue)]
<1>1. queue # << >> /\ Tail(queue) \in Seq(S)
  OBVIOUS
<1>2. PICK m \in Nat :
        /\ Len(queue) = m + 1 /\ Len(Tail(queue)) = m
        /\ Head(queue) = queue[1] /\ (Tail(queue) = << >> <=> m = 0)
        /\ \A i \in 1 .. m : Tail(queue)[i] = queue[i + 1]
  BY <1>1, RestOfQueue
<1>3. m \in 1 .. m
  BY <1>2
<1>4. QED
  BY <1>1, <1>2, <1>3

-----------------------------------------------------------------------------
(* The volume.                                                             *)

\* The volume the hub is going to have once its queue is empty.
Settled ==
  IF volume_records = << >> THEN avrcp_volume
                            ELSE volume_records[Len(volume_records)]

VolumeInv ==
  /\ volume_records \in Seq(Volumes)
  /\ trigger_volume = avrcp_volume
  /\ set_volume = Settled
  /\ told_stale \in BOOLEAN
  /\ ~told_stale => phone_volume = set_volume

LEMMA VolumePreserved ==
  ASSUME VolumeInv, [VolumeNext]_volumeVars
  PROVE  VolumeInv'
<1> USE DEF VolumeInv, Settled
<1>1. ASSUME NEW v \in Volumes, SetAbsoluteVolume(v) PROVE VolumeInv'
  <2>1. /\ volume_records' = Append(volume_records, v)
        /\ set_volume' = v /\ phone_volume' = v
        /\ UNCHANGED <<avrcp_volume, trigger_volume>>
        /\ told_stale' = FALSE
    BY <1>1 DEF SetAbsoluteVolume, PostVolume
  <2>2. /\ volume_records' \in Seq(Volumes) /\ volume_records' # << >>
        /\ volume_records'[Len(volume_records')] = v
    BY <2>1
  <2>3. QED
    BY <2>1, <2>2
<1>2. CASE RegisterVolume
  BY <1>2 DEF RegisterVolume
<1>3. CASE VolumeChanged
  <2>1. /\ volume_records' = Tail(volume_records)
        /\ avrcp_volume' = Head(volume_records) /\ trigger_volume' = avrcp_volume'
        /\ volume_records # << >>
        /\ UNCHANGED <<set_volume, phone_volume, told_stale>>
    BY <1>3 DEF VolumeChanged
  <2>2. CASE Len(volume_records) = 1
    <3>1. volume_records' = << >> /\ Head(volume_records) = volume_records[1]
      BY <2>1, <2>2
    <3>2. QED
      BY <2>1, <2>2, <3>1
  <2>3. CASE Len(volume_records) > 1
    <3>1. /\ volume_records' \in Seq(Volumes) /\ volume_records' # << >>
          /\ volume_records'[Len(volume_records')]
               = volume_records[Len(volume_records)]
      BY <2>1, <2>3, LastOfRest
    <3>2. QED
      BY <2>1, <3>1
  <2>4. QED
    BY <2>1, <2>2, <2>3
<1>4. CASE UNCHANGED volumeVars
  BY <1>4 DEF volumeVars
<1>5. QED
  BY <1>1, <1>2, <1>3, <1>4 DEF VolumeNext

\* Whatever is set, asked for and still queued: once the queue is empty the hub
\* and the automations have the volume the phone last set.  The phone shows it
\* too unless it registered while a volume it had set was still queued: then it
\* was told an older one.
THEOREM VolumeCorrect == VolumeSpec => []VolumeAgreed
<1>1. VolumeInit => VolumeInv
  <2>1. << >> \in Seq(Volumes)
    OBVIOUS
  <2>2. QED
    BY <2>1 DEF VolumeInit, VolumeInv, Settled
<1>2. VolumeInv /\ [VolumeNext]_volumeVars => VolumeInv'
  BY VolumePreserved
<1>3. VolumeInv => VolumeAgreed
  BY DEF VolumeInv, Settled, VolumeAgreed
<1>4. QED
  BY <1>1, <1>2, <1>3, PTL DEF VolumeSpec

-----------------------------------------------------------------------------
(* Ranges.  Every queue is appended to and taken from at its head.         *)

LEMMA QueueTyped ==
  ASSUME NEW S, NEW queue \in Seq(S)
  PROVE  /\ \A e \in S : Append(queue, e) \in Seq(S)
         /\ queue # << >> => Head(queue) \in S /\ Tail(queue) \in Seq(S)
  OBVIOUS

LEMMA AnnTypePreserved ==
  ASSUME AnnTypeOK, [AnnNext]_annVars
  PROVE  AnnTypeOK'
<1> USE DEF AnnTypeOK, phoneVars, shownVars, TellConnection
<1>0. NoName \in Phones \cup {NoName} /\ TRUE \in BOOLEAN /\ FALSE \in BOOLEAN
  OBVIOUS
<1>1. ASSUME NEW type \in {"CONNECTED", "DISCONNECTED", "PEER_NAME_UPDATED"},
             NEW p \in Phones \cup {NoName}, Record(type, p)
      PROVE  records' \in Seq(AnnRecords)
  <2>1. [type |-> type, phone |-> p] \in AnnRecords
    BY DEF AnnRecords
  <2>2. QED
    BY <1>1, <2>1, QueueTyped DEF Record
<1>2. ASSUME NEW type, NextRecord(type)
      PROVE  /\ records' \in Seq(AnnRecords)
             /\ Head(records).phone \in Phones \cup {NoName}
  <2>1. Head(records) \in AnnRecords /\ Tail(records) \in Seq(AnnRecords)
    BY <1>2, QueueTyped DEF NextRecord
  <2>2. QED
    BY <1>2, <2>1 DEF NextRecord, AnnRecords
<1>3. ASSUME NEW p \in Phones, PhoneConnects(p) PROVE AnnTypeOK'
  <2>1. records' \in Seq(AnnRecords)
    BY <1>1, <1>3 DEF PhoneConnects
  <2>2. name_requests' \in Seq(Phones)
    BY <1>3, QueueTyped DEF PhoneConnects
  <2>3. QED
    BY <1>3, <2>1, <2>2 DEF PhoneConnects
<1>4. CASE PhoneLeaves
  <2>1. records' \in Seq(AnnRecords)
    BY <1>0, <1>1, <1>4 DEF PhoneLeaves
  <2>2. QED
    BY <1>4, <2>1 DEF PhoneLeaves
<1>5. CASE AnswerName
  <2>1. Head(name_requests) \in Phones /\ name_requests' \in Seq(Phones)
    BY <1>5, QueueTyped DEF AnswerName, NameAnswered, NameFails
  <2>2. records' \in Seq(AnnRecords)
    BY <1>1, <1>5, <2>1 DEF AnswerName, NameAnswered, NameFails
  <2>3. QED
    BY <1>5, <2>1, <2>2 DEF AnswerName, NameAnswered, NameFails
<1>6. CASE ConnectedRecord
  <2>1. /\ records' \in Seq(AnnRecords)
        /\ Head(records).phone \in Phones \cup {NoName}
    BY <1>2, <1>6 DEF ConnectedRecord
  <2>2. QED
    BY <1>6, <2>1 DEF ConnectedRecord, NextRecord
<1>7. CASE DisconnectedRecord
  <2>1. records' \in Seq(AnnRecords)
    BY <1>2, <1>7 DEF DisconnectedRecord
  <2>2. QED
    BY <1>7, <2>1 DEF DisconnectedRecord, NextRecord
<1>8. CASE PeerNameRecord
  <2>1. /\ records' \in Seq(AnnRecords)
        /\ Head(records).phone \in Phones \cup {NoName}
    BY <1>2, <1>8 DEF PeerNameRecord
  <2>2. QED
    BY <1>8, <2>1 DEF PeerNameRecord, NextRecord
<1>9. CASE DisconnectCall
  BY <1>9 DEF DisconnectCall
<1>10. CASE UNCHANGED annVars
  BY <1>10 DEF annVars
<1>11. QED
  BY <1>3, <1>4, <1>5, <1>6, <1>7, <1>8, <1>9, <1>10 DEF AnnNext, HandleRecord

AvrcRecord == [type: EventTypes, title: Tracks \cup {NoTrack}]

LEMMA AvrcTypePreserved ==
  ASSUME AvrcTypeOK, [AvrcNext]_avrcVars
  PROVE  AvrcTypeOK'
<1> USE DEF AvrcTypeOK, sourceVars, titleVars
<1>0. NoTrack \in Tracks \cup {NoTrack} /\ events \in Seq(AvrcRecord)
  BY DEF AvrcRecord
<1>1. ASSUME NEW type \in EventTypes, NEW title \in Tracks \cup {NoTrack},
             Send(type, title)
      PROVE  events' \in Seq(AvrcRecord)
  <2>1. [type |-> type, title |-> title] \in AvrcRecord
    BY DEF AvrcRecord
  <2>2. QED
    BY <1>0, <1>1, <2>1, QueueTyped DEF Send
<1>2. ASSUME NEW type, Take(type)
      PROVE  /\ events' \in Seq(AvrcRecord)
             /\ Head(events).title \in Tracks \cup {NoTrack}
  <2>1. Head(events) \in AvrcRecord /\ Tail(events) \in Seq(AvrcRecord)
    BY <1>0, <1>2, QueueTyped DEF Take
  <2>2. QED
    BY <1>2, <2>1 DEF Take, AvrcRecord
<1>3. ASSUME NEW commands \in Seq({"metadata", "register"}), Request(commands)
      PROVE  requests' \in Seq({"metadata", "register"})
  BY <1>3 DEF Request
<1>4. {<< >>, <<"register">>, <<"metadata", "register">>}
        \subseteq Seq({"metadata", "register"})
  OBVIOUS
<1>5. CASE SessionUp \/ SessionDown
  <2>1. events' \in Seq(AvrcRecord)
    BY <1>0, <1>1, <1>5 DEF SessionUp, SessionDown, EventTypes
  <2>2. QED
    BY <1>5, <2>1 DEF SessionUp, SessionDown, AvrcRecord
<1>6. CASE PlaybackChanges
  <2>1. events' \in Seq(AvrcRecord)
    BY <1>0, <1>1, <1>6 DEF PlaybackChanges, EventTypes
  <2>2. QED
    BY <1>6, <2>1 DEF PlaybackChanges, AvrcRecord
<1>7. CASE ChannelChanges
  <2>1. events' \in Seq(AvrcRecord)
    BY <1>0, <1>1, <1>7 DEF ChannelChanges, EventTypes
  <2>2. QED
    BY <1>4, <1>7, <2>1 DEF ChannelChanges, AvrcRecord
<1>8. CASE TrackTurns
  <2>1. events' \in Seq(AvrcRecord)
    BY <1>0, <1>1, <1>8 DEF TrackTurns, EventTypes
  <2>2. track' \in Tracks
    BY <1>8 DEF TrackTurns
  <2>3. QED
    BY <1>8, <2>1, <2>2 DEF TrackTurns, AvrcRecord
<1>9. CASE PhoneAnswers
  <2>1. events' \in Seq(AvrcRecord)
    BY <1>0, <1>1, <1>9 DEF PhoneAnswers, EventTypes
  <2>2. requests' \in Seq({"metadata", "register"}) /\ registered' \in BOOLEAN
    BY <1>9, QueueTyped DEF PhoneAnswers
  <2>3. QED
    BY <1>9, <2>1, <2>2 DEF PhoneAnswers, AvrcRecord
<1>10. CASE RefreshDue
  <2>1. requests' \in Seq({"metadata", "register"})
    BY <1>3, <1>4, <1>10 DEF RefreshDue
  <2>2. QED
    BY <1>10, <2>1 DEF RefreshDue
<1>11. CASE Button \/ DisconnectNow
  BY <1>11 DEF Button, DisconnectNow
<1>12. CASE TakeTrackChanged
  <2>1. requests' \in Seq({"metadata", "register"})
    BY <1>3, <1>4, <1>12 DEF TakeTrackChanged
  <2>2. events' \in Seq(AvrcRecord)
    BY <1>2, <1>12 DEF TakeTrackChanged
  <2>3. QED
    BY <1>12, <2>1, <2>2 DEF TakeTrackChanged, Take, AvrcRecord
<1>13. CASE TakeMetadata
  <2>1. /\ events' \in Seq(AvrcRecord)
        /\ Head(events).title \in Tracks \cup {NoTrack}
    BY <1>2, <1>13 DEF TakeMetadata
  <2>2. QED
    BY <1>13, <2>1 DEF TakeMetadata, Take, AvrcRecord
<1>14. CASE \/ TakeConnected \/ TakeDisconnected \/ TakeAudioStarted
            \/ TakeAudioStopped \/ TakeChannel
  <2>1. events' \in Seq(AvrcRecord)
    BY <1>2, <1>14
    DEF TakeConnected, TakeDisconnected, TakeAudioStarted, TakeAudioStopped,
        TakeChannel
  <2>2. QED
    BY <1>0, <1>14, <2>1
    DEF TakeConnected, TakeDisconnected, TakeAudioStarted, TakeAudioStopped,
        TakeChannel, Take, AvrcRecord
<1>15. CASE UNCHANGED avrcVars
  BY <1>15 DEF avrcVars
<1>16. QED
  BY <1>5, <1>6, <1>7, <1>8, <1>9, <1>10, <1>11, <1>12, <1>13, <1>14, <1>15
  DEF AvrcNext, TakeEvent

LEMMA VolumeTypePreserved ==
  ASSUME VolumeTypeOK, [VolumeNext]_volumeVars
  PROVE  VolumeTypeOK'
<1> USE DEF VolumeTypeOK
<1>1. ASSUME NEW v \in Volumes, SetAbsoluteVolume(v) PROVE VolumeTypeOK'
  BY <1>1, QueueTyped DEF SetAbsoluteVolume, PostVolume
<1>2. CASE RegisterVolume
  BY <1>2 DEF RegisterVolume
<1>3. CASE VolumeChanged
  BY <1>3, QueueTyped DEF VolumeChanged
<1>4. CASE UNCHANGED volumeVars
  BY <1>4 DEF volumeVars
<1>5. QED
  BY <1>1, <1>2, <1>3, <1>4 DEF VolumeNext

\* The rates and channels of any five bytes, on their way and where they arrive.
LEMMA ConfigTypePreserved ==
  ASSUME ConfigInv, ConfigTypeOK, [ConfigNext]_configVars
  PROVE  ConfigTypeOK'
<1>1. /\ config \in SbcConfig /\ AudioCfg(config).bits_per_sample = 16
      /\ AudioCfg(config).sample_rate \in {0, 16000, 32000, 44100, 48000}
      /\ AudioCfg(config).channels \in {1, 2}
  BY SampleRates, FormatValues DEF ConfigInv, SbcConfig, AudioCfg
<1>2. CASE AudioCfgEvent
  BY <1>1, <1>2 DEF ConfigTypeOK, AudioCfgEvent
<1>3. CASE HandleAudioCfg
  BY <1>1, <1>3
  DEF ConfigInv, ConfigTypeOK, HandleAudioCfg, SinkKeeps, PublishParameters
<1>4. CASE UNCHANGED configVars
  BY <1>4 DEF ConfigTypeOK, configVars
<1>5. QED
  BY <1>2, <1>3, <1>4 DEF ConfigNext

LEMMA RingTypePreserved ==
  ASSUME RingTypeOK, [RingNext]_ringVars
  PROVE  RingTypeOK'
<1>1. RingTyped'
  BY RingTypedPreserved DEF RingTypeOK, RingTyped
<1>2. output_enabled' \in BOOLEAN
  <2>1. \/ output_enabled' = output_enabled
        \/ output_enabled' = ~output_enabled
    BY DEF RingNext, AudioData, Write, Measure, ReaderTakes, ResetBuffer,
           SetAudioOutput, ringVars
  <2>2. QED
    BY <2>1 DEF RingTypeOK
<1>3. QED
  BY <1>1, <1>2 DEF RingTypeOK, RingTyped

-----------------------------------------------------------------------------
(* The parts side by side.                                                 *)

LEMMA PartsStep ==
  ASSUME [PartsNext]_partVars
  PROVE  /\ [AnnNext]_annVars /\ [AvrcNext]_avrcVars /\ [VolumeNext]_volumeVars
         /\ [ConfigNext]_configVars /\ [RingNext]_ringVars
         /\ [TimerNext]_timerVars
  BY DEF PartsNext, partVars

LEMMA PartsStart ==
  ASSUME PartsInit
  PROVE  PartsTypeOK /\ ConfigInv
<1> USE DEF PartsInit
<1>0. \A S : << >> \in Seq(S)
  OBVIOUS
<1>1. AnnTypeOK
  <2>1. AnnInit
    OBVIOUS
  <2>2. QED
    BY <1>0, <2>1 DEF AnnInit, AnnTypeOK
<1>2. AvrcTypeOK
  <2>1. AvrcInit
    OBVIOUS
  <2>2. QED
    BY <1>0, <2>1 DEF AvrcInit, AvrcTypeOK
<1>3. VolumeTypeOK
  <2>1. VolumeInit
    OBVIOUS
  <2>2. QED
    BY <1>0, <2>1, VolumesAssumption DEF VolumeInit, VolumeTypeOK
<1>4. ConfigTypeOK /\ ConfigInv
  BY ConfigsAssumption DEF ConfigInit, ConfigTypeOK, ConfigInv
<1>5. RingTypeOK
  BY RingBytesAssumption DEF RingInit, RingTypeOK
<1>6. TimerTypeOK
  <2>1. TimerInit
    OBVIOUS
  <2>2. 0 \in 0 .. W - 1 /\ 0 \in 0 .. SLACK /\ 0 \in 0 .. W /\ 0 \in 0 .. 2 * W
    BY ClockAssumption
  <2>3. QED
    BY <2>1, <2>2 DEF TimerInit, TimerTypeOK
<1>7. QED
  BY <1>1, <1>2, <1>3, <1>4, <1>5, <1>6 DEF PartsTypeOK

\* Every part keeps its variables in their ranges, for any phones, tracks,
\* volumes, configurations, sizes and clocks.
THEOREM PartsTypeCorrect == PartsSpec => []PartsTypeOK
<1>1. PartsInit => PartsTypeOK /\ ConfigInv
  BY PartsStart
<1>2. PartsTypeOK /\ ConfigInv /\ [PartsNext]_partVars
        => PartsTypeOK' /\ ConfigInv'
  BY PartsStep, AnnTypePreserved, AvrcTypePreserved, VolumeTypePreserved,
     ConfigPreserved, ConfigTypePreserved, RingTypePreserved, TimerTypePreserved
  DEF PartsTypeOK
<1>3. QED
  BY <1>1, <1>2, PTL DEF PartsSpec

\* What is proved of a part alone holds of the parts side by side: a behaviour
\* of all is one of each.
THEOREM PartsCorrect ==
  PartsSpec => /\ []VolumeAgreed /\ []BitrateEstimated
               /\ []DropsAccounted /\ []HighWaterTrue
               /\ DeadlineKept /\ ElapsedKept
<1>1. PartsInit => VolumeInit /\ ConfigInit /\ RingInit /\ TimerInit
  BY DEF PartsInit
<1>2. [PartsNext]_partVars
        => /\ [VolumeNext]_volumeVars /\ [ConfigNext]_configVars
           /\ [RingNext]_ringVars /\ [TimerNext]_timerVars
  BY PartsStep
<1>3. PartsSpec => VolumeSpec /\ ConfigSpec /\ RingSpec /\ TimerSpec
  BY <1>1, <1>2, PTL DEF PartsSpec, VolumeSpec, ConfigSpec, RingSpec, TimerSpec
<1>4. QED
  BY <1>3, VolumeCorrect, BitrateCorrect, DropsCorrect, HighWaterCorrect,
     DeadlineCorrect, ElapsedCorrect

-----------------------------------------------------------------------------
(* The sensors of the connection.  A CONNECTED counts only for a hub that    *)
(* has seen the end of the connection before it.                           *)

EndsBetween(i, j) == \E k \in i + 1 .. j - 1 : records[k].type = "DISCONNECTED"

Connects(i) == records[i].type = "CONNECTED"

\* At the record j the hub has no connection, when it gets there.
ConnectionOver(j) ==
  /\ hub_connected => EndsBetween(0, j)
  /\ \A i \in 1 .. j - 1 : Connects(i) => EndsBetween(i, j)

\* The hub has the phone, or is going to have it.
PhoneKnown ==
  \/ hub_connected /\ last_phone = phone /\ ~EndsBetween(0, Len(records) + 1)
  \/ \E i \in 1 .. Len(records) :
       /\ Connects(i) /\ records[i].phone = phone
       /\ ~EndsBetween(i, Len(records) + 1)

\* The last name asked for, queued or shown is the phone's.
NameKnown ==
  IF name_requests # << >> THEN name_requests[Len(name_requests)] = phone
  ELSE IF records # << >>
    THEN /\ records[Len(records)].type = "PEER_NAME_UPDATED"
         /\ records[Len(records)].phone = phone
    ELSE name_sensor = phone

SensorInv ==
  /\ binary_sensor = hub_connected
  /\ \A j \in 1 .. Len(records) : Connects(j) => ConnectionOver(j)
  /\ phone_link = "down" => ConnectionOver(Len(records) + 1)
  /\ phone_link = "up" => PhoneKnown /\ NameKnown

LEMMA RecordPosted ==
  ASSUME AnnTypeOK, NEW type, NEW p, Record(type, p)
  PROVE  /\ Len(records) \in Nat /\ Len(records') = Len(records) + 1
         /\ records' # << >>
         /\ \A i \in 1 .. Len(records) : records'[i] = records[i]
         /\ records'[Len(records')].type = type /\ records'[Len(records')].phone = p
  BY DEF AnnTypeOK, Record

LEMMA RecordTaken ==
  ASSUME AnnTypeOK, NEW type, NextRecord(type)
  PROVE  /\ Len(records) \in Nat \ {0} /\ Len(records') = Len(records) - 1
         /\ records[1].type = type /\ Head(records) = records[1]
         /\ \A i \in 1 .. Len(records') : records'[i] = records[i + 1]
         /\ \A i \in 2 .. Len(records) :
              i - 1 \in 1 .. Len(records') /\ records'[i - 1] = records[i]
         /\ records' # << >> =>
              records'[Len(records')] = records[Len(records)]
         /\ records' = << >> <=> Len(records) = 1
         /\ UNCHANGED <<phone_link, phone, name_requests>>
<1>1. PICK n \in Nat : Len(records) = n + 1
  BY DEF AnnTypeOK, NextRecord
<1>2. /\ records \in Seq(AnnRecords) /\ records # << >> /\ records' = Tail(records)
      /\ Head(records).type = type /\ UNCHANGED <<phone_link, phone, name_requests>>
  BY DEF AnnTypeOK, NextRecord, phoneVars
<1>3. /\ Len(records') = n /\ Head(records) = records[1]
      /\ \A i \in 1 .. n : records'[i] = records[i + 1]
  BY <1>1, <1>2
<1>4. records' = << >> <=> n = 0
  BY <1>1, <1>2
<1>5. \A i \in 2 .. n + 1 : i - 1 \in 1 .. n /\ records'[i - 1] = records[i]
  BY <1>3
<1>6. QED
  BY <1>1, <1>2, <1>3, <1>4, <1>5

\* A record is posted that changes nothing the hub has.
LEMMA PostedOver ==
  ASSUME AnnTypeOK, NEW type, NEW p, Record(type, p),
         hub_connected' => hub_connected, NEW n \in Nat, n = Len(records)
  PROVE  /\ \A j \in 1 .. n + 1 : ConnectionOver(j) => ConnectionOver(j)'
         /\ type = "DISCONNECTED" => ConnectionOver(n + 2)'
         /\ \A i \in 0 .. n : type # "DISCONNECTED" =>
              (EndsBetween(i, n + 2)' <=> EndsBetween(i, n + 1))
<1>1. /\ Len(records') = n + 1 /\ records'[n + 1].type = type
      /\ \A i \in 1 .. n : records'[i] = records[i]
  BY RecordPosted
<1>2. \A i \in 0 .. n, j \in 1 .. n + 1 : EndsBetween(i, j)' <=> EndsBetween(i, j)
  BY <1>1 DEF EndsBetween
<1>3. ASSUME NEW j \in 1 .. n + 1, ConnectionOver(j) PROVE ConnectionOver(j)'
  <2>1. \A i \in 1 .. j - 1 : Connects(i)' = Connects(i)
    BY <1>1 DEF Connects
  <2>2. QED
    BY <1>2, <1>3, <2>1 DEF ConnectionOver
<1>4. ASSUME type = "DISCONNECTED" PROVE ConnectionOver(n + 2)'
  <2>1. ~Connects(n + 1)'
    BY <1>1, <1>4 DEF Connects
  <2>2. \A i \in 0 .. n : n + 1 \in i + 1 .. n + 2 - 1
    OBVIOUS
  <2>3. \A i \in 0 .. n : EndsBetween(i, n + 2)'
    BY <1>1, <1>4, <2>2 DEF EndsBetween
  <2>4. QED
    BY <2>1, <2>3 DEF ConnectionOver
<1>5. ASSUME type # "DISCONNECTED", NEW i \in 0 .. n
      PROVE  EndsBetween(i, n + 2)' <=> EndsBetween(i, n + 1)
  BY <1>1, <1>5 DEF EndsBetween
<1>6. QED
  BY <1>3, <1>4, <1>5

LEMMA PostedKnown ==
  ASSUME AnnTypeOK, NEW type, NEW p, Record(type, p), type # "DISCONNECTED",
         UNCHANGED <<hub_connected, last_phone, phone>>, PhoneKnown
  PROVE  PhoneKnown'
<1>1. PICK n \in Nat : n = Len(records)
  BY RecordPosted
<1>2. /\ Len(records') = n + 1
      /\ \A i \in 1 .. n : records'[i] = records[i]
  BY <1>1, RecordPosted
<1>3. \A i \in 0 .. n : ~EndsBetween(i, n + 1) => ~EndsBetween(i, (n + 1) + 1)'
  <2>1. \A i \in 0 .. n : ~EndsBetween(i, n + 1) => ~EndsBetween(i, n + 2)'
    BY <1>1, PostedOver
  <2>2. (n + 1) + 1 = n + 2
    OBVIOUS
  <2>3. QED
    BY <2>1, <2>2
<1>4. CASE hub_connected /\ last_phone = phone /\ ~EndsBetween(0, n + 1)
  <2>1. ~EndsBetween(0, (n + 1) + 1)'
    BY <1>3, <1>4
  <2>2. QED
    BY <1>2, <1>4, <2>1 DEF PhoneKnown
<1>5. ASSUME NEW i \in 1 .. n, Connects(i), records[i].phone = phone,
             ~EndsBetween(i, n + 1)
      PROVE  PhoneKnown'
  <2>1. ~EndsBetween(i, (n + 1) + 1)'
    BY <1>3, <1>5
  <2>2. Connects(i)' /\ records'[i].phone = phone'
    BY <1>2, <1>5 DEF Connects
  <2>3. QED
    BY <1>2, <2>1, <2>2 DEF PhoneKnown
<1>6. QED
  BY <1>1, <1>4, <1>5 DEF PhoneKnown

\* The first record is taken by a hub that connects, or does not.
LEMMA TakenOver ==
  ASSUME AnnTypeOK, NEW type, NextRecord(type),
         \/ type = "CONNECTED"
         \/ type = "DISCONNECTED" /\ ~hub_connected'
         \/ type = "PEER_NAME_UPDATED" /\ hub_connected' = hub_connected,
         NEW n \in Nat, Len(records) = n + 1
  PROVE  /\ \A j \in 1 .. n + 1 : ConnectionOver(j + 1) => ConnectionOver(j)'
         /\ \A i \in 1 .. n + 1 :
              EndsBetween(i - 1, n + 1)' <=> EndsBetween(i, (n + 1) + 1)
<1>1. /\ Len(records') = n /\ records[1].type = type
      /\ \A i \in 1 .. n : records'[i] = records[i + 1]
      /\ \A i \in 2 .. n + 1 : i - 1 \in 1 .. n /\ records'[i - 1] = records[i]
  BY RecordTaken
<1>2. ASSUME NEW i \in 1 .. n + 1, NEW j \in 1 .. n + 1
      PROVE  EndsBetween(i - 1, j)' <=> EndsBetween(i, j + 1)
  <2>1. ASSUME NEW k \in i .. j - 1, records'[k].type = "DISCONNECTED"
        PROVE  EndsBetween(i, j + 1)
    <3>1. k + 1 \in i + 1 .. (j + 1) - 1 /\ records[k + 1].type = "DISCONNECTED"
      BY <1>1, <2>1
    <3>2. QED
      BY <3>1 DEF EndsBetween
  <2>2. ASSUME NEW k \in i + 1 .. j, records[k].type = "DISCONNECTED"
        PROVE  EndsBetween(i - 1, j)'
    <3>1. /\ k - 1 \in (i - 1) + 1 .. j - 1
          /\ records'[k - 1].type = "DISCONNECTED"
      BY <1>1, <2>2
    <3>2. QED
      BY <3>1 DEF EndsBetween
  <2>3. i + 1 .. j = i + 1 .. (j + 1) - 1 /\ i .. j - 1 = (i - 1) + 1 .. j - 1
    OBVIOUS
  <2>4. QED
    BY <2>1, <2>2, <2>3 DEF EndsBetween
<1>3. ASSUME NEW j \in 1 .. n + 1, ConnectionOver(j + 1) PROVE ConnectionOver(j)'
  <2>1. ASSUME hub_connected' PROVE EndsBetween(0, j)'
    <3>1. 1 - 1 = 0 /\ 1 \in 1 .. n + 1 /\ 1 \in 1 .. (j + 1) - 1
      OBVIOUS
    <3>2. EndsBetween(0, j)' <=> EndsBetween(1, j + 1)
      <4>1. EndsBetween(1 - 1, j)' <=> EndsBetween(1, j + 1)
        BY <1>2, <3>1
      <4>2. QED
        BY <3>1, <4>1
    <3>3. CASE type = "CONNECTED"
      BY <1>1, <1>3, <3>1, <3>2, <3>3 DEF ConnectionOver, Connects
    <3>4. CASE type = "PEER_NAME_UPDATED" /\ hub_connected
      <4>1. EndsBetween(0, j + 1) /\ records[1].type # "DISCONNECTED"
        BY <1>1, <1>3, <3>4 DEF ConnectionOver
      <4>2. EndsBetween(1, j + 1)
        BY <4>1 DEF EndsBetween
      <4>3. QED
        BY <3>2, <4>2
    <3>5. QED
      BY <2>1, <3>3, <3>4
  <2>2. ASSUME NEW i \in 1 .. j - 1, Connects(i)' PROVE EndsBetween(i, j)'
    <3>1. i + 1 \in 1 .. (j + 1) - 1 /\ i + 1 \in 1 .. n + 1 /\ (i + 1) - 1 = i
      BY <2>2
    <3>2. Connects(i + 1)
      BY <1>1, <2>2, <3>1 DEF Connects
    <3>3. EndsBetween(i + 1, j + 1)
      BY <1>3, <3>1, <3>2 DEF ConnectionOver
    <3>4. EndsBetween((i + 1) - 1, j)'
      BY <1>2, <3>1, <3>3
    <3>5. QED
      BY <3>1, <3>4
  <2>3. QED
    BY <2>1, <2>2 DEF ConnectionOver
<1>4. n + 1 \in 1 .. n + 1
  OBVIOUS
<1>5. QED
  BY <1>2, <1>3, <1>4

LEMMA TakenKnown ==
  ASSUME AnnTypeOK, NEW type, NextRecord(type), PhoneKnown,
         \/ type = "CONNECTED" /\ ~hub_connected /\ hub_connected'
              /\ last_phone' = Head(records).phone
         \/ type = "DISCONNECTED" /\ ~hub_connected'
         \/ type = "PEER_NAME_UPDATED" /\ UNCHANGED <<hub_connected, last_phone>>
  PROVE  PhoneKnown'
<1>1. PICK n \in Nat : Len(records) = n + 1
  BY RecordTaken
<1>2. /\ Len(records') = n /\ records[1].type = type /\ Head(records) = records[1]
      /\ \A i \in 2 .. n + 1 : i - 1 \in 1 .. n /\ records'[i - 1] = records[i]
      /\ phone' = phone
  BY <1>1, RecordTaken
<1>3. \A i \in 1 .. n + 1 : EndsBetween(i - 1, n + 1)' <=> EndsBetween(i, (n + 1) + 1)
  BY <1>1, TakenOver
<1>4. 1 \in 1 .. n + 1 /\ 1 - 1 = 0 /\ 1 \in 0 + 1 .. ((n + 1) + 1) - 1
  OBVIOUS
<1>5. ~EndsBetween(1, (n + 1) + 1) => ~EndsBetween(0, n + 1)'
  BY <1>3, <1>4
<1>6. ASSUME NEW i \in 2 .. n + 1, Connects(i), records[i].phone = phone,
             ~EndsBetween(i, (n + 1) + 1)
      PROVE  PhoneKnown'
  <2>1. i - 1 \in 1 .. n /\ Connects(i - 1)' /\ records'[i - 1].phone = phone'
    BY <1>2, <1>6 DEF Connects
  <2>2. ~EndsBetween(i - 1, n + 1)'
    BY <1>3, <1>6
  <2>3. QED
    BY <1>2, <2>1, <2>2 DEF PhoneKnown
<1>7. CASE /\ Connects(1) /\ records[1].phone = phone
           /\ ~EndsBetween(1, (n + 1) + 1)
  <2>1. hub_connected' /\ last_phone' = phone'
    BY <1>2, <1>7 DEF Connects
  <2>2. QED
    BY <1>2, <1>5, <1>7, <2>1 DEF PhoneKnown
<1>8. CASE hub_connected /\ last_phone = phone /\ ~EndsBetween(0, (n + 1) + 1)
  <2>1. type # "DISCONNECTED"
    BY <1>2, <1>4, <1>8 DEF EndsBetween
  <2>2. hub_connected' /\ last_phone' = phone'
    BY <1>2, <1>8, <2>1
  <2>3. ~EndsBetween(1, (n + 1) + 1)
    BY <1>8 DEF EndsBetween
  <2>4. QED
    BY <1>2, <1>5, <2>2, <2>3 DEF PhoneKnown
<1>9. QED
  BY <1>1, <1>6, <1>7, <1>8 DEF PhoneKnown

LEMMA SensorsKept ==
  ASSUME AnnTypeOK, SensorInv, [AnnNext]_annVars
  PROVE  SensorInv'
<1> USE DEF shownVars
<1>0. PICK n \in Nat : n = Len(records)
  BY DEF AnnTypeOK
<1>1. ASSUME NEW p \in Phones, PhoneConnects(p) PROVE SensorInv'
  <2>1. /\ Record("CONNECTED", p) /\ UNCHANGED shownVars
        /\ phone_link = "down" /\ phone_link' = "up" /\ phone' = p
        /\ name_requests' = Append(name_requests, p)
    BY <1>1 DEF PhoneConnects
  <2>2. /\ Len(records') = n + 1
        /\ \A i \in 1 .. n : records'[i] = records[i]
        /\ records'[n + 1].type = "CONNECTED" /\ records'[n + 1].phone = p
    BY <1>0, <2>1, RecordPosted
  <2>3. \A j \in 1 .. n + 1 : ConnectionOver(j) => ConnectionOver(j)'
    BY <1>0, <2>1, PostedOver
  <2>4. ConnectionOver(n + 1)'
    BY <1>0, <2>1, <2>3 DEF SensorInv
  <2>5. \A j \in 1 .. n + 1 : Connects(j)' => ConnectionOver(j)'
    <3>1. ASSUME NEW j \in 1 .. n, Connects(j)' PROVE ConnectionOver(j)'
      BY <1>0, <2>2, <2>3, <3>1 DEF SensorInv, Connects
    <3>2. QED
      BY <2>4, <3>1
  <2>6. PhoneKnown'
    <3>1. ~EndsBetween(n + 1, (n + 1) + 1)'
      BY DEF EndsBetween
    <3>2. Connects(n + 1)' /\ records'[n + 1].phone = phone'
      BY <2>1, <2>2 DEF Connects
    <3>3. QED
      BY <2>2, <3>1, <3>2 DEF PhoneKnown
  <2>7. NameKnown'
    BY <2>1 DEF NameKnown, AnnTypeOK
  <2>8. QED
    BY <2>1, <2>2, <2>5, <2>6, <2>7 DEF SensorInv
<1>2. CASE PhoneLeaves
  <2>1. /\ Record("DISCONNECTED", NoName) /\ UNCHANGED shownVars
        /\ phone_link' = "down"
    BY <1>2 DEF PhoneLeaves
  <2>2. /\ Len(records') = n + 1
        /\ \A i \in 1 .. n : records'[i] = records[i]
        /\ records'[n + 1].type = "DISCONNECTED"
    BY <1>0, <2>1, RecordPosted
  <2>3. /\ \A j \in 1 .. n + 1 : ConnectionOver(j) => ConnectionOver(j)'
        /\ ConnectionOver(n + 2)'
    BY <1>0, <2>1, PostedOver
  <2>4. \A j \in 1 .. n + 1 : Connects(j)' => ConnectionOver(j)'
    BY <1>0, <2>2, <2>3 DEF SensorInv, Connects
  <2>5. n + 2 = (n + 1) + 1
    OBVIOUS
  <2>6. QED
    BY <2>1, <2>2, <2>3, <2>4, <2>5 DEF SensorInv
<1>3. CASE NameAnswered
  <2> DEFINE p == Head(name_requests)
  <2>1. /\ Record("PEER_NAME_UPDATED", p) /\ UNCHANGED shownVars
        /\ UNCHANGED <<phone_link, phone>>
        /\ name_requests # << >> /\ name_requests' = Tail(name_requests)
    BY <1>3 DEF NameAnswered
  <2> HIDE DEF p
  <2>2. /\ Len(records') = n + 1 /\ records' # << >>
        /\ \A i \in 1 .. n : records'[i] = records[i]
        /\ records'[n + 1].type = "PEER_NAME_UPDATED" /\ records'[n + 1].phone = p
    BY <1>0, <2>1, RecordPosted
  <2>3. \A j \in 1 .. n + 1 : ConnectionOver(j) => ConnectionOver(j)'
    BY <1>0, <2>1, PostedOver
  <2>4. \A j \in 1 .. n + 1 : Connects(j)' => ConnectionOver(j)'
    BY <1>0, <2>2, <2>3 DEF SensorInv, Connects
  <2>5. phone_link = "down" => ConnectionOver((n + 1) + 1)'
    <3>1. ASSUME ConnectionOver(n + 1) PROVE ConnectionOver(n + 2)'
      <4>1. \A i \in 0 .. n : EndsBetween(i, n + 2)' <=> EndsBetween(i, n + 1)
        BY <1>0, <2>1, PostedOver
      <4>2. hub_connected' => EndsBetween(0, n + 2)'
        BY <2>1, <3>1, <4>1 DEF ConnectionOver
      <4>3. ASSUME NEW i \in 1 .. n + 1, Connects(i)' PROVE EndsBetween(i, n + 2)'
        <5>1. i \in 1 .. n /\ Connects(i)
          BY <2>2, <4>3 DEF Connects
        <5>2. QED
          BY <3>1, <4>1, <5>1 DEF ConnectionOver
      <4>4. n + 1 = (n + 2) - 1
        OBVIOUS
      <4>5. QED
        BY <4>2, <4>3, <4>4 DEF ConnectionOver
    <3>2. n + 2 = (n + 1) + 1
      OBVIOUS
    <3>3. QED
      BY <1>0, <3>1, <3>2 DEF SensorInv
  <2>6. PhoneKnown => PhoneKnown'
    BY <2>1, PostedKnown
  <2>7. NameKnown => NameKnown'
    <3>1. PICK m \in Nat :
            /\ Len(name_requests) = m + 1 /\ Len(name_requests') = m
            /\ p = name_requests[1] /\ (name_requests' = << >> <=> m = 0)
            /\ \A i \in 1 .. m : name_requests'[i] = name_requests[i + 1]
      BY <2>1, RestOfQueue DEF AnnTypeOK, p
    <3>2. m # 0 => m \in 1 .. m
      OBVIOUS
    <3>3. QED
      BY <2>1, <2>2, <3>1, <3>2 DEF NameKnown
  <2>8. QED
    BY <2>1, <2>2, <2>4, <2>5, <2>6, <2>7 DEF SensorInv
<1>4. CASE NameFails
  <2>1. /\ UNCHANGED <<phone_link, phone, records, shownVars>>
        /\ name_requests # << >> /\ name_requests' = Tail(name_requests)
        /\ phone_link # "up" \/ phone # Head(name_requests)
    BY <1>4 DEF NameFails
  <2>2. phone_link = "up" /\ NameKnown => NameKnown'
    <3>1. PICK m \in Nat :
            /\ Len(name_requests) = m + 1 /\ Len(name_requests') = m
            /\ Head(name_requests) = name_requests[1] /\ (name_requests' = << >> <=> m = 0)
            /\ \A i \in 1 .. m : name_requests'[i] = name_requests[i + 1]
      BY <2>1, RestOfQueue DEF AnnTypeOK
    <3>2. m # 0 => m \in 1 .. m
      OBVIOUS
    <3>3. QED
      BY <2>1, <3>1, <3>2 DEF NameKnown
  <2>3. PhoneKnown' = PhoneKnown /\ \A j : ConnectionOver(j)' = ConnectionOver(j)
    BY <2>1 DEF PhoneKnown, ConnectionOver, Connects, EndsBetween
  <2>4. QED
    BY <2>1, <2>2, <2>3 DEF SensorInv, Connects
<1>5. ASSUME NEW type, NextRecord(type), binary_sensor' = hub_connected',
             \/ type = "CONNECTED"
             \/ type = "DISCONNECTED" /\ ~hub_connected'
             \/ type = "PEER_NAME_UPDATED" /\ hub_connected' = hub_connected,
             phone_link = "up" => PhoneKnown',
             type = "PEER_NAME_UPDATED" => name_sensor' = Head(records).phone
      PROVE  SensorInv'
  <2>1. PICK m \in Nat :
          /\ Len(records) = m + 1 /\ Len(records') = m
          /\ Head(records) = records[1] /\ (records' = << >> <=> m = 0)
          /\ \A i \in 1 .. m : records'[i] = records[i + 1]
    BY <1>5, RestOfQueue DEF AnnTypeOK, NextRecord
  <2>2. /\ n = m + 1 /\ (m # 0 => m \in 1 .. m)
        /\ records # << >> /\ Head(records).type = type
        /\ UNCHANGED <<phone_link, phone, name_requests>>
    BY <1>0, <1>5, <2>1 DEF NextRecord, phoneVars
  <2>3. \A j \in 1 .. m + 1 : ConnectionOver(j + 1) => ConnectionOver(j)'
    BY <1>5, <2>1, TakenOver
  <2>4. ASSUME NEW j \in 1 .. m, Connects(j)' PROVE ConnectionOver(j)'
    <3>1. j + 1 \in 1 .. n /\ j \in 1 .. n /\ Connects(j + 1)
      BY <2>1, <2>2, <2>4 DEF Connects
    <3>2. QED
      BY <1>0, <2>2, <2>3, <3>1 DEF SensorInv
  <2>5. phone_link' = "down" => ConnectionOver(m + 1)'
    BY <1>0, <2>1, <2>2, <2>3 DEF SensorInv
  <2>6. phone_link = "up" => NameKnown'
    BY <1>0, <1>5, <2>1, <2>2 DEF SensorInv, NameKnown
  <2>7. QED
    BY <1>5, <2>1, <2>2, <2>4, <2>5, <2>6 DEF SensorInv
<1>6. CASE ConnectedRecord
  <2>1. NextRecord("CONNECTED")
    BY <1>6 DEF ConnectedRecord
  <2>2. ~hub_connected
    <3>1. 1 \in 1 .. n /\ Connects(1)
      BY <1>0, <2>1, RecordTaken DEF Connects
    <3>2. ConnectionOver(1)
      BY <1>0, <3>1 DEF SensorInv
    <3>3. QED
      BY <3>2 DEF ConnectionOver, EndsBetween
  <2>3. hub_connected' /\ binary_sensor' /\ last_phone' = Head(records).phone
    BY <1>6, <2>2 DEF ConnectedRecord, TellConnection
  <2>4. phone_link = "up" => PhoneKnown'
    BY <2>1, <2>2, <2>3, TakenKnown DEF SensorInv
  <2>5. binary_sensor' = hub_connected'
    BY <1>6, <2>2 DEF ConnectedRecord, TellConnection
  <2>6. QED
    BY <1>5, <2>1, <2>4, <2>5
<1>7. CASE DisconnectedRecord
  <2>1. NextRecord("DISCONNECTED")
    BY <1>7 DEF DisconnectedRecord
  <2>2. ~hub_connected' /\ binary_sensor' = hub_connected'
    BY <1>7 DEF DisconnectedRecord, TellConnection, SensorInv
  <2>3. phone_link = "up" => PhoneKnown'
    BY <2>1, <2>2, TakenKnown DEF SensorInv
  <2>4. QED
    BY <1>5, <2>1, <2>2, <2>3
<1>8. CASE PeerNameRecord
  <2>1. /\ NextRecord("PEER_NAME_UPDATED")
        /\ UNCHANGED <<hub_connected, last_phone, binary_sensor>>
        /\ name_sensor' = Head(records).phone
    BY <1>8 DEF PeerNameRecord
  <2>2. phone_link = "up" => PhoneKnown'
    BY <2>1, TakenKnown DEF SensorInv
  <2>3. QED
    BY <1>5, <2>1, <2>2 DEF SensorInv
<1>9. CASE DisconnectCall
  <2>1. /\ UNCHANGED <<phone, name_requests, records, last_phone>>
        /\ hub_connected' = FALSE /\ binary_sensor' = FALSE
        /\ phone_link' = IF phone_link = "up" /\ phone = last_phone
                           THEN "closing" ELSE phone_link
    BY <1>9 DEF DisconnectCall, TellConnection
  <2>2. \A j : ConnectionOver(j) => ConnectionOver(j)'
    BY <2>1 DEF ConnectionOver, Connects, EndsBetween
  <2>3. ASSUME phone_link' = "up" PROVE PhoneKnown' /\ NameKnown'
    <3>1. phone_link = "up" /\ phone # last_phone
      BY <2>1, <2>3
    <3>2. PICK i \in 1 .. n : /\ Connects(i) /\ records[i].phone = phone
                              /\ ~EndsBetween(i, n + 1)
      BY <1>0, <3>1 DEF SensorInv, PhoneKnown
    <3>3. records # << >> /\ NameKnown
      BY <1>0, <3>1, <3>2 DEF SensorInv
    <3>4. NameKnown'
      BY <2>1, <3>3 DEF NameKnown
    <3>5. PhoneKnown'
      BY <1>0, <2>1, <3>2 DEF PhoneKnown, Connects, EndsBetween
    <3>6. QED
      BY <3>4, <3>5
  <2>4. QED
    BY <2>1, <2>2, <2>3 DEF SensorInv, Connects
<1>10. CASE UNCHANGED annVars
  BY <1>10
  DEF annVars, phoneVars, SensorInv, PhoneKnown, NameKnown, ConnectionOver,
      Connects, EndsBetween
<1>11. QED
  BY <1>1, <1>2, <1>3, <1>4, <1>6, <1>7, <1>8, <1>9, <1>10
  DEF AnnNext, AnswerName, HandleRecord

LEMMA SensorsQuiet ==
  ASSUME SensorInv
  PROVE  SensorsSettled
<1>1. SUFFICES ASSUME records = << >>
               PROVE  /\ phone_link = "down" => ~binary_sensor
                      /\ phone_link = "up" =>
                           /\ binary_sensor
                           /\ name_requests = << >> => name_sensor = phone
  BY DEF SensorsSettled
<1>2. Len(records) = 0
  BY <1>1
<1>3. phone_link = "down" => ~hub_connected
  BY <1>2 DEF SensorInv, ConnectionOver, EndsBetween
<1>4. phone_link = "up" => hub_connected
  BY <1>2 DEF SensorInv, PhoneKnown
<1>5. QED
  BY <1>1, <1>3, <1>4 DEF SensorInv, NameKnown

\* Whatever phones come and go, whenever their names are answered and whenever
\* disconnect() comes: with an empty queue the binary sensor tells the link, and
\* with every name answered the name sensor tells the phone.
THEOREM SensorsCorrect == PartsSpec => []SensorsSettled
<1>1. PartsInit => SensorInv
  <2>1. AnnInit => SensorInv
    <3>1. SUFFICES ASSUME AnnInit PROVE SensorInv
      OBVIOUS
    <3>2. /\ records = << >> /\ Len(records) = 0 /\ phone_link = "down"
          /\ hub_connected = FALSE /\ binary_sensor = FALSE
      BY <3>1 DEF AnnInit
    <3>3. ConnectionOver(Len(records) + 1)
      BY <3>2 DEF ConnectionOver
    <3>4. 1 .. 0 = {} /\ "down" # "up"
      OBVIOUS
    <3>5. /\ \A j \in 1 .. Len(records) : ConnectionOver(j)
          /\ ~(phone_link = "up") /\ binary_sensor = hub_connected
      BY <3>2, <3>4
    <3>6. QED
      BY <3>3, <3>5, Zenon DEF SensorInv
  <2>2. QED
    BY <2>1 DEF PartsInit
<1>2. PartsTypeOK /\ SensorInv /\ [PartsNext]_partVars => SensorInv'
  BY PartsStep, SensorsKept DEF PartsTypeOK
<1>3. SensorInv => SensorsSettled
  BY SensorsQuiet
<1>4. QED
  BY <1>1, <1>2, <1>3, PartsTypeCorrect, PTL DEF PartsSpec

-----------------------------------------------------------------------------
(* The title.  Of the events still queued only their kinds matter, which of *)
(* them come later, and what the last metadata says.                       *)

EventAt(types) == \E i \in 1 .. Len(events) : events[i].type \in types

FollowedBy(types, later) ==
  \A k \in 1 .. Len(events) : events[k].type \in types
    => \E i \in k + 1 .. Len(events) : events[i].type \in later

Metadata == {"AVRCP_METADATA_UPDATED"}

LastMetadata(i) ==
  /\ events[i].type \in Metadata /\ events[i].title = track
  /\ \A k \in i + 1 .. Len(events) : events[k].type \notin Metadata

\* The title is the phone's, or is going to be.
Shown ==
  \/ title_sensor = track /\ ~EventAt(Metadata)
  \/ \E i \in 1 .. Len(events) : LastMetadata(i)

Asked(command) == \E i \in 1 .. Len(requests) : requests[i] = command

\* The commands that are out, with what was answered, will do.
Fresh ==
  /\ registered \/ Asked("register")
  /\ Asked("metadata") \/ Shown

\* A new round of commands is going to be sent: the refresh is armed or an event
\* in the queue arms it.  A stop clears it, but then a start follows that finds
\* no audio and arms it again.
RefreshAhead ==
  \/ refresh_at
  \/ EventAt({"AVRCP_CT_CONNECTED", "AVRCP_TRACK_CHANGED", "AUDIO_STOPPED"})
  \/ ~is_streaming /\ (playing => EventAt({"AUDIO_STARTED"}))

TitleInv ==
  /\ playing => FollowedBy({"AUDIO_STOPPED"}, {"AUDIO_STARTED"})
  /\ session = "up" /\ channel =>
       /\ FollowedBy({"DISCONNECTED", "AVRCP_CT_DISCONNECTED"},
                     {"AVRCP_CT_CONNECTED"})
       /\ ct_connected \/ EventAt({"AVRCP_CT_CONNECTED"})
       /\ Fresh \/ RefreshAhead

LEMMA SentEvent ==
  ASSUME AvrcTypeOK, NEW type, NEW title, Send(type, title)
  PROVE  /\ \A types : EventAt(types)' <=> EventAt(types) \/ type \in types
         /\ \A types, later :
              /\ type \in later \ types => FollowedBy(types, later)'
              /\ type \notin types /\ FollowedBy(types, later)
                   => FollowedBy(types, later)'
         /\ /\ type \notin Metadata /\ UNCHANGED <<track, title_sensor>> /\ Shown
            => Shown'
         /\ type \in Metadata /\ title = track' => Shown'
<1>1. PICK n \in Nat : n = Len(events)
  BY DEF AvrcTypeOK
<1>2. /\ Len(events') = n + 1
      /\ events'[n + 1].type = type /\ events'[n + 1].title = title
      /\ \A i \in 1 .. n : events'[i] = events[i]
  BY <1>1 DEF AvrcTypeOK, Send
<1>3. \A types : EventAt(types)' <=> EventAt(types) \/ type \in types
  BY <1>1, <1>2 DEF EventAt
<1>4. ASSUME NEW types, NEW later
      PROVE  /\ type \in later \ types => FollowedBy(types, later)'
             /\ type \notin types /\ FollowedBy(types, later)
                  => FollowedBy(types, later)'
  <2>1. ASSUME type \in later \ types PROVE FollowedBy(types, later)'
    BY <1>1, <1>2, <2>1 DEF FollowedBy
  <2>2. ASSUME type \notin types, FollowedBy(types, later)
        PROVE  FollowedBy(types, later)'
    <3>1. SUFFICES ASSUME NEW k \in 1 .. n, events[k].type \in types
                   PROVE  \E i \in k + 1 .. n + 1 : events'[i].type \in later
      BY <1>2, <2>2 DEF FollowedBy
    <3>2. PICK i \in k + 1 .. n : events[i].type \in later
      BY <1>1, <2>2, <3>1 DEF FollowedBy
    <3>3. i \in k + 1 .. n + 1 /\ i \in 1 .. n
      BY <3>1, <3>2
    <3>4. QED
      BY <1>2, <3>2, <3>3
  <2>3. QED
    BY <2>1, <2>2
<1>5. ASSUME type \notin Metadata, UNCHANGED <<track, title_sensor>>, Shown
      PROVE  Shown'
  <2>1. CASE title_sensor = track /\ ~EventAt(Metadata)
    BY <1>3, <1>5, <2>1 DEF Shown
  <2>2. ASSUME NEW i \in 1 .. n, LastMetadata(i) PROVE Shown'
    <3>1. LastMetadata(i)'
      BY <1>1, <1>2, <1>5, <2>2 DEF LastMetadata
    <3>2. QED
      BY <1>2, <3>1 DEF Shown
  <2>3. QED
    BY <1>1, <1>5, <2>1, <2>2 DEF Shown
<1>6. ASSUME type \in Metadata, title = track' PROVE Shown'
  <2>1. LastMetadata(n + 1)'
    BY <1>1, <1>2, <1>6 DEF LastMetadata
  <2>2. QED
    BY <1>2, <2>1 DEF Shown
<1>7. QED
  BY <1>3, <1>4, <1>5, <1>6

LEMMA TakenEvent ==
  ASSUME AvrcTypeOK, NEW type, Take(type)
  PROVE  /\ \A types : EventAt(types) <=> EventAt(types)' \/ type \in types
         /\ \A types, later : FollowedBy(types, later) =>
              /\ FollowedBy(types, later)'
              /\ type \in types => EventAt(later)'
         /\ /\ type \notin Metadata /\ UNCHANGED title_sensor /\ Shown
            => Shown'
         /\ /\ type \in Metadata /\ title_sensor' = Head(events).title /\ Shown
            => Shown'
<1>1. PICK n \in Nat : n = Len(events) - 1
  BY DEF AvrcTypeOK, Take
<1>2. /\ Len(events') = n /\ Len(events) = n + 1
      /\ events[1].type = type /\ Head(events) = events[1]
      /\ \A i \in 1 .. n : events'[i] = events[i + 1]
      /\ track' = track
  BY <1>1 DEF AvrcTypeOK, Take
<1>3. \A i \in 2 .. n + 1 : i - 1 \in 1 .. n /\ events'[i - 1] = events[i]
  BY <1>2
<1>4. \A types : EventAt(types) <=> EventAt(types)' \/ type \in types
  <2>1. ASSUME NEW types, EventAt(types), type \notin types PROVE EventAt(types)'
    <3>1. PICK i \in 1 .. n + 1 : events[i].type \in types
      BY <1>2, <2>1 DEF EventAt
    <3>2. i \in 2 .. n + 1
      BY <1>2, <2>1, <3>1
    <3>3. QED
      BY <1>2, <1>3, <3>1, <3>2 DEF EventAt
  <2>2. ASSUME NEW types, EventAt(types)' \/ type \in types PROVE EventAt(types)
    BY <1>2, <2>2 DEF EventAt
  <2>3. QED
    BY <2>1, <2>2
<1>5. ASSUME NEW types, NEW later, FollowedBy(types, later)
      PROVE  FollowedBy(types, later)' /\ (type \in types => EventAt(later)')
  <2>1. ASSUME NEW k \in 1 .. n + 1, events[k].type \in types
        PROVE  \E i \in 1 .. n : i >= k /\ events'[i].type \in later
    <3>1. PICK i \in k + 1 .. n + 1 : events[i].type \in later
      BY <1>2, <1>5, <2>1 DEF FollowedBy
    <3>2. i \in 2 .. n + 1 /\ i - 1 >= k
      BY <2>1, <3>1
    <3>3. QED
      BY <1>3, <3>1, <3>2
  <2>2. ASSUME NEW k \in 1 .. n, events'[k].type \in types
        PROVE  \E i \in k + 1 .. n : events'[i].type \in later
    <3>1. k + 1 \in 1 .. n + 1 /\ events[k + 1].type \in types
      BY <1>2, <2>2
    <3>2. PICK i \in 1 .. n : i >= k + 1 /\ events'[i].type \in later
      BY <2>1, <3>1
    <3>3. QED
      BY <3>2
  <2>3. type \in types => EventAt(later)'
    BY <1>2, <2>1 DEF EventAt
  <2>4. QED
    BY <1>2, <2>2, <2>3 DEF FollowedBy
<1>6. ASSUME NEW i \in 2 .. n + 1, LastMetadata(i) PROVE Shown'
  <2>1. LastMetadata(i - 1)'
    BY <1>2, <1>3, <1>6 DEF LastMetadata
  <2>2. QED
    BY <1>2, <1>3, <2>1 DEF Shown
<1>7. ASSUME type \notin Metadata, UNCHANGED title_sensor, Shown PROVE Shown'
  <2>1. CASE title_sensor = track /\ ~EventAt(Metadata)
    BY <1>2, <1>4, <1>7, <2>1 DEF Shown
  <2>2. ASSUME NEW i \in 1 .. n + 1, LastMetadata(i) PROVE Shown'
    <3>1. i \in 2 .. n + 1
      BY <1>2, <1>7, <2>2 DEF LastMetadata
    <3>2. QED
      BY <1>6, <2>2, <3>1
  <2>3. QED
    BY <1>2, <1>7, <2>1, <2>2 DEF Shown
<1>8. ASSUME type \in Metadata, title_sensor' = Head(events).title, Shown
      PROVE  Shown'
  <2>1. PICK i \in 1 .. n + 1 : LastMetadata(i)
    BY <1>2, <1>4, <1>8 DEF Shown
  <2>2. CASE i = 1
    <3>1. title_sensor' = track' /\ ~EventAt(Metadata)'
      BY <1>2, <1>8, <2>1, <2>2 DEF LastMetadata, EventAt
    <3>2. QED
      BY <3>1 DEF Shown
  <2>3. CASE i # 1
    BY <1>6, <2>1, <2>3
  <2>4. QED
    BY <2>2, <2>3
<1>9. QED
  BY <1>4, <1>5, <1>7, <1>8

LEMMA RequestAsks ==
  ASSUME AvrcTypeOK, NEW commands \in Seq({"metadata", "register"}),
         Request(commands)
  PROVE  /\ \A c : Asked(c) => Asked(c)'
         /\ ct_connected /\ channel
              => \A i \in 1 .. Len(commands) : Asked(commands[i])'
<1>1. requests \in Seq({"metadata", "register"})
  BY DEF AvrcTypeOK
<1>2. CASE ct_connected /\ channel
  <2>1. PICK n \in Nat, m \in Nat : n = Len(requests) /\ m = Len(commands)
    BY <1>1
  <2>2. /\ requests' = requests \o commands /\ Len(requests') = n + m
        /\ \A i \in 1 .. n : requests'[i] = requests[i]
        /\ \A i \in 1 .. m : requests'[n + i] = commands[i]
    BY <1>1, <1>2, <2>1 DEF Request
  <2>3. ASSUME NEW i \in 1 .. m PROVE Asked(commands[i])'
    <3>1. n + i \in 1 .. n + m
      OBVIOUS
    <3>2. QED
      BY <2>2, <3>1 DEF Asked
  <2>4. QED
    BY <2>1, <2>2, <2>3 DEF Asked
<1>3. CASE ~(ct_connected /\ channel)
  BY <1>3 DEF Request, Asked
<1>4. QED
  BY <1>2, <1>3

LEMMA AnswerTakes ==
  ASSUME AvrcTypeOK, requests # << >>, requests' = Tail(requests)
  PROVE  \A c : Asked(c) /\ c # Head(requests) => Asked(c)'
<1>1. PICK n \in Nat : n = Len(requests) - 1
  BY DEF AvrcTypeOK
<1>2. /\ Len(requests') = n /\ Len(requests) = n + 1 /\ Head(requests) = requests[1]
      /\ \A i \in 1 .. n : requests'[i] = requests[i + 1]
  BY <1>1 DEF AvrcTypeOK
<1>3. \A i \in 2 .. n + 1 : i - 1 \in 1 .. n /\ requests'[i - 1] = requests[i]
  BY <1>2
<1>4. ASSUME NEW c, Asked(c), c # Head(requests) PROVE Asked(c)'
  <2>1. PICK i \in 1 .. n + 1 : requests[i] = c
    BY <1>2, <1>4 DEF Asked
  <2>2. i \in 2 .. n + 1
    BY <1>2, <1>4, <2>1
  <2>3. QED
    BY <1>2, <1>3, <2>1, <2>2 DEF Asked
<1>5. QED
  BY <1>4

\* What the phone and its callbacks do.
LEMMA PhoneKeepsTitle ==
  ASSUME ~ChangeInGap, AvrcTypeOK, TitleInv,
         \/ SessionUp \/ SessionDown \/ PlaybackChanges \/ ChannelChanges
         \/ TrackTurns \/ PhoneAnswers
  PROVE  TitleInv'
<1> USE DEF titleVars
<1> DEFINE
  starts == FollowedBy({"AUDIO_STOPPED"}, {"AUDIO_STARTED"})
  opens == FollowedBy({"DISCONNECTED", "AVRCP_CT_DISCONNECTED"},
                      {"AVRCP_CT_CONNECTED"})
  known == ct_connected \/ EventAt({"AVRCP_CT_CONNECTED"})
<1>0. /\ playing => starts
      /\ session = "up" /\ channel => opens /\ known /\ (Fresh \/ RefreshAhead)
  BY DEF TitleInv
<1>1. CASE SessionUp
  <2>1. /\ ~channel' /\ playing' = playing
        /\ Send("CONNECTED", NoTrack)
    BY <1>1 DEF SessionUp
  <2>2. starts => starts'
    BY <2>1, SentEvent
  <2>3. QED
    BY <1>0, <2>1, <2>2, Zenon DEF TitleInv
<1>2. CASE SessionDown
  BY <1>2 DEF SessionDown, TitleInv
<1>3. ASSUME NEW type \in {"AUDIO_STARTED", "AUDIO_STOPPED"},
             Send(type, NoTrack), playing' => type = "AUDIO_STARTED",
             UNCHANGED <<session, channel, track, registered, requests, titleVars>>
      PROVE  TitleInv'
  <2>1. Send(type, NoTrack) /\ (playing' => type = "AUDIO_STARTED")
    BY <1>3
  <2>2. UNCHANGED <<session, channel, track, registered, requests, titleVars>>
    BY <1>3
  <2>3. playing' => starts'
    BY <2>1, SentEvent
  <2>4. (opens => opens') /\ (known => known')
    BY <2>1, <2>2, SentEvent
  <2>5. Fresh => Fresh'
    <3>1. Shown => Shown'
      BY <2>1, <2>2, SentEvent DEF Metadata
    <3>2. QED
      BY <2>2, <3>1 DEF Fresh, Asked
  <2>6. ASSUME RefreshAhead PROVE RefreshAhead'
    <3>1. \A types : EventAt(types) \/ type \in types => EventAt(types)'
      BY <2>1, SentEvent
    <3>2. playing' => EventAt({"AUDIO_STARTED"})'
      BY <2>1, <3>1
    <3>3. QED
      BY <2>2, <2>6, <3>1, <3>2 DEF RefreshAhead
  <2> HIDE DEF starts, opens, known
  <2>7. QED
    <3>1. session' = "up" /\ channel' => session = "up" /\ channel
      BY <2>2
    <3>2. session' = "up" /\ channel' => opens' /\ known' /\ (Fresh' \/ RefreshAhead')
      BY <1>0, <2>4, <2>5, <2>6, <3>1, Zenon
    <3>3. QED
      BY <2>3, <3>2, Zenon DEF TitleInv, starts, opens, known
<1>4. ASSUME NEW type \in {"AVRCP_CT_CONNECTED", "AVRCP_CT_DISCONNECTED"},
             Send(type, NoTrack), channel' => type = "AVRCP_CT_CONNECTED",
             UNCHANGED <<session, playing, track, titleVars>>
      PROVE  TitleInv'
  <2>1. Send(type, NoTrack) /\ (channel' => type = "AVRCP_CT_CONNECTED")
    BY <1>4
  <2>2. UNCHANGED <<session, playing, track, titleVars>>
    BY <1>4
  <2>3. starts => starts'
    BY <2>1, SentEvent
  <2>4. channel' => opens' /\ EventAt({"AVRCP_CT_CONNECTED"})' /\ RefreshAhead'
    BY <2>1, SentEvent DEF RefreshAhead
  <2>5. QED
    BY <1>0, <2>2, <2>3, <2>4, Zenon DEF TitleInv
<1>5. CASE TrackTurns
  <2>1. /\ UNCHANGED <<session, playing, channel, requests, titleVars>>
        /\ ~registered'
    BY <1>5 DEF TrackTurns
  <2>2. CASE registered
    <3>1. Send("AVRCP_TRACK_CHANGED", NoTrack)
      BY <1>5, <2>2 DEF TrackTurns
    <3>2. (starts => starts') /\ (opens => opens') /\ (known => known')
      BY <2>1, <3>1, SentEvent
    <3>3. RefreshAhead'
      BY <3>1, SentEvent DEF RefreshAhead
    <3>4. QED
      BY <1>0, <2>1, <3>2, <3>3, Zenon DEF TitleInv
  <2>3. CASE ~registered
    <3>1. events' = events /\ ~InGap
      BY <1>5, <2>3 DEF TrackTurns
    <3>2. starts' = starts /\ opens' = opens /\ known' = known
      BY <2>1, <3>1 DEF FollowedBy, EventAt
    <3>3. RefreshAhead' = RefreshAhead
      BY <2>1, <3>1 DEF RefreshAhead, EventAt
    <3>4. ASSUME Fresh PROVE Fresh' \/ RefreshAhead'
      <4>1. Asked("register") /\ requests # << >>
        BY <2>3, <3>4 DEF Fresh, Asked
      <4>2. CASE Asked("metadata")
        BY <2>1, <4>1, <4>2 DEF Fresh, Asked
      <4>3. CASE ~Asked("metadata")
        <5>1. refresh_at
          BY <2>3, <3>1, <4>1, <4>3 DEF InGap, Asked, AvrcTypeOK
        <5>2. QED
          BY <2>1, <5>1 DEF RefreshAhead
      <4>4. QED
        BY <4>2, <4>3
    <3>5. QED
      BY <1>0, <2>1, <3>2, <3>3, <3>4, Zenon DEF TitleInv
  <2>4. QED
    BY <2>2, <2>3
<1>6. CASE PhoneAnswers
  <2>1. /\ UNCHANGED <<session, playing, channel, track, titleVars>>
        /\ requests # << >> /\ requests' = Tail(requests)
    BY <1>6 DEF PhoneAnswers
  <2>2. CASE /\ Head(requests) = "metadata"
             /\ Send("AVRCP_METADATA_UPDATED", track) /\ UNCHANGED registered
    <3>1. (starts => starts') /\ (opens => opens') /\ (known => known')
      BY <2>1, <2>2, SentEvent
    <3>2. RefreshAhead => RefreshAhead'
      BY <2>1, <2>2, SentEvent DEF RefreshAhead
    <3>3. Fresh => Fresh'
      <4>1. Shown'
        BY <2>1, <2>2, SentEvent DEF Metadata
      <4>2. Asked("register") => Asked("register")'
        BY <2>1, <2>2, AnswerTakes
      <4>3. QED
        BY <2>2, <4>1, <4>2, Zenon DEF Fresh
    <3>4. QED
      BY <1>0, <2>1, <3>1, <3>2, <3>3, Zenon DEF TitleInv
  <2>3. CASE Head(requests) = "register" /\ registered' = TRUE /\ UNCHANGED events
    <3>1. starts' = starts /\ opens' = opens /\ known' = known
      BY <2>1, <2>3 DEF FollowedBy, EventAt
    <3>2. RefreshAhead' = RefreshAhead
      BY <2>1, <2>3 DEF RefreshAhead, EventAt
    <3>3. Fresh => Fresh'
      <4>1. Shown' = Shown
        BY <2>1, <2>3 DEF Shown, EventAt, LastMetadata
      <4>2. Asked("metadata") => Asked("metadata")'
        BY <2>1, <2>3, AnswerTakes
      <4>3. QED
        BY <2>3, <4>1, <4>2, Zenon DEF Fresh
    <3>4. QED
      BY <1>0, <2>1, <3>1, <3>2, <3>3, Zenon DEF TitleInv
  <2>4. QED
    BY <1>6, <2>2, <2>3 DEF PhoneAnswers
<1>7. CASE PlaybackChanges
  BY <1>3, <1>7 DEF PlaybackChanges
<1>8. CASE ChannelChanges
  BY <1>4, <1>8 DEF ChannelChanges
<1>9. QED
  BY <1>1, <1>2, <1>5, <1>6, <1>7, <1>8

\* What the main loop does.
LEMMA HubKeepsTitle ==
  ASSUME AvrcTypeOK, TitleInv,
         \/ TakeEvent \/ RefreshDue \/ Button \/ DisconnectNow
  PROVE  TitleInv'
<1> USE DEF sourceVars
<1> DEFINE
  starts == FollowedBy({"AUDIO_STOPPED"}, {"AUDIO_STARTED"})
  opens == FollowedBy({"DISCONNECTED", "AVRCP_CT_DISCONNECTED"},
                      {"AVRCP_CT_CONNECTED"})
  known == ct_connected \/ EventAt({"AVRCP_CT_CONNECTED"})
<1>0. /\ playing => starts
      /\ session = "up" /\ channel => opens /\ known /\ (Fresh \/ RefreshAhead)
  BY DEF TitleInv
<1>1. ASSUME NEW type, Take(type), starts => starts', opens => opens',
             opens /\ known => known',
             playing = playing' /\ session = session' /\ channel = channel',
             (playing => starts) /\ opens /\ known /\ (Fresh \/ RefreshAhead)
               => Fresh' \/ RefreshAhead'
      PROVE  TitleInv'
  BY <1>0, <1>1, Zenon DEF TitleInv
<1>2. ASSUME NEW type, Take(type)
      PROVE  /\ UNCHANGED <<session, playing, channel, track, registered>>
             /\ starts => starts'
             /\ opens => opens'
             /\ EventAt({"AVRCP_CT_CONNECTED"}) =>
                  EventAt({"AVRCP_CT_CONNECTED"})' \/ type = "AVRCP_CT_CONNECTED"
             /\ opens /\ type \in {"DISCONNECTED", "AVRCP_CT_DISCONNECTED"}
                  => EventAt({"AVRCP_CT_CONNECTED"})'
             /\ starts /\ type = "AUDIO_STOPPED" => EventAt({"AUDIO_STARTED"})'
  <2>1. UNCHANGED <<session, playing, channel, track, registered>>
    BY <1>2 DEF Take
  <2>2. QED
    BY <1>2, <2>1, TakenEvent
<1>3. ASSUME NEW type, Take(type), type \notin Metadata, UNCHANGED title_sensor,
             \A c : Asked(c) => Asked(c)'
      PROVE  Fresh => Fresh'
  <2>1. Shown => Shown'
    BY <1>3, TakenEvent
  <2>2. QED
    BY <1>2, <1>3, <2>1 DEF Fresh
<1>4. ASSUME NEW type, Take(type), type \in {"CONNECTED"} \cup Metadata,
             UNCHANGED <<is_streaming, refresh_at>>, RefreshAhead
      PROVE  RefreshAhead'
  BY <1>2, <1>4, TakenEvent DEF RefreshAhead, Metadata
<1>5. UNCHANGED requests => \A c : Asked(c) = Asked(c)'
  BY DEF Asked
<1> HIDE DEF starts, opens, known
<1>6. CASE TakeConnected
  <2>1. /\ Take("CONNECTED") /\ UNCHANGED <<requests, is_streaming, ct_connected,
                                           refresh_at, title_sensor>>
    BY <1>6 DEF TakeConnected
  <2>2. Fresh => Fresh'
    BY <1>3, <1>5, <2>1 DEF Metadata
  <2>3. RefreshAhead => RefreshAhead'
    BY <1>4, <2>1
  <2>4. known => known'
    BY <1>2, <2>1 DEF known
  <2>5. QED
    BY <1>1, <1>2, <2>1, <2>2, <2>3, <2>4
<1>7. CASE TakeDisconnected
  <2>1. Take("DISCONNECTED") /\ UNCHANGED ct_connected
    BY <1>7 DEF TakeDisconnected
  <2>2. opens => EventAt({"AVRCP_CT_CONNECTED"})'
    BY <1>2, <2>1
  <2>3. opens => RefreshAhead' /\ known'
    BY <2>2 DEF RefreshAhead, EventAt, known
  <2>4. QED
    BY <1>1, <1>2, <2>1, <2>3
<1>8. CASE TakeAudioStarted
  <2>1. /\ Take("AUDIO_STARTED") /\ UNCHANGED <<requests, ct_connected, title_sensor>>
        /\ is_streaming' /\ refresh_at' = (refresh_at \/ ~is_streaming)
    BY <1>8 DEF TakeAudioStarted
  <2>2. Fresh => Fresh'
    BY <1>3, <1>5, <2>1 DEF Metadata
  <2>3. RefreshAhead => RefreshAhead'
    BY <2>1, TakenEvent DEF RefreshAhead
  <2>4. known => known'
    BY <1>2, <2>1 DEF known
  <2>5. QED
    BY <1>1, <1>2, <2>1, <2>2, <2>3, <2>4
<1>9. CASE TakeAudioStopped
  <2>1. /\ Take("AUDIO_STOPPED") /\ UNCHANGED <<requests, ct_connected, title_sensor>>
        /\ ~is_streaming'
    BY <1>9 DEF TakeAudioStopped
  <2>2. (playing => starts) => RefreshAhead'
    BY <1>2, <2>1 DEF RefreshAhead
  <2>3. known => known'
    BY <1>2, <2>1 DEF known
  <2>4. QED
    BY <1>1, <1>2, <2>1, <2>2, <2>3
<1>10. CASE TakeChannel
  <2>1. CASE Take("AVRCP_CT_CONNECTED") /\ ct_connected' /\ refresh_at'
    <3>1. RefreshAhead' /\ known'
      BY <2>1 DEF RefreshAhead, known
    <3>2. QED
      BY <1>1, <1>2, <2>1, <3>1
  <2>2. CASE Take("AVRCP_CT_DISCONNECTED")
    <3>1. opens => EventAt({"AVRCP_CT_CONNECTED"})'
      BY <1>2, <2>2
    <3>2. opens => RefreshAhead' /\ known'
      BY <3>1 DEF RefreshAhead, EventAt, known
    <3>3. QED
      BY <1>1, <1>2, <2>2, <3>2
  <2>3. QED
    BY <1>10, <2>1, <2>2 DEF TakeChannel
<1>11. CASE TakeTrackChanged
  <2>1. Take("AVRCP_TRACK_CHANGED") /\ refresh_at' /\ UNCHANGED ct_connected
    BY <1>11 DEF TakeTrackChanged
  <2>2. RefreshAhead' /\ (known => known')
    BY <1>2, <2>1 DEF RefreshAhead, known
  <2>3. QED
    BY <1>1, <1>2, <2>1, <2>2
<1>12. CASE TakeMetadata
  <2>1. /\ Take("AVRCP_METADATA_UPDATED") /\ title_sensor' = Head(events).title
        /\ UNCHANGED <<requests, is_streaming, ct_connected, refresh_at>>
    BY <1>12 DEF TakeMetadata
  <2>2. Shown => Shown'
    BY <2>1, TakenEvent DEF Metadata
  <2>3. Fresh => Fresh'
    BY <1>2, <1>5, <2>1, <2>2 DEF Fresh
  <2>4. RefreshAhead => RefreshAhead'
    BY <1>4, <2>1 DEF Metadata
  <2>5. known => known'
    BY <1>2, <2>1 DEF known
  <2>6. QED
    BY <1>1, <1>2, <2>1, <2>3, <2>4, <2>5
<1>13. CASE RefreshDue
  <2>1. /\ UNCHANGED <<session, playing, channel, track, registered, events,
                       is_streaming, ct_connected, title_sensor>>
        /\ Request(<<"metadata", "register">>)
    BY <1>13 DEF RefreshDue
  <2>2. starts' = starts /\ opens' = opens /\ known' = known
    BY <2>1 DEF FollowedBy, EventAt, starts, opens, known
  <2>3. CASE ct_connected /\ channel
    <3>1. PICK round \in Seq({"metadata", "register"}) :
            round = <<"metadata", "register">>
      <4>1. <<"metadata", "register">> \in Seq({"metadata", "register"})
        OBVIOUS
      <4>2. QED
        BY <4>1
    <3>2. \A i \in 1 .. Len(round) : Asked(round[i])'
      BY <2>1, <2>3, <3>1, RequestAsks
    <3>3. /\ Len(round) = 2 /\ 1 \in 1 .. 2 /\ 2 \in 1 .. 2
          /\ round[1] = "metadata" /\ round[2] = "register"
      BY <3>1
    <3>4. Asked("metadata")' /\ Asked("register")'
      BY <3>2, <3>3
    <3>5. Fresh'
      BY <3>4 DEF Fresh
    <3>6. QED
      BY <1>0, <2>1, <2>2, <3>5, Zenon DEF TitleInv, starts, opens, known
  <2>4. CASE ~ct_connected
    <3>1. known => RefreshAhead'
      BY <2>1, <2>4 DEF known, RefreshAhead, EventAt
    <3>2. QED
      BY <1>0, <2>1, <2>2, <3>1, Zenon DEF TitleInv, starts, opens, known
  <2>5. CASE ~channel
    BY <1>0, <2>1, <2>2, <2>5, Zenon DEF TitleInv, starts, opens, known
  <2>6. QED
    BY <2>3, <2>4, <2>5, Zenon
<1>14. CASE Button
  <2>1. UNCHANGED <<session, playing, channel, events, ct_connected>> /\ refresh_at'
    BY <1>14 DEF Button
  <2>2. starts' = starts /\ opens' = opens /\ known' = known
    BY <2>1 DEF FollowedBy, EventAt, starts, opens, known
  <2>3. RefreshAhead'
    BY <2>1 DEF RefreshAhead
  <2>4. QED
    BY <1>0, <2>1, <2>2, <2>3, Zenon DEF TitleInv, starts, opens, known
<1>15. CASE DisconnectNow
  <2>1. UNCHANGED <<playing, events>> /\ session' # "up"
    BY <1>15 DEF DisconnectNow
  <2>2. starts' = starts
    BY <2>1 DEF FollowedBy, starts
  <2>3. QED
    BY <1>0, <2>1, <2>2, Zenon DEF TitleInv, starts
<1>16. QED
  BY <1>6, <1>7, <1>8, <1>9, <1>10, <1>11, <1>12, <1>13, <1>14, <1>15
  DEF TakeEvent

LEMMA TitlePreserved ==
  ASSUME ~ChangeInGap, AvrcTypeOK, TitleInv, [AvrcNext]_avrcVars
  PROVE  TitleInv'
<1>1. CASE UNCHANGED avrcVars
  <2>1. /\ UNCHANGED <<session, playing, channel, track, registered, requests, events>>
        /\ UNCHANGED <<is_streaming, ct_connected, refresh_at, title_sensor>>
    BY <1>1 DEF avrcVars, sourceVars, titleVars
  <2>2. QED
    BY <2>1 DEF TitleInv, FollowedBy, EventAt, Fresh, RefreshAhead, Asked, Shown,
      LastMetadata
<1>2. QED
  BY <1>1, PhoneKeepsTitle, HubKeepsTitle DEF AvrcNext

LEMMA TitleQuiet ==
  ASSUME AvrcTypeOK, TitleInv
  PROVE  TitleSettled
<1>1. SUFFICES ASSUME session = "up", playing, channel, events = << >>,
                      requests = << >>, ~refresh_at
               PROVE  title_sensor = track /\ registered
  BY DEF TitleSettled
<1>2. ~RefreshAhead
  BY <1>1 DEF RefreshAhead, EventAt
<1>3. Fresh /\ \A c : ~Asked(c)
  BY <1>1, <1>2 DEF TitleInv, Asked
<1>4. QED
  BY <1>1, <1>3 DEF Fresh, Shown, EventAt

\* If no track changes between the answer with the metadata and the registration
\* sent behind it: once everything asked for has been answered and handled, a
\* phone that plays is shown with its title and has a registration for the next.
THEOREM TitleCorrect == ~ChangeInGap /\ PartsSpec => []TitleSettled
<1>1. SUFFICES ASSUME ~ChangeInGap PROVE PartsSpec => []TitleSettled
  OBVIOUS
<1>2. PartsInit => TitleInv
  <2>1. AvrcInit => TitleInv
    <3>1. Len(<< >>) = 0
      OBVIOUS
    <3>2. QED
      BY <3>1 DEF AvrcInit, TitleInv, FollowedBy
  <2>2. QED
    BY <2>1 DEF PartsInit
<1>3. PartsTypeOK /\ TitleInv /\ [PartsNext]_partVars => TitleInv'
  BY <1>1, PartsStep, TitlePreserved DEF PartsTypeOK
<1>4. PartsTypeOK /\ TitleInv => TitleSettled
  BY TitleQuiet DEF PartsTypeOK
<1>5. QED
  BY <1>2, <1>3, <1>4, PartsTypeCorrect, PTL DEF PartsSpec
=============================================================================
