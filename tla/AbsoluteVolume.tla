--------------------------- MODULE AbsoluteVolume ---------------------------
(***************************************************************************)
(* AVRCP absolute volume: the phone sets it and registers for changes, the *)
(* Bluetooth task answers both (handle_avrc_tg_event_) and posts the new   *)
(* volume, the main loop stores it and runs on_volume_changed.  The answer *)
(* to a registration reads avrcp_volume_, which the main loop writes.      *)
(***************************************************************************)
EXTENDS Naturals, Sequences

CONSTANTS
  Volumes,           \* 0 .. 127
  InitialVolume,     \* 127
  VOLUME_QUEUE       \* records in the queue; none is lost here

ASSUME VolumesAssumption ==
  InitialVolume \in Volumes /\ VOLUME_QUEUE \in Nat \ {0}

VARIABLES
  set_volume,        \* what the phone last set
  phone_volume,      \* what it shows: what it last set, or was told
  told_stale,        \* was it told while an older SET was still queued?
  volume_records,    \* AVRCP_VOLUME_CHANGED records
  avrcp_volume,
  trigger_volume     \* what on_volume_changed last said

volumeVars == <<set_volume, phone_volume, told_stale, volume_records,
                avrcp_volume, trigger_volume>>

VolumeTypeOK ==
  /\ {set_volume, phone_volume, avrcp_volume, trigger_volume} \subseteq Volumes
  /\ told_stale \in BOOLEAN
  /\ volume_records \in Seq(Volumes)

VolumeInit ==
  /\ set_volume = InitialVolume
  /\ phone_volume = InitialVolume
  /\ told_stale = FALSE
  /\ volume_records = << >>
  /\ avrcp_volume = InitialVolume
  /\ trigger_volume = InitialVolume

\* Faulty variant: a volume the hub has already is not posted.
PostVolumeIfNew(v) ==
  volume_records' = IF v = avrcp_volume THEN volume_records ELSE Append(volume_records, v)

PostVolume(v) == volume_records' = Append(volume_records, v)

\* SET_ABSOLUTE_VOLUME: answered with CHANGED, and posted.
SetAbsoluteVolume(v) ==
  /\ Len(volume_records) < VOLUME_QUEUE
  /\ set_volume' = v /\ phone_volume' = v /\ told_stale' = FALSE
  /\ PostVolume(v)
  /\ UNCHANGED <<avrcp_volume, trigger_volume>>

\* REGISTER_NOTIFICATION: answered INTERIM with the volume of the main loop.
RegisterVolume ==
  /\ phone_volume' = avrcp_volume
  /\ told_stale' = (volume_records # << >>)
  /\ UNCHANGED <<set_volume, volume_records, avrcp_volume, trigger_volume>>

\* The main loop: the field, then the callbacks of both AVRCP components.
VolumeChanged ==
  /\ volume_records # << >>
  /\ volume_records' = Tail(volume_records)
  /\ avrcp_volume' = Head(volume_records)
  /\ trigger_volume' = avrcp_volume'
  /\ UNCHANGED <<set_volume, phone_volume, told_stale>>

VolumeNext ==
  \/ \E v \in Volumes : SetAbsoluteVolume(v)
  \/ RegisterVolume
  \/ VolumeChanged

VolumeSpec == VolumeInit /\ [][VolumeNext]_volumeVars

\* Once the queue is empty, hub and automations have the volume the phone last
\* set, whatever it set and asked for in between.  The phone itself shows that
\* volume too, unless it registered while a volume it had set was still queued:
\* the INTERIM answer then took it back to an older one, and nothing corrects it
\* before it sets or registers again.
VolumeAgreed ==
  volume_records = << >> =>
    /\ trigger_volume = set_volume /\ avrcp_volume = set_volume
    /\ ~told_stale => phone_volume = set_volume
=============================================================================
