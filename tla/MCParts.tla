------------------------------ MODULE MCParts ------------------------------
(* The parts that share no state with each other - the sensors of the      *)
(* connection, the title, the volume, the codec configuration, the PCM     *)
(* ring buffer and the timers - checked side by side: a behaviour is one   *)
(* of one part, chosen at the start, while the others stay as they began.  *)
EXTENDS Announcements, Avrcp, AbsoluteVolume, AudioConfig, PcmRing, Timers

VARIABLE part

partVars == <<part, annVars, avrcVars, volumeVars, configVars, ringVars, timerVars>>

\* The flags of the standard, both codings of the rate, and bitpools from the
\* smallest to the largest.
AllConfigs ==
  [samp_freq: {0, 1, 2, 3, 16, 32, 64, 128}, ch_mode: {1, 2, 4, 8},
   block_len: {1, 2, 4, 8}, num_subbands: {1, 2}, max_bitpool: {2, 53, 250}]

PartsInit ==
  /\ part \in {"announcements", "avrcp", "volume", "config", "ring", "timers"}
  /\ AnnInit /\ VolumeInit /\ RingInit
  /\ AvrcInit /\ (part = "avrcp" \/ track = CHOOSE t \in Tracks : TRUE)
  /\ ConfigInit /\ (part = "config" \/ config = CHOOSE c \in Configs : TRUE)
  /\ TimerInit /\ (part = "timers" \/ now = 0)

PartsNext ==
  /\ UNCHANGED part
  /\ \/ /\ part = "announcements" /\ AnnNext
        /\ UNCHANGED <<avrcVars, volumeVars, configVars, ringVars, timerVars>>
     \/ /\ part = "avrcp" /\ AvrcNext
        /\ UNCHANGED <<annVars, volumeVars, configVars, ringVars, timerVars>>
     \/ /\ part = "volume" /\ VolumeNext
        /\ UNCHANGED <<annVars, avrcVars, configVars, ringVars, timerVars>>
     \/ /\ part = "config" /\ ConfigNext
        /\ UNCHANGED <<annVars, avrcVars, volumeVars, ringVars, timerVars>>
     \/ /\ part = "ring" /\ RingNext
        /\ UNCHANGED <<annVars, avrcVars, volumeVars, configVars, timerVars>>
     \/ /\ part = "timers" /\ TimerNext
        /\ UNCHANGED <<annVars, avrcVars, volumeVars, configVars, ringVars>>

PartsSpec == PartsInit /\ [][PartsNext]_partVars /\ AnnFairness /\ AvrcFairness

\* Every part keeps its variables in their ranges.
PartsTypeOK ==
  AnnTypeOK /\ AvrcTypeOK /\ VolumeTypeOK /\ ConfigTypeOK /\ RingTypeOK /\ TimerTypeOK
=============================================================================
