---------------------------- MODULE AudioConfig ----------------------------
(***************************************************************************)
(* The way of a codec configuration: handle_a2d_event_ translates it on    *)
(* the Bluetooth task and posts it, the main loop hands it to the sink and *)
(* to the sensors.                                                         *)
(***************************************************************************)
EXTENDS AudioParameters

CONSTANT Configs      \* the configurations phones ask for

ASSUME ConfigsAssumption == Configs \subseteq SbcConfig

VARIABLES
  config,             \* what was negotiated
  cfg_queue,          \* is AUDIO_CFG_UPDATED on its way?  (0 or 1 records)
  actual,             \* A2DPSink::actual_*
  bitrate_sensor, bit_depth_sensor

configVars == <<config, cfg_queue, actual, bitrate_sensor, bit_depth_sensor>>

ConfigInit ==
  /\ config \in Configs
  /\ cfg_queue = {}
  /\ actual = [sample_rate |-> 44100, channels |-> 2, bits_per_sample |-> 16, bitrate |-> 0]
  /\ bitrate_sensor = 0 /\ bit_depth_sensor = 0

\* ESP_A2D_AUDIO_CFG_EVT.
AudioCfgEvent ==
  /\ cfg_queue = {}
  /\ cfg_queue' = {AudioCfg(config)}
  /\ UNCHANGED <<config, actual, bitrate_sensor, bit_depth_sensor>>

\* audio_cfg_callback_ runs the sink's callback and the two sensors'.
SinkKeeps(ev) == actual' = ev

PublishParameters(ev) ==
  /\ bitrate_sensor' = ev.bitrate
  /\ bit_depth_sensor' = ev.bits_per_sample

HandleAudioCfg ==
  \E ev \in cfg_queue :
    /\ cfg_queue' = {}
    /\ SinkKeeps(ev) /\ PublishParameters(ev)
    /\ UNCHANGED config

ConfigNext == AudioCfgEvent \/ HandleAudioCfg

ConfigSpec == ConfigInit /\ [][ConfigNext]_configVars

ConfigTypeOK ==
  /\ config \in SbcConfig
  /\ \A ev \in cfg_queue \cup {actual} :
       ev.sample_rate \in {0, 16000, 32000, 44100, 48000} /\ ev.channels \in {1, 2}
  /\ bit_depth_sensor \in {0, 16}

-----------------------------------------------------------------------------
\* The bit rate shown ("estimated max bitrate", a2dp.cpp:384) is never below
\* what the stream can reach with its largest bitpool, for any mix of flags,
\* and above it by one frame header (32 bits, counted twice) and no more.
BitrateEstimated ==
  bitrate_sensor > 0 =>
    /\ bitrate_sensor >= StreamRate(config, 0)
    /\ bitrate_sensor <= StreamRate(config, 32)
=============================================================================
