------------------------- MODULE AudioConfigProofs -------------------------
(***************************************************************************)
(* Machine-checked proofs about the bit rate the hub computes, for every   *)
(* value of the configuration's five bytes (any mix of flags, any bitpool).*)
(***************************************************************************)
EXTENDS AudioConfig, Integers, TLAPS

-----------------------------------------------------------------------------
(* What the helpers return.                                                *)

LEMMA SampleRates ==
  ASSUME NEW s \in Byte
  PROVE  sbc_sample_rate_(s) \in {0, 16000, 32000, 44100, 48000}
<1>1. CASE s \in 0 .. 3
  BY <1>1 DEF sbc_sample_rate_, Byte
<1>2. CASE s > 3
  BY <1>2 DEF sbc_sample_rate_, Byte
<1>3. QED
  BY <1>1, <1>2 DEF Byte

LEMMA FormatValues ==
  ASSUME NEW b \in Byte
  PROVE  /\ sbc_channels_(b) \in {1, 2}
         /\ sbc_block_length_(b) \in {0, 4, 8, 12, 16}
         /\ sbc_subbands_(b) \in {0, 4, 8}
  BY DEF sbc_channels_, sbc_block_length_, sbc_subbands_

\* Three of the four channel modes share a formula; in all of them the samples
\* of a frame take at most 16 blocks of two bitpools.
LEMMA PayloadBound ==
  ASSUME NEW channels \in {1, 2}, NEW blocks \in {4, 8, 12, 16},
         NEW subbands \in {4, 8}, NEW bitpool \in Byte
  PROVE  \A mode : /\ Payload(channels, mode, blocks, subbands, bitpool) \in Nat
                   /\ Payload(channels, mode, blocks, subbands, bitpool) <= 8160
<1>1. ASSUME NEW n \in {4, 8, 12, 16}
      PROVE  n * bitpool \in Nat /\ n * bitpool <= 4080
  BY DEF Byte
<1>2. blocks * bitpool \in Nat /\ blocks * bitpool <= 4080
  BY <1>1
<1> DEFINE samples == blocks * bitpool
<1> HIDE DEF samples
<1>3. samples \in Nat /\ samples <= 4080
  BY <1>2 DEF samples
<1>4. /\ subbands + samples \in Nat /\ subbands + samples <= 8160
      /\ samples * channels \in Nat /\ samples * channels <= 8160
  BY <1>3
<1>5. QED
  BY <1>3, <1>4 DEF Payload, samples

\* frame_bits never wraps, and the length computed from it is one header more
\* than a frame of the stream has.
LEMMA FrameLength ==
  ASSUME NEW channels \in {1, 2}, NEW mode \in Byte, NEW blocks \in {4, 8, 12, 16},
         NEW subbands \in {4, 8}, NEW bitpool \in Byte
  PROVE  LET computed ==
               FrameLen(FrameBits(channels, mode, blocks, subbands, bitpool))
             stream == StreamFrameBits(channels, mode, blocks, subbands, bitpool)
         IN  /\ computed \in 0 .. 1100
             /\ stream \in Nat
             /\ 8 * computed = stream + 32
<1> DEFINE payload == Payload(channels, mode, blocks, subbands, bitpool)
<1>1. payload \in Nat /\ payload <= 8160
  BY PayloadBound
<1> HIDE DEF payload
<1>2. 4 * subbands * channels \in {16, 32, 64}
  OBVIOUS
<1>3. FrameBits(channels, mode, blocks, subbands, bitpool)
        = 32 + 4 * subbands * channels + payload
  BY DEF FrameBits, payload
<1>4. StreamFrameBits(channels, mode, blocks, subbands, bitpool)
        = 8 * (4 + (4 * subbands * channels) \div 8 + (payload + 7) \div 8)
  BY DEF StreamFrameBits, Ceil8, payload
<1>5. ASSUME NEW scale \in {16, 32, 64}
      PROVE  LET computed == 4 + ((((32 + scale + payload) % 65536) + 7) \div 8)
                 stream == 8 * (4 + scale \div 8 + (payload + 7) \div 8)
             IN  /\ computed \in 0 .. 1100
                 /\ stream \in Nat
                 /\ 8 * computed = stream + 32
  <2>1. (32 + scale + payload) % 65536 = 32 + scale + payload
    BY <1>1
  <2>2. ((32 + scale + payload) + 7) \div 8 = 4 + scale \div 8 + (payload + 7) \div 8
    BY <1>1
  <2>3. (payload + 7) \div 8 \in 0 .. 1020 /\ scale \div 8 \in {2, 4, 8}
    BY <1>1
  <2>4. QED
    BY <2>1, <2>2, <2>3
<1>6. QED
  BY <1>2, <1>3, <1>4, <1>5 DEF FrameLen, U16

-----------------------------------------------------------------------------
\* The product that the bit rate is computed from fits 32 bits: no phone can
\* make it wrap.
THEOREM BitrateFits ==
  \A c \in SbcConfig :
    LET channels == sbc_channels_(c.ch_mode)
        blocks == sbc_block_length_(c.block_len)
        subbands == sbc_subbands_(c.num_subbands)
    IN  0 \notin {blocks, subbands} =>
          8 * FrameLen(FrameBits(channels, c.ch_mode, blocks, subbands, c.max_bitpool))
            * sbc_sample_rate_(c.samp_freq) < U16 * U16
<1> SUFFICES ASSUME NEW c \in SbcConfig,
                    0 \notin {sbc_block_length_(c.block_len),
                              sbc_subbands_(c.num_subbands)}
             PROVE  8 * FrameLen(FrameBits(sbc_channels_(c.ch_mode), c.ch_mode,
                                           sbc_block_length_(c.block_len),
                                           sbc_subbands_(c.num_subbands),
                                           c.max_bitpool))
                      * sbc_sample_rate_(c.samp_freq) < U16 * U16
  OBVIOUS
<1> DEFINE computed ==
      FrameLen(FrameBits(sbc_channels_(c.ch_mode), c.ch_mode,
                         sbc_block_length_(c.block_len),
                         sbc_subbands_(c.num_subbands), c.max_bitpool))
<1>1. /\ c.samp_freq \in Byte /\ c.ch_mode \in Byte /\ c.block_len \in Byte
      /\ c.num_subbands \in Byte /\ c.max_bitpool \in Byte
  BY DEF SbcConfig
<1>2. /\ sbc_channels_(c.ch_mode) \in {1, 2}
      /\ sbc_block_length_(c.block_len) \in {4, 8, 12, 16}
      /\ sbc_subbands_(c.num_subbands) \in {4, 8}
  BY <1>1, FormatValues
<1>3. computed \in 0 .. 1100
  BY <1>1, <1>2, FrameLength
<1>4. sbc_sample_rate_(c.samp_freq) \in {0, 16000, 32000, 44100, 48000}
  BY <1>1, SampleRates
<1> HIDE DEF computed
<1>5. 8 * computed * sbc_sample_rate_(c.samp_freq) < 65536 * 65536
  BY <1>3, <1>4
<1>6. QED
  BY <1>5 DEF computed, U16

LEMMA DivMonotone ==
  ASSUME NEW x \in Nat, NEW y \in Nat, x <= y,
         NEW blocks \in {4, 8, 12, 16}, NEW subbands \in {4, 8}
  PROVE  x \div (subbands * blocks) <= y \div (subbands * blocks)
<1>1. subbands * blocks \in {16, 32, 48, 64, 96, 128}
  OBVIOUS
<1>2. ASSUME NEW d \in {16, 32, 48, 64, 96, 128}
      PROVE  x \div d <= y \div d
  OBVIOUS
<1>3. QED
  BY <1>1, <1>2

\* The estimate and the stream's largest rate, for one configuration.
LEMMA BitrateBounds ==
  ASSUME NEW c \in SbcConfig, AudioCfg(c).bitrate > 0
  PROVE  /\ AudioCfg(c).bitrate >= StreamRate(c, 0)
         /\ AudioCfg(c).bitrate <= StreamRate(c, 32)
<1> DEFINE rate == sbc_sample_rate_(c.samp_freq)
           channels == sbc_channels_(c.ch_mode)
           blocks == sbc_block_length_(c.block_len)
           subbands == sbc_subbands_(c.num_subbands)
           computed == FrameLen(FrameBits(channels, c.ch_mode, blocks, subbands,
                                          c.max_bitpool))
           stream == StreamFrameBits(channels, c.ch_mode, blocks, subbands,
                                     c.max_bitpool)
<1>1. /\ c.samp_freq \in Byte /\ c.ch_mode \in Byte /\ c.block_len \in Byte
      /\ c.num_subbands \in Byte /\ c.max_bitpool \in Byte
  BY DEF SbcConfig
<1>2. 0 \notin {rate, channels, blocks, subbands, c.max_bitpool}
  BY DEF AudioCfg, sbc_bitrate_
<1>3. AudioCfg(c).bitrate = (8 * computed * rate) \div (subbands * blocks)
  BY <1>2 DEF AudioCfg, sbc_bitrate_
<1>4. /\ channels \in {1, 2} /\ blocks \in {4, 8, 12, 16} /\ subbands \in {4, 8}
  BY <1>1, <1>2, FormatValues
<1>5. computed \in 0 .. 1100 /\ stream \in Nat /\ 8 * computed = stream + 32
  BY <1>1, <1>4, FrameLength
<1>6. rate \in {16000, 32000, 44100, 48000}
  BY <1>1, <1>2, SampleRates
<1>7. /\ StreamRate(c, 0) = ((stream + 0) * rate) \div (subbands * blocks)
      /\ StreamRate(c, 32) = ((stream + 32) * rate) \div (subbands * blocks)
  BY DEF StreamRate
<1> HIDE DEF rate, channels, blocks, subbands, computed, stream
<1>8. /\ 8 * computed * rate = (stream + 32) * rate
      /\ (stream + 32) * rate \in Nat /\ (stream + 0) * rate \in Nat
      /\ (stream + 0) * rate <= (stream + 32) * rate
  BY <1>5, <1>6
<1>9. /\ ((stream + 0) * rate) \div (subbands * blocks)
           <= ((stream + 32) * rate) \div (subbands * blocks)
      /\ ((stream + 32) * rate) \div (subbands * blocks)
           <= ((stream + 32) * rate) \div (subbands * blocks)
  BY <1>4, <1>8, DivMonotone
<1>10. /\ AudioCfg(c).bitrate \in Int
       /\ AudioCfg(c).bitrate = ((stream + 32) * rate) \div (subbands * blocks)
  BY <1>3, <1>4, <1>8
<1>11. QED
  BY <1>7, <1>9, <1>10

-----------------------------------------------------------------------------
ConfigInv ==
  /\ config \in SbcConfig
  /\ \A ev \in cfg_queue : ev = AudioCfg(config)
  /\ bitrate_sensor \in {0, AudioCfg(config).bitrate}

LEMMA ConfigPreserved ==
  ASSUME ConfigInv, [ConfigNext]_configVars
  PROVE  ConfigInv'
<1>1. UNCHANGED config
  BY DEF ConfigNext, AudioCfgEvent, HandleAudioCfg, SinkKeeps, PublishParameters, configVars
<1>2. CASE AudioCfgEvent \/ UNCHANGED configVars
  BY <1>1, <1>2 DEF ConfigInv, AudioCfgEvent, configVars
<1>3. CASE HandleAudioCfg
  BY <1>1, <1>3 DEF ConfigInv, HandleAudioCfg, SinkKeeps, PublishParameters
<1>4. QED
  BY <1>2, <1>3 DEF ConfigNext

\* Whatever a phone negotiates, the bit rate shown is not below what the stream
\* can reach and not more than one frame header above it.
THEOREM BitrateCorrect == ConfigSpec => []BitrateEstimated
<1>1. ConfigInit => ConfigInv
  BY ConfigsAssumption DEF ConfigInit, ConfigInv
<1>2. ConfigInv /\ [ConfigNext]_configVars => ConfigInv'
  BY ConfigPreserved
<1>3. ConfigInv => BitrateEstimated
  <2>1. SUFFICES ASSUME ConfigInv, bitrate_sensor > 0
                 PROVE  /\ bitrate_sensor >= StreamRate(config, 0)
                        /\ bitrate_sensor <= StreamRate(config, 32)
    BY DEF BitrateEstimated
  <2>2. bitrate_sensor = AudioCfg(config).bitrate /\ config \in SbcConfig
    BY <2>1 DEF ConfigInv
  <2>3. QED
    BY <2>1, <2>2, BitrateBounds
<1>4. QED
  BY <1>1, <1>2, <1>3, PTL DEF ConfigSpec
=============================================================================
