-------------------------- MODULE AudioParameters --------------------------
(***************************************************************************)
(* The arithmetic on the negotiated audio format, as pure operators: the   *)
(* sbc_* helpers of a2dp.cpp, which read the bit masks of an SBC codec     *)
(* configuration.                                                          *)
(*                                                                         *)
(* A configuration is a record of the five bytes the helpers look at.      *)
(* frame_bits keeps the 16 bits of its type.  The product of the bit rate  *)
(* is unsigned 32-bit: AudioConfigProofs shows that it stays below 2^32    *)
(* for all bytes, so it is written without % 2^32.                         *)
(***************************************************************************)
EXTENDS Naturals

Byte == 0 .. 255
U16 == 65536

\* esp_a2d_cie_sbc_t: what the phone and Bluedroid agreed on.
SbcConfig ==
  [samp_freq: Byte, ch_mode: Byte, block_len: Byte, num_subbands: Byte,
   max_bitpool: Byte]

\* Is the flag set?  (A flag is a power of two.)
Has(byte, flag) == (byte \div flag) % 2 = 1

\* Some Bluedroid builds report an index, others the mask of the standard.
sbc_sample_rate_(samp_freq) ==
  CASE samp_freq = 0 -> 16000
    [] samp_freq = 1 -> 32000
    [] samp_freq = 2 -> 44100
    [] samp_freq = 3 -> 48000
    [] samp_freq > 3 /\ Has(samp_freq, 128) -> 16000
    [] samp_freq > 3 /\ ~Has(samp_freq, 128) /\ Has(samp_freq, 64) -> 32000
    [] samp_freq \in 32 .. 63 -> 44100
    [] samp_freq \in 16 .. 31 -> 48000
    [] OTHER -> 0

sbc_channels_(ch_mode) == IF Has(ch_mode, 8) THEN 1 ELSE 2

sbc_block_length_(block_len) ==
  IF Has(block_len, 8) THEN 4
  ELSE IF Has(block_len, 4) THEN 8
  ELSE IF Has(block_len, 2) THEN 12
  ELSE IF Has(block_len, 1) THEN 16 ELSE 0

sbc_subbands_(num_subbands) ==
  IF Has(num_subbands, 2) THEN 4 ELSE IF Has(num_subbands, 1) THEN 8 ELSE 0

-----------------------------------------------------------------------------
\* The audio samples of one frame, in bits.
Payload(channels, channel_mode, blocks, subbands, bitpool) ==
  IF Has(channel_mode, 1) THEN subbands + blocks * bitpool
  ELSE IF Has(channel_mode, 8) \/ Has(channel_mode, 2) THEN blocks * bitpool
  ELSE blocks * bitpool * channels

FrameBits(channels, channel_mode, blocks, subbands, bitpool) ==
  32 + 4 * subbands * channels
     + Payload(channels, channel_mode, blocks, subbands, bitpool)

\* Faulty variant: the last, partly filled byte is cut off.
FrameLenTruncated(frame_bits) == (frame_bits % U16) \div 8

FrameLen(frame_bits) == 4 + (((frame_bits % U16) + 7) \div 8)

sbc_bitrate_(sample_rate, channels, channel_mode, blocks, subbands, bitpool) ==
  IF 0 \in {sample_rate, channels, blocks, subbands, bitpool} THEN 0
  ELSE (8 * FrameLen(FrameBits(channels, channel_mode, blocks, subbands, bitpool))
          * sample_rate) \div (subbands * blocks)

\* The parameters AUDIO_CFG_UPDATED carries; the depth is always 16.
AudioCfg(c) ==
  LET rate == sbc_sample_rate_(c.samp_freq)
      channels == sbc_channels_(c.ch_mode)
  IN [sample_rate |-> rate, channels |-> channels, bits_per_sample |-> 16,
      bitrate |-> sbc_bitrate_(rate, channels, c.ch_mode,
                               sbc_block_length_(c.block_len),
                               sbc_subbands_(c.num_subbands), c.max_bitpool)]

-----------------------------------------------------------------------------
(* What an SBC stream needs at most, from the codec's own definition: a    *)
(* header of 4 bytes, 4 bits for each scale factor, the join flags of      *)
(* joint stereo, the samples; for each subbands * blocks samples.          *)

Ceil8(bits) == (bits + 7) \div 8

StreamFrameBits(channels, channel_mode, blocks, subbands, bitpool) ==
  8 * (4 + (4 * subbands * channels) \div 8
         + Ceil8(Payload(channels, channel_mode, blocks, subbands, bitpool)))

\* The rate in bits per second, rounded down, with extra bits in each frame.
StreamRate(c, extra) ==
  LET channels == sbc_channels_(c.ch_mode)
      blocks == sbc_block_length_(c.block_len)
      subbands == sbc_subbands_(c.num_subbands)
  IN ((StreamFrameBits(channels, c.ch_mode, blocks, subbands, c.max_bitpool) + extra)
        * sbc_sample_rate_(c.samp_freq)) \div (subbands * blocks)
=============================================================================
