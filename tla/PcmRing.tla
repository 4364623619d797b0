------------------------------ MODULE PcmRing ------------------------------
(***************************************************************************)
(* The PCM ring buffer between the Bluetooth task and the reader task, and *)
(* the diagnostics counters that tell how much of it was lost.  Three      *)
(* threads meet without a lock: handle_audio_data_ looks at the free       *)
(* space, counts, writes and measures in separate steps, while the reader  *)
(* takes bytes out and the main loop may reset the buffer.                 *)
(*                                                                         *)
(* The ring buffer is external: each of its calls is atomic, and write()   *)
(* makes room by discarding the oldest bytes, as the comment at            *)
(* a2dp.cpp:900 says.                                                      *)
(***************************************************************************)
EXTENDS Naturals

CONSTANTS
  RING_BYTES,        \* capacity
  MAX_PACKET,        \* largest packet Bluedroid hands over
  DIAG_LIMIT         \* bound: bytes received in one behaviour

ASSUME RingBytesAssumption ==
  /\ RING_BYTES \in Nat \ {0}
  /\ MAX_PACKET \in 1 .. RING_BYTES
  /\ DIAG_LIMIT \in Nat

VARIABLES
  fill,              \* bytes in the buffer
  output_enabled,    \* audio_output_enabled_
  callback,          \* where handle_audio_data_ is
  len,               \* of its packet
  diag_bytes_received, diag_bytes_dropped, diag_fill_high_water,
  \* what really happened
  overwritten,       \* bytes that write() discarded
  overtaken,         \* bytes that left between a look and its write
  unmeasured,        \* bytes that left between a write and its measurement
  peak               \* highest fill ever

diagVars == <<diag_bytes_received, diag_bytes_dropped, diag_fill_high_water>>
truthVars == <<overwritten, overtaken, unmeasured, peak>>
ringVars == <<fill, output_enabled, callback, len, diagVars, truthVars>>

AtMost(a, b) == IF a <= b THEN a ELSE b
AtLeast(a, b) == IF a >= b THEN a ELSE b
Excess(a, b) == IF a > b THEN a - b ELSE 0

RingTypeOK ==
  /\ fill \in 0 .. RING_BYTES
  /\ output_enabled \in BOOLEAN
  /\ callback \in {"idle", "write", "measure"}
  /\ len \in 0 .. MAX_PACKET
  /\ {diag_bytes_received, diag_bytes_dropped, diag_fill_high_water} \subseteq Nat
  /\ {overwritten, overtaken, unmeasured, peak} \subseteq Nat

RingInit ==
  /\ fill = 0 /\ output_enabled = TRUE
  /\ callback = "idle" /\ len = 0
  /\ diag_bytes_received = 0 /\ diag_bytes_dropped = 0 /\ diag_fill_high_water = 0
  /\ overwritten = 0 /\ overtaken = 0 /\ unmeasured = 0 /\ peak = 0

-----------------------------------------------------------------------------
(* handle_audio_data_ on the Bluetooth task, with diagnostics_enabled_     *)
(* (without, it only writes).  A disabled output returns at once.          *)

\* Faulty variant: what does not fit is computed from the fill, not the room.
LookAtFill ==
  /\ callback' = "write"
  /\ diag_bytes_dropped' = diag_bytes_dropped + Excess(len', fill)
  /\ diag_bytes_received' = diag_bytes_received + len'

CountPacket ==
  /\ callback' = "write"
  /\ diag_bytes_dropped' = diag_bytes_dropped + Excess(len', RING_BYTES - fill)
  /\ diag_bytes_received' = diag_bytes_received + len'

AudioData ==
  /\ callback = "idle" /\ output_enabled
  /\ len' \in 1 .. MAX_PACKET
  /\ diag_bytes_received + len' <= DIAG_LIMIT
  /\ CountPacket
  /\ UNCHANGED <<fill, output_enabled, diag_fill_high_water, truthVars>>

Write ==
  /\ callback = "write"
  /\ callback' = "measure"
  /\ fill' = AtMost(RING_BYTES, fill + len)
  /\ overwritten' = overwritten + Excess(fill + len, RING_BYTES)
  /\ peak' = AtLeast(peak, fill')
  /\ len' = 0
  /\ UNCHANGED <<output_enabled, diagVars, overtaken, unmeasured>>

\* Faulty variant: the mark follows the fill down again.
MeasureLatest ==
  /\ callback = "measure" /\ callback' = "idle"
  /\ diag_fill_high_water' = fill
  /\ UNCHANGED <<fill, output_enabled, len, diag_bytes_received,
                 diag_bytes_dropped, truthVars>>

Measure ==
  /\ callback = "measure" /\ callback' = "idle"
  /\ diag_fill_high_water' = AtLeast(diag_fill_high_water, fill)
  /\ UNCHANGED <<fill, output_enabled, len, diag_bytes_received,
                 diag_bytes_dropped, truthVars>>

-----------------------------------------------------------------------------
(* The other two threads.                                                  *)

\* Bytes leave the buffer; the callback may have looked already.
Leaves(n) ==
  /\ fill' = fill - n
  /\ overtaken' = IF callback = "write" THEN overtaken + n ELSE overtaken
  /\ unmeasured' = IF callback = "measure" THEN unmeasured + n ELSE unmeasured
  /\ UNCHANGED <<callback, len, diagVars, overwritten, peak>>

ReaderTakes ==
  \E n \in 1 .. fill : Leaves(n) /\ UNCHANGED output_enabled

\* reset_audio_buffer(), from play_uri, the reader and finish_disable_().
ResetBuffer == fill > 0 /\ Leaves(fill) /\ UNCHANGED output_enabled

SetAudioOutput ==
  /\ output_enabled' = ~output_enabled
  /\ UNCHANGED <<fill, callback, len, diagVars, truthVars>>

RingNext ==
  \/ AudioData
  \/ Write
  \/ Measure
  \/ ReaderTakes
  \/ ResetBuffer
  \/ SetAudioOutput

RingSpec == RingInit /\ [][RingNext]_ringVars

-----------------------------------------------------------------------------
\* No stutter goes uncounted, whatever the reader and the resets do between
\* the look, the write and the measurement ("track it so stutter is
\* observable", a2dp.cpp:901): between two packets the count of dropped bytes
\* covers what was overwritten, exceeds it by no more than what left the buffer
\* meanwhile, and is part of what was received.
DropsAccounted ==
  callback = "idle" =>
    /\ overwritten <= diag_bytes_dropped
    /\ diag_bytes_dropped <= overwritten + overtaken
    /\ diag_bytes_dropped <= diag_bytes_received

\* The high-water mark is a level the buffer had, and misses the highest one by
\* no more than what the reader took before the callback measured it.
HighWaterTrue ==
  callback = "idle" =>
    /\ diag_fill_high_water <= peak
    /\ peak <= diag_fill_high_water + unmeasured
=============================================================================
