--------------------------- MODULE PcmRingProofs ---------------------------
(***************************************************************************)
(* Machine-checked proofs about the diagnostics of the PCM ring buffer, of *)
(* any size, for packets of any size and any interleaving of the callback, *)
(* the reader and the resets.                                              *)
(***************************************************************************)
EXTENDS PcmRing, TLAPS

RingTyped ==
  /\ fill \in 0 .. RING_BYTES
  /\ callback \in {"idle", "write", "measure"}
  /\ len \in 0 .. MAX_PACKET
  /\ diag_bytes_received \in Nat
  /\ diag_bytes_dropped \in Nat
  /\ diag_fill_high_water \in Nat
  /\ overwritten \in Nat
  /\ overtaken \in Nat
  /\ unmeasured \in Nat
  /\ peak \in Nat

\* Between the look and the write, what the write is going to discard is
\* counted already, and what leaves the buffer can only make it less.
Coming == IF callback = "write" THEN Excess(fill + len, RING_BYTES) ELSE 0

DropsInv ==
  /\ overwritten + Coming <= diag_bytes_dropped
  /\ diag_bytes_dropped <= overwritten + Coming + overtaken
  /\ diag_bytes_dropped <= diag_bytes_received

\* Between the write and the measurement the peak may still be in the buffer.
HighWaterInv ==
  /\ diag_fill_high_water <= peak
  /\ fill <= peak
  /\ \/ peak <= diag_fill_high_water + unmeasured
     \/ callback = "measure" /\ peak <= fill + unmeasured

LEMMA ExcessBounds ==
  ASSUME NEW l \in Nat, NEW f \in Nat, NEW r \in Nat, f <= r
  PROVE  /\ Excess(l, r - f) \in Nat
         /\ Excess(l, r - f) = Excess(f + l, r)
         /\ Excess(l, r - f) <= l
  BY DEF Excess

\* The look of the callback.
LEMMA Look ==
  ASSUME RingTyped, AudioData
  PROVE  /\ callback = "idle" /\ callback' = "write"
         /\ len' \in 1 .. MAX_PACKET
         /\ len' \in Nat /\ Excess(len', RING_BYTES - fill) \in Nat
         /\ Excess(len', RING_BYTES - fill) = Excess(fill + len', RING_BYTES)
         /\ Excess(len', RING_BYTES - fill) <= len'
         /\ diag_bytes_dropped' =
              diag_bytes_dropped + Excess(len', RING_BYTES - fill)
         /\ diag_bytes_received' = diag_bytes_received + len'
         /\ UNCHANGED <<fill, diag_fill_high_water, truthVars>>
<1>1. len' \in 1 .. MAX_PACKET /\ len' \in Nat
  BY RingBytesAssumption DEF AudioData
<1>2. fill \in Nat /\ RING_BYTES \in Nat /\ fill <= RING_BYTES
  BY RingBytesAssumption DEF RingTyped
<1>3. /\ Excess(len', RING_BYTES - fill) \in Nat
      /\ Excess(len', RING_BYTES - fill) = Excess(fill + len', RING_BYTES)
      /\ Excess(len', RING_BYTES - fill) <= len'
  BY <1>1, <1>2, ExcessBounds
<1>4. QED
  BY <1>1, <1>3 DEF AudioData, CountPacket

LEMMA RingTypedPreserved ==
  ASSUME RingTyped, [RingNext]_ringVars
  PROVE  RingTyped'
<1> USE RingBytesAssumption DEF RingTyped, diagVars, truthVars, AtMost, AtLeast, Excess
<1>1. CASE AudioData
  <2> HIDE DEF Excess
  <2>1. QED
    BY <1>1, Look
<1>2. CASE Write
  BY <1>2 DEF Write
<1>3. CASE Measure
  BY <1>3 DEF Measure
<1>4. CASE ReaderTakes \/ ResetBuffer
  <2>1. PICK n \in 1 .. fill : Leaves(n)
    BY <1>4 DEF ReaderTakes, ResetBuffer
  <2>2. QED
    BY <2>1 DEF Leaves
<1>5. CASE SetAudioOutput \/ UNCHANGED ringVars
  BY <1>5 DEF SetAudioOutput, ringVars
<1>6. QED
  BY <1>1, <1>2, <1>3, <1>4, <1>5 DEF RingNext

LEMMA DropsPreserved ==
  ASSUME RingTyped, DropsInv, [RingNext]_ringVars
  PROVE  DropsInv'
<1> USE RingBytesAssumption
    DEF RingTyped, DropsInv, Coming, Excess, diagVars, truthVars
<1>1. CASE AudioData
  <2> HIDE DEF Excess
  <2>1. QED
    BY <1>1, Look
<1>2. CASE Write
  BY <1>2 DEF Write, AtMost
<1>3. CASE Measure
  BY <1>3 DEF Measure
<1>4. CASE ReaderTakes \/ ResetBuffer
  <2>1. PICK n \in 1 .. fill : Leaves(n)
    BY <1>4 DEF ReaderTakes, ResetBuffer
  <2>2. QED
    BY <2>1 DEF Leaves
<1>5. CASE SetAudioOutput \/ UNCHANGED ringVars
  BY <1>5 DEF SetAudioOutput, ringVars
<1>6. QED
  BY <1>1, <1>2, <1>3, <1>4, <1>5 DEF RingNext

LEMMA HighWaterPreserved ==
  ASSUME RingTyped, HighWaterInv, [RingNext]_ringVars
  PROVE  HighWaterInv'
<1> USE RingBytesAssumption
    DEF RingTyped, HighWaterInv, AtLeast, diagVars, truthVars
<1>1. CASE AudioData
  BY <1>1 DEF AudioData, CountPacket
<1>2. CASE Write
  BY <1>2 DEF Write, AtMost
<1>3. CASE Measure
  BY <1>3 DEF Measure
<1>4. CASE ReaderTakes \/ ResetBuffer
  <2>1. PICK n \in 1 .. fill : Leaves(n)
    BY <1>4 DEF ReaderTakes, ResetBuffer
  <2>2. QED
    BY <2>1 DEF Leaves
<1>5. CASE SetAudioOutput \/ UNCHANGED ringVars
  BY <1>5 DEF SetAudioOutput, ringVars
<1>6. QED
  BY <1>1, <1>2, <1>3, <1>4, <1>5 DEF RingNext

LEMMA RingInductive == RingSpec => [](RingTyped /\ DropsInv /\ HighWaterInv)
<1>1. RingInit => RingTyped /\ DropsInv /\ HighWaterInv
  BY RingBytesAssumption
  DEF RingInit, RingTyped, DropsInv, HighWaterInv, Coming
<1>2. RingTyped /\ DropsInv /\ HighWaterInv /\ [RingNext]_ringVars
        => RingTyped' /\ DropsInv' /\ HighWaterInv'
  BY RingTypedPreserved, DropsPreserved, HighWaterPreserved
<1>3. QED
  BY <1>1, <1>2, PTL DEF RingSpec

\* No loss goes uncounted and none is invented beyond what overtook the look,
\* for any sizes and any interleaving of the three threads.
THEOREM DropsCorrect == RingSpec => []DropsAccounted
<1>1. RingTyped /\ DropsInv => DropsAccounted
  BY DEF RingTyped, DropsInv, DropsAccounted, Coming
<1>2. QED
  BY <1>1, RingInductive, PTL

\* The high-water mark is real, and short of the peak by no more than what left
\* the buffer before it was measured.
THEOREM HighWaterCorrect == RingSpec => []HighWaterTrue
<1>1. RingTyped /\ HighWaterInv => HighWaterTrue
  BY DEF RingTyped, HighWaterInv, HighWaterTrue
<1>2. QED
  BY <1>1, RingInductive, PTL
=============================================================================
