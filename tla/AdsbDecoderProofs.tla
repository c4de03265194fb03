------------------------- MODULE AdsbDecoderProofs -------------------------
(***************************************************************************)
(* Theorems about the decoder of rtl_adsb, for blocks, preambles and       *)
(* frames of every length and whatever the buffer is overwritten with.     *)
(***************************************************************************)
EXTENDS AdsbDecoder, SequenceTheorems, TLAPS

(* A bit is put no further than the pair it was read from.                 *)
BitsFallBehind == pc = "bits" => i2 <= i

(* A frame's bits fit into it, also once it turned out to be a short one.  *)
CollectedFits == pc = "collect" => Len(data) <= frame_len

DecoderInv == TypeOK /\ BitsFallBehind /\ CollectedFits

(* The lengths are natural numbers, in this order.                         *)
LEMMA Lengths ==
    /\ BlockLen \in Nat /\ preamble_len \in Nat /\ preamble_len >= 2 /\ preamble_len <= BlockLen
    /\ short_frame \in Nat /\ long_frame \in Nat /\ short_frame < long_frame
    /\ TypeBits \in Nat /\ TypeBits <= short_frame
BY DecoderAssumption DEF DecoderAssumption

(* The loops of manchester stay inside the buffer.                         *)
LEMMA ManchesterKeeps ==
    ASSUME DecoderInv, Manchester
    PROVE  DecoderInv'
<1> USE Lengths DEF options
<1>1. CASE SearchOn \/ SearchEnds \/ ManchesterEnds
  BY <1>1 DEF SearchOn, SearchEnds, ManchesterEnds, DecoderInv, TypeOK, BitsFallBehind, CollectedFits
<1>2. CASE PreambleFound
  <2>1. i \in Index /\ i + 1 \in Index
    BY <1>2 DEF PreambleFound, SearchEnd, DecoderInv, TypeOK, Index
  <2>2. a' \in Nat /\ b' \in Nat
    BY <1>2, <2>1 DEF PreambleFound, DecoderInv, TypeOK
  <2>3. buf' \in [Index -> Nat]
    BY <1>2 DEF PreambleFound, DecoderInv, TypeOK, MESSAGEGO
  <2> QED
    BY <1>2, <2>2, <2>3 DEF PreambleFound, DecoderInv, TypeOK, BitsFallBehind, CollectedFits
<1>3. CASE pc = "bits" /\ i < maximum_i
  <2>1. i \in Index /\ i + 1 \in Index /\ i2 \in Index
    BY <1>3 DEF maximum_i, DecoderInv, TypeOK, BitsFallBehind, Index
  <2>2. buf[i] \in Nat /\ buf[i + 1] \in Nat
    BY <2>1 DEF DecoderInv, TypeOK
  <2>3. ASSUME NEW bit \in Nat, PutBit(bit), a' \in Nat, b' \in Nat, errors' \in Nat
        PROVE  DecoderInv'
    <3>1. buf' \in [Index -> Nat] /\ bits' \subseteq Index
      BY <2>1, <2>3 DEF PutBit, DecoderInv, TypeOK, OVERWRITE
    <3>2. i' = i + 2 /\ i2' = i2 + 1 /\ i2 <= i /\ i \in Nat /\ i2 \in Nat
      BY <1>3, <2>3 DEF PutBit, DecoderInv, TypeOK, BitsFallBehind
    <3>3. BitsFallBehind' /\ i' \in Nat /\ i2' \in Nat
      BY <3>2 DEF BitsFallBehind
    <3> QED
      BY <1>3, <2>3, <3>1, <3>3 DEF PutBit, DecoderInv, TypeOK, CollectedFits
  <2>4. CASE GoodBit
    <3>1. single_manchester(a, b, buf[i], buf[i + 1]) \in Nat
      <4> DEFINE c == buf[i]
                 d == buf[i + 1]
      <4>1. single_manchester(a, b, c, d) \in {0, 1, BADSAMPLE}
        BY DEF single_manchester
      <4> QED
        BY <4>1 DEF BADSAMPLE
    <3> QED
      BY <2>2, <2>3, <2>4, <3>1 DEF GoodBit, DecoderInv, TypeOK
  <2>5. CASE ToleratedBit
    BY <2>2, <2>3, <2>5 DEF ToleratedBit, DecoderInv, TypeOK
  <2>6. CASE EncodingBreaks
    <3>1. buf' \in [Index -> Nat] /\ bits' \subseteq Index /\ a' \in Nat /\ b' \in Nat
      BY <2>1, <2>2, <2>6 DEF EncodingBreaks, NextPair, DecoderInv, TypeOK, BADSAMPLE
    <3> QED
      BY <2>6, <3>1 DEF EncodingBreaks, DecoderInv, TypeOK, BitsFallBehind, CollectedFits
  <2> QED
    BY <1>1, <1>2, <1>3, <2>4, <2>5, <2>6 DEF Manchester
<1> QED
  BY <1>1, <1>2, <1>3 DEF Manchester, GoodBit, ToleratedBit, EncodingBreaks

(* The bits messages() collects never exceed the frame.                    *)
LEMMA MessagesKeep ==
    ASSUME DecoderInv, Messages
    PROVE  DecoderInv'
<1> USE Lengths DEF options
<1>1. CASE Skip \/ MessagesEnd
  BY <1>1 DEF Skip, MessagesEnd, DecoderInv, TypeOK, BitsFallBehind, CollectedFits
<1>2. CASE FrameBegins
  <2>1. data' \in Seq({0, 1}) /\ Len(data') <= frame_len'
    <3>1. data' = << >> /\ frame_len' = long_frame
      BY <1>2 DEF FrameBegins
    <3>2. << >> \in Seq({0, 1}) /\ Len(<< >>) = 0
      OBVIOUS
    <3> QED
      BY <3>1, <3>2
  <2> QED
    BY <1>2, <2>1 DEF FrameBegins, DecoderInv, TypeOK, BitsFallBehind, CollectedFits
<1>3. CASE Collect
  <2> DEFINE d == Append(data, buf[i])
  <2>1. i \in Index /\ buf[i] \in {0, 1} /\ Len(data) < frame_len
    <3>1. i \in Index /\ buf[i] <= 1 /\ Len(data) < frame_len
      BY <1>3 DEF Collect, Collecting, DecoderInv, TypeOK, Index
    <3>2. buf[i] \in Nat
      BY <3>1 DEF DecoderInv, TypeOK
    <3> QED
      BY <3>1, <3>2
  <2>2. d \in Seq({0, 1}) /\ Len(d) = Len(data) + 1 /\ Len(data) \in Nat
    BY <2>1 DEF DecoderInv, TypeOK
  <2>3. \/ pc' = "scan" /\ UNCHANGED << data, frame_len >>
        \/ pc' = pc /\ data' = d /\ frame_len' = frame_len
        \/ pc' = pc /\ data' = d /\ Len(d) = TypeBits /\ frame_len' \in {long_frame, short_frame}
    BY <1>3 DEF Collect, TypeKnown
  <2> HIDE DEF d
  <2>4. data' \in Seq({0, 1}) /\ frame_len' \in {long_frame, short_frame} /\ CollectedFits'
    BY <2>1, <2>2, <2>3 DEF DecoderInv, TypeOK, CollectedFits
  <2> QED
    BY <1>3, <2>3, <2>4 DEF Collect, Collecting, DecoderInv, TypeOK, BitsFallBehind
<1>4. CASE FrameEnds
  <2> DEFINE frame == data \o Zeros(frame_len - Len(data))
  <2>1. Len(data) <= frame_len /\ Len(data) \in Nat /\ frame_len \in Nat
    BY <1>4 DEF FrameEnds, DecoderInv, TypeOK, CollectedFits
  <2>2. Zeros(frame_len - Len(data)) \in Seq({0, 1})
    BY <2>1 DEF Zeros
  <2>3. frame \in Seq({0, 1})
    BY <2>2, ConcatProperties DEF DecoderInv, TypeOK
  <2>4. [bits |-> frame, end |-> i] \in [bits : Seq({0, 1}), end : Nat]
    BY <2>3 DEF DecoderInv, TypeOK
  <2>5. shown' \in Seq([bits : Seq({0, 1}), end : Nat])
    BY <1>4, <2>4, AppendProperties DEF FrameEnds, display, DecoderInv, TypeOK
  <2> QED
    BY <1>4, <2>5 DEF FrameEnds, DecoderInv, TypeOK, BitsFallBehind, CollectedFits
<1> QED
  BY <1>1, <1>2, <1>3, <1>4 DEF Messages

(* The callback's copy is not in the way.                                  *)
LEMMA DecoderStep ==
    ASSUME DecoderInv, [Next]_vars
    PROVE  DecoderInv'
<1>1. CASE Overwrite
  BY <1>1, DecoderAssumption DEF Overwrite, DecoderAssumption, options, Index, DecoderInv, TypeOK,
                                 BitsFallBehind, CollectedFits
<1>2. CASE UNCHANGED vars
  BY <1>2 DEF vars, DecoderInv, TypeOK, BitsFallBehind, CollectedFits
<1> QED
  BY <1>1, <1>2, ManchesterKeeps, MessagesKeep DEF Next


(* Decoding a block never leaves the buffer, whatever the callback copies  *)
(* into it meanwhile, and a frame never outgrows its array.                *)
THEOREM DecoderStaysInside == Spec => []AccessInBounds
<1>1. Init => DecoderInv
  <2>1. ASSUME Init PROVE buf \in [Index -> Nat] /\ block \in Blocks
    BY <2>1, DecoderAssumption DEF Init, DecoderAssumption, Index
  <2> QED
    BY <2>1, DecoderAssumption DEF DecoderAssumption, Init, DecoderInv, TypeOK, BitsFallBehind, CollectedFits
<1>2. DecoderInv /\ [Next]_vars => DecoderInv'
  BY DecoderStep
<1>3. DecoderInv => AccessInBounds
  BY Lengths DEF DecoderInv, TypeOK, BitsFallBehind, CollectedFits, AccessInBounds, SearchEnd, maximum_i
<1> QED
  BY <1>1, <1>2, <1>3, PTL DEF Spec
============================================================================
