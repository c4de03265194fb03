---------------------------- MODULE AdsbDecoder ----------------------------
(***************************************************************************)
(* The decoder of rtl_adsb (src/src/rtl_adsb.c): manchester() turns the    *)
(* magnitudes of a block, in place, into bits and marks, and messages()    *)
(* collects the runs of bits into frames and displays them.  One step is   *)
(* one turn of one of the nested loops.  The lengths of the preamble and   *)
(* of the frames are parameters (16, 112 and 56 in the code, 8 bits tell   *)
(* the two apart).  The stream's callback copies the next block into the   *)
(* same buffer without a lock, so the buffer may change between any two    *)
(* steps.                                                                  *)
(***************************************************************************)
EXTENDS Naturals, Sequences

CONSTANTS
  BlockLen,        \* magnitudes in a block
  preamble_len, PreambleHigh,   \* length, and offsets of its high samples
  long_frame, short_frame, TypeBits,
  ErrorLimits,     \* values of -e
  Qualities,       \* values of -Q, times ten
  short_output,    \* -S
  KnownTypes,      \* downlink formats displayed without quality checks
  Blocks,          \* blocks delivered: samples, the frame they carry, and a
                   \* bound on the callbacks that come while they are decoded
  RawBlocks        \* what a block is before magnitute(), read as 16 bits

ASSUME DecoderAssumption ==
  /\ BlockLen \in Nat /\ preamble_len \in 2..BlockLen
  /\ PreambleHigh \subseteq 0..(preamble_len - 1) /\ 0 \in PreambleHigh
  /\ short_frame \in Nat /\ long_frame \in Nat /\ short_frame < long_frame
  /\ TypeBits \in 1..short_frame
  /\ ErrorLimits \subseteq Nat /\ Qualities \subseteq Nat
  /\ short_output \in BOOLEAN
  /\ Blocks \subseteq [samples : [0..(BlockLen - 1) -> Nat], frame : Seq({0, 1}), callbacks : Nat]
  /\ RawBlocks \subseteq [0..(BlockLen - 1) -> Nat]

MESSAGEGO == 253
OVERWRITE == 254
BADSAMPLE == 255

VARIABLES
  allowed_errors, quality,   \* options, which do not change
  block,      \* the block as it was delivered
  buf,        \* the same memory, as decoding leaves it
  pc,         \* search, bits: manchester; scan, collect: messages; done
  i, i2, a, b, errors,   \* locals of manchester, i of messages too
  data,       \* the bits of adsb_frame so far
  frame_len,
  shown,      \* the frames displayed
  bits,       \* the places manchester has put a bit at
  overwrites

vars == << allowed_errors, quality, block, buf, pc, i, i2, a, b, errors, data,
           frame_len, shown, bits, overwrites >>

options == << allowed_errors, quality, block >>
Index == 0..(BlockLen - 1)
Last(S, j) == CHOOSE k \in S : k <= j /\ \A l \in S : l <= j => l <= k

\* At no point of the preamble is the latest high sample below the latest
\* low one; low starts as 0.
Preamble(at) ==
  LET low == (0..(preamble_len - 1)) \ PreambleHigh
      LowAt(j) == IF \E k \in low : k <= j THEN buf[at + Last(low, j)] ELSE 0
  IN  \A j \in 0..(preamble_len - 1) : buf[at + Last(PreambleHigh, j)] > LowAt(j)

\* A pair (c, d) of samples as a bit, given the pair (p, q) before it.
single_manchester(p, q, c, d) ==
  LET up == p > q
      bit == IF c > d THEN 1 ELSE 0
      good == CASE quality = 0 -> TRUE
                [] quality = 5 -> ~(c > d /\ up /\ q > c) /\ ~(c <= d /\ ~up /\ q < c)
                [] quality = 10 -> CASE c > d /\ up -> c > q
                                     [] c > d /\ ~up -> d < q
                                     [] c <= d /\ up -> d > q
                                     [] OTHER -> c < q
                [] OTHER -> CASE c > d /\ up -> c > q /\ d < p
                              [] c > d /\ ~up -> c > p /\ d < q
                              [] c <= d /\ up -> c < p /\ d > q
                              [] OTHER -> c < q /\ d > p
  IN  IF good THEN bit ELSE BADSAMPLE

Init ==
  /\ allowed_errors \in ErrorLimits /\ quality \in Qualities
  /\ block \in Blocks /\ buf = block.samples
  /\ pc = "search" /\ i = 0 /\ i2 = 0 /\ a = 0 /\ b = 0 /\ errors = 0
  /\ data = << >> /\ frame_len = long_frame /\ shown = << >>
  /\ bits = {} /\ overwrites = 0

----------------------------------------------------------------------------
(* manchester *)

SearchEnd == BlockLen - preamble_len

\* Mutant: the last pair is taken to start at the last sample.
maximum_i_Whole == BlockLen

maximum_i == BlockLen - 1

SearchOn ==
  /\ pc = "search" /\ i < SearchEnd /\ ~Preamble(i)
  /\ i' = i + 1
  /\ UNCHANGED << options, buf, pc, i2, a, b, errors, data, frame_len, shown, bits, overwrites >>

PreambleFound ==
  /\ pc = "search" /\ i < SearchEnd /\ Preamble(i)
  /\ a' = buf[i] /\ b' = buf[i + 1]
  /\ buf' = [k \in Index |-> IF k \in i..(i + preamble_len - 1) THEN MESSAGEGO ELSE buf[k]]
  /\ bits' = bits \ (i..(i + preamble_len - 1))
  /\ i' = i + preamble_len /\ i2' = i' /\ errors' = 0 /\ pc' = "bits"
  /\ UNCHANGED << options, data, frame_len, shown, overwrites >>

\* No preamble: the samples that are left are decoded all the same.
SearchEnds ==
  /\ pc = "search" /\ i >= SearchEnd
  /\ i2' = i /\ errors' = 0 /\ pc' = "bits"
  /\ UNCHANGED << options, buf, i, a, b, data, frame_len, shown, bits, overwrites >>

\* A pair becomes a bit at i2; both its places are marked first.
PutBit(bit) ==
  /\ buf' = [buf EXCEPT ![i] = OVERWRITE, ![i + 1] = OVERWRITE, ![i2] = bit]
  /\ bits' = (bits \ {i, i + 1}) \cup {i2}
  /\ i' = i + 2 /\ i2' = i2 + 1
  /\ UNCHANGED << options, pc, data, frame_len, shown, overwrites >>

GoodBit ==
  /\ pc = "bits" /\ i < maximum_i
  /\ LET bit == single_manchester(a, b, buf[i], buf[i + 1])
     IN  /\ bit # BADSAMPLE
         /\ a' = buf[i] /\ b' = buf[i + 1] /\ PutBit(bit)
         /\ UNCHANGED errors

ToleratedBit ==
  /\ pc = "bits" /\ i < maximum_i /\ errors + 1 <= allowed_errors
  /\ single_manchester(a, b, buf[i], buf[i + 1]) = BADSAMPLE
  /\ errors' = errors + 1
  /\ a' = 0 /\ b' = 65535 /\ PutBit(IF buf[i] > buf[i + 1] THEN 1 ELSE 0)

\* Mutant: the previous pair is kept when the encoding breaks.
NextPair_Kept == << a, b >>

NextPair == << buf[i], buf[i + 1] >>

\* i stays where it is: the search goes on from the pair that broke.
EncodingBreaks ==
  /\ pc = "bits" /\ i < maximum_i /\ errors + 1 > allowed_errors
  /\ single_manchester(a, b, buf[i], buf[i + 1]) = BADSAMPLE
  /\ errors' = errors + 1
  /\ a' = NextPair[1] /\ b' = NextPair[2]
  /\ buf' = [buf EXCEPT ![i2] = BADSAMPLE] /\ bits' = bits \ {i2}
  /\ pc' = "search"
  /\ UNCHANGED << options, i, i2, data, frame_len, shown, overwrites >>

ManchesterEnds ==
  /\ pc = "bits" /\ i >= maximum_i
  /\ pc' = "scan" /\ i' = 0
  /\ UNCHANGED << options, buf, i2, a, b, errors, data, frame_len, shown, bits, overwrites >>

----------------------------------------------------------------------------
(* messages *)

Skip ==
  /\ pc = "scan" /\ i < BlockLen /\ buf[i] > 1
  /\ i' = i + 1
  /\ UNCHANGED << options, buf, pc, i2, a, b, errors, data, frame_len, shown, bits, overwrites >>

FrameBegins ==
  /\ pc = "scan" /\ i < BlockLen /\ buf[i] <= 1
  /\ data' = << >> /\ frame_len' = long_frame /\ pc' = "collect"
  /\ UNCHANGED << options, buf, i, i2, a, b, errors, shown, bits, overwrites >>

\* Mutant: the downlink format is looked at one bit late.
TypeKnown_Late(d) == Len(d) = TypeBits + 1

TypeKnown(d) == Len(d) = TypeBits

Zeros(n) == [k \in 1..n |-> 0]

Collecting == pc = "collect" /\ i < BlockLen /\ buf[i] <= 1 /\ Len(data) < frame_len

Collect ==
  /\ Collecting
  /\ LET d == Append(data, buf[i])
     IN  IF TypeKnown(d) /\ d = Zeros(TypeBits)
         THEN pc' = "scan" /\ UNCHANGED << data, frame_len >>
         ELSE /\ data' = d /\ UNCHANGED pc
              /\ frame_len' = IF ~TypeKnown(d) THEN frame_len
                              ELSE IF d[1] = 1 THEN long_frame ELSE short_frame
  /\ i' = i + 1
  /\ UNCHANGED << options, buf, i2, a, b, errors, shown, bits, overwrites >>

\* display: adsb_frame holds zeros where no bit was collected.
display ==
  LET frame == data \o Zeros(frame_len - Len(data))
  IN  IF /\ short_output \/ frame_len > short_frame
         /\ quality = 0 => SubSeq(frame, 1, TypeBits) \in KnownTypes
      THEN Append(shown, [bits |-> frame, end |-> i]) ELSE shown

\* The place after the frame is skipped.
FrameEnds ==
  /\ pc = "collect" /\ ~Collecting
  /\ shown' = IF Len(data) < frame_len - 1 THEN shown ELSE display
  /\ i' = i + 1 /\ pc' = "scan"
  /\ UNCHANGED << options, buf, i2, a, b, errors, data, frame_len, bits, overwrites >>

MessagesEnd ==
  /\ pc = "scan" /\ i >= BlockLen
  /\ pc' = "done"
  /\ UNCHANGED << options, buf, i, i2, a, b, errors, data, frame_len, shown, bits, overwrites >>

----------------------------------------------------------------------------
\* rtlsdr_callback runs in the middle of it all: memcpy(buffer, buf, len).
Overwrite ==
  /\ pc # "done" /\ overwrites < block.callbacks
  /\ buf' \in RawBlocks /\ bits' = {} /\ overwrites' = overwrites + 1
  /\ UNCHANGED << options, pc, i, i2, a, b, errors, data, frame_len, shown >>

Manchester == \/ SearchOn \/ PreambleFound \/ SearchEnds \/ GoodBit
              \/ ToleratedBit \/ EncodingBreaks \/ ManchesterEnds

Messages == Skip \/ FrameBegins \/ Collect \/ FrameEnds \/ MessagesEnd

Next == Manchester \/ Messages \/ Overwrite

Spec == Init /\ [][Next]_vars

FairSpec == Spec /\ WF_vars(Manchester) /\ WF_vars(Messages)

----------------------------------------------------------------------------
\* Type correctness: the buffer keeps its length and holds 16-bit words, and
\* what was decoded is bits (rtl_adsb.c:265-343).
TypeOK ==
  /\ allowed_errors \in ErrorLimits /\ quality \in Qualities /\ block \in Blocks
  /\ buf \in [Index -> Nat] /\ bits \subseteq Index
  /\ pc \in {"search", "bits", "scan", "collect", "done"}
  /\ i \in Nat /\ i2 \in Nat /\ a \in Nat /\ b \in Nat /\ errors \in Nat
  /\ data \in Seq({0, 1}) /\ frame_len \in {long_frame, short_frame}
  /\ shown \in Seq([bits : Seq({0, 1}), end : Nat]) /\ overwrites \in Nat

\* rtl_adsb.c:273-307: whatever the callback copies into the buffer
\* meanwhile, the next access of either loop is inside it.
AccessInBounds ==
  /\ pc = "search" /\ i < SearchEnd => i + preamble_len <= BlockLen
  /\ pc = "bits" /\ i < maximum_i => i + 1 < BlockLen /\ i2 <= i
  /\ pc = "collect" => Len(data) <= frame_len

\* rtl_adsb.c:273-308: decoding a block ends.  The outer loop repeats without
\* having moved i each time the encoding breaks, so this depends on a, b and
\* the mark left at i making the same pair decodable the next time.  (It does
\* not when a callback leaves 255, the mark itself, in both samples; no
\* magnitude is 255, it is not a sum of two squares.)
DecodeEnds == block.callbacks = 0 => <>(pc = "done")

\* rtl_adsb.c:265-343: when a block carries a frame of a known length whose
\* first byte is not 0, exactly that frame is displayed, wherever in the
\* block it starts (blocks whose frame is << >> carry none).
FrameDecoded ==
  LET frame == block.frame
      n == Len(frame)
  IN  /\ pc = "done" /\ overwrites = 0 /\ n > 0
      /\ n = IF frame[1] = 1 THEN long_frame ELSE short_frame
      /\ SubSeq(frame, 1, TypeBits) # Zeros(TypeBits)
      /\ quality = 0 => SubSeq(frame, 1, TypeBits) \in KnownTypes
      /\ short_output \/ n > short_frame
      => Len(shown) = 1 /\ shown[1].bits = frame

\* rtl_adsb.c:265 "overwrites magnitude buffer with valid bits (BADSAMPLE on
\* errors)": a frame displayed consists of bits manchester put there.
FramesAreBits ==
  \A n \in 1..Len(shown) : \A k \in 1..(long_frame - 1) :
    k <= Len(shown[n].bits) - 1 => (shown[n].end - k) \in bits

============================================================================
