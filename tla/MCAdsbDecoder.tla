--------------------------- MODULE MCAdsbDecoder ---------------------------
EXTENDS AdsbDecoder

CONSTANT Leads   \* quiet samples in front of a frame

(* A block that carries one frame: a quiet lead, the preamble and the      *)
(* Manchester code of the frame, in samples hi and lo, then quiet again.   *)
Encoded(lead, frame, hi, lo, quiet) ==
  [k \in Index |->
     LET n == (k - lead - preamble_len) \div 2 + 1
     IN  CASE k < lead -> quiet
           [] k >= lead /\ k < lead + preamble_len ->
                IF (k - lead) \in PreambleHigh THEN hi ELSE lo
           [] k >= lead + preamble_len /\ n <= Len(frame) ->
                IF (frame[n] = 1) <=> ((k - lead - preamble_len) % 2 = 0) THEN hi ELSE lo
           [] OTHER -> quiet]

Frames == [1..short_frame -> {0, 1}] \cup [1..long_frame -> {0, 1}]

\* Blocks that carry a frame, whatever its bits, decoded undisturbed.
MCEncodedBlocks ==
  { [samples |-> Encoded(lead, frame, 400, lo, quiet), frame |-> frame, callbacks |-> 0] :
      lead \in Leads, frame \in Frames, lo \in {2, 5}, quiet \in {2, 5} }

\* Blocks that end with any samples and carry no frame.
Noise(S, n) ==
  { [k \in Index |-> IF k >= BlockLen - n THEN t[k - (BlockLen - n)] ELSE 2] :
      t \in [0..(n - 1) -> S] }

MCBlocks ==
  MCEncodedBlocks
    \cup [samples : Noise({0, 5, 400}, 6), frame : {<< >>}, callbacks : {0}]
    \cup [samples : Noise({0, 400}, 3), frame : {<< >>}, callbacks : {1}]

\* Raw bytes read as 16-bit words: more values than magnitudes have, 255 too.
MCRawBlocks == { [k \in Index |-> IF k % 2 = 0 THEN x ELSE y] : x, y \in {0, 255, 600} }

MCHigh == {0, 2}
MCKnownTypes == { << 1, 0 >>, << 0, 1 >> }
============================================================================
