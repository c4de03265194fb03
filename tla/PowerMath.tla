----------------------------- MODULE PowerMath -----------------------------
(***************************************************************************)
(* How rtl_power (src/src/rtl_power.c, frequency_range) divides a range of *)
(* frequencies into hops, sample rates and FFT sizes.  Frequencies are in  *)
(* Hz.  The share of each hop that is thrown away, crop, is a number of    *)
(* quarters: these are exact in the double the code computes with.         *)
(***************************************************************************)
EXTENDS Integers, FiniteSetsExt

MAXIMUM_RATE == 2800000
MINIMUM_RATE == 1000000
DEFAULT_BUF_LENGTH == 16384
MAX_TUNES == 3000
INT_MIN == -2147483647 - 1

CeilDiv(n, d) == (n + d - 1) \div d

\* (int)((double)bw_seen / (1.0 - crop)).  A quotient of 2^31 or more has no
\* int; the conversion gives INT_MIN on x86, and is undefined in C.
ConversionOverflows(bw_seen, crop) == bw_seen \div 2^29 >= 4 - crop
Uncropped(bw_seen, crop) ==
  LET m == 4 - crop
  IN  IF ConversionOverflows(bw_seen, crop) THEN INT_MIN
      ELSE (bw_seen \div m) * 4 + ((bw_seen % m) * 4) \div m

\* The number of hops: the smallest that needs no more than MAXIMUM_RATE.
\* The loop ends at 1499 and leaves the last bandwidths behind it.
Tries == 1..1499
Enough(width, crop) == {i \in Tries : Uncropped(width \div i, crop) <= MAXIMUM_RATE}
HopCount(width, crop) ==
  IF Enough(width, crop) = {} THEN 0 ELSE Min(Enough(width, crop))

\* Mutant: rounded up, past MAXIMUM_RATE.
Downsample_Up(bw_used) == CeilDiv(MAXIMUM_RATE, bw_used)

\* MAXIMUM_RATE / bw_used; INT_MIN makes it 0.
Downsample(bw_used) == IF bw_used < 0 THEN 0 ELSE MAXIMUM_RATE \div bw_used

\* The largest power of two that is not above n, for the recursive filter.
Passes(n) == CHOOSE p \in 0..22 : 2^p <= n /\ n < 2^(p + 1)

\* bin_e: the fewest bins, as a power of two, not wider than max_size.  With
\* no downsampling factor the bin size is not a number and never small enough.
BinE(bw_used, downsample, max_size) ==
  LET fits == {i \in 1..21 : downsample > 0 /\ CeilDiv(CeilDiv(bw_used, downsample), 2^i) <= max_size}
  IN  IF fits = {} THEN 21 ELSE Min(fits)

\* What a hop sees of the range, and by how much its sampling is cut down: not
\* at all unless its bandwidth is small.
HopWidth(width, count) == width \div (IF count = 0 THEN 1499 ELSE count)
HopFactor(bw_used) == IF bw_used < MINIMUM_RATE THEN Downsample(bw_used) ELSE 1

\* The recursive filter takes a power of two.
Filtered(factor, boxcar) == ~boxcar /\ factor > 1
FactorTaken(factor, boxcar) == IF Filtered(factor, boxcar) THEN 2^Passes(factor) ELSE factor
HopRate(bw_seen, crop, factor, boxcar) ==
  IF Filtered(factor, boxcar) THEN Uncropped(bw_seen * FactorTaken(factor, boxcar), crop)
  ELSE IF factor = 0 THEN 0 ELSE Uncropped(bw_seen, crop) * factor

BufferLength(bin_e, downsample) ==
  LET len == 2 * 2^bin_e * downsample
  IN  IF len < DEFAULT_BUF_LENGTH THEN DEFAULT_BUF_LENGTH ELSE len

\* frequency_range for a range of the given width (at least 1 Hz).
Plan(width, max_size, crop, boxcar) ==
  LET count == HopCount(width, crop)
      seen == HopWidth(width, count)
      bw == Uncropped(seen, crop)
      factor == HopFactor(bw)
      ds == FactorTaken(factor, boxcar)
      used == HopRate(seen, crop, factor, boxcar)
      giant == max_size >= MINIMUM_RATE
      e == IF giant THEN 0 ELSE BinE(used, ds, max_size)
  IN  [tune_count |-> IF giant THEN width \div max_size ELSE IF bw < MINIMUM_RATE THEN 1 ELSE count,
       bw_seen |-> IF giant THEN max_size ELSE seen,
       rate |-> IF giant THEN max_size ELSE used,
       downsample |-> ds,
       downsample_passes |-> IF Filtered(factor, boxcar) THEN Passes(factor) ELSE 0,
       bin_e |-> e, crop |-> IF giant THEN 0 ELSE crop, buf_len |-> BufferLength(e, ds)]

\* "bandwidth too wide", or usage() when no hop is left.
Refused(plan) == plan.tune_count > MAX_TUNES \/ plan.tune_count = 0

\* ts->freq of hop i, counted from 0, above the lower end of the range.
HopCenter(plan, i) == i * plan.bw_seen + plan.bw_seen \div 2

\* scanner: where the FFTs of one buffer start.
FftOffsets(plan) == {k * 2 * 2^plan.bin_e : k \in 0..(((plan.buf_len \div plan.downsample) - 1)
                                                        \div (2 * 2^plan.bin_e))}

\* csv_dbm: the bins of a row that are printed, first and last.
FirstBin(plan) == (2^plan.bin_e * plan.crop) \div 8
LastBin(plan) == 2^plan.bin_e - 1 - FirstBin(plan)
=============================================================================
