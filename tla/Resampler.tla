----------------------------- MODULE Resampler -----------------------------
(***************************************************************************)
(* The sample-rate arithmetic of rtlsdr_set_sample_rate                    *)
(* (src/src/librtlsdr.c:1124-1141).  The RTL2832 divides its crystal by a  *)
(* 28-bit fixed-point ratio whose top bit the hardware repeats once more,  *)
(* so only ratios below 2^27, or from 3 * 2^27 up to 2^29, can be loaded.  *)
(***************************************************************************)
EXTENDS Integers

Bit27 == 2^27
Bit28 == 2^28

\* floor(n * 2^bits / d) by long division: the C code computes it in a
\* double, which is exact here.
ScaledQuotient(n, d, bits) ==
  LET q[i \in 0..bits] ==
        IF i = 0 THEN << n \div d, n % d >>
        ELSE LET p == q[i - 1]
                 r == 2 * p[2]
             IN  IF r >= d THEN << 2 * p[1] + 1, r - d >> ELSE << 2 * p[1], r >>
  IN  q[bits][1]

\* Mutant: the test for the gap between the two ranges is dropped.
RateSupported_NoGap(samp_rate) == samp_rate > 225000 /\ samp_rate <= 3200000

\* The rates the function accepts; any other is refused with -EINVAL.
RateSupported(samp_rate) ==
  /\ samp_rate > 225000 /\ samp_rate <= 3200000
  /\ ~(samp_rate > 300000 /\ samp_rate <= 900000)

WantedRatio(xtal, samp_rate) == ScaledQuotient(xtal, samp_rate, 22)

\* What is written: rsamp_ratio &= 0x0ffffffc.
rsamp_ratio(xtal, samp_rate) ==
  LET r == WantedRatio(xtal, samp_rate) % Bit28 IN r - (r % 4)

\* What the hardware uses: bit 27 repeated as bit 28.
real_rsamp_ratio(xtal, samp_rate) ==
  LET r == rsamp_ratio(xtal, samp_rate)
  IN  IF r >= Bit27 THEN r + Bit28 ELSE r

\* Mutant: computed from the register's 28 bits.
real_rate_Register(xtal, samp_rate) ==
  ScaledQuotient(xtal, rsamp_ratio(xtal, samp_rate), 22)

\* dev->rate, the rate the library reports.
\* The register's ratio is not 0 for any rate at 28.8 MHz.  At a corrected
\* crystal it can be, within 8 Hz of 225 kHz: C then divides by zero in double.
real_rate(xtal, samp_rate) ==
  ScaledQuotient(xtal, real_rsamp_ratio(xtal, samp_rate), 22)
=============================================================================
