----------------------------- MODULE R82xxMath -----------------------------
(***************************************************************************)
(* The arithmetic of the R820T/R828D driver (src/src/tuner_r82xx.c): the   *)
(* IF filter chosen by r82xx_set_bandwidth, the synthesizer settings       *)
(* computed by r82xx_set_pll, and the gain steps chosen by r82xx_set_gain. *)
(* Everything is a constant operator; the driver's register traffic is     *)
(* module R82xx.  Bandwidths are in Hz, synthesizer frequencies in kHz (the*)
(* crystal and the local oscillator are taken to be whole kHz, so that the *)
(* divisions by 1000 of the source are exact), gains in tenths of a dB.    *)
(***************************************************************************)
EXTENDS Integers, Sequences

----------------------------------------------------------------------------
(* r82xx_set_bandwidth: two high-pass corners and one of ten low-pass ones. *)

\* The bandwidth each low-pass setting contributes, widest first.
LowPassTable == << 1700000, 1600000, 1550000, 1450000, 1200000,
                   900000, 700000, 550000, 450000, 350000 >>

FILT_HP_BW1 == 350000
FILT_HP_BW2 == 380000

\* Above this width the wide television filters are used, not the table.
NarrowLimit == LowPassTable[1] + FILT_HP_BW1 + FILT_HP_BW2

\* What is taken off the requested width by opening the high-pass corners.
\* Mutant: the two corner widths confused in the threshold.
HighPass2_Swapped(bw) ==
  IF bw > LowPassTable[1] + FILT_HP_BW2 THEN FILT_HP_BW2 ELSE 0

HighPass2(bw) == IF bw > LowPassTable[1] + FILT_HP_BW1 THEN FILT_HP_BW2 ELSE 0
HighPass1(bw) == IF bw - HighPass2(bw) > LowPassTable[1] THEN FILT_HP_BW1 ELSE 0
Remaining(bw) == bw - HighPass2(bw) - HighPass1(bw)

\* The loop over the table stops at the first entry narrower than what is
\* left, or past the end; --i then steps back to the last entry that covers
\* it.  0 would be a read before the table.
LoopStop(x) == CHOOSE i \in 1..11 : /\ \A j \in 1..(i - 1) : x <= LowPassTable[j]
                                    /\ i < 11 => x > LowPassTable[i]
LowPassIndex(bw) == LoopStop(Remaining(bw)) - 1

\* The width of the filter actually set, for the widths served by the table.
RealBandwidth(bw) ==
  HighPass2(bw) + HighPass1(bw) + LowPassTable[LowPassIndex(bw)]

\* priv->int_freq, which is also what r82xx_set_bandwidth returns.
IntFreq(bw) ==
  CASE bw > 6000000 -> 4570000
    [] bw > NarrowLimit /\ bw <= 6000000 -> 3570000
    [] OTHER -> 2300000 + HighPass2(bw) + HighPass1(bw)
                  - RealBandwidth(bw) \div 2

----------------------------------------------------------------------------
(* r82xx_set_pll: LO = 2 * ref * (nint + sdm / 2^16) / mix_div. *)

VcoMin == 1770000
VcoMax == 2 * VcoMin

\* The output divider that brings the VCO into its range; the loop leaves
\* mix_div at 128 when there is none.
Dividers == {2, 4, 8, 16, 32, 64}
InVcoRange(f, d) == f * d >= VcoMin /\ f * d < VcoMax
HasDivider(f) == \E d \in Dividers : InVcoRange(f, d)
MixDiv(f) == IF HasDivider(f) THEN CHOOSE d \in Dividers : InVcoRange(f, d)
                              ELSE 128

\* nint is a uint8_t.
Nint(f, ref) == ((f * MixDiv(f)) \div (2 * ref)) % 256
VcoFra(f, ref) == f * MixDiv(f) - 2 * ref * Nint(f, ref)

\* "No valid PLL values": vco_power_ref is 1 for the R828D and the Blog V4L,
\* 2 for the R820T.
ValidNint(f, ref, powerRef) == Nint(f, ref) <= (128 \div powerRef) - 1

\* Register 0x14: ni and si, both uint8_t.
Ni(n) == ((n - 13) \div 4) % 256
Si(n) == (n - 4 * Ni(n) - 13) % 256

\* Mutants: the weight of the next bit; the comparison one kHz too strict.
SdmTurn_NextBit(s, k, ref) ==
  LET step == (2 * ref) \div 2^k
  IN  IF s.fra > 1 /\ s.fra > step
      THEN [fra |-> s.fra - step, sdm |-> s.sdm + 32768 \div 2^k, hit |-> k]
      ELSE s
SdmTurn_Strict(s, k, ref) ==
  LET step == (2 * ref) \div 2^k
  IN  IF s.fra > 1 /\ s.fra > step + 1
      THEN [fra |-> s.fra - step, sdm |-> s.sdm + 32768 \div 2^(k - 1), hit |-> k]
      ELSE s

\* One turn of the sdm calculator with n_sdm = 2^k.  A turn is skipped once
\* vco_fra is at most 1, and the loop is left after a hit at n_sdm = 0x8000.
SdmTurn(s, k, ref) ==
  LET step == (2 * ref) \div 2^k
  IN  IF s.fra > 1 /\ s.fra > step
      THEN [fra |-> s.fra - step, sdm |-> s.sdm + 32768 \div 2^(k - 1), hit |-> k]
      ELSE s

\* The state of the calculator after the turns with n_sdm = 2 .. 2^k.
SdmAfter(fra, ref) ==
  LET s[k \in 0..15] == IF k = 0 THEN [fra |-> fra, sdm |-> 0, hit |-> 0]
                                 ELSE SdmTurn(s[k - 1], k, ref)
  IN  s

Sdm(fra, ref) == SdmAfter(fra, ref)[15].sdm

\* n_sdm is a uint16_t: a further turn after 0x8000 would shift it to zero
\* and divide by it.
SdmDividesByZero(fra, ref) ==
  LET s == SdmAfter(fra, ref)[15] IN s.fra > 1 /\ s.hit # 15

\* What the synthesizer produces for sdm, in kHz of the VCO.
SdmKhz(sdm, ref) == ((2 * ref) * (sdm \div 4)) \div 16384

----------------------------------------------------------------------------
(* r82xx_set_mux: the rows of freq_ranges, by their first frequency in MHz. *)

FreqRanges == << 0, 50, 55, 60, 65, 70, 75, 80, 90, 100, 110, 120, 140, 180,
                 220, 250, 280, 310, 450, 588, 650 >>

\* The row whose successor starts above the frequency (kHz), or the last.
FreqRange(f) ==
  CHOOSE i \in DOMAIN FreqRanges :
    /\ i = Len(FreqRanges) \/ f \div 1000 < FreqRanges[i + 1]
    /\ \A j \in 1..(i - 1) : f \div 1000 >= FreqRanges[j + 1]

\* The open-drain notch of a row.
RangeOpenD(f) == FreqRanges[FreqRange(f)] < 75

----------------------------------------------------------------------------
(* r82xx_set_gain: alternate one LNA step and one mixer step. *)

LnaSteps == << 9, 13, 40, 38, 13, 31, 22, 26, 31, 26, 14, 19, 5, 35, 13 >>
MixerSteps == << 5, 10, 10, 19, 9, 10, 25, 17, 10, 8, 16, 13, 6, 3, -8 >>

\* Mutant: the total is compared once per turn, not after the LNA step too.
GainAfter_OncePerTurn(gain) ==
  LET g[n \in 0..30] ==
        IF n = 0 THEN [total |-> 0, lna |-> 0, mix |-> 0]
        ELSE LET p == g[n - 1]
             IN  IF n % 2 = 1
                 THEN IF p.total >= gain THEN p
                      ELSE [p EXCEPT !.lna = @ + 1,
                                     !.total = @ + LnaSteps[p.lna + 1]]
                 ELSE IF p.lna = p.mix THEN p
                      ELSE [p EXCEPT !.mix = @ + 1,
                                     !.total = @ + MixerSteps[p.mix + 1]]
  IN  g

\* The loop's state after n of its thirty half-turns.
GainAfter(gain) ==
  LET g[n \in 0..30] ==
        IF n = 0 THEN [total |-> 0, lna |-> 0, mix |-> 0]
        ELSE LET p == g[n - 1]
             IN  IF p.total >= gain THEN p
                 ELSE IF n % 2 = 1
                      THEN [p EXCEPT !.lna = @ + 1,
                                     !.total = @ + LnaSteps[p.lna + 1]]
                      ELSE [p EXCEPT !.mix = @ + 1,
                                     !.total = @ + MixerSteps[p.mix + 1]]
  IN  g

GainSetting(gain) == GainAfter(gain)[30]

\* The gains rtlsdr_get_tuner_gains (src/src/librtlsdr.c) lists for the R82xx.
r82xx_gains == { 0, 9, 14, 27, 37, 77, 87, 125, 144, 157, 166, 197, 207, 229,
                 254, 280, 297, 328, 338, 364, 372, 386, 402, 421, 434, 439,
                 445, 480, 496 }
=============================================================================
