-------------------------- MODULE ArithmeticSweep --------------------------
(***************************************************************************)
(* The arithmetic of R82xxMath, FcMath, TunerGains, Resampler and          *)
(* PowerMath against what it is for, over swept inputs: one probe per      *)
(* tuner walks the tuning range, one the bandwidths, one the gains,        *)
(* several the sample rates that rtlsdr_set_sample_rate accepts, from both *)
(* ends of both ranges, and one per set of options the widths of the       *)
(* ranges rtl_power may be given.                                          *)
(***************************************************************************)
EXTENDS R82xxMath, FcMath, TunerGains, Resampler, PowerMath

CONSTANTS
  Kinds,      \* what is swept
  FreqFirst, FreqLast, FreqStep,   \* LO frequencies swept, kHz
  FcFirst, FcLast, FcStep,         \* the same for the FC tuners, kHz
  BwLast, BwStep,                  \* bandwidths swept, Hz
  SdmBound,   \* how far the VCO may be off, kHz
  Xtals,      \* values of dev->rtl_xtal, Hz
  RateSteps,  \* how many rates are tried from each end of a range
  RateStep,   \* the distance between them, Hz
  BinSizes, Crops,                 \* rtl_power's -f and -c (quarters)
  WidthLast, WidthGrowth           \* widths swept, and by which part they grow

ASSUME SweepAssumption ==
  /\ FreqFirst \in Nat /\ FreqLast \in Nat /\ FreqStep \in Nat \ {0}
  /\ FcFirst \in Nat /\ FcLast \in Nat /\ FcStep \in Nat \ {0}
  /\ BwLast \in Nat /\ BwStep \in Nat \ {0} /\ SdmBound \in Nat
  /\ Xtals \subseteq Nat \ {0} /\ RateSteps \in Nat /\ RateStep \in Nat \ {0}
  /\ BinSizes \subseteq Nat \ {0} /\ Crops \subseteq 0..3
  /\ WidthLast \in Nat /\ WidthGrowth \in Nat \ {0}

\* Crystal (kHz) and vco_power_ref: R820T, Blog V4 and V4L, other R828D.
R820T == [ref |-> 28800, power |-> 2]
Chips == { R820T,
           [ref |-> 28800, power |-> 1],
           [ref |-> 16000, power |-> 1] }

FcKinds == {"FC0012", "FC0013", "FC2580"}
Options == [max_size : BinSizes, crop : Crops, boxcar : BOOLEAN]

\* The ends of the ranges of rates, those of the gap between them included.
RatesUp == {225000, 225001, 300001, 900000, 900001}
RatesDown == {300000, 900000, 3200000}

VARIABLES
  kind,   \* what is swept: "freq", "bw", "gain", a rate going "up" or "down",
          \* one of FcKinds, or "width"
  x,      \* its value
  chip,   \* the R82xx, or rtl_power's options
  xtal,   \* the crystal of the RTL2832
  taken   \* steps made along the rates

vars == << kind, x, chip, xtal, taken >>

\* How far gains are swept, and how far below the swept value the users'
\* targets are: they start under the lowest gain listed and end above the
\* highest.
MaxGain == 700
Below == 200

Init == /\ xtal \in Xtals /\ taken = 0 /\ kind \in Kinds
        /\ \/ kind = "freq" /\ x = FreqFirst
           \/ kind \in FcKinds /\ x = FcFirst
           \/ kind = "bw" /\ x = 0
           \/ kind = "gain" /\ x = 0
           \/ kind = "up" /\ x \in RatesUp
           \/ kind = "down" /\ x \in RatesDown
           \/ kind = "width" /\ x = 1
        /\ chip \in CASE kind = "freq" -> Chips [] kind = "width" -> Options [] OTHER -> {R820T}

Sweep(value, last) == /\ value <= last /\ x' = value
                      /\ UNCHANGED << kind, chip, xtal, taken >>

SweepFreq == kind = "freq" /\ Sweep(x + FreqStep, FreqLast)

SweepFc == kind \in FcKinds /\ Sweep(x + FcStep, FcLast)

SweepBw == kind = "bw" /\ Sweep(x + BwStep, BwLast)

SweepGain == kind = "gain" /\ Sweep(x + 1, MaxGain)

SweepWidth == kind = "width" /\ Sweep(x + 1 + x \div WidthGrowth, WidthLast)

SweepRate == /\ kind \in {"up", "down"} /\ taken < RateSteps
             /\ taken' = taken + 1
             /\ x' = IF kind = "up" THEN x + RateStep ELSE x - RateStep
             /\ UNCHANGED << kind, chip, xtal >>

Next == SweepFreq \/ SweepFc \/ SweepBw \/ SweepGain \/ SweepWidth \/ SweepRate

Spec == Init /\ [][Next]_vars

----------------------------------------------------------------------------
\* tuner_r82xx.c:468-542: for every frequency with an output divider the
\* integer part passes the validity test without having been cut to 8 bits,
\* ni and si rebuild it exactly and fit their fields, and nint and sdm
\* together put the VCO within SdmBound of where it should be; the sdm loop
\* ends before the 16-bit n_sdm is shifted to zero and divided by.
R82xxSynthesizes ==
  kind = "freq" /\ HasDivider(x) =>
    LET n == Nint(x, chip.ref)
        vco == x * MixDiv(x)
        off == vco - 2 * chip.ref * n - SdmKhz(Sdm(VcoFra(x, chip.ref), chip.ref), chip.ref)
    IN  /\ vco \div (2 * chip.ref) = n
        /\ ValidNint(x, chip.ref, chip.power)
        /\ 4 * Ni(n) + Si(n) + 13 = n /\ Ni(n) < 64 /\ Si(n) < 4
        /\ off >= -SdmBound /\ off <= SdmBound
        /\ ~SdmDividesByZero(VcoFra(x, chip.ref), chip.ref)

\* What registers 0x18, 0x1A, 0x1B and 0x1C of the FC2580 stand for: the
\* reference divider, the fraction and, with N, R times the VCO in kHz.
Fc2580R(pll) ==
  CASE pll.r18 \div 16 = 0 -> 1 [] pll.r18 \div 16 = 1 -> 2 [] pll.r18 \div 16 = 2 -> 4
Fc2580K(pll) == (pll.r18 % 16) * 65536 + pll.r1A * 256 + pll.r1B
Fc2580Khz(pll) ==
  2 * CRYSTAL_KHZ * pll.r1C + (2 * CRYSTAL_KHZ * (Fc2580K(pll) \div 32)) \div 32768

\* tuner_fc0012.c:148-247, tuner_fc0013.c:194-352: up to 948.5 MHz, and for
\* the FC0013 from 950 MHz on, every frequency has a valid pair of dividers;
\* wherever one is found, the two counters rebuild xdiv, and with the signed
\* fraction they put the VCO within 1 kHz of multi times the frequency (which
\* is less than 2^32 Hz: above that the product wraps).
\* tuner_fc2580.c:207-217, 337-343: R, N and K rebuild the VCO frequency to
\* the kHz and fit their registers.
FcSynthesizes ==
  /\ kind \in {"FC0012", "FC0013"} =>
       LET freq == Unit * ((1000 * x) \div Unit)
           fvco == FVco(kind, freq)
           rf == RfA_RfM(Xdiv(fvco))
           off == SynthesizedKhz(rf, Xin(fvco)) - (fvco * 64) \div 125
       IN  (freq \div Unit) * DividerRow(kind, freq).multi < VcoWord =>
             /\ x <= 948500 \/ (kind = "FC0013" /\ x > 950000) => ValidPll(Xdiv(fvco))
             /\ ValidPll(Xdiv(fvco)) => /\ 8 * rf[2] + rf[1] = Xdiv(fvco)
                                        /\ rf[1] >= 2 /\ off \in -1..1
  /\ kind = "FC2580" =>
       LET pll == Fc2580Pll(x)
       IN  /\ Fc2580R(pll) * Fc2580Vco(x) = Fc2580Khz(pll)
           /\ Fc2580K(pll) % 32 = 0

\* Every tuner's synthesizer makes the frequency it is asked for: the two
\* parts above, tuner_r82xx.c:468-542 and the set-frequency functions of the
\* FC tuners.
PllSynthesizes == R82xxSynthesizes /\ FcSynthesizes

\* tuner_r82xx.c:1087-1118: the low-pass index stays inside the table, and
\* the filter set is at least as wide as asked for while the next narrower
\* one would not be; the IF leaves room for half of it above DC.
FilterCovers ==
  kind = "bw" /\ x <= NarrowLimit =>
    /\ LowPassIndex(x) \in 1..10
    /\ RealBandwidth(x) >= x
    /\ LowPassIndex(x) < 10 => LowPassTable[LowPassIndex(x) + 1] < Remaining(x)
    /\ IntFreq(x) > RealBandwidth(x) \div 2

\* What the tuner makes of a gain the list offers; the FC0013 takes the gain
\* of the table's first entry with the bits written.
Fc0013Total(gain) ==
  LET t == fc0013_lna_gains
  IN  t[CHOOSE n \in DOMAIN t : t[n][2] = LnaBits("FC0013", gain)][1]

\* librtlsdr.c:984-993 against tuner_r82xx.c:993-1003, tuner_fc0013.c:449-494
\* and tuner_fc0012.c:324-340: what the R82xx is set to is the smallest total
\* its step tables reach that is not below the request, so that a larger
\* request never gives less.  Whatever gain a user asks for, the one that
\* nearest_gain (convenience.c:116) picks is as near as any in the list and
\* is what the tuner then sets, exactly; the FC0012 tells its five apart.
GainsAreRealised ==
  kind = "gain" =>
    LET t == GainSetting(x).total
        target == x - Below
        near == nearest_gain(fc0013_gains, target)
        chosen == nearest_gain(r82xx_gains, target)
        few == nearest_gain(fc0012_gains, target)
    IN  /\ t >= x \/ (GainSetting(x).lna = 15 /\ GainSetting(x).mix = 15)
        /\ \A g \in r82xx_gains : g >= x => t <= g
        /\ GainSetting(x).lna <= 15 /\ GainSetting(x).mix <= 15
        /\ GainSetting(chosen).total = chosen /\ Fc0013Total(near) = near
        /\ \A g \in fc0013_gains : Distance(target, near) <= Distance(target, g)
        /\ \A g \in r82xx_gains : Distance(target, chosen) <= Distance(target, g)
        /\ \A g \in fc0012_gains \ {few} : LnaBits("FC0012", g) # LnaBits("FC0012", few)

RateSwept == kind \in {"up", "down"}

\* librtlsdr.c:1131-1141, include/rtl-sdr.h:267-276 "Get actual sample rate
\* the device is configured to": every accepted rate has a ratio the register
\* can hold, so that the hardware divides by the wanted ratio up to its two
\* lowest bits, and the reported rate is the requested one.
RateIsExact ==
  RateSwept /\ RateSupported(x) =>
    LET w == WantedRatio(xtal, x)
    IN  /\ real_rsamp_ratio(xtal, x) = w - (w % 4)
        /\ real_rate(xtal, x) = x

\* rtl_power.c:459-520, 656-681, 738-755: when the range is not refused, the
\* library accepts the sample rate; the hops lie next to each other inside
\* the range and leave out less than one hop's width, or one hertz per hop
\* when bins are smaller than 1 MHz; what is left of a hop after cropping is
\* its width; bins are the largest that are not above the limit, but for the
\* FFT's limit of 2^21; the FFTs of a buffer stay inside it and the printed
\* bins inside the FFT.
HopsCover ==
  kind = "width" /\ ~ConversionOverflows(x, chip.crop) =>
    LET plan == Plan(x, chip.max_size, chip.crop, chip.boxcar)
        giant == chip.max_size >= MINIMUM_RATE
        real == plan.rate \div plan.downsample
        left == x - plan.tune_count * plan.bw_seen
        Wide(e) == CeilDiv(CeilDiv(plan.rate, plan.downsample), 2^e) > chip.max_size
        last == plan.tune_count - 1
    IN  Refused(plan) \/
          /\ RateSupported(plan.rate)
          /\ left >= 0 /\ left < IF giant THEN plan.bw_seen ELSE plan.tune_count
          /\ HopCenter(plan, last) + plan.bw_seen \div 2 <= x
          /\ (real \div 4) * (4 - plan.crop) + 4 >= plan.bw_seen
          /\ giant \/ plan.bin_e = 21 \/ ~Wide(plan.bin_e)
          /\ giant \/ plan.bin_e = 1 \/ Wide(plan.bin_e - 1)
          /\ plan.buf_len >= 2 * 2^plan.bin_e * plan.downsample
          /\ \A offset \in FftOffsets(plan) : offset + 2 * 2^plan.bin_e <= plan.buf_len
          /\ FirstBin(plan) <= LastBin(plan)

\* rtl_power.c:144 "recommended: 20%%-50%%" and 459 "evenly sized ranges, as
\* close to MAXIMUM_RATE as possible": also with a crop, no hop is wider than
\* the dongle can sample.
EvenlySized ==
  kind = "width" =>
    LET plan == Plan(x, chip.max_size, chip.crop, chip.boxcar)
    IN  Refused(plan) \/ (plan.downsample > 0 /\ plan.rate \in MINIMUM_RATE..MAXIMUM_RATE)
=============================================================================
