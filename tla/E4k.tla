--------------------------------- MODULE E4k ---------------------------------
(***************************************************************************)
(* The driver of the Elonics E4000 tuner (src/src/tuner_e4k.c), as the     *)
(* library calls it (librtlsdr.c:132-183).  Registers are bytes.  A driver *)
(* call is a list of register accesses; the driver reads a register over   *)
(* I2C each time it changes some of its bits, and almost never looks at    *)
(* whether an access worked.  Frequencies and bandwidths are in kHz, gains *)
(* in tenths of a dB (IF gains in dB).                                     *)
(***************************************************************************)
EXTENDS Integers, Sequences

CONSTANTS
  Freqs, Bandwidths, Gains, IfGains,   \* arguments of the calls
  Fosc,        \* the crystal
  MaxCalls,    \* bound on the calls after e4k_init
  MaxFaults    \* bound on the I2C transfers that fail

ASSUME E4kAssumption ==
  /\ Freqs \subseteq Nat /\ Bandwidths \subseteq Nat /\ Gains \subseteq Int
  /\ Fosc \in 16000..30000 /\ MaxCalls \in Nat /\ MaxFaults \in Nat
  /\ IfGains \subseteq ((1..6) \X Int)

VARIABLES
  chip,     \* the registers
  band,     \* e4k->band
  vco,      \* e4k->vco
  want,     \* what the program last asked for with success
  ret,      \* whether the last call returned success
  hit,      \* history: registers an access to which has failed
  calls, faults

vars == << chip, band, vco, want, ret, hit, calls, faults >>

Unknown == -1   \* a setting whose last change failed half-way

Regs == {"MASTER1", "SYNTH1", "SYNTH3", "SYNTH4", "SYNTH5", "SYNTH7", "FILT1", "FILT2",
         "FILT3", "GAIN1", "GAIN2", "GAIN3", "GAIN4", "AGC1", "AGC7", "AGC11", "BIAS"}

----------------------------------------------------------------------------
(* Tables. *)

RfCenterUhf == << 360, 380, 405, 425, 450, 475, 505, 540, 575, 615, 670, 720, 760, 840, 890, 970 >>
RfCenterL == << 1300, 1320, 1360, 1410, 1445, 1460, 1490, 1530,
                1560, 1590, 1640, 1660, 1680, 1700, 1720, 1750 >>

if_filter_bw == [
  MIX |-> << 27000, 27000, 27000, 27000, 27000, 27000, 27000, 27000,
             4600, 4200, 3800, 3400, 3300, 2700, 2300, 1900 >>,
  CHAN |-> << 5500, 5300, 5000, 4800, 4600, 4400, 4300, 4100, 3900, 3800, 3700,
              3600, 3400, 3300, 3200, 3100, 3000, 2950, 2900, 2800, 2750, 2700,
              2600, 2550, 2500, 2450, 2400, 2300, 2280, 2240, 2200, 2150 >>,
  RC |-> << 21400, 21000, 17600, 14700, 12400, 10600, 9000, 7700,
            6400, 5300, 4400, 3400, 2600, 1800, 1200, 1000 >> ]

Field(reg, shift, width) == [reg |-> reg, shift |-> shift, width |-> width]

if_filter_fields == [ MIX |-> Field("FILT2", 4, 4), CHAN |-> Field("FILT3", 0, 5),
                      RC |-> Field("FILT2", 0, 4) ]

if_stage_gain == << << -3, 6 >>, << 0, 3, 6, 9 >>, << 0, 3, 6, 9 >>, << 0, 1, 2, 2 >>,
                    << 3, 6, 9, 12, 15, 15, 15, 15 >>, << 3, 6, 9, 12, 15, 15, 15, 15 >> >>

\* Mutant: stage 3 overlaps stage 2.
if_stage_gain_regs_Overlap ==
  << Field("GAIN3", 0, 1), Field("GAIN3", 1, 2), Field("GAIN3", 2, 2),
     Field("GAIN3", 5, 2), Field("GAIN4", 0, 3), Field("GAIN4", 3, 3) >>

if_stage_gain_regs ==
  << Field("GAIN3", 0, 1), Field("GAIN3", 1, 2), Field("GAIN3", 3, 2),
     Field("GAIN3", 5, 2), Field("GAIN4", 0, 3), Field("GAIN4", 3, 3) >>

lnagain == << << -50, 0 >>, << -25, 1 >>, << 0, 4 >>, << 25, 5 >>, << 50, 6 >>,
              << 75, 7 >>, << 100, 8 >>, << 125, 9 >>, << 150, 10 >>, << 175, 11 >>,
              << 200, 12 >>, << 250, 13 >>, << 300, 14 >> >>

\* Upper frequency, SYNTH7 and divider of each row.
pll_vars == << << 72400, 15, 48 >>, << 81200, 14, 40 >>, << 108300, 13, 32 >>,
               << 162500, 12, 24 >>, << 216600, 11, 16 >>, << 325000, 10, 12 >>,
               << 350000, 9, 8 >>, << 432000, 3, 8 >>, << 667000, 2, 6 >>,
               << 1200000, 1, 4 >> >>

----------------------------------------------------------------------------
(* Register access. *)

FieldOf(v, f) == (v \div 2^f.shift) % 2^f.width

WithField(v, f, x) == v + (x - FieldOf(v, f)) * 2^f.shift

\* One access: kind write puts val in the whole register, mask in a field
\* after reading the register, field does so after one more read.
Write(reg, val) == [kind |-> "write", f |-> Field(reg, 0, 8), val |-> val]
Mask(f, val) == [kind |-> "mask", f |-> f, val |-> val]
FieldWrite(f, val) == [kind |-> "field", f |-> f, val |-> val]

\* The registers after one access and whether it returned 0.  A failed read
\* in e4k_reg_set_mask is kept in a uint8_t and taken for the value 255.
Access(regs, s, fault) ==
  LET old == IF fault = "read" THEN 255 ELSE regs[s.f.reg]
      new == IF s.kind = "write" THEN s.val ELSE WithField(old, s.f, s.val)
  IN  IF s.kind = "field" /\ fault = "check" THEN [regs |-> regs, ok |-> FALSE]
      ELSE IF s.kind # "write" /\ FieldOf(old, s.f) = s.val THEN [regs |-> regs, ok |-> TRUE]
      ELSE IF fault = "write" THEN [regs |-> regs, ok |-> FALSE]
      ELSE [regs |-> [regs EXCEPT ![s.f.reg] = new], ok |-> TRUE]

\* The faults an access can meet.
CanFail(s) == CASE s.kind = "write" -> {"write"}
                [] s.kind = "mask" -> {"read", "write"}
                [] OTHER -> {"check", "read", "write"}

\* What can go wrong in a call: nothing, or access number n meets fault.
Faults(steps) ==
  {[n |-> 0, fault |-> "none"]} \cup
  IF faults < MaxFaults
  THEN UNION {{[n |-> n, fault |-> e] : e \in CanFail(steps[n])} : n \in DOMAIN steps}
  ELSE {}

\* The register bad is about.
Damage(steps, bad) == IF bad.n = 0 THEN {} ELSE {steps[bad.n].f.reg}

\* All accesses in turn: the driver goes on after one that failed.
Run(start, steps, bad) ==
  LET after[n \in 0..Len(steps)] ==
        IF n = 0 THEN [regs |-> start, oks |-> << >>]
        ELSE LET a == Access(after[n - 1].regs, steps[n],
                             IF n = bad.n THEN bad.fault ELSE "none")
             IN  [regs |-> a.regs, oks |-> Append(after[n - 1].oks, a.ok)]
  IN  after[Len(steps)]

----------------------------------------------------------------------------
(* Filters and oscillator. *)

Delta(x, y) == IF x > y THEN x - y ELSE y - x

\* Mutant: the last entry that is not above the frequency.
closest_arr_idx_Floor(arr, x) ==
  CHOOSE n \in DOMAIN arr :
    /\ n = 1 \/ arr[n] <= x
    /\ \A m \in DOMAIN arr : m > n => arr[m] > x

\* The first of the closest entries (its place counted from 1).
closest_arr_idx(arr, x) ==
  CHOOSE n \in DOMAIN arr :
    /\ \A m \in DOMAIN arr : Delta(x, arr[n]) <= Delta(x, arr[m])
    /\ \A m \in 1..(n - 1) : Delta(x, arr[n]) < Delta(x, arr[m])

choose_rf_filter(bd, flo) ==
  CASE bd \in {0, 1} -> 0
    [] bd = 2 -> closest_arr_idx([n \in DOMAIN RfCenterUhf |-> 1000 * RfCenterUhf[n]], flo) - 1
    [] bd = 3 -> closest_arr_idx([n \in DOMAIN RfCenterL |-> 1000 * RfCenterL[n]], flo) - 1

\* Row of pll_vars: the first whose limit is above the frequency, else R = 2.
PllRow(flo) ==
  IF \E n \in DOMAIN pll_vars : flo < pll_vars[n][1]
  THEN LET n == CHOOSE n \in DOMAIN pll_vars :
                  flo < pll_vars[n][1] /\ \A m \in 1..(n - 1) : flo >= pll_vars[m][1]
       IN  [r_idx |-> pll_vars[n][2], r |-> pll_vars[n][3]]
  ELSE [r_idx |-> 0, r |-> 2]

\* -EINVAL as a uint32_t, in kHz.
EINVAL == 4294967

\* The oscillator frequency, or what is taken for one when there is none.
compute_flo(z, x, r) ==
  IF z = 0 /\ x = 0 THEN EINVAL ELSE (Fosc * z + (Fosc * x) \div 65536) \div r

\* z and x are cut to 8 and 16 bits when they are stored.
e4k_compute_pll_params(f) ==
  LET row == PllRow(f)
      z == ((f * row.r) \div Fosc) % 256
      x == ((((f * row.r) % Fosc) * 65536) \div Fosc) % 65536
  IN  [r_idx |-> row.r_idx, z |-> z, x |-> x, flo |-> compute_flo(z, x, row.r)]

BandFor(flo) == CASE flo < 140000 -> 0
                  [] flo >= 140000 /\ flo < 350000 -> 1
                  [] flo >= 350000 /\ flo < 1135000 -> 2
                  [] OTHER -> 3

----------------------------------------------------------------------------
(* The calls. *)

BandField == Field("SYNTH1", 1, 2)
RfFilter == Field("FILT1", 0, 4)

\* e4k_tune_params with p, the band being bd when the filter is chosen.
TuneSteps(p, bd) ==
  << Write("SYNTH7", p.r_idx), Write("SYNTH3", p.z), Write("SYNTH4", p.x % 256),
     Write("SYNTH5", p.x \div 256),
     Write("BIAS", IF BandFor(p.flo) = 3 THEN 0 ELSE 3),
     Mask(BandField, 0), Mask(BandField, BandFor(p.flo)),
     Mask(RfFilter, choose_rf_filter(bd, p.flo)) >>

BandStep == 7

Called == calls < MaxCalls /\ calls' = calls + 1

\* e4k_tune_freq.  Only the lock bit decides the result, and a failed read
\* of it (the last access) counts as locked.  Its test for a frequency of 0
\* never holds: there is one, or -EINVAL.
TuneFreq(f) ==
  /\ Called
  /\ LET p == e4k_compute_pll_params(f)
         steps(bd) == TuneSteps(p, bd)
     IN  \E bad \in Faults(steps(band)), locks \in BOOLEAN, lockread \in BOOLEAN :
           /\ lockread \/ (bad.n = 0 /\ faults < MaxFaults)
           /\ LET set == bad.n = BandStep /\ bad.fault = "write"
                  bd == IF set THEN band ELSE BandFor(p.flo)
                  run == Run(chip, steps(bd), bad)
                  ok == locks \/ ~lockread
              IN  /\ chip' = run.regs /\ band' = bd /\ vco' = p
                  /\ ret' = ok
                  /\ want' = [want EXCEPT !.freq = IF ok THEN f ELSE Unknown,
                                          !.clean = bad.n = 0]
                  /\ hit' = hit \cup Damage(steps(bd), bad)
                  /\ faults' = faults + IF bad.n = 0 /\ lockread THEN 0 ELSE 1

\* A call made of steps; Result(oks) says whether it returns success, and
\* then, want is new.
Call(steps, Result(_), new) ==
  /\ Called /\ UNCHANGED << band, vco >>
  /\ \E bad \in Faults(steps) :
       /\ LET run == Run(chip, steps, bad)
          IN  /\ chip' = run.regs /\ ret' = Result(run.oks)
              /\ want' = IF Result(run.oks) THEN new ELSE want
       /\ hit' = hit \cup Damage(steps, bad)
       /\ faults' = faults + IF bad.n = 0 THEN 0 ELSE 1

Refused == Called /\ ret' = FALSE /\ UNCHANGED << chip, band, vco, want, hit, faults >>

AllOk(oks) == \A n \in DOMAIN oks : oks[n]
Ignored(oks) == TRUE

\* e4k_if_gain_set, through rtlsdr_set_tuner_if_gain.
IfGainSet(stage, gain) ==
  LET fits == {n \in DOMAIN if_stage_gain[stage] : if_stage_gain[stage][n] = gain}
  IN  IF fits = {} THEN Refused
      ELSE LET n == CHOOSE n \in fits : \A m \in fits : n <= m
           IN  Call(<< Mask(if_stage_gain_regs[stage], n - 1) >>, AllOk,
                    [want EXCEPT !.stage[stage] = gain])

FilterSteps(mix, rc, chan) ==
  << FieldWrite(if_filter_fields.MIX, closest_arr_idx(if_filter_bw.MIX, mix) - 1),
     FieldWrite(if_filter_fields.RC, closest_arr_idx(if_filter_bw.RC, rc) - 1),
     FieldWrite(if_filter_fields.CHAN, closest_arr_idx(if_filter_bw.CHAN, chan) - 1) >>

\* e4000_set_bw: the three filters.  A failure leaves the width unknown.
SetBw(bw) ==
  /\ Called /\ UNCHANGED << band, vco >>
  /\ \E bad \in Faults(FilterSteps(bw, bw, bw)) :
       LET run == Run(chip, FilterSteps(bw, bw, bw), bad)
       IN  /\ chip' = run.regs /\ ret' = AllOk(run.oks)
           /\ want' = [want EXCEPT !.bw = IF AllOk(run.oks) THEN << bw, bw, bw >>
                                          ELSE << Unknown, Unknown, Unknown >>]
           /\ hit' = hit \cup Damage(FilterSteps(bw, bw, bw), bad)
           /\ faults' = faults + IF bad.n = 0 THEN 0 ELSE 1

LnaField == Field("GAIN1", 0, 4)
MixerField == Field("GAIN2", 0, 1)
MixGain(gain) == IF gain > 340 THEN 120 ELSE 40

\* e4000_set_gain: a gain the LNA table does not have changes nothing; only
\* that is reported.
SetGain(gain) ==
  LET rest == gain - MixGain(gain)
      lna == IF rest > 300 THEN 300 ELSE rest
      rows == {n \in DOMAIN lnagain : lnagain[n][1] = lna}
  IN  IF rows = {} THEN Refused
      ELSE Call(<< Mask(LnaField, lnagain[CHOOSE n \in rows : TRUE][2]),
                   Mask(MixerField, IF MixGain(gain) = 120 THEN 1 ELSE 0) >>,
                Ignored, [want EXCEPT !.gain = gain])

AgcMode == Field("AGC1", 0, 4)
MixAuto == Field("AGC7", 0, 1)

ManualSteps(manual) ==
  IF manual THEN << Mask(AgcMode, 0), Mask(MixAuto, 0) >>
            ELSE << Mask(AgcMode, 9), Mask(MixAuto, 1), Mask(Field("AGC11", 0, 3), 0) >>

\* e4k_enable_manual_gain
EnableManualGain(manual) ==
  Call(ManualSteps(manual), Ignored, [want EXCEPT !.manual = manual])

Standby(on) ==
  Call(<< Mask(Field("MASTER1", 1, 1), IF on THEN 0 ELSE 1) >>, Ignored,
       [want EXCEPT !.awake = ~on])

InitGains == << 6, 0, 0, 0, 9, 9 >>

InitSteps ==
  << Write("MASTER1", 7), Mask(AgcMode, 0), Mask(MixAuto, 0) >>
  \o ManualSteps(FALSE)
  \o [s \in 1..6 |-> Mask(if_stage_gain_regs[s],
        CHOOSE n \in 0..7 : /\ n + 1 \in DOMAIN if_stage_gain[s]
                            /\ if_stage_gain[s][n + 1] = InitGains[s])]
  \o FilterSteps(1900, 1000, 2150)
  \o << Mask(Field("FILT3", 5, 1), 0) >>

\* e4k_init, which rtlsdr_open and the end of direct sampling call, on a chip
\* with any contents; the reset it starts with clears them.
Init ==
  /\ chip = Run([r \in Regs |-> 0], InitSteps, [n |-> 0, fault |-> "none"]).regs
  /\ band = 0 /\ vco = [r_idx |-> 0, z |-> 0, x |-> 0, flo |-> 0]
  /\ want = [freq |-> Unknown, clean |-> TRUE, stage |-> InitGains, bw |-> << 1900, 1000, 2150 >>,
             gain |-> Unknown, manual |-> FALSE, awake |-> TRUE]
  /\ ret = TRUE /\ hit = {} /\ calls = 0 /\ faults = 0

Next ==
  \/ \E f \in Freqs : TuneFreq(f)
  \/ \E g \in IfGains : IfGainSet(g[1], g[2])
  \/ \E bw \in Bandwidths : SetBw(bw)
  \/ \E g \in Gains : SetGain(g)
  \/ \E on \in BOOLEAN : EnableManualGain(on)
  \/ \E on \in BOOLEAN : Standby(on)

Spec == Init /\ [][Next]_vars

----------------------------------------------------------------------------
(* What the chip does with its registers. *)
ChipRow == CASE chip["SYNTH7"] = 0 -> 2
             [] OTHER -> pll_vars[CHOOSE n \in DOMAIN pll_vars : pll_vars[n][2] = chip["SYNTH7"]][3]
ChipX == 256 * chip["SYNTH5"] + chip["SYNTH4"]
ChipFlo == (Fosc * chip["SYNTH3"] + (Fosc * ChipX) \div 65536) \div ChipRow
ChipBand == FieldOf(chip["SYNTH1"], BandField)
ChipLna == lnagain[CHOOSE n \in DOMAIN lnagain : lnagain[n][2] = FieldOf(chip["GAIN1"], LnaField)][1]

\* Type correctness; every register holds a byte, whatever fields were put
\* into it (tuner_e4k.c:101-127).
TypeOK ==
  /\ chip \in [Regs -> 0..255] /\ band \in 0..3 /\ ret \in BOOLEAN
  /\ vco.z \in 0..255 /\ vco.x \in 0..65535
  /\ hit \subseteq Regs /\ calls \in 0..MaxCalls /\ faults \in 0..MaxFaults

\* tuner_e4k.c:572 "returns actual tuned frequency, negative in case of
\* error": after a tuning that succeeded the synthesizer's registers make an
\* oscillator frequency within 1 kHz below the one asked for, the band is the
\* one that frequency is in and no other RF filter of that band is closer.
\* Failed register accesses of a tuning go unnoticed (tuner_e4k.c:538), but
\* the next tuning without one repairs everything they left behind.  For 0 Hz
\* there is no oscillator, and the L band is set (tuner_e4k.c:442-446).
Tuned ==
  want.clean /\ want.freq \notin {Unknown, 0} =>
    /\ ChipFlo <= want.freq /\ ChipFlo >= want.freq - 1
    /\ ChipBand = BandFor(ChipFlo)
    /\ LET sel == FieldOf(chip["FILT1"], RfFilter)
           Closest(arr) == \A n \in DOMAIN arr :
              Delta(ChipFlo, 1000 * arr[sel + 1]) <= Delta(ChipFlo, 1000 * arr[n])
       IN  CASE ChipBand = 2 -> Closest(RfCenterUhf)
             [] ChipBand = 3 -> Closest(RfCenterL)
             [] OTHER -> sel = 0

\* tuner_e4k.c:94 "Set or clear some (masked) bits inside a register": each
\* setting stays as the program last made it, whatever other settings that
\* share its registers are changed: IF gains, filter widths (the closest
\* available), total gain, gain mode and standby.  A read that fails counts
\* as 255 (tuner_e4k.c:104), which damages the settings in that register and
\* no others.
SettingsHold ==
  /\ \A s \in 1..6 : if_stage_gain_regs[s].reg \notin hit =>
       if_stage_gain[s][FieldOf(chip[if_stage_gain_regs[s].reg], if_stage_gain_regs[s]) + 1]
         = want.stage[s]
  /\ \A k \in 1..3 :
       LET filter == << "MIX", "RC", "CHAN" >>[k]
           set == FieldOf(chip[if_filter_fields[filter].reg], if_filter_fields[filter])
       IN  want.bw[k] # Unknown /\ if_filter_fields[filter].reg \notin hit =>
             \A n \in DOMAIN if_filter_bw[filter] :
               Delta(want.bw[k], if_filter_bw[filter][set + 1])
                 <= Delta(want.bw[k], if_filter_bw[filter][n])
  /\ want.gain # Unknown /\ {"GAIN1", "GAIN2"} \cap hit = {} =>
       want.gain = ChipLna + IF FieldOf(chip["GAIN2"], MixerField) = 1 THEN 120 ELSE 40
  /\ "AGC1" \notin hit => FieldOf(chip["AGC1"], AgcMode) = IF want.manual THEN 0 ELSE 9
  /\ "AGC7" \notin hit => FieldOf(chip["AGC7"], MixAuto) = IF want.manual THEN 0 ELSE 1
  /\ "MASTER1" \notin hit =>
       FieldOf(chip["MASTER1"], Field("MASTER1", 1, 1)) = IF want.awake THEN 1 ELSE 0
  /\ "FILT3" \notin hit => FieldOf(chip["FILT3"], Field("FILT3", 5, 1)) = 0

\* tuner_e4k.c:409 "this is a magic number somewhre between VHF and UHF":
\* three-phase mixing goes with the VHF bands and with no other.
MixingMatchesBand ==
  want.freq # Unknown => ((chip["SYNTH7"] >= 8) <=> ChipBand \in {0, 1})
=============================================================================
