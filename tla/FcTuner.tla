------------------------------- MODULE FcTuner -------------------------------
(***************************************************************************)
(* The drivers of the FC0012, FC0013 and FC2580 as the library calls them  *)
(* (src/src/librtlsdr.c:185-211), on top of FcMath.  The drivers keep no   *)
(* state; what they did is in the chip's registers, some of which several  *)
(* calls share, and in the RTL2832's GPIO pins.  A call is a list of       *)
(* register transfers.  The FC001x drivers stop at the first one that      *)
(* fails, but their gain functions and the FC2580's driver go on.          *)
(***************************************************************************)
EXTENDS FcMath, FiniteSets, FiniteSetsExt

CONSTANTS
  FcFreqs,      \* frequencies, Hz
  FcGains,      \* gains, tenths of a dB
  Pins,         \* GPIO pins: 6 switches the FC0012's filter, 0 the bias tee
  MaxFcCalls,   \* bound on the calls after the tuner's init
  MaxFcFaults   \* bound on the transfers that fail

VARIABLES
  tuner,      \* dev->tuner_type
  regs,       \* the tuner's registers
  gpio,       \* the RTL2832's registers GPO, GPOE and GPD, as sets of pins
  force_bt,   \* dev->force_bt: the bias tee stays on
  asked,      \* history: what the program last set and was told had worked
  level,      \* history: the level each pin was last asked for
  known,      \* history: the pins of each that no failed access has put in doubt
  fccalls, fcfaults

fcVars == << tuner, regs, gpio, force_bt, asked, level, known, fccalls, fcfaults >>

FcChips == {"FC0012", "FC0013", "FC2580"}
Unset == -1000    \* a setting that was never made, or whose change failed
Mixed == "mixed"  \* a group of registers only some of which were written

W(reg, val) == [reg |-> reg, val |-> val]
NoReg == W("none", 0)   \* a transfer that leaves no setting behind
\* A transfer made under a condition: where it is not made, its place in the
\* list stands for the one before or after it.
Made(condition, w) == IF condition THEN w ELSE NoReg

\* The registers after the transfers of s whose numbers are in done.
After(s, done) ==
  [r \in DOMAIN regs |->
     LET hits == {k \in done : s[k].reg = r}
     IN  IF hits = {} THEN regs[r] ELSE s[Max(hits)].val]

FcCalled == fccalls < MaxFcCalls /\ fccalls' = fccalls + 1

\* One transfer of a call may fail.
Fails(how) == /\ how # "none" => fcfaults < MaxFcFaults
              /\ fcfaults' = IF how = "none" THEN fcfaults ELSE fcfaults + 1

----------------------------------------------------------------------------
(* rtlsdr_set_gpio_bit and rtlsdr_set_gpio_output: reads and writes whose  *)
(* results nobody looks at.  A failed read gives whatever was on the stack. *)

\* A register with a pin's bit set or cleared.  Mutant: without reading it.
WithPin_Alone(pins, pin, on) == IF on THEN {pin} ELSE {}
WithPin(pins, pin, on) == IF on THEN pins \cup {pin} ELSE pins \ {pin}

\* What a register may hold after a pin's bit was to be set, and the pins it
\* is then known to hold as they should be.
PinOutcomes(reg, pin, on, how) ==
  CASE how = "gpioread" -> {[pins |-> WithPin(junk, pin, on), known |-> {pin}] : junk \in SUBSET Pins}
    [] how = "gpiowrite" -> {[pins |-> gpio[reg], known |-> known[reg] \ {pin}]}
    [] OTHER -> {[pins |-> WithPin(gpio[reg], pin, on), known |-> known[reg] \cup {pin}]}

SetGpioBit(pin, on, how) ==
  \E o \in PinOutcomes("GPO", pin, on, how) :
    /\ gpio' = [gpio EXCEPT !["GPO"] = o.pins]
    /\ known' = [known EXCEPT !["GPO"] = o.known]

\* rtlsdr_set_bias_tee: the pin is made an output, then set.
SetBiasTee(on) ==
  /\ tuner \in FcChips /\ FcCalled
  /\ \E how \in {"none", "gpioread", "gpiowrite"}, at \in {"GPD", "GPOE", "GPO"} :
       LET How(reg) == IF reg = at THEN how ELSE "none"
       IN  /\ Fails(how)
           /\ \E d \in PinOutcomes("GPD", 0, FALSE, How("GPD")),
                 e \in PinOutcomes("GPOE", 0, TRUE, How("GPOE")),
                 o \in PinOutcomes("GPO", 0, on \/ force_bt, How("GPO")) :
                /\ gpio' = [GPD |-> d.pins, GPOE |-> e.pins, GPO |-> o.pins]
                /\ known' = [GPD |-> d.known, GPOE |-> e.known, GPO |-> o.known]
  /\ level' = [level EXCEPT ![0] = on \/ force_bt]
  /\ UNCHANGED << tuner, regs, force_bt, asked >>

----------------------------------------------------------------------------
(* FC0012 and FC0013. *)

\* Filters of the FC0013; register 0x14 also holds the LNA gain, which is
\* read back and kept.  Mutant: it is not.
BandWrites_GainLost(freq) ==
  << W("r1d", VhfTrack(freq)), W("r07", freq < 300000000),
     W("r14", [band |-> IF freq < 300000000 THEN 0 ELSE 2, lna |-> 0]) >>
BandWrites(freq) ==
  << W("r1d", VhfTrack(freq)), W("r07", freq < 300000000),
     W("r14", [regs["r14"] EXCEPT !.band = IF freq < 300000000 THEN 0 ELSE 2]) >>

PllExists(freq) == ValidPll(Xdiv(FVco(tuner, freq)))

\* A tuning's transfers: the filters of the FC0013, registers 1 to 6, bit 2 of
\* its 0x11, the calibration with the voltage read back and, if that says so,
\* the other VCO and a second one.
PllWrites(freq, voltage) ==
  LET fvco == FVco(tuner, freq)
      rf == RfA_RfM(Xdiv(fvco))
      row == DividerRow(tuner, freq)
      vco_select == VcoSelect(fvco)
      r6(high) == W("r6", [div |-> row.reg6, high |-> high])
      is13 == tuner = "FC0013"
      filters == BandWrites(freq)
  IN  << Made(is13, filters[1]), Made(is13, filters[2]), Made(is13, filters[3]),
         W("r1", rf[1]), W("r2", rf[2]), W("r34", Xin(fvco)), W("r5", row.reg5 + 5),
         r6(vco_select), Made(is13, W("r11", row.multi = 64)), NoReg, NoReg,
         Made(HighVco(vco_select, voltage) # vco_select, r6(~vco_select)), NoReg >>

\* Without a PLL setting the call ends after the filters.
TuneWrites(freq, voltage) ==
  IF PllExists(freq) THEN PllWrites(freq, voltage)
  ELSE IF tuner = "FC0013" THEN BandWrites(freq) ELSE << >>

\* fc0012_set_params, fc0013_set_params, all of it or until a transfer fails.
\* Mutant: a failure is not looked at.
SetParams_Blind(freq, fails) ==
  \E voltage \in {0, 30, 63} :
    LET s == TuneWrites(freq, voltage)
    IN  \E n \in IF fails THEN 0..(Len(s) - 1) ELSE {Len(s)} :
          /\ regs' = After(s, 1..n)
          /\ asked' = [asked EXCEPT !.freq = IF PllExists(freq) THEN freq ELSE Unset]
SetParams(freq, fails) ==
  \E voltage \in {0, 30, 63} :
    LET s == TuneWrites(freq, voltage)
    IN  \E n \in IF fails THEN 0..(Len(s) - 1) ELSE {Len(s)} :
          /\ regs' = After(s, 1..n)
          /\ asked' = [asked EXCEPT
               !.freq = IF ~fails /\ PllExists(freq) THEN freq ELSE Unset]

\* fc0013_set_freq
Fc0013SetFreq(freq) ==
  /\ tuner = "FC0013" /\ FcCalled
  /\ \E how \in {"none", "tuner"} : Fails(how) /\ SetParams(freq, how = "tuner")
  /\ UNCHANGED << tuner, gpio, force_bt, level, known >>

\* fc0012_set_freq: the filter's pin, then the tuner.
Fc0012SetFreq(freq) ==
  /\ tuner = "FC0012" /\ FcCalled
  /\ \E how \in {"none", "gpioread", "gpiowrite", "tuner"} :
       /\ Fails(how)
       /\ SetGpioBit(6, freq > 300000000, how)
       /\ SetParams(freq, how = "tuner")
  /\ level' = [level EXCEPT ![6] = freq > 300000000]
  /\ UNCHANGED << tuner, force_bt >>

\* fc0012_set_gain: the result of the read is overwritten by the write's.
Fc0012SetGain(gain) ==
  /\ tuner = "FC0012" /\ FcCalled
  /\ \E how \in {"none", "read", "write"} :
       /\ Fails(how)
       /\ IF how = "write" THEN UNCHANGED << regs, asked >>
          ELSE /\ regs' = [regs EXCEPT !["r13"] = LnaBits("FC0012", gain)]
               /\ asked' = [asked EXCEPT !.gain = gain]
  /\ UNCHANGED << tuner, gpio, force_bt, level, known >>

\* fc0013_set_lna_gain: after a failed read the band bits are written as 0;
\* the call reports it, so what was tuned to before is not counted on.
Fc0013SetGain(gain) ==
  /\ tuner = "FC0013" /\ FcCalled
  /\ \E how \in {"none", "read", "write"} :
       LET band == IF how = "read" THEN 0 ELSE regs["r14"].band
       IN  /\ Fails(how)
           /\ regs' = IF how = "write" THEN regs
                      ELSE [regs EXCEPT !["r14"] = [band |-> band, lna |-> LnaBits("FC0013", gain)]]
           /\ asked' = CASE how = "none" -> [asked EXCEPT !.gain = gain]
                         [] how = "read" -> [asked EXCEPT !.gain = Unset, !.freq = Unset]
                         [] OTHER -> asked
  /\ UNCHANGED << tuner, gpio, force_bt, level, known >>

\* fc0013_set_gain_mode: bit 3 of register 0x0d, and the IF gain in 0x13; all
\* three transfers are made whatever happens to the others.
Fc0013SetGainMode(manual) ==
  /\ tuner = "FC0013" /\ FcCalled
  /\ \E how \in {"none", "read", "write", "ifgain"} :
       /\ Fails(how)
       /\ regs' = [regs EXCEPT !["r0d"] = IF how = "write" THEN @ ELSE manual,
                               !["r13"] = IF how = "ifgain" THEN @ ELSE 10]
       /\ asked' = [asked EXCEPT !.mode = IF how # "none" THEN "unknown"
                                          ELSE IF manual THEN "manual" ELSE "auto"]
  /\ UNCHANGED << tuner, gpio, force_bt, level, known >>

----------------------------------------------------------------------------
(* FC2580: result &= every transfer, and none is left out after a failure. *)

\* The register groups of a band; the LNA's load capacitance is the UHF
\* band's and the L band's.
Fc2580Writes(f_lo) ==
  LET band == Fc2580Band(f_lo)
      pll == Fc2580Pll(f_lo)
  IN  << W("front", << band, f_lo < 538000, f_lo < 794000 >>), W("filter", BandFilter(band)),
         NoReg, W("r02", [band |-> band, high |-> pll.highVco]),
         W("r18", pll.r18), W("r1A", pll.r1A), W("r1B", pll.r1B), W("r1C", pll.r1C),
         Made(band = "UHF", W("r2D", f_lo <= 794000)), Made(band = "L", W("r2D", "L")) >>

Groups == {"front", "filter"}

\* The transfers of s with those in lost failing.
RunAll(s, lost) ==
  LET after == After(s, DOMAIN s \ lost)
  IN  [r \in DOMAIN regs |->
         IF r \in Groups /\ \E k \in lost : s[k].reg = r THEN Mixed ELSE after[r]]

\* One transfer is lost, or all from one on.
LostSets(s) == {{k} : k \in DOMAIN s} \cup {k..Len(s) : k \in DOMAIN s}

\* A call made of s; done is what was asked for when nothing is lost.
Fc2580Call(s, done, failed) ==
  /\ tuner = "FC2580" /\ FcCalled
  /\ \/ Fails("none") /\ regs' = RunAll(s, {}) /\ asked' = done
     \/ /\ Fails("tuner") /\ asked' = failed
        /\ \E lost \in LostSets(s) : regs' = RunAll(s, lost)
  /\ UNCHANGED << tuner, gpio, force_bt, level, known >>

\* fc2580_SetRfFreqHz
Fc2580SetFreq(hz) ==
  Fc2580Call(Fc2580Writes(RoundKhz(hz)),
             [asked EXCEPT !.freq = hz, !.bw = BandFilter(Fc2580Band(RoundKhz(hz)))],
             [asked EXCEPT !.freq = Unset, !.bw = Unset])

\* fc2580_set_bw: mode 1 whatever the bandwidth; the filter's registers, then
\* its calibration.
Fc2580SetBw ==
  Fc2580Call(<< W("filter", 1), NoReg >>,
             [asked EXCEPT !.bw = 1], [asked EXCEPT !.bw = Unset])

----------------------------------------------------------------------------
\* The registers as fc0012_init, fc0013_init and fc2580_set_init leave them.
InitRegs(model) ==
  CASE model = "FC0012" ->
         [r1 |-> 5, r2 |-> 16, r34 |-> 0, r5 |-> 15, r6 |-> [div |-> 0, high |-> FALSE], r13 |-> 8]
    [] model = "FC0013" ->
         [r1 |-> 9, r2 |-> 22, r34 |-> 0, r5 |-> 23, r6 |-> [div |-> 2, high |-> FALSE],
          r07 |-> FALSE, r0d |-> FALSE, r11 |-> FALSE, r13 |-> 0,
          r14 |-> [band |-> 2, lna |-> 16], r1d |-> 0]
    [] model = "FC2580" ->
         [front |-> Mixed, filter |-> 8, r02 |-> [band |-> "UHF", high |-> TRUE],
          r18 |-> 0, r1A |-> 0, r1B |-> 0, r1C |-> 0, r2D |-> Mixed]
    [] OTHER -> << >>

\* After rtlsdr_open has probed for the tuner and initialised it.
FcInit ==
  /\ regs = InitRegs(tuner) /\ force_bt \in IF tuner \in FcChips THEN BOOLEAN ELSE {FALSE}
  /\ gpio = [GPO |-> IF force_bt THEN {0} ELSE {}, GPD |-> {},
             GPOE |-> (IF force_bt THEN {0} ELSE {}) \cup (IF tuner = "FC0012" THEN {6} ELSE {})]
  /\ known = [r \in {"GPO", "GPOE", "GPD"} |-> Pins]
  /\ asked = [freq |-> Unset, gain |-> Unset, mode |-> "unknown", bw |-> Unset]
  /\ level = [p \in Pins |-> p = 0 /\ force_bt]
  /\ fccalls = 0 /\ fcfaults = 0

FcNext ==
  \/ \E on \in BOOLEAN : SetBiasTee(on) \/ Fc0013SetGainMode(on)
  \/ \E f \in FcFreqs : Fc0012SetFreq(f) \/ Fc0013SetFreq(f) \/ Fc2580SetFreq(f)
  \/ \E g \in FcGains : Fc0012SetGain(g) \/ Fc0013SetGain(g)
  \/ Fc2580SetBw

----------------------------------------------------------------------------
\* The registers of the FC0012 and FC0013 are those of frequency f.
Fc001xTuned(f) ==
  LET fvco == FVco(tuner, f)
      row == DividerRow(tuner, f)
  IN  /\ 8 * regs["r2"] + regs["r1"] = Xdiv(fvco) /\ regs["r34"] = Xin(fvco)
      /\ regs["r5"] = row.reg5 + 5 /\ regs["r6"].div = row.reg6
      /\ tuner = "FC0013" =>
           /\ regs["r11"] = (row.multi = 64) /\ regs["r1d"] = VhfTrack(f)
           /\ regs["r07"] = (f < 300000000)
           /\ (regs["r14"].band = 0) = (f < 300000000)

\* The registers of the FC2580 are those of frequency f.
Fc2580Tuned(f) ==
  LET f_lo == RoundKhz(f)
      band == Fc2580Band(f_lo)
      pll == Fc2580Pll(f_lo)
  IN  /\ regs["front"] = << band, f_lo < 538000, f_lo < 794000 >>
      /\ regs["r02"] = [band |-> band, high |-> pll.highVco]
      /\ << regs["r18"], regs["r1A"], regs["r1B"], regs["r1C"] >>
           = << pll.r18, pll.r1A, pll.r1B, pll.r1C >>
      /\ band = "UHF" => regs["r2D"] = (f_lo <= 794000)

\* tuner_fc0012.c:148-312, tuner_fc0013.c:194-427, tuner_fc2580.c:195-351:
\* once a tuning call has returned success, and until a later call reports a
\* failure, the synthesizer, the output divider and the filters are the ones
\* of that frequency, whatever failed before and whatever gain, mode and
\* bandwidth calls came in between; the gain set with success stays through
\* later tunings, even those that fail half-way.
FcSettingsHold ==
  /\ asked.freq # Unset /\ tuner \in {"FC0012", "FC0013"} => Fc001xTuned(asked.freq)
  /\ asked.freq # Unset /\ tuner = "FC2580" => Fc2580Tuned(asked.freq)
  /\ asked.bw # Unset => regs["filter"] = asked.bw
  /\ asked.gain # Unset =>
       (IF tuner = "FC0012" THEN regs["r13"] ELSE regs["r14"].lna) = LnaBits(tuner, asked.gain)
  /\ tuner = "FC0013" /\ asked.mode # "unknown" => regs["r0d"] = (asked.mode = "manual")

\* librtlsdr.c:556-576: the GPIO registers are shared by the FC0012's band
\* filter and the bias tee, and a bit is set by reading the register back.
\* Each pin has the level last asked for and is an output while it is high,
\* except where a failed read of the same register may have changed it since,
\* or where its own write failed; the next call that writes it makes it right.
PinsHold ==
  tuner \in FcChips =>
    \A p \in Pins :
      /\ p \in known["GPO"] => (p \in gpio["GPO"] <=> level[p])
      /\ level[p] /\ p \in known["GPOE"] => p \in gpio["GPOE"]
      /\ level[p] /\ p \in known["GPD"] => p \notin gpio["GPD"]
=============================================================================
