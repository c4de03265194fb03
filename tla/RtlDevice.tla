----------------------------- MODULE RtlDevice -----------------------------
(***************************************************************************)
(* The control path of librtlsdr (src/src/librtlsdr.c): the settings the   *)
(* library keeps in struct rtlsdr_dev (dev) against what it has written    *)
(* into the RTL2832 and the tuner (hw).  Every exported call is one action;*)
(* a program makes its control calls from one thread at a time.            *)
(*                                                                         *)
(* A call is a sequence of steps, some of which may fail.  A step maps a   *)
(* state st = [dev, hw, r] to the set of its outcomes, r being the step's  *)
(* own result (TRUE for the C code's 0).  rtlsdr_set_center_freq and       *)
(* _rtlsdr_set_direct_sampling call each other: the calls are unfolded to  *)
(* the depth the code can reach, and hw.deep records a call beyond it.     *)
(*                                                                         *)
(* Frequencies, rates and crystals are in Hz.  A clock is a crystal with   *)
(* the correction it was used with, << xtal, ppm >>.  The plain register   *)
(* writes of the demodulator are taken to succeed.                         *)
(***************************************************************************)
EXTENDS Integers, R82xxMath, Resampler

CONSTANTS
  TunerTypes, \* what probing may find: "R820T", "R828D", "E4000", "UNKNOWN"
  Model,      \* what the USB strings say: "V4", "V4L", "other"
  Freqs, Rates, Bws, Gains, Ppms, Xtals,   \* arguments of the calls
  Calls,      \* for each tuner, the calls the program makes
  Faults      \* the steps that may fail

CallNames == {"set_center_freq", "set_freq_correction", "set_xtal_freq",
              "set_tuner_bandwidth", "set_tuner_gain", "set_tuner_gain_mode",
              "set_sample_rate", "set_testmode", "set_agc_mode",
              "set_direct_sampling", "set_offset_tuning", "set_bias_tee_gpio",
              "close"}
FaultNames == {"init", "exit", "set_freq", "set_bw", "set_gain", "set_if", "eeprom"}

ASSUME DeviceAssumption ==
  /\ TunerTypes \subseteq {"R820T", "R828D", "E4000", "UNKNOWN"}
  /\ Model \in {"V4", "V4L", "other"}
  /\ Freqs \cup Rates \cup Bws \cup Gains \cup Xtals \subseteq Nat
  /\ Ppms \subseteq Int
  /\ Calls \in [TunerTypes -> SUBSET CallNames] /\ Faults \subseteq FaultNames

VARIABLES
  tuner_type,   \* dev->tuner_type
  dev,          \* the settings of struct rtlsdr_dev
  hw,           \* what the demodulator and the tuner were told
  ret           \* the last call and its result

vars == << tuner_type, dev, hw, ret >>

R82XX_IF_FREQ == 3570000
DEF_RTL_XTAL_FREQ == 28800000
DirectLimit == 24000000

Torn == -1      \* a register a failed write left in an unknown state
Default == -2   \* what the tuner's own initialisation selects
AutoGain == -3  \* gain under the tuner's automatic control

IsR82xx == tuner_type \in {"R820T", "R828D"}
HasTuner == tuner_type # "UNKNOWN"

----------------------------------------------------------------------------
(* Steps and their composition. *)

\* A step that succeeds as good, or fails as bad where its kind may fail.
Fallible(kind, good, bad) ==
  { [good EXCEPT !.r = TRUE] } \cup
  { [bad EXCEPT !.r = FALSE] : k \in Faults \cap {kind} }

\* r |= Op(...)
Then(S, Op(_)) ==
  UNION { { [u EXCEPT !.r = u.r /\ t.r] : u \in Op(t) } : t \in S }

\* Op(...), whose result replaces, or is dropped with, the earlier one.
Followed(S, Op(_)) == UNION { Op(t) : t \in S }

\* A write that cannot fail.
Write(S, Upd(_)) == { Upd(t) : t \in S }

set_i2c_repeater(st, on) == [st EXCEPT !.hw.repeater = on]

\* The tuner hears nothing while the repeater is off.
Access(st) == [st EXCEPT !.hw.blind = @ \/ ~st.hw.repeater]

RtlClock(d) == << d.rtl_xtal, d.corr >>
TunClock(d) == << d.tun_xtal, d.corr >>

rtlsdr_set_if_freq(st, f) ==
  Fallible("set_if",
    [st EXCEPT !.hw.if_freq = f, !.hw.if_clock = RtlClock(st.dev)],
    [st EXCEPT !.hw.if_freq = Torn])

----------------------------------------------------------------------------
(* The tuner behind struct rtlsdr_tuner_iface. *)

\* r820t_init reads the corrected clock again; the chip comes up with its own
\* filter, gain and intermediate frequency and with no frequency set.
tuner_init(st) ==
  Fallible("init",
    [Access(st) EXCEPT
       !.hw.tuner = "on", !.hw.lo = Torn, !.hw.gain = Default,
       !.hw.filter = Default, !.dev.clock = TunClock(st.dev),
       !.dev.int_freq = IF IsR82xx THEN R82XX_IF_FREQ ELSE 0],
    [Access(st) EXCEPT !.hw.tuner = "torn", !.hw.lo = Torn,
                       !.dev.clock = TunClock(st.dev)])

tuner_exit(st) ==
  Fallible("exit", [Access(st) EXCEPT !.hw.tuner = "standby"],
                   [Access(st) EXCEPT !.hw.tuner = "torn"])

\* The R82xx put the oscillator above the signal, the others onto it.
tuner_set_freq(st, f) ==
  Fallible("set_freq",
    [Access(st) EXCEPT !.hw.lo = f + st.dev.int_freq,
                       !.hw.lo_clock = st.dev.clock],
    [Access(st) EXCEPT !.hw.lo = Torn])

tuner_set_gain(st, g) ==
  Fallible("set_gain", [Access(st) EXCEPT !.hw.gain = g],
                       [Access(st) EXCEPT !.hw.gain = Torn])

\* With the tuner's init and exit functions missing nothing is called.
WithRepeater(st, Op(_)) ==
  IF HasTuner
  THEN Write(Op(set_i2c_repeater([st EXCEPT !.r = TRUE], TRUE)),
             LAMBDA t : set_i2c_repeater(t, FALSE))
  ELSE { [st EXCEPT !.r = TRUE] }

----------------------------------------------------------------------------
(* Tuning and direct sampling. *)

\* Mutant: direct sampling is chosen afresh against the state it was in.
AutoDirect_Toggle(st, f) ==
  IF st.dev.mode # 0 THEN st.dev.direct_sampling
  ELSE IF f < DirectLimit /\ tuner_type = "R820T" /\ Model # "V4L"
          /\ st.dev.direct_sampling = 0
       THEN 2 ELSE 0

\* The direct sampling input a frequency calls for, unless the program chose.
AutoDirect(st, f) ==
  IF st.dev.mode # 0 THEN st.dev.direct_sampling
  ELSE IF f < DirectLimit /\ tuner_type = "R820T" /\ Model # "V4L" THEN 2 ELSE 0

\* Mutant: the repeater is not switched on for the tuner.
ReachTuner_Blind(st) == st
ReachTuner(st) == set_i2c_repeater(st, TRUE)

\* What the tuner is told.  Mutant: the offset of offset tuning is left out.
TunerFreq_NoOffset(st, f) == f
TunerFreq(st, f) == f - st.dev.offs_freq

\* dev->freq afterwards.
FreqAfter(st, f) == IF st.r THEN f ELSE 0

\* rtlsdr_set_center_freq up to its last test.
Tune(st, f) ==
  LET t == [st EXCEPT !.dev.direct_sampling = AutoDirect(st, f)]
  IN  Write(IF t.dev.direct_sampling # 0
            THEN rtlsdr_set_if_freq(set_i2c_repeater(t, FALSE), f)
            ELSE IF HasTuner THEN tuner_set_freq(ReachTuner(t), TunerFreq(t, f))
            ELSE { [t EXCEPT !.r = FALSE] },
            LAMBDA u : [u EXCEPT !.dev.freq = FreqAfter(u, f)])

DirectOn(st, on) ==
  Write(WithRepeater(st, tuner_exit),
        LAMBDA t : [t EXCEPT !.hw.zero_if = FALSE, !.hw.inversion = FALSE,
                             !.hw.quadrature = FALSE, !.hw.swap_iq = (on > 1),
                             !.dev.direct_sampling = on])

\* The swap of the ADC inputs is undone.  Mutant: it stays.
SwapOff_Kept(st) == st.hw.swap_iq
SwapOff(st) == FALSE

DirectOff(st) ==
  Write(Then(WithRepeater(st, tuner_init),
             LAMBDA t : rtlsdr_set_if_freq(t, IF IsR82xx THEN R82XX_IF_FREQ ELSE 0)),
        LAMBDA t : [t EXCEPT !.hw.inversion = IF IsR82xx THEN TRUE ELSE @,
                             !.hw.quadrature = IF IsR82xx THEN @ ELSE TRUE,
                             !.hw.zero_if = IF IsR82xx THEN @ ELSE TRUE,
                             !.hw.swap_iq = SwapOff(t),
                             !.dev.direct_sampling = 0])

\* _rtlsdr_set_direct_sampling; Center is the call of set_center_freq in it.
SwitchDirect(st, on, Center(_, _)) ==
  Then(IF on # 0 THEN DirectOn(st, on) ELSE DirectOff(st),
       LAMBDA t : Center(t, t.dev.freq))

\* rtlsdr_set_center_freq: when the mode changed, the switch's result counts.
CenterWith(st, f, Center(_, _)) ==
  UNION { IF t.dev.direct_sampling = st.dev.direct_sampling THEN {t}
          ELSE SwitchDirect(t, t.dev.direct_sampling, Center)
        : t \in Tune(st, f) }

\* Three nested calls are enough: tuning up may fail and fall back once.
TooDeep(st, f) == { [st EXCEPT !.hw.deep = TRUE] }
Center1(st, f) == CenterWith(st, f, TooDeep)
Center2(st, f) == CenterWith(st, f, Center1)
rtlsdr_set_center_freq(st, f) == CenterWith(st, f, Center2)

\* tuner->set_bw.  r820t_set_bw moves the IF register and retunes;
\* priv->int_freq is assigned before the filter's registers are written.
tuner_set_bw(st, bw) ==
  IF IsR82xx
  THEN LET t == [Access(st) EXCEPT !.dev.int_freq = IntFreq(bw)]
       IN  UNION { IF ~u.r THEN {u}
                   ELSE UNION { IF ~v.r THEN {v}
                                ELSE rtlsdr_set_center_freq(v, v.dev.freq)
                              : v \in rtlsdr_set_if_freq(u, u.dev.int_freq) }
                 : u \in Fallible("set_bw", [t EXCEPT !.hw.filter = bw],
                                            [t EXCEPT !.hw.filter = Torn]) }
  ELSE Fallible("set_bw", [Access(st) EXCEPT !.hw.filter = bw],
                          [Access(st) EXCEPT !.hw.filter = Torn])

----------------------------------------------------------------------------
(* The exported calls. *)

Succeed(st) == [st EXCEPT !.r = TRUE]
Refuse(st) == { [st EXCEPT !.r = FALSE] }

\* gpio 0 powers the antenna; forcing it in the EEPROM overrides the caller.
SetBiasTee(st, gpio, on) ==
  [st EXCEPT !.hw.bias_tee = IF gpio = 0 THEN on \/ st.dev.force_bt ELSE @]

\* Widths are passed on, or the sample rate where none was chosen.
Width(st, bw) == IF bw > 0 THEN bw ELSE st.dev.rate

\* On the R82xx this is a bias tee switch that reports an error.
rtlsdr_set_offset_tuning(st, on) ==
  IF IsR82xx THEN Refuse(SetBiasTee(st, 0, on))
  ELSE IF st.dev.direct_sampling # 0 THEN Refuse(st)
  ELSE LET offs == IF on THEN ((st.dev.rate \div 2) * 170) \div 100 ELSE 0
           bw == IF on THEN 2 * offs ELSE Width(st, st.dev.bw)
           moved == rtlsdr_set_if_freq([st EXCEPT !.dev.offs_freq = offs], offs)
           shaped == UNION { { [u EXCEPT !.r = t.r]
                             : u \in WithRepeater(t, LAMBDA v : tuner_set_bw(v, bw)) }
                           : t \in moved }
       IN  IF st.dev.freq > offs
           THEN Then(shaped, LAMBDA t : rtlsdr_set_center_freq(t, t.dev.freq))
           ELSE shaped

\* Failures of set_bw and of set_offset_tuning are not reported.  The
\* demodulator reset at the end leaves the repeater off.
rtlsdr_set_sample_rate(st, samp_rate) ==
  IF ~RateSupported(samp_rate) THEN Refuse(st)
  ELSE LET t == [st EXCEPT !.dev.rate = real_rate(st.dev.rtl_xtal, samp_rate)]
           shaped == WithRepeater(t, LAMBDA u : tuner_set_bw(u, Width(u, u.dev.bw)))
           reset == Write(shaped, LAMBDA u : set_i2c_repeater(u, FALSE))
       IN  Write(UNION { IF u.dev.offs_freq # 0 THEN rtlsdr_set_offset_tuning(u, TRUE)
                                                ELSE {u} : u \in reset },
                 Succeed)

rtlsdr_set_freq_correction(st, ppm) ==
  IF st.dev.corr = ppm THEN Refuse(st)
  ELSE LET t == [st EXCEPT !.dev.corr = ppm,
                           !.dev.clock = << st.dev.tun_xtal, ppm >>, !.r = TRUE]
       IN  IF t.dev.freq # 0 THEN rtlsdr_set_center_freq(t, t.dev.freq) ELSE {t}

\* 0 leaves the RTL2832's crystal alone, and gives the tuner the same one.
rtlsdr_set_xtal_freq(st, rtl, tun) ==
  IF rtl > 0 /\ (rtl < DEF_RTL_XTAL_FREQ - 1000 \/ rtl > DEF_RTL_XTAL_FREQ + 1000)
  THEN Refuse(st)
  ELSE LET t == Succeed([st EXCEPT !.dev.rtl_xtal = IF rtl > 0 THEN rtl ELSE @])
           rated == IF t.dev.rtl_xtal # st.dev.rtl_xtal /\ st.dev.rate # 0
                    THEN rtlsdr_set_sample_rate(t, t.dev.rate) ELSE {t}
           xtal(u) == IF tun = 0 THEN u.dev.rtl_xtal ELSE tun
           retune(u) ==
             LET v == [u EXCEPT !.dev.tun_xtal = xtal(u),
                                !.dev.clock = << xtal(u), u.dev.corr >>]
             IN  IF v.dev.freq # 0 THEN rtlsdr_set_center_freq(v, v.dev.freq) ELSE {v}
       IN  UNION { IF u.dev.tun_xtal # tun THEN retune(u) ELSE {u} : u \in rated }

rtlsdr_set_tuner_bandwidth(st, bw) ==
  IF ~HasTuner THEN { Succeed(st) }
  ELSE Write(WithRepeater(st, LAMBDA t : tuner_set_bw(t, Width(t, bw))),
             LAMBDA t : IF t.r THEN [t EXCEPT !.dev.bw = bw] ELSE t)

\* The repeater stays on after the gain calls.
rtlsdr_set_tuner_gain(st, g) ==
  Write(IF HasTuner THEN tuner_set_gain(set_i2c_repeater(st, TRUE), g)
                    ELSE { Succeed(st) },
        LAMBDA t : [t EXCEPT !.dev.gain = IF t.r THEN g ELSE 0])

\* r82xx_set_gain(manual, 0): switching to manual also selects gain 0.
rtlsdr_set_tuner_gain_mode(st, manual) ==
  IF ~HasTuner THEN { Succeed(st) }
  ELSE tuner_set_gain(set_i2c_repeater(st, TRUE),
                      IF ~manual THEN AutoGain ELSE IF IsR82xx THEN 0 ELSE st.hw.gain)

rtlsdr_set_direct_sampling(st, on) ==
  SwitchDirect([st EXCEPT !.dev.mode = on], on, rtlsdr_set_center_freq)

\* Both calls write the whole of demodulator register 0:0x19.
WriteControl(st, val) == Succeed([st EXCEPT !.hw.control = val])

rtlsdr_close(st) ==
  Write(WithRepeater(st, tuner_exit), LAMBDA t : [t EXCEPT !.hw.powered = FALSE])

----------------------------------------------------------------------------
(* rtlsdr_open. *)

\* memset, rtlsdr_init_baseband and the repeater on for probing.
Probed ==
  [dev |-> [direct_sampling |-> 0, mode |-> 0, freq |-> 0, rate |-> 0, bw |-> 0,
            offs_freq |-> 0, corr |-> 0, gain |-> 0, int_freq |-> 0,
            rtl_xtal |-> DEF_RTL_XTAL_FREQ,
            tun_xtal |-> IF tuner_type = "R828D" /\ Model # "V4" THEN 16000000
                         ELSE DEF_RTL_XTAL_FREQ,
            clock |-> << 0, 0 >>, force_bt |-> FALSE],
   hw |-> [powered |-> TRUE, repeater |-> TRUE, blind |-> FALSE, deep |-> FALSE,
           tuner |-> "off", lo |-> Torn, lo_clock |-> << 0, 0 >>, gain |-> Default,
           filter |-> Default, if_freq |-> 0, if_clock |-> << 0, 0 >>,
           zero_if |-> TRUE, inversion |-> FALSE, quadrature |-> TRUE,
           swap_iq |-> FALSE, control |-> "sdr", bias_tee |-> FALSE, ir_bit |-> TRUE],
   r |-> TRUE]

\* The switch over tuner_type.
Configured(st) ==
  IF IsR82xx
  THEN Write(rtlsdr_set_if_freq(st, R82XX_IF_FREQ),
             LAMBDA t : [t EXCEPT !.hw.zero_if = FALSE, !.hw.quadrature = FALSE,
                                  !.hw.inversion = TRUE])
  ELSE IF tuner_type = "UNKNOWN" THEN rtlsdr_set_direct_sampling(st, 1)
  ELSE {st}

\* The result of reading the EEPROM is not looked at: after a failure buf
\* holds whatever the stack held, so force_bt can be either.
ForceBias(st) ==
  { [t EXCEPT !.hw.bias_tee = t.dev.force_bt] :
      t \in { [st EXCEPT !.dev.force_bt = f] :
                f \in {~st.hw.ir_bit} \cup (IF "eeprom" \in Faults THEN BOOLEAN ELSE {}) } }

Opened ==
  LET bits == { [Probed EXCEPT !.hw.ir_bit = b] : b \in BOOLEAN }
      forced == Followed(Followed(bits, Configured), ForceBias)
      ready == IF HasTuner THEN Followed(forced, tuner_init) ELSE forced
  IN  Write(ready, LAMBDA t : set_i2c_repeater(t, FALSE))

Init == /\ tuner_type \in TunerTypes
        /\ \E st \in Opened : dev = st.dev /\ hw = st.hw
        /\ ret = [call |-> "open", arg |-> 0, ok |-> TRUE]

----------------------------------------------------------------------------
(* Actions. *)

Call(name, arg, outcomes) ==
  /\ name \in Calls[tuner_type] /\ hw.powered
  /\ \E st \in outcomes : /\ dev' = st.dev /\ hw' = st.hw
                          /\ ret' = [call |-> name, arg |-> arg, ok |-> st.r]
  /\ UNCHANGED tuner_type

Now == [dev |-> dev, hw |-> hw, r |-> TRUE]

SetCenterFreq == \E f \in Freqs :
  Call("set_center_freq", f, rtlsdr_set_center_freq(Now, f))

SetFreqCorrection == \E p \in Ppms :
  Call("set_freq_correction", p, rtlsdr_set_freq_correction(Now, p))

SetXtalFreq == \E x, t \in Xtals \cup {0} :
  Call("set_xtal_freq", 0, rtlsdr_set_xtal_freq(Now, x, t))

SetTunerBandwidth == \E b \in Bws :
  Call("set_tuner_bandwidth", 0, rtlsdr_set_tuner_bandwidth(Now, b))

SetTunerGain == \E g \in Gains :
  Call("set_tuner_gain", 0, rtlsdr_set_tuner_gain(Now, g))

SetTunerGainMode == \E m \in BOOLEAN :
  Call("set_tuner_gain_mode", 0, rtlsdr_set_tuner_gain_mode(Now, m))

SetSampleRate == \E x \in Rates :
  Call("set_sample_rate", 0, rtlsdr_set_sample_rate(Now, x))

SetTestmode == \E on \in BOOLEAN :
  Call("set_testmode", 0, { WriteControl(Now, IF on THEN "test" ELSE "sdr") })

SetAgcMode == \E on \in BOOLEAN :
  Call("set_agc_mode", 0, { WriteControl(Now, IF on THEN "agc" ELSE "sdr") })

SetDirectSampling == \E on \in 0..2 :
  Call("set_direct_sampling", on, rtlsdr_set_direct_sampling(Now, on))

SetOffsetTuning == \E on \in BOOLEAN :
  Call("set_offset_tuning", 0, rtlsdr_set_offset_tuning(Now, on))

SetBiasTeeGpio == \E gpio \in 0..1, on \in BOOLEAN :
  Call("set_bias_tee_gpio", gpio, { Succeed(SetBiasTee(Now, gpio, on)) })

Close == Call("close", 0, rtlsdr_close(Now))

Next == \/ SetCenterFreq \/ SetFreqCorrection \/ SetXtalFreq
        \/ SetTunerBandwidth \/ SetTunerGain \/ SetTunerGainMode
        \/ SetSampleRate \/ SetTestmode \/ SetAgcMode \/ SetDirectSampling
        \/ SetOffsetTuning \/ SetBiasTeeGpio \/ Close

Spec == Init /\ [][Next]_vars

----------------------------------------------------------------------------
(* Properties. *)

Clock == Nat \X Int

\* Type correctness; what the library reports as frequency, bandwidth, gain
\* and correction is always a value the program once passed, or 0
\* (librtlsdr.c:916-919,1045-1047,1064-1068).
TypeOK ==
  /\ tuner_type \in TunerTypes
  /\ dev.direct_sampling \in 0..2 /\ dev.mode \in 0..2
  /\ dev.freq \in Freqs \cup {0} /\ dev.bw \in Bws \cup {0}
  /\ dev.gain \in Gains \cup {0} /\ dev.corr \in Ppms \cup {0}
  /\ dev.rate \in Nat /\ dev.offs_freq \in Nat /\ dev.int_freq \in Nat
  /\ dev.force_bt \in BOOLEAN /\ dev.clock \in Clock
  /\ hw.tuner \in {"off", "on", "standby", "torn"}
  /\ hw.lo \in Int /\ hw.if_freq \in Int /\ hw.filter \in Int
  /\ hw.lo_clock \in Clock /\ hw.if_clock \in Clock
  /\ hw.control \in {"sdr", "test", "agc"}
  /\ ret.call \in CallNames \cup {"open"}

\* librtlsdr.c:1207-1265: however the sampling mode was reached (by the
\* program, by a frequency, from rtlsdr_open, through a nested switch), the
\* demodulator is configured for it: input, swap, zero-IF and inversion.
\* README:21: an R820T dongle is in direct sampling exactly when it is tuned
\* below 24 MHz, unless the program chose a mode; no other dongle ever is
\* unless it was chosen.
RegistersMatchMode ==
  /\ dev.mode = 0 /\ dev.freq # 0 =>
       dev.direct_sampling =
         IF dev.freq < DirectLimit /\ tuner_type = "R820T" /\ Model # "V4L" THEN 2 ELSE 0
  /\ hw.swap_iq = (dev.direct_sampling = 2)
  /\ hw.inversion = (dev.direct_sampling = 0 /\ IsR82xx)
  /\ hw.zero_if = (dev.direct_sampling = 0 /\ ~IsR82xx)
  /\ hw.quadrature = hw.zero_if

\* The frequency that ends up at the middle of the sampled band: the R82xx
\* mix with an oscillator above the signal, the others with one below it.
Received == IF IsR82xx THEN hw.lo - hw.if_freq ELSE hw.lo + hw.if_freq

\* include/rtl-sdr.h:155 "Get actual frequency the device is tuned to": when
\* a frequency is reported, oscillator and IF register together select it
\* and the tuner is running; in direct sampling the IF register alone does.
TunedTo ==
  hw.powered /\ dev.freq # 0 =>
    IF dev.direct_sampling # 0 THEN hw.if_freq = dev.freq
    ELSE /\ hw.tuner = "on" /\ hw.lo # Torn /\ hw.if_freq # Torn
         /\ Received = dev.freq

\* librtlsdr.c:577-580: no step of any call talks to the tuner while the I2C
\* repeater is off, although some calls leave it on and others turn it off.
NoBlindAccess == ~hw.blind

\* librtlsdr.c:887-929,1207-1268: set_center_freq and set_direct_sampling
\* call each other, and the nesting ends after at most three tunings.
RecursionEnds == ~hw.deep

\* README:14 "it cant be turned off when the bias tee is forced, even when
\* calling the bias tee function".
ForcedBiasStaysOn == dev.force_bt => hw.bias_tee

\* librtlsdr.c:1692-1693 "force the Bias T to always be on if we set the
\* IR-Endpoint bit in the EEPROM to 0. Default on EEPROM is 1": the bias tee
\* is forced only where the bit was cleared.
ForcedByEepromOnly == dev.force_bt => ~hw.ir_bit

\* include/rtl-sdr.h:235 "Get actual gain the device is configured to": a
\* gain the library reports is the one set in the running tuner.
GainReported ==
  dev.gain # 0 /\ dev.direct_sampling = 0 /\ hw.powered => hw.gain = dev.gain

\* librtlsdr.c:958 "retune to apply new correction value": once tuned, both
\* the oscillator and the IF register are based on the corrected clock.
CorrectionApplied ==
  dev.freq # 0 /\ dev.direct_sampling = 0 =>
    hw.lo_clock = TunClock(dev) /\ hw.if_clock = RtlClock(dev)

\* convenience.c:143-153 reports "Tuned to %u Hz." for every result that is
\* not negative: set_center_freq succeeds only when it has tuned.
SuccessMeansTuned ==
  ret.call = "set_center_freq" /\ ret.ok => dev.freq = ret.arg
=============================================================================
