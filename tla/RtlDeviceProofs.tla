-------------------------- MODULE RtlDeviceProofs --------------------------
(***************************************************************************)
(* Theorems about the control path of librtlsdr, for every dongle, every   *)
(* set of calls and arguments, and every step that may fail.               *)
(***************************************************************************)
EXTENDS RtlDevice, MathProofs, TLAPS

DevFields == {"direct_sampling", "mode", "freq", "rate", "bw", "offs_freq", "corr", "gain",
              "int_freq", "rtl_xtal", "tun_xtal", "clock", "force_bt"}

HwFields == {"powered", "repeater", "blind", "deep", "tuner", "lo", "lo_clock", "gain", "filter",
             "if_freq", "if_clock", "zero_if", "inversion", "quadrature", "swap_iq", "control",
             "bias_tee", "ir_bit"}

(* A state a step can be applied to, of which nothing went wrong so far.   *)
Sound(st) ==
    /\ DOMAIN st = {"dev", "hw", "r"}
    /\ DOMAIN st.dev = DevFields /\ DOMAIN st.hw = HwFields
    /\ st.hw.deep = FALSE /\ st.hw.blind = FALSE

(* A step that leaves the sampling mode and the frequency alone.           *)
Keeps(u, st) ==
    /\ Sound(u)
    /\ u.dev.mode = st.dev.mode /\ u.dev.direct_sampling = st.dev.direct_sampling
    /\ u.dev.freq = st.dev.freq
    /\ u.hw.swap_iq = st.hw.swap_iq /\ u.hw.inversion = st.hw.inversion
    /\ u.hw.zero_if = st.hw.zero_if /\ u.hw.quadrature = st.hw.quadrature

(* What a step that may fail leaves behind.                                *)
LEMMA Outcomes ==
    ASSUME NEW kind, NEW good, NEW bad, NEW u \in Fallible(kind, good, bad)
    PROVE  u = [good EXCEPT !.r = TRUE] \/ u = [bad EXCEPT !.r = FALSE]
BY DEF Fallible

(* The repeater alone.                                                     *)
LEMMA RepeaterKeeps ==
    ASSUME NEW st, Sound(st), NEW on
    PROVE  Keeps(set_i2c_repeater(st, on), st) /\ set_i2c_repeater(st, on).hw.repeater = on
BY DEF Sound, Keeps, set_i2c_repeater, HwFields, DevFields

(* An access while the repeater is on.                                     *)
LEMMA AccessKeeps ==
    ASSUME NEW st, Sound(st), st.hw.repeater = TRUE
    PROVE  Keeps(Access(st), st) /\ Access(st).dev = st.dev /\ Access(st).hw.repeater = TRUE
BY DEF Sound, Keeps, Access, HwFields, DevFields

(* The IF register.                                                        *)
LEMMA SetIfKeeps ==
    ASSUME NEW st, Sound(st), NEW f, NEW u \in rtlsdr_set_if_freq(st, f)
    PROVE  Keeps(u, st)
<1>1. \/ u = [[st EXCEPT !.hw.if_freq = f, !.hw.if_clock = RtlClock(st.dev)] EXCEPT !.r = TRUE]
      \/ u = [[st EXCEPT !.hw.if_freq = Torn] EXCEPT !.r = FALSE]
  BY Outcomes DEF rtlsdr_set_if_freq
<1>2. CASE u = [[st EXCEPT !.hw.if_freq = f, !.hw.if_clock = RtlClock(st.dev)] EXCEPT !.r = TRUE]
  BY <1>2 DEF Sound, Keeps, HwFields, DevFields
<1>3. CASE u = [[st EXCEPT !.hw.if_freq = Torn] EXCEPT !.r = FALSE]
  BY <1>3 DEF Sound, Keeps, HwFields, DevFields
<1> QED
  BY <1>1, <1>2, <1>3

(* The steps of the tuner, while the repeater is on.                       *)
LEMMA InitKeeps ==
    ASSUME NEW st, Sound(st), st.hw.repeater = TRUE, NEW u \in tuner_init(st)
    PROVE  Keeps(u, st)
<1> DEFINE t == Access(st)
           good == [t EXCEPT !.hw.tuner = "on", !.hw.lo = Torn, !.hw.gain = Default,
                             !.hw.filter = Default, !.dev.clock = TunClock(st.dev),
                             !.dev.int_freq = IF IsR82xx THEN R82XX_IF_FREQ ELSE 0]
           bad == [t EXCEPT !.hw.tuner = "torn", !.hw.lo = Torn, !.dev.clock = TunClock(st.dev)]
<1>1. u = [good EXCEPT !.r = TRUE] \/ u = [bad EXCEPT !.r = FALSE]
  BY Outcomes DEF tuner_init
<1>2. Keeps(t, st)
  BY AccessKeeps
<1> HIDE DEF t
<1>3. CASE u = [good EXCEPT !.r = TRUE]
  BY <1>2, <1>3 DEF Sound, Keeps, HwFields, DevFields
<1>4. CASE u = [bad EXCEPT !.r = FALSE]
  BY <1>2, <1>4 DEF Sound, Keeps, HwFields, DevFields
<1> QED
  BY <1>1, <1>3, <1>4

(* Putting the tuner into standby.                                         *)
LEMMA ExitKeeps ==
    ASSUME NEW st, Sound(st), st.hw.repeater = TRUE, NEW u \in tuner_exit(st)
    PROVE  Keeps(u, st)
<1> DEFINE t == Access(st)
<1>1. u = [[t EXCEPT !.hw.tuner = "standby"] EXCEPT !.r = TRUE]
      \/ u = [[t EXCEPT !.hw.tuner = "torn"] EXCEPT !.r = FALSE]
  BY Outcomes DEF tuner_exit
<1>2. Keeps(t, st)
  BY AccessKeeps
<1> HIDE DEF t
<1>3. CASE u = [[t EXCEPT !.hw.tuner = "standby"] EXCEPT !.r = TRUE]
  BY <1>2, <1>3 DEF Sound, Keeps, HwFields, DevFields
<1>4. CASE u = [[t EXCEPT !.hw.tuner = "torn"] EXCEPT !.r = FALSE]
  BY <1>2, <1>4 DEF Sound, Keeps, HwFields, DevFields
<1> QED
  BY <1>1, <1>3, <1>4

(* Setting the oscillator.                                                 *)
LEMMA SetFreqKeeps ==
    ASSUME NEW st, Sound(st), st.hw.repeater = TRUE, NEW f, NEW u \in tuner_set_freq(st, f)
    PROVE  Keeps(u, st)
<1> DEFINE t == Access(st)
           lo == f + st.dev.int_freq
<1>1. u = [[t EXCEPT !.hw.lo = lo, !.hw.lo_clock = st.dev.clock] EXCEPT !.r = TRUE]
      \/ u = [[t EXCEPT !.hw.lo = Torn] EXCEPT !.r = FALSE]
  BY Outcomes DEF tuner_set_freq
<1>2. Keeps(t, st)
  BY AccessKeeps
<1> HIDE DEF t, lo
<1>3. CASE u = [[t EXCEPT !.hw.lo = lo, !.hw.lo_clock = st.dev.clock] EXCEPT !.r = TRUE]
  BY <1>2, <1>3 DEF Sound, Keeps, HwFields, DevFields
<1>4. CASE u = [[t EXCEPT !.hw.lo = Torn] EXCEPT !.r = FALSE]
  BY <1>2, <1>4 DEF Sound, Keeps, HwFields, DevFields
<1> QED
  BY <1>1, <1>3, <1>4

(* Setting the gain.                                                       *)
LEMMA SetGainKeeps ==
    ASSUME NEW st, Sound(st), st.hw.repeater = TRUE, NEW g, NEW u \in tuner_set_gain(st, g)
    PROVE  Keeps(u, st)
<1> DEFINE t == Access(st)
<1>1. u = [[t EXCEPT !.hw.gain = g] EXCEPT !.r = TRUE]
      \/ u = [[t EXCEPT !.hw.gain = Torn] EXCEPT !.r = FALSE]
  BY Outcomes DEF tuner_set_gain
<1>2. Keeps(t, st)
  BY AccessKeeps
<1> HIDE DEF t
<1>3. CASE u = [[t EXCEPT !.hw.gain = g] EXCEPT !.r = TRUE]
  BY <1>2, <1>3 DEF Sound, Keeps, HwFields, DevFields
<1>4. CASE u = [[t EXCEPT !.hw.gain = Torn] EXCEPT !.r = FALSE]
  BY <1>2, <1>4 DEF Sound, Keeps, HwFields, DevFields
<1> QED
  BY <1>1, <1>3, <1>4

-----------------------------------------------------------------------------
(* Tuning and direct sampling.                                             *)

(* The sampling mode a frequency calls for.                                *)
DirectFor(f) == IF f < DirectLimit /\ tuner_type = "R820T" /\ Model # "V4L" THEN 2 ELSE 0

(* The demodulator is configured for the sampling mode.                    *)
Matched(st) ==
    /\ st.dev.direct_sampling \in 0..2 /\ st.dev.mode \in 0..2
    /\ st.hw.swap_iq = (st.dev.direct_sampling = 2)
    /\ st.hw.inversion = (st.dev.direct_sampling = 0 /\ IsR82xx)
    /\ st.hw.zero_if = (st.dev.direct_sampling = 0 /\ ~IsR82xx)
    /\ st.hw.quadrature = st.hw.zero_if

(* The sampling mode is the frequency's, unless the program chose one.     *)
ModeFits(st) ==
    st.dev.mode = 0 /\ st.dev.freq # 0 => st.dev.direct_sampling = DirectFor(st.dev.freq)

Fit(st) == Sound(st) /\ Matched(st) /\ ModeFits(st)

(* What does not touch the mode keeps all of this.                         *)
LEMMA KeepsFit ==
    ASSUME NEW st, Fit(st), NEW u, Keeps(u, st)
    PROVE  Fit(u)
BY DEF Fit, Keeps, Matched, ModeFits

(* Tune selects the mode, in the library only, and reports the frequency   *)
(* or none.                                                                *)
Tunes(u, st, f) ==
    /\ Sound(u) /\ u.dev.mode = st.dev.mode
    /\ u.dev.direct_sampling = AutoDirect(st, f) /\ u.dev.freq \in {f, 0}
    /\ u.hw.swap_iq = st.hw.swap_iq /\ u.hw.inversion = st.hw.inversion
    /\ u.hw.zero_if = st.hw.zero_if /\ u.hw.quadrature = st.hw.quadrature

(* Tune never touches what the demodulator is configured for.              *)
LEMMA TuneTunes ==
    ASSUME NEW st, Sound(st), NEW f, NEW u \in Tune(st, f)
    PROVE  Tunes(u, st, f)
<1> DEFINE t == [st EXCEPT !.dev.direct_sampling = AutoDirect(st, f)]
           off == set_i2c_repeater(t, FALSE)
           on == ReachTuner(t)
           S == IF t.dev.direct_sampling # 0 THEN rtlsdr_set_if_freq(off, f)
                ELSE IF HasTuner THEN tuner_set_freq(on, TunerFreq(t, f))
                ELSE { [t EXCEPT !.r = FALSE] }
<1>1. PICK v \in S : u = [v EXCEPT !.dev.freq = FreqAfter(v, f)]
  BY DEF Tune, Write
<1>2. /\ Sound(t) /\ t.dev.mode = st.dev.mode /\ t.dev.direct_sampling = AutoDirect(st, f)
      /\ t.hw = st.hw
  BY DEF Sound, HwFields, DevFields
<1> HIDE DEF t
<1>3. Keeps(off, t) /\ Keeps(on, t) /\ on.hw.repeater = TRUE
  BY <1>2, RepeaterKeeps DEF ReachTuner
<1>4. Keeps(v, t)
  <2>1. CASE v \in rtlsdr_set_if_freq(off, f)
    BY <1>3, <2>1, SetIfKeeps DEF Keeps
  <2>2. CASE v \in tuner_set_freq(on, TunerFreq(t, f))
    BY <1>3, <2>2, SetFreqKeeps DEF Keeps
  <2>3. CASE v = [t EXCEPT !.r = FALSE]
    BY <1>2, <2>3 DEF Sound, Keeps, HwFields, DevFields
  <2> QED
    BY <1>1, <2>1, <2>2, <2>3
<1>5. FreqAfter(v, f) \in {f, 0}
  BY DEF FreqAfter
<1> HIDE DEF S, off, on
<1> QED
  BY <1>1, <1>2, <1>4, <1>5 DEF Sound, Keeps, Tunes, HwFields, DevFields

(* What the switch of the sampling mode builds on: the R82xx never use the *)
(* zero-IF mode, and no other tuner's spectrum is inverted.                *)
Wired(st) ==
    /\ IsR82xx => st.hw.zero_if = FALSE /\ st.hw.quadrature = FALSE
    /\ ~IsR82xx => st.hw.inversion = FALSE

Switched(u, st, on) ==
    /\ Sound(u) /\ Matched(u)
    /\ u.dev.mode = st.dev.mode /\ u.dev.freq = st.dev.freq /\ u.dev.direct_sampling = on

(* A tuner step between switching the repeater on and off.                 *)
LEMMA DirectOnSwitches ==
    ASSUME NEW st, Sound(st), st.dev.mode \in 0..2, NEW on \in 1..2, NEW u \in DirectOn(st, on)
    PROVE  Switched(u, st, on)
<1> DEFINE s == [st EXCEPT !.r = TRUE]
<1>1. PICK t \in WithRepeater(st, tuner_exit) :
        u = [t EXCEPT !.hw.zero_if = FALSE, !.hw.inversion = FALSE, !.hw.quadrature = FALSE,
                      !.hw.swap_iq = (on > 1), !.dev.direct_sampling = on]
  BY DEF DirectOn, Write
<1>2. Keeps(s, st)
  BY DEF Sound, Keeps, HwFields, DevFields
<1> HIDE DEF s
<1>3. Keeps(t, s)
  <2>1. CASE HasTuner
    <3> DEFINE on1 == set_i2c_repeater(s, TRUE)
    <3>1. PICK v \in tuner_exit(on1) : t = set_i2c_repeater(v, FALSE)
      BY <1>1, <2>1 DEF WithRepeater, Write, s
    <3>2. Keeps(on1, s) /\ on1.hw.repeater = TRUE
      BY <1>2, RepeaterKeeps DEF Keeps
    <3> HIDE DEF on1
    <3>3. Keeps(v, s)
      <4>1. Sound(on1)
        BY <3>2 DEF Keeps
      <4>2. Keeps(v, on1)
        BY <3>1, <3>2, <4>1, ExitKeeps
      <4> QED
        BY <3>2, <4>2 DEF Keeps
    <3>4. Sound(v)
      BY <3>3 DEF Keeps
    <3>5. Keeps(set_i2c_repeater(v, FALSE), v)
      BY <3>4, RepeaterKeeps
    <3> QED
      BY <3>1, <3>3, <3>5 DEF Keeps
  <2>2. CASE ~HasTuner
    BY <1>1, <1>2, <2>2 DEF WithRepeater, s, Keeps
  <2> QED
    BY <2>1, <2>2
<1>4. Keeps(t, st)
  BY <1>2, <1>3 DEF Keeps
<1>5. /\ Sound(u) /\ u.dev.mode = st.dev.mode /\ u.dev.freq = st.dev.freq
      /\ u.dev.direct_sampling = on /\ u.hw.zero_if = FALSE /\ u.hw.inversion = FALSE
      /\ u.hw.quadrature = FALSE /\ u.hw.swap_iq = (on > 1)
  BY <1>1, <1>4 DEF Sound, Keeps, HwFields, DevFields
<1>6. (on > 1) = (on = 2) /\ on # 0 /\ on \in 0..2
  OBVIOUS
<1> QED
  BY <1>5, <1>6 DEF Matched, Switched

(* Leaving direct sampling configures the demodulator for the tuner.       *)
LEMMA DirectOffSwitches ==
    ASSUME NEW st, Sound(st), Wired(st), st.dev.mode \in 0..2, NEW u \in DirectOff(st)
    PROVE  Switched(u, st, 0)
<1> DEFINE s == [st EXCEPT !.r = TRUE]
           IF0 == IF IsR82xx THEN R82XX_IF_FREQ ELSE 0
<1>1. PICK t \in Then(WithRepeater(st, tuner_init), LAMBDA x : rtlsdr_set_if_freq(x, IF0)) :
        u = [t EXCEPT !.hw.inversion = IF IsR82xx THEN TRUE ELSE @,
                      !.hw.quadrature = IF IsR82xx THEN @ ELSE TRUE,
                      !.hw.zero_if = IF IsR82xx THEN @ ELSE TRUE,
                      !.hw.swap_iq = SwapOff(t), !.dev.direct_sampling = 0]
  BY DEF DirectOff, Write
<1> HIDE DEF IF0
<1>2. PICK w \in WithRepeater(st, tuner_init) :
        \E v \in rtlsdr_set_if_freq(w, IF0) : t = [v EXCEPT !.r = v.r /\ w.r]
  BY <1>1 DEF Then
<1>v. PICK v \in rtlsdr_set_if_freq(w, IF0) : t = [v EXCEPT !.r = v.r /\ w.r]
  BY <1>2
<1>3. Keeps(s, st)
  BY DEF Sound, Keeps, HwFields, DevFields
<1> HIDE DEF s
<1>4. Keeps(w, s)
  <2>1. CASE HasTuner
    <3> DEFINE on1 == set_i2c_repeater(s, TRUE)
    <3>1. PICK x \in tuner_init(on1) : w = set_i2c_repeater(x, FALSE)
      BY <1>2, <2>1 DEF WithRepeater, Write, s
    <3>2. Keeps(on1, s) /\ on1.hw.repeater = TRUE
      BY <1>3, RepeaterKeeps DEF Keeps
    <3> HIDE DEF on1
    <3>3. Keeps(x, s)
      <4>1. Sound(on1)
        BY <3>2 DEF Keeps
      <4>2. Keeps(x, on1)
        BY <3>1, <3>2, <4>1, InitKeeps
      <4> QED
        BY <3>2, <4>2 DEF Keeps
    <3>4. Sound(x)
      BY <3>3 DEF Keeps
    <3>5. Keeps(set_i2c_repeater(x, FALSE), x)
      BY <3>4, RepeaterKeeps
    <3> QED
      BY <3>1, <3>3, <3>5 DEF Keeps
  <2>2. CASE ~HasTuner
    BY <1>2, <1>3, <2>2 DEF WithRepeater, s, Keeps
  <2> QED
    BY <2>1, <2>2
<1>5. Keeps(v, st)
  BY <1>v, <1>3, <1>4, SetIfKeeps DEF Keeps
<1>6. Keeps(t, st)
  BY <1>v, <1>5 DEF Sound, Keeps, HwFields, DevFields
<1>7. /\ Sound(u) /\ u.dev.mode = st.dev.mode /\ u.dev.freq = st.dev.freq
      /\ u.dev.direct_sampling = 0 /\ u.hw.swap_iq = FALSE
      /\ u.hw.inversion = IF IsR82xx THEN TRUE ELSE t.hw.inversion
      /\ u.hw.quadrature = IF IsR82xx THEN t.hw.quadrature ELSE TRUE
      /\ u.hw.zero_if = IF IsR82xx THEN t.hw.zero_if ELSE TRUE
  BY <1>1, <1>6 DEF Sound, Keeps, SwapOff, HwFields, DevFields
<1>10. u.dev.direct_sampling \in 0..2 /\ u.dev.mode \in 0..2 /\ (u.dev.direct_sampling = 2) = FALSE
  BY <1>7
<1>8. CASE IsR82xx
  <2>1. u.hw.inversion = TRUE /\ u.hw.zero_if = FALSE /\ u.hw.quadrature = FALSE
    BY <1>6, <1>7, <1>8 DEF Keeps, Wired
  <2> QED
    BY <1>7, <1>10, <1>8, <2>1, Zenon DEF Matched, Switched
<1>9. CASE ~IsR82xx
  <2>1. u.hw.inversion = FALSE /\ u.hw.zero_if = TRUE /\ u.hw.quadrature = TRUE
    BY <1>6, <1>7, <1>9 DEF Keeps, Wired
  <2> QED
    BY <1>7, <1>10, <1>9, <2>1, Zenon DEF Matched, Switched
<1> QED
  BY <1>8, <1>9

(* What a call of rtlsdr_set_center_freq leaves, also a nested one.        *)
Centered(u, st, f) == Fit(u) /\ u.dev.mode = st.dev.mode /\ u.dev.freq \in {f, 0}

(* The result alone is no part of it.                                      *)
LEMMA ResultKeeps ==
    ASSUME NEW st, Sound(st), NEW b
    PROVE  Keeps([st EXCEPT !.r = b], st)
BY DEF Sound, Keeps, HwFields, DevFields

(* Where the mode does not change, tuning is all.                          *)
LEMMA StaysCentered ==
    ASSUME NEW st, Sound(st), Matched(st), NEW f, NEW u \in Tune(st, f),
           u.dev.direct_sampling = st.dev.direct_sampling
    PROVE  Centered(u, st, f)
<1>1. Tunes(u, st, f)
  BY TuneTunes
<1>2. Matched(u)
  BY <1>1 DEF Tunes, Matched
<1>3. ModeFits(u)
  BY <1>1 DEF Tunes, ModeFits, AutoDirect, DirectFor
<1> QED
  BY <1>1, <1>2, <1>3 DEF Centered, Fit, Tunes

(* Where it does, the mode is the frequency's, and the switch applies it.  *)
LEMMA SwitchApplies ==
    ASSUME NEW st, Sound(st), Matched(st), NEW f, NEW t \in Tune(st, f),
           t.dev.direct_sampling # st.dev.direct_sampling,
           NEW w \in IF t.dev.direct_sampling # 0 THEN DirectOn(t, t.dev.direct_sampling) ELSE DirectOff(t)
    PROVE  /\ Sound(w) /\ Matched(w) /\ w.dev.mode = 0 /\ st.dev.mode = 0
           /\ w.dev.freq \in {f, 0} /\ w.dev.direct_sampling = DirectFor(f)
<1>1. Tunes(t, st, f)
  BY TuneTunes
<1>2. st.dev.mode = 0 /\ t.dev.mode = 0 /\ t.dev.direct_sampling = DirectFor(f)
  BY <1>1 DEF Tunes, AutoDirect, DirectFor
<1>3. t.dev.direct_sampling \in {0, 2} /\ Sound(t) /\ t.dev.mode \in 0..2
  BY <1>1, <1>2 DEF Tunes, DirectFor
<1>4. Wired(t)
  <2>1. Wired(st)
    BY Zenon DEF Matched, Wired
  <2> QED
    BY <1>1, <2>1 DEF Tunes, Wired
<1>5. Switched(w, t, t.dev.direct_sampling)
  <2>1. CASE t.dev.direct_sampling = 0
    BY <1>3, <1>4, <2>1, DirectOffSwitches
  <2>2. CASE t.dev.direct_sampling = 2
    BY <1>3, <2>2, DirectOnSwitches
  <2> QED
    BY <1>3, <2>1, <2>2
<1> QED
  BY <1>1, <1>2, <1>5 DEF Switched, Tunes

(* The innermost call finds the mode right.                                *)
LEMMA Center1Centers ==
    ASSUME NEW st, Sound(st), Matched(st), NEW f, AutoDirect(st, f) = st.dev.direct_sampling,
           NEW u \in Center1(st, f)
    PROVE  Centered(u, st, f)
<1>1. PICK t \in Tune(st, f) :
        u \in IF t.dev.direct_sampling = st.dev.direct_sampling THEN {t}
              ELSE SwitchDirect(t, t.dev.direct_sampling, TooDeep)
  BY DEF Center1, CenterWith
<1>2. t.dev.direct_sampling = st.dev.direct_sampling
  BY TuneTunes DEF Tunes
<1> QED
  BY <1>1, <1>2, StaysCentered

(* The one around it does, too, unless it falls back to no frequency.      *)
LEMMA Center2Centers ==
    ASSUME NEW st, Sound(st), Matched(st), NEW f,
           AutoDirect(st, f) = st.dev.direct_sampling \/ f = 0,
           NEW u \in Center2(st, f)
    PROVE  Centered(u, st, f)
<1>1. PICK t \in Tune(st, f) :
        u \in IF t.dev.direct_sampling = st.dev.direct_sampling THEN {t}
              ELSE SwitchDirect(t, t.dev.direct_sampling, Center1)
  BY DEF Center2, CenterWith
<1>2. CASE t.dev.direct_sampling = st.dev.direct_sampling
  BY <1>1, <1>2, StaysCentered
<1>3. CASE t.dev.direct_sampling # st.dev.direct_sampling
  <2>1. PICK w \in IF t.dev.direct_sampling # 0 THEN DirectOn(t, t.dev.direct_sampling) ELSE DirectOff(t) :
          \E x \in Center1(w, w.dev.freq) : u = [x EXCEPT !.r = x.r /\ w.r]
    BY <1>1, <1>3 DEF SwitchDirect, Then
  <2>2. PICK x \in Center1(w, w.dev.freq) : u = [x EXCEPT !.r = x.r /\ w.r]
    BY <2>1
  <2>3. /\ Sound(w) /\ Matched(w) /\ w.dev.mode = 0 /\ st.dev.mode = 0
        /\ w.dev.freq \in {f, 0} /\ w.dev.direct_sampling = DirectFor(f)
    BY <1>1, <1>3, <2>1, SwitchApplies
  <2>4. f = 0
    <3>1. Tunes(t, st, f)
      BY <1>1, TuneTunes
    <3> QED
      BY <1>3, <3>1 DEF Tunes
  <2>5. AutoDirect(w, w.dev.freq) = w.dev.direct_sampling
    BY <2>3, <2>4 DEF AutoDirect, DirectFor
  <2>6. Centered(x, w, 0)
    BY <2>2, <2>3, <2>4, <2>5, Center1Centers
  <2>7. Keeps(u, x)
    BY <2>2, <2>6, ResultKeeps DEF Centered, Fit
  <2> QED
    BY <2>3, <2>4, <2>6, <2>7, KeepsFit DEF Centered, Keeps
<1> QED
  BY <1>2, <1>3

(* rtlsdr_set_center_freq.                                                 *)
LEMMA CenterFreqCenters ==
    ASSUME NEW st, Sound(st), Matched(st), NEW f, NEW u \in rtlsdr_set_center_freq(st, f)
    PROVE  Centered(u, st, f)
<1>1. PICK t \in Tune(st, f) :
        u \in IF t.dev.direct_sampling = st.dev.direct_sampling THEN {t}
              ELSE SwitchDirect(t, t.dev.direct_sampling, Center2)
  BY DEF rtlsdr_set_center_freq, CenterWith
<1>2. CASE t.dev.direct_sampling = st.dev.direct_sampling
  BY <1>1, <1>2, StaysCentered
<1>3. CASE t.dev.direct_sampling # st.dev.direct_sampling
  <2>1. PICK w \in IF t.dev.direct_sampling # 0 THEN DirectOn(t, t.dev.direct_sampling) ELSE DirectOff(t) :
          \E x \in Center2(w, w.dev.freq) : u = [x EXCEPT !.r = x.r /\ w.r]
    BY <1>1, <1>3 DEF SwitchDirect, Then
  <2>2. PICK x \in Center2(w, w.dev.freq) : u = [x EXCEPT !.r = x.r /\ w.r]
    BY <2>1
  <2>3. /\ Sound(w) /\ Matched(w) /\ w.dev.mode = 0 /\ st.dev.mode = 0
        /\ w.dev.freq \in {f, 0} /\ w.dev.direct_sampling = DirectFor(f)
    BY <1>1, <1>3, <2>1, SwitchApplies
  <2>4. AutoDirect(w, w.dev.freq) = w.dev.direct_sampling \/ w.dev.freq = 0
    BY <2>3 DEF AutoDirect, DirectFor
  <2>5. Centered(x, w, w.dev.freq)
    BY <2>2, <2>3, <2>4, Center2Centers
  <2>6. Keeps(u, x)
    BY <2>2, <2>5, ResultKeeps DEF Centered, Fit
  <2> QED
    BY <2>3, <2>5, <2>6, KeepsFit DEF Centered, Keeps
<1> QED
  BY <1>2, <1>3

-----------------------------------------------------------------------------
(* The exported calls.                                                     *)

(* set_bw of the tuner, which retunes on the R82xx.                        *)
LEMMA SetBwFits ==
    ASSUME NEW st, Fit(st), st.hw.repeater = TRUE, NEW bw, NEW u \in tuner_set_bw(st, bw)
    PROVE  Fit(u)
<1>1. Sound(st) /\ Keeps(Access(st), st)
  BY AccessKeeps DEF Fit
<1>2. CASE IsR82xx
  <2> DEFINE t == [Access(st) EXCEPT !.dev.int_freq = IntFreq(bw)]
             S == Fallible("set_bw", [t EXCEPT !.hw.filter = bw], [t EXCEPT !.hw.filter = Torn])
  <2>1. PICK v \in S : u \in IF ~v.r THEN {v}
                             ELSE UNION { IF ~w.r THEN {w} ELSE rtlsdr_set_center_freq(w, w.dev.freq)
                                        : w \in rtlsdr_set_if_freq(v, v.dev.int_freq) }
    BY <1>2 DEF tuner_set_bw
  <2>2. Keeps(t, st)
    BY <1>1 DEF Sound, Keeps, HwFields, DevFields
  <2>3. Keeps(v, t)
    <3> HIDE DEF t
    <3>1. \/ v = [[t EXCEPT !.hw.filter = bw] EXCEPT !.r = TRUE]
          \/ v = [[t EXCEPT !.hw.filter = Torn] EXCEPT !.r = FALSE]
      BY <2>1, Outcomes
    <3>2. CASE v = [[t EXCEPT !.hw.filter = bw] EXCEPT !.r = TRUE]
      BY <2>2, <3>2 DEF Sound, Keeps, HwFields, DevFields
    <3>3. CASE v = [[t EXCEPT !.hw.filter = Torn] EXCEPT !.r = FALSE]
      BY <2>2, <3>3 DEF Sound, Keeps, HwFields, DevFields
    <3> QED
      BY <3>1, <3>2, <3>3
  <2> HIDE DEF t, S
  <2>4. Fit(v) /\ Sound(v)
    BY <2>2, <2>3, KeepsFit DEF Fit
  <2>5. CASE u = v
    BY <2>4, <2>5
  <2>6. CASE u # v
    <3>1. PICK w \in rtlsdr_set_if_freq(v, v.dev.int_freq) :
            u \in IF ~w.r THEN {w} ELSE rtlsdr_set_center_freq(w, w.dev.freq)
      BY <2>1, <2>6
    <3>2. Fit(w) /\ Sound(w) /\ Matched(w)
      BY <2>4, <3>1, SetIfKeeps, KeepsFit DEF Fit
    <3> QED
      BY <3>1, <3>2, CenterFreqCenters DEF Centered
  <2> QED
    BY <2>5, <2>6
<1>3. CASE ~IsR82xx
  <2> DEFINE t == Access(st)
  <2>1. \/ u = [[t EXCEPT !.hw.filter = bw] EXCEPT !.r = TRUE]
        \/ u = [[t EXCEPT !.hw.filter = Torn] EXCEPT !.r = FALSE]
    BY <1>3, Outcomes DEF tuner_set_bw
  <2> HIDE DEF t
  <2>2. CASE u = [[t EXCEPT !.hw.filter = bw] EXCEPT !.r = TRUE]
    <3>1. Keeps(u, st)
      BY <1>1, <2>2 DEF t, Sound, Keeps, HwFields, DevFields
    <3> QED
      BY <3>1, KeepsFit
  <2>3. CASE u = [[t EXCEPT !.hw.filter = Torn] EXCEPT !.r = FALSE]
    <3>1. Keeps(u, st)
      BY <1>1, <2>3 DEF t, Sound, Keeps, HwFields, DevFields
    <3> QED
      BY <3>1, KeepsFit
  <2> QED
    BY <2>1, <2>2, <2>3
<1> QED
  BY <1>2, <1>3

(* The same between switching the repeater on and off.                     *)
Shaping(st, bw) == tuner_set_bw(set_i2c_repeater([st EXCEPT !.r = TRUE], TRUE), bw)

(* A new filter, with the repeater switched off afterwards.                *)
LEMMA ShapingFits ==
    ASSUME NEW st, Fit(st), NEW bw, NEW v \in Shaping(st, bw)
    PROVE  Fit(set_i2c_repeater(v, FALSE))
<1> DEFINE s == [st EXCEPT !.r = TRUE]
           on == set_i2c_repeater(s, TRUE)
<1>1. Keeps(s, st)
  BY ResultKeeps DEF Fit
<1> HIDE DEF s
<1>2. Keeps(on, s) /\ on.hw.repeater = TRUE
  BY <1>1, RepeaterKeeps DEF Keeps
<1> HIDE DEF on
<1>3. Fit(on)
  BY <1>1, <1>2, KeepsFit
<1>4. Fit(v) /\ Sound(v)
  BY <1>2, <1>3, SetBwFits DEF Shaping, s, on, Fit
<1>5. Keeps(set_i2c_repeater(v, FALSE), v)
  BY <1>4, RepeaterKeeps
<1> QED
  BY <1>4, <1>5, KeepsFit

(* Retuning where something is tuned, as several calls do.                 *)
LEMMA RetuneFits ==
    ASSUME NEW st, Fit(st), NEW f, NEW u \in rtlsdr_set_center_freq(st, f)
    PROVE  Fit(u)
BY CenterFreqCenters DEF Fit, Centered

(* rtlsdr_set_offset_tuning, on any tuner.                                 *)
LEMMA OffsetTuningFits ==
    ASSUME NEW st, Fit(st), NEW on \in BOOLEAN, NEW u \in rtlsdr_set_offset_tuning(st, on)
    PROVE  Fit(u)
<1>1. CASE IsR82xx
  <2>1. u = [SetBiasTee(st, 0, on) EXCEPT !.r = FALSE]
    BY <1>1 DEF rtlsdr_set_offset_tuning, Refuse
  <2>2. Keeps(u, st)
    BY <2>1 DEF SetBiasTee, Fit, Sound, Keeps, HwFields, DevFields
  <2> QED
    BY <2>2, KeepsFit
<1>2. CASE ~IsR82xx /\ st.dev.direct_sampling # 0
  BY <1>2, ResultKeeps, KeepsFit DEF rtlsdr_set_offset_tuning, Refuse, Fit
<1>3. CASE ~IsR82xx /\ st.dev.direct_sampling = 0
  <2> DEFINE offs == IF on THEN ((st.dev.rate \div 2) * 170) \div 100 ELSE 0
             bw == IF on THEN 2 * offs ELSE Width(st, st.dev.bw)
             t == [st EXCEPT !.dev.offs_freq = offs]
             moved == rtlsdr_set_if_freq(t, offs)
             shaped == UNION { { [x EXCEPT !.r = m.r]
                               : x \in WithRepeater(m, LAMBDA v : tuner_set_bw(v, bw)) } : m \in moved }
  <2>1. u \in IF st.dev.freq > offs
              THEN Then(shaped, LAMBDA x : rtlsdr_set_center_freq(x, x.dev.freq)) ELSE shaped
    BY <1>3 DEF rtlsdr_set_offset_tuning
  <2> HIDE DEF offs, bw
  <2>2. Fit(t) /\ Sound(t)
    <3>1. Keeps(t, st)
      BY DEF Fit, Sound, Keeps, HwFields, DevFields
    <3> QED
      BY <3>1, KeepsFit DEF Fit
  <2> HIDE DEF t
  <2>3. ASSUME NEW y \in shaped PROVE Fit(y)
    <3>1. PICK m \in moved : \E x \in WithRepeater(m, LAMBDA v : tuner_set_bw(v, bw)) : y = [x EXCEPT !.r = m.r]
      BY <2>3
    <3>2. PICK x \in WithRepeater(m, LAMBDA v : tuner_set_bw(v, bw)) : y = [x EXCEPT !.r = m.r]
      BY <3>1
    <3>3. Fit(m) /\ Sound(m)
      BY <2>2, <3>1, SetIfKeeps, KeepsFit DEF Fit
    <3>4. CASE HasTuner
      <4>1. PICK v \in Shaping(m, bw) : x = set_i2c_repeater(v, FALSE)
        BY <3>2, <3>4 DEF WithRepeater, Write, Shaping
      <4>2. Fit(x) /\ Sound(x)
        BY <3>3, <4>1, ShapingFits DEF Fit
      <4> QED
        BY <3>2, <4>2, ResultKeeps, KeepsFit
    <3>5. CASE ~HasTuner
      <4>1. x = [m EXCEPT !.r = TRUE]
        BY <3>2, <3>5 DEF WithRepeater
      <4>2. Fit(x) /\ Sound(x)
        BY <3>3, <4>1, ResultKeeps, KeepsFit DEF Fit
      <4> QED
        BY <3>2, <4>2, ResultKeeps, KeepsFit
    <3> QED
      BY <3>4, <3>5
  <2> HIDE DEF shaped
  <2>4. CASE u \in shaped
    BY <2>3, <2>4
  <2>5. CASE u \in Then(shaped, LAMBDA x : rtlsdr_set_center_freq(x, x.dev.freq))
    <3>1. PICK y \in shaped : \E x \in rtlsdr_set_center_freq(y, y.dev.freq) : u = [x EXCEPT !.r = x.r /\ y.r]
      BY <2>5 DEF Then
    <3>2. PICK x \in rtlsdr_set_center_freq(y, y.dev.freq) : u = [x EXCEPT !.r = x.r /\ y.r]
      BY <3>1
    <3>3. Fit(x) /\ Sound(x)
      BY <2>3, <3>1, <3>2, RetuneFits DEF Fit
    <3> QED
      BY <3>2, <3>3, ResultKeeps, KeepsFit
  <2> QED
    BY <2>1, <2>4, <2>5
<1> QED
  BY <1>1, <1>2, <1>3

(* rtlsdr_set_sample_rate, with the bandwidth and the offset that follow   *)
(* it.                                                                     *)
LEMMA SampleRateFits ==
    ASSUME NEW st, Fit(st), NEW samp_rate, NEW u \in rtlsdr_set_sample_rate(st, samp_rate)
    PROVE  Fit(u)
<1>1. CASE ~RateSupported(samp_rate)
  BY <1>1, ResultKeeps, KeepsFit DEF rtlsdr_set_sample_rate, Refuse, Fit
<1>2. CASE RateSupported(samp_rate)
  <2> DEFINE rate == real_rate(st.dev.rtl_xtal, samp_rate)
             t == [st EXCEPT !.dev.rate = rate]
             shaped == WithRepeater(t, LAMBDA x : tuner_set_bw(x, Width(x, x.dev.bw)))
             reset == Write(shaped, LAMBDA x : set_i2c_repeater(x, FALSE))
  <2>1. PICK y \in UNION { IF x.dev.offs_freq # 0 THEN rtlsdr_set_offset_tuning(x, TRUE) ELSE {x} : x \in reset } :
          u = Succeed(y)
    BY <1>2 DEF rtlsdr_set_sample_rate, Write
  <2>2. PICK x \in reset : y \in IF x.dev.offs_freq # 0 THEN rtlsdr_set_offset_tuning(x, TRUE) ELSE {x}
    BY <2>1
  <2>3. PICK w \in shaped : x = set_i2c_repeater(w, FALSE)
    BY <2>2 DEF Write
  <2> HIDE DEF rate, reset
  <2>4. Fit(t) /\ Sound(t)
    <3>1. Keeps(t, st)
      BY DEF Fit, Sound, Keeps, HwFields, DevFields
    <3> QED
      BY <3>1, KeepsFit DEF Fit
  <2>5. Fit(w) /\ Sound(w)
    <3> HIDE DEF t
    <3>1. CASE HasTuner
      <4> DEFINE on == set_i2c_repeater([t EXCEPT !.r = TRUE], TRUE)
      <4>1. PICK v \in Shaping(t, Width(on, on.dev.bw)) : w = set_i2c_repeater(v, FALSE)
        BY <2>3, <3>1 DEF WithRepeater, Write, Shaping
      <4> HIDE DEF on
      <4> QED
        BY <2>4, <4>1, ShapingFits DEF Fit
    <3>2. CASE ~HasTuner
      BY <2>3, <2>4, <3>2, ResultKeeps, KeepsFit DEF WithRepeater, Fit
    <3> QED
      BY <3>1, <3>2
  <2> HIDE DEF shaped
  <2>6. Fit(x)
    BY <2>3, <2>5, RepeaterKeeps, KeepsFit
  <2>7. Fit(y) /\ Sound(y)
    BY <2>2, <2>6, OffsetTuningFits DEF Fit
  <2> QED
    BY <2>1, <2>7, ResultKeeps, KeepsFit DEF Succeed
<1> QED
  BY <1>1, <1>2

(* rtlsdr_set_freq_correction.                                             *)
LEMMA FreqCorrectionFits ==
    ASSUME NEW st, Fit(st), NEW ppm, NEW u \in rtlsdr_set_freq_correction(st, ppm)
    PROVE  Fit(u)
<1> DEFINE t == [st EXCEPT !.dev.corr = ppm, !.dev.clock = << st.dev.tun_xtal, ppm >>, !.r = TRUE]
<1>1. Keeps(t, st)
  BY DEF Fit, Sound, Keeps, HwFields, DevFields
<1>2. \/ u = [st EXCEPT !.r = FALSE]
      \/ u = t
      \/ u \in rtlsdr_set_center_freq(t, t.dev.freq)
  BY DEF rtlsdr_set_freq_correction, Refuse
<1> HIDE DEF t
<1>3. Fit(t)
  BY <1>1, KeepsFit
<1> QED
  BY <1>2, <1>3, ResultKeeps, KeepsFit, RetuneFits DEF Fit

(* rtlsdr_set_xtal_freq, with the rate and the frequency set again.        *)
LEMMA XtalFreqFits ==
    ASSUME NEW st, Fit(st), NEW rtl, NEW tun, NEW u \in rtlsdr_set_xtal_freq(st, rtl, tun)
    PROVE  Fit(u)
<1> DEFINE t == Succeed([st EXCEPT !.dev.rtl_xtal = IF rtl > 0 THEN rtl ELSE @])
           rated == IF t.dev.rtl_xtal # st.dev.rtl_xtal /\ st.dev.rate # 0
                    THEN rtlsdr_set_sample_rate(t, t.dev.rate) ELSE {t}
           xtal(x) == IF tun = 0 THEN x.dev.rtl_xtal ELSE tun
           new(x) == [x EXCEPT !.dev.tun_xtal = xtal(x), !.dev.clock = << xtal(x), x.dev.corr >>]
           retune(x) == IF new(x).dev.freq # 0 THEN rtlsdr_set_center_freq(new(x), new(x).dev.freq) ELSE {new(x)}
           wrong == rtl > 0 /\ (rtl < DEF_RTL_XTAL_FREQ - 1000 \/ rtl > DEF_RTL_XTAL_FREQ + 1000)
<1>1. CASE wrong
  BY <1>1, ResultKeeps, KeepsFit DEF rtlsdr_set_xtal_freq, Refuse, Fit
<1>2. CASE ~wrong
  <2>1. PICK x \in rated : u \in IF x.dev.tun_xtal # tun THEN retune(x) ELSE {x}
    <3>1. u \in UNION { IF x.dev.tun_xtal # tun THEN retune(x) ELSE {x} : x \in rated }
      BY <1>2 DEF rtlsdr_set_xtal_freq
    <3> HIDE DEF rated, retune
    <3> QED
      BY <3>1
  <2>2. Fit(t)
    <3>1. Keeps(t, st)
      BY DEF Fit, Sound, Keeps, HwFields, DevFields, Succeed
    <3> QED
      BY <3>1, KeepsFit
  <2>3. Fit(x)
    BY <2>1, <2>2, SampleRateFits
  <2>4. Fit(new(x))
    <3>1. Keeps(new(x), x)
      BY <2>3 DEF Fit, Sound, Keeps, HwFields, DevFields
    <3> QED
      BY <2>3, <3>1, KeepsFit
  <2> HIDE DEF new
  <2> QED
    BY <2>1, <2>3, <2>4, RetuneFits
<1> QED
  BY <1>1, <1>2

(* rtlsdr_set_tuner_bandwidth.                                             *)
LEMMA TunerBandwidthFits ==
    ASSUME NEW st, Fit(st), NEW bw, NEW u \in rtlsdr_set_tuner_bandwidth(st, bw)
    PROVE  Fit(u)
<1>1. CASE ~HasTuner
  BY <1>1, ResultKeeps, KeepsFit DEF rtlsdr_set_tuner_bandwidth, Succeed, Fit
<1>2. CASE HasTuner
  <2> DEFINE on == set_i2c_repeater([st EXCEPT !.r = TRUE], TRUE)
  <2>1. PICK v \in Shaping(st, Width(on, bw)) :
          \E x : x = set_i2c_repeater(v, FALSE) /\ u = IF x.r THEN [x EXCEPT !.dev.bw = bw] ELSE x
    BY <1>2 DEF rtlsdr_set_tuner_bandwidth, Write, WithRepeater, Shaping
  <2> HIDE DEF on
  <2>2. PICK x : x = set_i2c_repeater(v, FALSE) /\ u = IF x.r THEN [x EXCEPT !.dev.bw = bw] ELSE x
    BY <2>1
  <2>3. Fit(x)
    BY <2>1, <2>2, ShapingFits
  <2>4. Keeps(u, x)
    BY <2>2, <2>3 DEF Fit, Sound, Keeps, HwFields, DevFields
  <2> QED
    BY <2>3, <2>4, KeepsFit
<1> QED
  BY <1>1, <1>2

(* A gain set in the tuner.                                                *)
LEMMA GainFits ==
    ASSUME NEW st, Fit(st), NEW g, NEW v \in tuner_set_gain(set_i2c_repeater(st, TRUE), g)
    PROVE  Fit(v)
<1> DEFINE on == set_i2c_repeater(st, TRUE)
<1>1. Keeps(on, st) /\ on.hw.repeater = TRUE
  BY RepeaterKeeps DEF Fit
<1> HIDE DEF on
<1>2. Fit(on) /\ Sound(on)
  BY <1>1, KeepsFit DEF Fit
<1>3. Keeps(v, on)
  BY <1>1, <1>2, SetGainKeeps DEF on
<1> QED
  BY <1>2, <1>3, KeepsFit

(* rtlsdr_set_tuner_gain.                                                  *)
LEMMA TunerGainFits ==
    ASSUME NEW st, Fit(st), NEW g, NEW u \in rtlsdr_set_tuner_gain(st, g)
    PROVE  Fit(u)
<1>1. PICK v \in IF HasTuner THEN tuner_set_gain(set_i2c_repeater(st, TRUE), g) ELSE { Succeed(st) } :
        u = [v EXCEPT !.dev.gain = IF v.r THEN g ELSE 0]
  BY DEF rtlsdr_set_tuner_gain, Write
<1>2. Fit(v)
  BY <1>1, GainFits, ResultKeeps, KeepsFit DEF Succeed, Fit
<1>3. Keeps(u, v)
  BY <1>1, <1>2 DEF Fit, Sound, Keeps, HwFields, DevFields
<1> QED
  BY <1>2, <1>3, KeepsFit

(* rtlsdr_set_tuner_gain_mode.                                             *)
LEMMA GainModeFits ==
    ASSUME NEW st, Fit(st), NEW manual, NEW u \in rtlsdr_set_tuner_gain_mode(st, manual)
    PROVE  Fit(u)
BY GainFits, ResultKeeps, KeepsFit DEF rtlsdr_set_tuner_gain_mode, Succeed, Fit

(* rtlsdr_set_direct_sampling, which chooses the mode for good.            *)
LEMMA DirectSamplingFits ==
    ASSUME NEW st, Fit(st), NEW on \in 0..2, NEW u \in rtlsdr_set_direct_sampling(st, on)
    PROVE  Fit(u)
<1> DEFINE t == [st EXCEPT !.dev.mode = on]
<1>1. PICK w \in IF on # 0 THEN DirectOn(t, on) ELSE DirectOff(t) :
        \E x \in rtlsdr_set_center_freq(w, w.dev.freq) : u = [x EXCEPT !.r = x.r /\ w.r]
  BY DEF rtlsdr_set_direct_sampling, SwitchDirect, Then
<1>2. PICK x \in rtlsdr_set_center_freq(w, w.dev.freq) : u = [x EXCEPT !.r = x.r /\ w.r]
  BY <1>1
<1>3. Sound(t) /\ t.dev.mode = on /\ t.hw = st.hw
  BY DEF Fit, Sound, HwFields, DevFields
<1>4. Wired(t)
  <2>1. Wired(st)
    BY Zenon DEF Fit, Matched, Wired
  <2> QED
    BY <1>3, <2>1 DEF Wired
<1> HIDE DEF t
<1>5. Switched(w, t, on)
  <2>1. CASE on = 0
    BY <1>1, <1>3, <1>4, <2>1, DirectOffSwitches
  <2>2. CASE on \in 1..2
    BY <1>1, <1>3, <2>2, DirectOnSwitches
  <2> QED
    BY <2>1, <2>2
<1>6. Fit(x) /\ Sound(x)
  BY <1>2, <1>5, CenterFreqCenters DEF Switched, Centered, Fit
<1> QED
  BY <1>2, <1>6, ResultKeeps, KeepsFit

(* rtlsdr_close.                                                           *)
LEMMA CloseFits ==
    ASSUME NEW st, Fit(st), NEW u \in rtlsdr_close(st)
    PROVE  Fit(u)
<1> DEFINE s == [st EXCEPT !.r = TRUE]
           on == set_i2c_repeater(s, TRUE)
<1>1. PICK t \in WithRepeater(st, tuner_exit) : u = [t EXCEPT !.hw.powered = FALSE]
  BY DEF rtlsdr_close, Write
<1>2. Fit(s) /\ Sound(s)
  BY ResultKeeps, KeepsFit DEF Fit
<1>3. Fit(t)
  <2>1. CASE HasTuner
    <3>1. PICK v \in tuner_exit(on) : t = set_i2c_repeater(v, FALSE)
      BY <1>1, <2>1 DEF WithRepeater, Write
    <3> HIDE DEF s
    <3>2. Keeps(on, s) /\ on.hw.repeater = TRUE
      BY <1>2, RepeaterKeeps
    <3> HIDE DEF on
    <3>3. Fit(on) /\ Sound(on)
      BY <1>2, <3>2, KeepsFit DEF Fit
    <3>4. Fit(v) /\ Sound(v)
      BY <3>1, <3>2, <3>3, ExitKeeps, KeepsFit DEF Fit
    <3> QED
      BY <3>1, <3>4, RepeaterKeeps, KeepsFit
  <2>2. CASE ~HasTuner
    BY <1>1, <1>2, <2>2 DEF WithRepeater
  <2> QED
    BY <2>1, <2>2
<1>4. Keeps(u, t)
  BY <1>1, <1>3 DEF Fit, Sound, Keeps, HwFields, DevFields
<1> QED
  BY <1>3, <1>4, KeepsFit

-----------------------------------------------------------------------------
(* Opening, and the specification.                                         *)

(* The state probing leaves, of a dongle with either EEPROM bit.           *)
LEMMA ProbedIsSound ==
    ASSUME NEW b, NEW p, p = [Probed EXCEPT !.hw.ir_bit = b]
    PROVE  /\ Sound(p) /\ p.hw.repeater = TRUE /\ p.dev.mode = 0 /\ p.dev.freq = 0
           /\ p.dev.direct_sampling = 0 /\ p.hw.swap_iq = FALSE /\ p.hw.inversion = FALSE
           /\ p.hw.zero_if = TRUE /\ p.hw.quadrature = TRUE
BY DEF Probed, Sound, HwFields, DevFields

(* After the switch over the tuner types the demodulator fits the tuner,   *)
(* and the repeater is still on where there is one.                        *)
LEMMA ConfiguredFits ==
    ASSUME NEW b, NEW p, p = [Probed EXCEPT !.hw.ir_bit = b], NEW t \in Configured(p)
    PROVE  Fit(t) /\ (HasTuner => t.hw.repeater = TRUE)
<1>1. /\ Sound(p) /\ p.hw.repeater = TRUE /\ p.dev.mode = 0 /\ p.dev.freq = 0
      /\ p.dev.direct_sampling = 0 /\ p.hw.swap_iq = FALSE /\ p.hw.inversion = FALSE
      /\ p.hw.zero_if = TRUE /\ p.hw.quadrature = TRUE
  BY ProbedIsSound
<1>2. 0 \in 0..2 /\ (0 = 2) = FALSE
  OBVIOUS
<1>3. CASE IsR82xx
  <2>1. PICK v \in rtlsdr_set_if_freq(p, R82XX_IF_FREQ) :
          t = [v EXCEPT !.hw.zero_if = FALSE, !.hw.quadrature = FALSE, !.hw.inversion = TRUE]
    BY <1>3 DEF Configured, Write
  <2>2. Keeps(v, p) /\ v.hw.repeater = TRUE
    <3>1. Keeps(v, p)
      BY <1>1, <2>1, SetIfKeeps
    <3>2. \/ v = [[p EXCEPT !.hw.if_freq = R82XX_IF_FREQ, !.hw.if_clock = RtlClock(p.dev)] EXCEPT !.r = TRUE]
          \/ v = [[p EXCEPT !.hw.if_freq = Torn] EXCEPT !.r = FALSE]
      BY <2>1, Outcomes DEF rtlsdr_set_if_freq
    <3>3. CASE v = [[p EXCEPT !.hw.if_freq = R82XX_IF_FREQ, !.hw.if_clock = RtlClock(p.dev)] EXCEPT !.r = TRUE]
      BY <1>1, <3>1, <3>3 DEF Sound, HwFields
    <3>4. CASE v = [[p EXCEPT !.hw.if_freq = Torn] EXCEPT !.r = FALSE]
      BY <1>1, <3>1, <3>4 DEF Sound, HwFields
    <3> QED
      BY <3>1, <3>2, <3>3, <3>4
  <2>3. /\ Sound(t) /\ t.hw.repeater = TRUE /\ t.dev.mode = 0 /\ t.dev.freq = 0
        /\ t.dev.direct_sampling = 0 /\ t.hw.swap_iq = FALSE /\ t.hw.inversion = TRUE
        /\ t.hw.zero_if = FALSE /\ t.hw.quadrature = FALSE
    BY <1>1, <2>1, <2>2 DEF Sound, Keeps, HwFields, DevFields
  <2>4. Matched(t)
    BY <1>2, <1>3, <2>3, Zenon DEF Matched
  <2> QED
    BY <2>3, <2>4 DEF Fit, ModeFits
<1>4. CASE ~IsR82xx
  <2>1. Fit(p)
    BY <1>1, <1>2, <1>4, Zenon DEF Fit, Matched, ModeFits
  <2>2. CASE tuner_type = "UNKNOWN"
    <3>1. t \in rtlsdr_set_direct_sampling(p, 1)
      BY <1>4, <2>2 DEF Configured
    <3> QED
      BY <2>1, <2>2, <3>1, DirectSamplingFits DEF HasTuner
  <2>3. CASE tuner_type # "UNKNOWN"
    BY <1>1, <1>4, <2>1, <2>3 DEF Configured
  <2> QED
    BY <2>2, <2>3
<1> QED
  BY <1>3, <1>4

(* rtlsdr_open.                                                            *)
LEMMA OpenedFits ==
    ASSUME NEW st \in Opened
    PROVE  Fit(st)
<1> DEFINE bits == { [Probed EXCEPT !.hw.ir_bit = b] : b \in BOOLEAN }
           configured == Followed(bits, Configured)
           forced == Followed(configured, ForceBias)
           ready == IF HasTuner THEN Followed(forced, tuner_init) ELSE forced
<1>1. PICK v \in ready : st = set_i2c_repeater(v, FALSE)
  BY DEF Opened, Write
<1>2. ASSUME NEW x \in forced PROVE Fit(x) /\ Sound(x) /\ (HasTuner => x.hw.repeater = TRUE)
  <2>1. PICK t \in configured : x \in ForceBias(t)
    BY <1>2 DEF Followed
  <2>2. PICK p \in bits : t \in Configured(p)
    BY <2>1 DEF Followed
  <2>3. PICK b \in BOOLEAN : p = [Probed EXCEPT !.hw.ir_bit = b]
    BY <2>2
  <2>4. Fit(t) /\ (HasTuner => t.hw.repeater = TRUE)
    BY <2>2, <2>3, ConfiguredFits
  <2>5. PICK y \in { [t EXCEPT !.dev.force_bt = f] :
                       f \in {~t.hw.ir_bit} \cup (IF "eeprom" \in Faults THEN BOOLEAN ELSE {}) } :
          x = [y EXCEPT !.hw.bias_tee = y.dev.force_bt]
    BY <2>1 DEF ForceBias
  <2>6. Keeps(x, t) /\ x.hw.repeater = t.hw.repeater
    <3>1. PICK f : y = [t EXCEPT !.dev.force_bt = f]
      BY <2>5
    <3>2. Keeps(y, t) /\ y.hw.repeater = t.hw.repeater
      BY <2>4, <3>1 DEF Fit, Sound, Keeps, HwFields, DevFields
    <3> QED
      BY <2>5, <3>2 DEF Sound, Keeps, HwFields, DevFields
  <2> QED
    BY <2>4, <2>6, KeepsFit DEF Fit
<1>3. Fit(v) /\ Sound(v)
  <2> HIDE DEF forced
  <2>1. CASE HasTuner
    <3>1. PICK x \in forced : v \in tuner_init(x)
      BY <1>1, <2>1 DEF Followed
    <3> QED
      BY <1>2, <2>1, <3>1, InitKeeps, KeepsFit DEF Fit
  <2>2. CASE ~HasTuner
    BY <1>1, <1>2, <2>2
  <2> QED
    BY <2>1, <2>2
<1> QED
  BY <1>1, <1>3, RepeaterKeeps, KeepsFit

DeviceInv == Fit(Now)

(* Every call starts from a fit state, so it ends in one.                  *)
LEMMA CallKeeps ==
    ASSUME NEW name, NEW arg, NEW outcomes, Call(name, arg, outcomes), \A u \in outcomes : Fit(u)
    PROVE  DeviceInv'
<1>1. PICK u \in outcomes : dev' = u.dev /\ hw' = u.hw
  BY DEF Call
<1>2. Fit(u) /\ tuner_type' = tuner_type
  BY <1>1 DEF Call
<1>3. Now' = [dev |-> u.dev, hw |-> u.hw, r |-> TRUE]
  BY <1>1 DEF Now
<1>4. Sound(Now)'
  BY <1>2, <1>3 DEF Fit, Sound, HwFields, DevFields
<1>5. Matched(Now)'
  BY <1>2, <1>3 DEF Fit, Matched, IsR82xx
<1>6. ModeFits(Now)'
  BY <1>2, <1>3 DEF Fit, ModeFits, DirectFor, DirectLimit
<1> QED
  BY <1>4, <1>5, <1>6 DEF DeviceInv, Fit

(* One step per call.                                                      *)
LEMMA DeviceStep ==
    ASSUME DeviceInv, [Next]_vars
    PROVE  DeviceInv'
<1> USE DEF DeviceInv
<1>1. CASE SetCenterFreq
  BY <1>1, RetuneFits, CallKeeps DEF SetCenterFreq
<1>2. CASE SetFreqCorrection
  BY <1>2, FreqCorrectionFits, CallKeeps DEF SetFreqCorrection
<1>3. CASE SetXtalFreq
  BY <1>3, XtalFreqFits, CallKeeps DEF SetXtalFreq
<1>4. CASE SetTunerBandwidth
  BY <1>4, TunerBandwidthFits, CallKeeps DEF SetTunerBandwidth
<1>5. CASE SetTunerGain
  BY <1>5, TunerGainFits, CallKeeps DEF SetTunerGain
<1>6. CASE SetTunerGainMode
  BY <1>6, GainModeFits, CallKeeps DEF SetTunerGainMode
<1>7. CASE SetSampleRate
  BY <1>7, SampleRateFits, CallKeeps DEF SetSampleRate
<1>8. CASE SetTestmode \/ SetAgcMode
  <2>1. \A val : Fit(WriteControl(Now, val))
    <3>1. \A val : Keeps(WriteControl(Now, val), Now)
      BY DEF WriteControl, Succeed, Fit, Sound, Keeps, HwFields, DevFields
    <3> QED
      BY <3>1, KeepsFit
  <2> QED
    BY <1>8, <2>1, CallKeeps DEF SetTestmode, SetAgcMode
<1>9. CASE SetDirectSampling
  BY <1>9, DirectSamplingFits, CallKeeps DEF SetDirectSampling
<1>10. CASE SetOffsetTuning
  BY <1>10, OffsetTuningFits, CallKeeps DEF SetOffsetTuning
<1>11. CASE SetBiasTeeGpio
  <2>1. \A gpio, on : Fit(Succeed(SetBiasTee(Now, gpio, on)))
    <3>1. \A gpio, on : Keeps(Succeed(SetBiasTee(Now, gpio, on)), Now)
      BY DEF SetBiasTee, Succeed, Fit, Sound, Keeps, HwFields, DevFields
    <3> QED
      BY <3>1, KeepsFit
  <2> QED
    BY <1>11, <2>1, CallKeeps DEF SetBiasTeeGpio
<1>12. CASE Close
  BY <1>12, CloseFits, CallKeeps DEF Close
<1>13. CASE UNCHANGED vars
  BY <1>13 DEF vars, Now, Fit, Sound, Matched, ModeFits, IsR82xx, DirectFor, DirectLimit
<1> QED
  BY <1>1, <1>2, <1>3, <1>4, <1>5, <1>6, <1>7, <1>8, <1>9, <1>10, <1>11, <1>12, <1>13 DEF Next

(* The device is opened in a fit state.                                    *)
LEMMA DeviceStarts == Init => DeviceInv
<1> SUFFICES ASSUME NEW st \in Opened, dev = st.dev, hw = st.hw PROVE Fit(Now)
  BY DEF Init, DeviceInv
<1>1. Fit(st)
  BY OpenedFits
<1>2. Sound(Now)
  BY <1>1 DEF Now, Fit, Sound, HwFields, DevFields
<1> QED
  BY <1>1, <1>2 DEF Now, Fit, Matched, ModeFits

(* However the sampling mode was reached, the demodulator is configured    *)
(* for it, and it is the one the frequency calls for: for every dongle,    *)
(* whatever fails.                                                         *)
THEOREM ModeIsConfigured == Spec => []RegistersMatchMode
<1>1. DeviceInv => RegistersMatchMode
  <2>1. ASSUME DeviceInv PROVE /\ Matched(Now) /\ ModeFits(Now) /\ Now.dev = dev /\ Now.hw = hw
    BY <2>1 DEF DeviceInv, Fit, Now
  <2>2. ASSUME DeviceInv
        PROVE  /\ hw.swap_iq = (dev.direct_sampling = 2)
               /\ hw.inversion = (dev.direct_sampling = 0 /\ IsR82xx)
               /\ hw.zero_if = (dev.direct_sampling = 0 /\ ~IsR82xx)
               /\ hw.quadrature = hw.zero_if
    BY <2>1, <2>2, Zenon DEF Matched
  <2>3. ASSUME DeviceInv, dev.mode = 0, dev.freq # 0 PROVE dev.direct_sampling = DirectFor(dev.freq)
    BY <2>1, <2>3, Zenon DEF ModeFits
  <2> QED
    BY <2>2, <2>3 DEF RegistersMatchMode, DirectFor
<1> QED
  BY <1>1, DeviceStarts, DeviceStep, PTL DEF Spec

(* No step of any call talks to the tuner while the repeater is off.       *)
THEOREM TunerIsReached == Spec => []NoBlindAccess
<1>1. DeviceInv => NoBlindAccess
  BY DEF DeviceInv, Fit, Sound, Now, NoBlindAccess
<1> QED
  BY <1>1, DeviceStarts, DeviceStep, PTL DEF Spec

(* set_center_freq and set_direct_sampling never nest deeper than three    *)
(* tunings, whatever fails on the way.                                     *)
THEOREM NestingEnds == Spec => []RecursionEnds
<1>1. DeviceInv => RecursionEnds
  BY DEF DeviceInv, Fit, Sound, Now, RecursionEnds
<1> QED
  BY <1>1, DeviceStarts, DeviceStep, PTL DEF Spec

-----------------------------------------------------------------------------
(* What the device is tuned to.  A tuner that does not come up, or whose   *)
(* filter or IF register cannot be written, is not where the library says; *)
(* a failing set_freq, set_gain, exit or EEPROM read does no harm.         *)
TuningReliable == Faults \cap {"init", "set_bw", "set_if"} = {}

(* The crystals rtlsdr_set_xtal_freq accepts.                              *)
IsCrystal(x) == x \in Nat /\ x >= DEF_RTL_XTAL_FREQ - 1000 /\ x <= DEF_RTL_XTAL_FREQ + 1000

Crystals == Xtals \cup {DEF_RTL_XTAL_FREQ}

(* The rates in use are within the reach of the resampler with every       *)
(* crystal in use, so that dev->rate is the rate asked for (RateIsKept).   *)
(* With the nominal crystal that is every rate rtlsdr_set_sample_rate      *)
(* accepts; with one 1000 Hz off, all but those 31 Hz from the limits.     *)
RatesAreReached ==
    \A x \in Crystals, s \in Rates :
      IsCrystal(x) /\ RateSupported(s) => ResamplerReaches(x, s)

(* A program that tunes an E4000 with an offset leaves direct sampling     *)
(* alone, and tunes to frequencies above the largest offset.               *)
MaxRate == 3200000
MaxOffset == 2720000

OffsetTuningUsable ==
    "E4000" \in TunerTypes =>
      /\ ~({"set_direct_sampling", "set_offset_tuning"} \subseteq Calls["E4000"])
      /\ \A f \in Freqs : f = 0 \/ f > MaxOffset

(* The settings tuning depends on.                                         *)
Planned(st) ==
    /\ tuner_type \in {"R820T", "R828D", "E4000", "UNKNOWN"}
    /\ st.dev.freq \in Freqs \cup {0} /\ st.dev.bw \in Nat
    /\ st.dev.rtl_xtal \in Crystals /\ IsCrystal(st.dev.rtl_xtal)
    /\ st.dev.rate \in Rates \cup {0} /\ st.dev.rate \in Nat /\ st.dev.rate <= MaxRate
    /\ st.dev.int_freq \in Nat /\ (~IsR82xx => st.dev.int_freq = 0)
    /\ st.dev.offs_freq \in Nat /\ st.dev.offs_freq <= MaxOffset
    /\ IsR82xx => st.dev.offs_freq = 0
    /\ tuner_type = "E4000" => IF "set_direct_sampling" \in Calls["E4000"] THEN st.dev.offs_freq = 0
                               ELSE st.dev.mode = 0 /\ st.dev.direct_sampling = 0

(* Without direct sampling the tuner is on, and the IF register is at what *)
(* the R82xx mix to, or at the offset.                                     *)
IfAt(st) == IF IsR82xx THEN st.dev.int_freq ELSE st.dev.offs_freq

Mixes(st) ==
    HasTuner /\ st.dev.direct_sampling = 0 => st.hw.tuner = "on" /\ st.hw.if_freq = IfAt(st)

(* What is reported as the frequency was set, in one way or the other.     *)
Oscillates(st) ==
    st.dev.freq # 0 =>
      IF st.dev.direct_sampling # 0 THEN st.hw.if_freq = st.dev.freq
      ELSE HasTuner /\ st.hw.lo = st.dev.freq - st.dev.offs_freq + st.dev.int_freq

Tuned(st) == Planned(st) /\ Mixes(st) /\ Oscillates(st)

(* Steps that leave all of this alone.                                     *)
SameDev(u, st) ==
    /\ u.dev.freq = st.dev.freq /\ u.dev.bw = st.dev.bw /\ u.dev.rtl_xtal = st.dev.rtl_xtal
    /\ u.dev.rate = st.dev.rate /\ u.dev.int_freq = st.dev.int_freq
    /\ u.dev.offs_freq = st.dev.offs_freq /\ u.dev.mode = st.dev.mode
    /\ u.dev.direct_sampling = st.dev.direct_sampling

SameTuner(u, st) ==
    u.hw.tuner = st.hw.tuner /\ u.hw.if_freq = st.hw.if_freq /\ u.hw.lo = st.hw.lo

Stays(u, st) == SameDev(u, st) /\ SameTuner(u, st)

(* Such a step stays tuned.                                                *)
LEMMA StaysTuned ==
    ASSUME NEW st, Tuned(st), NEW u, Stays(u, st)
    PROVE  Tuned(u)
BY DEF Tuned, Planned, Mixes, IfAt, Oscillates, Stays, SameDev, SameTuner

(* The result alone.                                                       *)
LEMMA ResultStays ==
    ASSUME NEW st, Sound(st), NEW b
    PROVE  Stays([st EXCEPT !.r = b], st)
BY DEF Sound, Stays, SameDev, SameTuner, HwFields, DevFields

(* The repeater alone.                                                     *)
LEMMA RepeaterStays ==
    ASSUME NEW st, Sound(st), NEW on
    PROVE  Stays(set_i2c_repeater(st, on), st)
BY DEF Sound, Stays, SameDev, SameTuner, set_i2c_repeater, HwFields, DevFields

(* An access to the tuner.                                                 *)
LEMMA AccessStays ==
    ASSUME NEW st, Sound(st)
    PROVE  Stays(Access(st), st)
BY DEF Sound, Stays, SameDev, SameTuner, Access, HwFields, DevFields

(* A step whose kind does not fail has one outcome.                        *)
LEMMA OneOutcome ==
    ASSUME NEW kind, kind \notin Faults, NEW good, NEW bad, NEW u \in Fallible(kind, good, bad)
    PROVE  u = [good EXCEPT !.r = TRUE]
BY DEF Fallible

(* The IF register is where it was set to.                                 *)
LEMMA SetIfSets ==
    ASSUME TuningReliable, NEW st, Sound(st), NEW f, NEW u \in rtlsdr_set_if_freq(st, f)
    PROVE  /\ SameDev(u, st) /\ u.r /\ u.hw.if_freq = f
           /\ u.hw.tuner = st.hw.tuner /\ u.hw.lo = st.hw.lo
<1>1. u = [[st EXCEPT !.hw.if_freq = f, !.hw.if_clock = RtlClock(st.dev)] EXCEPT !.r = TRUE]
  BY OneOutcome DEF rtlsdr_set_if_freq, TuningReliable
<1> QED
  BY <1>1 DEF Sound, SameDev, HwFields, DevFields

(* The tuner comes up with its own intermediate frequency; the settings    *)
(* stay.                                                                   *)
LEMMA InitSets ==
    ASSUME TuningReliable, NEW st, Sound(st), st.hw.repeater = TRUE, NEW u \in tuner_init(st)
    PROVE  /\ u.dev.freq = st.dev.freq /\ u.dev.bw = st.dev.bw /\ u.dev.rtl_xtal = st.dev.rtl_xtal
           /\ u.dev.rate = st.dev.rate /\ u.dev.offs_freq = st.dev.offs_freq
           /\ u.dev.mode = st.dev.mode /\ u.dev.direct_sampling = st.dev.direct_sampling
           /\ u.dev.int_freq = (IF IsR82xx THEN R82XX_IF_FREQ ELSE 0)
           /\ u.hw.tuner = "on" /\ u.hw.if_freq = st.hw.if_freq
<1> DEFINE t == Access(st)
           int == IF IsR82xx THEN R82XX_IF_FREQ ELSE 0
           good == [t EXCEPT !.hw.tuner = "on", !.hw.lo = Torn, !.hw.gain = Default,
                             !.hw.filter = Default, !.dev.clock = TunClock(st.dev),
                             !.dev.int_freq = int]
<1>1. u = [good EXCEPT !.r = TRUE]
  BY OneOutcome DEF tuner_init, TuningReliable
<1>2. Stays(t, st) /\ Sound(t)
  BY AccessStays, AccessKeeps DEF Keeps
<1> HIDE DEF t, int
<1>3. /\ u.dev.freq = t.dev.freq /\ u.dev.bw = t.dev.bw /\ u.dev.rtl_xtal = t.dev.rtl_xtal
      /\ u.dev.rate = t.dev.rate /\ u.dev.offs_freq = t.dev.offs_freq
      /\ u.dev.mode = t.dev.mode /\ u.dev.direct_sampling = t.dev.direct_sampling
      /\ u.dev.int_freq = int /\ u.hw.tuner = "on" /\ u.hw.if_freq = t.hw.if_freq
  BY <1>1, <1>2 DEF Sound, HwFields, DevFields
<1> QED
  BY <1>2, <1>3 DEF Stays, SameDev, SameTuner, int

(* Standby leaves the settings and the frequencies alone.                  *)
LEMMA ExitSets ==
    ASSUME NEW st, Sound(st), st.hw.repeater = TRUE, NEW u \in tuner_exit(st)
    PROVE  SameDev(u, st) /\ u.hw.if_freq = st.hw.if_freq /\ u.hw.lo = st.hw.lo
<1> DEFINE t == Access(st)
<1>1. u = [[t EXCEPT !.hw.tuner = "standby"] EXCEPT !.r = TRUE]
      \/ u = [[t EXCEPT !.hw.tuner = "torn"] EXCEPT !.r = FALSE]
  BY Outcomes DEF tuner_exit
<1>2. Stays(t, st) /\ Sound(t)
  BY AccessStays, AccessKeeps DEF Keeps
<1> HIDE DEF t
<1>3. SameDev(u, t) /\ u.hw.if_freq = t.hw.if_freq /\ u.hw.lo = t.hw.lo
  <2>1. CASE u = [[t EXCEPT !.hw.tuner = "standby"] EXCEPT !.r = TRUE]
    BY <1>2, <2>1 DEF Sound, SameDev, HwFields, DevFields
  <2>2. CASE u = [[t EXCEPT !.hw.tuner = "torn"] EXCEPT !.r = FALSE]
    BY <1>2, <2>2 DEF Sound, SameDev, HwFields, DevFields
  <2> QED
    BY <1>1, <2>1, <2>2
<1> QED
  BY <1>2, <1>3 DEF Stays, SameDev, SameTuner

(* The oscillator is at the frequency plus the IF, or the call failed.     *)
LEMMA SetFreqSets ==
    ASSUME NEW st, Sound(st), st.hw.repeater = TRUE, NEW f, NEW u \in tuner_set_freq(st, f)
    PROVE  /\ SameDev(u, st) /\ u.hw.if_freq = st.hw.if_freq /\ u.hw.tuner = st.hw.tuner
           /\ \/ u.r /\ u.hw.lo = f + st.dev.int_freq
              \/ ~u.r
<1> DEFINE t == Access(st)
           lo == f + st.dev.int_freq
<1>1. u = [[t EXCEPT !.hw.lo = lo, !.hw.lo_clock = st.dev.clock] EXCEPT !.r = TRUE]
      \/ u = [[t EXCEPT !.hw.lo = Torn] EXCEPT !.r = FALSE]
  BY Outcomes DEF tuner_set_freq
<1>2. Stays(t, st) /\ Sound(t)
  BY AccessStays, AccessKeeps DEF Keeps
<1> HIDE DEF t, lo
<1>3. /\ SameDev(u, t) /\ u.hw.if_freq = t.hw.if_freq /\ u.hw.tuner = t.hw.tuner
      /\ (u.r /\ u.hw.lo = lo) \/ ~u.r
  <2>1. CASE u = [[t EXCEPT !.hw.lo = lo, !.hw.lo_clock = st.dev.clock] EXCEPT !.r = TRUE]
    BY <1>2, <2>1 DEF Sound, SameDev, HwFields, DevFields
  <2>2. CASE u = [[t EXCEPT !.hw.lo = Torn] EXCEPT !.r = FALSE]
    BY <1>2, <2>2 DEF Sound, SameDev, HwFields, DevFields
  <2> QED
    BY <1>1, <2>1, <2>2
<1> QED
  BY <1>2, <1>3 DEF Stays, SameDev, SameTuner, lo

(* The settings that no tuning changes.                                    *)
SamePlan(u, st) ==
    /\ u.dev.bw = st.dev.bw /\ u.dev.rtl_xtal = st.dev.rtl_xtal /\ u.dev.rate = st.dev.rate
    /\ u.dev.offs_freq = st.dev.offs_freq /\ u.dev.mode = st.dev.mode

(* Tune sets the IF register, or the oscillator, or reports no frequency.  *)
LEMMA TuneSets ==
    ASSUME TuningReliable, NEW st, Sound(st), NEW f, NEW u \in Tune(st, f)
    PROVE  /\ SamePlan(u, st) /\ u.dev.int_freq = st.dev.int_freq /\ u.hw.tuner = st.hw.tuner
           /\ u.dev.direct_sampling = AutoDirect(st, f)
           /\ u.dev.direct_sampling # 0 => u.hw.if_freq = f /\ u.dev.freq = f
           /\ u.dev.direct_sampling = 0 =>
                /\ u.hw.if_freq = st.hw.if_freq
                /\ \/ u.dev.freq = f /\ HasTuner /\ u.hw.lo = (f - st.dev.offs_freq) + st.dev.int_freq
                   \/ u.dev.freq = 0
<1> DEFINE t == [st EXCEPT !.dev.direct_sampling = AutoDirect(st, f)]
           off == set_i2c_repeater(t, FALSE)
           on == ReachTuner(t)
           S == IF t.dev.direct_sampling # 0 THEN rtlsdr_set_if_freq(off, f)
                ELSE IF HasTuner THEN tuner_set_freq(on, TunerFreq(t, f))
                ELSE { [t EXCEPT !.r = FALSE] }
<1>1. PICK v \in S : u = [v EXCEPT !.dev.freq = FreqAfter(v, f)]
  BY DEF Tune, Write
<1>2. /\ Sound(t) /\ SamePlan(t, st) /\ t.dev.int_freq = st.dev.int_freq
      /\ t.dev.direct_sampling = AutoDirect(st, f)
      /\ t.hw = st.hw
  BY DEF Sound, SamePlan, HwFields, DevFields
<1>d. CASE t.dev.direct_sampling # 0
  <2>1. v \in rtlsdr_set_if_freq(off, f)
    BY <1>1, <1>d
  <2> HIDE DEF t
  <2>2. Stays(off, t) /\ Sound(off)
    BY <1>2, RepeaterStays, RepeaterKeeps DEF Keeps
  <2> HIDE DEF off
  <2>3. /\ SameDev(v, off) /\ v.r /\ v.hw.if_freq = f /\ v.hw.tuner = off.hw.tuner
    BY <2>1, <2>2, SetIfSets
  <2>4. Sound(v)
    BY <2>1, <2>2, SetIfKeeps DEF Keeps
  <2>5. FreqAfter(v, f) = f
    BY <2>3 DEF FreqAfter
  <2>6. /\ SamePlan(u, v) /\ u.dev.int_freq = v.dev.int_freq /\ u.hw = v.hw
        /\ u.dev.direct_sampling = v.dev.direct_sampling /\ u.dev.freq = f
    BY <1>1, <2>4, <2>5 DEF Sound, SamePlan, HwFields, DevFields
  <2> QED
    BY <1>2, <1>d, <2>2, <2>3, <2>6 DEF Stays, SameDev, SameTuner, SamePlan
<1>t. CASE t.dev.direct_sampling = 0 /\ HasTuner
  <2> DEFINE tf == TunerFreq(t, f)
  <2>1. v \in tuner_set_freq(on, tf)
    BY <1>1, <1>t
  <2>6. tf = f - st.dev.offs_freq
    BY <1>2 DEF TunerFreq, SamePlan
  <2> HIDE DEF t, tf
  <2>2. Stays(on, t) /\ Sound(on) /\ on.hw.repeater = TRUE
    BY <1>2, RepeaterStays, RepeaterKeeps DEF Keeps, ReachTuner
  <2> HIDE DEF on
  <2>3. /\ SameDev(v, on) /\ v.hw.if_freq = on.hw.if_freq /\ v.hw.tuner = on.hw.tuner
        /\ \/ v.r /\ v.hw.lo = tf + on.dev.int_freq
           \/ ~v.r
    BY <2>1, <2>2, SetFreqSets
  <2>4. Sound(v)
    BY <2>1, <2>2, SetFreqKeeps DEF Keeps
  <2>5. /\ SamePlan(u, v) /\ u.dev.int_freq = v.dev.int_freq /\ u.hw = v.hw
        /\ u.dev.direct_sampling = v.dev.direct_sampling /\ u.dev.freq = FreqAfter(v, f)
    BY <1>1, <2>4 DEF Sound, SamePlan, HwFields, DevFields
  <2>7. \/ u.dev.freq = f /\ u.hw.lo = (f - st.dev.offs_freq) + st.dev.int_freq
        \/ u.dev.freq = 0
    BY <1>2, <2>2, <2>3, <2>5, <2>6 DEF FreqAfter, Stays, SameDev
  <2> QED
    BY <1>2, <1>t, <2>2, <2>3, <2>5, <2>7 DEF Stays, SameDev, SameTuner, SamePlan
<1>n. CASE t.dev.direct_sampling = 0 /\ ~HasTuner
  <2>1. v = [t EXCEPT !.r = FALSE]
    BY <1>1, <1>n
  <2> HIDE DEF t
  <2>2. Stays(v, t) /\ Sound(v) /\ ~v.r
    BY <1>2, <2>1 DEF Sound, Stays, SameDev, SameTuner, HwFields, DevFields
  <2>3. /\ SamePlan(u, v) /\ u.dev.int_freq = v.dev.int_freq /\ u.hw = v.hw
        /\ u.dev.direct_sampling = v.dev.direct_sampling /\ u.dev.freq = 0
    BY <1>1, <2>2 DEF Sound, SamePlan, HwFields, DevFields, FreqAfter
  <2> QED
    BY <1>2, <1>n, <2>2, <2>3 DEF Stays, SameDev, SameTuner, SamePlan
<1> QED
  BY <1>d, <1>t, <1>n

(* Entering direct sampling leaves the settings alone.                     *)
LEMMA DirectOnSets ==
    ASSUME NEW st, Sound(st), NEW on \in 1..2, NEW u \in DirectOn(st, on)
    PROVE  /\ SamePlan(u, st) /\ u.dev.int_freq = st.dev.int_freq /\ u.dev.freq = st.dev.freq
           /\ u.dev.direct_sampling = on
<1> DEFINE s == [st EXCEPT !.r = TRUE]
           on1 == set_i2c_repeater(s, TRUE)
<1>1. PICK t \in WithRepeater(st, tuner_exit) :
        u = [t EXCEPT !.hw.zero_if = FALSE, !.hw.inversion = FALSE, !.hw.quadrature = FALSE,
                      !.hw.swap_iq = (on > 1), !.dev.direct_sampling = on]
  BY DEF DirectOn, Write
<1>2. Stays(s, st) /\ Sound(s)
  BY ResultStays, ResultKeeps DEF Keeps
<1>3. SameDev(t, st) /\ Sound(t)
  <2>1. CASE HasTuner
    <3>1. PICK v \in tuner_exit(on1) : t = set_i2c_repeater(v, FALSE)
      BY <1>1, <2>1 DEF WithRepeater, Write
    <3> HIDE DEF s
    <3>2. Stays(on1, s) /\ Sound(on1) /\ on1.hw.repeater = TRUE
      BY <1>2, RepeaterStays, RepeaterKeeps DEF Keeps
    <3> HIDE DEF on1
    <3>3. SameDev(v, on1) /\ Sound(v)
      BY <3>1, <3>2, ExitSets, ExitKeeps DEF Keeps
    <3>4. Stays(t, v) /\ Sound(t)
      BY <3>1, <3>3, RepeaterStays, RepeaterKeeps DEF Keeps
    <3> QED
      BY <1>2, <3>2, <3>3, <3>4 DEF Stays, SameDev
  <2>2. CASE ~HasTuner
    BY <1>1, <1>2, <2>2 DEF WithRepeater, Stays
  <2> QED
    BY <2>1, <2>2
<1> QED
  BY <1>1, <1>3 DEF Sound, SameDev, SamePlan, HwFields, DevFields

(* Leaving it starts the tuner afresh, with the IF register at its IF.     *)
LEMMA DirectOffSets ==
    ASSUME TuningReliable, NEW st, Sound(st), NEW u \in DirectOff(st)
    PROVE  /\ SamePlan(u, st) /\ u.dev.freq = st.dev.freq /\ u.dev.direct_sampling = 0
           /\ u.hw.if_freq = (IF IsR82xx THEN R82XX_IF_FREQ ELSE 0)
           /\ HasTuner => u.hw.tuner = "on" /\ u.dev.int_freq = (IF IsR82xx THEN R82XX_IF_FREQ ELSE 0)
           /\ ~HasTuner => u.dev.int_freq = st.dev.int_freq
<1> DEFINE s == [st EXCEPT !.r = TRUE]
           on1 == set_i2c_repeater(s, TRUE)
           IF0 == IF IsR82xx THEN R82XX_IF_FREQ ELSE 0
<1>1. PICK t \in Then(WithRepeater(st, tuner_init), LAMBDA x : rtlsdr_set_if_freq(x, IF0)) :
        u = [t EXCEPT !.hw.inversion = IF IsR82xx THEN TRUE ELSE @,
                      !.hw.quadrature = IF IsR82xx THEN @ ELSE TRUE,
                      !.hw.zero_if = IF IsR82xx THEN @ ELSE TRUE,
                      !.hw.swap_iq = SwapOff(t), !.dev.direct_sampling = 0]
  BY DEF DirectOff, Write
<1>2. PICK w \in WithRepeater(st, tuner_init) :
        \E v \in rtlsdr_set_if_freq(w, IF0) : t = [v EXCEPT !.r = v.r /\ w.r]
  BY <1>1 DEF Then
<1>3. PICK v \in rtlsdr_set_if_freq(w, IF0) : t = [v EXCEPT !.r = v.r /\ w.r]
  BY <1>2
<1>4. Stays(s, st) /\ Sound(s)
  BY ResultStays, ResultKeeps DEF Keeps
<1>5. /\ SamePlan(w, st) /\ w.dev.freq = st.dev.freq /\ Sound(w)
      /\ HasTuner => w.hw.tuner = "on" /\ w.dev.int_freq = IF0
      /\ ~HasTuner => w.dev.int_freq = st.dev.int_freq
  <2>1. CASE HasTuner
    <3>1. PICK x \in tuner_init(on1) : w = set_i2c_repeater(x, FALSE)
      BY <1>2, <2>1 DEF WithRepeater, Write
    <3> HIDE DEF s
    <3>2. Stays(on1, s) /\ Sound(on1) /\ on1.hw.repeater = TRUE
      BY <1>4, RepeaterStays, RepeaterKeeps DEF Keeps
    <3> HIDE DEF on1
    <3>3. /\ SamePlan(x, on1) /\ x.dev.freq = on1.dev.freq /\ x.hw.tuner = "on" /\ x.dev.int_freq = IF0
      BY <3>1, <3>2, InitSets DEF SamePlan
    <3>4. Sound(x)
      BY <3>1, <3>2, InitKeeps DEF Keeps
    <3>5. Stays(w, x) /\ Sound(w)
      BY <3>1, <3>4, RepeaterStays, RepeaterKeeps DEF Keeps
    <3> HIDE DEF IF0
    <3> QED
      BY <1>4, <2>1, <3>2, <3>3, <3>5 DEF Stays, SameDev, SameTuner, SamePlan
  <2>2. CASE ~HasTuner
    <3>1. w = s
      BY <1>2, <2>2 DEF WithRepeater
    <3> HIDE DEF s, IF0
    <3> QED
      BY <1>4, <2>2, <3>1 DEF Stays, SameDev, SamePlan
  <2> QED
    BY <2>1, <2>2
<1> HIDE DEF IF0
<1>6. /\ SameDev(v, w) /\ v.hw.if_freq = IF0 /\ v.hw.tuner = w.hw.tuner /\ Sound(v)
  <2>1. Sound(v)
    BY <1>3, <1>5, SetIfKeeps DEF Keeps
  <2> QED
    BY <1>3, <1>5, <2>1, SetIfSets
<1>7. Stays(t, v) /\ Sound(t)
  BY <1>3, <1>6, ResultStays, ResultKeeps DEF Keeps
<1> HIDE DEF IF0
<1>8. /\ SamePlan(u, t) /\ u.dev.freq = t.dev.freq /\ u.dev.direct_sampling = 0
      /\ u.hw.if_freq = t.hw.if_freq /\ u.hw.tuner = t.hw.tuner /\ u.dev.int_freq = t.dev.int_freq
  BY <1>1, <1>7 DEF Sound, SamePlan, HwFields, DevFields
<1>9. /\ SamePlan(u, st) /\ u.dev.freq = st.dev.freq /\ u.dev.direct_sampling = 0
      /\ u.hw.if_freq = IF0
      /\ HasTuner => u.hw.tuner = "on" /\ u.dev.int_freq = IF0
      /\ ~HasTuner => u.dev.int_freq = st.dev.int_freq
  BY <1>5, <1>6, <1>7, <1>8 DEF Stays, SameDev, SameTuner, SamePlan
<1> QED
  BY <1>9 DEF IF0

(* Where a call of rtlsdr_set_center_freq may start, and where it ends.    *)
Tunable(st) == Sound(st) /\ Matched(st) /\ Planned(st) /\ Mixes(st)

Arrived(u, st) == Tuned(u) /\ SamePlan(u, st)

(* Where the mode does not change, tuning is all, and it arrives.          *)
LEMMA StaysArrived ==
    ASSUME TuningReliable, NEW st, Tunable(st), NEW f \in Freqs \cup {0}, NEW u \in Tune(st, f),
           u.dev.direct_sampling = st.dev.direct_sampling
    PROVE  Arrived(u, st)
<1>1. /\ SamePlan(u, st) /\ u.dev.int_freq = st.dev.int_freq /\ u.hw.tuner = st.hw.tuner
      /\ u.dev.direct_sampling = AutoDirect(st, f)
      /\ u.dev.direct_sampling # 0 => u.hw.if_freq = f /\ u.dev.freq = f
      /\ u.dev.direct_sampling = 0 =>
           /\ u.hw.if_freq = st.hw.if_freq
           /\ \/ u.dev.freq = f /\ HasTuner /\ u.hw.lo = (f - st.dev.offs_freq) + st.dev.int_freq
              \/ u.dev.freq = 0
  BY TuneSets DEF Tunable
<1>2. Planned(u)
  BY <1>1 DEF Tunable, Planned, SamePlan
<1>3. Mixes(u)
  BY <1>1 DEF Tunable, Mixes, IfAt, SamePlan
<1>4. Oscillates(u)
  BY <1>1 DEF Oscillates, SamePlan
<1> QED
  BY <1>1, <1>2, <1>3, <1>4 DEF Arrived, Tuned

(* Leaving direct sampling with an E4000 needs an offset of 0.             *)
LEMMA DirectOffTunable ==
    ASSUME TuningReliable, NEW st, Sound(st), Wired(st), Planned(st), st.dev.mode \in 0..2,
           tuner_type = "E4000" => st.dev.offs_freq = 0, NEW w \in DirectOff(st)
    PROVE  Tunable(w) /\ SamePlan(w, st)
<1>1. Switched(w, st, 0)
  BY DirectOffSwitches
<1>2. /\ SamePlan(w, st) /\ w.dev.freq = st.dev.freq /\ w.dev.direct_sampling = 0
      /\ w.hw.if_freq = (IF IsR82xx THEN R82XX_IF_FREQ ELSE 0)
      /\ HasTuner => w.hw.tuner = "on" /\ w.dev.int_freq = (IF IsR82xx THEN R82XX_IF_FREQ ELSE 0)
      /\ ~HasTuner => w.dev.int_freq = st.dev.int_freq
  BY DirectOffSets
<1>3. R82XX_IF_FREQ \in Nat
  BY SMT DEF R82XX_IF_FREQ
<1>4. Mixes(w)
  BY <1>2 DEF Mixes, IfAt, SamePlan, HasTuner, IsR82xx, Planned
<1>5. Planned(w)
  <2>1. w.dev.int_freq \in Nat /\ (~IsR82xx => w.dev.int_freq = 0)
    BY <1>2, <1>3 DEF Planned
  <2> QED
    BY <1>2, <2>1 DEF Planned, SamePlan
<1> QED
  BY <1>1, <1>2, <1>4, <1>5 DEF Tunable, Switched

(* A change of mode that a frequency asks for ends where tuning can start. *)
LEMMA SwitchTunable ==
    ASSUME TuningReliable, NEW st, Tunable(st), NEW f \in Freqs \cup {0}, NEW t \in Tune(st, f),
           t.dev.direct_sampling # st.dev.direct_sampling,
           NEW w \in IF t.dev.direct_sampling # 0 THEN DirectOn(t, t.dev.direct_sampling) ELSE DirectOff(t)
    PROVE  Tunable(w) /\ SamePlan(w, st)
<1>1. Tunes(t, st, f)
  BY TuneTunes DEF Tunable
<1>2. SamePlan(t, st) /\ t.dev.int_freq = st.dev.int_freq
  BY TuneSets DEF Tunable
<1>3. st.dev.mode = 0 /\ t.dev.mode = 0 /\ t.dev.direct_sampling = DirectFor(f)
  BY <1>1 DEF Tunes, AutoDirect, DirectFor
<1>4. t.dev.direct_sampling \in {0, 2} /\ Sound(t) /\ t.dev.mode \in 0..2
  BY <1>1, <1>3 DEF Tunes, DirectFor
<1>5. /\ Sound(w) /\ Matched(w)
  BY SwitchApplies DEF Tunable
<1>6. CASE t.dev.direct_sampling = 2
  <2>1. /\ SamePlan(w, t) /\ w.dev.int_freq = t.dev.int_freq /\ w.dev.freq = t.dev.freq
        /\ w.dev.direct_sampling = 2
    BY <1>4, <1>6, DirectOnSets
  <2>2. tuner_type = "R820T"
    BY <1>3, <1>6 DEF DirectFor
  <2>3. Planned(w)
    BY <1>1, <1>2, <2>1, <2>2 DEF Tunable, Planned, SamePlan, Tunes
  <2> QED
    BY <1>2, <1>5, <2>1, <2>3 DEF Tunable, Mixes, SamePlan
<1>7. CASE t.dev.direct_sampling = 0
  <2>1. w \in DirectOff(t)
    BY <1>7
  <2>2. tuner_type = "E4000" => st.dev.offs_freq = 0 /\ "set_direct_sampling" \in Calls["E4000"]
    BY <1>7 DEF Tunable, Planned
  <2>3. Planned(t)
    BY <1>1, <1>2, <2>2 DEF Tunable, Planned, SamePlan, Tunes
  <2>4. Wired(t)
    <3>1. Wired(st)
      BY Zenon DEF Tunable, Matched, Wired
    <3> QED
      BY <1>1, <3>1 DEF Tunes, Wired
  <2>5. Tunable(w) /\ SamePlan(w, t)
    BY <1>2, <1>4, <2>1, <2>2, <2>3, <2>4, DirectOffTunable DEF SamePlan
  <2> QED
    BY <1>2, <2>5 DEF SamePlan
<1> QED
  BY <1>4, <1>6, <1>7

(* The innermost call.                                                     *)
LEMMA Center1Arrives ==
    ASSUME TuningReliable, NEW st, Tunable(st), NEW f \in Freqs \cup {0},
           AutoDirect(st, f) = st.dev.direct_sampling, NEW u \in Center1(st, f)
    PROVE  Arrived(u, st)
<1>1. PICK t \in Tune(st, f) :
        u \in IF t.dev.direct_sampling = st.dev.direct_sampling THEN {t}
              ELSE SwitchDirect(t, t.dev.direct_sampling, TooDeep)
  BY DEF Center1, CenterWith
<1>2. t.dev.direct_sampling = st.dev.direct_sampling
  BY TuneTunes DEF Tunes, Tunable
<1> QED
  BY <1>1, <1>2, StaysArrived

(* The one around it.                                                      *)
LEMMA Center2Arrives ==
    ASSUME TuningReliable, NEW st, Tunable(st), NEW f \in Freqs \cup {0},
           AutoDirect(st, f) = st.dev.direct_sampling \/ f = 0,
           NEW u \in Center2(st, f)
    PROVE  Arrived(u, st)
<1>1. PICK t \in Tune(st, f) :
        u \in IF t.dev.direct_sampling = st.dev.direct_sampling THEN {t}
              ELSE SwitchDirect(t, t.dev.direct_sampling, Center1)
  BY DEF Center2, CenterWith
<1>2. CASE t.dev.direct_sampling = st.dev.direct_sampling
  BY <1>1, <1>2, StaysArrived
<1>3. CASE t.dev.direct_sampling # st.dev.direct_sampling
  <2>1. PICK w \in IF t.dev.direct_sampling # 0 THEN DirectOn(t, t.dev.direct_sampling) ELSE DirectOff(t) :
          \E x \in Center1(w, w.dev.freq) : u = [x EXCEPT !.r = x.r /\ w.r]
    BY <1>1, <1>3 DEF SwitchDirect, Then
  <2>2. PICK x \in Center1(w, w.dev.freq) : u = [x EXCEPT !.r = x.r /\ w.r]
    BY <2>1
  <2>3. Tunable(w) /\ SamePlan(w, st)
    BY <1>1, <1>3, <2>1, SwitchTunable
  <2>4. /\ Sound(w) /\ Matched(w) /\ w.dev.mode = 0
        /\ w.dev.freq \in {f, 0} /\ w.dev.direct_sampling = DirectFor(f)
    BY <1>1, <1>3, <2>1, SwitchApplies DEF Tunable
  <2>5. f = 0
    <3>1. Tunes(t, st, f)
      BY <1>1, TuneTunes DEF Tunable
    <3> QED
      BY <1>3, <3>1 DEF Tunes
  <2>6. AutoDirect(w, w.dev.freq) = w.dev.direct_sampling /\ w.dev.freq = 0
    BY <2>4, <2>5 DEF AutoDirect, DirectFor
  <2>7. Arrived(x, w) /\ Sound(x)
    BY <2>2, <2>3, <2>4, <2>6, Center1Arrives, Center1Centers DEF Centered, Fit
  <2>8. Stays(u, x)
    BY <2>2, <2>7, ResultStays
  <2> QED
    BY <2>3, <2>7, <2>8, StaysTuned DEF Arrived, SamePlan, Stays, SameDev
<1> QED
  BY <1>2, <1>3

(* rtlsdr_set_center_freq, wherever it is called from.                     *)
LEMMA CenterFreqArrives ==
    ASSUME TuningReliable, NEW st, Tunable(st), NEW f \in Freqs \cup {0},
           NEW u \in rtlsdr_set_center_freq(st, f)
    PROVE  Arrived(u, st)
<1>1. PICK t \in Tune(st, f) :
        u \in IF t.dev.direct_sampling = st.dev.direct_sampling THEN {t}
              ELSE SwitchDirect(t, t.dev.direct_sampling, Center2)
  BY DEF rtlsdr_set_center_freq, CenterWith
<1>2. CASE t.dev.direct_sampling = st.dev.direct_sampling
  BY <1>1, <1>2, StaysArrived
<1>3. CASE t.dev.direct_sampling # st.dev.direct_sampling
  <2>1. PICK w \in IF t.dev.direct_sampling # 0 THEN DirectOn(t, t.dev.direct_sampling) ELSE DirectOff(t) :
          \E x \in Center2(w, w.dev.freq) : u = [x EXCEPT !.r = x.r /\ w.r]
    BY <1>1, <1>3 DEF SwitchDirect, Then
  <2>2. PICK x \in Center2(w, w.dev.freq) : u = [x EXCEPT !.r = x.r /\ w.r]
    BY <2>1
  <2>3. Tunable(w) /\ SamePlan(w, st)
    BY <1>1, <1>3, <2>1, SwitchTunable
  <2>4. /\ Sound(w) /\ Matched(w) /\ w.dev.mode = 0
        /\ w.dev.freq \in {f, 0} /\ w.dev.direct_sampling = DirectFor(f)
    BY <1>1, <1>3, <2>1, SwitchApplies DEF Tunable
  <2>5. /\ AutoDirect(w, w.dev.freq) = w.dev.direct_sampling \/ w.dev.freq = 0
        /\ w.dev.freq \in Freqs \cup {0}
    BY <2>4 DEF AutoDirect, DirectFor
  <2>6. Arrived(x, w) /\ Sound(x)
    BY <2>2, <2>3, <2>4, <2>5, Center2Arrives, Center2Centers DEF Centered, Fit
  <2>7. Stays(u, x)
    BY <2>2, <2>6, ResultStays
  <2> QED
    BY <2>3, <2>6, <2>7, StaysTuned DEF Arrived, SamePlan, Stays, SameDev
<1> QED
  BY <1>2, <1>3

-----------------------------------------------------------------------------
(* The exported calls again, now for what the device is tuned to.          *)

(* What leaves the settings and the registers alone stays ready to tune.   *)
LEMMA StaysTunable ==
    ASSUME NEW st, Tunable(st), NEW u, Keeps(u, st), Stays(u, st)
    PROVE  Tunable(u)
<1>1. Planned(u)
  BY DEF Tunable, Planned, Stays, SameDev
<1>2. Mixes(u)
  BY DEF Tunable, Mixes, IfAt, Stays, SameDev, SameTuner
<1>3. Matched(u)
  BY DEF Tunable, Matched, Keeps
<1> QED
  BY <1>1, <1>2, <1>3 DEF Tunable, Keeps

(* A new filter moves the R82xx to another IF and retunes; with the other  *)
(* tuners it is only the filter.                                           *)
Moved(u, st) == IF IsR82xx THEN Arrived(u, st) ELSE Stays(u, st)

(* set_bw of the tuner.                                                    *)
LEMMA SetBwMoves ==
    ASSUME TuningReliable, NEW st, Tunable(st), st.hw.repeater = TRUE, NEW bw \in Nat,
           NEW u \in tuner_set_bw(st, bw)
    PROVE  Moved(u, st)
<1>1. Keeps(Access(st), st) /\ Stays(Access(st), st)
  BY AccessKeeps, AccessStays DEF Tunable
<1>2. CASE IsR82xx
  <2> DEFINE int == IntFreq(bw)
             a == Access(st)
             t == [a EXCEPT !.dev.int_freq = int]
             S == Fallible("set_bw", [t EXCEPT !.hw.filter = bw], [t EXCEPT !.hw.filter = Torn])
  <2>1. PICK v \in S : u \in IF ~v.r THEN {v}
                             ELSE UNION { IF ~w.r THEN {w} ELSE rtlsdr_set_center_freq(w, w.dev.freq)
                                        : w \in rtlsdr_set_if_freq(v, v.dev.int_freq) }
    BY <1>2 DEF tuner_set_bw
  <2>2. int \in Nat
    BY IntFreqNat
  <2> HIDE DEF int, a
  <2>3. v = [[t EXCEPT !.hw.filter = bw] EXCEPT !.r = TRUE]
    BY <2>1, OneOutcome DEF TuningReliable
  <2>4. /\ Keeps(v, a) /\ v.r /\ SamePlan(v, a) /\ v.dev.int_freq = int /\ v.hw.tuner = a.hw.tuner
    BY <1>1, <2>3 DEF a, Sound, Keeps, SamePlan, HwFields, DevFields
  <2> HIDE DEF t, S
  <2>5. PICK w \in rtlsdr_set_if_freq(v, v.dev.int_freq) :
          u \in IF ~w.r THEN {w} ELSE rtlsdr_set_center_freq(w, w.dev.freq)
    BY <2>1, <2>4
  <2>6. /\ SameDev(w, v) /\ w.r /\ w.hw.if_freq = int /\ w.hw.tuner = v.hw.tuner
    BY <2>4, <2>5, SetIfSets DEF Keeps
  <2>7. Keeps(w, v)
    BY <2>4, <2>5, SetIfKeeps DEF Keeps
  <2>8. /\ Keeps(w, st) /\ SamePlan(w, st) /\ w.dev.int_freq = int /\ w.hw.tuner = st.hw.tuner
    BY <1>1, <2>4, <2>6, <2>7 DEF a, Keeps, SamePlan, Stays, SameDev, SameTuner
  <2>9. Tunable(w)
    <3>1. Planned(w)
      BY <1>2, <2>2, <2>8 DEF Tunable, Planned, SamePlan, Keeps
    <3>2. Mixes(w)
      BY <1>2, <2>6, <2>8 DEF Tunable, Mixes, IfAt, Keeps
    <3>3. Matched(w)
      BY <2>8 DEF Tunable, Matched, Keeps
    <3> QED
      BY <2>8, <3>1, <3>2, <3>3 DEF Tunable, Keeps
  <2>10. u \in rtlsdr_set_center_freq(w, w.dev.freq) /\ w.dev.freq \in Freqs \cup {0}
    BY <2>5, <2>6, <2>9 DEF Tunable, Planned
  <2>11. Arrived(u, w)
    BY <2>9, <2>10, CenterFreqArrives
  <2> QED
    BY <1>2, <2>8, <2>11 DEF Moved, Arrived, SamePlan
<1>3. CASE ~IsR82xx
  <2> DEFINE a == Access(st)
  <2>1. u = [[a EXCEPT !.hw.filter = bw] EXCEPT !.r = TRUE]
    BY <1>3, OneOutcome DEF tuner_set_bw, TuningReliable
  <2> HIDE DEF a
  <2>2. Stays(u, a)
    BY <1>1, <2>1 DEF a, Sound, Keeps, Stays, SameDev, SameTuner, HwFields, DevFields
  <2> QED
    BY <1>1, <1>3, <2>2 DEF a, Moved, Stays, SameDev, SameTuner
<1> QED
  BY <1>2, <1>3

(* The same between switching the repeater on and off.                     *)
LEMMA ShapingMoves ==
    ASSUME TuningReliable, NEW st, Fit(st), Tunable(st), NEW bw \in Nat, NEW v \in Shaping(st, bw)
    PROVE  Moved(set_i2c_repeater(v, FALSE), st)
<1> DEFINE s == [st EXCEPT !.r = TRUE]
           on == set_i2c_repeater(s, TRUE)
           off == set_i2c_repeater(v, FALSE)
<1>1. Keeps(s, st) /\ Stays(s, st) /\ Sound(s)
  BY ResultKeeps, ResultStays DEF Fit, Keeps
<1> HIDE DEF s
<1>2. Keeps(on, s) /\ Stays(on, s) /\ on.hw.repeater = TRUE
  BY <1>1, RepeaterKeeps, RepeaterStays
<1> HIDE DEF on
<1>3. Tunable(on) /\ Fit(on)
  BY <1>1, <1>2, StaysTunable, KeepsFit
<1>4. v \in tuner_set_bw(on, bw)
  BY DEF Shaping, s, on
<1>5. Moved(v, on) /\ Sound(v)
  BY <1>2, <1>3, <1>4, SetBwMoves, SetBwFits DEF Fit
<1>6. Stays(off, v)
  BY <1>5, RepeaterStays
<1> HIDE DEF off
<1>7. CASE IsR82xx
  <2>1. Tuned(off)
    BY <1>5, <1>6, <1>7, StaysTuned DEF Moved, Arrived
  <2> QED
    BY <1>1, <1>2, <1>5, <1>6, <1>7, <2>1 DEF off, Moved, Arrived, SamePlan, Stays, SameDev
<1>8. CASE ~IsR82xx
  BY <1>1, <1>2, <1>5, <1>6, <1>8 DEF off, Moved, Stays, SameDev, SameTuner
<1> QED
  BY <1>7, <1>8

(* What moved is tuned, if what it moved from was.                         *)
LEMMA MovedTuned ==
    ASSUME NEW st, Tuned(st), NEW u, Moved(u, st)
    PROVE  Tuned(u) /\ SamePlan(u, st)
BY StaysTuned DEF Moved, Arrived, Stays, SameDev, SamePlan

-----------------------------------------------------------------------------
(* The largest offset is 85 % of the highest rate.                         *)
LEMMA OffsetBound ==
    ASSUME NEW rate \in Nat, rate <= MaxRate
    PROVE  /\ ((rate \div 2) * 170) \div 100 \in Nat
           /\ ((rate \div 2) * 170) \div 100 <= MaxOffset
<1>1. rate \div 2 \in Nat /\ (rate \div 2) <= 1600000
  BY SMT DEF MaxRate
<1> DEFINE h == rate \div 2
<1> HIDE DEF h
<1>2. h \in Nat /\ h <= 1600000
  BY <1>1 DEF h
<1>3. (h * 170) \div 100 \in Nat /\ ((h * 170) \div 100) <= 2720000
  BY <1>2, SMT
<1> QED
  BY <1>3 DEF h, MaxOffset

(* rtlsdr_set_offset_tuning: the IF register, the oscillator and the       *)
(* offset move together.                                                   *)
LEMMA OffsetTuningTunes ==
    ASSUME TuningReliable, OffsetTuningUsable, NEW st, Fit(st), Tuned(st), NEW on \in BOOLEAN,
           tuner_type \in TunerTypes, Freqs \subseteq Nat,
           tuner_type = "E4000" => "set_direct_sampling" \notin Calls["E4000"],
           NEW u \in rtlsdr_set_offset_tuning(st, on)
    PROVE  Tuned(u)
<1>1. CASE IsR82xx
  <2>1. u = [SetBiasTee(st, 0, on) EXCEPT !.r = FALSE]
    BY <1>1 DEF rtlsdr_set_offset_tuning, Refuse
  <2>2. Stays(u, st)
    BY <2>1 DEF SetBiasTee, Fit, Sound, Stays, SameDev, SameTuner, HwFields, DevFields
  <2> QED
    BY <2>2, StaysTuned
<1>2. CASE ~IsR82xx /\ st.dev.direct_sampling # 0
  BY <1>2, ResultStays, StaysTuned DEF rtlsdr_set_offset_tuning, Refuse, Fit
<1>3. CASE ~IsR82xx /\ st.dev.direct_sampling = 0
  <2> DEFINE offs == IF on THEN ((st.dev.rate \div 2) * 170) \div 100 ELSE 0
             bw == IF on THEN 2 * offs ELSE Width(st, st.dev.bw)
             t == [st EXCEPT !.dev.offs_freq = offs]
             moved == rtlsdr_set_if_freq(t, offs)
             shaped == UNION { { [x EXCEPT !.r = m.r]
                               : x \in WithRepeater(m, LAMBDA v : tuner_set_bw(v, bw)) } : m \in moved }
  <2>1. u \in IF st.dev.freq > offs
              THEN Then(shaped, LAMBDA x : rtlsdr_set_center_freq(x, x.dev.freq)) ELSE shaped
    BY <1>3 DEF rtlsdr_set_offset_tuning
  <2>2. offs \in Nat /\ offs <= MaxOffset
    <3>1. st.dev.rate \in Nat /\ st.dev.rate <= MaxRate
      BY DEF Tuned, Planned
    <3>2. 0 <= MaxOffset
      BY SMT DEF MaxOffset
    <3> QED
      BY <3>1, <3>2, OffsetBound
  <2>3. bw \in Nat
    <3> HIDE DEF offs
    <3>1. st.dev.rate \in Nat /\ st.dev.bw \in Nat
      BY DEF Tuned, Planned
    <3> QED
      BY <2>2, <3>1 DEF Width
  <2> HIDE DEF offs, bw
  <2>4. Keeps(t, st) /\ Fit(t) /\ Sound(t)
    <3>1. Keeps(t, st)
      BY DEF Fit, Sound, Keeps, HwFields, DevFields
    <3> QED
      BY <3>1, KeepsFit DEF Fit
  <2>5. /\ t.dev.bw = st.dev.bw /\ t.dev.rtl_xtal = st.dev.rtl_xtal /\ t.dev.rate = st.dev.rate
        /\ t.dev.int_freq = st.dev.int_freq /\ t.dev.offs_freq = offs /\ t.hw = st.hw
    BY DEF Fit, Sound, DevFields
  <2> HIDE DEF t
  (* The IF register is at the new offset, the oscillator not yet.         *)
  <2>6. ASSUME NEW m \in moved PROVE Tunable(m) /\ Fit(m) /\ m.dev.freq = st.dev.freq
    <3>1. Keeps(m, t) /\ Fit(m)
      BY <2>4, <2>6, SetIfKeeps, KeepsFit
    <3>2. /\ SameDev(m, t) /\ m.hw.if_freq = offs /\ m.hw.tuner = t.hw.tuner
      BY <2>4, <2>6, SetIfSets
    <3>3. Planned(m)
      BY <1>3, <2>2, <2>4, <2>5, <3>2 DEF Tuned, Planned, SameDev, Keeps
    <3>4. Mixes(m)
      BY <1>3, <2>4, <2>5, <3>2 DEF Tuned, Mixes, IfAt, SameDev, Keeps
    <3> QED
      BY <2>4, <3>1, <3>2, <3>3, <3>4 DEF Tunable, Fit, SameDev, Keeps
  <2> HIDE DEF moved
  <2>7. ASSUME NEW y \in shaped PROVE Tunable(y) /\ Fit(y) /\ y.dev.freq = st.dev.freq
    <3>1. PICK m \in moved : \E x \in WithRepeater(m, LAMBDA v : tuner_set_bw(v, bw)) : y = [x EXCEPT !.r = m.r]
      BY <2>7
    <3>2. PICK x \in WithRepeater(m, LAMBDA v : tuner_set_bw(v, bw)) : y = [x EXCEPT !.r = m.r]
      BY <3>1
    <3>3. Tunable(m) /\ Fit(m) /\ Sound(m) /\ m.dev.freq = st.dev.freq
      BY <2>6 DEF Fit
    <3>4. Stays(x, m) /\ Fit(x) /\ Sound(x)
      <4>1. CASE HasTuner
        <5>1. PICK v \in Shaping(m, bw) : x = set_i2c_repeater(v, FALSE)
          BY <3>2, <4>1 DEF WithRepeater, Write, Shaping
        <5>2. Moved(x, m) /\ Fit(x)
          BY <2>3, <3>3, <5>1, ShapingMoves, ShapingFits
        <5> QED
          BY <1>3, <5>2 DEF Moved, Fit
      <4>2. CASE ~HasTuner
        <5>1. x = [m EXCEPT !.r = TRUE]
          BY <3>2, <4>2 DEF WithRepeater
        <5> QED
          BY <3>3, <5>1, ResultStays, ResultKeeps, KeepsFit DEF Fit
      <4> QED
        BY <4>1, <4>2
    <3>5. Stays(y, x) /\ Keeps(y, x) /\ Fit(y)
      BY <3>2, <3>4, ResultStays, ResultKeeps, KeepsFit
    <3>6. Stays(y, m)
      BY <3>4, <3>5 DEF Stays, SameDev, SameTuner
    <3>7. Planned(y)
      BY <3>3, <3>6 DEF Tunable, Planned, Stays, SameDev
    <3>8. Mixes(y)
      BY <3>3, <3>6 DEF Tunable, Mixes, IfAt, Stays, SameDev, SameTuner
    <3> QED
      BY <3>3, <3>5, <3>6, <3>7, <3>8 DEF Tunable, Fit, Stays, SameDev
  <2> HIDE DEF shaped
  <2>8. CASE st.dev.freq > offs
    <3>1. PICK y \in shaped : \E x \in rtlsdr_set_center_freq(y, y.dev.freq) : u = [x EXCEPT !.r = x.r /\ y.r]
      BY <2>1, <2>8 DEF Then
    <3>2. PICK x \in rtlsdr_set_center_freq(y, y.dev.freq) : u = [x EXCEPT !.r = x.r /\ y.r]
      BY <3>1
    <3>3. Tunable(y) /\ Fit(y) /\ y.dev.freq \in Freqs \cup {0}
      BY <2>7 DEF Tunable, Planned
    <3>4. Arrived(x, y) /\ Sound(x)
      BY <3>2, <3>3, CenterFreqArrives, RetuneFits DEF Fit
    <3> QED
      BY <3>2, <3>4, ResultStays, StaysTuned DEF Arrived
  <2>9. CASE ~(st.dev.freq > offs)
    <3>1. u \in shaped
      BY <2>1, <2>9
    <3>2. st.dev.freq = 0
      <4>1. CASE tuner_type = "E4000"
        <5>1. st.dev.freq \in Nat /\ (st.dev.freq = 0 \/ st.dev.freq > MaxOffset)
          BY <4>1 DEF Tuned, Planned, OffsetTuningUsable
        <5>2. MaxOffset \in Nat
          BY SMT DEF MaxOffset
        <5> QED
          BY <2>2, <2>9, <5>1, <5>2
      <4>2. CASE tuner_type # "E4000"
        <5>1. ~HasTuner
          BY <1>3, <4>2 DEF Tuned, Planned, HasTuner, IsR82xx
        <5> QED
          BY <1>3, <5>1 DEF Tuned, Oscillates
      <4> QED
        BY <4>1, <4>2
    <3> QED
      BY <2>7, <3>1, <3>2 DEF Tunable, Tuned, Oscillates
  <2> QED
    BY <2>8, <2>9
<1> QED
  BY <1>1, <1>2, <1>3

(* What the calls are proved under: nothing fails that tuning depends on,  *)
(* rates are kept, and offset tuning is used as it can be.                 *)
Usable == TuningReliable /\ RatesAreReached /\ OffsetTuningUsable

(* What the library can be in between two calls.                           *)
Ready(st) == Fit(st) /\ Tuned(st) /\ tuner_type \in TunerTypes

(* Small steps keep it.                                                    *)
LEMMA ReadyStays ==
    ASSUME NEW st, Ready(st), NEW u, Keeps(u, st), Stays(u, st)
    PROVE  Ready(u)
BY KeepsFit, StaysTuned DEF Ready

(* The result alone.                                                       *)
LEMMA ReadyResult ==
    ASSUME NEW st, Ready(st), NEW b
    PROVE  Ready([st EXCEPT !.r = b])
BY ResultKeeps, ResultStays, ReadyStays DEF Ready, Fit

(* The repeater alone.                                                     *)
LEMMA ReadyRepeater ==
    ASSUME NEW st, Ready(st), NEW on
    PROVE  Ready(set_i2c_repeater(st, on))
BY RepeaterKeeps, RepeaterStays, ReadyStays DEF Ready, Fit

(* Retuning.                                                               *)
LEMMA ReadyRetune ==
    ASSUME Usable, NEW st, Ready(st), NEW f \in Freqs \cup {0}, NEW u \in rtlsdr_set_center_freq(st, f)
    PROVE  Ready(u)
<1>1. Tunable(st)
  BY DEF Ready, Fit, Tunable, Tuned
<1> QED
  BY <1>1, CenterFreqArrives, RetuneFits DEF Ready, Arrived, Usable

(* A new filter.                                                           *)
LEMMA ReadyShaping ==
    ASSUME Usable, NEW st, Ready(st), NEW bw \in Nat, NEW v \in Shaping(st, bw)
    PROVE  /\ Ready(set_i2c_repeater(v, FALSE))
           /\ SamePlan(set_i2c_repeater(v, FALSE), st)
<1>1. Tunable(st) /\ Fit(st)
  BY DEF Ready, Fit, Tunable, Tuned
<1>2. Moved(set_i2c_repeater(v, FALSE), st)
  BY <1>1, ShapingMoves DEF Usable
<1> QED
  BY <1>1, <1>2, MovedTuned, ShapingFits DEF Ready

(* rtlsdr_set_offset_tuning.                                               *)
LEMMA ReadyOffsetTuning ==
    ASSUME Usable, NEW st, Ready(st), NEW on \in BOOLEAN,
           tuner_type = "E4000" => "set_direct_sampling" \notin Calls["E4000"],
           NEW u \in rtlsdr_set_offset_tuning(st, on)
    PROVE  Ready(u)
<1>1. Freqs \subseteq Nat
  BY DeviceAssumption
<1> QED
  BY <1>1, OffsetTuningTunes, OffsetTuningFits DEF Ready, Usable

(* rtlsdr_set_sample_rate: the offset follows the rate.                    *)
LEMMA ReadySampleRate ==
    ASSUME Usable, NEW st, Ready(st), NEW samp_rate \in Rates,
           NEW u \in rtlsdr_set_sample_rate(st, samp_rate)
    PROVE  Ready(u)
<1>1. CASE ~RateSupported(samp_rate)
  BY <1>1, ReadyResult DEF rtlsdr_set_sample_rate, Refuse
<1>2. CASE RateSupported(samp_rate)
  <2> DEFINE rate == real_rate(st.dev.rtl_xtal, samp_rate)
             t == [st EXCEPT !.dev.rate = rate]
             shaped == WithRepeater(t, LAMBDA x : tuner_set_bw(x, Width(x, x.dev.bw)))
             reset == Write(shaped, LAMBDA x : set_i2c_repeater(x, FALSE))
  <2>1. PICK y \in UNION { IF x.dev.offs_freq # 0 THEN rtlsdr_set_offset_tuning(x, TRUE) ELSE {x} : x \in reset } :
          u = Succeed(y)
    BY <1>2 DEF rtlsdr_set_sample_rate, Write
  <2>2. PICK x \in reset : y \in IF x.dev.offs_freq # 0 THEN rtlsdr_set_offset_tuning(x, TRUE) ELSE {x}
    BY <2>1
  <2>3. PICK w \in shaped : x = set_i2c_repeater(w, FALSE)
    BY <2>2 DEF Write
  <2>4. rate \in Rates /\ rate \in Nat /\ rate <= MaxRate
    <3>1. IsCrystal(st.dev.rtl_xtal) /\ st.dev.rtl_xtal \in Crystals
      BY DEF Ready, Tuned, Planned
    <3>2. rate = samp_rate
      <4> DEFINE x0 == st.dev.rtl_xtal
      <4>1. ResamplerReaches(x0, samp_rate)
        BY <1>2, <3>1 DEF Usable, RatesAreReached
      <4>2. x0 \in Nat /\ x0 >= LeastXtal
        BY <3>1, SMT DEF IsCrystal, LeastXtal, DEF_RTL_XTAL_FREQ
      <4>3. samp_rate \in Nat
        BY DeviceAssumption
      <4> HIDE DEF x0
      <4>4. real_rate(x0, samp_rate) = samp_rate
        BY <1>2, <4>1, <4>2, <4>3, RateIsKept
      <4> QED
        BY <4>4 DEF x0
    <3>3. samp_rate \in Nat /\ samp_rate <= 3200000
      BY <1>2, DeviceAssumption DEF RateSupported
    <3> HIDE DEF rate
    <3> QED
      BY <3>2, <3>3, SMT DEF MaxRate
  <2> HIDE DEF rate, reset
  <2>5. Ready(t)
    <3>1. Keeps(t, st)
      BY DEF Ready, Fit, Sound, Keeps, HwFields, DevFields
    <3>2. /\ t.dev.freq = st.dev.freq /\ t.dev.bw = st.dev.bw /\ t.dev.rtl_xtal = st.dev.rtl_xtal
          /\ t.dev.rate = rate /\ t.dev.int_freq = st.dev.int_freq
          /\ t.dev.offs_freq = st.dev.offs_freq /\ t.dev.mode = st.dev.mode
          /\ t.dev.direct_sampling = st.dev.direct_sampling /\ t.hw = st.hw
      BY DEF Ready, Fit, Sound, DevFields
    <3> HIDE DEF t
    <3>3. Planned(t)
      BY <2>4, <3>2 DEF Ready, Tuned, Planned
    <3>4. Mixes(t) /\ Oscillates(t)
      BY <3>2 DEF Ready, Tuned, Mixes, IfAt, Oscillates
    <3> QED
      BY <3>1, <3>3, <3>4, KeepsFit DEF Ready, Tuned
  <2>6. Ready(w)
    <3> HIDE DEF t
    <3>1. CASE HasTuner
      <4> DEFINE s == [t EXCEPT !.r = TRUE]
                 on == set_i2c_repeater(s, TRUE)
                 width == Width(on, on.dev.bw)
      <4>1. PICK v \in Shaping(t, width) : w = set_i2c_repeater(v, FALSE)
        BY <2>3, <3>1 DEF WithRepeater, Write, Shaping
      <4>2. Ready(s)
        BY <2>5, ReadyResult
      <4> HIDE DEF s
      <4>3. Ready(on)
        BY <4>2, ReadyRepeater
      <4> HIDE DEF on
      <4>4. width \in Nat
        BY <4>3 DEF Width, Ready, Tuned, Planned
      <4> HIDE DEF width
      <4> QED
        BY <2>5, <4>1, <4>4, ReadyShaping
    <3>2. CASE ~HasTuner
      BY <2>3, <2>5, <3>2, ReadyResult DEF WithRepeater
    <3> QED
      BY <3>1, <3>2
  <2> HIDE DEF shaped
  <2>7. Ready(x)
    BY <2>3, <2>6, ReadyRepeater
  <2>8. Ready(y)
    <3>1. CASE x.dev.offs_freq # 0
      <4>1. tuner_type = "E4000" => "set_direct_sampling" \notin Calls["E4000"]
        BY <2>7, <3>1 DEF Ready, Tuned, Planned
      <4> QED
        BY <2>2, <2>7, <3>1, <4>1, ReadyOffsetTuning
    <3>2. CASE x.dev.offs_freq = 0
      BY <2>2, <2>7, <3>2
    <3> QED
      BY <3>1, <3>2
  <2> QED
    BY <2>1, <2>8, ReadyResult DEF Succeed
<1> QED
  BY <1>1, <1>2

(* rtlsdr_set_freq_correction.                                             *)
LEMMA ReadyFreqCorrection ==
    ASSUME Usable, NEW st, Ready(st), NEW ppm, NEW u \in rtlsdr_set_freq_correction(st, ppm)
    PROVE  Ready(u)
<1> DEFINE t == [st EXCEPT !.dev.corr = ppm, !.dev.clock = << st.dev.tun_xtal, ppm >>, !.r = TRUE]
<1>1. Keeps(t, st) /\ Stays(t, st)
  BY DEF Ready, Fit, Sound, Keeps, Stays, SameDev, SameTuner, HwFields, DevFields
<1>2. \/ u = [st EXCEPT !.r = FALSE]
      \/ u = t
      \/ u \in rtlsdr_set_center_freq(t, t.dev.freq)
  BY DEF rtlsdr_set_freq_correction, Refuse
<1> HIDE DEF t
<1>3. Ready(t) /\ t.dev.freq \in Freqs \cup {0}
  BY <1>1, ReadyStays DEF Ready, Tuned, Planned
<1> QED
  BY <1>2, <1>3, ReadyResult, ReadyRetune

(* rtlsdr_set_xtal_freq: the crystal stays one the library accepts.        *)
LEMMA ReadyXtalFreq ==
    ASSUME Usable, NEW st, Ready(st), NEW rtl \in Xtals \cup {0}, NEW tun, NEW u \in rtlsdr_set_xtal_freq(st, rtl, tun)
    PROVE  Ready(u)
<1> DEFINE x0 == IF rtl > 0 THEN rtl ELSE st.dev.rtl_xtal
           t == Succeed([st EXCEPT !.dev.rtl_xtal = IF rtl > 0 THEN rtl ELSE @])
           rated == IF t.dev.rtl_xtal # st.dev.rtl_xtal /\ st.dev.rate # 0
                    THEN rtlsdr_set_sample_rate(t, t.dev.rate) ELSE {t}
           xtal(x) == IF tun = 0 THEN x.dev.rtl_xtal ELSE tun
           new(x) == [x EXCEPT !.dev.tun_xtal = xtal(x), !.dev.clock = << xtal(x), x.dev.corr >>]
           retune(x) == IF new(x).dev.freq # 0 THEN rtlsdr_set_center_freq(new(x), new(x).dev.freq) ELSE {new(x)}
           wrong == rtl > 0 /\ (rtl < DEF_RTL_XTAL_FREQ - 1000 \/ rtl > DEF_RTL_XTAL_FREQ + 1000)
<1>1. CASE wrong
  <2>1. u = [st EXCEPT !.r = FALSE]
    BY <1>1 DEF rtlsdr_set_xtal_freq, Refuse
  <2> HIDE DEF wrong
  <2> QED
    BY <2>1, ReadyResult
<1>2. CASE ~wrong
  <2>1. PICK x \in rated : u \in IF x.dev.tun_xtal # tun THEN retune(x) ELSE {x}
    <3>1. u \in UNION { IF x.dev.tun_xtal # tun THEN retune(x) ELSE {x} : x \in rated }
      BY <1>2 DEF rtlsdr_set_xtal_freq
    <3> HIDE DEF rated, retune
    <3> QED
      BY <3>1
  <2>2. Ready(t)
    <3>1. Keeps(t, st)
      BY DEF Ready, Fit, Sound, Keeps, HwFields, DevFields, Succeed
    <3>2. /\ t.dev.freq = st.dev.freq /\ t.dev.bw = st.dev.bw /\ t.dev.rtl_xtal = x0
          /\ t.dev.rate = st.dev.rate /\ t.dev.int_freq = st.dev.int_freq
          /\ t.dev.offs_freq = st.dev.offs_freq /\ t.dev.mode = st.dev.mode
          /\ t.dev.direct_sampling = st.dev.direct_sampling /\ t.hw = st.hw
      BY DEF Ready, Fit, Sound, DevFields, Succeed
    <3>3. IsCrystal(x0) /\ x0 \in Crystals
      <4>1. IsCrystal(st.dev.rtl_xtal) /\ st.dev.rtl_xtal \in Crystals
        BY DEF Ready, Tuned, Planned
      <4>2. rtl \in Nat
        BY DeviceAssumption
      <4>3. rtl > 0 => rtl \in Crystals
        BY <4>2 DEF Crystals
      <4>4. rtl > 0 => IsCrystal(rtl)
        BY <1>2, <4>2, SMT DEF IsCrystal, DEF_RTL_XTAL_FREQ
      <4> QED
        BY <4>1, <4>3, <4>4
    <3> HIDE DEF t, x0
    <3>4. Planned(t)
      BY <3>2, <3>3 DEF Ready, Tuned, Planned
    <3>5. Mixes(t) /\ Oscillates(t)
      BY <3>2 DEF Ready, Tuned, Mixes, IfAt, Oscillates
    <3> QED
      BY <3>1, <3>4, <3>5, KeepsFit DEF Ready, Tuned
  <2> HIDE DEF t
  <2>3. Ready(x)
    <3>1. t.dev.rate \in Rates \cup {0} /\ t.dev.rate = st.dev.rate
      <4>1. t.dev.rate = st.dev.rate
        BY DEF t, Ready, Fit, Sound, DevFields, Succeed
      <4> QED
        BY <2>2, <4>1 DEF Ready, Tuned, Planned
    <3> QED
      BY <2>1, <2>2, <3>1, ReadySampleRate
  <2>4. Keeps(new(x), x) /\ Stays(new(x), x)
    BY <2>3 DEF Ready, Fit, Sound, Keeps, Stays, SameDev, SameTuner, HwFields, DevFields
  <2> HIDE DEF new
  <2>5. Ready(new(x)) /\ new(x).dev.freq \in Freqs \cup {0}
    BY <2>3, <2>4, ReadyStays DEF Ready, Tuned, Planned
  <2> QED
    BY <2>1, <2>3, <2>5, ReadyRetune
<1> QED
  BY <1>1, <1>2

(* rtlsdr_set_tuner_bandwidth.                                             *)
LEMMA ReadyTunerBandwidth ==
    ASSUME Usable, NEW st, Ready(st), NEW bw \in Nat, NEW u \in rtlsdr_set_tuner_bandwidth(st, bw)
    PROVE  Ready(u)
<1>1. CASE ~HasTuner
  BY <1>1, ReadyResult DEF rtlsdr_set_tuner_bandwidth, Succeed
<1>2. CASE HasTuner
  <2> DEFINE s == [st EXCEPT !.r = TRUE]
             on == set_i2c_repeater(s, TRUE)
             width == Width(on, bw)
  <2>1. PICK v \in Shaping(st, width) :
          \E x : x = set_i2c_repeater(v, FALSE) /\ u = IF x.r THEN [x EXCEPT !.dev.bw = bw] ELSE x
    BY <1>2 DEF rtlsdr_set_tuner_bandwidth, Write, WithRepeater, Shaping
  <2>2. PICK x : x = set_i2c_repeater(v, FALSE) /\ u = IF x.r THEN [x EXCEPT !.dev.bw = bw] ELSE x
    BY <2>1
  <2>3. Ready(s)
    BY ReadyResult
  <2> HIDE DEF s
  <2>4. Ready(on)
    BY <2>3, ReadyRepeater
  <2> HIDE DEF on
  <2>5. width \in Nat
    BY <2>4 DEF Width, Ready, Tuned, Planned
  <2> HIDE DEF width
  <2>6. Ready(x)
    BY <2>1, <2>2, <2>5, ReadyShaping
  <2>7. CASE u = x
    BY <2>6, <2>7
  <2>8. CASE u = [x EXCEPT !.dev.bw = bw]
    <3>1. Keeps(u, x)
      BY <2>6, <2>8 DEF Ready, Fit, Sound, Keeps, HwFields, DevFields
    <3>2. /\ u.dev.freq = x.dev.freq /\ u.dev.bw = bw /\ u.dev.rtl_xtal = x.dev.rtl_xtal
          /\ u.dev.rate = x.dev.rate /\ u.dev.int_freq = x.dev.int_freq
          /\ u.dev.offs_freq = x.dev.offs_freq /\ u.dev.mode = x.dev.mode
          /\ u.dev.direct_sampling = x.dev.direct_sampling /\ u.hw = x.hw
      BY <2>6, <2>8 DEF Ready, Fit, Sound, DevFields
    <3>3. Planned(u)
      BY <2>6, <3>2 DEF Ready, Tuned, Planned
    <3>4. Mixes(u) /\ Oscillates(u)
      BY <2>6, <3>2 DEF Ready, Tuned, Mixes, IfAt, Oscillates
    <3> QED
      BY <2>6, <3>1, <3>3, <3>4, KeepsFit DEF Ready, Tuned
  <2> QED
    BY <2>2, <2>7, <2>8
<1> QED
  BY <1>1, <1>2

(* The gain calls leave the frequency alone.                               *)
LEMMA ReadySetGain ==
    ASSUME NEW st, Ready(st), NEW g, NEW v \in tuner_set_gain(set_i2c_repeater(st, TRUE), g)
    PROVE  Ready(v)
<1> DEFINE on == set_i2c_repeater(st, TRUE)
           a == Access(on)
<1>1. Ready(on) /\ on.hw.repeater = TRUE /\ Sound(on)
  BY ReadyRepeater, RepeaterKeeps DEF Ready, Fit
<1>2. \/ v = [[a EXCEPT !.hw.gain = g] EXCEPT !.r = TRUE]
      \/ v = [[a EXCEPT !.hw.gain = Torn] EXCEPT !.r = FALSE]
  BY Outcomes DEF tuner_set_gain
<1> HIDE DEF on
<1>3. Keeps(a, on) /\ Stays(a, on) /\ Sound(a)
  BY <1>1, AccessKeeps, AccessStays DEF Keeps
<1>4. Ready(a)
  BY <1>1, <1>3, ReadyStays
<1> HIDE DEF a
<1>5. CASE v = [[a EXCEPT !.hw.gain = g] EXCEPT !.r = TRUE]
  <2>1. Keeps(v, a) /\ Stays(v, a)
    BY <1>3, <1>5 DEF Sound, Keeps, Stays, SameDev, SameTuner, HwFields, DevFields
  <2> QED
    BY <1>4, <2>1, ReadyStays
<1>6. CASE v = [[a EXCEPT !.hw.gain = Torn] EXCEPT !.r = FALSE]
  <2>1. Keeps(v, a) /\ Stays(v, a)
    BY <1>3, <1>6 DEF Sound, Keeps, Stays, SameDev, SameTuner, HwFields, DevFields
  <2> QED
    BY <1>4, <2>1, ReadyStays
<1> QED
  BY <1>2, <1>5, <1>6

(* rtlsdr_set_tuner_gain.                                                  *)
LEMMA ReadyTunerGain ==
    ASSUME NEW st, Ready(st), NEW g, NEW u \in rtlsdr_set_tuner_gain(st, g)
    PROVE  Ready(u)
<1>1. PICK v \in IF HasTuner THEN tuner_set_gain(set_i2c_repeater(st, TRUE), g) ELSE { Succeed(st) } :
        u = [v EXCEPT !.dev.gain = IF v.r THEN g ELSE 0]
  BY DEF rtlsdr_set_tuner_gain, Write
<1>2. Ready(v)
  BY <1>1, ReadySetGain, ReadyResult DEF Succeed
<1>3. Keeps(u, v) /\ Stays(u, v)
  BY <1>1, <1>2 DEF Ready, Fit, Sound, Keeps, Stays, SameDev, SameTuner, HwFields, DevFields
<1> QED
  BY <1>2, <1>3, ReadyStays

(* rtlsdr_set_tuner_gain_mode.                                             *)
LEMMA ReadyGainMode ==
    ASSUME NEW st, Ready(st), NEW manual, NEW u \in rtlsdr_set_tuner_gain_mode(st, manual)
    PROVE  Ready(u)
BY ReadySetGain, ReadyResult DEF rtlsdr_set_tuner_gain_mode, Succeed

(* The program chooses the sampling mode: afterwards the IF register is at *)
(* the frequency, or the tuner was started afresh and retuned.  With an    *)
(* E4000 this needs an offset of 0.                                        *)
LEMMA ReadyDirectSampling ==
    ASSUME Usable, NEW st, Fit(st), Planned(st), tuner_type \in TunerTypes,
           tuner_type = "E4000" => "set_direct_sampling" \in Calls["E4000"],
           NEW on \in 0..2, NEW u \in rtlsdr_set_direct_sampling(st, on)
    PROVE  Ready(u)
<1> DEFINE t == [st EXCEPT !.dev.mode = on]
<1>1. PICK w \in IF on # 0 THEN DirectOn(t, on) ELSE DirectOff(t) :
        \E x \in rtlsdr_set_center_freq(w, w.dev.freq) : u = [x EXCEPT !.r = x.r /\ w.r]
  BY DEF rtlsdr_set_direct_sampling, SwitchDirect, Then
<1>2. PICK x \in rtlsdr_set_center_freq(w, w.dev.freq) : u = [x EXCEPT !.r = x.r /\ w.r]
  BY <1>1
<1>3. /\ Sound(t) /\ t.dev.mode = on /\ t.hw = st.hw
      /\ t.dev.freq = st.dev.freq /\ t.dev.bw = st.dev.bw /\ t.dev.rtl_xtal = st.dev.rtl_xtal
      /\ t.dev.rate = st.dev.rate /\ t.dev.int_freq = st.dev.int_freq
      /\ t.dev.offs_freq = st.dev.offs_freq
  BY DEF Fit, Sound, HwFields, DevFields
<1>4. Wired(t)
  <2>1. Wired(st)
    BY Zenon DEF Fit, Matched, Wired
  <2> QED
    BY <1>3, <2>1 DEF Wired
<1> HIDE DEF t
<1>5. Planned(t)
  BY <1>3 DEF Planned
<1>6. Tunable(w)
  <2>1. CASE on = 0
    <3>1. tuner_type = "E4000" => t.dev.offs_freq = 0
      BY <1>5 DEF Planned
    <3> QED
      BY <1>1, <1>3, <1>4, <1>5, <2>1, <3>1, DirectOffTunable DEF Usable
  <2>2. CASE on \in 1..2
    <3>1. Switched(w, t, on)
      BY <1>1, <1>3, <2>2, DirectOnSwitches
    <3>2. /\ SamePlan(w, t) /\ w.dev.int_freq = t.dev.int_freq /\ w.dev.freq = t.dev.freq
          /\ w.dev.direct_sampling = on
      BY <1>1, <1>3, <2>2, DirectOnSets
    <3>3. Planned(w)
      BY <1>5, <3>2 DEF Planned, SamePlan
    <3> QED
      BY <2>2, <3>1, <3>2, <3>3 DEF Tunable, Mixes, Switched
  <2> QED
    BY <2>1, <2>2
<1>7. w.dev.freq \in Freqs \cup {0}
  BY <1>6 DEF Tunable, Planned
<1>8. Arrived(x, w) /\ Fit(x)
  BY <1>2, <1>6, <1>7, CenterFreqArrives, CenterFreqCenters DEF Tunable, Centered, Usable
<1>9. Ready(x)
  BY <1>8 DEF Ready, Arrived
<1> QED
  BY <1>2, <1>9, ReadyResult

-----------------------------------------------------------------------------
(* Opening: nothing is tuned yet, and the tuner is running.                *)

(* What the settings are before the tuner is initialised.                  *)
Fresh(st) ==
    /\ Planned(st) /\ st.dev.freq = 0 /\ st.dev.offs_freq = 0
    /\ HasTuner => st.dev.direct_sampling = 0 /\ st.hw.if_freq = (IF IsR82xx THEN R82XX_IF_FREQ ELSE 0)

(* What probing leaves, as far as tuning is concerned.                     *)
LEMMA ProbedIsPlanned ==
    ASSUME NEW b, NEW p, p = [Probed EXCEPT !.hw.ir_bit = b], tuner_type \in TunerTypes
    PROVE  /\ Planned(p) /\ p.dev.freq = 0 /\ p.dev.offs_freq = 0 /\ p.dev.direct_sampling = 0
           /\ p.hw.if_freq = 0
<1>1. /\ p.dev.freq = 0 /\ p.dev.offs_freq = 0 /\ p.dev.direct_sampling = 0 /\ p.hw.if_freq = 0
      /\ p.dev.bw = 0 /\ p.dev.rate = 0 /\ p.dev.int_freq = 0 /\ p.dev.mode = 0
      /\ p.dev.rtl_xtal = DEF_RTL_XTAL_FREQ /\ DEF_RTL_XTAL_FREQ \in Crystals
  BY DEF Probed, Crystals
<1>2. 0 <= MaxRate /\ 0 <= MaxOffset /\ IsCrystal(DEF_RTL_XTAL_FREQ)
  BY SMT DEF MaxRate, MaxOffset, IsCrystal, DEF_RTL_XTAL_FREQ
<1>3. tuner_type \in {"R820T", "R828D", "E4000", "UNKNOWN"}
  BY DeviceAssumption
<1> QED
  BY <1>1, <1>2, <1>3 DEF Planned

(* The switch over the tuner types.                                        *)
LEMMA ConfiguredIsFresh ==
    ASSUME Usable, NEW b, NEW p, p = [Probed EXCEPT !.hw.ir_bit = b], tuner_type \in TunerTypes,
           NEW t \in Configured(p)
    PROVE  Fresh(t)
<1>1. /\ Planned(p) /\ p.dev.freq = 0 /\ p.dev.offs_freq = 0 /\ p.dev.direct_sampling = 0
      /\ p.hw.if_freq = 0
  BY ProbedIsPlanned
<1>2. /\ Sound(p) /\ p.dev.mode = 0 /\ p.hw.swap_iq = FALSE /\ p.hw.inversion = FALSE
      /\ p.hw.zero_if = TRUE /\ p.hw.quadrature = TRUE
  BY ProbedIsSound
<1>3. CASE IsR82xx
  <2>1. PICK v \in rtlsdr_set_if_freq(p, R82XX_IF_FREQ) :
          t = [v EXCEPT !.hw.zero_if = FALSE, !.hw.quadrature = FALSE, !.hw.inversion = TRUE]
    BY <1>3 DEF Configured, Write
  <2>2. /\ SameDev(v, p) /\ v.hw.if_freq = R82XX_IF_FREQ
    BY <1>2, <2>1, SetIfSets DEF Usable
  <2>3. Sound(v)
    BY <1>2, <2>1, SetIfKeeps DEF Keeps
  <2>4. t.dev = v.dev /\ t.hw.if_freq = v.hw.if_freq
    BY <2>1, <2>3 DEF Sound, HwFields
  <2>5. Planned(t)
    BY <1>1, <2>2, <2>4 DEF Planned, SameDev
  <2> QED
    BY <1>1, <1>3, <2>2, <2>4, <2>5 DEF Fresh, SameDev
<1>4. CASE tuner_type = "UNKNOWN"
  <2>1. t \in rtlsdr_set_direct_sampling(p, 1)
    BY <1>4 DEF Configured, IsR82xx
  <2>2. Fit(p)
    <3>1. 0 \in 0..2 /\ (0 = 2) = FALSE /\ ~IsR82xx
      BY <1>4 DEF IsR82xx
    <3> QED
      BY <1>1, <1>2, <3>1, Zenon DEF Fit, Matched, ModeFits
  <2>3. Ready(t)
    BY <1>1, <1>4, <2>1, <2>2, ReadyDirectSampling
  <2>4. t.dev.freq = 0 /\ t.dev.offs_freq = 0
    <3> DEFINE q == [p EXCEPT !.dev.mode = 1]
    <3>1. PICK w \in DirectOn(q, 1) :
            \E x \in rtlsdr_set_center_freq(w, w.dev.freq) : t = [x EXCEPT !.r = x.r /\ w.r]
      BY <2>1 DEF rtlsdr_set_direct_sampling, SwitchDirect, Then
    <3>2. PICK x \in rtlsdr_set_center_freq(w, w.dev.freq) : t = [x EXCEPT !.r = x.r /\ w.r]
      BY <3>1
    <3>3. Sound(q) /\ q.dev.mode = 1 /\ q.dev.freq = 0 /\ q.dev.offs_freq = 0
          /\ q.dev.bw = p.dev.bw /\ q.dev.rtl_xtal = p.dev.rtl_xtal /\ q.dev.rate = p.dev.rate
          /\ q.dev.int_freq = p.dev.int_freq
      BY <1>1, <1>2 DEF Sound, HwFields, DevFields
    <3> HIDE DEF q
    <3>4. /\ SamePlan(w, q) /\ w.dev.freq = 0 /\ w.dev.int_freq = q.dev.int_freq
          /\ w.dev.direct_sampling = 1 /\ Switched(w, q, 1)
      BY <3>1, <3>3, DirectOnSets, DirectOnSwitches
    <3>5. Tunable(w)
      <4>1. Planned(w)
        BY <1>1, <1>4, <3>3, <3>4 DEF Planned, SamePlan
      <4> QED
        BY <3>4, <4>1 DEF Tunable, Switched, Mixes
    <3>6. Centered(x, w, 0) /\ Arrived(x, w)
      BY <3>2, <3>4, <3>5, CenterFreqCenters, CenterFreqArrives DEF Tunable, Usable
    <3>7. x.dev.freq = 0 /\ x.dev.offs_freq = 0 /\ Sound(x)
      BY <3>3, <3>4, <3>6 DEF Centered, Fit, Arrived, SamePlan
    <3> QED
      BY <3>2, <3>7 DEF Sound
  <2> QED
    BY <1>4, <2>3, <2>4 DEF Fresh, Ready, Tuned, HasTuner
<1>5. CASE ~IsR82xx /\ tuner_type # "UNKNOWN"
  <2>1. t = p
    BY <1>5 DEF Configured
  <2> QED
    BY <1>1, <1>5, <2>1 DEF Fresh
<1> QED
  BY <1>3, <1>4, <1>5

(* rtlsdr_open.                                                            *)
LEMMA OpenedIsReady ==
    ASSUME Usable, tuner_type \in TunerTypes, NEW st \in Opened
    PROVE  Ready(st)
<1> DEFINE bits == { [Probed EXCEPT !.hw.ir_bit = b] : b \in BOOLEAN }
           configured == Followed(bits, Configured)
           forced == Followed(configured, ForceBias)
           ready == IF HasTuner THEN Followed(forced, tuner_init) ELSE forced
<1>1. PICK v \in ready : st = set_i2c_repeater(v, FALSE)
  BY DEF Opened, Write
<1>2. ASSUME NEW x \in forced
      PROVE  Fresh(x) /\ Fit(x) /\ Sound(x) /\ (HasTuner => x.hw.repeater = TRUE)
  <2>1. PICK t \in configured : x \in ForceBias(t)
    BY <1>2 DEF Followed
  <2>2. PICK p \in bits : t \in Configured(p)
    BY <2>1 DEF Followed
  <2>3. PICK b \in BOOLEAN : p = [Probed EXCEPT !.hw.ir_bit = b]
    BY <2>2
  <2>4. Fresh(t) /\ Fit(t) /\ (HasTuner => t.hw.repeater = TRUE)
    BY <2>2, <2>3, ConfiguredIsFresh, ConfiguredFits
  <2>5. PICK y \in { [t EXCEPT !.dev.force_bt = f] :
                       f \in {~t.hw.ir_bit} \cup (IF "eeprom" \in Faults THEN BOOLEAN ELSE {}) } :
          x = [y EXCEPT !.hw.bias_tee = y.dev.force_bt]
    BY <2>1 DEF ForceBias
  <2>6. Keeps(x, t) /\ Stays(x, t) /\ x.hw.repeater = t.hw.repeater
    <3>1. PICK f : y = [t EXCEPT !.dev.force_bt = f]
      BY <2>5
    <3>2. Keeps(y, t) /\ Stays(y, t) /\ y.hw.repeater = t.hw.repeater
      BY <2>4, <3>1 DEF Fit, Sound, Keeps, Stays, SameDev, SameTuner, HwFields, DevFields
    <3>3. Keeps(x, y) /\ Stays(x, y) /\ x.hw.repeater = y.hw.repeater
      BY <2>5, <3>2 DEF Sound, Keeps, Stays, SameDev, SameTuner, HwFields, DevFields
    <3> QED
      BY <3>2, <3>3 DEF Keeps, Stays, SameDev, SameTuner
  <2>7. Planned(x)
    BY <2>4, <2>6 DEF Fresh, Planned, Stays, SameDev
  <2>8. Fresh(x)
    BY <2>4, <2>6, <2>7 DEF Fresh, Stays, SameDev, SameTuner
  <2> QED
    BY <2>4, <2>6, <2>8, KeepsFit DEF Fit
<1>3. Ready(v)
  <2> HIDE DEF forced
  <2>1. CASE HasTuner
    <3>1. PICK x \in forced : v \in tuner_init(x)
      BY <1>1, <2>1 DEF Followed
    <3>2. Fresh(x) /\ Fit(x) /\ Sound(x) /\ x.hw.repeater = TRUE
      BY <1>2, <2>1, <3>1
    <3> DEFINE int == IF IsR82xx THEN R82XX_IF_FREQ ELSE 0
    <3>3. /\ v.dev.freq = x.dev.freq /\ v.dev.bw = x.dev.bw /\ v.dev.rtl_xtal = x.dev.rtl_xtal
          /\ v.dev.rate = x.dev.rate /\ v.dev.offs_freq = x.dev.offs_freq
          /\ v.dev.mode = x.dev.mode /\ v.dev.direct_sampling = x.dev.direct_sampling
          /\ v.dev.int_freq = int /\ v.hw.tuner = "on" /\ v.hw.if_freq = x.hw.if_freq
      BY <3>1, <3>2, InitSets DEF Usable
    <3>4. int \in Nat /\ (~IsR82xx => int = 0)
      BY SMT DEF R82XX_IF_FREQ
    <3>5. x.hw.if_freq = int
      BY <2>1, <3>2 DEF Fresh
    <3> HIDE DEF int
    <3>6. Fit(v)
      BY <3>1, <3>2, InitKeeps, KeepsFit
    <3>7. Planned(v)
      BY <3>2, <3>3, <3>4 DEF Fresh, Planned
    <3>8. Mixes(v) /\ Oscillates(v)
      <4>1. v.dev.freq = 0 /\ v.dev.offs_freq = 0
        BY <3>2, <3>3 DEF Fresh
      <4>2. IfAt(v) = int
        BY <3>3, <3>4, <4>1 DEF IfAt
      <4> QED
        BY <3>3, <3>5, <4>1, <4>2 DEF Mixes, Oscillates
    <3> QED
      BY <3>6, <3>7, <3>8 DEF Ready, Tuned
  <2>2. CASE ~HasTuner
    <3>1. Fresh(v) /\ Fit(v)
      BY <1>1, <1>2, <2>2
    <3> QED
      BY <2>2, <3>1 DEF Fresh, Ready, Tuned, Mixes, Oscillates
  <2> QED
    BY <2>1, <2>2
<1> QED
  BY <1>1, <1>3, ReadyRepeater

-----------------------------------------------------------------------------
(* The invariant: while the device is open it is between two calls.        *)
TunedInv == hw.powered => Ready(Now)

(* A call that starts ready ends ready.                                    *)
LEMMA CallTunes ==
    ASSUME NEW name, NEW arg, NEW outcomes, Call(name, arg, outcomes), \A u \in outcomes : Ready(u)
    PROVE  TunedInv'
<1>1. PICK u \in outcomes : dev' = u.dev /\ hw' = u.hw
  BY DEF Call
<1>2. Ready(u) /\ tuner_type' = tuner_type
  BY <1>1 DEF Call
<1>3. Now' = [dev |-> u.dev, hw |-> u.hw, r |-> TRUE]
  BY <1>1 DEF Now
<1>4. Fit(Now)'
  <2>1. Sound(Now)'
    BY <1>2, <1>3 DEF Ready, Fit, Sound, HwFields, DevFields
  <2>2. Matched(Now)'
    BY <1>2, <1>3 DEF Ready, Fit, Matched, IsR82xx
  <2>3. ModeFits(Now)'
    BY <1>2, <1>3 DEF Ready, Fit, ModeFits, DirectFor, DirectLimit
  <2> QED
    BY <2>1, <2>2, <2>3 DEF Fit
<1>5. Planned(Now)'
  BY <1>2, <1>3 DEF Ready, Tuned, Planned, IsCrystal, Crystals, IsR82xx, MaxRate, MaxOffset, DEF_RTL_XTAL_FREQ
<1>6. Mixes(Now)' /\ Oscillates(Now)'
  BY <1>2, <1>3 DEF Ready, Tuned, Mixes, IfAt, Oscillates, IsR82xx, HasTuner
<1> QED
  BY <1>2, <1>4, <1>5, <1>6 DEF TunedInv, Ready, Tuned

(* One step per call.                                                      *)
LEMMA TunedStep ==
    ASSUME Usable, TunedInv, [Next]_vars
    PROVE  TunedInv'
<1>0. /\ Freqs \subseteq Nat /\ Rates \subseteq Nat /\ Bws \subseteq Nat /\ Xtals \subseteq Nat
      /\ Calls \in [TunerTypes -> SUBSET CallNames]
  BY DeviceAssumption
<1>r. ASSUME NEW name, NEW arg, NEW outcomes, Call(name, arg, outcomes)
      PROVE  Ready(Now) /\ name \in Calls[tuner_type]
  BY <1>r DEF Call, TunedInv
<1>1. CASE SetCenterFreq
  <2>1. PICK f \in Freqs : Call("set_center_freq", f, rtlsdr_set_center_freq(Now, f))
    BY <1>1 DEF SetCenterFreq
  <2> QED
    BY <1>r, <2>1, ReadyRetune, CallTunes
<1>2. CASE SetFreqCorrection
  <2>1. PICK p \in Ppms : Call("set_freq_correction", p, rtlsdr_set_freq_correction(Now, p))
    BY <1>2 DEF SetFreqCorrection
  <2> QED
    BY <1>r, <2>1, ReadyFreqCorrection, CallTunes
<1>3. CASE SetXtalFreq
  <2>1. PICK x \in Xtals \cup {0}, t \in Xtals \cup {0} :
          Call("set_xtal_freq", 0, rtlsdr_set_xtal_freq(Now, x, t))
    BY <1>3 DEF SetXtalFreq
  <2> QED
    BY <1>r, <2>1, ReadyXtalFreq, CallTunes
<1>4. CASE SetTunerBandwidth
  <2>1. PICK b \in Bws : Call("set_tuner_bandwidth", 0, rtlsdr_set_tuner_bandwidth(Now, b))
    BY <1>4 DEF SetTunerBandwidth
  <2> QED
    BY <1>0, <1>r, <2>1, ReadyTunerBandwidth, CallTunes
<1>5. CASE SetTunerGain
  <2>1. PICK g \in Gains : Call("set_tuner_gain", 0, rtlsdr_set_tuner_gain(Now, g))
    BY <1>5 DEF SetTunerGain
  <2> QED
    BY <1>r, <2>1, ReadyTunerGain, CallTunes
<1>6. CASE SetTunerGainMode
  <2>1. PICK m \in BOOLEAN : Call("set_tuner_gain_mode", 0, rtlsdr_set_tuner_gain_mode(Now, m))
    BY <1>6 DEF SetTunerGainMode
  <2> QED
    BY <1>r, <2>1, ReadyGainMode, CallTunes
<1>7. CASE SetSampleRate
  <2>1. PICK x \in Rates : Call("set_sample_rate", 0, rtlsdr_set_sample_rate(Now, x))
    BY <1>7 DEF SetSampleRate
  <2> QED
    BY <1>0, <1>r, <2>1, ReadySampleRate, CallTunes
<1>8. CASE SetTestmode \/ SetAgcMode
  <2>1. ASSUME NEW val, Ready(Now) PROVE Ready(WriteControl(Now, val))
    <3>1. Keeps(WriteControl(Now, val), Now) /\ Stays(WriteControl(Now, val), Now)
      BY <2>1 DEF WriteControl, Succeed, Ready, Fit, Sound, Keeps, Stays, SameDev, SameTuner, HwFields, DevFields
    <3> QED
      BY <2>1, <3>1, ReadyStays
  <2>2. PICK name, val : Call(name, 0, { WriteControl(Now, val) })
    BY <1>8 DEF SetTestmode, SetAgcMode
  <2> QED
    BY <1>r, <2>1, <2>2, CallTunes
<1>9. CASE SetDirectSampling
  <2>1. PICK on \in 0..2 : Call("set_direct_sampling", on, rtlsdr_set_direct_sampling(Now, on))
    BY <1>9 DEF SetDirectSampling
  <2>2. Ready(Now) /\ "set_direct_sampling" \in Calls[tuner_type]
    BY <1>r, <2>1
  <2>3. Fit(Now) /\ Planned(Now) /\ tuner_type \in TunerTypes
    BY <2>2 DEF Ready, Tuned
  <2>4. \A u \in rtlsdr_set_direct_sampling(Now, on) : Ready(u)
    BY <2>2, <2>3, ReadyDirectSampling
  <2> QED
    BY <2>1, <2>4, CallTunes
<1>10. CASE SetOffsetTuning
  <2>1. PICK on \in BOOLEAN : Call("set_offset_tuning", 0, rtlsdr_set_offset_tuning(Now, on))
    BY <1>10 DEF SetOffsetTuning
  <2>2. Ready(Now) /\ "set_offset_tuning" \in Calls[tuner_type]
    BY <1>r, <2>1
  <2>3. tuner_type = "E4000" => "set_direct_sampling" \notin Calls["E4000"]
    BY <2>2 DEF Ready, Usable, OffsetTuningUsable
  <2>4. \A u \in rtlsdr_set_offset_tuning(Now, on) : Ready(u)
    BY <2>2, <2>3, ReadyOffsetTuning
  <2> QED
    BY <2>1, <2>4, CallTunes
<1>11. CASE SetBiasTeeGpio
  <2>1. PICK gpio \in 0..1, on \in BOOLEAN :
          Call("set_bias_tee_gpio", gpio, { Succeed(SetBiasTee(Now, gpio, on)) })
    BY <1>11 DEF SetBiasTeeGpio
  <2>2. Ready(Now)
    BY <1>r, <2>1
  <2>3. /\ Keeps(Succeed(SetBiasTee(Now, gpio, on)), Now)
        /\ Stays(Succeed(SetBiasTee(Now, gpio, on)), Now)
    BY <2>2 DEF SetBiasTee, Succeed, Ready, Fit, Sound, Keeps, Stays, SameDev, SameTuner, HwFields, DevFields
  <2>4. Ready(Succeed(SetBiasTee(Now, gpio, on)))
    BY <2>2, <2>3, ReadyStays
  <2> QED
    BY <2>1, <2>4, CallTunes
<1>12. CASE Close
  <2>1. PICK u \in rtlsdr_close(Now) : hw' = u.hw
    BY <1>12 DEF Close, Call
  <2>2. Fit(Now)
    BY <1>12, <1>r DEF Close, Ready
  <2>3. PICK t \in WithRepeater(Now, tuner_exit) : u = [t EXCEPT !.hw.powered = FALSE]
    BY <2>1 DEF rtlsdr_close, Write
  <2>4. Sound(u)
    BY <2>1, <2>2, CloseFits DEF Fit
  <2>5. u.hw.powered = FALSE
    BY <2>3, <2>4 DEF Sound, HwFields
  <2> QED
    BY <2>1, <2>5 DEF TunedInv
<1>13. CASE UNCHANGED vars
  <2>1. Ready(Now)' = Ready(Now)
    BY <1>13 DEF vars, Now, Ready, Fit, Sound, Matched, ModeFits, IsR82xx, HasTuner, DirectFor, DirectLimit,
         Tuned, Planned, Mixes, IfAt, Oscillates, IsCrystal, Crystals, MaxRate, MaxOffset, DEF_RTL_XTAL_FREQ
  <2> QED
    BY <1>13, <2>1 DEF vars, TunedInv
<1> QED
  BY <1>1, <1>2, <1>3, <1>4, <1>5, <1>6, <1>7, <1>8, <1>9, <1>10, <1>11, <1>12, <1>13 DEF Next

(* The device is opened ready.                                             *)
LEMMA TunedStarts ==
    ASSUME Usable, Init
    PROVE  TunedInv
<1>1. PICK st \in Opened : dev = st.dev /\ hw = st.hw
  BY DEF Init
<1>2. Ready(st)
  BY <1>1, OpenedIsReady DEF Init
<1>3. Sound(Now)
  BY <1>1, <1>2 DEF Now, Ready, Fit, Sound, HwFields, DevFields
<1>4. Fit(Now)
  BY <1>1, <1>2, <1>3 DEF Now, Ready, Fit, Matched, ModeFits
<1>5. Tuned(Now)
  BY <1>1, <1>2 DEF Now, Ready, Tuned, Planned, Mixes, IfAt, Oscillates
<1> QED
  BY <1>2, <1>4, <1>5 DEF TunedInv, Ready

(* What the library reports as the frequency is what the device receives:  *)
(* in direct sampling the IF register is at it, else the oscillator and    *)
(* the IF register together are, with the tuner running.  For every dongle *)
(* and every sequence of calls, whatever fails of set_freq, set_gain, exit *)
(* and the EEPROM.                                                         *)
THEOREM DeviceIsTuned ==
    ASSUME TuningReliable, RatesAreReached, OffsetTuningUsable
    PROVE  Spec => []TunedTo
<1>0. Usable
  BY DEF Usable
<1>1. TunedInv => TunedTo
  <2> SUFFICES ASSUME TunedInv, hw.powered, dev.freq # 0
               PROVE  IF dev.direct_sampling # 0 THEN hw.if_freq = dev.freq
                      ELSE /\ hw.tuner = "on" /\ hw.lo # Torn /\ hw.if_freq # Torn
                           /\ Received = dev.freq
    BY DEF TunedTo
  <2>1. Ready(Now) /\ Now.dev = dev /\ Now.hw = hw
    BY DEF TunedInv, Now
  <2>2. CASE dev.direct_sampling # 0
    BY <2>1, <2>2 DEF Ready, Tuned, Oscillates
  <2>3. CASE dev.direct_sampling = 0
    <3>1. HasTuner /\ hw.lo = dev.freq - dev.offs_freq + dev.int_freq
      BY <2>1, <2>3 DEF Ready, Tuned, Oscillates
    <3>2. hw.tuner = "on" /\ hw.if_freq = (IF IsR82xx THEN dev.int_freq ELSE dev.offs_freq)
      BY <2>1, <2>3, <3>1 DEF Ready, Tuned, Mixes, IfAt
    <3>3. /\ dev.freq \in Freqs /\ dev.freq \in Nat /\ dev.int_freq \in Nat /\ dev.offs_freq \in Nat
          /\ dev.offs_freq <= MaxOffset
      BY <2>1, DeviceAssumption DEF Ready, Tuned, Planned
    <3>4. CASE IsR82xx
      <4>1. dev.offs_freq = 0
        BY <2>1, <3>4 DEF Ready, Tuned, Planned
      <4> QED
        BY <2>3, <3>1, <3>2, <3>3, <3>4, <4>1 DEF Received, Torn
    <3>5. CASE ~IsR82xx
      <4>1. tuner_type = "E4000" /\ dev.int_freq = 0 /\ tuner_type \in TunerTypes
        BY <2>1, <3>1, <3>5 DEF Ready, Tuned, Planned, HasTuner, IsR82xx
      <4>2. dev.freq > MaxOffset /\ MaxOffset \in Nat
        <5>1. MaxOffset \in Nat
          BY SMT DEF MaxOffset
        <5> QED
          BY <3>3, <4>1, <5>1 DEF OffsetTuningUsable
      <4> QED
        BY <2>3, <3>1, <3>2, <3>3, <3>5, <4>1, <4>2 DEF Received, Torn
    <3> QED
      BY <3>4, <3>5
  <2> QED
    BY <2>2, <2>3
<1>2. Init => TunedInv
  BY <1>0, TunedStarts
<1>3. TunedInv /\ [Next]_vars => TunedInv'
  BY <1>0, TunedStep
<1> QED
  BY <1>1, <1>2, <1>3, PTL DEF Spec
=============================================================================
