---------------------------- MODULE TunersProofs ----------------------------
(***************************************************************************)
(* Theorems about the tuner drivers, for every value of the constants that *)
(* the theorem does not restrict.  A behaviour drives one tuner, so each   *)
(* invariant is about the calls of one driver.                             *)
(***************************************************************************)
EXTENDS MCTuners, MathProofs

(* A behaviour never changes the tuner, and every step is a call of one of *)
(* the drivers or leaves it alone.                                         *)
LEMMA OneTuner ==
    ASSUME [E4kCalls \/ FcCalls \/ R82xxCalls]_<< vars, fcVars, r82xxVars >>
    PROVE  /\ tuner' = tuner
           /\ tuner # "R82xx" => [FcNext]_fcVars /\ UNCHANGED r82xxVars
           /\ tuner = "R82xx" => (R!Next \/ UNCHANGED r82xxVars) /\ UNCHANGED fcVars
<1>1. CASE E4kCalls
  BY <1>1 DEF E4kCalls, fcVars, r82xxVars, R!vars
<1>2. CASE FcCalls
  <2>1. FcNext => tuner' = tuner
    <3>1. ASSUME NEW on \in BOOLEAN, SetBiasTee(on) PROVE tuner' = tuner
      BY <3>1 DEF SetBiasTee
    <3>2. ASSUME NEW on \in BOOLEAN, Fc0013SetGainMode(on) PROVE tuner' = tuner
      BY <3>2 DEF Fc0013SetGainMode
    <3>3. ASSUME NEW f \in FcFreqs, Fc0012SetFreq(f) \/ Fc0013SetFreq(f) PROVE tuner' = tuner
      BY <3>3 DEF Fc0012SetFreq, Fc0013SetFreq
    <3>4. ASSUME NEW f \in FcFreqs, Fc2580SetFreq(f) \/ Fc2580SetBw PROVE tuner' = tuner
      BY <3>4 DEF Fc2580SetFreq, Fc2580SetBw, Fc2580Call
    <3>5. ASSUME NEW g \in FcGains, Fc0012SetGain(g) \/ Fc0013SetGain(g) PROVE tuner' = tuner
      BY <3>5 DEF Fc0012SetGain, Fc0013SetGain
    <3>6. Fc2580SetBw => tuner' = tuner
      BY DEF Fc2580SetBw, Fc2580Call
    <3> QED
      BY <3>1, <3>2, <3>3, <3>4, <3>5, <3>6 DEF FcNext
  <2> QED
    BY <1>2, <2>1 DEF FcCalls
<1>3. CASE R82xxCalls
  BY <1>3 DEF R82xxCalls, fcVars
<1>4. CASE UNCHANGED << vars, fcVars, r82xxVars >>
  BY <1>4 DEF fcVars, r82xxVars, R!vars
<1> QED
  BY <1>1, <1>2, <1>3, <1>4

-----------------------------------------------------------------------------
(* The GPIO pins of the FC tuners' dongles.                                *)

GpioRegs == {"GPO", "GPOE", "GPD"}

GpioTypes ==
  /\ DOMAIN gpio = GpioRegs /\ DOMAIN known = GpioRegs
  /\ level \in [Pins -> BOOLEAN] /\ force_bt \in BOOLEAN

(* The pins a driver switches have been made outputs, and no call makes one *)
(* an input again.                                                          *)
PinsDriven ==
  /\ tuner = "FC0012" /\ 6 \in known["GPOE"] => 6 \in gpio["GPOE"]
  /\ tuner = "FC0012" /\ 6 \in known["GPD"] => 6 \notin gpio["GPD"]

GpioInv == GpioTypes /\ PinsHold /\ PinsDriven

(* What a pin's write leaves behind is right for every pin that counts as  *)
(* known, when it was before.                                              *)
LEMMA PinOutcomeSound ==
    ASSUME NEW reg \in GpioRegs, NEW pin \in Pins, NEW on \in BOOLEAN,
           NEW how \in {"none", "gpioread", "gpiowrite", "tuner"},
           NEW o \in PinOutcomes(reg, pin, on, how)
    PROVE  /\ pin \in o.known => (pin \in o.pins <=> on)
           /\ \A p \in Pins \ {pin} :
                p \in o.known => p \in known[reg] /\ (p \in o.pins <=> p \in gpio[reg])
<1>1. CASE how = "gpioread"
  BY <1>1 DEF PinOutcomes, WithPin
<1>2. CASE how = "gpiowrite"
  BY <1>2 DEF PinOutcomes
<1>3. CASE how \in {"none", "tuner"}
  BY <1>3 DEF PinOutcomes, WithPin
<1> QED
  BY <1>1, <1>2, <1>3

(* rtlsdr_set_bias_tee keeps the pins.                                     *)
LEMMA BiasTeeKeepsPins ==
    ASSUME GpioInv, NEW on \in BOOLEAN, SetBiasTee(on)
    PROVE  GpioInv'
<1> USE FcAssumption DEF FcAssumption
<1> DEFINE high == on \/ force_bt
           How(how, at, reg) == IF reg = at THEN how ELSE "none"
<1>0. high \in BOOLEAN
  OBVIOUS
<1>1. PICK how \in {"none", "gpioread", "gpiowrite"}, at \in GpioRegs :
        \E d \in PinOutcomes("GPD", 0, FALSE, How(how, at, "GPD")),
           e \in PinOutcomes("GPOE", 0, TRUE, How(how, at, "GPOE")),
           o \in PinOutcomes("GPO", 0, high, How(how, at, "GPO")) :
          /\ gpio' = [GPD |-> d.pins, GPOE |-> e.pins, GPO |-> o.pins]
          /\ known' = [GPD |-> d.known, GPOE |-> e.known, GPO |-> o.known]
  BY ZenonT(60) DEF SetBiasTee, GpioRegs
<1> DEFINE hd == How(how, at, "GPD")
           he == How(how, at, "GPOE")
           ho == How(how, at, "GPO")
<1>9h. {hd, he, ho} \subseteq {"none", "gpioread", "gpiowrite", "tuner"}
  OBVIOUS
<1>2. PICK d \in PinOutcomes("GPD", 0, FALSE, hd), e \in PinOutcomes("GPOE", 0, TRUE, he),
           o \in PinOutcomes("GPO", 0, high, ho) :
        /\ gpio' = [GPD |-> d.pins, GPOE |-> e.pins, GPO |-> o.pins]
        /\ known' = [GPD |-> d.known, GPOE |-> e.known, GPO |-> o.known]
  BY <1>1
<1>3. /\ level' = [level EXCEPT ![0] = high] /\ force_bt' = force_bt
      /\ tuner \in FcChips /\ tuner' = tuner
  BY DEF SetBiasTee
<1> HIDE DEF high, hd, he, ho
<1>4. (level'[0] <=> high) /\ \A p \in Pins \ {0} : (level'[p] <=> level[p])
  BY <1>3 DEF GpioInv, GpioTypes
<1>5. GpioTypes'
  BY <1>0, <1>2, <1>3 DEF GpioInv, GpioTypes, GpioRegs
<1>6. /\ gpio'["GPD"] = d.pins /\ gpio'["GPOE"] = e.pins /\ gpio'["GPO"] = o.pins
      /\ known'["GPD"] = d.known /\ known'["GPOE"] = e.known /\ known'["GPO"] = o.known
  BY <1>2
<1>7. /\ 0 \in d.known => 0 \notin d.pins
      /\ \A p \in Pins \ {0} : p \in d.known => p \in known["GPD"] /\ (p \in d.pins <=> p \in gpio["GPD"])
  <2>1. "GPD" \in GpioRegs /\ hd \in {"none", "gpioread", "gpiowrite", "tuner"} /\ 0 \in Pins
        /\ FALSE \in BOOLEAN
    BY <1>9h DEF GpioRegs
  <2>2. 0 \in d.known => (0 \in d.pins <=> FALSE)
    BY <2>1, PinOutcomeSound, Zenon
  <2>3. \A p \in Pins \ {0} : p \in d.known => p \in known["GPD"] /\ (p \in d.pins <=> p \in gpio["GPD"])
    BY <2>1, PinOutcomeSound, Zenon
  <2> QED
    BY <2>2, <2>3
<1>8. /\ 0 \in e.known => 0 \in e.pins
      /\ \A p \in Pins \ {0} : p \in e.known => p \in known["GPOE"] /\ (p \in e.pins <=> p \in gpio["GPOE"])
  <2>1. "GPOE" \in GpioRegs /\ he \in {"none", "gpioread", "gpiowrite", "tuner"} /\ 0 \in Pins
        /\ TRUE \in BOOLEAN
    BY <1>9h DEF GpioRegs
  <2>2. 0 \in e.known => (0 \in e.pins <=> TRUE)
    BY <2>1, PinOutcomeSound, Zenon
  <2>3. \A p \in Pins \ {0} : p \in e.known => p \in known["GPOE"] /\ (p \in e.pins <=> p \in gpio["GPOE"])
    BY <2>1, PinOutcomeSound, Zenon
  <2> QED
    BY <2>2, <2>3
<1>9. /\ 0 \in o.known => (0 \in o.pins <=> high)
      /\ \A p \in Pins \ {0} : p \in o.known => p \in known["GPO"] /\ (p \in o.pins <=> p \in gpio["GPO"])
  <2>1. "GPO" \in GpioRegs /\ ho \in {"none", "gpioread", "gpiowrite", "tuner"} /\ 0 \in Pins
    BY <1>9h DEF GpioRegs
  <2> QED
    BY <1>0, <2>1, PinOutcomeSound, Zenon
<1>10. PinsHold'
  <2> SUFFICES ASSUME NEW p \in Pins
               PROVE  /\ p \in known'["GPO"] => (p \in gpio'["GPO"] <=> level'[p])
                      /\ level'[p] /\ p \in known'["GPOE"] => p \in gpio'["GPOE"]
                      /\ level'[p] /\ p \in known'["GPD"] => p \notin gpio'["GPD"]
    BY DEF PinsHold
  <2>1. CASE p = 0
    BY <2>1, <1>4, <1>6, <1>7, <1>8, <1>9, Zenon
  <2>2. CASE p # 0
    <3>1. /\ p \in known["GPO"] => (p \in gpio["GPO"] <=> level[p])
          /\ level[p] /\ p \in known["GPOE"] => p \in gpio["GPOE"]
          /\ level[p] /\ p \in known["GPD"] => p \notin gpio["GPD"]
      BY <1>3, Zenon DEF GpioInv, PinsHold
    <3>2. p \in Pins \ {0}
      BY <2>2
    <3> QED
      BY <3>1, <3>2, <1>4, <1>6, <1>7, <1>8, <1>9, Zenon
  <2> QED
    BY <2>1, <2>2
<1>11. PinsDriven'
  BY <1>3, <1>6, <1>7, <1>8 DEF GpioInv, PinsDriven
<1> QED
  BY <1>5, <1>10, <1>11 DEF GpioInv

(* fc0012_set_freq keeps the pins.                                         *)
LEMMA Fc0012KeepsPins ==
    ASSUME GpioInv, NEW f \in FcFreqs, Fc0012SetFreq(f)
    PROVE  GpioInv'
<1> USE FcAssumption DEF FcAssumption
<1> DEFINE on == f > 300000000
<1>1. on \in BOOLEAN
  BY SMT
<1> HIDE DEF on
<1>2. PICK how \in {"none", "gpioread", "gpiowrite", "tuner"} : SetGpioBit(6, on, how)
  BY SMT DEF Fc0012SetFreq, on
<1>3. PICK o \in PinOutcomes("GPO", 6, on, how) :
        gpio' = [gpio EXCEPT !["GPO"] = o.pins] /\ known' = [known EXCEPT !["GPO"] = o.known]
  BY <1>2 DEF SetGpioBit
<1>4. /\ level' = [level EXCEPT ![6] = on] /\ force_bt' = force_bt
      /\ tuner = "FC0012" /\ tuner \in FcChips /\ tuner' = tuner
  BY SMT DEF Fc0012SetFreq, FcChips, on
<1>5. (level'[6] <=> on) /\ \A p \in Pins \ {6} : (level'[p] <=> level[p])
  BY <1>4 DEF GpioInv, GpioTypes
<1>6. GpioTypes'
  BY <1>1, <1>3, <1>4 DEF GpioInv, GpioTypes, GpioRegs
<1>7. /\ gpio'["GPD"] = gpio["GPD"] /\ gpio'["GPOE"] = gpio["GPOE"] /\ gpio'["GPO"] = o.pins
      /\ known'["GPD"] = known["GPD"] /\ known'["GPOE"] = known["GPOE"] /\ known'["GPO"] = o.known
  BY <1>3 DEF GpioInv, GpioTypes, GpioRegs
<1>8. /\ 6 \in o.known => (6 \in o.pins <=> on)
      /\ \A p \in Pins \ {6} : p \in o.known => p \in known["GPO"] /\ (p \in o.pins <=> p \in gpio["GPO"])
  <2>1. "GPO" \in GpioRegs /\ 6 \in Pins
    BY DEF GpioRegs
  <2> QED
    <3> DEFINE pin == 6
    <3>1. pin \in Pins /\ o \in PinOutcomes("GPO", pin, on, how)
      BY <2>1
    <3> HIDE DEF pin
    <3>2. /\ pin \in o.known => (pin \in o.pins <=> on)
          /\ \A p \in Pins \ {pin} : p \in o.known => p \in known["GPO"] /\ (p \in o.pins <=> p \in gpio["GPO"])
      BY <1>1, <2>1, <3>1, PinOutcomeSound, Zenon
    <3> QED
      BY <3>2 DEF pin
<1>9. PinsHold'
  <2> SUFFICES ASSUME NEW p \in Pins
               PROVE  /\ p \in known'["GPO"] => (p \in gpio'["GPO"] <=> level'[p])
                      /\ level'[p] /\ p \in known'["GPOE"] => p \in gpio'["GPOE"]
                      /\ level'[p] /\ p \in known'["GPD"] => p \notin gpio'["GPD"]
    BY DEF PinsHold
  <2>1. CASE p = 6
    <3>1. /\ 6 \in known["GPOE"] => 6 \in gpio["GPOE"]
          /\ 6 \in known["GPD"] => 6 \notin gpio["GPD"]
      BY <1>4 DEF GpioInv, PinsDriven
    <3> QED
      BY <2>1, <3>1, <1>5, <1>7, <1>8
  <2>2. CASE p # 6
    <3>1. /\ p \in known["GPO"] => (p \in gpio["GPO"] <=> level[p])
          /\ level[p] /\ p \in known["GPOE"] => p \in gpio["GPOE"]
          /\ level[p] /\ p \in known["GPD"] => p \notin gpio["GPD"]
      BY <1>4, Zenon DEF GpioInv, PinsHold
    <3>2. p \in Pins \ {6}
      BY <2>2
    <3> QED
      BY <3>1, <3>2, <1>5, <1>7, <1>8, Zenon
  <2> QED
    BY <2>1, <2>2
<1>10. PinsDriven'
  BY <1>4, <1>7 DEF GpioInv, PinsDriven
<1> QED
  BY <1>6, <1>9, <1>10 DEF GpioInv

(* The library only counts on what it knows: every pin it has set, and that *)
(* no failed access to the shared registers has put in doubt since, has the *)
(* level last asked for and is driven while it is high, for any number of   *)
(* calls and of failures.                                                   *)
THEOREM PinsAreHeld == MCSpec => []PinsHold
<1>1. MCInit => GpioInv
  <2> SUFFICES ASSUME MCInit PROVE GpioInv
    OBVIOUS
  <2>1. /\ gpio = [GPO |-> IF force_bt THEN {0} ELSE {}, GPD |-> {},
                   GPOE |-> (IF force_bt THEN {0} ELSE {}) \cup (IF tuner = "FC0012" THEN {6} ELSE {})]
        /\ known = [r \in {"GPO", "GPOE", "GPD"} |-> Pins]
    BY DEF MCInit, FcInit
  <2>2. force_bt \in BOOLEAN /\ level = [p \in Pins |-> p = 0 /\ force_bt]
    BY Zenon DEF MCInit, FcInit
  <2>3. level \in [Pins -> BOOLEAN] /\ \A p \in Pins : level[p] <=> (p = 0 /\ force_bt)
    BY <2>2, Zenon
  <2>4. /\ DOMAIN gpio = GpioRegs /\ DOMAIN known = GpioRegs
        /\ gpio["GPD"] = {} /\ \A p \in Pins : p \in gpio["GPO"] <=> (p = 0 /\ force_bt)
        /\ force_bt => 0 \in gpio["GPOE"]
        /\ tuner = "FC0012" => 6 \in gpio["GPOE"]
    BY <2>1, <2>2 DEF GpioRegs
  <2>5. PinsHold
    BY <2>3, <2>4, Zenon DEF PinsHold
  <2> QED
    BY <2>2, <2>3, <2>4, <2>5 DEF GpioInv, GpioTypes, PinsDriven
<1>2. GpioInv /\ [E4kCalls \/ FcCalls \/ R82xxCalls]_<< vars, fcVars, r82xxVars >> => GpioInv'
  <2> SUFFICES ASSUME GpioInv, [E4kCalls \/ FcCalls \/ R82xxCalls]_<< vars, fcVars, r82xxVars >>
               PROVE  GpioInv'
    OBVIOUS
  <2>1. [FcNext]_fcVars
    BY OneTuner DEF fcVars
  <2>2. ASSUME NEW on \in BOOLEAN, SetBiasTee(on) PROVE GpioInv'
    BY <2>2, BiasTeeKeepsPins
  <2>3. ASSUME NEW f \in FcFreqs, Fc0012SetFreq(f) PROVE GpioInv'
    BY <2>3, Fc0012KeepsPins
  <2>4. ASSUME UNCHANGED << gpio, force_bt, level, known >> PROVE GpioInv'
    BY <2>4, OneTuner DEF GpioInv, GpioTypes, PinsHold, PinsDriven
  <2>5. ASSUME NEW on \in BOOLEAN, Fc0013SetGainMode(on) PROVE GpioInv'
    BY <2>4, <2>5 DEF Fc0013SetGainMode
  <2>6. ASSUME NEW f \in FcFreqs, Fc0013SetFreq(f) PROVE GpioInv'
    BY <2>4, <2>6 DEF Fc0013SetFreq
  <2>7. ASSUME NEW f \in FcFreqs, Fc2580SetFreq(f) PROVE GpioInv'
    BY <2>4, <2>7 DEF Fc2580SetFreq, Fc2580Call
  <2>8. ASSUME NEW g \in FcGains, Fc0012SetGain(g) \/ Fc0013SetGain(g) PROVE GpioInv'
    BY <2>4, <2>8 DEF Fc0012SetGain, Fc0013SetGain
  <2>9. ASSUME Fc2580SetBw PROVE GpioInv'
    BY <2>4, <2>9 DEF Fc2580SetBw, Fc2580Call
  <2>10. ASSUME UNCHANGED fcVars PROVE GpioInv'
    BY <2>4, <2>10 DEF fcVars
  <2> QED
    BY <2>1, <2>2, <2>3, <2>5, <2>6, <2>7, <2>8, <2>9, <2>10 DEF FcNext
<1>3. GpioInv => PinsHold
  BY DEF GpioInv
<1> QED
  BY <1>1, <1>2, <1>3, PTL DEF MCSpec

-----------------------------------------------------------------------------
(* The registers of the FC tuners.  A call is a list of transfers; what it  *)
(* leaves is told register by register, by the last transfer made to it.    *)

(* A register holds the value of the last transfer made to it.             *)
LEMMA LastWrite ==
    ASSUME NEW s, NEW done \in SUBSET Int, NEW r \in DOMAIN regs, NEW k \in done,
           s[k].reg = r, \A j \in done : s[j].reg = r => j <= k
    PROVE  After(s, done)[r] = s[k].val
<1> DEFINE hits == {j \in done : s[j].reg = r}
<1>1. hits \in SUBSET Int /\ k \in hits /\ \A j \in hits : k >= j
  OBVIOUS
<1>2. Max(hits) = k
  <2> HIDE DEF hits
  <2>1. \A m \in hits : (\A j \in hits : m >= j) => m = k
    BY <1>1
  <2>2. Max(hits) \in hits /\ \A j \in hits : Max(hits) >= j
    BY <1>1, Zenon DEF Max
  <2> QED
    BY <2>1, <2>2
<1>3. After(s, done)[r] = IF hits = {} THEN regs[r] ELSE s[Max(hits)].val
  BY DEF After
<1> QED
  BY <1>1, <1>2, <1>3

(* A register that no transfer is made to keeps its value.                 *)
LEMMA NoWrite ==
    ASSUME NEW s, NEW done, NEW r \in DOMAIN regs, \A k \in done : s[k].reg # r
    PROVE  After(s, done)[r] = regs[r]
BY DEF After

(* The thirteen transfers of a tuning of the FC0012 or FC0013.             *)
LEMMA PllTransfers ==
    ASSUME NEW f, NEW v, NEW s, s = PllWrites(f, v)
    PROVE  LET fvco == FVco(tuner, f)
               rf == RfA_RfM(Xdiv(fvco))
               row == DividerRow(tuner, f)
           IN  /\ Len(s) = 13 /\ DOMAIN s = 1..13
               /\ s[1] = Made(tuner = "FC0013", BandWrites(f)[1])
               /\ s[2] = Made(tuner = "FC0013", BandWrites(f)[2])
               /\ s[3] = Made(tuner = "FC0013", BandWrites(f)[3])
               /\ s[4].reg = "r1" /\ s[4].val = rf[1]
               /\ s[5].reg = "r2" /\ s[5].val = rf[2]
               /\ s[6].reg = "r34" /\ s[6].val = Xin(fvco)
               /\ s[7].reg = "r5" /\ s[7].val = row.reg5 + 5
               /\ s[8].reg = "r6" /\ s[8].val.div = row.reg6
               /\ s[9] = Made(tuner = "FC0013", W("r11", row.multi = 64))
               /\ s[10].reg = "none" /\ s[11].reg = "none" /\ s[13].reg = "none"
               /\ s[12].reg = "none" \/ (s[12].reg = "r6" /\ s[12].val.div = row.reg6)
<1> DEFINE fvco == FVco(tuner, f)
           rf == RfA_RfM(Xdiv(fvco))
           row == DividerRow(tuner, f)
           high == VcoSelect(fvco)
           b1 == Made(tuner = "FC0013", BandWrites(f)[1])
           b2 == Made(tuner = "FC0013", BandWrites(f)[2])
           b3 == Made(tuner = "FC0013", BandWrites(f)[3])
           w1 == W("r1", rf[1])
           w2 == W("r2", rf[2])
           w3 == W("r34", Xin(fvco))
           w4 == W("r5", row.reg5 + 5)
           w5 == W("r6", [div |-> row.reg6, high |-> high])
           w6 == Made(tuner = "FC0013", W("r11", row.multi = 64))
           w7 == Made(HighVco(high, v) # high, W("r6", [div |-> row.reg6, high |-> ~high]))
<1>1. s = << b1, b2, b3, w1, w2, w3, w4, w5, w6, NoReg, NoReg, w7, NoReg >>
  BY DEF PllWrites
<1>2. /\ w1.reg = "r1" /\ w1.val = rf[1] /\ w2.reg = "r2" /\ w2.val = rf[2]
      /\ w3.reg = "r34" /\ w3.val = Xin(fvco) /\ w4.reg = "r5" /\ w4.val = row.reg5 + 5
      /\ w5.reg = "r6" /\ w5.val.div = row.reg6 /\ NoReg.reg = "none"
      /\ w7.reg = "none" \/ (w7.reg = "r6" /\ w7.val.div = row.reg6)
  BY DEF W, NoReg, Made
<1> HIDE DEF b1, b2, b3, w1, w2, w3, w4, w5, w6, w7
<1>3. /\ Len(s) = 13 /\ DOMAIN s = 1..13 /\ s[1] = b1 /\ s[2] = b2 /\ s[3] = b3 /\ s[4] = w1
      /\ s[5] = w2 /\ s[6] = w3 /\ s[7] = w4 /\ s[8] = w5 /\ s[9] = w6 /\ s[10] = NoReg
      /\ s[11] = NoReg /\ s[12] = w7 /\ s[13] = NoReg
  BY <1>1
<1> QED
  BY <1>2, <1>3 DEF b1, b2, b3, w6

(* Registers 1 and 2 divide by xdiv, except where it is 0 or 1 and pm - 1  *)

(* wraps to 255.                                                           *)
LEMMA DividersAddUp ==
    ASSUME NEW x \in 2..299
    PROVE  8 * RfA_RfM(x)[2] + RfA_RfM(x)[1] = x
<1> DEFINE pm0 == (x \div 8) % 256
           am0 == (x - 8 * pm0) % 256
           am == IF am0 < 2 THEN am0 + 8 ELSE am0
           pm == IF am0 < 2 THEN (pm0 - 1) % 256 ELSE pm0
<1>1. pm0 = x \div 8 /\ x - 8 * pm0 \in 0..7 /\ pm0 \in 0..37
  BY SMT
<1>2. am0 = x - 8 * pm0
  BY <1>1, SMT
<1>3. am0 < 2 => pm0 >= 1
  BY <1>1, <1>2, SMT
<1>4. am \in 2..9 /\ pm \in 0..37 /\ 8 * pm + am = x
  BY <1>1, <1>2, <1>3, SMT
<1>5. RfA_RfM(x) = IF pm > 31 THEN << (am + 8 * (pm - 31)) % 256, 31 >> ELSE << am, pm >>
  BY DEF RfA_RfM
<1> HIDE DEF am, pm
<1>6. pm > 31 => (am + 8 * (pm - 31)) % 256 = am + 8 * (pm - 31)
  BY <1>4, SMT
<1>7. CASE pm > 31
  BY <1>4, <1>5, <1>6, <1>7, SMT
<1>8. CASE ~(pm > 31)
  BY <1>4, <1>5, <1>8, SMT
<1> QED
  BY <1>7, <1>8

(* A frequency gets a row of the divider tables, and its limit is above it *)
(* unless it is the last one.                                              *)
LEMMA RowIsBelow ==
    ASSUME NEW model, NEW f \in Nat
    PROVE  \E n \in DOMAIN Rows(model) :
             /\ DividerRow(model, f) = Rows(model)[n]
             /\ n = Len(Rows(model)) \/ f < 1000 * Rows(model)[n].limit
<1> DEFINE rows == Rows(model)
           Below(n) == n = Len(rows) \/ f < 1000 * rows[n].limit
           n0 == CHOOSE n \in DOMAIN rows : Below(n) /\ \A m \in 1..(n - 1) : ~Below(m)
<1>2. DOMAIN rows = 1..Len(rows) /\ Len(rows) \in {10, 11}
  <2>1. DOMAIN Fc0012Rows = 1..Len(Fc0012Rows) /\ Len(Fc0012Rows) = 10
    BY SMT DEF Fc0012Rows
  <2>2. DOMAIN Fc0013Rows = 1..Len(Fc0013Rows) /\ Len(Fc0013Rows) = 11
    BY SMT DEF Fc0013Rows
  <2> QED
    BY <2>1, <2>2, SMT DEF Rows
<1>3. DividerRow(model, f) = rows[n0]
  BY Zenon DEF DividerRow
<1> HIDE DEF rows
<1>4. \E n \in DOMAIN rows : Below(n) /\ \A m \in 1..(n - 1) : ~Below(m)
  <2>1. Below(Len(rows))
    OBVIOUS
  <2> HIDE DEF Below
  <2>2. \E n \in 1..11 : Below(n) /\ (\A m \in 1..(n - 1) : ~Below(m)) /\ n <= Len(rows)
    <3>1. CASE Len(rows) = 10
      BY <1>2, <2>1, <3>1, SMTT(60)
    <3>2. CASE Len(rows) = 11
      BY <1>2, <2>1, <3>2, SMTT(60)
    <3> QED
      BY <1>2, <3>1, <3>2
  <2> QED
    BY <1>2, <2>2, SMT
<1>5. n0 \in DOMAIN rows /\ Below(n0)
  <2> HIDE DEF Below
  <2> QED
    BY <1>4, Zenon
<1> HIDE DEF n0
<1>6. \E n \in DOMAIN rows : DividerRow(model, f) = rows[n] /\ Below(n)
  <2> HIDE DEF Below
  <2> QED
    BY <1>3, <1>5, Zenon
<1> QED
  BY <1>6, Zenon DEF rows

(* All multipliers are counts.                                             *)
LEMMA MultiIsNat ==
    ASSUME NEW model, NEW f \in Nat
    PROVE  DividerRow(model, f).multi \in Nat
<1>1. \A n \in DOMAIN Fc0012Rows : Fc0012Rows[n].multi \in Nat
  BY SMT DEF Fc0012Rows, Row
<1>2. \A n \in DOMAIN Fc0013Rows : Fc0013Rows[n].multi \in Nat
  BY SMT DEF Fc0013Rows, Row
<1>3. \A n \in DOMAIN Rows(model) : Rows(model)[n].multi \in Nat
  BY <1>1, <1>2, Zenon DEF Rows
<1>4. PICK n \in DOMAIN Rows(model) : DividerRow(model, f) = Rows(model)[n]
  BY RowIsBelow
<1> QED
  BY <1>3, <1>4

(* A VCO frequency of 32 bits has an xdiv of at most 299.                  *)
LEMMA XdivFits ==
    ASSUME NEW model, NEW f \in Nat
    PROVE  Xdiv(FVco(model, f)) \in 0..299
<1> DEFINE v == FVco(model, f)
           w == (f \div Unit) * DividerRow(model, f).multi
           q == v \div XtalDiv2
<1>1. w \in Nat
  <2>1. f \div Unit \in Nat
    BY SMT DEF Unit
  <2>2. DividerRow(model, f).multi \in Nat
    BY MultiIsNat
  <2>3. \A a, b \in Nat : a * b \in Nat
    BY SMT
  <2> QED
    BY <2>1, <2>2, <2>3, Zenon
<1>2. v = w % VcoWord
  BY SMT DEF FVco
<1> HIDE DEF w
<1>3. v \in Nat /\ v < 8388608
  BY <1>1, <1>2, SMT DEF VcoWord
<1>4. Xdiv(v) \in {q, q + 1}
  BY SMT DEF Xdiv
<1> HIDE DEF v
<1>5. q \in Nat /\ q <= 298
  BY <1>3, SMT DEF XtalDiv2
<1> HIDE DEF q
<1>6. Xdiv(v) \in 0..299
  BY <1>4, <1>5, SMT
<1> QED
  BY <1>6, Zenon DEF v

(* The registers each driver writes, and what the program can have asked. *)
Fc0012Regs == {"r1", "r2", "r34", "r5", "r6", "r13"}
Fc0013Regs == {"r1", "r2", "r34", "r5", "r6", "r07", "r0d", "r11", "r13", "r14", "r1d"}
Fc2580Regs == {"front", "filter", "r02", "r18", "r1A", "r1B", "r1C", "r2D"}

FcTypes ==
  /\ tuner = "FC0012" => DOMAIN regs = Fc0012Regs
  /\ tuner = "FC0013" => DOMAIN regs = Fc0013Regs /\ DOMAIN regs["r14"] = {"band", "lna"}
  /\ tuner = "FC2580" => DOMAIN regs = Fc2580Regs
  /\ DOMAIN asked = {"freq", "gain", "mode", "bw"}
  /\ asked.gain # Unset => tuner \in {"FC0012", "FC0013"}
  /\ asked.bw # Unset => tuner = "FC2580"

(* The FC0013's three filter transfers; the last one keeps the LNA gain.   *)
LEMMA BandTransfers ==
    ASSUME NEW f, DOMAIN regs["r14"] = {"band", "lna"}
    PROVE  LET b == BandWrites(f)
           IN  /\ Len(b) = 3 /\ DOMAIN b = 1..3
               /\ b[1].reg = "r1d" /\ b[1].val = VhfTrack(f)
               /\ b[2].reg = "r07" /\ b[2].val = (f < 300000000)
               /\ b[3].reg = "r14" /\ b[3].val.lna = regs["r14"].lna
               /\ (b[3].val.band = 0) = (f < 300000000) /\ DOMAIN b[3].val = {"band", "lna"}
BY SMT DEF BandWrites, W

(* fc0012_set_params and fc0013_set_params made to the end leave the       *)

(* registers of the frequency.                                             *)
LEMMA TuneSettles ==
    ASSUME FcTypes, tuner \in {"FC0012", "FC0013"}, tuner' = tuner, NEW f \in Nat, NEW v,
           PllExists(f), Xdiv(FVco(tuner, f)) >= 2, regs' = After(PllWrites(f, v), 1..13)
    PROVE  Fc001xTuned(f)'
<1> DEFINE s == PllWrites(f, v)
           fvco == FVco(tuner, f)
           rf == RfA_RfM(Xdiv(fvco))
           row == DividerRow(tuner, f)
           b == BandWrites(f)
           is13 == tuner = "FC0013"
           low == f < 300000000
<1>1. /\ s[1] = Made(is13, b[1]) /\ s[2] = Made(is13, b[2]) /\ s[3] = Made(is13, b[3])
      /\ s[4].reg = "r1" /\ s[4].val = rf[1] /\ s[5].reg = "r2" /\ s[5].val = rf[2]
      /\ s[6].reg = "r34" /\ s[6].val = Xin(fvco)
      /\ s[7].reg = "r5" /\ s[7].val = row.reg5 + 5
      /\ s[8].reg = "r6" /\ s[8].val.div = row.reg6
      /\ s[9] = Made(is13, W("r11", row.multi = 64))
      /\ s[10].reg = "none" /\ s[11].reg = "none" /\ s[13].reg = "none"
      /\ s[12].reg = "none" \/ (s[12].reg = "r6" /\ s[12].val.div = row.reg6)
  BY PllTransfers
<1>2. is13 => /\ b[1].reg = "r1d" /\ b[1].val = VhfTrack(f)
              /\ b[2].reg = "r07" /\ b[2].val = low
              /\ b[3].reg = "r14" /\ (b[3].val.band = 0) = low
  BY BandTransfers, SMT DEF FcTypes
<1> HIDE DEF low
<1>3. regs' = After(s, 1..13)
  OBVIOUS
<1> HIDE DEF s, b, fvco, rf, row
<1>4. /\ s[1].reg \in {"none", "r1d"} /\ s[2].reg \in {"none", "r07"}
      /\ s[3].reg \in {"none", "r14"} /\ s[9].reg \in {"none", "r11"}
      /\ is13 => /\ s[1].reg = "r1d" /\ s[1].val = VhfTrack(f)
                 /\ s[2].reg = "r07" /\ s[2].val = b[2].val
                 /\ s[3].reg = "r14" /\ s[3].val = b[3].val
                 /\ s[9].reg = "r11" /\ s[9].val = (row.multi = 64)
  BY <1>1, <1>2 DEF Made, NoReg, W
<1>5. \A j \in 1..13 :
        /\ s[j].reg = "r1" => j = 4
        /\ s[j].reg = "r2" => j = 5
        /\ s[j].reg = "r34" => j = 6
        /\ s[j].reg = "r5" => j = 7
        /\ s[j].reg = "r6" => j = 8 \/ j = 12
        /\ s[j].reg = "r11" => j = 9
        /\ s[j].reg = "r1d" => j = 1
        /\ s[j].reg = "r07" => j = 2
        /\ s[j].reg = "r14" => j = 3
  BY <1>1, <1>4
<1>6. 1..13 \in SUBSET Int
  OBVIOUS
<1>7. /\ {"r1", "r2", "r34", "r5", "r6"} \subseteq DOMAIN regs
      /\ is13 => {"r11", "r1d", "r07", "r14"} \subseteq DOMAIN regs
  BY DEF FcTypes, Fc0012Regs, Fc0013Regs
<1>8. /\ regs'["r1"] = rf[1] /\ regs'["r2"] = rf[2] /\ regs'["r34"] = Xin(fvco)
      /\ regs'["r5"] = row.reg5 + 5
  <2>1. regs'["r1"] = s[4].val
    BY <1>1, <1>3, <1>5, <1>6, <1>7, LastWrite
  <2>2. regs'["r2"] = s[5].val
    BY <1>1, <1>3, <1>5, <1>6, <1>7, LastWrite
  <2>3. regs'["r34"] = s[6].val
    BY <1>1, <1>3, <1>5, <1>6, <1>7, LastWrite
  <2>4. regs'["r5"] = s[7].val
    BY <1>1, <1>3, <1>5, <1>6, <1>7, LastWrite
  <2> QED
    BY <1>1, <2>1, <2>2, <2>3, <2>4
<1>9. regs'["r6"].div = row.reg6
  <2>1. CASE s[12].reg = "r6"
    <3>1. regs'["r6"] = s[12].val
      BY <1>1, <1>3, <1>5, <1>6, <1>7, <2>1, LastWrite
    <3> QED
      BY <1>1, <2>1, <3>1
  <2>2. CASE s[12].reg # "r6"
    <3>1. regs'["r6"] = s[8].val
      BY <1>1, <1>3, <1>5, <1>6, <1>7, <2>2, LastWrite
    <3> QED
      BY <1>1, <3>1
  <2> QED
    BY <2>1, <2>2
<1>10. is13 => /\ regs'["r11"] = (row.multi = 64) /\ regs'["r1d"] = VhfTrack(f)
               /\ regs'["r07"] = b[2].val /\ regs'["r14"] = b[3].val
  <2> SUFFICES ASSUME is13
               PROVE  /\ regs'["r11"] = s[9].val /\ regs'["r1d"] = s[1].val
                      /\ regs'["r07"] = s[2].val /\ regs'["r14"] = s[3].val
    BY <1>4
  <2>1. regs'["r11"] = s[9].val
    BY <1>3, <1>4, <1>5, <1>6, <1>7, LastWrite
  <2>2. regs'["r1d"] = s[1].val
    BY <1>3, <1>4, <1>5, <1>6, <1>7, LastWrite
  <2>3. regs'["r07"] = s[2].val
    BY <1>3, <1>4, <1>5, <1>6, <1>7, LastWrite
  <2>4. regs'["r14"] = s[3].val
    BY <1>3, <1>4, <1>5, <1>6, <1>7, LastWrite
  <2> QED
    BY <2>1, <2>2, <2>3, <2>4
<1>11. 8 * rf[2] + rf[1] = Xdiv(fvco)
  <2>1. Xdiv(fvco) \in 0..299
    BY XdivFits DEF fvco
  <2>2. Xdiv(fvco) \in 2..299
    BY <2>1 DEF fvco
  <2> QED
    BY <2>2, DividersAddUp DEF rf
<1>12. 8 * regs'["r2"] + regs'["r1"] = Xdiv(fvco)
  BY <1>8, <1>11
<1> QED
  BY <1>2, <1>8, <1>9, <1>10, <1>12, SMT DEF Fc001xTuned, fvco, row, low

(* No transfer of a tuning is to the gain, the mode or the IF gain, except *)

(* that register 0x14 is written with the gain it had.                     *)
LEMMA TuneTransfers ==
    ASSUME FcTypes, tuner \in {"FC0012", "FC0013"}, NEW f, NEW v, NEW k \in DOMAIN TuneWrites(f, v)
    PROVE  LET w == TuneWrites(f, v)[k]
           IN  /\ k \in Int /\ w.reg \notin {"r13", "r0d"}
               /\ w.reg = "r14" => /\ k = 3 /\ w.val.lna = regs["r14"].lna
                                   /\ DOMAIN w.val = {"band", "lna"}
<1> DEFINE s == TuneWrites(f, v)
           b == BandWrites(f)
<1>1. tuner = "FC0013" =>
        /\ Len(b) = 3 /\ DOMAIN b = 1..3
        /\ b[1].reg = "r1d" /\ b[2].reg = "r07"
        /\ b[3].reg = "r14" /\ b[3].val.lna = regs["r14"].lna
        /\ DOMAIN b[3].val = {"band", "lna"}
  BY BandTransfers, SMT DEF FcTypes
<1> HIDE DEF b
<1>2. CASE PllExists(f)
  <2> DEFINE p == PllWrites(f, v)
  <2>1. s = p
    BY <1>2 DEF TuneWrites
  <2>2. /\ DOMAIN p = 1..13
        /\ p[1] = Made(tuner = "FC0013", b[1]) /\ p[2] = Made(tuner = "FC0013", b[2])
        /\ p[3] = Made(tuner = "FC0013", b[3])
        /\ p[4].reg = "r1" /\ p[5].reg = "r2" /\ p[6].reg = "r34" /\ p[7].reg = "r5"
        /\ p[8].reg = "r6"
        /\ p[9].reg \in {"none", "r11"}
        /\ p[10].reg = "none" /\ p[11].reg = "none" /\ p[13].reg = "none"
        /\ p[12].reg \in {"none", "r6"}
    <3>1. \A c : Made(tuner = "FC0013", W("r11", c)).reg \in {"none", "r11"}
      BY DEF Made, W, NoReg
    <3> QED
      BY <3>1, PllTransfers DEF b
  <2> HIDE DEF p
  <2>3. /\ p[1].reg \in {"none", "r1d"} /\ p[2].reg \in {"none", "r07"}
        /\ (p[3] = b[3] /\ tuner = "FC0013") \/ p[3].reg = "none"
    BY <1>1, <2>2 DEF Made, NoReg, W
  <2>4. k \in 1..13
    BY <2>1, <2>2
  <2>5. k \in {1, 2, 3, 4, 5, 6, 7, 8, 9, 10, 11, 12, 13}
    BY <2>4
  <2> QED
    BY <1>1, <2>1, <2>2, <2>3, <2>5
<1>3. CASE ~PllExists(f) /\ tuner = "FC0013"
  <2>1. s = b
    BY <1>3 DEF TuneWrites, b
  <2>2. k \in {1, 2, 3}
    BY <1>1, <1>3, <2>1
  <2> QED
    BY <1>1, <1>3, <2>1, <2>2
<1>4. CASE ~PllExists(f) /\ tuner = "FC0012"
  <2>1. s = << >>
    BY <1>4 DEF TuneWrites
  <2> QED
    BY <2>1
<1> QED
  BY <1>2, <1>3, <1>4

(* A tuning, all of it or until a transfer fails, keeps gain and mode.     *)
LEMMA TuneKeeps ==
    ASSUME FcTypes, tuner \in {"FC0012", "FC0013"}, NEW f, NEW v,
           NEW done \in SUBSET DOMAIN TuneWrites(f, v), regs' = After(TuneWrites(f, v), done)
    PROVE  /\ DOMAIN regs' = DOMAIN regs
           /\ tuner = "FC0012" => regs'["r13"] = regs["r13"]
           /\ tuner = "FC0013" => /\ regs'["r0d"] = regs["r0d"]
                                  /\ regs'["r14"].lna = regs["r14"].lna
                                  /\ DOMAIN regs'["r14"] = {"band", "lna"}
<1> DEFINE s == TuneWrites(f, v)
<1>1. \A k \in done : /\ k \in Int /\ s[k].reg \notin {"r13", "r0d"}
                      /\ s[k].reg = "r14" => /\ k = 3 /\ s[k].val.lna = regs["r14"].lna
                                             /\ DOMAIN s[k].val = {"band", "lna"}
  BY TuneTransfers
<1> HIDE DEF s
<1>2. regs' = After(s, done)
  BY DEF s
<1>3. \A r \in DOMAIN regs \cap {"r13", "r0d"} : regs'[r] = regs[r]
  BY <1>1, <1>2, NoWrite
<1>4. DOMAIN regs' = DOMAIN regs
  BY <1>2 DEF After
<1>5. ASSUME tuner = "FC0013"
      PROVE  regs'["r14"].lna = regs["r14"].lna /\ DOMAIN regs'["r14"] = {"band", "lna"}
  <2>1. "r14" \in DOMAIN regs /\ DOMAIN regs["r14"] = {"band", "lna"}
    BY <1>5 DEF FcTypes, Fc0013Regs
  <2>2. CASE \E k \in done : s[k].reg = "r14"
    <3>1. PICK k \in done : s[k].reg = "r14"
      BY <2>2
    <3>2. done \in SUBSET Int /\ \A j \in done : s[j].reg = "r14" => j <= k
      BY <1>1, <3>1
    <3>3. regs'["r14"] = s[k].val
      BY <1>2, <2>1, <3>1, <3>2, LastWrite
    <3> QED
      BY <1>1, <3>1, <3>3
  <2>3. CASE \A k \in done : s[k].reg # "r14"
    <3>1. regs'["r14"] = regs["r14"]
      BY <1>2, <2>1, <2>3, NoWrite
    <3> QED
      BY <2>1, <3>1
  <2> QED
    BY <2>2, <2>3
<1> QED
  BY <1>3, <1>4, <1>5 DEF FcTypes, Fc0012Regs, Fc0013Regs

(* The inductive invariant.  Before SetParams it says what must survive: *)
(* the gain is only asked of a driver that has one, the bandwidth of the  *)
(* FC2580, and register 0x14 has both of its fields.                      *)
FcInv == FcTypes /\ FcSettingsHold

(* fc0012_set_params and fc0013_set_params keep the invariant.             *)
LEMMA SetParamsKeeps ==
    ASSUME FcInv, tuner \in {"FC0012", "FC0013"}, tuner' = tuner, NEW f \in Nat,
           Xdiv(FVco(tuner, f)) \notin {0, 1}, NEW fails \in BOOLEAN, SetParams(f, fails)
    PROVE  FcInv'
<1>1. PICK v \in {0, 30, 63} : LET s == TuneWrites(f, v) IN
         \E n \in IF fails THEN 0..(Len(s) - 1) ELSE {Len(s)} :
           /\ regs' = After(s, 1..n)
           /\ asked' = [asked EXCEPT !.freq = IF ~fails /\ PllExists(f) THEN f ELSE Unset]
  BY DEF SetParams
<1> DEFINE s == TuneWrites(f, v)
<1>2. PICK n \in IF fails THEN 0..(Len(s) - 1) ELSE {Len(s)} :
           /\ regs' = After(s, 1..n)
           /\ asked' = [asked EXCEPT !.freq = IF ~fails /\ PllExists(f) THEN f ELSE Unset]
  BY <1>1
<1>3. Len(s) \in {0, 3, 13} /\ DOMAIN s = 1..Len(s) /\ (PllExists(f) => s = PllWrites(f, v) /\ Len(s) = 13)
  <2>1. Len(PllWrites(f, v)) = 13 /\ DOMAIN PllWrites(f, v) = 1..13
    BY PllTransfers
  <2>2. tuner = "FC0013" => Len(BandWrites(f)) = 3 /\ DOMAIN BandWrites(f) = 1..3
    BY BandTransfers, SMT DEF FcInv, FcTypes
  <2>3. Len(<< >>) = 0 /\ DOMAIN << >> = 1..0
    OBVIOUS
  <2> QED
    BY <2>1, <2>2, <2>3 DEF TuneWrites
<1> HIDE DEF s
<1>4. 1..n \in SUBSET DOMAIN s
  BY <1>2, <1>3
<1>5. FcTypes /\ FcSettingsHold
  BY DEF FcInv
<1>6. /\ DOMAIN regs' = DOMAIN regs
      /\ tuner = "FC0012" => regs'["r13"] = regs["r13"]
      /\ tuner = "FC0013" => /\ regs'["r0d"] = regs["r0d"]
                             /\ regs'["r14"].lna = regs["r14"].lna
                             /\ DOMAIN regs'["r14"] = {"band", "lna"}
  <2>1. regs' = After(s, 1..n)
    BY <1>2
  <2> QED
    BY <1>4, <1>5, <2>1, TuneKeeps, Zenon DEF s
<1>7. /\ asked'.gain = asked.gain /\ asked'.mode = asked.mode /\ asked'.bw = asked.bw
      /\ DOMAIN asked' = {"freq", "gain", "mode", "bw"}
      /\ asked'.freq = IF ~fails /\ PllExists(f) THEN f ELSE Unset
  BY <1>2, <1>5 DEF FcTypes
<1>8. FcTypes'
  BY <1>5, <1>6, <1>7 DEF FcTypes
<1>9. (asked.freq # Unset /\ tuner \in {"FC0012", "FC0013"} => Fc001xTuned(asked.freq))'
  <2>1. CASE asked'.freq = Unset
    BY <2>1
  <2>2. CASE asked'.freq # Unset
    <3>1. ~fails /\ PllExists(f) /\ asked'.freq = f
      BY <1>7, <2>2
    <3>2. regs' = After(PllWrites(f, v), 1..13)
      BY <1>2, <1>3, <3>1
    <3>3. Xdiv(FVco(tuner, f)) >= 2
      <4> DEFINE x == Xdiv(FVco(tuner, f))
      <4>1. x \in 0..299 /\ x \notin {0, 1}
        BY XdivFits
      <4> HIDE DEF x
      <4>2. x >= 2
        BY <4>1
      <4> QED
        BY <4>2 DEF x
    <3>4. Fc001xTuned(f)'
      BY <1>5, <3>1, <3>2, <3>3, TuneSettles
    <3> QED
      BY <3>1, <3>4, SMT DEF Fc001xTuned
  <2> QED
    BY <2>1, <2>2
<1>10. (asked.bw # Unset => regs["filter"] = asked.bw)'
  BY <1>5, <1>7 DEF FcTypes
<1>11. (asked.gain # Unset => (IF tuner = "FC0012" THEN regs["r13"] ELSE regs["r14"].lna)
                                  = LnaBits(tuner, asked.gain))'
  BY <1>5, <1>6, <1>7 DEF FcSettingsHold
<1>12. (tuner = "FC0013" /\ asked.mode # "unknown" => regs["r0d"] = (asked.mode = "manual"))'
  BY <1>5, <1>6, <1>7 DEF FcSettingsHold
<1> QED
  BY <1>8, <1>9, <1>10, <1>11, <1>12 DEF FcInv, FcSettingsHold

(* What was tuned stays tuned through the calls that write the gain, the   *)

(* mode and the IF gain only.                                              *)
LEMMA Fc001xKept ==
    ASSUME FcInv, tuner \in {"FC0012", "FC0013"}, tuner' = tuner, asked'.freq \in {Unset, asked.freq},
           DOMAIN regs' = DOMAIN regs,
           \A r \in DOMAIN regs \ {"r0d", "r13", "r14"} : regs'[r] = regs[r],
           asked'.freq # Unset /\ tuner = "FC0013" => regs'["r14"].band = regs["r14"].band
    PROVE  (asked.freq # Unset => Fc001xTuned(asked.freq))'
<1>1. /\ {"r1", "r2", "r34", "r5", "r6"} \subseteq DOMAIN regs \ {"r0d", "r13", "r14"}
      /\ tuner = "FC0013" =>
           {"r11", "r1d", "r07"} \subseteq DOMAIN regs \ {"r0d", "r13", "r14"}
  BY DEF FcInv, FcTypes, Fc0012Regs, Fc0013Regs
<1>2. /\ \A r \in {"r1", "r2", "r34", "r5", "r6"} : regs'[r] = regs[r]
      /\ tuner = "FC0013" => \A r \in {"r11", "r1d", "r07"} : regs'[r] = regs[r]
  BY <1>1
<1>3. SUFFICES ASSUME asked'.freq # Unset
               PROVE  Fc001xTuned(asked.freq)'
  OBVIOUS
<1>4. asked'.freq = asked.freq /\ Fc001xTuned(asked.freq)
  BY <1>3, SMT DEF FcInv, FcSettingsHold
<1> QED
  BY <1>2, <1>3, <1>4, SMT DEF Fc001xTuned

(* fc0012_set_gain keeps the invariant.                                    *)
LEMMA Fc0012GainKeeps ==
    ASSUME FcInv, NEW gain \in FcGains, Fc0012SetGain(gain)
    PROVE  FcInv'
<1>1. FcTypes /\ FcSettingsHold
  BY DEF FcInv
<1>2. tuner = "FC0012" /\ tuner' = tuner
  BY DEF Fc0012SetGain
<1>3. CASE regs' = regs /\ asked' = asked
  <2>1. FcTypes'
    BY <1>1, <1>2, <1>3 DEF FcTypes
  <2>2. (asked.freq # Unset => Fc001xTuned(asked.freq))'
    BY <1>2, <1>3, Fc001xKept
  <2> QED
    BY <1>1, <1>2, <1>3, <2>1, <2>2 DEF FcInv, FcSettingsHold
<1>4. CASE /\ regs' = [regs EXCEPT !["r13"] = LnaBits("FC0012", gain)]
           /\ asked' = [asked EXCEPT !.gain = gain]
  <2>1. DOMAIN regs' = DOMAIN regs /\ "r13" \in DOMAIN regs
    BY <1>1, <1>2, <1>4 DEF FcTypes, Fc0012Regs
  <2>2. \A r \in DOMAIN regs \ {"r13"} : regs'[r] = regs[r]
    BY <1>4
  <2>3. regs'["r13"] = LnaBits("FC0012", gain)
    BY <1>4, <2>1
  <2>4. /\ asked'.freq = asked.freq /\ asked'.mode = asked.mode /\ asked'.bw = asked.bw
        /\ DOMAIN asked' = {"freq", "gain", "mode", "bw"} /\ asked'.gain = gain
    BY <1>1, <1>4 DEF FcTypes
  <2>5. FcTypes'
    BY <1>1, <1>2, <2>1, <2>4 DEF FcTypes
  <2>6. (asked.freq # Unset => Fc001xTuned(asked.freq))'
    BY <1>2, <2>1, <2>2, <2>4, Fc001xKept
  <2> QED
    BY <1>1, <1>2, <2>3, <2>4, <2>5, <2>6 DEF FcInv, FcSettingsHold, FcTypes
<1> QED
  BY <1>3, <1>4 DEF Fc0012SetGain

(* fc0013_set_lna_gain keeps the invariant.                                *)
LEMMA Fc0013GainKeeps ==
    ASSUME FcInv, NEW gain \in FcGains, Fc0013SetGain(gain)
    PROVE  FcInv'
<1>1. FcTypes /\ FcSettingsHold
  BY DEF FcInv
<1>2. tuner = "FC0013" /\ tuner' = tuner
  BY DEF Fc0013SetGain
<1> DEFINE bits == LnaBits("FC0013", gain)
<1> HIDE DEF bits
<1>3. PICK how \in {"none", "read", "write"} :
        /\ regs' = IF how = "write" THEN regs
                   ELSE [regs EXCEPT !["r14"] =
                           [band |-> IF how = "read" THEN 0 ELSE regs["r14"].band, lna |-> bits]]
        /\ asked' = CASE how = "none" -> [asked EXCEPT !.gain = gain]
                      [] how = "read" -> [asked EXCEPT !.gain = Unset, !.freq = Unset]
                      [] OTHER -> asked
  BY DEF Fc0013SetGain, bits
<1>4. "r14" \in DOMAIN regs /\ "r0d" \in DOMAIN regs
  BY <1>1, <1>2 DEF FcTypes, Fc0013Regs
<1>5. DOMAIN regs' = DOMAIN regs /\ \A r \in DOMAIN regs \ {"r14"} : regs'[r] = regs[r]
  BY <1>3
<1>6. /\ how = "write" => regs'["r14"] = regs["r14"]
      /\ how # "write" => /\ DOMAIN regs'["r14"] = {"band", "lna"} /\ regs'["r14"].lna = bits
                          /\ how = "none" => regs'["r14"].band = regs["r14"].band
  BY <1>3, <1>4
<1>7. /\ asked'.mode = asked.mode /\ asked'.bw = asked.bw
      /\ DOMAIN asked' = {"freq", "gain", "mode", "bw"}
      /\ asked'.freq = IF how = "read" THEN Unset ELSE asked.freq
      /\ how = "none" => asked'.gain = gain
      /\ how = "read" => asked'.gain = Unset
      /\ how = "write" => asked'.gain = asked.gain
  BY <1>1, <1>3 DEF FcTypes
<1>8. FcTypes'
  BY <1>1, <1>2, <1>5, <1>6, <1>7 DEF FcTypes
<1>9. (asked.freq # Unset => Fc001xTuned(asked.freq))'
  BY <1>2, <1>5, <1>6, <1>7, Fc001xKept
<1>10. (asked.gain # Unset => regs["r14"].lna = LnaBits(tuner, asked.gain))'
  BY <1>1, <1>2, <1>6, <1>7 DEF FcSettingsHold, bits
<1> QED
  BY <1>1, <1>2, <1>4, <1>5, <1>7, <1>8, <1>9, <1>10 DEF FcInv, FcSettingsHold, FcTypes

(* fc0013_set_gain_mode keeps the invariant.                               *)
LEMMA Fc0013ModeKeeps ==
    ASSUME FcInv, NEW manual \in BOOLEAN, Fc0013SetGainMode(manual)
    PROVE  FcInv'
<1>1. FcTypes /\ FcSettingsHold
  BY DEF FcInv
<1>2. tuner = "FC0013" /\ tuner' = tuner
  BY DEF Fc0013SetGainMode
<1>3. PICK how \in {"none", "read", "write", "ifgain"} :
       /\ regs' = [regs EXCEPT !["r0d"] = IF how = "write" THEN @ ELSE manual,
                               !["r13"] = IF how = "ifgain" THEN @ ELSE 10]
       /\ asked' = [asked EXCEPT !.mode = IF how # "none" THEN "unknown"
                                          ELSE IF manual THEN "manual" ELSE "auto"]
  BY DEF Fc0013SetGainMode
<1>4. {"r0d", "r13", "r14"} \subseteq DOMAIN regs
  BY <1>1, <1>2 DEF FcTypes, Fc0013Regs
<1>5. DOMAIN regs' = DOMAIN regs /\ \A r \in DOMAIN regs \ {"r0d", "r13"} : regs'[r] = regs[r]
  BY <1>3
<1>6. how = "none" => regs'["r0d"] = manual
  BY <1>3, <1>4
<1>7. /\ asked'.freq = asked.freq /\ asked'.bw = asked.bw /\ asked'.gain = asked.gain
      /\ DOMAIN asked' = {"freq", "gain", "mode", "bw"}
      /\ asked'.mode # "unknown" => how = "none" /\ (asked'.mode = "manual") = manual
  BY <1>1, <1>3 DEF FcTypes
<1>8. FcTypes'
  BY <1>1, <1>2, <1>4, <1>5, <1>7 DEF FcTypes
<1>9. (asked.freq # Unset => Fc001xTuned(asked.freq))'
  BY <1>2, <1>4, <1>5, <1>7, Fc001xKept
<1> QED
  BY <1>1, <1>2, <1>4, <1>5, <1>6, <1>7, <1>8, <1>9 DEF FcInv, FcSettingsHold, FcTypes

(* The ten transfers of fc2580_set_freq.                                   *)
LEMMA Fc2580Transfers ==
    ASSUME NEW f, NEW s, s = Fc2580Writes(f)
    PROVE  LET zone == Fc2580Band(f)
               pll == Fc2580Pll(f)
           IN  /\ DOMAIN s = 1..10
               /\ s[1].reg = "front" /\ s[1].val = << zone, f < 538000, f < 794000 >>
               /\ s[2].reg = "filter" /\ s[2].val = BandFilter(zone)
               /\ s[3].reg = "none"
               /\ s[4].reg = "r02" /\ s[4].val = [band |-> zone, high |-> pll.highVco]
               /\ s[5].reg = "r18" /\ s[5].val = pll.r18
               /\ s[6].reg = "r1A" /\ s[6].val = pll.r1A
               /\ s[7].reg = "r1B" /\ s[7].val = pll.r1B
               /\ s[8].reg = "r1C" /\ s[8].val = pll.r1C
               /\ s[9].reg \in {"none", "r2D"} /\ s[10].reg \in {"none", "r2D"}
               /\ zone = "UHF" => /\ s[9].reg = "r2D" /\ s[9].val = (f <= 794000)
                                  /\ s[10].reg = "none"
<1> DEFINE zone == Fc2580Band(f)
           pll == Fc2580Pll(f)
           t == << zone, f < 538000, f < 794000 >>
           low == f <= 794000
           w1 == W("front", t)
           w2 == W("filter", BandFilter(zone))
           w4 == W("r02", [band |-> zone, high |-> pll.highVco])
           w5 == W("r18", pll.r18)
           w6 == W("r1A", pll.r1A)
           w7 == W("r1B", pll.r1B)
           w8 == W("r1C", pll.r1C)
           w9 == Made(zone = "UHF", W("r2D", low))
           w10 == Made(zone = "L", W("r2D", "L"))
<1>1. s = << w1, w2, NoReg, w4, w5, w6, w7, w8, w9, w10 >>
  BY SMT DEF Fc2580Writes
<1> HIDE DEF t, low, zone, pll
<1>2. /\ w1.reg = "front" /\ w1.val = t /\ w2.reg = "filter" /\ w2.val = BandFilter(zone)
      /\ NoReg.reg = "none" /\ w4.reg = "r02" /\ w4.val = [band |-> zone, high |-> pll.highVco]
      /\ w5.reg = "r18" /\ w5.val = pll.r18 /\ w6.reg = "r1A" /\ w6.val = pll.r1A
      /\ w7.reg = "r1B" /\ w7.val = pll.r1B /\ w8.reg = "r1C" /\ w8.val = pll.r1C
      /\ w9.reg \in {"none", "r2D"} /\ w10.reg \in {"none", "r2D"}
      /\ zone = "UHF" => w9.reg = "r2D" /\ w9.val = low /\ w10.reg = "none"
  BY DEF W, NoReg, Made
<1> HIDE DEF w1, w2, w4, w5, w6, w7, w8, w9, w10
<1>3. /\ DOMAIN s = 1..10 /\ s[1] = w1 /\ s[2] = w2 /\ s[3] = NoReg /\ s[4] = w4 /\ s[5] = w5
      /\ s[6] = w6 /\ s[7] = w7 /\ s[8] = w8 /\ s[9] = w9 /\ s[10] = w10
  BY <1>1
<1> QED
  BY <1>2, <1>3, SMT DEF t, low, zone, pll

(* fc2580_set_freq without a failure leaves the registers of the           *)

(* frequency.                                                              *)
LEMMA Fc2580Settles ==
    ASSUME FcTypes, tuner = "FC2580", NEW f \in Nat,
           regs' = RunAll(Fc2580Writes(RoundKhz(f)), {})
    PROVE  Fc2580Tuned(f)' /\ regs'["filter"] = BandFilter(Fc2580Band(RoundKhz(f)))
<1> DEFINE f_lo == RoundKhz(f)
           s == Fc2580Writes(f_lo)
           zone == Fc2580Band(f_lo)
           pll == Fc2580Pll(f_lo)
           front == << zone, f_lo < 538000, f_lo < 794000 >>
           low == f_lo <= 794000
<1>1. /\ DOMAIN s = 1..10
      /\ s[1].reg = "front" /\ s[1].val = front
      /\ s[2].reg = "filter" /\ s[2].val = BandFilter(zone)
      /\ s[3].reg = "none"
      /\ s[4].reg = "r02" /\ s[4].val = [band |-> zone, high |-> pll.highVco]
      /\ s[5].reg = "r18" /\ s[5].val = pll.r18
      /\ s[6].reg = "r1A" /\ s[6].val = pll.r1A
      /\ s[7].reg = "r1B" /\ s[7].val = pll.r1B
      /\ s[8].reg = "r1C" /\ s[8].val = pll.r1C
      /\ s[9].reg \in {"none", "r2D"} /\ s[10].reg \in {"none", "r2D"}
      /\ zone = "UHF" => s[9].reg = "r2D" /\ s[9].val = low /\ s[10].reg = "none"
  BY Fc2580Transfers, SMT
<1> HIDE DEF s, zone, pll, front, low
<1>2. regs' = [r \in DOMAIN regs |-> After(s, 1..10)[r]]
  BY <1>1 DEF RunAll, s
<1> HIDE DEF f_lo
<1>3. \A j \in 1..10 :
        /\ s[j].reg = "front" => j = 1
        /\ s[j].reg = "filter" => j = 2
        /\ s[j].reg = "r02" => j = 4
        /\ s[j].reg = "r18" => j = 5
        /\ s[j].reg = "r1A" => j = 6
        /\ s[j].reg = "r1B" => j = 7
        /\ s[j].reg = "r1C" => j = 8
        /\ s[j].reg = "r2D" => j = 9 \/ j = 10
  BY <1>1
<1>4. 1..10 \in SUBSET Int
  OBVIOUS
<1>5. DOMAIN regs = Fc2580Regs
  BY DEF FcTypes
<1>6. /\ regs'["front"] = front /\ regs'["filter"] = BandFilter(zone)
      /\ regs'["r02"] = [band |-> zone, high |-> pll.highVco]
      /\ regs'["r18"] = pll.r18 /\ regs'["r1A"] = pll.r1A
      /\ regs'["r1B"] = pll.r1B /\ regs'["r1C"] = pll.r1C
  <2>1. \A r \in Fc2580Regs : regs'[r] = After(s, 1..10)[r]
    BY <1>2, <1>5
  <2>2. \A k \in {1, 2, 4, 5, 6, 7, 8} : regs'[s[k].reg] = s[k].val
    <3> TAKE k \in {1, 2, 4, 5, 6, 7, 8}
    <3>1. s[k].reg \in DOMAIN regs /\ k \in 1..10
      BY <1>1, <1>5 DEF Fc2580Regs
    <3>2. \A j \in 1..10 : s[j].reg = s[k].reg => j <= k
      BY <1>1, <1>3
    <3> QED
      BY <1>4, <1>5, <2>1, <3>1, <3>2, LastWrite
  <2> QED
    BY <1>1, <2>2
<1>7. zone = "UHF" => regs'["r2D"] = low
  <2> SUFFICES ASSUME zone = "UHF" PROVE regs'["r2D"] = s[9].val
    BY <1>1
  <2>1. "r2D" \in DOMAIN regs /\ s[9].reg = "r2D" /\ \A j \in 1..10 : s[j].reg = "r2D" => j <= 9
    BY <1>1, <1>3, <1>5 DEF Fc2580Regs
  <2> QED
    BY <1>2, <1>4, <2>1, LastWrite
<1> QED
  BY <1>6, <1>7, SMT DEF Fc2580Tuned, front, low, zone, pll, f_lo

(* A call adds no register.                                                *)
LEMMA RunAllTypes ==
    ASSUME NEW s, NEW lose
    PROVE  DOMAIN RunAll(s, lose) = DOMAIN regs
BY DEF RunAll

(* fc2580_SetRfFreqHz keeps the invariant.                                 *)
LEMMA Fc2580FreqKeeps ==
    ASSUME FcInv, NEW f \in Nat, Fc2580SetFreq(f)
    PROVE  FcInv'
<1>1. FcTypes /\ FcSettingsHold
  BY DEF FcInv
<1>2. tuner = "FC2580" /\ tuner' = tuner
  BY DEF Fc2580SetFreq, Fc2580Call
<1> DEFINE s == Fc2580Writes(RoundKhz(f))
           bw == BandFilter(Fc2580Band(RoundKhz(f)))
<1>3. \/ regs' = RunAll(s, {}) /\ asked' = [asked EXCEPT !.freq = f, !.bw = bw]
      \/ /\ asked' = [asked EXCEPT !.freq = Unset, !.bw = Unset]
         /\ \E lose \in LostSets(s) : regs' = RunAll(s, lose)
  BY DEF Fc2580SetFreq, Fc2580Call
<1> HIDE DEF s, bw
<1>4. DOMAIN regs' = DOMAIN regs
  BY <1>3, RunAllTypes
<1>5. /\ asked'.gain = asked.gain /\ asked'.mode = asked.mode
      /\ DOMAIN asked' = {"freq", "gain", "mode", "bw"}
  BY <1>1, <1>3 DEF FcTypes
<1>6. FcTypes'
  BY <1>1, <1>2, <1>4, <1>5 DEF FcTypes
<1>7. asked'.gain = Unset
  BY <1>1, <1>2, <1>5 DEF FcTypes
<1>8. CASE asked'.freq = Unset /\ asked'.bw = Unset
  BY <1>2, <1>6, <1>7, <1>8 DEF FcInv, FcSettingsHold
<1>9. CASE regs' = RunAll(s, {}) /\ asked'.freq = f /\ asked'.bw = bw
  <2>1. Fc2580Tuned(f)' /\ regs'["filter"] = bw
    BY <1>1, <1>2, <1>9, Fc2580Settles DEF s, bw
  <2>2. Fc2580Tuned(asked.freq)'
    BY <1>9, <2>1, SMT DEF Fc2580Tuned
  <2> QED
    BY <1>2, <1>6, <1>7, <1>9, <2>1, <2>2 DEF FcInv, FcSettingsHold
<1> QED
  BY <1>1, <1>3, <1>8, <1>9 DEF FcTypes

(* fc2580_set_bw keeps the invariant: a lost transfer only leaves the      *)

(* filter in doubt.                                                        *)
LEMMA Fc2580BwKeeps ==
    ASSUME FcInv, Fc2580SetBw
    PROVE  FcInv'
<1>1. FcTypes /\ FcSettingsHold
  BY DEF FcInv
<1>2. tuner = "FC2580" /\ tuner' = tuner
  BY DEF Fc2580SetBw, Fc2580Call
<1> DEFINE s == << W("filter", 1), NoReg >>
<1>3. \/ regs' = RunAll(s, {}) /\ asked' = [asked EXCEPT !.bw = 1]
      \/ /\ asked' = [asked EXCEPT !.bw = Unset]
         /\ \E lose \in LostSets(s) : regs' = RunAll(s, lose)
  BY DEF Fc2580SetBw, Fc2580Call
<1>4. DOMAIN s = {1, 2} /\ s[1].reg = "filter" /\ s[1].val = 1 /\ s[2].reg = "none"
  BY DEF W, NoReg
<1> HIDE DEF s
<1>5. DOMAIN regs' = DOMAIN regs
  BY <1>3, RunAllTypes
<1>6. /\ asked'.gain = asked.gain /\ asked'.mode = asked.mode /\ asked'.freq = asked.freq
      /\ DOMAIN asked' = {"freq", "gain", "mode", "bw"} /\ asked'.bw \in {1, Unset}
  BY <1>1, <1>3 DEF FcTypes
<1>7. FcTypes'
  BY <1>1, <1>2, <1>5, <1>6 DEF FcTypes
<1>8. asked'.gain = Unset
  BY <1>1, <1>2, <1>6 DEF FcTypes
<1>9. ASSUME NEW lose \in SUBSET {1, 2}, NEW r \in DOMAIN regs \ {"filter", "none"}
      PROVE  RunAll(s, lose)[r] = regs[r]
  <2>1. \A k \in {1, 2} : s[k].reg # r
    BY <1>4
  <2>2. After(s, DOMAIN s \ lose)[r] = regs[r]
    BY <1>4, <2>1, NoWrite
  <2> QED
    BY <2>1, <2>2 DEF RunAll
<1>10. "none" \notin DOMAIN regs /\ "filter" \in DOMAIN regs
  BY <1>1, <1>2 DEF FcTypes, Fc2580Regs
<1>11. \A r \in DOMAIN regs \ {"filter"} : regs'[r] = regs[r]
  <2>1. CASE regs' = RunAll(s, {})
    BY <1>9, <1>10, <2>1
  <2>2. CASE \E lose \in LostSets(s) : regs' = RunAll(s, lose)
    <3>1. PICK lose \in LostSets(s) : regs' = RunAll(s, lose)
      BY <2>2
    <3>2. \A k \in {1, 2} : k..Len(s) \subseteq {1, 2}
      BY DEF s
    <3>3. lose \subseteq {1, 2}
      BY <1>4, <3>1, <3>2 DEF LostSets
    <3> QED
      BY <1>9, <1>10, <3>1, <3>3
  <2> QED
    BY <1>3, <2>1, <2>2
<1>12. asked'.bw # Unset => regs'["filter"] = asked'.bw
  <2> SUFFICES ASSUME asked'.bw # Unset PROVE regs'["filter"] = asked'.bw
    OBVIOUS
  <2>1. regs' = RunAll(s, {}) /\ asked'.bw = 1
    BY <1>1, <1>3 DEF FcTypes
  <2>2. 1 \in {1, 2} /\ s[1].reg = "filter" /\ \A j \in {1, 2} : s[j].reg = "filter" => j <= 1
    BY <1>4
  <2>3. After(s, {1, 2})["filter"] = s[1].val
    BY <1>10, <2>2, LastWrite
  <2>4. regs'["filter"] = After(s, {1, 2})["filter"]
    BY <1>4, <1>10, <2>1 DEF RunAll
  <2> QED
    BY <1>4, <2>1, <2>3, <2>4
<1>13. asked'.freq # Unset => Fc2580Tuned(asked.freq)'
  <2>1. {"front", "r02", "r18", "r1A", "r1B", "r1C", "r2D"} \subseteq DOMAIN regs \ {"filter"}
    BY <1>1, <1>2 DEF FcTypes, Fc2580Regs
  <2>2. asked.freq # Unset => Fc2580Tuned(asked.freq)
    BY <1>1, <1>2 DEF FcSettingsHold
  <2>3. \A r \in {"front", "r02", "r18", "r1A", "r1B", "r1C", "r2D"} : regs'[r] = regs[r]
    BY <1>11, <2>1
  <2> QED
    BY <1>6, <2>2, <2>3, SMT DEF Fc2580Tuned
<1> QED
  BY <1>2, <1>7, <1>8, <1>12, <1>13 DEF FcInv, FcSettingsHold

(* fc0012_set_params and fc0013_set_params: from 11 MHz on, and up to where *)
(* freq * multi leaves 32 bits with the smallest multi of the table, the    *)
(* divider is one for which pm does not wrap.                               *)
THEOREM XdivInRange ==
    ASSUME NEW model, NEW f \in Nat, 11000000 <= f,
           f < IF model = "FC0012" THEN 1073741824 ELSE 2147483648
    PROVE  Xdiv(FVco(model, f)) \notin {0, 1}
<1> DEFINE u == f \div Unit
           m == DividerRow(model, f).multi
<1>1. u \in Nat /\ 21484 <= u /\ u < IF model = "FC0012" THEN 2097152 ELSE 4194304
  BY SMT DEF Unit
<1>2. m \in {2, 4, 6, 8, 12, 16, 24, 32, 48, 64, 96} /\ u * m < 8388608
  <2>1. PICK n \in DOMAIN Rows(model) :
             /\ DividerRow(model, f) = Rows(model)[n]
             /\ n = Len(Rows(model)) \/ f < 1000 * Rows(model)[n].limit
    BY RowIsBelow, SMT
  <2>2. CASE model = "FC0012"
    <3>1. \A k \in DOMAIN Fc0012Rows : k = Len(Fc0012Rows) \/ f < 1000 * Fc0012Rows[k].limit =>
             Fc0012Rows[k].multi \in {4, 6, 8, 12, 16, 24, 32, 48, 64, 96} /\ u * Fc0012Rows[k].multi < 8388608
      <4>1. DOMAIN Fc0012Rows = 1..10 /\ Len(Fc0012Rows) = 10
        BY SMT DEF Fc0012Rows
      <4>2. 512 * u <= f /\ u \in Nat /\ u < 2097152
        BY <1>1, <2>2, SMT DEF Unit
      <4> HIDE DEF u
      <4> QED
        BY <4>1, <4>2, SMTT(60) DEF Fc0012Rows, Row
    <3> HIDE DEF u
    <3> QED
      BY <2>1, <2>2, <3>1, SMT DEF Rows
  <2>3. CASE model # "FC0012"
    <3>1. \A k \in DOMAIN Fc0013Rows : k = Len(Fc0013Rows) \/ f < 1000 * Fc0013Rows[k].limit =>
             Fc0013Rows[k].multi \in {2, 4, 6, 8, 12, 16, 24, 32, 48, 64, 96} /\ u * Fc0013Rows[k].multi < 8388608
      <4>1. DOMAIN Fc0013Rows = 1..11 /\ Len(Fc0013Rows) = 11
        BY SMT DEF Fc0013Rows
      <4>2. 512 * u <= f /\ u \in Nat /\ u < 4194304
        BY <1>1, <2>3, SMT DEF Unit
      <4> HIDE DEF u
      <4> QED
        BY <4>1, <4>2, SMTT(60) DEF Fc0013Rows, Row
    <3> HIDE DEF u
    <3> QED
      BY <2>1, <2>3, <3>1, SMT DEF Rows
  <2> QED
    BY <2>2, <2>3
<1>3. FVco(model, f) = (u * m) % VcoWord
  BY SMT DEF FVco
<1> HIDE DEF u, m
<1>4. u * m >= 42968 /\ u * m \in Nat
  BY <1>1, <1>2, SMT
<1>5. FVco(model, f) = u * m
  BY <1>2, <1>3, <1>4, SMT DEF VcoWord
<1> DEFINE v == FVco(model, f)
<1>6. v \in Nat /\ 42968 <= v
  BY <1>4, <1>5, SMT
<1> HIDE DEF v
<1>7. Xdiv(v) \notin {0, 1}
  BY <1>6, SMT DEF Xdiv, XtalDiv2
<1> QED
  BY <1>7, SMT DEF v

(* The history says no more than the chip: what the FC0012, FC0013 and     *)
(* FC2580 drivers reported as done is in the registers, for any calls, any  *)
(* order of them and any number of failed transfers.  The hypothesis leaves *)
(* out the frequencies whose xdiv is 0 or 1: fc0012_set_params and          *)
(* fc0013_set_params take the borrow of pm for a divider that is too large, *)
(* program another one and report success.  XdivInRange gives frequencies  *)
(* that satisfy it.                                                        *)
THEOREM FcSettingsAreHeld ==
    ASSUME \A f \in FcFreqs : \A model \in {"FC0012", "FC0013"} :
             Xdiv(FVco(model, f)) \notin {0, 1}
    PROVE  MCSpec => []FcSettingsHold
<1> USE FcAssumption DEF FcAssumption
<1>1. MCInit => FcInv
  <2> SUFFICES ASSUME MCInit PROVE FcInv
    OBVIOUS
  <2>1. /\ regs = InitRegs(tuner)
        /\ asked = [freq |-> Unset, gain |-> Unset, mode |-> "unknown", bw |-> Unset]
    BY DEF MCInit, FcInit
  <2>2. FcTypes
    BY <2>1 DEF InitRegs, FcTypes, Fc0012Regs, Fc0013Regs, Fc2580Regs
  <2> QED
    BY <2>1, <2>2 DEF FcInv, FcSettingsHold
<1>2. FcInv /\ [E4kCalls \/ FcCalls \/ R82xxCalls]_<< vars, fcVars, r82xxVars >> => FcInv'
  <2> SUFFICES ASSUME FcInv, [E4kCalls \/ FcCalls \/ R82xxCalls]_<< vars, fcVars, r82xxVars >>
               PROVE  FcInv'
    OBVIOUS
  <2>1. tuner' = tuner /\ [FcNext]_fcVars
    BY OneTuner DEF fcVars
  <2>2. ASSUME UNCHANGED << regs, asked >> PROVE FcInv'
    BY <2>1, <2>2, SMT DEF FcInv, FcTypes, FcSettingsHold, Fc001xTuned, Fc2580Tuned
  <2>3. ASSUME NEW on \in BOOLEAN, SetBiasTee(on) PROVE FcInv'
    BY <2>2, <2>3 DEF SetBiasTee
  <2>4. ASSUME NEW on \in BOOLEAN, Fc0013SetGainMode(on) PROVE FcInv'
    BY <2>4, Fc0013ModeKeeps
  <2>5. ASSUME NEW f \in FcFreqs, Fc0012SetFreq(f) PROVE FcInv'
    <3>1. tuner = "FC0012" /\ \E fails \in BOOLEAN : SetParams(f, fails)
      <4>1. PICK how \in {"none", "gpioread", "gpiowrite", "tuner"} : SetParams(f, how = "tuner")
        BY <2>5, SMT DEF Fc0012SetFreq
      <4>2. (how = "tuner") \in BOOLEAN /\ tuner = "FC0012"
        BY <2>5, SMT DEF Fc0012SetFreq
      <4> QED
        BY <4>1, <4>2
    <3>2. f \in Nat /\ Xdiv(FVco(tuner, f)) \notin {0, 1}
      BY <3>1
    <3> QED
      BY <2>1, <3>1, <3>2, SetParamsKeeps
  <2>6. ASSUME NEW f \in FcFreqs, Fc0013SetFreq(f) PROVE FcInv'
    <3>1. tuner = "FC0013" /\ \E fails \in BOOLEAN : SetParams(f, fails)
      BY <2>6 DEF Fc0013SetFreq
    <3>2. f \in Nat /\ Xdiv(FVco(tuner, f)) \notin {0, 1}
      BY <3>1
    <3> QED
      BY <2>1, <3>1, <3>2, SetParamsKeeps
  <2>7. ASSUME NEW f \in FcFreqs, Fc2580SetFreq(f) PROVE FcInv'
    BY <2>7, Fc2580FreqKeeps
  <2>8. ASSUME NEW g \in FcGains, Fc0012SetGain(g) \/ Fc0013SetGain(g) PROVE FcInv'
    BY <2>8, Fc0012GainKeeps, Fc0013GainKeeps
  <2>9. ASSUME Fc2580SetBw PROVE FcInv'
    BY <2>9, Fc2580BwKeeps
  <2>10. ASSUME UNCHANGED fcVars PROVE FcInv'
    BY <2>2, <2>10 DEF fcVars
  <2> QED
    BY <2>1, <2>3, <2>4, <2>5, <2>6, <2>7, <2>8, <2>9, <2>10 DEF FcNext
<1>3. FcInv => FcSettingsHold
  BY DEF FcInv
<1> QED
  BY <1>1, <1>2, <1>3, PTL DEF MCSpec

-----------------------------------------------------------------------------
(* The R82xx driver: what a call made of writes leaves in the registers.   *)

(* The last of a set of write numbers, when every other is before it.      *)
LEMMA LastNumber ==
    ASSUME NEW hits \in SUBSET Int, NEW k \in hits, \A j \in hits : j <= k
    PROVE  R!Max(hits) = k
<1>1. \A j \in hits : k >= j
  OBVIOUS
<1>2. \A m \in hits : (\A j \in hits : m >= j) => m = k
  BY <1>1
<1>3. R!Max(hits) \in hits /\ \A j \in hits : R!Max(hits) >= j
  BY <1>1, Zenon DEF R!Max
<1> QED
  BY <1>2, <1>3

(* A field holds what the last write of it made of those in done put there.*)
LEMMA FieldWritten ==
    ASSUME NEW old, NEW to, NEW s, NEW done \in SUBSET Int, NEW f \in DOMAIN old, NEW k \in done,
           s[k].reg = to, f \in DOMAIN s[k].val,
           \A j \in done : s[j].reg = to /\ f \in DOMAIN s[j].val => j <= k
    PROVE  R!Masked(old, to, s, done)[f] = s[k].val[f]
<1> DEFINE hits == {j \in done : s[j].reg = to /\ f \in DOMAIN s[j].val}
<1>1. hits \in SUBSET Int /\ k \in hits /\ \A j \in hits : j <= k
  OBVIOUS
<1>2. R!Masked(old, to, s, done)[f] = IF hits = {} THEN old[f] ELSE s[R!Max(hits)].val[f]
  BY DEF R!Masked
<1> HIDE DEF hits
<1> QED
  BY <1>1, <1>2, LastNumber

(* A field none of the writes names is as it was.                          *)
LEMMA FieldKept ==
    ASSUME NEW old, NEW to, NEW s, NEW done, NEW f \in DOMAIN old,
           \A k \in done : ~(s[k].reg = to /\ f \in DOMAIN s[k].val)
    PROVE  R!Masked(old, to, s, done)[f] = old[f]
BY DEF R!Masked

(* A write sends its whole register: after the last one the chip's register*)
(* is the shadow's.                                                        *)
LEMMA SentWhole ==
    ASSUME NEW start, NEW old, NEW s, NEW n \in Nat, NEW r \in DOMAIN start, DOMAIN old = DOMAIN start,
           NEW k \in 1..n, s[k].reg = r, \A j \in 1..n : s[j].reg = r => j <= k
    PROVE  R!Sent(start, old, s, 1..n)[r] = R!Shadow(start, s, n)[r]
<1> DEFINE writes == {j \in 1..n : s[j].reg = r}
<1>1. writes \in SUBSET Int /\ k \in writes /\ \A j \in writes : j <= k
  OBVIOUS
<1>2. R!Sent(start, old, s, 1..n)[r] = IF writes = {} THEN old[r] ELSE R!Shadow(start, s, R!Max(writes))[r]
  BY DEF R!Sent
<1>3. R!Sent(start, old, s, 1..n)[r] = R!Shadow(start, s, k)[r]
  <2> HIDE DEF writes
  <2> QED
    BY <1>1, <1>2, LastNumber
<1>4. ASSUME NEW f
      PROVE  {j \in 1..k : s[j].reg = r /\ f \in DOMAIN s[j].val}
               = {j \in 1..n : s[j].reg = r /\ f \in DOMAIN s[j].val}
  OBVIOUS
<1>5. R!Masked(start[r], r, s, 1..k) = R!Masked(start[r], r, s, 1..n)
  BY <1>4 DEF R!Masked
<1> QED
  BY <1>3, <1>5 DEF R!Shadow

(* A register nothing is sent to is as it was.                             *)
LEMMA NotSent ==
    ASSUME NEW start, NEW old, NEW s, NEW done, NEW r \in DOMAIN old,
           \A j \in done : s[j].reg # r
    PROVE  R!Sent(start, old, s, done)[r] = old[r]
BY DEF R!Sent

(* The registers have the fields the model gives them.                     *)
Shape(x) ==
  /\ DOMAIN x = {"r05", "r06", "r17", "r1b", "r14", "r0b"}
  /\ DOMAIN x["r05"] = {"cable1", "air_off", "gain"}
  /\ DOMAIN x["r06"] = {"cable2"} /\ DOMAIN x["r17"] = {"notch"}
  /\ DOMAIN x["r1b"] = {"filter"} /\ DOMAIN x["r14"] = {"lo"} /\ DOMAIN x["r0b"] = {"bw"}

(* Writes keep the fields the registers have.                              *)
LEMMA ShapeKept ==
    ASSUME NEW start, NEW old, NEW s, NEW done, NEW n, Shape(start), Shape(old)
    PROVE  Shape(R!Shadow(start, s, n)) /\ Shape(R!Sent(start, old, s, done))
<1>1. \A m : DOMAIN R!Shadow(start, s, m) = DOMAIN start
  BY DEF R!Shadow
<1>2. \A m : \A r \in DOMAIN start : DOMAIN R!Shadow(start, s, m)[r] = DOMAIN start[r]
  BY DEF R!Shadow, R!Masked
<1>3. DOMAIN R!Sent(start, old, s, done) = DOMAIN old
  BY DEF R!Sent
<1>4. \A r \in DOMAIN old : \/ R!Sent(start, old, s, done)[r] = old[r]
                           \/ \E m : R!Sent(start, old, s, done)[r] = R!Shadow(start, s, m)[r]
  BY DEF R!Sent
<1>5. \A r \in DOMAIN old : DOMAIN R!Sent(start, old, s, done)[r] = DOMAIN old[r]
  <2> TAKE r \in DOMAIN old
  <2>1. DOMAIN start[r] = DOMAIN old[r] /\ r \in DOMAIN start
    BY DEF Shape
  <2> QED
    BY <1>2, <1>4, <2>1
<1> QED
  BY <1>1, <1>2, <1>3, <1>5 DEF Shape

(* What a step of a call is: a write of v to a register, or no write.      *)
Written(w, to, v) == w.reg = to /\ w.val = v
Skipped(w) == w.reg = "none"

(* r82xx_set_freq switches the input.                                      *)
Moves(f) == R!Band(f) # priv.input /\ board # "R820T"

(* What its write of r05 selects.                                          *)
InputBits(f) ==
  CASE board = "V4" -> [cable1 |-> R!Band(f) = "VHF"]
    [] board = "V4L" -> [cable1 |-> R!Band(f) = "HF"]
    [] OTHER -> [cable1 |-> R!Band(f) = "cable", air_off |-> R!Band(f) = "cable"]

(* The eleven writes of r82xx_set_freq, each made or not, spelled out.     *)
SetFreqWrites(s, f, locks) ==
  /\ Len(s) = 11 /\ DOMAIN s = 1..11
  /\ Written(s[1], "r17", [notch |-> R!RangeOpenD(R!LoFreq(f))])
  /\ Written(s[2], "r1b", [filter |-> R!FreqRange(R!LoFreq(f))])
  /\ Written(s[3], "r14", [lo |-> R!LoFreq(f)])
  /\ Written(s[4], "priv", [g \in {"has_lock"} |-> locks])
  /\ IF locks /\ board = "V4" THEN Written(s[5], "r17", [notch |-> R!Notch(f)]) ELSE Skipped(s[5])
  /\ IF locks /\ board \in {"V4", "V4L"} /\ R!Band(f) = "HF"
     THEN Written(s[6], "r1b", [filter |-> R!Bypass]) ELSE Skipped(s[6])
  /\ IF locks /\ Moves(f) THEN Written(s[7], "priv", [g \in {"input"} |-> R!Band(f)]) ELSE Skipped(s[7])
  /\ IF locks /\ Moves(f) /\ board = "V4"
     THEN Written(s[8], "r06", [cable2 |-> R!Band(f) = "HF"]) ELSE Skipped(s[8])
  /\ IF locks /\ Moves(f) /\ board # "R828D"
     THEN Written(s[9], "gpio5", [on |-> R!Band(f) # "HF"]) ELSE Skipped(s[9])
  /\ IF locks /\ Moves(f) THEN Written(s[10], "r05", InputBits(f)) ELSE Skipped(s[10])
  /\ IF locks /\ Moves(f) /\ board # "R828D"
     THEN Written(s[11], "r05", [air_off |-> R!Band(f) # "UHF"]) ELSE Skipped(s[11])

(* A conditional write is a write or none.                                 *)
LEMMA MadeWrites ==
    ASSUME NEW c \in BOOLEAN, NEW r, NEW v
    PROVE  IF c THEN Written(R!Made(c, R!W(r, v)), r, v) ELSE Skipped(R!Made(c, R!W(r, v)))
BY DEF R!Made, R!W, Written, Skipped

(* The same for a write under two conditions.                              *)
LEMMA MadeTwice ==
    ASSUME NEW c, NEW d, NEW r, NEW v
    PROVE  IF c /\ d THEN Written(R!Made(c, R!Made(d, R!W(r, v))), r, v)
                     ELSE Skipped(R!Made(c, R!Made(d, R!W(r, v))))
<1>1. CASE c /\ d
  BY <1>1 DEF R!Made, R!W, Written, Skipped
<1>2. CASE c /\ ~d
  BY <1>2 DEF R!Made, R!W, Written, Skipped
<1>3. CASE ~c
  BY <1>3 DEF R!Made, R!W, Written, Skipped
<1> QED
  BY <1>1, <1>2, <1>3

(* The call's list of writes is the one spelled out.                       *)
LEMMA SetFreqIsWrites ==
    ASSUME NEW f, NEW locks \in BOOLEAN
    PROVE  SetFreqWrites(R!SetFreqSteps(f, locks), f, locks)
<1> DEFINE s == R!SetFreqSteps(f, locks)
           sw == R!SwitchSteps(R!Band(f))
           mux == R!MuxSteps(R!LoFreq(f))
           bp == R!BypassStep(R!Band(f))
           nv == [notch |-> R!Notch(f)]
           lo == R!LoFreq(f)
<1>1. s = << mux[1], mux[2], R!W("r14", [lo |-> lo]), R!Assign("has_lock", locks),
         R!Made(locks /\ board = "V4", R!W("r17", nv)),
         R!Made(locks /\ board \in {"V4", "V4L"}, bp),
         R!Made(locks, sw[1]), R!Made(locks, sw[2]), R!Made(locks, sw[3]),
         R!Made(locks, sw[4]), R!Made(locks, sw[5]) >>
  BY DEF R!SetFreqSteps, R!Reg
<1> HIDE DEF s, sw, mux, bp, nv, lo
<1>2. /\ Len(s) = 11 /\ DOMAIN s = 1..11 /\ s[1] = mux[1] /\ s[2] = mux[2]
      /\ s[3] = R!W("r14", [lo |-> lo]) /\ s[4] = R!Assign("has_lock", locks)
      /\ s[5] = R!Made(locks /\ board = "V4", R!W("r17", nv))
      /\ s[6] = R!Made(locks /\ board \in {"V4", "V4L"}, bp)
      /\ s[7] = R!Made(locks, sw[1]) /\ s[8] = R!Made(locks, sw[2]) /\ s[9] = R!Made(locks, sw[3])
      /\ s[10] = R!Made(locks, sw[4]) /\ s[11] = R!Made(locks, sw[5])
  BY <1>1
<1>3. mux[1] = R!W("r17", [notch |-> R!RangeOpenD(lo)]) /\ mux[2] = R!W("r1b", [filter |-> R!FreqRange(lo)])
  BY DEF mux, R!MuxSteps, lo, R!Reg
<1> DEFINE mv == Moves(f)
           v1 == [g \in {"input"} |-> R!Band(f)]
           v2 == [cable2 |-> R!Band(f) = "HF"]
           v3 == [on |-> R!Band(f) # "HF"]
           v4 == InputBits(f)
           v5 == [air_off |-> R!Band(f) # "UHF"]
<1>4. sw = << R!Made(mv, R!W("priv", v1)), R!Made(mv /\ board = "V4", R!W("r06", v2)),
              R!Made(mv /\ board # "R828D", R!W("gpio5", v3)), R!Made(mv, R!W("r05", v4)),
              R!Made(mv /\ board # "R828D", R!W("r05", v5)) >>
  BY Zenon DEF sw, R!SwitchSteps, Moves, InputBits, R!Assign, R!Reg, R!Gpio5
<1>5. mv \in BOOLEAN
  BY DEF Moves
<1> HIDE DEF mv, v1, v2, v3, v4, v5
<1>6. /\ sw[1] = R!Made(mv, R!W("priv", v1))
      /\ sw[2] = R!Made(mv /\ board = "V4", R!W("r06", v2))
      /\ sw[3] = R!Made(mv /\ board # "R828D", R!W("gpio5", v3))
      /\ sw[4] = R!Made(mv, R!W("r05", v4))
      /\ sw[5] = R!Made(mv /\ board # "R828D", R!W("r05", v5))
  BY <1>4
<1>7. \A r, v : Written(R!W(r, v), r, v)
  BY DEF Written, R!W
<1>8. /\ Written(s[1], "r17", [notch |-> R!RangeOpenD(lo)])
      /\ Written(s[2], "r1b", [filter |-> R!FreqRange(lo)])
      /\ Written(s[3], "r14", [lo |-> lo])
  BY <1>2, <1>3, <1>7, Zenon
<1>9. Written(s[4], "priv", [g \in {"has_lock"} |-> locks])
  BY <1>2, <1>7, Zenon DEF R!Assign
<1>10. IF locks /\ board = "V4" THEN Written(s[5], "r17", nv) ELSE Skipped(s[5])
  BY <1>2, MadeWrites, Zenon
<1>11. IF locks /\ board \in {"V4", "V4L"} /\ R!Band(f) = "HF"
       THEN Written(s[6], "r1b", [filter |-> R!Bypass]) ELSE Skipped(s[6])
  <2>1. s[6] = R!Made(locks /\ board \in {"V4", "V4L"},
                 R!Made(R!Band(f) = "HF", R!W("r1b", [filter |-> R!Bypass])))
    BY <1>2, Zenon DEF bp, R!BypassStep, R!Reg
  <2> DEFINE w == s[6]
  <2>2. w = R!Made(locks /\ board \in {"V4", "V4L"},
                 R!Made(R!Band(f) = "HF", R!W("r1b", [filter |-> R!Bypass])))
    BY <2>1
  <2> HIDE DEF w
  <2>3. IF (locks /\ board \in {"V4", "V4L"}) /\ R!Band(f) = "HF"
        THEN Written(w, "r1b", [filter |-> R!Bypass]) ELSE Skipped(w)
    BY <2>2, MadeTwice, Zenon
  <2> QED
    BY <2>3, Zenon DEF w
<1>12. /\ IF locks /\ mv THEN Written(s[7], "priv", v1) ELSE Skipped(s[7])
       /\ IF locks /\ mv THEN Written(s[10], "r05", v4) ELSE Skipped(s[10])
  BY <1>2, <1>6, MadeTwice, Zenon
<1>13. /\ IF locks /\ mv /\ board = "V4" THEN Written(s[8], "r06", v2) ELSE Skipped(s[8])
       /\ IF locks /\ mv /\ board # "R828D" THEN Written(s[9], "gpio5", v3) ELSE Skipped(s[9])
       /\ IF locks /\ mv /\ board # "R828D" THEN Written(s[11], "r05", v5) ELSE Skipped(s[11])
  <2> DEFINE c2 == mv /\ board = "V4"
             c3 == mv /\ board # "R828D"
  <2>1. /\ s[8] = R!Made(locks, R!Made(c2, R!W("r06", v2)))
        /\ s[9] = R!Made(locks, R!Made(c3, R!W("gpio5", v3)))
        /\ s[11] = R!Made(locks, R!Made(c3, R!W("r05", v5)))
    BY <1>2, <1>6, Zenon
  <2> HIDE DEF c2, c3
  <2>2. /\ IF locks /\ c2 THEN Written(s[8], "r06", v2) ELSE Skipped(s[8])
        /\ IF locks /\ c3 THEN Written(s[9], "gpio5", v3) ELSE Skipped(s[9])
        /\ IF locks /\ c3 THEN Written(s[11], "r05", v5) ELSE Skipped(s[11])
    BY <2>1, MadeTwice, Zenon
  <2> QED
    BY <2>2, Zenon DEF c2, c3
<1> QED
  BY <1>2, <1>8, <1>9, <1>10, <1>11, <1>12, <1>13, Zenon
    DEF SetFreqWrites, s, nv, lo, mv, v1, v2, v3, v4, v5

(* Which write of r82xx_set_freq goes to which register.                   *)
Targets(s) ==
  \A j \in 1..11 :
    /\ s[j].reg = "r17" => j \in {1, 5}
    /\ s[j].reg = "r1b" => j \in {2, 6}
    /\ s[j].reg = "r14" => j = 3
    /\ s[j].reg = "r06" => j = 8
    /\ s[j].reg = "r05" => j \in {10, 11}
    /\ s[j].reg = "gpio5" => j = 9
    /\ s[j].reg = "priv" => j \in {4, 7}
    /\ s[j].reg # "r0b"

(* No other write of r82xx_set_freq goes there.                            *)
LEMMA SetFreqTargets ==
    ASSUME NEW f, NEW locks, NEW s, SetFreqWrites(s, f, locks)
    PROVE  Targets(s)
<1>1. /\ s[1].reg = "r17" /\ s[2].reg = "r1b" /\ s[3].reg = "r14" /\ s[4].reg = "priv"
      /\ s[5].reg \in {"r17", "none"} /\ s[6].reg \in {"r1b", "none"}
      /\ s[7].reg \in {"priv", "none"} /\ s[8].reg \in {"r06", "none"}
      /\ s[9].reg \in {"gpio5", "none"} /\ s[10].reg \in {"r05", "none"}
      /\ s[11].reg \in {"r05", "none"}
  BY DEF SetFreqWrites, Written, Skipped
<1> QED
  BY <1>1 DEF Targets

(* Write k is the last of the first n that sends register r.               *)
LastSend(s, n, r, k) == k \in 1..n /\ s[k].reg = r /\ \A j \in 1..n : s[j].reg = r => j <= k

(* What the last write to a register sets is in the chip and in the shadow.*)
LEMMA RegWritten ==
    ASSUME NEW start, NEW old, NEW s, NEW n \in Nat, NEW r \in DOMAIN start, DOMAIN old = DOMAIN start,
           NEW k, LastSend(s, n, r, k), NEW f \in DOMAIN start[r], f \in DOMAIN s[k].val
    PROVE  /\ R!Sent(start, old, s, 1..n)[r][f] = s[k].val[f]
           /\ R!Shadow(start, s, n)[r][f] = s[k].val[f]
<1>1. R!Sent(start, old, s, 1..n)[r] = R!Shadow(start, s, n)[r]
  BY SentWhole DEF LastSend
<1>2. R!Shadow(start, s, n)[r] = R!Masked(start[r], r, s, 1..n)
  BY DEF R!Shadow
<1>3. 1..n \in SUBSET Int
  OBVIOUS
<1>4. R!Masked(start[r], r, s, 1..n)[f] = s[k].val[f]
  BY <1>3, FieldWritten DEF LastSend
<1> QED
  BY <1>1, <1>2, <1>4

(* A tuning that locks leaves the oscillator, the tracking filter and the  *)
(* notch as its frequency asks.                                            *)
LEMMA TunedPath ==
    ASSUME Shape(shadow), Shape(r82xx), NEW f, NEW s, SetFreqWrites(s, f, TRUE),
           shadow' = R!Shadow(shadow, s, 11), r82xx' = R!Sent(shadow, r82xx, s, 1..11)
    PROVE  /\ r82xx'["r14"]["lo"] = R!LoFreq(f)
           /\ r82xx'["r1b"]["filter"] =
                IF board \in {"V4", "V4L"} /\ R!Band(f) = "HF" THEN R!Bypass
                ELSE R!FreqRange(R!LoFreq(f))
           /\ board = "V4" => r82xx'["r17"]["notch"] = R!Notch(f)
<1> DEFINE lo == R!LoFreq(f)
           fr == R!FreqRange(lo)
           hf == board \in {"V4", "V4L"} /\ R!Band(f) = "HF"
           nt == R!Notch(f)
<1>1. /\ s[2].reg = "r1b" /\ s[2].val = [filter |-> fr]
      /\ s[3].reg = "r14" /\ s[3].val = [lo |-> lo]
      /\ board = "V4" => s[5].reg = "r17" /\ s[5].val = [notch |-> nt]
      /\ IF hf THEN s[6].reg = "r1b" /\ s[6].val = [filter |-> R!Bypass] ELSE s[6].reg = "none"
  BY Zenon DEF SetFreqWrites, Written, Skipped
<1>2. \A j \in 1..11 : /\ s[j].reg = "r17" => j \in {1, 5}
                       /\ s[j].reg = "r1b" => j \in {2, 6}
                       /\ s[j].reg = "r14" => j = 3
  <2>1. Targets(s)
    BY SetFreqTargets
  <2> QED
    BY <2>1 DEF Targets
<1> DEFINE n == 11
<1>n. r82xx' = R!Sent(shadow, r82xx, s, 1..n) /\ n \in Nat
  OBVIOUS
<1>m. n = 11
  OBVIOUS
<1> HIDE DEF lo, fr, hf, nt, n
<1>3. /\ "r14" \in DOMAIN shadow /\ "r1b" \in DOMAIN shadow /\ "r17" \in DOMAIN shadow
      /\ DOMAIN r82xx = DOMAIN shadow
      /\ "lo" \in DOMAIN shadow["r14"] /\ "filter" \in DOMAIN shadow["r1b"]
      /\ "notch" \in DOMAIN shadow["r17"]
  BY DEF Shape
<1>4. r82xx'["r14"]["lo"] = lo
  <2>1. LastSend(s, n, "r14", 3)
    BY <1>1, <1>2, <1>m DEF LastSend
  <2>0. "lo" \in DOMAIN s[3].val /\ s[3].val["lo"] = lo
    BY <1>1
  <2>2. R!Sent(shadow, r82xx, s, 1..n)["r14"]["lo"] = s[3].val["lo"]
    BY <1>3, <1>n, <2>0, <2>1, RegWritten
  <2> QED
    BY <1>n, <2>0, <2>2
<1>5. hf => r82xx'["r1b"]["filter"] = R!Bypass
  <2> SUFFICES ASSUME hf PROVE r82xx'["r1b"]["filter"] = R!Bypass
    OBVIOUS
  <2>1. LastSend(s, n, "r1b", 6)
    BY <1>1, <1>2, <1>m DEF LastSend
  <2>0. "filter" \in DOMAIN s[6].val
        /\ s[6].val["filter"] = R!Bypass
    BY <1>1
  <2>2. R!Sent(shadow, r82xx, s, 1..n)["r1b"]["filter"] = s[6].val["filter"]
    BY <1>3, <1>n, <2>0, <2>1, RegWritten
  <2> QED
    BY <1>n, <2>0, <2>2
<1>6. ~hf => r82xx'["r1b"]["filter"] = fr
  <2> SUFFICES ASSUME ~hf PROVE r82xx'["r1b"]["filter"] = fr
    OBVIOUS
  <2>1. LastSend(s, n, "r1b", 2)
    BY <1>1, <1>2, <1>m DEF LastSend
  <2>0. "filter" \in DOMAIN s[2].val
        /\ s[2].val["filter"] = fr
    BY <1>1
  <2>2. R!Sent(shadow, r82xx, s, 1..n)["r1b"]["filter"] = s[2].val["filter"]
    BY <1>3, <1>n, <2>0, <2>1, RegWritten
  <2> QED
    BY <1>n, <2>0, <2>2
<1>7. board = "V4" => r82xx'["r17"]["notch"] = nt
  <2> SUFFICES ASSUME board = "V4" PROVE r82xx'["r17"]["notch"] = nt
    OBVIOUS
  <2>1. LastSend(s, n, "r17", 5)
    BY <1>1, <1>2, <1>m DEF LastSend
  <2>0. "notch" \in DOMAIN s[5].val
        /\ s[5].val["notch"] = nt
    BY <1>1
  <2>2. R!Sent(shadow, r82xx, s, 1..n)["r17"]["notch"] = s[5].val["notch"]
    BY <1>3, <1>n, <2>0, <2>1, RegWritten
  <2> QED
    BY <1>n, <2>0, <2>2
<1> QED
  BY <1>4, <1>5, <1>6, <1>7, Zenon DEF lo, fr, hf, nt

(* Write k is the last of the first n that sets field f of register r.     *)
LastField(s, n, r, f, k) ==
  /\ k \in 1..n /\ s[k].reg = r /\ f \in DOMAIN s[k].val
  /\ \A j \in 1..n : s[j].reg = r /\ f \in DOMAIN s[j].val => j <= k

(* A field is in the chip as its last write set it, even when a later write*)
(* of the register left the field alone.                                   *)
LEMMA RegField ==
    ASSUME NEW start, NEW old, NEW s, NEW n \in Nat, NEW r \in DOMAIN start, DOMAIN old = DOMAIN start,
           NEW m, LastSend(s, n, r, m), NEW f \in DOMAIN start[r], NEW k, LastField(s, n, r, f, k)
    PROVE  /\ R!Sent(start, old, s, 1..n)[r][f] = s[k].val[f]
           /\ R!Shadow(start, s, n)[r][f] = s[k].val[f]
<1>1. R!Sent(start, old, s, 1..n)[r] = R!Shadow(start, s, n)[r]
  BY SentWhole DEF LastSend
<1>2. R!Shadow(start, s, n)[r] = R!Masked(start[r], r, s, 1..n)
  BY DEF R!Shadow
<1>3. 1..n \in SUBSET Int
  OBVIOUS
<1>4. R!Masked(start[r], r, s, 1..n)[f] = s[k].val[f]
  BY <1>3, FieldWritten DEF LastField
<1> QED
  BY <1>1, <1>2, <1>4

(* The switches and bits that select the input of f.                       *)
SwitchedTo(f, after, held, on) ==
  /\ after["r05"]["cable1"] = InputBits(f)["cable1"]
  /\ after["r05"]["air_off"] = IF board = "R828D" THEN R!Band(f) = "cable" ELSE R!Band(f) # "UHF"
  /\ board = "V4" => after["r06"]["cable2"] = (R!Band(f) = "HF")
  /\ board # "R828D" => on = (R!Band(f) # "HF")
  /\ after["r05"] = held["r05"]

(* A tuning that switches the input, and is made to its end, writes all of *)
(* them.                                                                   *)
LEMMA SwitchWritten ==
    ASSUME
           Shape(shadow), Shape(r82xx), NEW f, NEW s, SetFreqWrites(s, f, TRUE), Moves(f),
           NEW n, n \in Nat, n = Len(s), board \in {"V4", "V4L", "R828D"}
    PROVE  SwitchedTo(f, R!Sent(shadow, r82xx, s, 1..n), R!Shadow(shadow, s, n),
                      R!Masked([on |-> gpio5], "gpio5", s, 1..n)["on"])
<1> DEFINE v4 == InputBits(f)
           after == R!Sent(shadow, r82xx, s, 1..n)
           hf == R!Band(f) = "HF"
           nhf == R!Band(f) # "HF"
           nuhf == R!Band(f) # "UHF"
<1>1. /\ Len(s) = 11
      /\ s[10].reg = "r05" /\ s[10].val = v4
      /\ board = "V4" => s[8].reg = "r06" /\ s[8].val = [cable2 |-> hf]
      /\ board # "R828D" => s[9].reg = "gpio5" /\ s[9].val = [on |-> nhf]
      /\ board # "R828D" => s[11].reg = "r05" /\ s[11].val = [air_off |-> nuhf]
      /\ board = "R828D" => s[11].reg = "none"
  BY Zenon DEF SetFreqWrites, Written, Skipped
<1>2. \A j \in 1..11 : /\ s[j].reg = "r06" => j = 8
                       /\ s[j].reg = "r05" => j \in {10, 11}
                       /\ s[j].reg = "gpio5" => j = 9
  <2>1. Targets(s)
    BY SetFreqTargets
  <2> QED
    BY <2>1 DEF Targets
<1>3. /\ "cable1" \in DOMAIN v4
      /\ board = "R828D" => "air_off" \in DOMAIN v4 /\ v4["air_off"] = (R!Band(f) = "cable")
  BY DEF InputBits
<1>4. n = 11
  BY <1>1
<1>5. /\ "r05" \in DOMAIN shadow /\ "r06" \in DOMAIN shadow
      /\ DOMAIN r82xx = DOMAIN shadow
      /\ "cable1" \in DOMAIN shadow["r05"] /\ "air_off" \in DOMAIN shadow["r05"]
      /\ "cable2" \in DOMAIN shadow["r06"]
  BY DEF Shape
<1> HIDE DEF v4, hf, nhf, nuhf, after
<1>6. \E m : LastSend(s, n, "r05", m)
  <2>1. CASE board = "R828D"
    <3>1. LastSend(s, n, "r05", 10)
      BY <1>1, <1>2, <1>4, <2>1 DEF LastSend
    <3> QED
      BY <3>1
  <2>2. CASE board # "R828D"
    <3>1. LastSend(s, n, "r05", 11)
      BY <1>1, <1>2, <1>4, <2>2 DEF LastSend
    <3> QED
      BY <3>1
  <2> QED
    BY <2>1, <2>2
<1>7. PICK m : LastSend(s, n, "r05", m)
  BY <1>6
<1>8. after["r05"]["cable1"] = v4["cable1"]
  <2>1. LastField(s, n, "r05", "cable1", 10)
    <3>1. s[11].reg = "r05" => "cable1" \notin DOMAIN s[11].val
      BY <1>1
    <3> QED
      BY <1>1, <1>2, <1>3, <1>4, <3>1 DEF LastField
  <2>2. R!Sent(shadow, r82xx, s, 1..n)["r05"]["cable1"] = s[10].val["cable1"]
    BY <1>5, <1>7, <2>1, RegField
  <2> QED
    BY <1>1, <2>2 DEF after
<1>9. after["r05"]["air_off"] = IF board = "R828D" THEN R!Band(f) = "cable" ELSE nuhf
  <2>1. CASE board = "R828D"
    <3>1. LastField(s, n, "r05", "air_off", 10)
      BY <1>1, <1>2, <1>3, <1>4, <2>1 DEF LastField
    <3>2. R!Sent(shadow, r82xx, s, 1..n)["r05"]["air_off"] = s[10].val["air_off"]
      BY <1>5, <1>7, <3>1, RegField
    <3> QED
      BY <1>1, <1>3, <2>1, <3>2 DEF after
  <2>2. CASE board # "R828D"
    <3>1. LastField(s, n, "r05", "air_off", 11)
      BY <1>1, <1>2, <1>4, <2>2 DEF LastField
    <3>2. R!Sent(shadow, r82xx, s, 1..n)["r05"]["air_off"] = s[11].val["air_off"]
      BY <1>5, <1>7, <3>1, RegField
    <3> QED
      BY <1>1, <2>2, <3>2 DEF after
  <2> QED
    BY <2>1, <2>2
<1>10. board = "V4" => after["r06"]["cable2"] = hf
  <2> SUFFICES ASSUME board = "V4" PROVE after["r06"]["cable2"] = hf
    OBVIOUS
  <2>1. LastSend(s, n, "r06", 8)
    BY <1>1, <1>2, <1>4 DEF LastSend
  <2>2. "cable2" \in DOMAIN s[8].val /\ s[8].val["cable2"] = hf
    BY <1>1
  <2>3. R!Sent(shadow, r82xx, s, 1..n)["r06"]["cable2"] = s[8].val["cable2"]
    BY <1>5, <2>1, <2>2, RegWritten
  <2> QED
    BY <2>2, <2>3 DEF after
<1>11. board # "R828D" => R!Masked([on |-> gpio5], "gpio5", s, 1..n)["on"] = nhf
  <2> SUFFICES ASSUME board # "R828D" PROVE R!Masked([on |-> gpio5], "gpio5", s, 1..n)["on"] = nhf
    OBVIOUS
  <2>1. LastField(s, n, "gpio5", "on", 9)
    BY <1>1, <1>2, <1>4 DEF LastField
  <2>2. 1..n \in SUBSET Int /\ "on" \in DOMAIN [on |-> gpio5]
    OBVIOUS
  <2>3. R!Masked([on |-> gpio5], "gpio5", s, 1..n)["on"] = s[9].val["on"]
    BY <2>1, <2>2, FieldWritten DEF LastField
  <2> QED
    BY <1>1, <2>3
<1>12. after["r05"] = R!Shadow(shadow, s, n)["r05"]
  BY <1>5, <1>7, SentWhole DEF after, LastSend
<1> QED
  BY <1>8, <1>9, <1>10, <1>11, <1>12, Zenon DEF SwitchedTo, v4, hf, nhf, nuhf, after

-----------------------------------------------------------------------------
(* The R82xx driver: the invariant.                                        *)

(* The chip's input bits are those of the shadow.                          *)
Agree == /\ shadow["r05"]["cable1"] = r82xx["r05"]["cable1"]
         /\ shadow["r05"]["air_off"] = r82xx["r05"]["air_off"]

(* The largest intermediate frequency r82xx_set_bandwidth asks for.        *)
IfMax == 4570000

(* The types the proofs below need.                                        *)
RTypes ==
  /\ Shape(shadow) /\ Shape(r82xx)
  /\ board \in {"V4", "V4L", "R828D", "R820T"}
  /\ lost \in Nat
  /\ DOMAIN priv = {"input", "int_freq", "has_lock", "init_done"}
  /\ priv["int_freq"] \in Nat /\ priv["int_freq"] <= IfMax

(* The inductive invariant. Unless a write was lost, the shadow's input    *)
(* bits are the chip's: without this a masked write of r05, which sends the*)
(* shadow's other bits, could undo the selection.                          *)
InSync == lost = 0 => Agree

(* While the tuner is awake, priv->input names the input the switches      *)
(* select. The first call of r82xx_init on a Blog V4 is left out: it sets  *)
(* priv->input to 0, which is also air-in, and no switch position of that  *)
(* board is air-in.                                                        *)
Selected == lost = 0 /\ ~asleep /\ (board = "R828D" \/ (board \in {"V4", "V4L"} /\ priv["input"] # "air"))
              => R!Routed = priv["input"]

(* A tuned dongle is awake, and priv->input is the input of its frequency. *)
Listening == tuned # 0 /\ lost = 0 /\ board # "R820T" => ~asleep /\ priv["input"] = R!Band(tuned)

(* The oscillator is moved up exactly for the HF input.                    *)
Raised == R!Upconvert \notin R82xxFreqs /\ tuned # 0 /\ board \in {"V4", "V4L"} =>
            (r82xx["r14"]["lo"] >= tuned + R!Upconvert <=> R!Band(tuned) = "HF")

(* All of it.                                                              *)
RInv == RTypes /\ InSync /\ Selected /\ Listening /\ R!RfPathMatches /\ Raised

(* What a call leaves that makes the first n writes of s, and loses write  *)
(* bad.                                                                    *)
Outcome(call, s, n, bad) ==
  /\ shadow' = R!Shadow(shadow, s, n)
  /\ r82xx' = R!Sent(shadow, r82xx, s, (1..n) \ {bad})
  /\ priv' = R!Masked(priv, "priv", s, 1..n)
  /\ gpio5' = R!Masked([on |-> gpio5], "gpio5", s, 1..n)["on"]
  /\ lost' = lost + IF bad = 0 THEN 0 ELSE 1
  /\ asleep' = (call = "standby" \/ (asleep /\ call # "init"))
  /\ board' = board

(* Every call but the initialisation is of that kind.                      *)
LEMMA CallOutcome ==
    ASSUME NEW call, NEW s, NEW bad, R!Call(call, s, bad)
    PROVE  Outcome(call, s, IF bad = 0 THEN Len(s) ELSE bad, bad)
BY Zenon DEF R!Call, R!Make, R!MakeFrom, R!Finish, Outcome

(* A call keeps the types, and counts the write it lost.                   *)
LEMMA OutcomeTypes ==
    ASSUME RTypes, NEW call, NEW s, NEW n, NEW bad \in Nat, Outcome(call, s, n, bad),
           priv'["int_freq"] \in Nat /\ priv'["int_freq"] <= IfMax
    PROVE  RTypes' /\ (bad # 0 => lost' # 0) /\ (bad = 0 => lost' = lost)
<1>1. Shape(shadow)' /\ Shape(r82xx)'
  <2>1. Shape(R!Shadow(shadow, s, n)) /\ Shape(R!Sent(shadow, r82xx, s, (1..n) \ {bad}))
    BY ShapeKept DEF RTypes
  <2> QED
    BY <2>1 DEF Outcome, Shape
<1>2. lost' \in Nat /\ (bad # 0 => lost' # 0) /\ (bad = 0 => lost' = lost)
  BY DEF RTypes, Outcome
<1>3. DOMAIN priv' = DOMAIN priv
  BY DEF Outcome, R!Masked
<1> QED
  BY <1>1, <1>2, <1>3 DEF RTypes, Outcome

(* A call that leaves the oscillator, the filter and the notch alone leaves*)
(* the path right.                                                         *)
LEMMA PathQuiet ==
    ASSUME RTypes, R!RfPathMatches, Raised,
           NEW call, NEW s, NEW n \in Nat, NEW bad, Outcome(call, s, n, bad), tuned' = tuned,
           \A j \in 1..n : s[j].reg \notin {"r14", "r1b", "r17"}
    PROVE  R!RfPathMatches' /\ Raised'
<1>1. \A r \in DOMAIN r82xx : (\A j \in 1..n : s[j].reg # r) => r82xx'[r] = r82xx[r]
  BY DEF Outcome, R!Sent
<1>2. r82xx'["r14"] = r82xx["r14"] /\ r82xx'["r1b"] = r82xx["r1b"] /\ r82xx'["r17"] = r82xx["r17"]
  BY <1>1 DEF RTypes, Shape
<1>3. board' = board
  BY DEF Outcome
<1>5. R!Band(tuned)' = R!Band(tuned)
  BY <1>3, SMT DEF R!Band
<1>6. R!RfPathMatches'
  BY <1>2, <1>3, <1>5, SMT DEF R!RfPathMatches
<1>7. Raised'
  BY <1>2, <1>3, <1>5, Zenon DEF Raised
<1> QED
  BY <1>6, <1>7

(* A call that writes no input bit leaves the selected input, even if it   *)
(* sends r05 again.                                                        *)
LEMMA Quiet ==
    ASSUME RTypes, Agree, NEW call, NEW s, NEW n \in Nat, Outcome(call, s, n, 0),
           \A j \in 1..n : /\ s[j].reg \notin {"r06", "gpio5"}
                           /\ s[j].reg = "r05" => /\ "cable1" \notin DOMAIN s[j].val
                                                  /\ "air_off" \notin DOMAIN s[j].val,
           (\A j \in 1..n : s[j].reg # "r05") \/ (\E m : LastSend(s, n, "r05", m))
    PROVE  Agree' /\ R!Routed' = R!Routed
<1> DEFINE after == R!Sent(shadow, r82xx, s, 1..n)
           held == R!Shadow(shadow, s, n)
<1>1. (1..n) \ {0} = 1..n
  OBVIOUS
<1>2. shadow' = held /\ r82xx' = after /\ board' = board
  BY <1>1 DEF Outcome
<1>3. /\ "r05" \in DOMAIN shadow /\ "r06" \in DOMAIN r82xx /\ "r05" \in DOMAIN r82xx
      /\ DOMAIN r82xx = DOMAIN shadow
      /\ "cable1" \in DOMAIN shadow["r05"] /\ "air_off" \in DOMAIN shadow["r05"]
  BY DEF RTypes, Shape
<1>4. held["r05"]["cable1"] = shadow["r05"]["cable1"] /\ held["r05"]["air_off"] = shadow["r05"]["air_off"]
  <2>1. held["r05"] = R!Masked(shadow["r05"], "r05", s, 1..n)
    BY <1>3 DEF R!Shadow
  <2>2. R!Masked(shadow["r05"], "r05", s, 1..n)["cable1"] = shadow["r05"]["cable1"]
    BY <1>3, FieldKept
  <2>3. R!Masked(shadow["r05"], "r05", s, 1..n)["air_off"] = shadow["r05"]["air_off"]
    BY <1>3, FieldKept
  <2> QED
    BY <2>1, <2>2, <2>3
<1>5. after["r05"]["cable1"] = r82xx["r05"]["cable1"] /\ after["r05"]["air_off"] = r82xx["r05"]["air_off"]
  <2>1. CASE \A j \in 1..n : s[j].reg # "r05"
    <3>1. after["r05"] = r82xx["r05"]
      BY <1>3, <2>1, NotSent
    <3> QED
      BY <3>1
  <2>2. CASE \E m : LastSend(s, n, "r05", m)
    <3>1. PICK m : LastSend(s, n, "r05", m)
      BY <2>2
    <3>2. after["r05"] = held["r05"]
      BY <1>3, <3>1, SentWhole DEF LastSend
    <3> QED
      BY <1>4, <3>2 DEF Agree
  <2> QED
    BY <2>1, <2>2
<1>6. after["r06"] = r82xx["r06"]
  BY <1>3, NotSent
<1>7. gpio5' = gpio5
  <2>1. R!Masked([on |-> gpio5], "gpio5", s, 1..n)["on"] = [on |-> gpio5]["on"]
    BY FieldKept
  <2> QED
    BY <2>1 DEF Outcome
<1> HIDE DEF after, held
<1>8. Agree'
  BY <1>2, <1>4, <1>5 DEF Agree
<1>9. R!Routed' = R!Routed
  BY <1>2, <1>5, <1>6, <1>7, Zenon DEF R!Routed
<1> QED
  BY <1>8, <1>9

(* The inputs each board has.                                              *)
LEMMA BandNames ==
    ASSUME NEW f
    PROVE  /\ board = "V4" => R!Band(f) \in {"HF", "VHF", "UHF"}
           /\ board = "V4L" => R!Band(f) \in {"HF", "UHF"}
           /\ board \notin {"V4", "V4L"} => R!Band(f) \in {"air", "cable"}
BY SMT DEF R!Band

(* The switch positions that select them.                                  *)
LEMMA RouteTable ==
  /\ \A ao : R!Route("V4", FALSE, TRUE, ao, FALSE) = "HF"
  /\ \A ao : R!Route("V4", TRUE, FALSE, ao, TRUE) = "VHF"
  /\ R!Route("V4", FALSE, FALSE, FALSE, TRUE) = "UHF"
  /\ \A ao, c2 : R!Route("V4L", TRUE, c2, ao, FALSE) = "HF"
  /\ \A c2 : R!Route("V4L", FALSE, c2, FALSE, TRUE) = "UHF"
  /\ \A c2, on : R!Route("R828D", TRUE, c2, TRUE, on) = "cable"
  /\ \A c2, on : R!Route("R828D", FALSE, c2, FALSE, on) = "air"
<1>1. \A ao : R!Route("V4", FALSE, TRUE, ao, FALSE) = "HF"
  BY DEF R!Route
<1>2. \A ao : R!Route("V4", TRUE, FALSE, ao, TRUE) = "VHF"
  BY DEF R!Route
<1>3. R!Route("V4", FALSE, FALSE, FALSE, TRUE) = "UHF"
  BY DEF R!Route
<1>4. \A ao, c2 : R!Route("V4L", TRUE, c2, ao, FALSE) = "HF"
  BY DEF R!Route
<1>5. \A c2 : R!Route("V4L", FALSE, c2, FALSE, TRUE) = "UHF"
  BY DEF R!Route
<1>6. \A c2, on : R!Route("R828D", TRUE, c2, TRUE, on) = "cable"
  BY DEF R!Route
<1>7. \A c2, on : R!Route("R828D", FALSE, c2, FALSE, on) = "air"
  BY DEF R!Route
<1> QED
  BY <1>1, <1>2, <1>3, <1>4, <1>5, <1>6, <1>7

(* After a switch to the input of f, that input is selected.               *)
LEMMA SwitchRoutes ==
    ASSUME NEW f, board \in {"V4", "V4L", "R828D"}, board' = board, SwitchedTo(f, r82xx', shadow', gpio5')
    PROVE  R!Routed' = R!Band(f)
<1> DEFINE b == R!Band(f)
           c1 == r82xx'["r05"]["cable1"]
           ao == r82xx'["r05"]["air_off"]
           c2 == r82xx'["r06"]["cable2"]
           on == gpio5'
<1>1. R!Routed' = R!Route(board, c1, c2, ao, on)
  BY Zenon DEF R!Routed
<1>2. board = "V4" => c1 = (b = "VHF") /\ ao = (b # "UHF") /\ c2 = (b = "HF") /\ on = (b # "HF")
  BY DEF InputBits, SwitchedTo
<1>3. board = "V4L" => c1 = (b = "HF") /\ ao = (b # "UHF") /\ on = (b # "HF")
  BY DEF InputBits, SwitchedTo
<1>4. board = "R828D" => c1 = (b = "cable") /\ ao = (b = "cable")
  BY DEF InputBits, SwitchedTo
<1>5. /\ board = "V4" => b \in {"HF", "VHF", "UHF"}
      /\ board = "V4L" => b \in {"HF", "UHF"}
      /\ board = "R828D" => b \in {"air", "cable"}
  BY BandNames
<1> HIDE DEF b, c1, ao, c2, on
<1>6. CASE board = "V4"
  <2>1. CASE b = "HF"
    <3>1. c1 = FALSE /\ c2 = TRUE /\ on = FALSE
      BY <1>2, <1>6, <2>1
    <3> QED
      BY <1>1, <1>6, <2>1, <3>1, RouteTable DEF b
  <2>2. CASE b = "VHF"
    <3>1. c1 = TRUE /\ c2 = FALSE /\ on = TRUE
      BY <1>2, <1>6, <2>2
    <3> QED
      BY <1>1, <1>6, <2>2, <3>1, RouteTable DEF b
  <2>3. CASE b = "UHF"
    <3>1. c1 = FALSE /\ c2 = FALSE /\ on = TRUE /\ ao = FALSE
      BY <1>2, <1>6, <2>3
    <3> QED
      BY <1>1, <1>6, <2>3, <3>1, RouteTable DEF b
  <2> QED
    BY <1>5, <1>6, <2>1, <2>2, <2>3
<1>7. CASE board = "V4L"
  <2>1. CASE b = "HF"
    <3>1. c1 = TRUE /\ on = FALSE
      BY <1>3, <1>7, <2>1
    <3>2. R!Route(board, c1, c2, ao, on) = R!Route("V4L", TRUE, c2, ao, FALSE)
      BY <1>7, <3>1
    <3>3. R!Route("V4L", TRUE, c2, ao, FALSE) = "HF"
      BY DEF R!Route
    <3> QED
      BY <1>1, <2>1, <3>2, <3>3 DEF b
  <2>2. CASE b = "UHF"
    <3>1. c1 = FALSE /\ on = TRUE /\ ao = FALSE
      BY <1>3, <1>7, <2>2
    <3> QED
      BY <1>1, <1>7, <2>2, <3>1, RouteTable DEF b
  <2> QED
    BY <1>5, <1>7, <2>1, <2>2
<1>8. CASE board = "R828D"
  <2>1. CASE b = "cable"
    <3>1. c1 = TRUE /\ ao = TRUE
      BY <1>4, <1>8, <2>1
    <3>2. R!Route(board, c1, c2, ao, on) = R!Route("R828D", TRUE, c2, TRUE, on)
      BY <1>8, <3>1
    <3>3. R!Route("R828D", TRUE, c2, TRUE, on) = "cable"
      BY DEF R!Route
    <3> QED
      BY <1>1, <2>1, <3>2, <3>3 DEF b
  <2>2. CASE b = "air"
    <3>1. c1 = FALSE /\ ao = FALSE
      BY <1>4, <1>8, <2>2
    <3> QED
      BY <1>1, <1>8, <2>2, <3>1, RouteTable DEF b
  <2> QED
    BY <1>5, <1>8, <2>1, <2>2
<1> QED
  BY <1>6, <1>7, <1>8

(* The oscillator is 28.8 MHz above the frequency or more exactly on HF:   *)
(* the intermediate frequency alone is too small to reach that.            *)
LEMMA Lifted ==
    ASSUME NEW f \in Nat, f # R!Upconvert, RTypes, board \in {"V4", "V4L"}
    PROVE  (R!LoFreq(f) >= f + R!Upconvert) <=> (R!Band(f) = "HF")
<1> DEFINE up == priv["int_freq"] \div 1000
<1>1. up \in Nat /\ up <= 4570
  BY SMT DEF RTypes, IfMax
<1>2. R!Band(f) = "HF" <=> f <= 28800
  BY SMT DEF R!Band
<1>3. R!LoFreq(f) = f + (IF f < 28800 THEN 28800 ELSE 0) + up
  BY SMT DEF R!LoFreq, R!Upconvert
<1> HIDE DEF up
<1> QED
  BY <1>1, <1>2, <1>3, SMT DEF R!Upconvert

-----------------------------------------------------------------------------
(* The R82xx driver: each call keeps the invariant.                        *)

(* The write that fails is one of the call's.                              *)
LEMMA BreakableNumbers ==
    ASSUME NEW s, NEW bad \in R!Breakable(s), DOMAIN s = 1..Len(s), Len(s) \in Nat
    PROVE  bad \in Nat /\ bad <= Len(s)
BY DEF R!Breakable

(* Once a write is lost only the path has to be right.                     *)
LEMMA LostIsSafe ==
    ASSUME RTypes', lost' # 0, R!RfPathMatches', Raised'
    PROVE  RInv'
BY Zenon DEF RInv, InSync, Selected, Listening

(* A tuner that is not tuned has no path and no input to be right.         *)
LEMMA UntunedIsSafe ==
    ASSUME tuned' = 0
    PROVE  R!RfPathMatches' /\ Raised' /\ Listening'
BY Zenon DEF R!RfPathMatches, Raised, Listening

(* A call that leaves the input and loses nothing keeps what is said of the*)
(* input.                                                                  *)
LEMMA SameInput ==
    ASSUME InSync, Selected, lost' = lost, lost = 0 => Agree' /\ R!Routed' = R!Routed,
           priv'["input"] = priv["input"], board' = board, (asleep' <=> asleep)
    PROVE  InSync' /\ Selected'
BY Zenon DEF InSync, Selected

(* A field of priv that a call does not assign is as it was.               *)
LEMMA PrivKept ==
    ASSUME NEW s, NEW n \in Nat, priv' = R!Masked(priv, "priv", s, 1..n), NEW g \in DOMAIN priv,
           \A j \in 1..n : s[j].reg = "priv" => g \notin DOMAIN s[j].val
    PROVE  priv'[g] = priv[g]
<1>1. \A j \in 1..n : ~(s[j].reg = "priv" /\ g \in DOMAIN s[j].val)
  OBVIOUS
<1>2. R!Masked(priv, "priv", s, 1..n)[g] = priv[g]
  BY <1>1, FieldKept
<1> QED
  BY <1>2

(* A field of priv holds the last value a call assigned it.                *)
LEMMA PrivWritten ==
    ASSUME NEW s, NEW n \in Nat, priv' = R!Masked(priv, "priv", s, 1..n), NEW g \in DOMAIN priv,
           NEW k \in 1..n, s[k].reg = "priv", g \in DOMAIN s[k].val,
           \A j \in 1..n : s[j].reg = "priv" /\ g \in DOMAIN s[j].val => j <= k
    PROVE  priv'[g] = s[k].val[g]
<1>1. 1..n \in SUBSET Int
  OBVIOUS
<1>2. R!Masked(priv, "priv", s, 1..n)[g] = s[k].val[g]
  BY <1>1, FieldWritten
<1> QED
  BY <1>2

(* r82xx_set_freq keeps the invariant: on an unlocked or failed call       *)
(* nothing is tuned; otherwise either the input is already the one of f, or*)
(* it is switched.                                                         *)
LEMMA SetFreqKeeps ==
    ASSUME RInv, NEW f \in R82xxFreqs, R!SetFreq(f)
    PROVE  RInv'
<1>1. PICK locks \in BOOLEAN : \E bad \in R!Breakable(R!SetFreqSteps(f, locks)) :
        /\ R!Call("set_freq", R!SetFreqSteps(f, locks), bad)
        /\ tuned' = IF bad = 0 /\ locks THEN f ELSE 0
  BY Zenon DEF R!SetFreq
<1> DEFINE s == R!SetFreqSteps(f, locks)
<1>2. PICK bad \in R!Breakable(s) : R!Call("set_freq", s, bad) /\ tuned' = IF bad = 0 /\ locks THEN f ELSE 0
  BY <1>1
<1>3. SetFreqWrites(s, f, locks)
  BY SetFreqIsWrites
<1> HIDE DEF s
<1> DEFINE n == IF bad = 0 THEN Len(s) ELSE bad
<1>4. Targets(s)
  BY <1>3, SetFreqTargets
<1>5. Len(s) = 11 /\ DOMAIN s = 1..Len(s) /\ Len(s) \in Nat
  BY <1>3 DEF SetFreqWrites
<1>6. bad \in Nat /\ n \in Nat /\ n <= Len(s)
  <2>1. bad \in Nat /\ bad <= Len(s)
    BY <1>5, BreakableNumbers
  <2> QED
    BY <1>5, <2>1
<1>7. Outcome("set_freq", s, n, bad)
  BY <1>2, CallOutcome
<1>m. n = IF bad = 0 THEN Len(s) ELSE bad
  OBVIOUS
<1> HIDE DEF n
<1>8. /\ s[4].val = [g \in {"has_lock"} |-> locks]
      /\ IF locks /\ Moves(f) THEN s[7].val = [g \in {"input"} |-> R!Band(f)] ELSE s[7].reg = "none"
      /\ locks /\ Moves(f) => s[7].reg = "priv"
      /\ ~(locks /\ Moves(f)) => /\ s[8].reg = "none" /\ s[9].reg = "none" /\ s[10].reg = "none"
                                 /\ s[11].reg = "none"
  BY <1>3, Zenon DEF SetFreqWrites, Written, Skipped
<1>9. \A j \in 1..n : j \in 1..11
  BY <1>5, <1>6
<1>10. priv' = R!Masked(priv, "priv", s, 1..n) /\ board' = board /\ (asleep' <=> asleep)
  BY <1>7 DEF Outcome
<1>11. \A j \in 1..n : s[j].reg = "priv" => j \in {4, 7}
  BY <1>4, <1>9 DEF Targets
<1>12. priv'["int_freq"] = priv["int_freq"]
  <2>1. \A j \in 1..n : s[j].reg = "priv" => "int_freq" \notin DOMAIN s[j].val
    BY <1>8, <1>11
  <2>2. "int_freq" \in DOMAIN priv
    BY DEF RInv, RTypes
  <2> QED
    BY <1>6, <1>10, <2>1, <2>2, PrivKept
<1>13. RTypes' /\ (bad # 0 => lost' # 0) /\ (bad = 0 => lost' = lost)
  <2>1. RTypes /\ priv'["int_freq"] \in Nat /\ priv'["int_freq"] <= IfMax
    BY <1>12 DEF RInv, RTypes
  <2> QED
    BY <1>6, <1>7, <2>1, OutcomeTypes
<1>14. CASE bad # 0
  BY <1>2, <1>13, <1>14, LostIsSafe, UntunedIsSafe
<1>15. ASSUME bad = 0, ~(locks /\ Moves(f))
       PROVE  InSync' /\ Selected' /\ priv'["input"] = priv["input"]
  <2>1. priv'["input"] = priv["input"]
    <3>1. \A j \in 1..n : s[j].reg = "priv" => "input" \notin DOMAIN s[j].val
      BY <1>8, <1>11, <1>15
    <3>2. "input" \in DOMAIN priv
      BY DEF RInv, RTypes
    <3> QED
      BY <1>6, <1>10, <3>1, <3>2, PrivKept
  <2>2. \A j \in 1..n : s[j].reg \notin {"r06", "gpio5", "r05"}
    BY <1>4, <1>8, <1>9, <1>15 DEF Targets
  <2>3. lost = 0 => Agree' /\ R!Routed' = R!Routed
    <3> SUFFICES ASSUME lost = 0 PROVE Agree' /\ R!Routed' = R!Routed
      OBVIOUS
    <3>1. RTypes /\ Agree
      BY DEF RInv, InSync
    <3>2. Outcome("set_freq", s, n, 0)
      BY <1>7, <1>15
    <3> QED
      BY <1>6, <2>2, <3>1, <3>2, Quiet
  <2>4. InSync /\ Selected
    BY DEF RInv
  <2> QED
    BY <1>10, <1>13, <1>15, <2>1, <2>3, <2>4, SameInput
<1>16. CASE bad = 0 /\ ~locks
  BY <1>2, <1>13, <1>15, <1>16, UntunedIsSafe, Zenon DEF RInv
<1>17. ASSUME bad = 0, locks, Moves(f)
       PROVE  InSync' /\ Selected' /\ priv'["input"] = R!Band(f)
  <2>1. priv'["input"] = R!Band(f)
    <3>1. "input" \in DOMAIN priv /\ 7 \in 1..n
      BY <1>5, <1>17, <1>m DEF RInv, RTypes
    <3>2. s[7].reg = "priv" /\ "input" \in DOMAIN s[7].val /\ s[7].val["input"] = R!Band(f)
      BY <1>8, <1>17
    <3>3. \A j \in 1..n : s[j].reg = "priv" /\ "input" \in DOMAIN s[j].val => j <= 7
      BY <1>11
    <3>4. priv'["input"] = s[7].val["input"]
      BY <1>6, <1>10, <3>1, <3>2, <3>3, PrivWritten
    <3> QED
      BY <3>2, <3>4
  <2>2. board \in {"V4", "V4L", "R828D"}
    BY <1>17 DEF RInv, RTypes, Moves
  <2>3. SwitchedTo(f, R!Sent(shadow, r82xx, s, 1..n), R!Shadow(shadow, s, n),
                   R!Masked([on |-> gpio5], "gpio5", s, 1..n)["on"])
    <3>1. Shape(shadow) /\ Shape(r82xx)
      BY DEF RInv, RTypes
    <3>2. SetFreqWrites(s, f, TRUE)
      BY <1>3, <1>17
    <3>3. n = Len(s)
      BY <1>17, <1>m
    <3> QED
      BY <1>6, <1>17, <2>2, <3>1, <3>2, <3>3, SwitchWritten, Zenon
  <2>4. SwitchedTo(f, r82xx', shadow', gpio5')
    <3>1. (1..n) \ {bad} = 1..n
      BY <1>17
    <3> QED
      BY <1>7, <2>3, <3>1 DEF Outcome
  <2>5. R!Routed' = R!Band(f)
    BY <1>10, <2>2, <2>4, SwitchRoutes
  <2>6. Agree'
    BY <2>4 DEF Agree, SwitchedTo
  <2> QED
    BY <2>1, <2>5, <2>6, Zenon DEF InSync, Selected
<1>18. CASE bad = 0 /\ locks
  <2>1. tuned' = f
    BY <1>2, <1>18
  <2>2. InSync' /\ Selected'
    BY <1>15, <1>17, <1>18
  <2>3. R!Band(tuned)' = R!Band(f) /\ R!Notch(tuned)' = R!Notch(f)
    BY <1>10, <2>1, SMT DEF R!Band, R!Notch
  <2>4. Listening'
    <3> SUFFICES ASSUME board # "R820T" PROVE ~asleep' /\ priv'["input"] = R!Band(f)
      BY <1>10, <2>3, Zenon DEF Listening
    <3>1. ~asleep
      BY Zenon DEF R!SetFreq, R!MayTune
    <3>2. ~Moves(f) => R!Band(f) = priv["input"]
      BY Zenon DEF Moves
    <3> QED
      BY <1>10, <1>15, <1>17, <1>18, <3>1, <3>2
  <2>5. /\ r82xx'["r14"]["lo"] = R!LoFreq(f)
        /\ r82xx'["r1b"]["filter"] =
             IF board \in {"V4", "V4L"} /\ R!Band(f) = "HF" THEN R!Bypass
             ELSE R!FreqRange(R!LoFreq(f))
        /\ board = "V4" => r82xx'["r17"]["notch"] = R!Notch(f)
    <3>1. Shape(shadow) /\ Shape(r82xx)
      BY DEF RInv, RTypes
    <3>2. SetFreqWrites(s, f, TRUE)
      BY <1>3, <1>18
    <3>3. r82xx' = R!Sent(shadow, r82xx, s, 1..11) /\ shadow' = R!Shadow(shadow, s, 11)
      <4>1. n = 11 /\ (1..n) \ {bad} = 1..11
        BY <1>5, <1>18, <1>m
      <4> QED
        BY <1>7, <4>1 DEF Outcome
    <3> QED
      BY <3>1, <3>2, <3>3, TunedPath
  <2>6. R!RfPathMatches'
    BY <1>10, <2>1, <2>3, <2>5, Zenon DEF R!RfPathMatches, R!Bypass
  <2>7. Raised'
    <3> SUFFICES ASSUME R!Upconvert \notin R82xxFreqs, board \in {"V4", "V4L"}
                 PROVE  (r82xx'["r14"]["lo"] >= f + R!Upconvert) <=> (R!Band(f) = "HF")
      BY <1>10, <2>1, <2>3, SMT DEF Raised
    <3>1. RTypes /\ f \in Nat /\ f # R!Upconvert
      BY R82xxAssumption DEF RInv
    <3>2. (R!LoFreq(f) >= f + R!Upconvert) <=> (R!Band(f) = "HF")
      BY <3>1, Lifted
    <3> QED
      BY <2>5, <3>2
  <2> QED
    BY <1>13, <2>2, <2>4, <2>6, <2>7 DEF RInv
<1> QED
  BY <1>14, <1>16, <1>18

(* A call that writes no input bit, and no part of the path unless it gives*)
(* the tuning up, keeps the invariant.                                     *)
LEMMA LeavesInput ==
    ASSUME RInv, NEW call, call \notin {"standby", "init"}, NEW s, NEW bad \in Nat, NEW n \in Nat,
           Outcome(call, s, n, bad), priv'["int_freq"] \in Nat /\ priv'["int_freq"] <= IfMax,
           \A j \in 1..n : /\ s[j].reg \notin {"r06", "gpio5"}
                           /\ s[j].reg = "r05" => /\ "cable1" \notin DOMAIN s[j].val
                                                  /\ "air_off" \notin DOMAIN s[j].val
                           /\ s[j].reg = "priv" => "input" \notin DOMAIN s[j].val,
           bad = 0 => (\A j \in 1..n : s[j].reg # "r05") \/ (\E m : LastSend(s, n, "r05", m)),
           \/ tuned' = 0
           \/ tuned' = tuned /\ \A j \in 1..n : s[j].reg \notin {"r14", "r1b", "r17"}
    PROVE  RInv'
<1>0. RTypes
  BY DEF RInv
<1>1. RTypes' /\ (bad # 0 => lost' # 0) /\ (bad = 0 => lost' = lost)
  BY <1>0, OutcomeTypes
<1>2. R!RfPathMatches' /\ Raised'
  <2>1. CASE tuned' = 0
    BY <2>1, UntunedIsSafe
  <2>2. CASE tuned' = tuned /\ \A j \in 1..n : s[j].reg \notin {"r14", "r1b", "r17"}
    <3>1. R!RfPathMatches /\ Raised
      BY DEF RInv
    <3> QED
      BY <1>0, <2>2, <3>1, PathQuiet
  <2> QED
    BY <2>1, <2>2
<1>3. CASE bad # 0
  BY <1>1, <1>2, <1>3, LostIsSafe
<1>4. CASE bad = 0
  <2>1. board' = board /\ (asleep' <=> asleep) /\ priv' = R!Masked(priv, "priv", s, 1..n)
    BY DEF Outcome
  <2>2. priv'["input"] = priv["input"]
    <3>1. "input" \in DOMAIN priv
      BY <1>0 DEF RTypes
    <3> QED
      BY <2>1, <3>1, PrivKept
  <2>3. lost = 0 => Agree' /\ R!Routed' = R!Routed
    <3> SUFFICES ASSUME lost = 0 PROVE Agree' /\ R!Routed' = R!Routed
      OBVIOUS
    <3>1. Agree
      BY DEF RInv, InSync
    <3>2. Outcome(call, s, n, 0)
      BY <1>4
    <3> QED
      BY <1>0, <1>4, <3>1, <3>2, Quiet
  <2>4. InSync' /\ Selected'
    <3>1. InSync /\ Selected
      BY DEF RInv
    <3> QED
      BY <1>1, <1>4, <2>1, <2>2, <2>3, <3>1, SameInput
  <2>5. Listening'
    <3>1. CASE tuned' = 0
      BY <3>1, UntunedIsSafe
    <3>2. CASE tuned' = tuned
      <4>1. R!Band(tuned)' = R!Band(tuned)
        BY <2>1, <3>2, SMT DEF R!Band
      <4> QED
        BY <1>1, <1>4, <2>1, <2>2, <3>2, <4>1, Zenon DEF RInv, Listening
    <3> QED
      BY <3>1, <3>2
  <2> QED
    BY <1>1, <1>2, <2>4, <2>5 DEF RInv
<1> QED
  BY <1>3, <1>4

(* r82xx_set_freq that finds no PLL values is such a call.                 *)
LEMMA RefuseFreqKeeps ==
    ASSUME RInv, NEW f, R!RefuseFreq(f)
    PROVE  RInv'
<1> DEFINE s == R!MuxSteps(R!LoFreq(f))
<1>1. PICK bad \in R!Breakable(s) :
        R!Make(s, bad) /\ R!Finish("set_freq", FALSE, IF bad = 0 THEN 0 ELSE 1)
  BY Zenon DEF R!RefuseFreq
<1>2. tuned' = 0
  BY Zenon DEF R!RefuseFreq
<1>3. /\ DOMAIN s = 1..Len(s) /\ Len(s) = 2 /\ s[1].reg = "r17" /\ s[2].reg = "r1b"
  BY DEF R!MuxSteps, R!Reg, R!W
<1> HIDE DEF s
<1> DEFINE n == IF bad = 0 THEN Len(s) ELSE bad
<1>4. bad \in Nat /\ n \in Nat /\ n <= Len(s)
  <2>0. DOMAIN s = 1..Len(s) /\ Len(s) \in Nat
    BY <1>3
  <2>1. bad \in Nat /\ bad <= Len(s)
    BY <2>0, BreakableNumbers, Zenon
  <2> QED
    BY <1>3, <2>1
<1>5. Outcome("set_freq", s, n, bad)
  BY <1>1, Zenon DEF R!Make, R!MakeFrom, R!Finish, Outcome
<1> HIDE DEF n
<1>6. \A j \in 1..n : s[j].reg \in {"r17", "r1b"}
  <2>1. \A j \in 1..n : j \in {1, 2}
    BY <1>3, <1>4
  <2> QED
    BY <1>3, <2>1
<1>7. priv'["int_freq"] \in Nat /\ priv'["int_freq"] <= IfMax
  <2>1. "int_freq" \in DOMAIN priv /\ priv["int_freq"] \in Nat /\ priv["int_freq"] <= IfMax
    BY DEF RInv, RTypes
  <2>2. priv' = R!Masked(priv, "priv", s, 1..n)
    BY <1>5 DEF Outcome
  <2>3. priv'["int_freq"] = priv["int_freq"]
    BY <1>4, <1>6, <2>1, <2>2, PrivKept
  <2> QED
    BY <2>1, <2>3
<1> QED
  BY <1>2, <1>4, <1>5, <1>6, <1>7, LeavesInput

(* r82xx_set_gain is such a call: it sends r05, input bits and all.        *)
LEMMA SetGainKeeps ==
    ASSUME RInv, NEW g, R!SetGain(g)
    PROVE  RInv'
<1> DEFINE s == << R!Reg("r05", [gain |-> g]) >>
<1>1. PICK bad \in R!Breakable(s) : R!Call("set_gain", s, bad) /\ tuned' = tuned
  BY Zenon DEF R!SetGain
<1>3. /\ DOMAIN s = 1..Len(s) /\ Len(s) = 1 /\ s[1].reg = "r05" /\ s[1].val = [gain |-> g]
  BY DEF R!Reg, R!W
<1> HIDE DEF s
<1> DEFINE n == IF bad = 0 THEN Len(s) ELSE bad
<1>4. bad \in Nat /\ n \in Nat /\ n <= Len(s)
  <2>0. DOMAIN s = 1..Len(s) /\ Len(s) \in Nat
    BY <1>3
  <2>1. bad \in Nat /\ bad <= Len(s)
    BY <2>0, BreakableNumbers, Zenon
  <2> QED
    BY <1>3, <2>1
<1>5. Outcome("set_gain", s, n, bad)
  BY <1>1, CallOutcome
<1>m. bad = 0 => n = 1
  BY <1>3
<1> HIDE DEF n
<1>6. \A j \in 1..n : /\ s[j].reg = "r05" /\ j = 1
                      /\ "cable1" \notin DOMAIN s[j].val /\ "air_off" \notin DOMAIN s[j].val
  <2>1. \A j \in 1..n : j = 1
    BY <1>3, <1>4
  <2> QED
    BY <1>3, <2>1
<1>7. priv'["int_freq"] \in Nat /\ priv'["int_freq"] <= IfMax
  <2>1. "int_freq" \in DOMAIN priv /\ priv["int_freq"] \in Nat /\ priv["int_freq"] <= IfMax
    BY DEF RInv, RTypes
  <2>2. priv' = R!Masked(priv, "priv", s, 1..n)
    BY <1>5 DEF Outcome
  <2>3. priv'["int_freq"] = priv["int_freq"]
    BY <1>4, <1>6, <2>1, <2>2, PrivKept
  <2> QED
    BY <2>1, <2>3
<1>8. bad = 0 => \E m : LastSend(s, n, "r05", m)
  <2> SUFFICES ASSUME bad = 0 PROVE LastSend(s, n, "r05", 1)
    OBVIOUS
  <2> QED
    BY <1>3, <1>6, <1>m DEF LastSend
<1> QED
  BY <1>1, <1>4, <1>5, <1>6, <1>7, <1>8, LeavesInput

(* The driver's intermediate frequency, as the lemmas about its filters    *)
(* bound it.                                                               *)
LEMMA SameIntFreq ==
    ASSUME NEW bw \in Nat
    PROVE  R!IntFreq(bw) \in Nat /\ R!IntFreq(bw) <= 4570000
<1>1. R!IntFreq(bw) = IntFreq(bw)
  BY SMT DEF R!IntFreq, IntFreq, R!HighPass2, HighPass2, R!HighPass1, HighPass1, R!RealBandwidth, RealBandwidth,
         R!LowPassIndex, LowPassIndex, R!LoopStop, LoopStop, R!Remaining, Remaining,
         R!LowPassTable, LowPassTable, R!FILT_HP_BW1, R!FILT_HP_BW2, FILT_HP_BW1, FILT_HP_BW2,
         R!NarrowLimit, NarrowLimit
<1> QED
  BY <1>1, IntFreqNat, SMT

(* r82xx_set_bandwidth is such a call: it moves the intermediate frequency *)
(* only.                                                                   *)
LEMMA SetBandwidthKeeps ==
    ASSUME RInv, NEW bw \in Nat, R!SetBandwidth(bw)
    PROVE  RInv'
<1> DEFINE s == << R!Assign("int_freq", R!IntFreq(bw)), R!Reg("r0b", [bw |-> bw]) >>
           fi == R!IntFreq(bw)
<1>1. PICK bad \in R!Breakable(s) : R!Call("set_bandwidth", s, bad) /\ tuned' = tuned
  BY Zenon DEF R!SetBandwidth
<1>2. fi \in Nat /\ fi <= IfMax
  BY SameIntFreq, SMT DEF IfMax
<1>3. /\ DOMAIN s = 1..Len(s) /\ Len(s) = 2 /\ s[1].reg = "priv" /\ s[2].reg = "r0b"
      /\ s[1].val = [g \in {"int_freq"} |-> fi]
  <2> HIDE DEF fi
  <2> DEFINE w1 == R!Assign("int_freq", fi)
             w2 == R!Reg("r0b", [bw |-> bw])
  <2>1. s = << w1, w2 >>
    BY DEF fi
  <2>2. /\ w1.reg = "priv" /\ w2.reg = "r0b" /\ w1.val = [g \in {"int_freq"} |-> fi]
    BY DEF R!Reg, R!W, R!Assign
  <2> HIDE DEF s, w1, w2
  <2>3. DOMAIN s = 1..Len(s) /\ Len(s) = 2 /\ s[1] = w1 /\ s[2] = w2
    BY <2>1
  <2> QED
    BY <2>2, <2>3
<1> HIDE DEF s, fi
<1> DEFINE n == IF bad = 0 THEN Len(s) ELSE bad
<1>4. bad \in Nat /\ n \in Nat /\ n <= Len(s)
  <2>0. DOMAIN s = 1..Len(s) /\ Len(s) \in Nat
    BY <1>3
  <2>1. bad \in Nat /\ bad <= Len(s)
    BY <2>0, BreakableNumbers, Zenon
  <2> QED
    BY <1>3, <2>1
<1>5. Outcome("set_bandwidth", s, n, bad)
  BY <1>1, CallOutcome
<1>m. 1 \in 1..n
  BY <1>3, <1>4
<1> HIDE DEF n
<1>6. \A j \in 1..n : /\ s[j].reg \in {"priv", "r0b"} /\ (s[j].reg = "priv" => j = 1)
  <2>1. \A j \in 1..n : j \in {1, 2}
    BY <1>3, <1>4
  <2> QED
    BY <1>3, <2>1
<1>7. priv'["int_freq"] = fi
  <2>1. "int_freq" \in DOMAIN priv
    BY DEF RInv, RTypes
  <2>2. priv' = R!Masked(priv, "priv", s, 1..n)
    BY <1>5 DEF Outcome
  <2>3. "int_freq" \in DOMAIN s[1].val /\ s[1].val["int_freq"] = fi
    BY <1>3
  <2>4. \A j \in 1..n : s[j].reg = "priv" /\ "int_freq" \in DOMAIN s[j].val => j <= 1
    BY <1>6
  <2>5. priv'["int_freq"] = s[1].val["int_freq"]
    BY <1>3, <1>4, <1>m, <2>1, <2>2, <2>3, <2>4, PrivWritten
  <2> QED
    BY <2>3, <2>5
<1>8. \A j \in 1..n : s[j].reg = "priv" => "input" \notin DOMAIN s[j].val
  BY <1>3, <1>6
<1> QED
  BY <1>1, <1>2, <1>4, <1>5, <1>6, <1>7, <1>8, LeavesInput

(* The initial register array selects air-in.                              *)
InitArrayFields(x) ==
  /\ Shape(x)
  /\ x["r05"]["cable1"] = FALSE /\ x["r05"]["air_off"] = FALSE

(* It does.                                                                *)
LEMMA InitArrayIs == InitArrayFields(R!InitArray)
BY DEF InitArrayFields, R!InitArray, Shape

(* r82xx_standby sends r05 whole, and the tuner sleeps.                    *)
LEMMA StandbyKeeps ==
    ASSUME RInv, R!Standby
    PROVE  RInv'
<1> DEFINE s == IF priv.init_done THEN R!StandbySteps ELSE << >>
<1>1. PICK bad \in R!Breakable(s) : R!Call("standby", s, bad) /\ tuned' = 0
  BY Zenon DEF R!Standby
<1>3. /\ DOMAIN s = 1..Len(s) /\ Len(s) \in Nat
      /\ \/ Len(s) = 0
         \/ /\ Len(s) = 3 /\ s[1].reg = "r06" /\ s[2].reg = "r05" /\ s[3].reg = "r17"
            /\ "cable1" \in DOMAIN s[2].val /\ "air_off" \in DOMAIN s[2].val
  <2>1. CASE ~priv.init_done
    BY <2>1
  <2>2. CASE priv.init_done
    <3>1. s = R!StandbySteps
      BY <2>2
    <3> HIDE DEF s
    <3> QED
      BY <3>1 DEF R!StandbySteps, R!Reg, R!W
  <2> QED
    BY <2>1, <2>2
<1> HIDE DEF s
<1> DEFINE n == IF bad = 0 THEN Len(s) ELSE bad
<1>4. bad \in Nat /\ n \in Nat /\ n <= Len(s)
  <2>1. bad \in Nat /\ bad <= Len(s)
    BY <1>3, BreakableNumbers, Zenon
  <2> QED
    BY <1>3, <2>1
<1>5. Outcome("standby", s, n, bad)
  BY <1>1, CallOutcome
<1>m. n = IF bad = 0 THEN Len(s) ELSE bad
  OBVIOUS
<1> HIDE DEF n
<1>6. \A j \in 1..n : s[j].reg # "priv" /\ s[j].reg # "gpio5" /\ (s[j].reg = "r05" => j = 2)
  <2>1. CASE Len(s) = 0
    BY <1>4, <2>1
  <2>2. CASE Len(s) = 3
    <3>1. \A j \in 1..n : j \in {1, 2, 3}
      BY <1>4, <2>2
    <3> QED
      BY <1>3, <2>2, <3>1
  <2> QED
    BY <1>3, <2>1, <2>2
<1>7. priv'["int_freq"] \in Nat /\ priv'["int_freq"] <= IfMax
  <2>1. "int_freq" \in DOMAIN priv /\ priv["int_freq"] \in Nat /\ priv["int_freq"] <= IfMax
    BY DEF RInv, RTypes
  <2>2. priv' = R!Masked(priv, "priv", s, 1..n)
    BY <1>5 DEF Outcome
  <2>3. priv'["int_freq"] = priv["int_freq"]
    BY <1>4, <1>6, <2>1, <2>2, PrivKept
  <2> QED
    BY <2>1, <2>3
<1>0. RTypes
  BY DEF RInv
<1>8. RTypes' /\ (bad # 0 => lost' # 0) /\ (bad = 0 => lost' = lost)
  BY <1>0, <1>4, <1>5, <1>7, OutcomeTypes
<1>9. R!RfPathMatches' /\ Raised' /\ Listening'
  BY <1>1, UntunedIsSafe
<1>10. asleep'
  BY <1>5 DEF Outcome
<1>11. bad = 0 /\ lost = 0 => Agree'
  <2> SUFFICES ASSUME bad = 0, lost = 0 PROVE Agree'
    OBVIOUS
  <2>1. CASE Len(s) = 0
    <3>1. \A j \in 1..n : FALSE
      BY <1>m, <2>1
    <3>2. Agree
      BY DEF RInv, InSync
    <3>3. Outcome("standby", s, n, 0)
      BY <1>5
    <3> QED
      BY <1>0, <1>4, <3>1, <3>2, <3>3, Quiet
  <2>2. CASE Len(s) = 3
    <3>1. LastSend(s, n, "r05", 2)
      BY <1>3, <1>6, <1>m, <2>2 DEF LastSend
    <3>2. "r05" \in DOMAIN shadow /\ DOMAIN r82xx = DOMAIN shadow
      BY <1>0 DEF RTypes, Shape
    <3>3. R!Sent(shadow, r82xx, s, 1..n)["r05"] = R!Shadow(shadow, s, n)["r05"]
      BY <1>4, <3>1, <3>2, SentWhole DEF LastSend
    <3>4. shadow' = R!Shadow(shadow, s, n) /\ r82xx' = R!Sent(shadow, r82xx, s, 1..n)
      <4>1. (1..n) \ {bad} = 1..n
        OBVIOUS
      <4> QED
        BY <1>5, <4>1 DEF Outcome
    <3> QED
      BY <3>3, <3>4 DEF Agree
  <2> QED
    BY <1>3, <2>1, <2>2
<1> QED
  BY <1>8, <1>9, <1>10, <1>11, Zenon DEF RInv, InSync, Selected

(* The writes of r82xx_init, as far as the invariant needs them.           *)
InitWrites(s, locks) ==
  /\ DOMAIN s = 1..Len(s) /\ Len(s) = 8
  /\ s[1] = R!Assign("int_freq", 3570000) /\ s[6] = R!Assign("input", "air")
  /\ s[7] = R!Reg("r05", [cable1 |-> FALSE, air_off |-> FALSE])
  /\ s[3] = R!Assign("has_lock", locks) /\ s[5] = R!Assign("init_done", TRUE)
  /\ \A j \in {2, 4, 8} : s[j].reg # "priv" /\ s[j].reg # "r05"

(* The call's list of writes is that.                                      *)
LEMMA InitTransfers ==
    ASSUME NEW locks \in BOOLEAN
    PROVE  InitWrites(R!InitSteps(locks), locks)
<1> DEFINE s == R!InitSteps(locks)
           w1 == R!Assign("int_freq", 3570000)
           w2 == R!Reg("r14", [lo |-> 56000])
           w3 == R!Assign("has_lock", locks)
           w4 == R!Made(locks, R!Reg("r0b", [bw |-> 6000000]))
           w5 == R!Assign("init_done", TRUE)
           w6 == R!Assign("input", "air")
           w7 == R!Reg("r05", [cable1 |-> FALSE, air_off |-> FALSE])
           w8 == R!Reg("r06", [cable2 |-> FALSE])
<1>1. s = << w1, w2, w3, w4, w5, w6, w7, w8 >>
  BY SMT DEF R!InitSteps
<1>2. w2.reg = "r14" /\ w4.reg \in {"r0b", "none"} /\ w8.reg = "r06"
  BY SMT DEF R!Reg, R!W, R!Made
<1> HIDE DEF s, w1, w2, w3, w4, w5, w6, w7, w8
<1>3. /\ DOMAIN s = 1..Len(s) /\ Len(s) = 8 /\ s[1] = w1 /\ s[2] = w2 /\ s[3] = w3 /\ s[4] = w4
      /\ s[5] = w5 /\ s[6] = w6 /\ s[7] = w7 /\ s[8] = w8
  BY <1>1, SMT
<1>4. s[1] = R!Assign("int_freq", 3570000) /\ s[6] = R!Assign("input", "air")
      /\ s[7] = R!Reg("r05", [cable1 |-> FALSE, air_off |-> FALSE])
      /\ s[3] = R!Assign("has_lock", locks) /\ s[5] = R!Assign("init_done", TRUE)
  BY <1>3, SMT DEF w1, w3, w5, w6, w7
<1> QED
  BY <1>2, <1>3, <1>4, SMT DEF InitWrites, s

(* r82xx_init keeps the invariant whatever it finds: it starts from the    *)
(* initial array, so only the fields have to be there.                     *)
LEMMA InitChipKeeps ==
    ASSUME RTypes, R!InitChip
    PROVE  RInv'
<1> DEFINE start == R!InitArray
<1>1. PICK block \in {0, 1}, locks \in BOOLEAN : \E bad \in R!Breakable(R!InitSteps(locks)) :
        /\ R!MakeFrom(start, IF block = 1 THEN r82xx ELSE start, R!InitSteps(locks), bad)
        /\ R!Finish("init", bad = 0, block + IF bad = 0 THEN 0 ELSE 1)
  <2>1. (IF lost < MaxFaults THEN 0..1 ELSE {0}) \subseteq {0, 1}
    OBVIOUS
  <2> QED
    BY <2>1, Zenon DEF R!InitChip
<1> DEFINE s == R!InitSteps(locks)
           old == IF block = 1 THEN r82xx ELSE start
<1>2. PICK bad \in R!Breakable(s) :
        /\ R!MakeFrom(start, old, s, bad)
        /\ R!Finish("init", bad = 0, block + IF bad = 0 THEN 0 ELSE 1)
  BY <1>1
<1>3. InitWrites(s, locks)
  BY InitTransfers
<1> HIDE DEF s
<1>w. DOMAIN s = 1..Len(s) /\ Len(s) = 8
  BY <1>3, SMT DEF InitWrites
<1>4. tuned' = 0
  BY Zenon DEF R!InitChip
<1> DEFINE n == IF bad = 0 THEN Len(s) ELSE bad
<1>5. bad \in Nat /\ n \in Nat /\ n <= Len(s) /\ 1 \in 1..n
  <2>0. DOMAIN s = 1..Len(s) /\ Len(s) \in Nat
    BY <1>w, SMT
  <2>1. bad \in Nat /\ bad <= Len(s)
    BY <2>0, BreakableNumbers, Zenon
  <2> QED
    BY <1>w, <2>1, SMT
<1>m. n = IF bad = 0 THEN Len(s) ELSE bad
  OBVIOUS
<1>6. /\ shadow' = R!Shadow(start, s, n)
      /\ r82xx' = R!Sent(start, old, s, (1..n) \ {bad})
      /\ priv' = R!Masked(priv, "priv", s, 1..n)
      /\ lost' = lost + (block + IF bad = 0 THEN 0 ELSE 1)
      /\ board' = board
  BY <1>2, Zenon DEF R!MakeFrom, R!Finish
<1> HIDE DEF n
<1>7. /\ s[1].reg = "priv" /\ "int_freq" \in DOMAIN s[1].val /\ s[1].val["int_freq"] = 3570000
      /\ "input" \notin DOMAIN s[1].val
      /\ s[6].reg = "priv" /\ "input" \in DOMAIN s[6].val /\ s[6].val["input"] = "air"
      /\ "int_freq" \notin DOMAIN s[6].val
  BY <1>3, SMT DEF InitWrites, R!Assign, R!W
<1>8. /\ s[3].reg = "priv" /\ "int_freq" \notin DOMAIN s[3].val /\ "input" \notin DOMAIN s[3].val
      /\ s[5].reg = "priv" /\ "int_freq" \notin DOMAIN s[5].val /\ "input" \notin DOMAIN s[5].val
  BY <1>3, SMT DEF InitWrites, R!Assign, R!W
<1>9. /\ s[7].reg = "r05" /\ "cable1" \in DOMAIN s[7].val /\ "air_off" \in DOMAIN s[7].val
      /\ s[7].val["cable1"] = FALSE /\ s[7].val["air_off"] = FALSE
  BY <1>3, SMT DEF InitWrites, R!Reg, R!W
<1>10. \A j \in 1..n : j \in {1, 2, 3, 4, 5, 6, 7, 8}
  BY <1>w, <1>5, SMT
<1>11. \A j \in 1..n : /\ s[j].reg = "priv" /\ "int_freq" \in DOMAIN s[j].val => j = 1
                       /\ s[j].reg = "priv" /\ "input" \in DOMAIN s[j].val => j = 6
                       /\ s[j].reg = "r05" => j = 7
  <2>1. \A j \in {2, 4, 8} : s[j].reg # "priv" /\ s[j].reg # "r05"
    BY <1>3, SMT DEF InitWrites
  <2> QED
    BY <1>7, <1>8, <1>9, <1>10, <2>1, SMT
<1>12. "int_freq" \in DOMAIN priv /\ "input" \in DOMAIN priv
  BY SMT DEF RTypes
<1>13. priv'["int_freq"] = s[1].val["int_freq"]
  <2>1. \A j \in 1..n : s[j].reg = "priv" /\ "int_freq" \in DOMAIN s[j].val => j <= 1
    BY <1>11, SMT
  <2> HIDE DEF n
  <2> QED
    BY <1>5, <1>6, <1>7, <1>12, <2>1, PrivWritten, SMT
<1>14. RTypes'
  <2>1. Shape(start)
    BY InitArrayIs DEF InitArrayFields
  <2>2. Shape(old)
    BY <2>1 DEF RTypes
  <2> HIDE DEF start, old
  <2>3. Shape(R!Shadow(start, s, n)) /\ Shape(R!Sent(start, old, s, (1..n) \ {bad}))
    BY <2>1, <2>2, ShapeKept
  <2>4. Shape(shadow)' /\ Shape(r82xx)'
    BY <1>6, <2>3, Zenon DEF Shape
  <2>5. DOMAIN priv' = DOMAIN priv
    BY <1>6 DEF R!Masked
  <2>6. lost' \in Nat
    BY <1>5, <1>6 DEF RTypes
  <2>7. priv'["int_freq"] \in Nat /\ priv'["int_freq"] <= IfMax
    BY <1>7, <1>13, SMT DEF IfMax
  <2> QED
    BY <1>6, <2>4, <2>5, <2>6, <2>7 DEF RTypes
<1>15. R!RfPathMatches' /\ Raised' /\ Listening'
  BY <1>4, UntunedIsSafe
<1>16. CASE bad # 0 \/ block # 0
  <2>1. lost' # 0
    BY <1>5, <1>6, <1>16 DEF RTypes
  <2> QED
    BY <1>14, <1>15, <2>1, LostIsSafe
<1>17. CASE bad = 0 /\ block = 0
  <2>1. n = 8
    BY <1>w, <1>17, <1>m, SMT
  <2>2. priv'["input"] = "air"
    <3>1. \A j \in 1..n : s[j].reg = "priv" /\ "input" \in DOMAIN s[j].val => j <= 6
      BY <1>11, SMT
    <3>2. 6 \in 1..n
      BY <2>1, SMT
    <3>3. priv'["input"] = s[6].val["input"]
      BY <1>5, <1>6, <1>7, <1>12, <3>1, <3>2, PrivWritten, SMT
    <3> QED
      BY <1>7, <3>3
  <2>3. "r05" \in DOMAIN start /\ "cable1" \in DOMAIN start["r05"] /\ "air_off" \in DOMAIN start["r05"]
    BY InitArrayIs DEF InitArrayFields, Shape
  <2> HIDE DEF start
  <2>4. LastSend(s, n, "r05", 7)
    BY <1>9, <1>11, <2>1, SMT DEF LastSend
  <2>5. R!Sent(start, start, s, 1..n)["r05"]["cable1"] = s[7].val["cable1"]
        /\ R!Shadow(start, s, n)["r05"]["cable1"] = s[7].val["cable1"]
    BY <1>5, <1>9, <2>3, <2>4, RegWritten, SMT
  <2>6. R!Sent(start, start, s, 1..n)["r05"]["air_off"] = s[7].val["air_off"]
        /\ R!Shadow(start, s, n)["r05"]["air_off"] = s[7].val["air_off"]
    BY <1>5, <1>9, <2>3, <2>4, RegWritten, SMT
  <2>7. shadow' = R!Shadow(start, s, n) /\ r82xx' = R!Sent(start, start, s, 1..n)
    <3>1. (1..n) \ {bad} = 1..n /\ old = start
      BY <1>17
    <3> QED
      BY <1>6, <3>1
  <2>8. Agree' /\ r82xx'["r05"]["cable1"] = FALSE /\ r82xx'["r05"]["air_off"] = FALSE
    BY <1>9, <2>5, <2>6, <2>7 DEF Agree
  <2>9. board = "R828D" => R!Routed' = "air"
    <3> SUFFICES ASSUME board = "R828D" PROVE R!Routed' = "air"
      OBVIOUS
    <3>1. R!Routed' = R!Route("R828D", FALSE, r82xx'["r06"]["cable2"], FALSE, gpio5')
      BY <1>6, <2>8, Zenon DEF R!Routed
    <3> QED
      BY <3>1, RouteTable
  <2> QED
    BY <1>6, <1>14, <1>15, <2>2, <2>8, <2>9, Zenon DEF RInv, InSync, Selected
<1> QED
  BY <1>16, <1>17

-----------------------------------------------------------------------------
(* The R82xx driver: the theorems.                                         *)

(* The invariant of the modules' composition: where another tuner was      *)
(* found, the R82xx driver's variables are never used.                     *)
R82xxInv == IF tuner = "R82xx" THEN RInv ELSE tuned = 0

(* It holds of a device just opened.                                       *)
LEMMA R82xxStarts ==
    ASSUME MCInit
    PROVE  R82xxInv
<1>1. CASE tuner # "R82xx"
  BY <1>1, Zenon DEF MCInit, NoR82xx, R82xxInv
<1>2. CASE tuner = "R82xx"
  <2>1. /\ board \in Boards /\ shadow = R!InitArray /\ r82xx = R!InitArray /\ lost = 0 /\ tuned = 0
        /\ priv = [input |-> "air", int_freq |-> 0, has_lock |-> FALSE, init_done |-> FALSE]
    BY <1>2, Zenon DEF MCInit, R!Init
  <2>2. InitArrayFields(shadow) /\ InitArrayFields(r82xx)
    BY <2>1, InitArrayIs
  <2>3. RTypes
    BY <2>1, <2>2, R82xxAssumption, SMT DEF RTypes, InitArrayFields, IfMax
  <2>4. InSync
    BY <2>2 DEF InSync, Agree, InitArrayFields
  <2>5. Selected
    <3>1. priv["input"] = "air"
      BY <2>1
    <3>2. board = "R828D" => R!Routed = "air"
      <4> SUFFICES ASSUME board = "R828D" PROVE R!Routed = "air"
        OBVIOUS
      <4>1. R!Routed = R!Route("R828D", FALSE, r82xx["r06"]["cable2"], FALSE, gpio5)
        BY <2>2, Zenon DEF R!Routed, InitArrayFields
      <4> QED
        BY <4>1, RouteTable
    <3> QED
      BY <3>1, <3>2, Zenon DEF Selected
  <2>6. Listening /\ Raised /\ R!RfPathMatches
    BY <2>1, Zenon DEF Listening, Raised, R!RfPathMatches
  <2> QED
    BY <1>2, <2>3, <2>4, <2>5, <2>6, Zenon DEF RInv, R82xxInv
<1> QED
  BY <1>1, <1>2

(* A step of another driver leaves it.                                     *)
LEMMA R82xxRests ==
    ASSUME RInv, UNCHANGED r82xxVars
    PROVE  RInv'
<1>1. /\ board' = board /\ priv' = priv /\ shadow' = shadow /\ r82xx' = r82xx /\ gpio5' = gpio5
      /\ lost' = lost /\ tuned' = tuned /\ (asleep' <=> asleep)
  BY Zenon DEF r82xxVars
<1>2. RTypes'
  BY <1>1 DEF RInv, RTypes, Shape
<1>3. R!Routed' = R!Routed
  BY <1>1, Zenon DEF R!Routed
<1>4. R!Band(tuned)' = R!Band(tuned) /\ R!Notch(tuned)' = R!Notch(tuned)
  BY <1>1, SMT DEF R!Band, R!Notch
<1>5. InSync' /\ Selected' /\ Listening'
  BY <1>1, <1>3, <1>4, Zenon DEF RInv, InSync, Agree, Selected, Listening
<1>6. R!RfPathMatches' /\ Raised'
  BY <1>1, <1>4, SMT DEF RInv, R!RfPathMatches, Raised
<1> QED
  BY <1>2, <1>5, <1>6 DEF RInv

(* Every call of the R82xx driver keeps it.                                *)
LEMMA R82xxKeeps ==
    ASSUME RInv, R!Next
    PROVE  RInv'
<1>1. CASE R!InitChip
  BY <1>1, InitChipKeeps DEF RInv
<1>2. CASE R!Standby
  BY <1>2, StandbyKeeps
<1>3. ASSUME NEW f \in R82xxFreqs, R!SetFreq(f) PROVE RInv'
  BY <1>3, SetFreqKeeps
<1>4. ASSUME NEW f \in R82xxFreqs, R!RefuseFreq(f) PROVE RInv'
  BY <1>4, RefuseFreqKeeps
<1>5. ASSUME NEW bw \in Bws, R!SetBandwidth(bw) PROVE RInv'
  <2>1. bw \in Nat
    BY R82xxAssumption
  <2> QED
    BY <1>5, <2>1, SetBandwidthKeeps
<1>6. ASSUME NEW g \in {"auto", "manual"}, R!SetGain(g) PROVE RInv'
  BY <1>6, SetGainKeeps
<1> QED
  BY <1>1, <1>2, <1>3, <1>4, <1>5, <1>6, Zenon DEF R!Next

(* It holds throughout.                                                    *)
LEMMA R82xxAlways == MCSpec => []R82xxInv
<1>1. MCInit => R82xxInv
  BY R82xxStarts
<1>2. R82xxInv /\ [E4kCalls \/ FcCalls \/ R82xxCalls]_<< vars, fcVars, r82xxVars >> => R82xxInv'
  <2> SUFFICES ASSUME R82xxInv, [E4kCalls \/ FcCalls \/ R82xxCalls]_<< vars, fcVars, r82xxVars >>
               PROVE  R82xxInv'
    OBVIOUS
  <2>0. /\ tuner' = tuner
        /\ tuner = "R82xx" => R!Next \/ UNCHANGED r82xxVars
        /\ tuner # "R82xx" => UNCHANGED r82xxVars
    BY OneTuner
  <2>1. CASE tuner # "R82xx"
    BY <2>0, <2>1 DEF R82xxInv, r82xxVars
  <2>2. CASE tuner = "R82xx"
    <3>1. RInv
      BY <2>2 DEF R82xxInv
    <3>2. RInv'
      BY <2>0, <2>2, <3>1, R82xxKeeps, R82xxRests
    <3> QED
      BY <2>0, <2>2, <3>2 DEF R82xxInv
  <2> QED
    BY <2>1, <2>2
<1> QED
  BY <1>1, <1>2, PTL DEF MCSpec

(* tuner_r82xx.c:1206-1215: whatever calls were made and whatever writes   *)
(* were lost before, a tuning that succeeded leaves the tracking filter    *)
(* (and, on the Blog V4, the notch) that its frequency asks for, and       *)
(* nothing but another tuning, r82xx_init or r82xx_standby changes them    *)
(* (RfPathMatches).                                                        *)
THEOREM RfPathIsRight == MCSpec => []RfPathMatches
<1>1. R82xxInv => RfPathMatches
  <2> SUFFICES ASSUME R82xxInv PROVE R!RfPathMatches
    BY DEF RfPathMatches
  <2>1. CASE tuner = "R82xx"
    BY <2>1, Zenon DEF R82xxInv, RInv
  <2>2. CASE tuner # "R82xx"
    BY <2>2, Zenon DEF R82xxInv, R!RfPathMatches
  <2> QED
    BY <2>1, <2>2
<1> QED
  BY <1>1, R82xxAlways, PTL

(* What the invariant says of a tuned dongle whose writes all arrived.     *)
LEMMA ListensToItsBand ==
    ASSUME RInv, tuned # 0, lost = 0, board # "R820T"
    PROVE  R!Routed = R!Band(tuned)
<1>1. ~asleep /\ priv["input"] = R!Band(tuned)
  BY Zenon DEF RInv, Listening
<1>2. board \in {"V4", "V4L", "R828D"}
  BY DEF RInv, RTypes
<1>3. board = "R828D" \/ (board \in {"V4", "V4L"} /\ priv["input"] # "air")
  <2>1. CASE board = "R828D"
    BY <2>1
  <2>2. CASE board \in {"V4", "V4L"}
    <3>1. R!Band(tuned) \in {"HF", "VHF", "UHF"}
      BY <2>2, BandNames
    <3> QED
      BY <1>1, <2>2, <3>1
  <2> QED
    BY <1>2, <2>1, <2>2
<1> QED
  BY <1>1, <1>3, Zenon DEF RInv, Selected

(* tuner_r82xx.c:1199-1307: a tuned dongle none of whose writes was lost   *)
(* listens to the input its frequency belongs to, although r82xx_set_freq  *)
(* switches only on a change of priv->input; and the oscillator of a Blog  *)
(* V4 is moved up by 28.8 MHz exactly when that input is HF                *)
(* (InputSelected). At 28.8 MHz itself the code disagrees with itself: it  *)
(* selects HF (<=, 1202) and does not move the oscillator (<, 1171).       *)
THEOREM InputIsSelected ==
    ASSUME 28800 \notin R82xxFreqs
    PROVE  MCSpec => []InputSelected
<1>1. R!Upconvert \notin R82xxFreqs
  BY SMT DEF R!Upconvert
<1>2. R82xxInv => InputSelected
  <2> SUFFICES ASSUME R82xxInv, tuned # 0
               PROVE  /\ board # "R820T" /\ lost = 0 => R!Routed = R!Band(tuned)
                      /\ board \in {"V4", "V4L"} =>
                           (r82xx.r14.lo >= tuned + R!Upconvert <=> R!Band(tuned) = "HF")
    BY DEF InputSelected, R!InputSelected
  <2>1. RInv
    BY DEF R82xxInv
  <2>2. board \in {"V4", "V4L"} =>
          (r82xx.r14.lo >= tuned + R!Upconvert <=> R!Band(tuned) = "HF")
    BY <1>1, <2>1 DEF RInv, Raised
  <2>3. ASSUME board # "R820T", lost = 0
        PROVE  R!Routed = R!Band(tuned)
    BY <2>1, <2>3, ListensToItsBand, SMT
  <2> QED
    BY <2>2, <2>3
<1> QED
  BY <1>2, R82xxAlways, PTL

-----------------------------------------------------------------------------
(* The registers of the E4000 and the fields in them.                      *)

(* What a register holds.                                                  *)
Byte == 0..255

(* The part of the byte v that a field of q values from the bit of weight  *)
(* p on has, and v with x put there.                                       *)
Part(v, p, q) == (v \div p) % q
PutPart(v, p, q, x) == v + (x - ((v \div p) % q)) * p

(* Field f is such a part; how many values it has.                         *)
Takes(f, p, q) == 2^f.shift = p /\ 2^f.width = q
Size(f) == 2^f.width

(* Putting x into the part leaves a byte, and x in the part.               *)
Fits(v, p, q, x) == /\ PutPart(v, p, q, x) \in Byte /\ Part(v, p, q) \in 0..(q - 1)
                    /\ Part(PutPart(v, p, q, x), p, q) = x
(* It does not change another part, of s values from weight r on.          *)
Keeps(v, p, q, x, r, s) == Part(PutPart(v, p, q, x), r, s) = Part(v, r, s)

(* Every part of a register the driver's fields use fits                   *)
(* (tuner_e4k.c:101-127).                                                  *)
LEMMA PartsFit ==
    ASSUME NEW v \in Byte
    PROVE  /\ \A x \in 0..(2 - 1) : Fits(v, 1, 2, x)
           /\ \A x \in 0..(2 - 1) : Fits(v, 2, 2, x)
           /\ \A x \in 0..(2 - 1) : Fits(v, 32, 2, x)
           /\ \A x \in 0..(4 - 1) : Fits(v, 2, 4, x)
           /\ \A x \in 0..(4 - 1) : Fits(v, 8, 4, x)
           /\ \A x \in 0..(4 - 1) : Fits(v, 32, 4, x)
           /\ \A x \in 0..(8 - 1) : Fits(v, 1, 8, x)
           /\ \A x \in 0..(8 - 1) : Fits(v, 8, 8, x)
           /\ \A x \in 0..(16 - 1) : Fits(v, 1, 16, x)
           /\ \A x \in 0..(16 - 1) : Fits(v, 16, 16, x)
           /\ \A x \in 0..(32 - 1) : Fits(v, 1, 32, x)
<1>1. \A x \in 0..(2 - 1) : Fits(v, 1, 2, x)
  BY DEF Byte, Fits, Part, PutPart
<1>2. \A x \in 0..(2 - 1) : Fits(v, 2, 2, x)
  BY DEF Byte, Fits, Part, PutPart
<1>3. \A x \in 0..(2 - 1) : Fits(v, 32, 2, x)
  BY DEF Byte, Fits, Part, PutPart
<1>4. \A x \in 0..(4 - 1) : Fits(v, 2, 4, x)
  BY DEF Byte, Fits, Part, PutPart
<1>5. \A x \in 0..(4 - 1) : Fits(v, 8, 4, x)
  BY DEF Byte, Fits, Part, PutPart
<1>6. \A x \in 0..(4 - 1) : Fits(v, 32, 4, x)
  BY DEF Byte, Fits, Part, PutPart
<1>7. \A x \in 0..(8 - 1) : Fits(v, 1, 8, x)
  BY DEF Byte, Fits, Part, PutPart
<1>8. \A x \in 0..(8 - 1) : Fits(v, 8, 8, x)
  BY DEF Byte, Fits, Part, PutPart
<1>9. \A x \in 0..(16 - 1) : Fits(v, 1, 16, x)
  BY DEF Byte, Fits, Part, PutPart
<1>10. \A x \in 0..(16 - 1) : Fits(v, 16, 16, x)
  BY DEF Byte, Fits, Part, PutPart
<1>11. \A x \in 0..(32 - 1) : Fits(v, 1, 32, x)
  BY DEF Byte, Fits, Part, PutPart
<1> QED
  BY <1>1, <1>2, <1>3, <1>4, <1>5, <1>6, <1>7, <1>8, <1>9, <1>10, <1>11

(* No two parts that are used in one register disturb each other.          *)
LEMMA PartsApart ==
    ASSUME NEW v \in Byte
    PROVE  /\ \A x \in 0..(16 - 1) : Keeps(v, 16, 16, x, 1, 16)
           /\ \A x \in 0..(32 - 1) : Keeps(v, 1, 32, x, 32, 2)
           /\ \A x \in 0..(2 - 1) : Keeps(v, 1, 2, x, 2, 4)
           /\ \A x \in 0..(2 - 1) : Keeps(v, 1, 2, x, 8, 4)
           /\ \A x \in 0..(2 - 1) : Keeps(v, 1, 2, x, 32, 4)
           /\ \A x \in 0..(4 - 1) : Keeps(v, 2, 4, x, 8, 4)
           /\ \A x \in 0..(4 - 1) : Keeps(v, 2, 4, x, 32, 4)
           /\ \A x \in 0..(4 - 1) : Keeps(v, 8, 4, x, 32, 4)
           /\ \A x \in 0..(8 - 1) : Keeps(v, 1, 8, x, 8, 8)
           /\ \A x \in 0..(16 - 1) : Keeps(v, 1, 16, x, 16, 16)
           /\ \A x \in 0..(2 - 1) : Keeps(v, 32, 2, x, 1, 32)
           /\ \A x \in 0..(4 - 1) : Keeps(v, 2, 4, x, 1, 2)
           /\ \A x \in 0..(4 - 1) : Keeps(v, 8, 4, x, 1, 2)
           /\ \A x \in 0..(4 - 1) : Keeps(v, 32, 4, x, 1, 2)
           /\ \A x \in 0..(4 - 1) : Keeps(v, 8, 4, x, 2, 4)
           /\ \A x \in 0..(4 - 1) : Keeps(v, 32, 4, x, 2, 4)
           /\ \A x \in 0..(4 - 1) : Keeps(v, 32, 4, x, 8, 4)
           /\ \A x \in 0..(8 - 1) : Keeps(v, 8, 8, x, 1, 8)
<1>1. \A x \in 0..(16 - 1) : Keeps(v, 16, 16, x, 1, 16)
  BY DEF Byte, Keeps, Part, PutPart
<1>2. \A x \in 0..(32 - 1) : Keeps(v, 1, 32, x, 32, 2)
  BY DEF Byte, Keeps, Part, PutPart
<1>3. \A x \in 0..(2 - 1) : Keeps(v, 1, 2, x, 2, 4)
  BY DEF Byte, Keeps, Part, PutPart
<1>4. \A x \in 0..(2 - 1) : Keeps(v, 1, 2, x, 8, 4)
  BY DEF Byte, Keeps, Part, PutPart
<1>5. \A x \in 0..(2 - 1) : Keeps(v, 1, 2, x, 32, 4)
  BY DEF Byte, Keeps, Part, PutPart
<1>6. \A x \in 0..(4 - 1) : Keeps(v, 2, 4, x, 8, 4)
  BY DEF Byte, Keeps, Part, PutPart
<1>7. \A x \in 0..(4 - 1) : Keeps(v, 2, 4, x, 32, 4)
  BY DEF Byte, Keeps, Part, PutPart
<1>8. \A x \in 0..(4 - 1) : Keeps(v, 8, 4, x, 32, 4)
  BY DEF Byte, Keeps, Part, PutPart
<1>9. \A x \in 0..(8 - 1) : Keeps(v, 1, 8, x, 8, 8)
  BY DEF Byte, Keeps, Part, PutPart
<1>10. \A x \in 0..(16 - 1) : Keeps(v, 1, 16, x, 16, 16)
  BY DEF Byte, Keeps, Part, PutPart
<1>11. \A x \in 0..(2 - 1) : Keeps(v, 32, 2, x, 1, 32)
  BY DEF Byte, Keeps, Part, PutPart
<1>12. \A x \in 0..(4 - 1) : Keeps(v, 2, 4, x, 1, 2)
  BY DEF Byte, Keeps, Part, PutPart
<1>13. \A x \in 0..(4 - 1) : Keeps(v, 8, 4, x, 1, 2)
  BY DEF Byte, Keeps, Part, PutPart
<1>14. \A x \in 0..(4 - 1) : Keeps(v, 32, 4, x, 1, 2)
  BY DEF Byte, Keeps, Part, PutPart
<1>15. \A x \in 0..(4 - 1) : Keeps(v, 8, 4, x, 2, 4)
  BY DEF Byte, Keeps, Part, PutPart
<1>16. \A x \in 0..(4 - 1) : Keeps(v, 32, 4, x, 2, 4)
  BY DEF Byte, Keeps, Part, PutPart
<1>17. \A x \in 0..(4 - 1) : Keeps(v, 32, 4, x, 8, 4)
  BY DEF Byte, Keeps, Part, PutPart
<1>18. \A x \in 0..(8 - 1) : Keeps(v, 8, 8, x, 1, 8)
  BY DEF Byte, Keeps, Part, PutPart
<1> QED
  BY <1>1, <1>2, <1>3, <1>4, <1>5, <1>6, <1>7, <1>8, <1>9, <1>10, <1>11, <1>12, <1>13, <1>14, <1>15, <1>16, <1>17, <1>18

(* The fields the driver puts values into (Access).                        *)
Fields == { Field("MASTER1", 1, 1), BandField, RfFilter, if_filter_fields.MIX,
            if_filter_fields.RC, if_filter_fields.CHAN, Field("FILT3", 5, 1),
            LnaField, MixerField, if_stage_gain_regs[1], if_stage_gain_regs[2], if_stage_gain_regs[3],
            if_stage_gain_regs[4], if_stage_gain_regs[5], if_stage_gain_regs[6],
            AgcMode, MixAuto, Field("AGC11", 0, 3) }

(* Where the bits of a field begin, and how many they are.                 *)
BitField(f, s, w) == f.shift = s /\ f.width = w

(* The part of the register that such a field is.                          *)
LEMMA ShapeTakes ==
    \A f : /\ BitField(f, 0, 1) => Takes(f, 1, 2)
           /\ BitField(f, 1, 1) => Takes(f, 2, 2)
           /\ BitField(f, 5, 1) => Takes(f, 32, 2)
           /\ BitField(f, 1, 2) => Takes(f, 2, 4)
           /\ BitField(f, 3, 2) => Takes(f, 8, 4)
           /\ BitField(f, 5, 2) => Takes(f, 32, 4)
           /\ BitField(f, 0, 3) => Takes(f, 1, 8)
           /\ BitField(f, 3, 3) => Takes(f, 8, 8)
           /\ BitField(f, 0, 4) => Takes(f, 1, 16)
           /\ BitField(f, 4, 4) => Takes(f, 16, 16)
           /\ BitField(f, 0, 5) => Takes(f, 1, 32)
<1> TAKE f
<1>1. BitField(f, 0, 1) => Takes(f, 1, 2)
  BY DEF BitField, Takes
<1>2. BitField(f, 1, 1) => Takes(f, 2, 2)
  BY DEF BitField, Takes
<1>3. BitField(f, 5, 1) => Takes(f, 32, 2)
  BY DEF BitField, Takes
<1>4. BitField(f, 1, 2) => Takes(f, 2, 4)
  BY DEF BitField, Takes
<1>5. BitField(f, 3, 2) => Takes(f, 8, 4)
  BY DEF BitField, Takes
<1>6. BitField(f, 5, 2) => Takes(f, 32, 4)
  BY DEF BitField, Takes
<1>7. BitField(f, 0, 3) => Takes(f, 1, 8)
  BY DEF BitField, Takes
<1>8. BitField(f, 3, 3) => Takes(f, 8, 8)
  BY DEF BitField, Takes
<1>9. BitField(f, 0, 4) => Takes(f, 1, 16)
  BY DEF BitField, Takes
<1>10. BitField(f, 4, 4) => Takes(f, 16, 16)
  BY DEF BitField, Takes
<1>11. BitField(f, 0, 5) => Takes(f, 1, 32)
  BY DEF BitField, Takes
<1> QED
  BY <1>1, <1>2, <1>3, <1>4, <1>5, <1>6, <1>7, <1>8, <1>9, <1>10, <1>11

(* Every field is in a register and one of the parts above.                *)
LEMMA FieldTakes ==
    ASSUME NEW f \in Fields
    PROVE  /\ f.reg \in Regs
           /\ \/ Takes(f, 1, 2)
              \/ Takes(f, 2, 2)
              \/ Takes(f, 32, 2)
              \/ Takes(f, 2, 4)
              \/ Takes(f, 8, 4)
              \/ Takes(f, 32, 4)
              \/ Takes(f, 1, 8)
              \/ Takes(f, 8, 8)
              \/ Takes(f, 1, 16)
              \/ Takes(f, 16, 16)
              \/ Takes(f, 1, 32)
<1>1. /\ f.reg \in Regs
      /\ \/ BitField(f, 0, 1)
         \/ BitField(f, 1, 1)
         \/ BitField(f, 5, 1)
         \/ BitField(f, 1, 2)
         \/ BitField(f, 3, 2)
         \/ BitField(f, 5, 2)
         \/ BitField(f, 0, 3)
         \/ BitField(f, 3, 3)
         \/ BitField(f, 0, 4)
         \/ BitField(f, 4, 4)
         \/ BitField(f, 0, 5)
  BY DEF Fields, BitField, Field, BandField, RfFilter, if_filter_fields, LnaField, MixerField,
         if_stage_gain_regs, AgcMode, MixAuto, Regs
<1> QED
  BY <1>1, ShapeTakes

(* Two fields of one register are one of the pairs of parts above.         *)
LEMMA FieldPairs ==
    ASSUME NEW f \in Fields, NEW g \in Fields, f # g, f.reg = g.reg
    PROVE  \/ Takes(f, 16, 16) /\ Takes(g, 1, 16)
           \/ Takes(f, 1, 32) /\ Takes(g, 32, 2)
           \/ Takes(f, 1, 2) /\ Takes(g, 2, 4)
           \/ Takes(f, 1, 2) /\ Takes(g, 8, 4)
           \/ Takes(f, 1, 2) /\ Takes(g, 32, 4)
           \/ Takes(f, 2, 4) /\ Takes(g, 8, 4)
           \/ Takes(f, 2, 4) /\ Takes(g, 32, 4)
           \/ Takes(f, 8, 4) /\ Takes(g, 32, 4)
           \/ Takes(f, 1, 8) /\ Takes(g, 8, 8)
           \/ Takes(f, 1, 16) /\ Takes(g, 16, 16)
           \/ Takes(f, 32, 2) /\ Takes(g, 1, 32)
           \/ Takes(f, 2, 4) /\ Takes(g, 1, 2)
           \/ Takes(f, 8, 4) /\ Takes(g, 1, 2)
           \/ Takes(f, 32, 4) /\ Takes(g, 1, 2)
           \/ Takes(f, 8, 4) /\ Takes(g, 2, 4)
           \/ Takes(f, 32, 4) /\ Takes(g, 2, 4)
           \/ Takes(f, 32, 4) /\ Takes(g, 8, 4)
           \/ Takes(f, 8, 8) /\ Takes(g, 1, 8)
<1>1. \/ BitField(f, 4, 4) /\ BitField(g, 0, 4)
      \/ BitField(f, 0, 5) /\ BitField(g, 5, 1)
      \/ BitField(f, 0, 1) /\ BitField(g, 1, 2)
      \/ BitField(f, 0, 1) /\ BitField(g, 3, 2)
      \/ BitField(f, 0, 1) /\ BitField(g, 5, 2)
      \/ BitField(f, 1, 2) /\ BitField(g, 3, 2)
      \/ BitField(f, 1, 2) /\ BitField(g, 5, 2)
      \/ BitField(f, 3, 2) /\ BitField(g, 5, 2)
      \/ BitField(f, 0, 3) /\ BitField(g, 3, 3)
      \/ BitField(f, 0, 4) /\ BitField(g, 4, 4)
      \/ BitField(f, 5, 1) /\ BitField(g, 0, 5)
      \/ BitField(f, 1, 2) /\ BitField(g, 0, 1)
      \/ BitField(f, 3, 2) /\ BitField(g, 0, 1)
      \/ BitField(f, 5, 2) /\ BitField(g, 0, 1)
      \/ BitField(f, 3, 2) /\ BitField(g, 1, 2)
      \/ BitField(f, 5, 2) /\ BitField(g, 1, 2)
      \/ BitField(f, 5, 2) /\ BitField(g, 3, 2)
      \/ BitField(f, 3, 3) /\ BitField(g, 0, 3)
  BY DEF Fields, BitField, Field, BandField, RfFilter, if_filter_fields, LnaField, MixerField,
         if_stage_gain_regs, AgcMode, MixAuto
<1> QED
  BY <1>1, ShapeTakes

(* Reading and putting a field are reading and putting its part.           *)
LEMMA FieldIsPart ==
    \A f, p, q, v, x : Takes(f, p, q) =>
       /\ FieldOf(v, f) = Part(v, p, q) /\ WithField(v, f, x) = PutPart(v, p, q, x)
       /\ Size(f) = q
<1> TAKE f, p, q, v, x
<1> HAVE Takes(f, p, q)
<1>1. 2^f.shift = p /\ 2^f.width = q
  BY DEF Takes
<1>2. FieldOf(v, f) = Part(v, p, q)
  BY <1>1, Zenon DEF FieldOf, Part
<1>3. WithField(v, f, x) = PutPart(v, p, q, x)
  BY <1>1, Zenon DEF FieldOf, WithField, PutPart
<1> QED
  BY <1>1, <1>2, <1>3 DEF Size

(* What is put into a field is read back, and the register stays a byte.   *)
LEMMA PutGet ==
    ASSUME NEW f \in Fields, NEW v \in Byte, NEW x \in 0..(Size(f) - 1)
    PROVE  /\ WithField(v, f, x) \in Byte
           /\ FieldOf(WithField(v, f, x), f) = x
           /\ FieldOf(v, f) \in 0..(Size(f) - 1)
<1>1. \A p, q : Takes(f, p, q) /\ Fits(v, p, q, x) =>
         /\ WithField(v, f, x) \in Byte
         /\ FieldOf(WithField(v, f, x), f) = x
         /\ FieldOf(v, f) \in 0..(Size(f) - 1)
  BY FieldIsPart DEF Fits
<1>2. \A p, q : Takes(f, p, q) => x \in 0..(q - 1)
  BY FieldIsPart
<1>3. \E p, q : Takes(f, p, q) /\ Fits(v, p, q, x)
  BY <1>2, FieldTakes, PartsFit
<1> QED
  BY <1>1, <1>3

(* Putting a field changes no other field, whatever register it is in.     *)
LEMMA FieldsApart ==
    ASSUME NEW f \in Fields, NEW g \in Fields, f # g, f.reg = g.reg,
           NEW v \in Byte, NEW x \in 0..(Size(f) - 1)
    PROVE  FieldOf(WithField(v, f, x), g) = FieldOf(v, g)
<1>1. \A p, q, r, s : Takes(f, p, q) /\ Takes(g, r, s) /\ Keeps(v, p, q, x, r, s) =>
         FieldOf(WithField(v, f, x), g) = FieldOf(v, g)
  BY FieldIsPart DEF Keeps
<1>2. \A p, q : Takes(f, p, q) => x \in 0..(q - 1)
  BY FieldIsPart
<1>3. \E p, q, r, s : Takes(f, p, q) /\ Takes(g, r, s) /\ Keeps(v, p, q, x, r, s)
  BY <1>2, FieldPairs, PartsApart
<1> QED
  BY <1>1, <1>3

(* The contents of the registers.                                          *)
Memory == [Regs -> Byte]

(* An access as the driver makes it: a byte, or a value its field can      *)
(* hold.                                                                   *)
IsAccess(s) ==
  \/ s.kind = "write" /\ s.f.reg \in Regs /\ s.val \in Byte
  \/ s.kind \in {"mask", "field"} /\ s.f \in Fields /\ s.val \in 0..(Size(s.f) - 1)

(* An access changes one register, and whatever happens leaves a byte      *)
(* there.                                                                  *)
LEMMA AccessType ==
    ASSUME NEW mem \in Memory, NEW s, IsAccess(s), NEW fault
    PROVE  /\ Access(mem, s, fault).regs \in Memory
           /\ Access(mem, s, fault).ok \in BOOLEAN
           /\ \A r \in Regs \ {s.f.reg} : Access(mem, s, fault).regs[r] = mem[r]
<1> DEFINE old == IF fault = "read" THEN 255 ELSE mem[s.f.reg]
           new == IF s.kind = "write" THEN s.val ELSE WithField(old, s.f, s.val)
<1>1. s.f.reg \in Regs /\ old \in Byte
  BY FieldTakes DEF IsAccess, Memory, Byte
<1>2. new \in Byte
  <2>1. CASE s.kind = "write"
    BY <2>1 DEF IsAccess
  <2>2. CASE s.kind # "write"
    <3>1. s.f \in Fields /\ s.val \in 0..(Size(s.f) - 1)
      BY <2>2 DEF IsAccess
    <3> QED
      BY <3>1, <1>1, <2>2, PutGet
  <2> QED
    BY <2>1, <2>2
<1> DEFINE m == [mem EXCEPT ![s.f.reg] = new]
<1>3. m \in Memory /\ \A r \in Regs \ {s.f.reg} : m[r] = mem[r]
  BY <1>1, <1>2 DEF Memory
<1>4. /\ Access(mem, s, fault).regs = mem \/ Access(mem, s, fault).regs = m
      /\ Access(mem, s, fault).ok \in BOOLEAN
  BY SMT DEF Access
<1> HIDE DEF m
<1> QED
  BY <1>3, <1>4

(* One without a fault goes well, puts its value into its field and no     *)
(* other.                                                                  *)
LEMMA AccessPuts ==
    ASSUME NEW mem \in Memory, NEW s, IsAccess(s), s.kind # "write"
    PROVE  /\ Access(mem, s, "none").ok = TRUE
           /\ FieldOf(Access(mem, s, "none").regs[s.f.reg], s.f) = s.val
           /\ \A g \in Fields \ {s.f} :
                FieldOf(Access(mem, s, "none").regs[g.reg], g) = FieldOf(mem[g.reg], g)
<1> DEFINE old == mem[s.f.reg]
           new == WithField(old, s.f, s.val)
<1>1. s.f \in Fields /\ s.val \in 0..(Size(s.f) - 1) /\ s.f.reg \in Regs
  BY FieldTakes DEF IsAccess
<1>2. old \in Byte
  BY <1>1 DEF Memory
<1>3. FieldOf(new, s.f) = s.val
  BY <1>1, <1>2, PutGet
<1>4. ASSUME NEW g \in Fields \ {s.f}, g.reg = s.f.reg
      PROVE  FieldOf(new, g) = FieldOf(old, g)
  BY <1>1, <1>2, <1>4, FieldsApart
<1> DEFINE m == [mem EXCEPT ![s.f.reg] = new]
<1>5. IF FieldOf(old, s.f) = s.val
      THEN Access(mem, s, "none") = [regs |-> mem, ok |-> TRUE]
      ELSE Access(mem, s, "none") = [regs |-> m, ok |-> TRUE]
  BY DEF Access
<1>6. \A g \in Fields : g.reg \in Regs
  BY FieldTakes
<1>m. m[s.f.reg] = new /\ \A r \in Regs \ {s.f.reg} : m[r] = mem[r]
  BY <1>1 DEF Memory
<1> HIDE DEF new, m
<1>7. CASE FieldOf(old, s.f) = s.val
  BY <1>5, <1>7
<1>8. CASE FieldOf(old, s.f) # s.val
  <2>4. Access(mem, s, "none").regs = m /\ Access(mem, s, "none").ok = TRUE
    BY <1>5, <1>8
  <2>5. m[s.f.reg] = new /\ \A r \in Regs \ {s.f.reg} : m[r] = mem[r]
    BY <1>m
  <2>6. ASSUME NEW g \in Fields \ {s.f}
        PROVE  FieldOf(m[g.reg], g) = FieldOf(mem[g.reg], g)
    <3>1. CASE g.reg = s.f.reg
      BY <3>1, <2>5, <1>4
    <3>2. CASE g.reg # s.f.reg
      <4>1. m[g.reg] = mem[g.reg]
        BY <3>2, <2>5, <1>6
      <4> QED
        BY <4>1
    <3> QED
      BY <3>1, <3>2
  <2> QED
    BY <2>4, <2>5, <2>6, <1>3
<1> QED
  BY <1>7, <1>8

(* A write without a fault puts its value into its register.               *)
LEMMA AccessWrites ==
    ASSUME NEW mem \in Memory, NEW s, s.kind = "write", IsAccess(s)
    PROVE  Access(mem, s, "none").regs[s.f.reg] = s.val
BY FieldTakes, Zenon DEF Access, IsAccess, Memory

(* The fault that access n of a run meets.                                 *)
FaultAt(bad, n) == IF n = bad.n THEN bad.fault ELSE "none"

(* g is the chip's memory after each of the accesses of a run.             *)
Trace(g, start, steps, bad) ==
  /\ g[0] = start
  /\ \A n \in 0..Len(steps) : g[n] \in Memory
  /\ \A n \in 1..Len(steps) : g[n] = Access(g[n - 1], steps[n], FaultAt(bad, n)).regs

(* oks tells which of them went well.                                      *)
Report(oks, g, steps, bad) ==
  /\ DOMAIN oks = 1..Len(steps)
  /\ \A n \in 1..Len(steps) : oks[n] = Access(g[n - 1], steps[n], FaultAt(bad, n)).ok

(* A run of accesses (Run) is a recursion over them, and computes what     *)
(* each one leaves.                                                        *)
LEMMA RunIsTrace ==
    ASSUME NEW start \in Memory, NEW steps, Len(steps) \in Nat,
           \A n \in 1..Len(steps) : IsAccess(steps[n]), NEW bad
    PROVE  \E g : /\ Trace(g, start, steps, bad)
                  /\ Run(start, steps, bad).regs = g[Len(steps)]
                  /\ Report(Run(start, steps, bad).oks, g, steps, bad)
<1> DEFINE L == Len(steps)
           V == [regs : Memory, oks : Seq(BOOLEAN)]
           Do(n, v) == Access(v.regs, steps[n], FaultAt(bad, n))
           a == [regs |-> start, oks |-> << >>]
           F == [n \in Nat |-> [v \in V |->
                  IF n + 1 \in 1..L
                  THEN [regs |-> Do(n + 1, v).regs, oks |-> Append(v.oks, Do(n + 1, v).ok)]
                  ELSE v]]
<1>1. a \in V
  OBVIOUS
<1>2. \A n \in 1..L, v \in V : Do(n, v).regs \in Memory /\ Do(n, v).ok \in BOOLEAN
  BY AccessType
<1>3. Turns(F, V)
  <2> SUFFICES ASSUME NEW n \in Nat, NEW v \in V PROVE F[n][v] \in V
    BY DEF Turns
  <2> HIDE DEF Do
  <2>1. v.regs \in Memory /\ v.oks \in Seq(BOOLEAN)
    OBVIOUS
  <2>2. CASE n + 1 \in 1..L
    <3>1. Append(v.oks, Do(n + 1, v).ok) \in Seq(BOOLEAN) /\ Do(n + 1, v).regs \in Memory
      BY <2>1, <2>2, <1>2
    <3> QED
      BY <3>1, <2>2
  <2>3. CASE n + 1 \notin 1..L
    BY <2>3
  <2> QED
    BY <2>2, <2>3
<1> HIDE DEF V, Do, F, a
<1>4. PICK h : Repeats(h, V, a, F)
  BY <1>1, <1>3, Recursion
<1>5. \A n \in 1..L : h[n] = [regs |-> Do(n, h[n - 1]).regs,
                              oks |-> Append(h[n - 1].oks, Do(n, h[n - 1]).ok)]
  <2> SUFFICES ASSUME NEW n \in 1..L
               PROVE  h[n] = [regs |-> Do(n, h[n - 1]).regs,
                              oks |-> Append(h[n - 1].oks, Do(n, h[n - 1]).ok)]
    OBVIOUS
  <2>1. n - 1 \in Nat /\ (n - 1) + 1 = n
    OBVIOUS
  <2>2. h[n - 1] \in V /\ h[n] = F[n - 1][h[n - 1]]
    BY <2>1, <1>4 DEF Repeats
  <2> QED
    BY <2>1, <2>2 DEF F
<1> DEFINE Done(f) ==
      [n \in 0..L |->
         IF n = 0 THEN [regs |-> start, oks |-> << >>]
         ELSE LET x == Access(f[n - 1].regs, steps[n],
                              IF n = bad.n THEN bad.fault ELSE "none")
              IN  [regs |-> x.regs, oks |-> Append(f[n - 1].oks, x.ok)]]
           k == [n \in 0..L |-> h[n]]
<1>6. k = Done(k)
  <2>1. k[0] = Done(k)[0]
    BY <1>4 DEF Repeats, a
  <2>2. ASSUME NEW n \in 1..L
        PROVE  k[n] = Done(k)[n]
    <3>1. n \in 0..L /\ n - 1 \in 0..L /\ n # 0
      OBVIOUS
    <3>2. k[n] = h[n] /\ k[n - 1] = h[n - 1]
      BY <3>1
    <3> QED
      BY <3>1, <3>2, <1>5 DEF Do, FaultAt
  <2> DEFINE ak == Done(k)
  <2>3. k = [n \in 0..L |-> k[n]] /\ ak = [n \in 0..L |-> ak[n]]
    OBVIOUS
  <2> HIDE DEF k, Done, ak
  <2>4. \A n \in 0..L : k[n] = ak[n]
    <3>1. k[0] = ak[0] /\ \A n \in 1..L : k[n] = ak[n]
      BY <2>1, <2>2 DEF ak
    <3> QED
      BY <3>1
  <2>5. k = ak
    BY <2>3, <2>4
  <2> QED
    BY <2>5 DEF ak
<1> DEFINE after == CHOOSE f : f = Done(f)
<1>7. after = Done(after)
  <2> HIDE DEF k, Done
  <2> QED
    BY <1>6
<1>8. Run(start, steps, bad) = after[L]
  BY DEF Run
<1> HIDE DEF k, Done, after
<1> DEFINE g == [n \in 0..L |-> after[n].regs]
           r == [n \in 0..L |-> after[n]]
<1>8a. ASSUME NEW n \in 1..L
       PROVE  after[n] = [regs |-> Do(n, after[n - 1]).regs,
                          oks |-> Append(after[n - 1].oks, Do(n, after[n - 1]).ok)]
  <2>1. n \in 0..L /\ n # 0
    OBVIOUS
  <2> QED
    BY <2>1, <1>7 DEF Done, Do, FaultAt
<1>9. \A n \in 0..L : after[n] \in V
  <2> DEFINE E == {n \in Nat : n \in 0..L => after[n] \in V}
  <2>1. 0 \in E
    BY <1>7, <1>1 DEF Done, a
  <2>2. ASSUME NEW n \in Nat, n \in E PROVE n + 1 \in E
    <3> SUFFICES ASSUME n + 1 \in 0..L PROVE after[n + 1] \in V
      OBVIOUS
    <3>1. after[n] \in V /\ n + 1 \in 1..L /\ (n + 1) - 1 = n /\ n + 1 # 0
      BY <2>2
    <3>2. after[n + 1] = [regs |-> Do(n + 1, after[n]).regs,
                          oks |-> Append(after[n].oks, Do(n + 1, after[n]).ok)]
      BY <3>1, <1>8a
    <3>3. after[n].regs \in Memory /\ after[n].oks \in Seq(BOOLEAN)
      BY <3>1 DEF V
    <3>4. Append(after[n].oks, Do(n + 1, after[n]).ok) \in Seq(BOOLEAN)
      BY <3>1, <3>3, <1>2
    <3> QED
      BY <3>1, <3>2, <3>4, <1>2 DEF V
  <2> HIDE DEF E
  <2>3. \A n \in Nat : n \in E
    BY <2>1, <2>2, Induction
  <2> QED
    BY <2>3 DEF E
<1>10. \A n \in 1..L : /\ after[n].regs = Do(n, after[n - 1]).regs
                       /\ after[n].oks = Append(after[n - 1].oks, Do(n, after[n - 1]).ok)
  <2> SUFFICES ASSUME NEW n \in 1..L
               PROVE  /\ after[n].regs = Do(n, after[n - 1]).regs
                      /\ after[n].oks = Append(after[n - 1].oks, Do(n, after[n - 1]).ok)
    OBVIOUS
  <2> QED
    <3>1. after[n] = [regs |-> Do(n, after[n - 1]).regs,
                      oks |-> Append(after[n - 1].oks, Do(n, after[n - 1]).ok)]
      BY <1>8a
    <3> HIDE DEF Do
    <3> QED
      BY <3>1
<1> DEFINE Said(n) == /\ Len(after[n].oks) = n
                      /\ \A j \in 1..n : after[n].oks[j] = Do(j, after[j - 1]).ok
<1>11. Said(L)
  <2> DEFINE E == {n \in Nat : n \in 0..L => Said(n)}
  <2>1. 0 \in E
    BY <1>7 DEF Done
  <2>2. ASSUME NEW n \in Nat, n \in E PROVE n + 1 \in E
    <3> SUFFICES ASSUME n + 1 \in 0..L PROVE Said(n + 1)
      OBVIOUS
    <3>1. /\ n \in 0..L /\ n + 1 \in 1..L /\ (n + 1) - 1 = n
          /\ Said(n)
      BY <2>2
    <3>2. after[n + 1].oks = Append(after[n].oks, Do(n + 1, after[n]).ok)
      <4> DEFINE m == n + 1
      <4>1. m \in 1..L /\ m - 1 = n
        BY <3>1
      <4> HIDE DEF m
      <4>2. after[m].oks = Append(after[m - 1].oks, Do(m, after[m - 1]).ok)
        BY <4>1, <1>10
      <4> QED
        BY <4>1, <4>2 DEF m
    <3>3. after[n].oks \in Seq(BOOLEAN)
      BY <3>1, <1>9 DEF V
    <3> DEFINE old == after[n].oks
               x == Do(n + 1, after[n]).ok
    <3>4. Len(old) = n /\ \A j \in 1..n : old[j] = Do(j, after[j - 1]).ok
      BY <3>1
    <3>5. after[n + 1].oks = Append(old, x) /\ old \in Seq(BOOLEAN)
      BY <3>2, <3>3
    <3>6. x = Do(n + 1, after[(n + 1) - 1]).ok
      BY <3>1
    <3> HIDE DEF old, x
    <3>7. Len(Append(old, x)) = n + 1 /\ Append(old, x)[n + 1] = x
      BY <3>4, <3>5
    <3>8. \A j \in 1..n : Append(old, x)[j] = old[j]
      BY <3>4, <3>5
    <3>9. \A j \in 1..(n + 1) : j \in 1..n \/ j = n + 1
      OBVIOUS
    <3> QED
      BY <3>4, <3>5, <3>6, <3>7, <3>8, <3>9
  <2> HIDE DEF E
  <2>3. \A n \in Nat : n \in E
    BY <2>1, <2>2, Induction
  <2> QED
    BY <2>3 DEF E
<1>12. Trace(g, start, steps, bad)
  <2>1. g[0] = start
    BY <1>7 DEF Done
  <2>2. \A n \in 0..L : g[n] \in Memory
    BY <1>9 DEF V
  <2>3. \A n \in 1..L : n - 1 \in 0..L /\ n \in 0..L
    OBVIOUS
  <2>4. \A n \in 1..L : g[n] = Access(g[n - 1], steps[n], FaultAt(bad, n)).regs
    <3> SUFFICES ASSUME NEW n \in 1..L
                 PROVE  g[n] = Access(g[n - 1], steps[n], FaultAt(bad, n)).regs
      OBVIOUS
    <3>1. after[n].regs = Do(n, after[n - 1]).regs
      BY <1>10
    <3>2. g[n] = after[n].regs /\ g[n - 1] = after[n - 1].regs
      BY <2>3
    <3> HIDE DEF g
    <3> QED
      BY <3>1, <3>2 DEF Do
  <2> QED
    BY <2>1, <2>2, <2>4 DEF Trace
<1>13. Report(after[L].oks, g, steps, bad)
  <2>1. after[L].oks \in Seq(BOOLEAN)
    BY <1>9 DEF V
  <2>2. DOMAIN after[L].oks = 1..L
    BY <2>1, <1>11
  <2>3. \A n \in 1..L : n - 1 \in 0..L
    OBVIOUS
  <2>4. \A n \in 1..L : after[L].oks[n] = Access(g[n - 1], steps[n], FaultAt(bad, n)).ok
    BY <2>3, <1>11 DEF Do
  <2> QED
    BY <2>2, <2>4 DEF Report
<1>14. Run(start, steps, bad).regs = g[L] /\ Run(start, steps, bad).oks = after[L].oks
  BY <1>8
<1> HIDE DEF g
<1> QED
  BY <1>12, <1>13, <1>14

(* A list of accesses.                                                     *)
AreSteps(steps) == Len(steps) \in Nat /\ \A n \in 1..Len(steps) : IsAccess(steps[n])

(* An access that does not change field f.                                 *)
Spares(s, f) == s.f # f /\ (s.kind = "write" => s.f.reg # f.reg)

(* The one access that goes wrong is to the damaged register.              *)
LEMMA DamageMissed ==
    ASSUME NEW steps, NEW bad, NEW r, r \notin Damage(steps, bad), NEW n \in 1..Len(steps),
           n = bad.n, Len(steps) \in Nat
    PROVE  steps[n].f.reg # r
BY DEF Damage

(* An access that spares a field and is not at fault keeps it.             *)
LEMMA SpareKeeps ==
    ASSUME NEW mem \in Memory, NEW s, IsAccess(s), NEW fault, NEW f \in Fields, Spares(s, f),
           s.f.reg = f.reg => fault = "none"
    PROVE  FieldOf(Access(mem, s, fault).regs[f.reg], f) = FieldOf(mem[f.reg], f)
<1>0. f.reg \in Regs
  BY FieldTakes
<1>1. CASE s.f.reg # f.reg
  BY <1>0, <1>1, AccessType
<1>2. CASE s.f.reg = f.reg
  <2>1. s.kind # "write" /\ fault = "none" /\ f \in Fields \ {s.f}
    BY <1>2 DEF Spares
  <2> QED
    BY <2>1, AccessPuts
<1> QED
  BY <1>1, <1>2

(* So do all accesses after the i-th, one after the other.                 *)
LEMMA TraceKeeps ==
    ASSUME NEW g, NEW start, NEW steps, NEW bad, AreSteps(steps), Trace(g, start, steps, bad),
           NEW f \in Fields, f.reg \notin Damage(steps, bad),
           NEW i \in 0..Len(steps), \A n \in (i + 1)..Len(steps) : Spares(steps[n], f)
    PROVE  FieldOf(g[Len(steps)][f.reg], f) = FieldOf(g[i][f.reg], f)
<1> DEFINE L == Len(steps)
           E == {n \in Nat : n \in i..L => FieldOf(g[n][f.reg], f) = FieldOf(g[i][f.reg], f)}
<1>0. L \in Nat
  BY DEF AreSteps
<1>1. 0 \in E
  OBVIOUS
<1>2. ASSUME NEW n \in Nat, n \in E
      PROVE  n + 1 \in E
  <2> SUFFICES ASSUME n + 1 \in i..L, n + 1 # i
               PROVE  FieldOf(g[n + 1][f.reg], f) = FieldOf(g[i][f.reg], f)
    OBVIOUS
  <2> DEFINE m == n + 1
  <2>1. m \in (i + 1)..L /\ m \in 1..L /\ m - 1 = n /\ n \in i..L /\ n \in 0..L
    BY <1>0
  <2>2. FieldOf(g[n][f.reg], f) = FieldOf(g[i][f.reg], f)
    BY <2>1, <1>2
  <2> HIDE DEF m
  <2>3. g[m] = Access(g[n], steps[m], FaultAt(bad, m)).regs /\ g[n] \in Memory
    BY <2>1 DEF Trace
  <2>4. Spares(steps[m], f) /\ IsAccess(steps[m])
    BY <2>1 DEF AreSteps
  <2>5. steps[m].f.reg = f.reg => FaultAt(bad, m) = "none"
    BY <2>1, <1>0, DamageMissed DEF FaultAt
  <2>6. FieldOf(g[m][f.reg], f) = FieldOf(g[n][f.reg], f)
    BY <2>3, <2>4, <2>5, SpareKeeps
  <2> QED
    BY <2>2, <2>6 DEF m
<1> HIDE DEF E
<1>3. \A n \in Nat : n \in E
  BY <1>1, <1>2, Induction
<1> QED
  BY <1>3, <1>0 DEF E

(* Accesses to other registers keep a register.                            *)
LEMMA TraceKeepsReg ==
    ASSUME NEW g, NEW start, NEW steps, NEW bad, AreSteps(steps), Trace(g, start, steps, bad),
           NEW r \in Regs,
           NEW i \in 0..Len(steps), \A n \in (i + 1)..Len(steps) : steps[n].f.reg # r
    PROVE  g[Len(steps)][r] = g[i][r]
<1> DEFINE L == Len(steps)
           E == {n \in Nat : n \in i..L => g[n][r] = g[i][r]}
<1>0. L \in Nat
  BY DEF AreSteps
<1>1. 0 \in E
  OBVIOUS
<1>2. ASSUME NEW n \in Nat, n \in E
      PROVE  n + 1 \in E
  <2> SUFFICES ASSUME n + 1 \in i..L, n + 1 # i
               PROVE  g[n + 1][r] = g[i][r]
    OBVIOUS
  <2> DEFINE m == n + 1
  <2>1. m \in (i + 1)..L /\ m \in 1..L /\ m - 1 = n /\ n \in i..L /\ n \in 0..L
    BY <1>0
  <2>2. g[n][r] = g[i][r]
    BY <2>1, <1>2
  <2> HIDE DEF m
  <2>3. g[m] = Access(g[n], steps[m], FaultAt(bad, m)).regs /\ g[n] \in Memory
    BY <2>1 DEF Trace
  <2>4. steps[m].f.reg # r /\ IsAccess(steps[m])
    BY <2>1 DEF AreSteps
  <2>6. g[m][r] = g[n][r]
    BY <2>3, <2>4, AccessType
  <2> QED
    BY <2>2, <2>6 DEF m
<1> HIDE DEF E
<1>3. \A n \in Nat : n \in E
  BY <1>1, <1>2, Induction
<1> QED
  BY <1>3, <1>0 DEF E

(* What a call's accesses leave behind.                                    *)
LEMMA RunType ==
    ASSUME NEW start \in Memory, NEW steps, AreSteps(steps), NEW bad
    PROVE  Run(start, steps, bad).regs \in Memory
<1>1. \E g : Trace(g, start, steps, bad) /\ Run(start, steps, bad).regs = g[Len(steps)]
  BY RunIsTrace DEF AreSteps
<1> QED
  BY <1>1 DEF Trace, AreSteps

(* A field that no access of a run changes.                                *)
LEMMA RunKeeps ==
    ASSUME NEW start \in Memory, NEW steps, AreSteps(steps), NEW bad,
           NEW f \in Fields, f.reg \notin Damage(steps, bad),
           \A n \in 1..Len(steps) : Spares(steps[n], f)
    PROVE  FieldOf(Run(start, steps, bad).regs[f.reg], f) = FieldOf(start[f.reg], f)
<1>1. PICK g : Trace(g, start, steps, bad) /\ Run(start, steps, bad).regs = g[Len(steps)]
  BY RunIsTrace DEF AreSteps
<1> DEFINE z == 0
<1>2. z \in 0..Len(steps) /\ \A n \in (z + 1)..Len(steps) : Spares(steps[n], f)
  BY DEF AreSteps
<1>3. g[z] = start
  BY <1>1 DEF Trace
<1> HIDE DEF z
<1>4. FieldOf(g[Len(steps)][f.reg], f) = FieldOf(g[z][f.reg], f)
  BY <1>1, <1>2, TraceKeeps
<1> QED
  BY <1>1, <1>3, <1>4

(* A register that no access of a run is to.                               *)
LEMMA RunKeepsReg ==
    ASSUME NEW start \in Memory, NEW steps, AreSteps(steps), NEW bad,
           NEW r \in Regs, \A n \in 1..Len(steps) : steps[n].f.reg # r
    PROVE  Run(start, steps, bad).regs[r] = start[r]
<1>1. PICK g : Trace(g, start, steps, bad) /\ Run(start, steps, bad).regs = g[Len(steps)]
  BY RunIsTrace DEF AreSteps
<1> DEFINE z == 0
<1>2. z \in 0..Len(steps) /\ \A n \in (z + 1)..Len(steps) : steps[n].f.reg # r
  BY DEF AreSteps
<1>3. g[z] = start
  BY <1>1 DEF Trace
<1> HIDE DEF z
<1>4. g[Len(steps)][r] = g[z][r]
  BY <1>1, <1>2, TraceKeepsReg
<1> QED
  BY <1>1, <1>3, <1>4

(* A field that one access puts and no later one changes.                  *)
LEMMA RunSets ==
    ASSUME NEW start \in Memory, NEW steps, AreSteps(steps), NEW bad,
           NEW i \in 1..Len(steps), steps[i].kind # "write",
           steps[i].f.reg \notin Damage(steps, bad),
           \A n \in (i + 1)..Len(steps) : Spares(steps[n], steps[i].f)
    PROVE  FieldOf(Run(start, steps, bad).regs[steps[i].f.reg], steps[i].f) = steps[i].val
<1>1. PICK g : Trace(g, start, steps, bad) /\ Run(start, steps, bad).regs = g[Len(steps)]
  BY RunIsTrace DEF AreSteps
<1>2. IsAccess(steps[i]) /\ steps[i].f \in Fields /\ i \in 0..Len(steps) /\ i - 1 \in 0..Len(steps)
  BY DEF AreSteps, IsAccess
<1>3. FaultAt(bad, i) = "none"
  BY DamageMissed DEF FaultAt, AreSteps
<1>4. g[i] = Access(g[i - 1], steps[i], "none").regs /\ g[i - 1] \in Memory
  BY <1>1, <1>2, <1>3 DEF Trace
<1>5. FieldOf(g[i][steps[i].f.reg], steps[i].f) = steps[i].val
  <2> DEFINE s == steps[i]
             mem == g[i - 1]
  <2>1. IsAccess(s) /\ s.kind # "write" /\ mem \in Memory
    BY <1>2, <1>4
  <2>2. g[i] = Access(mem, s, "none").regs
    BY <1>4
  <2> HIDE DEF s, mem
  <2>3. FieldOf(Access(mem, s, "none").regs[s.f.reg], s.f) = s.val
    BY <2>1, AccessPuts
  <2> QED
    BY <2>2, <2>3 DEF s
<1>6. FieldOf(g[Len(steps)][steps[i].f.reg], steps[i].f) = FieldOf(g[i][steps[i].f.reg], steps[i].f)
  BY <1>1, <1>2, TraceKeeps
<1> QED
  BY <1>1, <1>5, <1>6

(* A register that one access writes and no later one is to.               *)
LEMMA RunWrites ==
    ASSUME NEW start \in Memory, NEW steps, AreSteps(steps), NEW bad,
           NEW i \in 1..Len(steps), steps[i].kind = "write",
           steps[i].f.reg \notin Damage(steps, bad),
           \A n \in (i + 1)..Len(steps) : steps[n].f.reg # steps[i].f.reg
    PROVE  Run(start, steps, bad).regs[steps[i].f.reg] = steps[i].val
<1>1. PICK g : Trace(g, start, steps, bad) /\ Run(start, steps, bad).regs = g[Len(steps)]
  BY RunIsTrace DEF AreSteps
<1>2. IsAccess(steps[i]) /\ steps[i].f.reg \in Regs /\ i \in 0..Len(steps) /\ i - 1 \in 0..Len(steps)
  BY DEF AreSteps, IsAccess
<1>3. FaultAt(bad, i) = "none"
  BY DamageMissed DEF FaultAt, AreSteps
<1>4. g[i] = Access(g[i - 1], steps[i], "none").regs /\ g[i - 1] \in Memory
  BY <1>1, <1>2, <1>3 DEF Trace
<1>5. g[i][steps[i].f.reg] = steps[i].val
  BY <1>2, <1>4, AccessWrites
<1>6. g[Len(steps)][steps[i].f.reg] = g[i][steps[i].f.reg]
  BY <1>1, <1>2, TraceKeepsReg
<1> QED
  BY <1>1, <1>5, <1>6

(* Without a fault every access that puts a field goes well.               *)
LEMMA RunOk ==
    ASSUME NEW start \in Memory, NEW steps, AreSteps(steps), NEW bad, bad.n = 0,
           \A n \in 1..Len(steps) : steps[n].kind # "write"
    PROVE  AllOk(Run(start, steps, bad).oks)
<1>1. PICK g : /\ Trace(g, start, steps, bad)
               /\ Report(Run(start, steps, bad).oks, g, steps, bad)
  BY RunIsTrace DEF AreSteps
<1> DEFINE oks == Run(start, steps, bad).oks
<1> SUFFICES ASSUME NEW n \in DOMAIN oks PROVE oks[n]
  BY DEF AllOk
<1> HIDE DEF oks
<1>2. n \in 1..Len(steps) /\ n - 1 \in 0..Len(steps) /\ Len(steps) \in Nat
  BY <1>1 DEF Report, oks, AreSteps
<1>3. FaultAt(bad, n) = "none"
  BY <1>2 DEF FaultAt
<1>4. oks[n] = Access(g[n - 1], steps[n], "none").ok /\ g[n - 1] \in Memory
  BY <1>1, <1>2, <1>3 DEF Report, Trace, oks
<1> QED
  BY <1>2, <1>4, AccessPuts DEF AreSteps

(* Fields that have no name in the driver: the standby bit, the bypass of  *)
(* the RC filter and a part of AGC11.                                      *)
AwakeField == Field("MASTER1", 1, 1)
RcBypass == Field("FILT3", 5, 1)
Agc11Field == Field("AGC11", 0, 3)

(* The fields a program's settings are in.                                 *)
LEMMA KnownFields ==
    /\ {AwakeField, RcBypass, Agc11Field, BandField, RfFilter, LnaField, MixerField, AgcMode,
        MixAuto, if_filter_fields.MIX, if_filter_fields.RC, if_filter_fields.CHAN} \subseteq Fields
    /\ \A s \in 1..6 : if_stage_gain_regs[s] \in Fields
BY DEF Fields, AwakeField, RcBypass, Agc11Field

(* Where a field is and how many values it takes.                          *)
Has(f, reg, n) == f.reg = reg /\ Size(f) = n

(* The register and the number of values of each field.                    *)
LEMMA FieldSizes ==
    /\ Has(AwakeField, "MASTER1", 2)
    /\ Has(RcBypass, "FILT3", 2)
    /\ Has(Agc11Field, "AGC11", 8)
    /\ Has(BandField, "SYNTH1", 4)
    /\ Has(RfFilter, "FILT1", 16)
    /\ Has(LnaField, "GAIN1", 16)
    /\ Has(MixerField, "GAIN2", 2)
    /\ Has(AgcMode, "AGC1", 16)
    /\ Has(MixAuto, "AGC7", 2)
    /\ Has(if_filter_fields.MIX, "FILT2", 16)
    /\ Has(if_filter_fields.RC, "FILT2", 16)
    /\ Has(if_filter_fields.CHAN, "FILT3", 32)
    /\ Has(if_stage_gain_regs[1], "GAIN3", 2)
    /\ Has(if_stage_gain_regs[2], "GAIN3", 4)
    /\ Has(if_stage_gain_regs[3], "GAIN3", 4)
    /\ Has(if_stage_gain_regs[4], "GAIN3", 4)
    /\ Has(if_stage_gain_regs[5], "GAIN4", 8)
    /\ Has(if_stage_gain_regs[6], "GAIN4", 8)
<1>1. Has(AwakeField, "MASTER1", 2)
  <2>1. AwakeField.reg = "MASTER1" /\ AwakeField.width = 1
    BY DEF Field, AwakeField
  <2> QED
    BY <2>1 DEF Has, Size
<1>2. Has(RcBypass, "FILT3", 2)
  <2>1. RcBypass.reg = "FILT3" /\ RcBypass.width = 1
    BY DEF Field, RcBypass
  <2> QED
    BY <2>1 DEF Has, Size
<1>3. Has(Agc11Field, "AGC11", 8)
  <2>1. Agc11Field.reg = "AGC11" /\ Agc11Field.width = 3
    BY DEF Field, Agc11Field
  <2> QED
    BY <2>1 DEF Has, Size
<1>4. Has(BandField, "SYNTH1", 4)
  <2>1. BandField.reg = "SYNTH1" /\ BandField.width = 2
    BY DEF Field, BandField
  <2> QED
    BY <2>1 DEF Has, Size
<1>5. Has(RfFilter, "FILT1", 16)
  <2>1. RfFilter.reg = "FILT1" /\ RfFilter.width = 4
    BY DEF Field, RfFilter
  <2> QED
    BY <2>1 DEF Has, Size
<1>6. Has(LnaField, "GAIN1", 16)
  <2>1. LnaField.reg = "GAIN1" /\ LnaField.width = 4
    BY DEF Field, LnaField
  <2> QED
    BY <2>1 DEF Has, Size
<1>7. Has(MixerField, "GAIN2", 2)
  <2>1. MixerField.reg = "GAIN2" /\ MixerField.width = 1
    BY DEF Field, MixerField
  <2> QED
    BY <2>1 DEF Has, Size
<1>8. Has(AgcMode, "AGC1", 16)
  <2>1. AgcMode.reg = "AGC1" /\ AgcMode.width = 4
    BY DEF Field, AgcMode
  <2> QED
    BY <2>1 DEF Has, Size
<1>9. Has(MixAuto, "AGC7", 2)
  <2>1. MixAuto.reg = "AGC7" /\ MixAuto.width = 1
    BY DEF Field, MixAuto
  <2> QED
    BY <2>1 DEF Has, Size
<1>10. Has(if_filter_fields.MIX, "FILT2", 16)
  <2>1. if_filter_fields.MIX.reg = "FILT2" /\ if_filter_fields.MIX.width = 4
    BY DEF Field, if_filter_fields
  <2> QED
    BY <2>1 DEF Has, Size
<1>11. Has(if_filter_fields.RC, "FILT2", 16)
  <2>1. if_filter_fields.RC.reg = "FILT2" /\ if_filter_fields.RC.width = 4
    BY DEF Field, if_filter_fields
  <2> QED
    BY <2>1 DEF Has, Size
<1>12. Has(if_filter_fields.CHAN, "FILT3", 32)
  <2>1. if_filter_fields.CHAN.reg = "FILT3" /\ if_filter_fields.CHAN.width = 5
    BY DEF Field, if_filter_fields
  <2> QED
    BY <2>1 DEF Has, Size
<1>13. Has(if_stage_gain_regs[1], "GAIN3", 2)
  <2>1. if_stage_gain_regs[1].reg = "GAIN3" /\ if_stage_gain_regs[1].width = 1
    BY DEF Field, if_stage_gain_regs
  <2> QED
    BY <2>1 DEF Has, Size
<1>14. Has(if_stage_gain_regs[2], "GAIN3", 4)
  <2>1. if_stage_gain_regs[2].reg = "GAIN3" /\ if_stage_gain_regs[2].width = 2
    BY DEF Field, if_stage_gain_regs
  <2> QED
    BY <2>1 DEF Has, Size
<1>15. Has(if_stage_gain_regs[3], "GAIN3", 4)
  <2>1. if_stage_gain_regs[3].reg = "GAIN3" /\ if_stage_gain_regs[3].width = 2
    BY DEF Field, if_stage_gain_regs
  <2> QED
    BY <2>1 DEF Has, Size
<1>16. Has(if_stage_gain_regs[4], "GAIN3", 4)
  <2>1. if_stage_gain_regs[4].reg = "GAIN3" /\ if_stage_gain_regs[4].width = 2
    BY DEF Field, if_stage_gain_regs
  <2> QED
    BY <2>1 DEF Has, Size
<1>17. Has(if_stage_gain_regs[5], "GAIN4", 8)
  <2>1. if_stage_gain_regs[5].reg = "GAIN4" /\ if_stage_gain_regs[5].width = 3
    BY DEF Field, if_stage_gain_regs
  <2> QED
    BY <2>1 DEF Has, Size
<1>18. Has(if_stage_gain_regs[6], "GAIN4", 8)
  <2>1. if_stage_gain_regs[6].reg = "GAIN4" /\ if_stage_gain_regs[6].width = 3
    BY DEF Field, if_stage_gain_regs
  <2> QED
    BY <2>1 DEF Has, Size
<1> QED
  BY <1>1, <1>2, <1>3, <1>4, <1>5, <1>6,
     <1>7, <1>8, <1>9, <1>10, <1>11, <1>12,
     <1>13, <1>14, <1>15, <1>16, <1>17, <1>18

(* The step chip and hit make when the accesses of steps are made.         *)
Ran(steps, bad) ==
  /\ AreSteps(steps) /\ chip \in Memory
  /\ chip' = Run(chip, steps, bad).regs /\ hit' = hit \cup Damage(steps, bad)

(* A field as it was, or its register damaged.                             *)
Same(f) == f.reg \notin hit' =>
             f.reg \notin hit /\ FieldOf(chip'[f.reg], f) = FieldOf(chip[f.reg], f)

(* A run keeps the fields its accesses spare.                              *)
LEMMA RanSame ==
    ASSUME NEW steps, NEW bad, Ran(steps, bad), NEW f \in Fields,
           \A n \in 1..Len(steps) : Spares(steps[n], f)
    PROVE  Same(f)
BY RunKeeps DEF Ran, Same

(* A run sets the field that an access puts last, unless its register is   *)
(* damaged.                                                                *)
LEMMA RanSets ==
    ASSUME NEW steps, NEW bad, Ran(steps, bad), NEW i \in 1..Len(steps),
           steps[i].kind # "write", steps[i].f.reg \notin hit',
           \A n \in (i + 1)..Len(steps) : Spares(steps[n], steps[i].f)
    PROVE  FieldOf(chip'[steps[i].f.reg], steps[i].f) = steps[i].val
BY RunSets DEF Ran

(* A table of k naturals, and an entry of it that none is closer to x      *)
(* than.                                                                   *)
IsTable(arr, k) == DOMAIN arr = 1..k /\ \A n \in 1..k : arr[n] \in Nat

Nearest(arr, k, x, n) ==
  n \in 1..k /\ \A m \in 1..k : Delta(x, arr[n]) <= Delta(x, arr[m])

(* closest_arr_idx finds one (tuner_e4k.c:129-155).                        *)
LEMMA ClosestIsNearest ==
    ASSUME NEW k \in Nat, k # 0, NEW arr, IsTable(arr, k), NEW x \in Nat
    PROVE  Nearest(arr, k, x, closest_arr_idx(arr, x))
<1> DEFINE far(n) == Delta(x, arr[n])
           T == {far(n) : n \in 1..k}
<1>1. \A n \in 1..k : far(n) \in Nat
  BY DEF IsTable, Delta
<1> HIDE DEF far
<1>2. far(1) \in T
  OBVIOUS
<1>3. T # {} /\ T \subseteq Nat
  BY <1>1, <1>2
<1>4. PICK d \in T : \A y \in T : d <= y
  BY <1>3, LeastNatural
<1> DEFINE M == {n \in 1..k : far(n) = d}
<1>5. M # {} /\ M \subseteq Nat
  BY <1>4
<1>6. PICK n \in M : \A m \in M : n <= m
  BY <1>5, LeastNatural
<1>7. n \in 1..k /\ \A m \in 1..k : far(n) <= far(m)
  BY <1>4, <1>6
<1>8. \A m \in 1..(n - 1) : far(n) < far(m)
  <2> SUFFICES ASSUME NEW m \in 1..(n - 1) PROVE far(n) < far(m)
    OBVIOUS
  <2>1. m \in 1..k /\ m \notin M /\ m < n
    BY <1>6, <1>7
  <2> QED
    BY <2>1, <1>1, <1>7, <1>6
<1>9. DOMAIN arr = 1..k
  BY DEF IsTable
<1> HIDE DEF M, T
<1> DEFINE c == closest_arr_idx(arr, x)
<1>10. c \in 1..k /\ \A m \in 1..k : far(c) <= far(m)
  BY <1>7, <1>8, <1>9 DEF closest_arr_idx, far
<1> HIDE DEF c
<1> QED
  BY <1>10 DEF Nearest, far, c

(* The tables of the filters.                                              *)
LEMMA FilterTables ==
  /\ IsTable(if_filter_bw.MIX, 16) /\ IsTable(if_filter_bw.RC, 16) /\ IsTable(if_filter_bw.CHAN, 32)
  /\ IsTable([n \in DOMAIN RfCenterUhf |-> 1000 * RfCenterUhf[n]], 16)
  /\ IsTable([n \in DOMAIN RfCenterL |-> 1000 * RfCenterL[n]], 16)
<1>1. IsTable(if_filter_bw.MIX, 16)
  BY DEF if_filter_bw, IsTable
<1>2. IsTable(if_filter_bw.RC, 16)
  BY DEF if_filter_bw, IsTable
<1>3. IsTable(if_filter_bw.CHAN, 32)
  BY DEF if_filter_bw, IsTable
<1>4. IsTable(RfCenterUhf, 16) /\ IsTable(RfCenterL, 16)
  BY DEF RfCenterUhf, RfCenterL, IsTable
<1> QED
  BY <1>1, <1>2, <1>3, <1>4 DEF IsTable

(* The rows of pll_vars that are in use for a frequency.                    *)
RowFor(f, row) ==
  \/ \E n \in 1..10 : /\ f < pll_vars[n][1]
                      /\ row.r_idx = pll_vars[n][2] /\ row.r = pll_vars[n][3]
  \/ row.r_idx = 0 /\ row.r = 2

(* The row that is chosen for a frequency is above it, or none is.         *)
LEMMA PllRowIsRow ==
    ASSUME NEW f \in Nat
    PROVE  RowFor(f, PllRow(f))
<1>0. DOMAIN pll_vars = 1..10 /\ \A n \in 1..10 : pll_vars[n][1] \in Nat
  BY DEF pll_vars
<1> DEFINE T == {n \in 1..10 : f < pll_vars[n][1]}
<1>1. CASE T = {}
  <2>1. PllRow(f) = [r_idx |-> 0, r |-> 2]
    BY <1>0, <1>1 DEF PllRow
  <2> QED
    BY <2>1 DEF RowFor
<1>2. CASE T # {}
  <2>1. PICK n \in T : \A m \in T : n <= m
    BY <1>2, LeastNatural
  <2>2. n \in 1..10 /\ f < pll_vars[n][1] /\ \A m \in 1..(n - 1) : f >= pll_vars[m][1]
    <3> SUFFICES ASSUME NEW m \in 1..(n - 1) PROVE f >= pll_vars[m][1]
      OBVIOUS
    <3>1. m \in 1..10 /\ m \notin T
      BY <2>1
    <3> QED
      BY <3>1, <1>0
  <2> DEFINE c == CHOOSE q \in DOMAIN pll_vars :
                    f < pll_vars[q][1] /\ \A m \in 1..(q - 1) : f >= pll_vars[m][1]
  <2>3. c \in 1..10 /\ f < pll_vars[c][1]
    BY <1>0, <2>2
  <2>4. PllRow(f) = [r_idx |-> pll_vars[c][2], r |-> pll_vars[c][3]]
    BY <1>0, <2>2 DEF PllRow
  <2> HIDE DEF c
  <2>5. PllRow(f).r_idx = pll_vars[c][2] /\ PllRow(f).r = pll_vars[c][3]
    BY <2>4
  <2> QED
    BY <2>3, <2>5 DEF RowFor
<1> QED
  BY <1>1, <1>2

(* The dividers of the rows.                                               *)
PllRs == {2, 4, 6, 8, 12, 16, 24, 32, 40, 48}

(* A row has one of them.                                                  *)
LEMMA PllRowType ==
    ASSUME NEW f \in Nat
    PROVE  PllRow(f).r_idx \in 0..15 /\ PllRow(f).r \in PllRs
<1>1. \A n \in 1..10 : pll_vars[n][2] \in 0..15 /\ pll_vars[n][3] \in PllRs
  BY DEF pll_vars, PllRs
<1>2. 0 \in 0..15 /\ 2 \in PllRs
  BY DEF PllRs
<1> QED
  BY <1>1, <1>2, PllRowIsRow DEF RowFor

(* The settings of a tuning, each within its width.                        *)
TuneType(p) == /\ p.r_idx \in 0..15 /\ p.r_idx \in Byte /\ p.z \in Byte
               /\ p.x \in Nat /\ p.x < 65536 /\ p.flo \in Nat

(* e4k_compute_pll_params keeps its results within their widths.           *)
LEMMA PllType ==
    ASSUME E4kAssumption, NEW f \in Nat
    PROVE  TuneType(e4k_compute_pll_params(f))
<1> DEFINE row == PllRow(f)
           r == row.r
           z == ((f * r) \div Fosc) % 256
           x == ((((f * r) % Fosc) * 65536) \div Fosc) % 65536
           flo == compute_flo(z, x, r)
<1>1. r \in Nat /\ r > 0 /\ row.r_idx \in 0..15
  BY PllRowType DEF PllRs
<1>2. Fosc \in Nat /\ Fosc > 0
  BY DEF E4kAssumption
<1>q. \A a \in Nat : a \div Fosc \in Nat /\ a % Fosc \in Nat
  <2> SUFFICES ASSUME NEW a \in Nat PROVE a \div Fosc \in Nat /\ a % Fosc \in Nat
    BY <1>2
  <2> DEFINE o == Fosc
  <2>1. o \in Nat /\ o > 0
    BY <1>2
  <2> HIDE DEF o
  <2>2. a \div o \in Nat /\ a % o \in Nat
    BY <2>1, QuotientNat
  <2> QED
    BY <2>2 DEF o
<1> HIDE DEF row, r
<1> DEFINE fr == f * r
           q == fr \div Fosc
           m == fr % Fosc
           y == (m * 65536) \div Fosc
<1>3. fr \in Nat
  BY <1>1
<1> HIDE DEF fr
<1>4. q \in Nat /\ m \in Nat
  BY <1>q, <1>2, <1>3
<1> HIDE DEF q, m
<1>5. m * 65536 \in Nat /\ q % 256 \in 0..255
  BY <1>4
<1> DEFINE m2 == m * 65536
<1>5a. m2 \in Nat
  BY <1>5
<1> HIDE DEF m2
<1>6. m2 \div Fosc \in Nat
  BY <1>q, <1>2, <1>5a
<1>7. y \in Nat
  BY <1>6 DEF m2
<1> HIDE DEF y
<1> DEFINE w == 65536
<1>8. w \in Nat /\ w > 0
  BY SMT
<1> HIDE DEF w
<1>8a. y % w \in Nat /\ y % w < w
  BY <1>7, <1>8, QuotientNat
<1>9. z \in Byte /\ x \in Nat /\ x < 65536
  <2>1. z = q % 256 /\ x = y % 65536
    BY DEF fr, q, m, y, w
  <2> QED
    BY <2>1, <1>5, <1>8a, SMT DEF w, Byte
<1> HIDE DEF z, x
<1>10. Fosc * z \in Nat /\ Fosc * x \in Nat
  BY <1>2, <1>9 DEF Byte
<1> DEFINE v == Fosc * z + (Fosc * x) \div 65536
<1>11. v \in Nat
  BY <1>10
<1>12. flo = IF z = 0 /\ x = 0 THEN EINVAL ELSE v \div r
  BY DEF compute_flo
<1> HIDE DEF v
<1>13. flo \in Nat
  <2>1. v \div r \in Nat
    BY <1>1, <1>11, QuotientNat
  <2>2. EINVAL \in Nat
    BY SMT DEF EINVAL
  <2> QED
    BY <1>12, <2>1, <2>2
<1>14. e4k_compute_pll_params(f) = [r_idx |-> row.r_idx, z |-> z, x |-> x, flo |-> flo]
  BY DEF e4k_compute_pll_params, row, r, z, x
<1> HIDE DEF flo
<1> DEFINE p == e4k_compute_pll_params(f)
<1>15. p.r_idx = row.r_idx /\ p.z = z /\ p.x = x /\ p.flo = flo
  BY <1>14
<1> HIDE DEF p
<1>16. p.r_idx \in 0..15 /\ p.r_idx \in 0..255
  BY <1>15, <1>1
<1>17. TuneType(p)
  BY <1>15, <1>16, <1>9, <1>13 DEF TuneType, Byte
<1> QED
  BY <1>17 DEF p

(* A band is one of four.                                                  *)
LEMMA BandType ==
    \A flo \in Nat : BandFor(flo) \in 0..3
BY DEF BandFor

(* An RF filter is one of sixteen.                                         *)
LEMMA RfFilterType ==
    ASSUME NEW bd \in 0..3, NEW flo \in Nat
    PROVE  choose_rf_filter(bd, flo) \in 0..15
<1> DEFINE U == [n \in DOMAIN RfCenterUhf |-> 1000 * RfCenterUhf[n]]
           L == [n \in DOMAIN RfCenterL |-> 1000 * RfCenterL[n]]
<1>0. IsTable(U, 16) /\ IsTable(L, 16)
  BY FilterTables
<1>1. \/ choose_rf_filter(bd, flo) = 0
      \/ choose_rf_filter(bd, flo) = closest_arr_idx(U, flo) - 1
      \/ choose_rf_filter(bd, flo) = closest_arr_idx(L, flo) - 1
  BY DEF choose_rf_filter
<1> HIDE DEF U, L
<1> DEFINE k == 16
<1>2. IsTable(U, k) /\ IsTable(L, k) /\ k \in Nat /\ k # 0
  BY <1>0
<1> HIDE DEF k
<1>3. Nearest(U, k, flo, closest_arr_idx(U, flo)) /\ Nearest(L, k, flo, closest_arr_idx(L, flo))
  BY <1>2, ClosestIsNearest
<1>4. closest_arr_idx(U, flo) \in 1..16 /\ closest_arr_idx(L, flo) \in 1..16
  BY <1>3 DEF Nearest, k
<1> QED
  BY <1>1, <1>4

(* What each call's list of accesses is.                                   *)
LEMMA MaskIs ==
    ASSUME NEW f \in Fields, NEW x \in 0..(Size(f) - 1)
    PROVE  /\ IsAccess(Mask(f, x)) /\ Mask(f, x).kind = "mask"
           /\ Mask(f, x).f = f /\ Mask(f, x).val = x
           /\ IsAccess(FieldWrite(f, x)) /\ FieldWrite(f, x).kind = "field"
           /\ FieldWrite(f, x).f = f /\ FieldWrite(f, x).val = x
<1>1. /\ Mask(f, x).kind = "mask" /\ Mask(f, x).f = f /\ Mask(f, x).val = x
      /\ FieldWrite(f, x).kind = "field" /\ FieldWrite(f, x).f = f /\ FieldWrite(f, x).val = x
  BY DEF Mask, FieldWrite
<1> QED
  BY <1>1 DEF IsAccess

(* A write is an access.                                                   *)
LEMMA WriteIs ==
    ASSUME NEW r \in Regs, NEW x \in Byte
    PROVE  /\ IsAccess(Write(r, x)) /\ Write(r, x).kind = "write"
           /\ Write(r, x).f.reg = r /\ Write(r, x).val = x
<1>1. Write(r, x).kind = "write" /\ Write(r, x).f.reg = r /\ Write(r, x).val = x
  BY DEF Write, Field
<1> QED
  BY <1>1 DEF IsAccess

(* The accesses of a tuning.                                               *)
LEMMA TuneStepsAre ==
    ASSUME NEW p, TuneType(p), NEW bd \in 0..3
    PROVE  /\ AreSteps(TuneSteps(p, bd)) /\ Len(TuneSteps(p, bd)) = 8
           /\ TuneSteps(p, bd)[1] = Write("SYNTH7", p.r_idx)
           /\ TuneSteps(p, bd)[2] = Write("SYNTH3", p.z)
           /\ TuneSteps(p, bd)[3] = Write("SYNTH4", p.x % 256)
           /\ TuneSteps(p, bd)[4] = Write("SYNTH5", p.x \div 256)
           /\ TuneSteps(p, bd)[5].f.reg = "BIAS" /\ TuneSteps(p, bd)[5].kind = "write"
           /\ TuneSteps(p, bd)[6] = Mask(BandField, 0)
           /\ TuneSteps(p, bd)[7] = Mask(BandField, BandFor(p.flo))
           /\ TuneSteps(p, bd)[8] = Mask(RfFilter, choose_rf_filter(bd, p.flo))
<1> DEFINE s == TuneSteps(p, bd)
           b == IF BandFor(p.flo) = 3 THEN 0 ELSE 3
<1>1. /\ Len(s) = 8
      /\ s[1] = Write("SYNTH7", p.r_idx) /\ s[2] = Write("SYNTH3", p.z)
      /\ s[3] = Write("SYNTH4", p.x % 256) /\ s[4] = Write("SYNTH5", p.x \div 256)
      /\ s[5] = Write("BIAS", b)
      /\ s[6] = Mask(BandField, 0) /\ s[7] = Mask(BandField, BandFor(p.flo))
      /\ s[8] = Mask(RfFilter, choose_rf_filter(bd, p.flo))
  BY DEF TuneSteps
<1> HIDE DEF s
<1>2. {"SYNTH7", "SYNTH3", "SYNTH4", "SYNTH5", "BIAS"} \subseteq Regs /\ b \in Byte
  BY DEF Regs, Byte
<1>3. /\ p.x \in Nat /\ p.z \in Byte /\ p.r_idx \in Byte /\ p.flo \in Nat
      /\ p.x % 256 \in Byte /\ p.x \div 256 \in Byte
  <2>1. /\ p.x \in Nat /\ p.x < 65536 /\ p.z \in Byte /\ p.r_idx \in Byte /\ p.flo \in Nat
    BY DEF TuneType
  <2>2. \A x \in Nat : x < 65536 => x % 256 \in Byte /\ x \div 256 \in Byte
    BY DEF Byte
  <2> QED
    BY <2>1, <2>2
<1> HIDE DEF b
<1>4. /\ IsAccess(s[1]) /\ IsAccess(s[2]) /\ IsAccess(s[3]) /\ IsAccess(s[4])
      /\ IsAccess(s[5]) /\ s[5].f.reg = "BIAS" /\ s[5].kind = "write"
  BY <1>1, <1>2, <1>3, WriteIs
<1>5. /\ BandField \in Fields /\ Size(BandField) = 4 /\ RfFilter \in Fields /\ Size(RfFilter) = 16
  BY KnownFields, FieldSizes DEF Has
<1>6. BandFor(p.flo) \in 0..(Size(BandField) - 1) /\ 0 \in 0..(Size(BandField) - 1)
  BY <1>3, <1>5, BandType
<1>7. choose_rf_filter(bd, p.flo) \in 0..(Size(RfFilter) - 1)
  BY <1>3, <1>5, RfFilterType
<1>8. IsAccess(s[6]) /\ IsAccess(s[7]) /\ IsAccess(s[8])
  BY <1>1, <1>5, <1>6, <1>7, MaskIs
<1>9. \A n \in 1..8 : n = 1 \/ n = 2 \/ n = 3 \/ n = 4 \/ n = 5 \/ n = 6 \/ n = 7 \/ n = 8
  OBVIOUS
<1>10. AreSteps(s)
  BY <1>1, <1>4, <1>8, <1>9 DEF AreSteps
<1> QED
  BY <1>1, <1>4, <1>10 DEF s

(* The settings one by one.                                                *)
StageHolds(s) ==
  if_stage_gain_regs[s].reg \notin hit =>
    if_stage_gain[s][FieldOf(chip[if_stage_gain_regs[s].reg], if_stage_gain_regs[s]) + 1]
      = want.stage[s]

(* No filter of the kind is closer to the wish than the chosen one.        *)
FilterHolds(k, filter) ==
  want.bw[k] # Unknown /\ if_filter_fields[filter].reg \notin hit =>
    \A n \in DOMAIN if_filter_bw[filter] :
      Delta(want.bw[k], if_filter_bw[filter]
              [FieldOf(chip[if_filter_fields[filter].reg], if_filter_fields[filter]) + 1])
        <= Delta(want.bw[k], if_filter_bw[filter][n])

(* The gain of the LNA and of the mixer add up to the wish.                *)
GainHolds ==
  want.gain # Unknown /\ {"GAIN1", "GAIN2"} \cap hit = {} =>
    want.gain = ChipLna + IF FieldOf(chip["GAIN2"], MixerField) = 1 THEN 120 ELSE 40

(* The gain mode, the standby bit and the bypass.                          *)
ModeHolds ==
  /\ "AGC1" \notin hit => FieldOf(chip["AGC1"], AgcMode) = IF want.manual THEN 0 ELSE 9
  /\ "AGC7" \notin hit => FieldOf(chip["AGC7"], MixAuto) = IF want.manual THEN 0 ELSE 1

AwakeHolds ==
  "MASTER1" \notin hit => FieldOf(chip["MASTER1"], AwakeField) = IF want.awake THEN 1 ELSE 0

BypassHolds == "FILT3" \notin hit => FieldOf(chip["FILT3"], RcBypass) = 0

(* All of them.                                                            *)
Settings ==
  /\ \A s \in 1..6 : StageHolds(s)
  /\ FilterHolds(1, "MIX") /\ FilterHolds(2, "RC") /\ FilterHolds(3, "CHAN")
  /\ GainHolds /\ ModeHolds /\ AwakeHolds /\ BypassHolds

(* Which is what the property says.                                        *)
LEMMA SettingsAreAll == Settings <=> SettingsHold
<1>1. \A k \in 1..3 : k = 1 \/ k = 2 \/ k = 3
  OBVIOUS
<1> DEFINE Filters == \A k \in 1..3 : FilterHolds(k, << "MIX", "RC", "CHAN" >>[k])
<1>2. Filters <=> FilterHolds(1, "MIX") /\ FilterHolds(2, "RC") /\ FilterHolds(3, "CHAN")
  <2> HIDE DEF FilterHolds
  <2> QED
    BY <1>1
<1>3. SettingsHold <=> /\ \A s \in 1..6 : StageHolds(s)
                       /\ Filters /\ GainHolds /\ ModeHolds /\ AwakeHolds /\ BypassHolds
  BY Zenon DEF SettingsHold, StageHolds, FilterHolds, GainHolds, ModeHolds, AwakeHolds,
            BypassHolds, AwakeField, RcBypass
<1> QED
  BY <1>2, <1>3 DEF Settings

(* The wishes.                                                             *)
Wants == [freq : Int, clean : BOOLEAN, stage : [1..6 -> Int], bw : [1..3 -> Int],
          gain : Int, manual : BOOLEAN, awake : BOOLEAN]

(* The inductive invariant of the E4000: every register holds a byte, and  *)
(* every setting is as it was wished or its register damaged.              *)
E4kInv == /\ chip \in Memory /\ band \in 0..3 /\ want \in Wants /\ Settings

(* A setting whose field and whose wish are as they were still holds.      *)
LEMMA StageKept ==
    ASSUME NEW s \in 1..6, StageHolds(s), Same(if_stage_gain_regs[s]), want'.stage[s] = want.stage[s]
    PROVE  StageHolds(s)'
BY DEF StageHolds, Same

(* The same for a filter.                                                  *)
LEMMA FilterKept ==
    ASSUME NEW k, NEW filter, FilterHolds(k, filter), Same(if_filter_fields[filter]),
           want'.bw[k] = want.bw[k]
    PROVE  FilterHolds(k, filter)'
BY Zenon DEF FilterHolds, Same

(* The gain.                                                               *)
LEMMA GainKept ==
    ASSUME GainHolds, Same(LnaField), Same(MixerField), want'.gain = want.gain
    PROVE  GainHolds'
<1>1. LnaField.reg = "GAIN1" /\ MixerField.reg = "GAIN2"
  BY FieldSizes DEF Has
<1> SUFFICES ASSUME want'.gain # Unknown, {"GAIN1", "GAIN2"} \cap hit' = {}
             PROVE  want'.gain = ChipLna' + IF FieldOf(chip'["GAIN2"], MixerField) = 1 THEN 120 ELSE 40
  BY DEF GainHolds
<1>2. "GAIN1" \notin hit' /\ "GAIN2" \notin hit'
  OBVIOUS
<1>3. /\ "GAIN1" \notin hit /\ FieldOf(chip'["GAIN1"], LnaField) = FieldOf(chip["GAIN1"], LnaField)
      /\ "GAIN2" \notin hit /\ FieldOf(chip'["GAIN2"], MixerField) = FieldOf(chip["GAIN2"], MixerField)
  BY <1>1, <1>2, Zenon DEF Same
<1>4. {"GAIN1", "GAIN2"} \cap hit = {}
  BY <1>3
<1>5. want.gain = ChipLna + IF FieldOf(chip["GAIN2"], MixerField) = 1 THEN 120 ELSE 40
  BY <1>4 DEF GainHolds
<1>6. ChipLna' = ChipLna
  BY <1>3, Zenon DEF ChipLna
<1> QED
  BY <1>3, <1>5, <1>6, Zenon

(* The gain mode.                                                          *)
LEMMA ModeKept ==
    ASSUME ModeHolds, Same(AgcMode), Same(MixAuto), want'.manual = want.manual
    PROVE  ModeHolds'
<1>1. AgcMode.reg = "AGC1" /\ MixAuto.reg = "AGC7"
  BY FieldSizes DEF Has
<1> QED
  BY <1>1, Zenon DEF ModeHolds, Same

(* Standby.                                                                *)
LEMMA AwakeKept ==
    ASSUME AwakeHolds, Same(AwakeField), want'.awake = want.awake
    PROVE  AwakeHolds'
<1>1. AwakeField.reg = "MASTER1"
  BY FieldSizes DEF Has
<1> QED
  BY <1>1, Zenon DEF AwakeHolds, Same

(* The bypass.                                                             *)
LEMMA BypassKept ==
    ASSUME BypassHolds, Same(RcBypass)
    PROVE  BypassHolds'
<1>1. RcBypass.reg = "FILT3"
  BY FieldSizes DEF Has
<1> QED
  BY <1>1, Zenon DEF BypassHolds, Same

(* A run whose accesses put the fields W or are to the registers X keeps   *)
(* all others.                                                             *)
LEMMA RanSpares ==
    ASSUME NEW steps, NEW bad, Ran(steps, bad), NEW Y, NEW X,
           \A n \in 1..Len(steps) :
             (steps[n].kind # "write" /\ steps[n].f \in Y) \/ steps[n].f.reg \in X,
           NEW f \in Fields, f \notin Y, f.reg \notin X
    PROVE  Same(f)
<1>1. \A n \in 1..Len(steps) : Spares(steps[n], f)
  BY DEF Spares
<1> QED
  BY <1>1, RanSame

(* It leaves bytes in the registers.                                       *)
LEMMA RanMemory ==
    ASSUME NEW steps, NEW bad, Ran(steps, bad)
    PROVE  chip' \in Memory
BY RunType DEF Ran

(* No two of the fields that hold settings are the same.                   *)
LEMMA StagesDiffer ==
    \A s, t \in 1..6 : s # t => if_stage_gain_regs[s] # if_stage_gain_regs[t]
<1> DEFINE g == if_stage_gain_regs
<1>1. /\ g[1].shift = 0 /\ g[2].shift = 1 /\ g[3].shift = 3 /\ g[4].shift = 5
      /\ g[5].shift = 0 /\ g[6].shift = 3
  BY DEF if_stage_gain_regs, Field
<1>2. /\ g[1].reg = "GAIN3" /\ g[2].reg = "GAIN3" /\ g[3].reg = "GAIN3" /\ g[4].reg = "GAIN3"
      /\ g[5].reg = "GAIN4" /\ g[6].reg = "GAIN4"
  BY FieldSizes DEF Has
<1>3. \A n \in 1..6 : n = 1 \/ n = 2 \/ n = 3 \/ n = 4 \/ n = 5 \/ n = 6
  OBVIOUS
<1> QED
  BY <1>1, <1>2, <1>3

(* The registers of the IF gains.                                          *)
LEMMA StageRegs ==
    \A s \in 1..6 : if_stage_gain_regs[s].reg \in {"GAIN3", "GAIN4"}
<1>1. \A n \in 1..6 : n = 1 \/ n = 2 \/ n = 3 \/ n = 4 \/ n = 5 \/ n = 6
  OBVIOUS
<1> QED
  BY <1>1, FieldSizes DEF Has

(* Two filters share a register but no field.                              *)
LEMMA FiltersDiffer == if_filter_fields.MIX # if_filter_fields.RC
<1>1. if_filter_fields.MIX.shift = 4 /\ if_filter_fields.RC.shift = 0
  BY DEF if_filter_fields, Field
<1> QED
  BY <1>1

(* The fields of a call's settings, and the settings that are kept when    *)
(* they are.                                                               *)
SettingRegs == {"GAIN3", "GAIN4", "FILT2", "FILT3", "GAIN1", "GAIN2", "AGC1", "AGC7", "MASTER1"}

(* A step that keeps these fields and wishes keeps all settings.           *)
LEMMA AllKept ==
    ASSUME Settings, \A f \in Fields : f.reg \in SettingRegs => Same(f),
           want'.stage = want.stage, want'.bw = want.bw, want'.gain = want.gain,
           want'.manual = want.manual, want'.awake = want.awake
    PROVE  Settings'
<1>1. \A s \in 1..6 : StageHolds(s)'
  <2> SUFFICES ASSUME NEW s \in 1..6 PROVE StageHolds(s)'
    OBVIOUS
  <2>1. Same(if_stage_gain_regs[s])
    BY KnownFields, StageRegs DEF SettingRegs
  <2> QED
    BY <2>1, StageKept DEF Settings
<1>2. Same(if_filter_fields.MIX) /\ Same(if_filter_fields.RC) /\ Same(if_filter_fields.CHAN)
  BY KnownFields, FieldSizes DEF SettingRegs, Has
<1>3. FilterHolds(1, "MIX")' /\ FilterHolds(2, "RC")' /\ FilterHolds(3, "CHAN")'
  BY <1>2, FilterKept DEF Settings
<1>4. Same(LnaField) /\ Same(MixerField) /\ Same(AgcMode) /\ Same(MixAuto)
  BY KnownFields, FieldSizes DEF SettingRegs, Has
<1>5. Same(AwakeField) /\ Same(RcBypass)
  BY KnownFields, FieldSizes DEF SettingRegs, Has
<1>6. GainHolds' /\ ModeHolds'
  BY <1>4, GainKept, ModeKept DEF Settings
<1>7. AwakeHolds' /\ BypassHolds'
  BY <1>5, AwakeKept, BypassKept DEF Settings
<1> QED
  BY <1>1, <1>3, <1>6, <1>7 DEF Settings

(* So does one that changes nothing.                                       *)
LEMMA NothingKept ==
    ASSUME E4kInv, UNCHANGED << chip, band, want, hit >>
    PROVE  E4kInv'
<1>1. \A f \in Fields : Same(f)
  BY DEF Same
<1>2. Settings'
  BY <1>1, AllKept DEF E4kInv
<1> QED
  BY <1>2 DEF E4kInv

(* The registers a tuning writes as a whole.                               *)
TuneRegs == {"SYNTH7", "SYNTH3", "SYNTH4", "SYNTH5", "BIAS"}

(* The parts of an access.                                                 *)
LEMMA AccessParts ==
    \A r, f, x : /\ Write(r, x).f.reg = r /\ Write(r, x).kind = "write"
                 /\ Mask(f, x).f = f /\ Mask(f, x).kind = "mask" /\ Mask(f, x).val = x
                 /\ FieldWrite(f, x).f = f /\ FieldWrite(f, x).kind = "field"
                 /\ FieldWrite(f, x).val = x
BY DEF Write, Mask, FieldWrite, Field

(* A tuning keeps the fields of all settings.                              *)
LEMMA TuneRan ==
    ASSUME NEW p, TuneType(p), NEW bd \in 0..3, NEW bad, Ran(TuneSteps(p, bd), bad)
    PROVE  \A f \in Fields : f.reg \in SettingRegs => Same(f)
<1> DEFINE s == TuneSteps(p, bd)
           Y == {BandField, RfFilter}
<1>1. /\ Len(s) = 8
      /\ s[1].f.reg \in TuneRegs /\ s[2].f.reg \in TuneRegs /\ s[3].f.reg \in TuneRegs
      /\ s[4].f.reg \in TuneRegs /\ s[5].f.reg \in TuneRegs
      /\ s[6].f \in Y /\ s[7].f \in Y /\ s[8].f \in Y
      /\ s[6].kind = "mask" /\ s[7].kind = "mask" /\ s[8].kind = "mask"
  <2>1. /\ Len(s) = 8 /\ s[1] = Write("SYNTH7", p.r_idx) /\ s[2] = Write("SYNTH3", p.z)
        /\ s[3] = Write("SYNTH4", p.x % 256) /\ s[4] = Write("SYNTH5", p.x \div 256)
        /\ s[5].f.reg = "BIAS"
        /\ s[6] = Mask(BandField, 0) /\ s[7] = Mask(BandField, BandFor(p.flo))
        /\ s[8] = Mask(RfFilter, choose_rf_filter(bd, p.flo))
    BY TuneStepsAre
  <2> HIDE DEF s
  <2>2. /\ s[1].f.reg = "SYNTH7" /\ s[2].f.reg = "SYNTH3" /\ s[3].f.reg = "SYNTH4"
        /\ s[4].f.reg = "SYNTH5"
    BY <2>1, AccessParts
  <2>3. /\ s[6].f = BandField /\ s[7].f = BandField /\ s[8].f = RfFilter
        /\ s[6].kind = "mask" /\ s[7].kind = "mask" /\ s[8].kind = "mask"
    BY <2>1, AccessParts
  <2> QED
    BY <2>1, <2>2, <2>3 DEF TuneRegs
<1> HIDE DEF s
<1>2. \A n \in 1..8 : n = 1 \/ n = 2 \/ n = 3 \/ n = 4 \/ n = 5 \/ n = 6 \/ n = 7 \/ n = 8
  OBVIOUS
<1>3. \A n \in 1..Len(s) : (s[n].kind # "write" /\ s[n].f \in Y) \/ s[n].f.reg \in TuneRegs
  BY <1>1, <1>2
<1>4. \A f \in Fields : f.reg \in SettingRegs => f \notin Y /\ f.reg \notin TuneRegs
  BY FieldSizes DEF Has, SettingRegs, TuneRegs
<1> HIDE DEF Y
<1>5. Ran(s, bad)
  BY DEF s
<1> QED
  BY <1>3, <1>4, <1>5, RanSpares

(* Its accesses are accesses.                                              *)
LEMMA TuneStepsOk ==
    ASSUME NEW p, TuneType(p), NEW bd \in 0..3
    PROVE  AreSteps(TuneSteps(p, bd))
BY TuneStepsAre

(* What a tuning with settings p, one fault or none and the answer ok does. *)
BandAfter(p, bad) ==
  IF bad.n = BandStep /\ bad.fault = "write" THEN band ELSE BandFor(p.flo)

(* What TuneFreq does.                                                     *)
TunedBy(f, p, bad, ok) ==
  LET steps == TuneSteps(p, BandAfter(p, bad))
  IN  /\ chip' = Run(chip, steps, bad).regs /\ band' = BandAfter(p, bad)
      /\ want' = [want EXCEPT !.freq = IF ok THEN f ELSE Unknown, !.clean = bad.n = 0]
      /\ hit' = hit \cup Damage(steps, bad)

(* TuneFreq is that, for one fault or none and one answer.                 *)
LEMMA TuneFreqIs ==
    ASSUME NEW f \in Freqs, TuneFreq(f)
    PROVE  \E bad, ok : TunedBy(f, e4k_compute_pll_params(f), bad, ok)
<1> DEFINE p == e4k_compute_pll_params(f)
<1>1. \E bad \in Faults(TuneSteps(p, band)), locks \in BOOLEAN, lockread \in BOOLEAN :
        TunedBy(f, p, bad, locks \/ ~lockread)
  BY Zenon DEF TuneFreq, TunedBy, BandAfter
<1> HIDE DEF p
<1>2. \E bad, ok : TunedBy(f, p, bad, ok)
  BY <1>1, Zenon
<1> QED
  BY <1>2 DEF p

(* The wish after a tuning.                                                *)
TunesWant(v, w, freq, clean) == v = [w EXCEPT !.freq = freq, !.clean = clean]

(* It differs from the one before in the frequency only.                   *)
LEMMA WantTuned ==
    ASSUME NEW w \in Wants, NEW freq \in Int, NEW clean \in BOOLEAN,
           NEW v, TunesWant(v, w, freq, clean)
    PROVE  /\ v \in Wants /\ v.freq = freq /\ v.clean = clean
           /\ v.stage = w.stage /\ v.bw = w.bw /\ v.gain = w.gain
           /\ v.manual = w.manual /\ v.awake = w.awake
<1>1. v \in Wants
  BY Zenon DEF Wants, TunesWant
<1> QED
  BY <1>1, SMT DEF Wants, TunesWant

(* e4k_tune_freq keeps the settings (tuner_e4k.c:572-600).                 *)
LEMMA TuneKeepsSettings ==
    ASSUME E4kAssumption, E4kInv, NEW f \in Freqs, TuneFreq(f)
    PROVE  E4kInv'
<1> DEFINE p == e4k_compute_pll_params(f)
<1>1. f \in Nat /\ f \in Int
  BY DEF E4kAssumption
<1>2. TuneType(p)
  BY <1>1, PllType
<1>3. PICK bad, ok : TunedBy(f, p, bad, ok)
  BY TuneFreqIs
<1> DEFINE bd == BandAfter(p, bad)
           freq == IF ok THEN f ELSE Unknown
           clean == bad.n = 0
<1>4. /\ chip' = Run(chip, TuneSteps(p, bd), bad).regs /\ band' = bd
      /\ want' = [want EXCEPT !.freq = freq, !.clean = clean]
      /\ hit' = hit \cup Damage(TuneSteps(p, bd), bad)
  BY <1>3 DEF TunedBy
<1> HIDE DEF p
<1>5. bd \in 0..3
  BY <1>2, BandType DEF E4kInv, TuneType, BandAfter
<1>5a. freq \in Int
  BY <1>1 DEF Unknown
<1>5b. clean \in BOOLEAN
  OBVIOUS
<1>5c. TunesWant(want', want, freq, clean)
  BY <1>4 DEF TunesWant
<1> HIDE DEF bd, freq, clean
<1>6. Ran(TuneSteps(p, bd), bad)
  <2>1. AreSteps(TuneSteps(p, bd))
    BY <1>2, <1>5, TuneStepsOk
  <2> QED
    BY <1>4, <2>1 DEF Ran, E4kInv
<1>7. /\ want' \in Wants
      /\ want'.stage = want.stage /\ want'.bw = want.bw /\ want'.gain = want.gain
      /\ want'.manual = want.manual /\ want'.awake = want.awake
  BY <1>5a, <1>5b, <1>5c, WantTuned DEF E4kInv
<1>8. Settings'
  BY <1>2, <1>5, <1>6, <1>7, TuneRan, AllKept DEF E4kInv
<1>9. chip' \in Memory
  BY <1>6, RanMemory
<1> QED
  BY <1>4, <1>5, <1>7, <1>8, <1>9 DEF E4kInv

(* A fault is at one of the accesses.                                      *)
LEMMA FaultPlace ==
    ASSUME NEW steps, NEW bad \in Faults(steps)
    PROVE  bad.n = 0 \/ bad.n \in DOMAIN steps
<1>1. CASE bad = [n |-> 0, fault |-> "none"]
  BY <1>1
<1>2. CASE \E n \in DOMAIN steps : \E e \in CanFail(steps[n]) : bad = [n |-> n, fault |-> e]
  BY <1>2
<1> QED
  BY <1>1, <1>2, Zenon DEF Faults

(* A call that makes the accesses of steps, and takes the wish new for what *)
(* it was asked for when its answer good is success.                       *)
MadeIf(steps, bad, good, new) ==
  /\ bad \in Faults(steps) /\ band' = band /\ chip' = Run(chip, steps, bad).regs
  /\ hit' = hit \cup Damage(steps, bad) /\ want' = IF good THEN new ELSE want

(* Whether all accesses of a call go well; a call that does nothing.       *)
OkOf(steps, bad) == AllOk(Run(chip, steps, bad).oks)

NoChange == UNCHANGED << chip, band, want, hit >>

(* Such a call makes its accesses.                                         *)
LEMMA MadeRan ==
    ASSUME E4kInv, NEW steps, AreSteps(steps), NEW bad, NEW good, NEW new,
           MadeIf(steps, bad, good, new)
    PROVE  Ran(steps, bad) /\ chip' \in Memory /\ band' \in 0..3
<1>1. Ran(steps, bad)
  BY DEF E4kInv, MadeIf, Ran
<1>2. chip' \in Memory
  BY <1>1, RanMemory
<1>3. band' \in 0..3
  BY DEF E4kInv, MadeIf
<1> QED
  BY <1>1, <1>2, <1>3

(* Call is such a call.                                                    *)
LEMMA CallIs ==
    ASSUME NEW steps, NEW new
    PROVE  /\ Call(steps, Ignored, new) => \E bad : MadeIf(steps, bad, TRUE, new)
           /\ Call(steps, AllOk, new) => \E bad : MadeIf(steps, bad, OkOf(steps, bad), new)
<1>1. ASSUME Call(steps, Ignored, new) PROVE \E bad : MadeIf(steps, bad, TRUE, new)
  BY <1>1, Zenon DEF Call, Ignored, MadeIf
<1>2. ASSUME Call(steps, AllOk, new) PROVE \E bad : MadeIf(steps, bad, OkOf(steps, bad), new)
  <2>1. \E bad \in Faults(steps) : MadeIf(steps, bad, OkOf(steps, bad), new)
    BY <1>2, Zenon DEF Call, MadeIf, OkOf
  <2> QED
    BY <2>1, Zenon
<1> QED
  BY <1>1, <1>2

(* IF gains. *)

(* An IF gain stage has a gain for every value of its field.               *)
LEMMA StageTables ==
    ASSUME NEW s \in 1..6
    PROVE  DOMAIN if_stage_gain[s] = 1..Size(if_stage_gain_regs[s])
<1> DEFINE g == if_stage_gain
<1>1. /\ DOMAIN g[1] = 1..2 /\ DOMAIN g[2] = 1..4 /\ DOMAIN g[3] = 1..4 /\ DOMAIN g[4] = 1..4
      /\ DOMAIN g[5] = 1..8 /\ DOMAIN g[6] = 1..8
  BY DEF if_stage_gain
<1>2. /\ Size(if_stage_gain_regs[1]) = 2 /\ Size(if_stage_gain_regs[2]) = 4
      /\ Size(if_stage_gain_regs[3]) = 4 /\ Size(if_stage_gain_regs[4]) = 4
      /\ Size(if_stage_gain_regs[5]) = 8 /\ Size(if_stage_gain_regs[6]) = 8
  BY FieldSizes DEF Has
<1>3. s = 1 \/ s = 2 \/ s = 3 \/ s = 4 \/ s = 5 \/ s = 6
  OBVIOUS
<1> HIDE DEF g
<1> QED
  BY <1>1, <1>2, <1>3 DEF g

(* It has at least two.                                                    *)
LEMMA SizePositive ==
    \A s \in 1..6 : Size(if_stage_gain_regs[s]) \in Nat /\ Size(if_stage_gain_regs[s]) >= 2
<1>3. \A s \in 1..6 : s = 1 \/ s = 2 \/ s = 3 \/ s = 4 \/ s = 5 \/ s = 6
  OBVIOUS
<1> QED
  BY <1>3, FieldSizes DEF Has

(* One access to one field.                                                *)
LEMMA OneMask ==
    ASSUME NEW f \in Fields, NEW x \in 0..(Size(f) - 1)
    PROVE  /\ AreSteps(<< Mask(f, x) >>) /\ Len(<< Mask(f, x) >>) = 1
           /\ << Mask(f, x) >>[1].f = f /\ << Mask(f, x) >>[1].kind = "mask"
           /\ << Mask(f, x) >>[1].val = x
<1> DEFINE m == Mask(f, x)
<1>1. IsAccess(m) /\ m.kind = "mask" /\ m.f = f /\ m.val = x
  BY MaskIs
<1> HIDE DEF m
<1>2. Len(<< m >>) = 1 /\ << m >>[1] = m
  OBVIOUS
<1>3. AreSteps(<< m >>)
  BY <1>1, <1>2 DEF AreSteps
<1> QED
  BY <1>1, <1>2, <1>3 DEF m

(* A call that puts one field.                                             *)
OneField(steps, f, x) ==
  /\ AreSteps(steps) /\ Len(steps) = 1 /\ DOMAIN steps = 1..1
  /\ steps[1].f = f /\ steps[1].kind = "mask" /\ steps[1].val = x

(* One access is such a call.                                              *)
LEMMA OneMaskIs ==
    ASSUME NEW f \in Fields, NEW x \in 0..(Size(f) - 1)
    PROVE  OneField(<< Mask(f, x) >>, f, x)
BY OneMask DEF OneField

(* It puts the field, unless the register is damaged, and keeps the        *)
(* others.                                                                 *)
LEMMA OneRan ==
    ASSUME NEW steps, NEW f \in Fields, NEW x, OneField(steps, f, x), NEW bad, Ran(steps, bad)
    PROVE  /\ f.reg \notin hit' => FieldOf(chip'[f.reg], f) = x
           /\ \A g \in Fields \ {f} : Same(g)
<1>1. ASSUME f.reg \notin hit' PROVE FieldOf(chip'[f.reg], f) = x
  <2> DEFINE i == 1
  <2>1. /\ i \in 1..Len(steps) /\ steps[i].kind # "write" /\ steps[i].f = f /\ steps[i].val = x
        /\ \A n \in (i + 1)..Len(steps) : Spares(steps[n], steps[i].f)
    BY DEF OneField
  <2> HIDE DEF i
  <2>2. FieldOf(chip'[steps[i].f.reg], steps[i].f) = steps[i].val
    BY <1>1, <2>1, RanSets
  <2> QED
    BY <2>1, <2>2
<1>2. ASSUME NEW g \in Fields \ {f} PROVE Same(g)
  <2> DEFINE Y == {f}
             X == {}
  <2>1. \A n \in 1..Len(steps) : n = 1
    BY DEF OneField
  <2>2. \A n \in 1..Len(steps) : (steps[n].kind # "write" /\ steps[n].f \in Y) \/ steps[n].f.reg \in X
    BY <2>1 DEF OneField
  <2>3. g \notin Y /\ g.reg \notin X /\ g \in Fields
    OBVIOUS
  <2> HIDE DEF Y, X
  <2> QED
    BY <2>2, <2>3, RanSpares
<1> QED
  BY <1>1, <1>2

(* The wish with another IF gain.                                          *)
LEMMA WantStage ==
    ASSUME NEW w \in Wants, NEW s \in 1..6, NEW g \in Int
    PROVE  LET v == [w EXCEPT !.stage[s] = g]
           IN  /\ v \in Wants /\ v.stage[s] = g /\ \A t \in 1..6 \ {s} : v.stage[t] = w.stage[t]
               /\ v.bw = w.bw /\ v.gain = w.gain /\ v.manual = w.manual /\ v.awake = w.awake
BY SMT DEF Wants

(* The wish with the gain g for stage s.                                   *)
StageWith(w, s, g) == [w EXCEPT !.stage[s] = g]

(* IfGainSet refuses or puts the place of the gain in its table.           *)
LEMMA IfGainSetIs ==
    ASSUME NEW s \in 1..6, NEW gain \in Int, IfGainSet(s, gain)
    PROVE  \/ NoChange
           \/ \E n \in DOMAIN if_stage_gain[s] :
                /\ if_stage_gain[s][n] = gain
                /\ Call(<< Mask(if_stage_gain_regs[s], n - 1) >>, AllOk, StageWith(want, s, gain))
<1> DEFINE fits == {n \in DOMAIN if_stage_gain[s] : if_stage_gain[s][n] = gain}
<1>1. CASE fits = {}
  BY <1>1 DEF IfGainSet, Refused, NoChange
<1>2. CASE fits # {}
  <2>1. fits \subseteq Nat
    <3>1. DOMAIN if_stage_gain[s] = 1..Size(if_stage_gain_regs[s])
      BY StageTables
    <3>2. Size(if_stage_gain_regs[s]) \in Nat
      BY SizePositive
    <3>3. fits \subseteq DOMAIN if_stage_gain[s]
      OBVIOUS
    <3> HIDE DEF fits
    <3> QED
      BY <3>1, <3>2, <3>3
  <2> DEFINE c == CHOOSE n \in fits : \A m \in fits : n <= m
  <2>2. c \in fits
    <3> HIDE DEF fits
    <3>1. \E n \in fits : \A m \in fits : n <= m
      BY <1>2, <2>1, LeastNatural
    <3> QED
      BY <3>1
  <2>3. Call(<< Mask(if_stage_gain_regs[s], c - 1) >>, AllOk, StageWith(want, s, gain))
    BY <1>2, Zenon DEF IfGainSet, StageWith
  <2> HIDE DEF c
  <2> QED
    BY <2>2, <2>3
<1> QED
  BY <1>1, <1>2

(* e4k_if_gain_set keeps the settings (tuner_e4k.c:795-816).               *)
LEMMA IfGainKeepsSettings ==
    ASSUME E4kInv, NEW s \in 1..6, NEW gain \in Int, IfGainSet(s, gain)
    PROVE  E4kInv'
<1>1. CASE NoChange
  BY <1>1, NothingKept DEF NoChange
<1>2. CASE \E n \in DOMAIN if_stage_gain[s] :
             /\ if_stage_gain[s][n] = gain
             /\ Call(<< Mask(if_stage_gain_regs[s], n - 1) >>, AllOk, StageWith(want, s, gain))
  <2> DEFINE f == if_stage_gain_regs[s]
             new == StageWith(want, s, gain)
  <2>1. PICK n \in DOMAIN if_stage_gain[s] :
          if_stage_gain[s][n] = gain /\ Call(<< Mask(f, n - 1) >>, AllOk, new)
    BY <1>2
  <2>2. f \in Fields /\ n \in 1..Size(f) /\ Size(f) \in Nat
    BY KnownFields, StageTables, SizePositive
  <2>3. n - 1 \in 0..(Size(f) - 1) /\ (n - 1) + 1 = n
    BY <2>2
  <2> DEFINE steps == << Mask(f, n - 1) >>
             x == n - 1
  <2>w. /\ new \in Wants /\ new.stage[s] = gain
        /\ \A t \in 1..6 \ {s} : new.stage[t] = want.stage[t]
        /\ new.bw = want.bw /\ new.gain = want.gain /\ new.manual = want.manual
        /\ new.awake = want.awake
    BY WantStage DEF E4kInv, StageWith
  <2>d. f = if_stage_gain_regs[s]
    OBVIOUS
  <2> HIDE DEF f, new
  <2>4. OneField(steps, f, x)
    BY <2>2, <2>3, OneMaskIs
  <2>5. PICK bad : MadeIf(steps, bad, OkOf(steps, bad), new)
    BY <2>1, CallIs
  <2>x. x + 1 = n
    BY <2>3
  <2> HIDE DEF steps, x
  <2>6. Ran(steps, bad) /\ chip' \in Memory /\ band' \in 0..3
    BY <2>4, <2>5, MadeRan DEF OneField
  <2>7. f.reg \notin hit' => FieldOf(chip'[f.reg], f) = x
    BY <2>2, <2>4, <2>6, OneRan
  <2>7a. \A g \in Fields \ {f} : Same(g)
    BY <2>2, <2>4, <2>6, OneRan
  <2>8. want' = new \/ want' = want
    BY <2>5 DEF MadeIf
  <2>9. f.reg \notin hit' => want' = new
    <3> SUFFICES ASSUME f.reg \notin hit' PROVE want' = new
      OBVIOUS
    <3>1. bad.n = 0
      <4>1. bad.n = 0 \/ bad.n \in 1..1
        BY <2>4, <2>5, FaultPlace DEF MadeIf, OneField
      <4>2. bad.n # 1
        <5> SUFFICES ASSUME bad.n = 1 PROVE FALSE
          OBVIOUS
        <5>1. steps[bad.n].f.reg = f.reg /\ bad.n # 0
          BY <2>4 DEF OneField
        <5> QED
          BY <5>1, <2>5 DEF MadeIf, Damage
      <4> QED
        BY <4>1, <4>2
    <3>2. \A i \in 1..Len(steps) : steps[i].kind # "write"
      <4>1. \A i \in 1..Len(steps) : i = 1
        BY <2>4 DEF OneField
      <4> QED
        BY <4>1, <2>4 DEF OneField
    <3>3. chip \in Memory /\ AreSteps(steps)
      BY <2>6 DEF Ran
    <3>4. OkOf(steps, bad)
      BY <3>1, <3>2, <3>3, RunOk DEF OkOf
    <3> QED
      BY <3>4, <2>5 DEF MadeIf
  <2>10. StageHolds(s)'
    <3> SUFFICES ASSUME f.reg \notin hit' PROVE if_stage_gain[s][FieldOf(chip'[f.reg], f) + 1] = want'.stage[s]
      BY <2>d, Zenon DEF StageHolds
    <3>1. FieldOf(chip'[f.reg], f) + 1 = n /\ want' = new
      BY <2>7, <2>9, <2>x
    <3> QED
      BY <3>1, <2>1, <2>w
  <2>11. ASSUME NEW t \in 1..6, t # s PROVE StageHolds(t)'
    <3>1. if_stage_gain_regs[t] \in Fields \ {f}
      BY <2>d, <2>11, KnownFields, StagesDiffer
    <3>2. want'.stage[t] = want.stage[t]
      BY <2>8, <2>w, <2>11
    <3>3. StageHolds(t)
      BY DEF E4kInv, Settings
    <3> QED
      BY <2>7a, <3>1, <3>2, <3>3, StageKept
  <2>12. want' \in Wants /\ want'.bw = want.bw /\ want'.gain = want.gain /\ want'.manual = want.manual
         /\ want'.awake = want.awake
    BY <2>8, <2>w DEF E4kInv
  <2>13. \A g \in Fields : g.reg \notin {"GAIN3", "GAIN4"} => Same(g)
    BY <2>7a, <2>d, StageRegs
  <2>14. Same(if_filter_fields.MIX) /\ Same(if_filter_fields.RC) /\ Same(if_filter_fields.CHAN)
    BY <2>13, KnownFields, FieldSizes DEF Has
  <2>15. FilterHolds(1, "MIX")' /\ FilterHolds(2, "RC")' /\ FilterHolds(3, "CHAN")'
    BY <2>12, <2>14, FilterKept DEF E4kInv, Settings
  <2>16. Same(LnaField) /\ Same(MixerField) /\ Same(AgcMode) /\ Same(MixAuto)
    BY <2>13, KnownFields, FieldSizes DEF Has
  <2>17. Same(AwakeField) /\ Same(RcBypass)
    BY <2>13, KnownFields, FieldSizes DEF Has
  <2>18. GainHolds' /\ ModeHolds' /\ AwakeHolds' /\ BypassHolds'
    BY <2>12, <2>16, <2>17, GainKept, ModeKept, AwakeKept, BypassKept DEF E4kInv, Settings
  <2>19. Settings'
    BY <2>10, <2>11, <2>15, <2>18 DEF Settings
  <2> QED
    BY <2>6, <2>12, <2>19 DEF E4kInv
<1> QED
  BY <1>1, <1>2, IfGainSetIs

(* The settings other than those of the registers in X are kept.           *)
LEMMA OthersKept ==
    ASSUME Settings, NEW X, \A f \in Fields : f.reg \notin X => Same(f)
    PROVE  /\ want'.stage = want.stage /\ {"GAIN3", "GAIN4"} \cap X = {} =>
                \A s \in 1..6 : StageHolds(s)'
           /\ want'.bw = want.bw /\ {"FILT2", "FILT3"} \cap X = {} =>
                FilterHolds(1, "MIX")' /\ FilterHolds(2, "RC")' /\ FilterHolds(3, "CHAN")'
           /\ want'.gain = want.gain /\ {"GAIN1", "GAIN2"} \cap X = {} => GainHolds'
           /\ want'.manual = want.manual /\ {"AGC1", "AGC7"} \cap X = {} => ModeHolds'
           /\ want'.awake = want.awake /\ "MASTER1" \notin X => AwakeHolds'
<1>1. ASSUME want'.stage = want.stage, {"GAIN3", "GAIN4"} \cap X = {}, NEW s \in 1..6
      PROVE  StageHolds(s)'
  <2>1. Same(if_stage_gain_regs[s])
    BY <1>1, KnownFields, StageRegs
  <2>2. StageHolds(s)
    BY DEF Settings
  <2> QED
    BY <1>1, <2>1, <2>2, StageKept
<1>2. ASSUME want'.bw = want.bw, {"FILT2", "FILT3"} \cap X = {}
      PROVE  FilterHolds(1, "MIX")' /\ FilterHolds(2, "RC")' /\ FilterHolds(3, "CHAN")'
  <2>1. Same(if_filter_fields.MIX) /\ Same(if_filter_fields.RC) /\ Same(if_filter_fields.CHAN)
    BY <1>2, KnownFields, FieldSizes DEF Has
  <2> QED
    BY <2>1, <1>2, FilterKept DEF Settings
<1>3. ASSUME want'.gain = want.gain, {"GAIN1", "GAIN2"} \cap X = {} PROVE GainHolds'
  <2>1. Same(LnaField) /\ Same(MixerField)
    BY <1>3, KnownFields, FieldSizes DEF Has
  <2> QED
    BY <2>1, <1>3, GainKept DEF Settings
<1>4. ASSUME want'.manual = want.manual, {"AGC1", "AGC7"} \cap X = {} PROVE ModeHolds'
  <2>1. Same(AgcMode) /\ Same(MixAuto)
    BY <1>4, KnownFields, FieldSizes DEF Has
  <2> QED
    BY <2>1, <1>4, ModeKept DEF Settings
<1>5. ASSUME want'.awake = want.awake, "MASTER1" \notin X PROVE AwakeHolds'
  <2>1. Same(AwakeField)
    BY <1>5, KnownFields, FieldSizes DEF Has
  <2> QED
    BY <2>1, <1>5, AwakeKept DEF Settings
<1> QED
  BY <1>1, <1>2, <1>3, <1>4, <1>5

(* The wish for another standby or gain mode.                              *)
AwakeWith(w, b) == [w EXCEPT !.awake = b]
ManualWith(w, b) == [w EXCEPT !.manual = b]

(* It differs from the one before in that only.                            *)
LEMMA WantFlag ==
    ASSUME NEW w \in Wants, NEW b \in BOOLEAN
    PROVE  LET v == AwakeWith(w, b)
               m == ManualWith(w, b)
           IN  /\ v \in Wants /\ v.awake = b /\ v.stage = w.stage /\ v.bw = w.bw
               /\ v.gain = w.gain /\ v.manual = w.manual
               /\ m \in Wants /\ m.manual = b /\ m.stage = w.stage /\ m.bw = w.bw
               /\ m.gain = w.gain /\ m.awake = w.awake
BY Zenon DEF Wants, AwakeWith, ManualWith

(* e4k_standby keeps the settings.                                         *)
LEMMA StandbyKeepsSettings ==
    ASSUME E4kInv, NEW on \in BOOLEAN, Standby(on)
    PROVE  E4kInv'
<1> DEFINE x == IF on THEN 0 ELSE 1
           steps == << Mask(AwakeField, x) >>
           b == ~on
           new == AwakeWith(want, b)
<1>1. AwakeField \in Fields /\ x \in 0..(Size(AwakeField) - 1) /\ AwakeField.reg = "MASTER1"
  BY KnownFields, FieldSizes DEF Has
<1>2. OneField(steps, AwakeField, x)
  BY <1>1, OneMaskIs
<1>3. Call(steps, Ignored, new)
  BY Zenon DEF Standby, AwakeField, AwakeWith
<1>4. /\ new \in Wants /\ new.stage = want.stage /\ new.bw = want.bw /\ new.gain = want.gain
      /\ new.manual = want.manual /\ new.awake = b
  <2>1. b \in BOOLEAN /\ want \in Wants
    BY DEF E4kInv
  <2> HIDE DEF b
  <2> QED
    BY <2>1, WantFlag
<1>5. new.awake <=> ~on
  <2>1. new.awake = b
    BY <1>4
  <2> HIDE DEF new
  <2> QED
    BY <2>1
<1> HIDE DEF steps, new
<1>6. PICK bad : MadeIf(steps, bad, TRUE, new)
  BY <1>3, CallIs
<1>7. Ran(steps, bad) /\ chip' \in Memory /\ band' \in 0..3
  BY <1>2, <1>6, MadeRan DEF OneField
<1>8. want' = new
  BY <1>6 DEF MadeIf
<1>9. AwakeField.reg \notin hit' => FieldOf(chip'[AwakeField.reg], AwakeField) = x
  BY <1>1, <1>2, <1>7, OneRan
<1>10. \A f \in Fields \ {AwakeField} : Same(f)
  BY <1>1, <1>2, <1>7, OneRan
<1>11. AwakeHolds'
  BY <1>1, <1>5, <1>8, <1>9 DEF AwakeHolds
<1> DEFINE X == {"MASTER1"}
<1>12. \A f \in Fields : f.reg \notin X => Same(f)
  BY <1>1, <1>10
<1>13. Same(RcBypass)
  BY <1>12, KnownFields, FieldSizes DEF Has
<1>14. BypassHolds'
  BY <1>13, BypassKept DEF E4kInv, Settings
<1>15. /\ {"GAIN3", "GAIN4"} \cap X = {} /\ {"FILT2", "FILT3"} \cap X = {}
       /\ {"GAIN1", "GAIN2"} \cap X = {} /\ {"AGC1", "AGC7"} \cap X = {}
  OBVIOUS
<1> HIDE DEF X
<1>16. /\ \A s \in 1..6 : StageHolds(s)'
       /\ FilterHolds(1, "MIX")' /\ FilterHolds(2, "RC")' /\ FilterHolds(3, "CHAN")'
       /\ GainHolds' /\ ModeHolds'
  BY <1>4, <1>8, <1>12, <1>15, OthersKept DEF E4kInv
<1>17. Settings'
  BY <1>11, <1>14, <1>16 DEF Settings
<1> QED
  BY <1>4, <1>7, <1>8, <1>17 DEF E4kInv

(* Accesses that each put another field.                                   *)
Apart(steps) ==
  /\ AreSteps(steps) /\ \A n \in 1..Len(steps) : steps[n].kind # "write"
  /\ \A n, m \in 1..Len(steps) : n # m => steps[n].f # steps[m].f

(* Field f holds x, or its register is damaged.                            *)
Put(f, x) == f.reg \notin hit' => FieldOf(chip'[f.reg], f) = x

(* Such a run puts all its fields and keeps the others.                    *)
LEMMA ApartRan ==
    ASSUME NEW steps, Apart(steps), NEW bad, Ran(steps, bad)
    PROVE  /\ \A n \in 1..Len(steps) : Put(steps[n].f, steps[n].val)
           /\ \A g \in Fields : (\A n \in 1..Len(steps) : steps[n].f # g) => Same(g)
<1>1. ASSUME NEW n \in 1..Len(steps) PROVE Put(steps[n].f, steps[n].val)
  <2> SUFFICES ASSUME steps[n].f.reg \notin hit'
               PROVE  FieldOf(chip'[steps[n].f.reg], steps[n].f) = steps[n].val
    BY DEF Put
  <2>1. \A m \in (n + 1)..Len(steps) : m \in 1..Len(steps) /\ m # n
    BY DEF Apart, AreSteps
  <2>2. \A m \in (n + 1)..Len(steps) : Spares(steps[m], steps[n].f)
    BY <2>1 DEF Spares, Apart
  <2>3. steps[n].kind # "write"
    BY DEF Apart
  <2> QED
    BY <2>2, <2>3, RanSets
<1>2. ASSUME NEW g \in Fields, \A n \in 1..Len(steps) : steps[n].f # g PROVE Same(g)
  <2>1. \A n \in 1..Len(steps) : Spares(steps[n], g)
    BY <1>2 DEF Spares, Apart
  <2> QED
    BY <2>1, RanSame
<1> QED
  BY <1>1, <1>2

(* Two and three of them.                                                  *)
IsPut(s, f, x) == s.kind # "write" /\ s.f = f /\ s.val = x /\ IsAccess(s)

(* Two accesses to different fields.                                       *)
LEMMA TwoApart ==
    ASSUME NEW a, NEW b, NEW f, NEW g, NEW x, NEW y, IsPut(a, f, x), IsPut(b, g, y), f # g
    PROVE  /\ Apart(<< a, b >>)
           /\ \A bad : Ran(<< a, b >>, bad) =>
                Put(f, x) /\ Put(g, y) /\ \A h \in Fields \ {f, g} : Same(h)
<1> DEFINE s == << a, b >>
<1>1. Len(s) = 2 /\ s[1] = a /\ s[2] = b
  OBVIOUS
<1>2. \A n \in 1..2 : n = 1 \/ n = 2
  OBVIOUS
<1> HIDE DEF s
<1>3. Apart(s)
  BY <1>1, <1>2 DEF Apart, AreSteps, IsPut
<1>4. ASSUME NEW bad, Ran(s, bad)
      PROVE  Put(f, x) /\ Put(g, y) /\ \A h \in Fields \ {f, g} : Same(h)
  <2>1. \A n \in 1..Len(s) : Put(s[n].f, s[n].val)
    BY <1>3, <1>4, ApartRan
  <2>2. 1 \in 1..Len(s) /\ 2 \in 1..Len(s)
    BY <1>1
  <2>3. Put(f, x) /\ Put(g, y)
    BY <2>1, <2>2, <1>1 DEF IsPut
  <2>4. ASSUME NEW h \in Fields \ {f, g} PROVE Same(h)
    <3>1. \A n \in 1..Len(s) : s[n].f # h
      BY <1>1, <1>2 DEF IsPut
    <3> QED
      BY <3>1, <1>3, <1>4, ApartRan
  <2> QED
    BY <2>3, <2>4
<1> QED
  BY <1>3, <1>4 DEF s

(* Three of them.                                                          *)
LEMMA ThreeApart ==
    ASSUME NEW a, NEW b, NEW c, NEW f, NEW g, NEW e, NEW x, NEW y, NEW z,
           IsPut(a, f, x), IsPut(b, g, y), IsPut(c, e, z), f # g, g # e, f # e
    PROVE  /\ Apart(<< a, b, c >>)
           /\ \A bad : Ran(<< a, b, c >>, bad) =>
                Put(f, x) /\ Put(g, y) /\ Put(e, z) /\ \A h \in Fields \ {f, g, e} : Same(h)
<1> DEFINE s == << a, b, c >>
<1>1. Len(s) = 3 /\ s[1] = a /\ s[2] = b /\ s[3] = c
  OBVIOUS
<1>2. \A n \in 1..3 : n = 1 \/ n = 2 \/ n = 3
  OBVIOUS
<1> HIDE DEF s
<1>3. Apart(s)
  BY <1>1, <1>2 DEF Apart, AreSteps, IsPut
<1>4. ASSUME NEW bad, Ran(s, bad)
      PROVE  Put(f, x) /\ Put(g, y) /\ Put(e, z) /\ \A h \in Fields \ {f, g, e} : Same(h)
  <2>1. \A n \in 1..Len(s) : Put(s[n].f, s[n].val)
    BY <1>3, <1>4, ApartRan
  <2>2. 1 \in 1..Len(s) /\ 2 \in 1..Len(s) /\ 3 \in 1..Len(s)
    BY <1>1
  <2>3. Put(f, x) /\ Put(g, y) /\ Put(e, z)
    BY <2>1, <2>2, <1>1 DEF IsPut
  <2>4. ASSUME NEW h \in Fields \ {f, g, e} PROVE Same(h)
    <3>1. \A n \in 1..Len(s) : s[n].f # h
      BY <1>1, <1>2 DEF IsPut
    <3> QED
      BY <3>1, <1>3, <1>4, ApartRan
  <2> QED
    BY <2>3, <2>4
<1> QED
  BY <1>3, <1>4 DEF s

(* Both ways of putting a field do.                                        *)
LEMMA PutIs ==
    ASSUME NEW f \in Fields, NEW x \in 0..(Size(f) - 1)
    PROVE  IsPut(Mask(f, x), f, x) /\ IsPut(FieldWrite(f, x), f, x)
BY MaskIs DEF IsPut

(* The accesses that change the gain mode put its fields.                  *)
LEMMA ManualPuts ==
    ASSUME NEW on \in BOOLEAN
    PROVE  /\ Apart(ManualSteps(on))
           /\ \A bad : Ran(ManualSteps(on), bad) =>
                /\ Put(AgcMode, IF on THEN 0 ELSE 9) /\ Put(MixAuto, IF on THEN 0 ELSE 1)
                /\ \A h \in Fields \ {AgcMode, MixAuto, Agc11Field} : Same(h)
<1>1. /\ AgcMode \in Fields /\ MixAuto \in Fields /\ Agc11Field \in Fields
      /\ Size(AgcMode) = 16 /\ Size(MixAuto) = 2 /\ Size(Agc11Field) = 8
      /\ AgcMode # MixAuto /\ MixAuto # Agc11Field /\ AgcMode # Agc11Field
  BY KnownFields, FieldSizes DEF Has
<1> DEFINE x == IF on THEN 0 ELSE 9
           y == IF on THEN 0 ELSE 1
           z == 0
           a == Mask(AgcMode, x)
           b == Mask(MixAuto, y)
           c == Mask(Agc11Field, z)
<1>2. x \in 0..(Size(AgcMode) - 1) /\ y \in 0..(Size(MixAuto) - 1) /\ z \in 0..(Size(Agc11Field) - 1)
  BY <1>1
<1>3. IF on THEN ManualSteps(on) = << a, b >> ELSE ManualSteps(on) = << a, b, c >>
  BY DEF ManualSteps, Agc11Field
<1> HIDE DEF x, y, z
<1>4. IsPut(a, AgcMode, x) /\ IsPut(b, MixAuto, y) /\ IsPut(c, Agc11Field, z)
  BY <1>1, <1>2, PutIs
<1> HIDE DEF a, b, c
<1>5. CASE on
  <2>1. ManualSteps(on) = << a, b >>
    BY <1>3, <1>5
  <2>2. /\ Apart(<< a, b >>)
        /\ \A bad : Ran(<< a, b >>, bad) =>
             /\ Put(AgcMode, x) /\ Put(MixAuto, y)
             /\ \A h \in Fields \ {AgcMode, MixAuto} : Same(h)
    BY <1>1, <1>4, TwoApart
  <2> QED
    BY <2>1, <2>2 DEF x, y
<1>6. CASE ~on
  <2>1. ManualSteps(on) = << a, b, c >>
    BY <1>3, <1>6
  <2>2. /\ Apart(<< a, b, c >>)
        /\ \A bad : Ran(<< a, b, c >>, bad) =>
             /\ Put(AgcMode, x) /\ Put(MixAuto, y) /\ Put(Agc11Field, z)
             /\ \A h \in Fields \ {AgcMode, MixAuto, Agc11Field} : Same(h)
    BY <1>1, <1>4, ThreeApart
  <2> QED
    BY <2>1, <2>2 DEF x, y
<1> QED
  BY <1>5, <1>6

(* e4k_enable_manual_gain keeps the settings (tuner_e4k.c:871-894).        *)
LEMMA ManualKeepsSettings ==
    ASSUME E4kInv, NEW on \in BOOLEAN, EnableManualGain(on)
    PROVE  E4kInv'
<1> DEFINE steps == ManualSteps(on)
           new == ManualWith(want, on)
<1>2. Call(steps, Ignored, new)
  BY Zenon DEF EnableManualGain, ManualWith
<1>3. Apart(steps)
  BY ManualPuts
<1>4. /\ new \in Wants /\ new.stage = want.stage /\ new.bw = want.bw /\ new.gain = want.gain
      /\ new.awake = want.awake /\ new.manual = on
  BY WantFlag DEF E4kInv
<1>5. new.manual <=> on
  BY <1>4
<1> HIDE DEF steps, new
<1>6. PICK bad : MadeIf(steps, bad, TRUE, new)
  BY <1>2, CallIs
<1>7. Ran(steps, bad) /\ chip' \in Memory /\ band' \in 0..3
  BY <1>3, <1>6, MadeRan DEF Apart
<1>8. want' = new
  BY <1>6 DEF MadeIf
<1>9. /\ Put(AgcMode, IF on THEN 0 ELSE 9) /\ Put(MixAuto, IF on THEN 0 ELSE 1)
      /\ \A h \in Fields \ {AgcMode, MixAuto, Agc11Field} : Same(h)
  BY <1>7, ManualPuts DEF steps
<1>10. AgcMode.reg = "AGC1" /\ MixAuto.reg = "AGC7" /\ Agc11Field.reg = "AGC11"
  BY FieldSizes DEF Has
<1>11. ModeHolds'
  BY <1>5, <1>8, <1>9, <1>10 DEF ModeHolds, Put
<1> DEFINE X == {"AGC1", "AGC7", "AGC11"}
<1>12. \A f \in Fields : f.reg \notin X => Same(f)
  BY <1>9, <1>10
<1>13. Same(RcBypass)
  BY <1>12, KnownFields, FieldSizes DEF Has
<1>14. BypassHolds'
  BY <1>13, BypassKept DEF E4kInv, Settings
<1>15. /\ {"GAIN3", "GAIN4"} \cap X = {} /\ {"FILT2", "FILT3"} \cap X = {}
       /\ {"GAIN1", "GAIN2"} \cap X = {} /\ "MASTER1" \notin X
  OBVIOUS
<1> HIDE DEF X
<1>16. /\ \A s \in 1..6 : StageHolds(s)'
       /\ FilterHolds(1, "MIX")' /\ FilterHolds(2, "RC")' /\ FilterHolds(3, "CHAN")'
       /\ GainHolds' /\ AwakeHolds'
  BY <1>4, <1>8, <1>12, <1>15, OthersKept DEF E4kInv
<1>17. Settings'
  BY <1>11, <1>14, <1>16 DEF Settings
<1> QED
  BY <1>4, <1>7, <1>8, <1>17 DEF E4kInv

(* No two rows of the LNA table have the same setting.                     *)
LEMMA LnaTable ==
    /\ DOMAIN lnagain = 1..13
    /\ \A n \in 1..13 : lnagain[n][2] \in 0..15 /\ lnagain[n][1] \in Int
    /\ \A n, m \in 1..13 : lnagain[n][2] = lnagain[m][2] => n = m
<1>1. DOMAIN lnagain = 1..13 /\ \A n \in 1..13 : lnagain[n][2] \in 0..15 /\ lnagain[n][1] \in Int
  BY DEF lnagain
<1>2. /\ lnagain[1][2] = 0 /\ lnagain[2][2] = 1 /\ lnagain[3][2] = 4 /\ lnagain[4][2] = 5
      /\ lnagain[5][2] = 6 /\ lnagain[6][2] = 7 /\ lnagain[7][2] = 8 /\ lnagain[8][2] = 9
      /\ lnagain[9][2] = 10 /\ lnagain[10][2] = 11 /\ lnagain[11][2] = 12 /\ lnagain[12][2] = 13
      /\ lnagain[13][2] = 14
  BY DEF lnagain
<1>3. \A n \in 1..13 : n = 1 \/ n = 2 \/ n = 3 \/ n = 4 \/ n = 5 \/ n = 6 \/ n = 7 \/ n = 8
                    \/ n = 9 \/ n = 10 \/ n = 11 \/ n = 12 \/ n = 13
  OBVIOUS
<1>4. \A n, m \in 1..13 : lnagain[n][2] = lnagain[m][2] => n = m
  BY <1>2, <1>3
<1> QED
  BY <1>1, <1>4

(* The wish with another gain or filter width.                             *)
GainWith(w, g) == [w EXCEPT !.gain = g]
BwWith(w, b) == [w EXCEPT !.bw = << b, b, b >>]

(* It differs from the one before in that only.                            *)
LEMMA WantGain ==
    ASSUME NEW w \in Wants, NEW g \in Int
    PROVE  LET v == GainWith(w, g)
               b == BwWith(w, g)
           IN  /\ v \in Wants /\ v.gain = g /\ v.stage = w.stage /\ v.bw = w.bw
               /\ v.manual = w.manual /\ v.awake = w.awake
               /\ b \in Wants /\ b.gain = w.gain /\ b.stage = w.stage
               /\ b.bw[1] = g /\ b.bw[2] = g /\ b.bw[3] = g
               /\ b.manual = w.manual /\ b.awake = w.awake
BY SMT DEF Wants, GainWith, BwWith

(* SetGain refuses, or puts an LNA gain and a mixer gain that add up to    *)
(* the one wished; above 42 dB the LNA would fall short of its share.      *)
LEMMA SetGainIs ==
    ASSUME NEW gain \in Int, gain <= 420, SetGain(gain)
    PROVE  \/ NoChange
           \/ \E n \in 1..13 :
                /\ gain = lnagain[n][1] + MixGain(gain)
                /\ Call(<< Mask(LnaField, lnagain[n][2]),
                           Mask(MixerField, IF MixGain(gain) = 120 THEN 1 ELSE 0) >>,
                        Ignored, GainWith(want, gain))
<1> DEFINE rest == gain - MixGain(gain)
           lna == IF rest > 300 THEN 300 ELSE rest
           rows == {n \in DOMAIN lnagain : lnagain[n][1] = lna}
<1>1. CASE rows = {}
  BY <1>1 DEF SetGain, Refused, NoChange
<1>2. CASE rows # {}
  <2> DEFINE c == CHOOSE n \in rows : TRUE
  <2>1. c \in rows
    BY <1>2
  <2>2. c \in 1..13 /\ lnagain[c][1] = lna
    BY <2>1, LnaTable
  <2>3. Call(<< Mask(LnaField, lnagain[c][2]),
                Mask(MixerField, IF MixGain(gain) = 120 THEN 1 ELSE 0) >>,
             Ignored, GainWith(want, gain))
    BY <1>2, Zenon DEF SetGain, GainWith
  <2>4. gain = lna + MixGain(gain)
    BY DEF MixGain
  <2> HIDE DEF c, lna
  <2> QED
    BY <2>2, <2>3, <2>4
<1> QED
  BY <1>1, <1>2

(* e4000_set_gain keeps the settings (librtlsdr.c:148-160).                *)
LEMMA GainKeepsSettings ==
    ASSUME E4kInv, NEW gain \in Int, gain <= 420, SetGain(gain)
    PROVE  E4kInv'
<1>1. CASE NoChange
  BY <1>1, NothingKept DEF NoChange
<1>2. ASSUME NEW n \in 1..13, gain = lnagain[n][1] + MixGain(gain),
             Call(<< Mask(LnaField, lnagain[n][2]),
                     Mask(MixerField, IF MixGain(gain) = 120 THEN 1 ELSE 0) >>,
                  Ignored, GainWith(want, gain))
      PROVE  E4kInv'
  <2> DEFINE x == lnagain[n][2]
             y == IF MixGain(gain) = 120 THEN 1 ELSE 0
             a == Mask(LnaField, x)
             b == Mask(MixerField, y)
             steps == << a, b >>
             new == GainWith(want, gain)
  <2>1. /\ LnaField \in Fields /\ MixerField \in Fields /\ LnaField.reg = "GAIN1"
        /\ MixerField.reg = "GAIN2" /\ Size(LnaField) = 16 /\ Size(MixerField) = 2
        /\ LnaField # MixerField
    BY KnownFields, FieldSizes DEF Has
  <2>2. x \in 0..(Size(LnaField) - 1) /\ y \in 0..(Size(MixerField) - 1)
    BY <2>1, LnaTable
  <2>3. /\ new \in Wants /\ new.gain = gain /\ new.stage = want.stage /\ new.bw = want.bw
        /\ new.manual = want.manual /\ new.awake = want.awake
    BY WantGain DEF E4kInv
  <2>m. MixGain(gain) = IF y = 1 THEN 120 ELSE 40
    BY DEF MixGain
  <2>4. Call(steps, Ignored, new)
    BY <1>2
  <2>x. x = lnagain[n][2]
    OBVIOUS
  <2> HIDE DEF x, y, new
  <2>5. IsPut(a, LnaField, x) /\ IsPut(b, MixerField, y)
    BY <2>1, <2>2, PutIs
  <2> HIDE DEF a, b
  <2>6. /\ Apart(steps)
        /\ \A bad : Ran(steps, bad) =>
             Put(LnaField, x) /\ Put(MixerField, y) /\ \A h \in Fields \ {LnaField, MixerField} : Same(h)
    BY <2>1, <2>5, TwoApart
  <2> HIDE DEF steps
  <2>7. PICK bad : MadeIf(steps, bad, TRUE, new)
    BY <2>4, CallIs
  <2>8. Ran(steps, bad) /\ chip' \in Memory /\ band' \in 0..3
    BY <2>6, <2>7, MadeRan DEF Apart
  <2>9. want' = new
    BY <2>7 DEF MadeIf
  <2>10. Put(LnaField, x) /\ Put(MixerField, y)
    BY <2>6, <2>8
  <2>11. GainHolds'
    <3> SUFFICES ASSUME {"GAIN1", "GAIN2"} \cap hit' = {}
                 PROVE  gain = ChipLna' + IF FieldOf(chip'["GAIN2"], MixerField) = 1 THEN 120 ELSE 40
      BY <2>3, <2>9 DEF GainHolds
    <3>1. "GAIN1" \notin hit' /\ "GAIN2" \notin hit'
      OBVIOUS
    <3>2. FieldOf(chip'["GAIN1"], LnaField) = x /\ FieldOf(chip'["GAIN2"], MixerField) = y
      BY <2>1, <2>10, <3>1 DEF Put
    <3>3. ChipLna' = lnagain[n][1]
      <4> DEFINE c == CHOOSE m \in DOMAIN lnagain : lnagain[m][2] = x
      <4>1. n \in DOMAIN lnagain /\ lnagain[n][2] = x
        BY <2>x, LnaTable
      <4>2. c \in DOMAIN lnagain /\ lnagain[c][2] = x
        BY <4>1
      <4>3. c = n
        BY <4>1, <4>2, LnaTable
      <4>4. ChipLna' = lnagain[c][1]
        BY <3>2 DEF ChipLna
      <4> QED
        BY <4>3, <4>4
    <3> QED
      BY <1>2, <2>m, <3>2, <3>3
  <2> DEFINE X == {"GAIN1", "GAIN2"}
  <2>12. \A f \in Fields : f.reg \notin X => Same(f)
    BY <2>1, <2>6, <2>8
  <2>13. Same(RcBypass)
    BY <2>12, KnownFields, FieldSizes DEF Has
  <2>14. BypassHolds'
    BY <2>13, BypassKept DEF E4kInv, Settings
  <2>15. /\ {"GAIN3", "GAIN4"} \cap X = {} /\ {"FILT2", "FILT3"} \cap X = {}
         /\ {"AGC1", "AGC7"} \cap X = {} /\ "MASTER1" \notin X
    OBVIOUS
  <2> HIDE DEF X
  <2>16. /\ \A s \in 1..6 : StageHolds(s)'
         /\ FilterHolds(1, "MIX")' /\ FilterHolds(2, "RC")' /\ FilterHolds(3, "CHAN")'
         /\ ModeHolds' /\ AwakeHolds'
    BY <2>3, <2>9, <2>12, <2>15, OthersKept DEF E4kInv
  <2>17. Settings'
    BY <2>11, <2>14, <2>16 DEF Settings
  <2> QED
    BY <2>3, <2>8, <2>9, <2>17 DEF E4kInv
<1> QED
  BY <1>1, <1>2, SetGainIs

(* The three filters for three widths.                                     *)
Mix(x) == closest_arr_idx(if_filter_bw.MIX, x) - 1
Rc(x) == closest_arr_idx(if_filter_bw.RC, x) - 1
Chan(x) == closest_arr_idx(if_filter_bw.CHAN, x) - 1

(* Entry n + 1 of the table of a filter is the closest to x.               *)
FilterIs(filter, k, x, n) ==
  n \in 0..(k - 1) /\ \A m \in DOMAIN if_filter_bw[filter] :
    Delta(x, if_filter_bw[filter][n + 1]) <= Delta(x, if_filter_bw[filter][m])

(* The three filters are.                                                  *)
LEMMA FiltersChosen ==
    ASSUME NEW x \in Nat
    PROVE  /\ FilterIs("MIX", 16, x, Mix(x)) /\ FilterIs("RC", 16, x, Rc(x))
           /\ FilterIs("CHAN", 32, x, Chan(x))
<1> DEFINE k == 16
           l == 32
           mix == if_filter_bw.MIX
           rc == if_filter_bw.RC
           chan == if_filter_bw.CHAN
<1>1. IsTable(mix, k) /\ IsTable(rc, k) /\ IsTable(chan, l)
  BY FilterTables
<1>2. k \in Nat /\ k # 0 /\ l \in Nat /\ l # 0
  OBVIOUS
<1> HIDE DEF k, l, mix, rc, chan
<1>3. /\ Nearest(mix, k, x, closest_arr_idx(mix, x)) /\ Nearest(rc, k, x, closest_arr_idx(rc, x))
      /\ Nearest(chan, l, x, closest_arr_idx(chan, x))
  BY <1>1, <1>2, ClosestIsNearest
<1>4. DOMAIN mix = 1..k /\ DOMAIN rc = 1..k /\ DOMAIN chan = 1..l
  BY <1>1 DEF IsTable
<1>5. \A n \in 1..k : n - 1 \in 0..(k - 1) /\ (n - 1) + 1 = n
  BY <1>2
<1>6. \A n \in 1..l : n - 1 \in 0..(l - 1) /\ (n - 1) + 1 = n
  BY <1>2
<1>7. FilterIs("MIX", k, x, closest_arr_idx(mix, x) - 1)
  BY <1>3, <1>4, <1>5 DEF Nearest, FilterIs, mix
<1>8. FilterIs("RC", k, x, closest_arr_idx(rc, x) - 1)
  BY <1>3, <1>4, <1>5 DEF Nearest, FilterIs, rc
<1>9. FilterIs("CHAN", l, x, closest_arr_idx(chan, x) - 1)
  BY <1>3, <1>4, <1>6 DEF Nearest, FilterIs, chan
<1> QED
  BY <1>7, <1>8, <1>9 DEF k, l, mix, rc, chan, Mix, Rc, Chan

(* The accesses that choose them put their three fields.                   *)
LEMMA FilterPuts ==
    ASSUME NEW x \in Nat, NEW y \in Nat, NEW z \in Nat
    PROVE  /\ Apart(FilterSteps(x, y, z))
           /\ \A bad : Ran(FilterSteps(x, y, z), bad) =>
                /\ Put(if_filter_fields.MIX, Mix(x)) /\ Put(if_filter_fields.RC, Rc(y))
                /\ Put(if_filter_fields.CHAN, Chan(z))
                /\ \A h \in Fields : h.reg \notin {"FILT2", "FILT3"} => Same(h)
           /\ \A bad : Ran(FilterSteps(x, y, z), bad) => Same(RcBypass)
<1> DEFINE f == if_filter_fields.MIX
           g == if_filter_fields.RC
           h == if_filter_fields.CHAN
           a == FieldWrite(f, Mix(x))
           b == FieldWrite(g, Rc(y))
           c == FieldWrite(h, Chan(z))
<1>1. /\ f \in Fields /\ g \in Fields /\ h \in Fields /\ f.reg = "FILT2" /\ g.reg = "FILT2"
      /\ h.reg = "FILT3" /\ Size(f) = 16 /\ Size(g) = 16 /\ Size(h) = 32
  BY KnownFields, FieldSizes DEF Has
<1>2. f # g /\ g # h /\ f # h
  <2>1. f # g
    BY FiltersDiffer
  <2> HIDE DEF f, g, h
  <2> QED
    BY <2>1, <1>1
<1>3. FilterSteps(x, y, z) = << a, b, c >>
  BY DEF FilterSteps, Mix, Rc, Chan
<1>4. Mix(x) \in 0..15 /\ Rc(y) \in 0..15 /\ Chan(z) \in 0..31
  BY FiltersChosen DEF FilterIs
<1>r. RcBypass \in Fields /\ RcBypass.reg = "FILT3" /\ Size(RcBypass) = 2
  BY KnownFields, FieldSizes DEF Has
<1> HIDE DEF f, g, h
<1>5. IsPut(a, f, Mix(x)) /\ IsPut(b, g, Rc(y)) /\ IsPut(c, h, Chan(z))
  BY <1>1, <1>4, PutIs
<1> HIDE DEF a, b, c
<1>6. /\ Apart(<< a, b, c >>)
      /\ \A bad : Ran(<< a, b, c >>, bad) =>
           /\ Put(f, Mix(x)) /\ Put(g, Rc(y)) /\ Put(h, Chan(z))
           /\ \A i \in Fields \ {f, g, h} : Same(i)
  BY <1>2, <1>5, ThreeApart
<1>7. RcBypass \in Fields \ {f, g, h} /\ \A i \in Fields : i.reg \notin {"FILT2", "FILT3"} => i \in Fields \ {f, g, h}
  BY <1>1, <1>r
<1> QED
  BY <1>3, <1>6, <1>7 DEF f, g, h

(* e4000_set_bw keeps the settings (librtlsdr.c:162-176).                  *)
LEMMA SetBwKeepsSettings ==
    ASSUME E4kInv, NEW bw \in Nat, SetBw(bw)
    PROVE  E4kInv'
<1> DEFINE steps == FilterSteps(bw, bw, bw)
           good(bad) == OkOf(steps, bad)
           new(bad) == BwWith(want, IF good(bad) THEN bw ELSE Unknown)
<1>1. \E bad \in Faults(steps) : MadeIf(steps, bad, TRUE, new(bad))
  BY Zenon DEF SetBw, MadeIf, OkOf, BwWith
<1>2. PICK bad : MadeIf(steps, bad, TRUE, new(bad))
  BY <1>1
<1> DEFINE b == IF good(bad) THEN bw ELSE Unknown
           w == BwWith(want, b)
<1>3. b \in Int /\ (b = bw \/ b = Unknown)
  BY DEF Unknown
<1>4. MadeIf(steps, bad, TRUE, w)
  BY <1>2
<1> HIDE DEF b
<1>5. /\ w \in Wants /\ w.gain = want.gain /\ w.stage = want.stage
      /\ w.bw[1] = b /\ w.bw[2] = b /\ w.bw[3] = b
      /\ w.manual = want.manual /\ w.awake = want.awake
  BY <1>3, WantGain DEF E4kInv
<1>6. want' = w
  BY <1>4 DEF MadeIf
<1> HIDE DEF w
<1>7. Apart(steps)
  BY FilterPuts
<1> HIDE DEF steps
<1>8. Ran(steps, bad) /\ chip' \in Memory /\ band' \in 0..3
  BY <1>4, <1>7, MadeRan DEF Apart
<1>9. /\ Put(if_filter_fields.MIX, Mix(bw)) /\ Put(if_filter_fields.RC, Rc(bw))
      /\ Put(if_filter_fields.CHAN, Chan(bw)) /\ Same(RcBypass)
      /\ \A h \in Fields : h.reg \notin {"FILT2", "FILT3"} => Same(h)
  BY <1>8, FilterPuts DEF steps
<1>10. FilterHolds(1, "MIX")'
  BY <1>3, <1>5, <1>6, <1>9, FiltersChosen DEF FilterHolds, FilterIs, Put
<1>11. FilterHolds(2, "RC")'
  BY <1>3, <1>5, <1>6, <1>9, FiltersChosen DEF FilterHolds, FilterIs, Put
<1>12. FilterHolds(3, "CHAN")'
  BY <1>3, <1>5, <1>6, <1>9, FiltersChosen DEF FilterHolds, FilterIs, Put
<1> DEFINE X == {"FILT2", "FILT3"}
<1>14. BypassHolds'
  BY <1>9, BypassKept DEF E4kInv, Settings
<1>15. /\ {"GAIN3", "GAIN4"} \cap X = {} /\ {"GAIN1", "GAIN2"} \cap X = {}
       /\ {"AGC1", "AGC7"} \cap X = {} /\ "MASTER1" \notin X
       /\ \A f \in Fields : f.reg \notin X => Same(f)
  BY <1>9
<1> HIDE DEF X
<1>16. /\ \A s \in 1..6 : StageHolds(s)'
       /\ GainHolds' /\ ModeHolds' /\ AwakeHolds'
  BY <1>5, <1>6, <1>15, OthersKept DEF E4kInv
<1>17. Settings'
  BY <1>10, <1>11, <1>12, <1>14, <1>16 DEF Settings
<1> QED
  BY <1>5, <1>6, <1>8, <1>17 DEF E4kInv

(* The value e4k_init puts into IF gain stage s.                            *)
InitGainIdx(s) == CHOOSE n \in 0..7 : /\ n + 1 \in DOMAIN if_stage_gain[s]
                                      /\ if_stage_gain[s][n + 1] = InitGains[s]

(* It is the place of the gain in the table.                               *)
LEMMA InitGainIs ==
    ASSUME NEW s \in 1..6
    PROVE  /\ InitGainIdx(s) \in 0..(Size(if_stage_gain_regs[s]) - 1)
           /\ if_stage_gain[s][InitGainIdx(s) + 1] = InitGains[s]
<1>1. s = 1 \/ s = 2 \/ s = 3 \/ s = 4 \/ s = 5 \/ s = 6
  OBVIOUS
<1>2. /\ if_stage_gain[1][2] = 6 /\ if_stage_gain[2][1] = 0 /\ if_stage_gain[3][1] = 0
      /\ if_stage_gain[4][1] = 0 /\ if_stage_gain[5][3] = 9 /\ if_stage_gain[6][3] = 9
  BY DEF if_stage_gain
<1>3. /\ InitGains[1] = 6 /\ InitGains[2] = 0 /\ InitGains[3] = 0
      /\ InitGains[4] = 0 /\ InitGains[5] = 9 /\ InitGains[6] = 9
  BY DEF InitGains
<1> DEFINE k == Size(if_stage_gain_regs[s])
           D == DOMAIN if_stage_gain[s]
           v(n) == if_stage_gain[s][n + 1]
<1>4. D = 1..k /\ k \in Nat /\ k >= 2 /\ (s \in 5..6 => k = 8)
  BY StageTables, SizePositive, FieldSizes DEF Has
<1>5. \E n \in 0..7 : n + 1 \in D /\ v(n) = InitGains[s]
  <2>1. CASE s = 1
    <3>1. 1 + 1 \in D /\ v(1) = InitGains[s]
      BY <2>1, <1>2, <1>3, <1>4
    <3> QED
      BY <3>1
  <2>2. CASE s \in 2..4
    <3>1. 0 + 1 \in D /\ v(0) = InitGains[s]
      BY <2>2, <1>2, <1>3, <1>4
    <3> QED
      BY <3>1
  <2>3. CASE s \in 5..6
    <3>1. 2 + 1 \in D /\ v(2) = InitGains[s]
      BY <2>3, <1>2, <1>3, <1>4
    <3> QED
      BY <3>1
  <2> QED
    BY <2>1, <2>2, <2>3
<1> DEFINE c == InitGainIdx(s)
<1>6. c \in 0..7 /\ c + 1 \in D /\ v(c) = InitGains[s]
  <2> HIDE DEF D
  <2> QED
    BY <1>5 DEF InitGainIdx, D
<1> HIDE DEF c, D, k
<1>7. c \in 0..(k - 1)
  BY <1>4, <1>6
<1> QED
  BY <1>6, <1>7 DEF k, c

(* u is s followed by t.                                                   *)
Joins(u, s, t) == /\ Len(u) = Len(s) + Len(t)
                  /\ \A i \in 1..Len(s) : u[i] = s[i]
                  /\ \A i \in 1..Len(t) : u[Len(s) + i] = t[i]

(* The concatenation of two sequences is.                                  *)
LEMMA Concat ==
    ASSUME NEW S, NEW s \in Seq(S), NEW t \in Seq(S)
    PROVE  s \o t \in Seq(S) /\ Joins(s \o t, s, t)
<1>1. s \o t \in Seq(S) /\ Len(s \o t) = Len(s) + Len(t)
  OBVIOUS
<1>2. \A i \in 1..Len(s) : (s \o t)[i] = s[i]
  OBVIOUS
<1>3. \A i \in 1..Len(t) : (s \o t)[Len(s) + i] = t[i]
  OBVIOUS
<1> QED
  BY <1>1, <1>2, <1>3 DEF Joins

(* The accesses of e4k_init to the IF gains.                               *)
Stages == [s \in 1..6 |-> Mask(if_stage_gain_regs[s], InitGainIdx(s))]

(* The sixteen accesses of e4k_init, one by one.                           *)
LEMMA InitStepsAre ==
    /\ Len(InitSteps) = 16
    /\ InitSteps[1] = Write("MASTER1", 7)
    /\ InitSteps[2] = Mask(AgcMode, 0) /\ InitSteps[3] = Mask(MixAuto, 0)
    /\ InitSteps[4] = Mask(AgcMode, 9) /\ InitSteps[5] = Mask(MixAuto, 1)
    /\ InitSteps[6] = Mask(Agc11Field, 0)
    /\ \A s \in 1..6 : InitSteps[6 + s] = Mask(if_stage_gain_regs[s], InitGainIdx(s))
    /\ InitSteps[13] = FieldWrite(if_filter_fields.MIX, Mix(1900))
    /\ InitSteps[14] = FieldWrite(if_filter_fields.RC, Rc(1000))
    /\ InitSteps[15] = FieldWrite(if_filter_fields.CHAN, Chan(2150))
    /\ InitSteps[16] = Mask(RcBypass, 0)
<1> DEFINE w1 == Write("MASTER1", 7)
           w2 == Mask(AgcMode, 0)
           w3 == Mask(MixAuto, 0)
           w4 == Mask(AgcMode, 9)
           w5 == Mask(MixAuto, 1)
           w6 == Mask(Agc11Field, 0)
           f1 == FieldWrite(if_filter_fields.MIX, Mix(1900))
           f2 == FieldWrite(if_filter_fields.RC, Rc(1000))
           f3 == FieldWrite(if_filter_fields.CHAN, Chan(2150))
           w7 == Mask(RcBypass, 0)
           S == {w1, w2, w3, w4, w5, w6, f1, f2, f3, w7} \cup {Stages[s] : s \in 1..6}
<1>1. InitSteps = << w1, w2, w3 >> \o << w4, w5, w6 >> \o Stages \o << f1, f2, f3 >> \o << w7 >>
  BY DEF InitSteps, ManualSteps, FilterSteps, Mix, Rc, Chan, RcBypass, Agc11Field, Stages, InitGainIdx
<1>2. \A s \in 1..6 : Stages[s] = Mask(if_stage_gain_regs[s], InitGainIdx(s))
  BY DEF Stages
<1>3. Stages \in Seq(S) /\ Len(Stages) = 6
  BY DEF Stages
<1> HIDE DEF w1, w2, w3, w4, w5, w6, f1, f2, f3, w7
<1>4. << w1, w2, w3 >> \in Seq(S) /\ << w4, w5, w6 >> \in Seq(S) /\ << f1, f2, f3 >> \in Seq(S) /\ << w7 >> \in Seq(S)
  OBVIOUS
<1> HIDE DEF S
<1> DEFINE a == << w1, w2, w3 >> \o << w4, w5, w6 >>
           b == a \o Stages
           c == b \o << f1, f2, f3 >>
           d == c \o << w7 >>
<1>5. /\ a \in Seq(S) /\ Len(a) = 6 /\ a[1] = w1 /\ a[2] = w2 /\ a[3] = w3
      /\ a[4] = w4 /\ a[5] = w5 /\ a[6] = w6
  BY <1>4
<1> HIDE DEF a
<1>6. /\ b \in Seq(S) /\ Len(b) = 12 /\ \A i \in 1..6 : b[i] = a[i]
      /\ \A i \in 1..6 : b[6 + i] = Stages[i]
  <2>0. b \in Seq(S) /\ Joins(b, a, Stages)
    BY <1>3, <1>5, Concat
  <2> HIDE DEF b
  <2>1. /\ b \in Seq(S) /\ Len(b) = Len(a) + Len(Stages)
        /\ \A i \in 1..Len(a) : b[i] = a[i]
        /\ \A i \in 1..Len(Stages) : b[Len(a) + i] = Stages[i]
    BY <1>3, <1>5, <2>0 DEF Joins
  <2> QED
    BY <2>1, <1>3, <1>5
<1> HIDE DEF b
<1>7. /\ c \in Seq(S) /\ Len(c) = 15 /\ \A i \in 1..12 : c[i] = b[i]
      /\ c[13] = f1 /\ c[14] = f2 /\ c[15] = f3
  <2> DEFINE t == << f1, f2, f3 >>
  <2>1. t \in Seq(S) /\ Len(t) = 3 /\ t[1] = f1 /\ t[2] = f2 /\ t[3] = f3
    BY <1>4
  <2>2. c = b \o t
    OBVIOUS
  <2>t. b \o t \in Seq(S) /\ Joins(b \o t, b, t)
    BY <2>1, <1>6, Concat
  <2>0. c \in Seq(S) /\ Joins(c, b, t)
    BY <2>2, <2>t
  <2> HIDE DEF t, c
  <2>3. /\ c \in Seq(S) /\ Len(c) = Len(b) + Len(t)
        /\ \A i \in 1..Len(b) : c[i] = b[i]
        /\ \A i \in 1..Len(t) : c[Len(b) + i] = t[i]
    BY <2>1, <2>2, <2>0, <1>6 DEF Joins
  <2>4. 12 + 1 = 13 /\ 12 + 2 = 14 /\ 12 + 3 = 15 /\ 1 \in 1..3 /\ 2 \in 1..3 /\ 3 \in 1..3
    OBVIOUS
  <2>5. \A i \in 1..3 : c[12 + i] = t[i]
    BY <2>1, <2>3, <1>6
  <2> QED
    BY <2>1, <2>3, <2>4, <2>5, <1>6
<1> HIDE DEF c
<1>8. /\ Len(d) = 16 /\ \A i \in 1..15 : d[i] = c[i]
      /\ d[16] = w7
  <2> DEFINE t == << w7 >>
  <2>1. t \in Seq(S) /\ Len(t) = 1 /\ t[1] = w7
    BY <1>4
  <2>2. d = c \o t
    OBVIOUS
  <2>t. Joins(c \o t, c, t)
    BY <2>1, <1>7, Concat
  <2>0. Joins(d, c, t)
    BY <2>2, <2>t
  <2> HIDE DEF t, d
  <2>3. /\ Len(d) = Len(c) + Len(t)
        /\ \A i \in 1..Len(c) : d[i] = c[i]
        /\ \A i \in 1..Len(t) : d[Len(c) + i] = t[i]
    BY <2>1, <2>2, <2>0, <1>7 DEF Joins
  <2>4. \A i \in 1..1 : d[15 + i] = t[i]
    BY <2>1, <2>3, <1>7
  <2>5. 15 + 1 = 16 /\ 1 \in 1..1
    OBVIOUS
  <2> QED
    BY <2>1, <2>3, <2>4, <2>5, <1>7
<1>9. InitSteps = d
  BY <1>1 DEF a, b, c
<1> HIDE DEF d
<1>10. /\ d[1] = w1 /\ d[2] = w2 /\ d[3] = w3 /\ d[4] = w4 /\ d[5] = w5 /\ d[6] = w6
       /\ d[13] = f1 /\ d[14] = f2 /\ d[15] = f3
  BY <1>5, <1>6, <1>7, <1>8
<1>11. \A s \in 1..6 : d[6 + s] = Stages[s]
  BY <1>6, <1>7, <1>8
<1> QED
  BY <1>2, <1>8, <1>9, <1>10, <1>11 DEF w1, w2, w3, w4, w5, w6, f1, f2, f3, w7

(* The fields that e4k_init puts, in the order it does.                    *)
InitField(i) ==
  CASE i = 2 -> AgcMode [] i = 3 -> MixAuto [] i = 4 -> AgcMode [] i = 5 -> MixAuto
    [] i = 6 -> Agc11Field [] i \in 7..12 -> if_stage_gain_regs[i - 6]
    [] i = 13 -> if_filter_fields.MIX [] i = 14 -> if_filter_fields.RC
    [] i = 15 -> if_filter_fields.CHAN [] i = 16 -> RcBypass

(* What each of them is.                                                   *)
LEMMA InitStepFields ==
    /\ AreSteps(InitSteps) /\ Len(InitSteps) = 16
    /\ InitSteps[1].kind = "write" /\ InitSteps[1].f.reg = "MASTER1" /\ InitSteps[1].val = 7
    /\ \A i \in 2..16 : InitSteps[i].f = InitField(i) /\ InitSteps[i].kind # "write"
    /\ InitSteps[4].val = 9 /\ InitSteps[5].val = 1 /\ InitSteps[16].val = 0
    /\ \A s \in 1..6 : InitSteps[6 + s].val = InitGainIdx(s)
    /\ InitSteps[13].val = Mix(1900) /\ InitSteps[14].val = Rc(1000) /\ InitSteps[15].val = Chan(2150)
<1> DEFINE d == InitSteps
<1>1. /\ AgcMode \in Fields /\ MixAuto \in Fields /\ Agc11Field \in Fields
      /\ Size(AgcMode) = 16 /\ Size(MixAuto) = 2 /\ Size(Agc11Field) = 8
      /\ RcBypass \in Fields /\ Size(RcBypass) = 2
      /\ if_filter_fields.MIX \in Fields /\ Size(if_filter_fields.MIX) = 16
      /\ if_filter_fields.RC \in Fields /\ Size(if_filter_fields.RC) = 16
      /\ if_filter_fields.CHAN \in Fields /\ Size(if_filter_fields.CHAN) = 32
  BY KnownFields, FieldSizes DEF Has
<1>2. IsAccess(d[1]) /\ d[1].kind = "write" /\ d[1].f.reg = "MASTER1" /\ d[1].val = 7
  <2>1. "MASTER1" \in Regs /\ 7 \in Byte
    BY DEF Regs, Byte
  <2>2. d[1] = Write("MASTER1", 7)
    BY InitStepsAre
  <2>3. d[1].kind = "write" /\ d[1].f.reg = "MASTER1" /\ d[1].val = 7
    BY <2>2 DEF Write, Field
  <2> QED
    BY <2>1, <2>3 DEF IsAccess
<1> DEFINE Is(i, f, x) == IsAccess(d[i]) /\ d[i].kind # "write" /\ d[i].f = f /\ d[i].val = x
<1>i. /\ d[2] = Mask(AgcMode, 0) /\ d[3] = Mask(MixAuto, 0)
      /\ d[4] = Mask(AgcMode, 9) /\ d[5] = Mask(MixAuto, 1)
      /\ d[6] = Mask(Agc11Field, 0)
      /\ \A s \in 1..6 : d[6 + s] = Mask(if_stage_gain_regs[s], InitGainIdx(s))
      /\ d[13] = FieldWrite(if_filter_fields.MIX, Mix(1900))
      /\ d[14] = FieldWrite(if_filter_fields.RC, Rc(1000))
      /\ d[15] = FieldWrite(if_filter_fields.CHAN, Chan(2150))
      /\ d[16] = Mask(RcBypass, 0)
  BY InitStepsAre
<1>l. Len(d) = 16
  BY InitStepsAre
<1> HIDE DEF d
<1>3. Is(2, AgcMode, 0) /\ Is(3, MixAuto, 0) /\ Is(4, AgcMode, 9) /\ Is(5, MixAuto, 1)
  BY <1>1, <1>i, PutIs DEF IsPut
<1>4. Is(6, Agc11Field, 0) /\ Is(16, RcBypass, 0)
  BY <1>1, <1>i, PutIs DEF IsPut
<1>5. Mix(1900) \in 0..15 /\ Rc(1000) \in 0..15 /\ Chan(2150) \in 0..31
  BY FiltersChosen DEF FilterIs
<1> DEFINE m == Mix(1900)
           r == Rc(1000)
           c == Chan(2150)
<1>6. Is(13, if_filter_fields.MIX, m) /\ Is(14, if_filter_fields.RC, r) /\ Is(15, if_filter_fields.CHAN, c)
  <2>1. d[13] = FieldWrite(if_filter_fields.MIX, m) /\ d[14] = FieldWrite(if_filter_fields.RC, r)
        /\ d[15] = FieldWrite(if_filter_fields.CHAN, c)
    BY <1>i
  <2> HIDE DEF m, r, c
  <2> QED
    BY <1>1, <1>5, <2>1, PutIs DEF IsPut, m, r, c
<1>7. \A s \in 1..6 : Is(6 + s, if_stage_gain_regs[s], InitGainIdx(s))
  <2> SUFFICES ASSUME NEW s \in 1..6 PROVE Is(6 + s, if_stage_gain_regs[s], InitGainIdx(s))
    OBVIOUS
  <2>1. InitGainIdx(s) \in 0..(Size(if_stage_gain_regs[s]) - 1) /\ if_stage_gain_regs[s] \in Fields
    BY InitGainIs, KnownFields
  <2> QED
    BY <2>1, <1>i, PutIs DEF IsPut
<1>8. \A i \in 7..12 : i - 6 \in 1..6 /\ 6 + (i - 6) = i
  OBVIOUS
<1>9. \A i \in 7..12 : Is(i, if_stage_gain_regs[i - 6], InitGainIdx(i - 6))
  <2> SUFFICES ASSUME NEW i \in 7..12 PROVE Is(i, if_stage_gain_regs[i - 6], InitGainIdx(i - 6))
    OBVIOUS
  <2> DEFINE s == i - 6
  <2>1. s \in 1..6 /\ 6 + s = i
    BY <1>8
  <2> HIDE DEF s
  <2>2. Is(6 + s, if_stage_gain_regs[s], InitGainIdx(s))
    BY <1>7, <2>1
  <2> QED
    BY <2>1, <2>2 DEF s
<1>10. \A i \in 1..16 : i = 1 \/ i = 2 \/ i = 3 \/ i = 4 \/ i = 5 \/ i = 6 \/ i \in 7..12
                        \/ i = 13 \/ i = 14 \/ i = 15 \/ i = 16
  OBVIOUS
<1>11. \A i \in 1..16 : IsAccess(d[i])
  BY <1>2, <1>3, <1>4, <1>6, <1>9, <1>10
<1>12. \A i \in 2..16 : d[i].kind # "write"
  BY <1>3, <1>4, <1>6, <1>9, <1>10
<1>13. \A i \in 2..16 : d[i].f = InitField(i)
  <2>1. /\ InitField(2) = AgcMode /\ InitField(3) = MixAuto /\ InitField(4) = AgcMode
        /\ InitField(5) = MixAuto /\ InitField(6) = Agc11Field /\ InitField(16) = RcBypass
        /\ InitField(13) = if_filter_fields.MIX /\ InitField(14) = if_filter_fields.RC
        /\ InitField(15) = if_filter_fields.CHAN
        /\ \A i \in 7..12 : InitField(i) = if_stage_gain_regs[i - 6]
    BY DEF InitField
  <2> QED
    BY <2>1, <1>3, <1>4, <1>6, <1>9, <1>10
<1>14. AreSteps(d)
  BY <1>l, <1>11 DEF AreSteps
<1>15. \A s \in 1..6 : d[6 + s].val = InitGainIdx(s)
  BY <1>7
<1>16. d[4].val = 9 /\ d[5].val = 1 /\ d[16].val = 0
  BY <1>3, <1>4
<1>17. d[13].val = Mix(1900) /\ d[14].val = Rc(1000) /\ d[15].val = Chan(2150)
  BY <1>6
<1> QED
  BY <1>2, <1>l, <1>12, <1>13, <1>14, <1>15, <1>16, <1>17 DEF d

(* From the fourth on they are all different.                              *)
LEMMA InitFieldsDiffer ==
    \A i \in 4..16, j \in 4..16 : i < j => InitField(i) # InitField(j)
<1>1. /\ InitField(4).reg = "AGC1" /\ InitField(5).reg = "AGC7" /\ InitField(6).reg = "AGC11"
      /\ InitField(13).reg = "FILT2" /\ InitField(14).reg = "FILT2"
      /\ InitField(15).reg = "FILT3" /\ InitField(16).reg = "FILT3"
  BY FieldSizes DEF Has, InitField
<1>2. \A i \in 7..12 : InitField(i).reg \in {"GAIN3", "GAIN4"}
  <2>1. \A i \in 7..12 : InitField(i) = if_stage_gain_regs[i - 6] /\ i - 6 \in 1..6
    BY DEF InitField
  <2> QED
    BY <2>1, StageRegs
<1>3. \A i, j \in 7..12 : i < j => InitField(i) # InitField(j)
  <2>1. \A i \in 7..12 : InitField(i) = if_stage_gain_regs[i - 6] /\ i - 6 \in 1..6
    BY DEF InitField
  <2>2. \A i, j \in 7..12 : i < j => i - 6 # j - 6
    OBVIOUS
  <2> QED
    BY <2>1, <2>2, StagesDiffer
<1>4. InitField(13) # InitField(14)
  <2>1. InitField(13) = if_filter_fields.MIX /\ InitField(14) = if_filter_fields.RC
    BY DEF InitField
  <2> QED
    BY <2>1, FiltersDiffer
<1>5. InitField(15) # InitField(16)
  <2>1. Size(InitField(15)) = 32 /\ Size(InitField(16)) = 2
    BY FieldSizes DEF Has, InitField
  <2> QED
    BY <2>1
<1>6. \A i \in 4..16 : i = 4 \/ i = 5 \/ i = 6 \/ i \in 7..12 \/ i = 13 \/ i = 14 \/ i = 15 \/ i = 16
  OBVIOUS
<1> SUFFICES ASSUME NEW i \in 4..16, NEW j \in 4..16, i < j PROVE InitField(i) # InitField(j)
  OBVIOUS
<1>7. CASE i \in 7..12 /\ j \in 7..12
  BY <1>3, <1>7
<1>8. CASE i \in 7..12 /\ j \notin 7..12
  <2>1. j = 13 \/ j = 14 \/ j = 15 \/ j = 16
    BY <1>6, <1>8
  <2> QED
    BY <1>1, <1>2, <1>8, <2>1
<1>9. CASE i \notin 7..12 /\ j \in 7..12
  <2>1. i = 4 \/ i = 5 \/ i = 6
    BY <1>6, <1>9
  <2> QED
    BY <1>1, <1>2, <1>9, <2>1
<1>10. CASE i \notin 7..12 /\ j \notin 7..12
  BY <1>1, <1>4, <1>5, <1>6, <1>10
<1> QED
  BY <1>7, <1>8, <1>9, <1>10

(* A field of a register that access i writes as a whole.                  *)
LEMMA RunFills ==
    ASSUME NEW start \in Memory, NEW steps, AreSteps(steps), NEW bad,
           NEW f \in Fields, f.reg \notin Damage(steps, bad),
           NEW i \in 1..Len(steps), steps[i].kind = "write", steps[i].f.reg = f.reg,
           \A n \in (i + 1)..Len(steps) : Spares(steps[n], f)
    PROVE  FieldOf(Run(start, steps, bad).regs[f.reg], f) = FieldOf(steps[i].val, f)
<1>1. PICK g : Trace(g, start, steps, bad) /\ Run(start, steps, bad).regs = g[Len(steps)]
  BY RunIsTrace DEF AreSteps
<1>2. IsAccess(steps[i]) /\ i \in 0..Len(steps) /\ i - 1 \in 0..Len(steps)
  BY DEF AreSteps, IsAccess
<1>3. FaultAt(bad, i) = "none"
  BY DamageMissed DEF FaultAt, AreSteps
<1>4. g[i] = Access(g[i - 1], steps[i], "none").regs /\ g[i - 1] \in Memory
  BY <1>1, <1>2, <1>3 DEF Trace
<1>5. g[i][f.reg] = steps[i].val
  BY <1>2, <1>4, AccessWrites
<1>6. FieldOf(g[Len(steps)][f.reg], f) = FieldOf(g[i][f.reg], f)
  BY <1>1, <1>2, TraceKeeps
<1> QED
  BY <1>1, <1>5, <1>6

(* The wish a tuner starts with is one.                                    *)
LEMMA FirstWants ==
    ASSUME NEW stage \in [1..6 -> Int], NEW bw \in [1..3 -> Int], NEW fr \in Int, NEW ga \in Int
    PROVE  [freq |-> fr, clean |-> TRUE, stage |-> stage, bw |-> bw,
            gain |-> ga, manual |-> FALSE, awake |-> TRUE] \in Wants
<1>1. TRUE \in BOOLEAN /\ FALSE \in BOOLEAN
  OBVIOUS
<1> QED
  BY <1>1, Zenon DEF Wants

(* What e4k_init's accesses leave in the fields of the settings.           *)
LEMMA InitRuns ==
    ASSUME NEW start \in Memory
    PROVE  LET r == Run(start, InitSteps, [n |-> 0, fault |-> "none"]).regs
           IN  /\ r \in Memory
               /\ \A i \in 4..16 : FieldOf(r[InitField(i).reg], InitField(i)) = InitSteps[i].val
               /\ FieldOf(r["MASTER1"], AwakeField) = 1
<1> DEFINE bad == [n |-> 0, fault |-> "none"]
           d == InitSteps
           r == Run(start, d, bad).regs
<1>1. /\ AreSteps(d) /\ Len(d) = 16
      /\ \A i \in 2..16 : d[i].f = InitField(i) /\ d[i].kind # "write"
  BY InitStepFields
<1>2. \A reg : reg \notin Damage(d, bad)
  BY DEF Damage
<1>m. d[1].kind = "write" /\ d[1].f.reg = "MASTER1" /\ d[1].val = 7
  BY InitStepFields
<1> HIDE DEF d, bad
<1>3. r \in Memory
  BY <1>1, RunType
<1>4. ASSUME NEW i \in 4..16
      PROVE  FieldOf(r[InitField(i).reg], InitField(i)) = d[i].val
  <2>1. i \in 1..Len(d) /\ d[i].kind # "write" /\ d[i].f = InitField(i)
    BY <1>1
  <2>2. ASSUME NEW n \in (i + 1)..Len(d) PROVE Spares(d[n], d[i].f)
    <3>1. n \in 4..16 /\ i < n /\ n \in 2..16
      BY <1>1
    <3>2. InitField(i) # InitField(n)
      BY <3>1, InitFieldsDiffer
    <3>3. d[n].f = InitField(n) /\ d[n].kind # "write"
      BY <3>1, <1>1
    <3> QED
      BY <2>1, <3>2, <3>3 DEF Spares
  <2>3. FieldOf(r[d[i].f.reg], d[i].f) = d[i].val
    BY <1>1, <1>2, <2>1, <2>2, RunSets
  <2> QED
    BY <2>1, <2>3
<1>5. FieldOf(r["MASTER1"], AwakeField) = 1
  <2> DEFINE i == 1
  <2>2. i \in 1..Len(d)
    BY <1>1
  <2>3. AwakeField \in Fields /\ AwakeField.reg = "MASTER1"
    BY KnownFields, FieldSizes DEF Has
  <2>4. \A n \in (i + 1)..Len(d) : Spares(d[n], AwakeField)
    <3> SUFFICES ASSUME NEW n \in 2..16 PROVE Spares(d[n], AwakeField)
      BY <1>1
    <3>1. InitField(n).reg # "MASTER1"
      <4>1. n \in 4..16 \/ n = 2 \/ n = 3
        OBVIOUS
      <4>2. /\ InitField(2) = AgcMode /\ InitField(3) = MixAuto /\ InitField(4) = AgcMode
            /\ InitField(5) = MixAuto /\ InitField(6) = Agc11Field /\ InitField(16) = RcBypass
            /\ InitField(13) = if_filter_fields.MIX /\ InitField(14) = if_filter_fields.RC
            /\ InitField(15) = if_filter_fields.CHAN
            /\ \A k \in 7..12 : InitField(k) = if_stage_gain_regs[k - 6] /\ k - 6 \in 1..6
        BY DEF InitField
      <4>3. \A k \in 7..12 : InitField(k).reg \in {"GAIN3", "GAIN4"}
        BY <4>2, StageRegs
      <4>4. n = 2 \/ n = 3 \/ n = 4 \/ n = 5 \/ n = 6 \/ n \in 7..12
            \/ n = 13 \/ n = 14 \/ n = 15 \/ n = 16
        OBVIOUS
      <4> QED
        BY <4>2, <4>3, <4>4, FieldSizes DEF Has
    <3>2. d[n].f = InitField(n) /\ d[n].kind # "write"
      BY <1>1
    <3> QED
      BY <3>1, <3>2, <2>3 DEF Spares
  <2>5. d[i].kind = "write" /\ d[i].f.reg = AwakeField.reg /\ d[i].val = 7
    BY <1>m, <2>3
  <2>6. AwakeField.reg \notin Damage(d, bad)
    BY <1>2
  <2> HIDE DEF i
  <2>7. FieldOf(r[AwakeField.reg], AwakeField) = FieldOf(d[i].val, AwakeField)
    BY <1>1, <2>2, <2>3, <2>4, <2>5, <2>6, RunFills
  <2>10. FieldOf(7, AwakeField) = 1
    <3>1. AwakeField.shift = 1 /\ AwakeField.width = 1
      BY DEF AwakeField, Field
    <3>2. 2^AwakeField.shift = 2 /\ 2^AwakeField.width = 2
      BY <3>1
    <3> QED
      BY <3>2 DEF FieldOf
  <2> QED
    BY <2>3, <2>5, <2>7, <2>10
<1> QED
  BY <1>3, <1>4, <1>5 DEF d, bad

(* e4k_init establishes the invariant.                                     *)
LEMMA InitSettings == Init => E4kInv
<1> SUFFICES ASSUME Init PROVE E4kInv
  OBVIOUS
<1> DEFINE start == [r \in Regs |-> 0]
           w == [freq |-> Unknown, clean |-> TRUE, stage |-> InitGains, bw |-> << 1900, 1000, 2150 >>,
                 gain |-> Unknown, manual |-> FALSE, awake |-> TRUE]
<1>1. start \in Memory
  BY DEF Memory, Byte
<1>2. chip = Run(start, InitSteps, [n |-> 0, fault |-> "none"]).regs /\ band = 0 /\ want = w
  BY DEF Init
<1>3. /\ chip \in Memory
      /\ \A i \in 4..16 : FieldOf(chip[InitField(i).reg], InitField(i)) = InitSteps[i].val
      /\ FieldOf(chip["MASTER1"], AwakeField) = 1
  <2> HIDE DEF start
  <2> QED
    BY <1>1, <1>2, InitRuns
<1>4. /\ want.stage = InitGains /\ want.bw[1] = 1900 /\ want.bw[2] = 1000 /\ want.bw[3] = 2150
      /\ want.gain = Unknown /\ (want.manual <=> FALSE) /\ (want.awake <=> TRUE)
  BY <1>2
<1>5. want \in Wants
  <2>1. InitGains \in [1..6 -> Int] /\ << 1900, 1000, 2150 >> \in [1..3 -> Int] /\ Unknown \in Int
    BY DEF InitGains, Unknown
  <2> QED
    BY <1>2, <2>1, FirstWants
<1>6. \A s \in 1..6 : StageHolds(s)
  <2> SUFFICES ASSUME NEW s \in 1..6 PROVE StageHolds(s)
    OBVIOUS
  <2> DEFINE i == 6 + s
  <2>1. i \in 4..16 /\ InitField(i) = if_stage_gain_regs[s] /\ InitSteps[i].val = InitGainIdx(s)
    <3>1. i \in 7..12 /\ i - 6 = s
      OBVIOUS
    <3>2. InitField(i) = if_stage_gain_regs[i - 6]
      BY <3>1 DEF InitField
    <3> QED
      BY <3>1, <3>2, InitStepFields
  <2> HIDE DEF i
  <2> QED
    <3>1. FieldOf(chip[if_stage_gain_regs[s].reg], if_stage_gain_regs[s]) = InitGainIdx(s)
      BY <1>3, <2>1
    <3>2. if_stage_gain[s][InitGainIdx(s) + 1] = want.stage[s]
      BY <1>4, InitGainIs
    <3> QED
      BY <3>1, <3>2 DEF StageHolds
<1>7. /\ InitField(4) = AgcMode /\ InitField(5) = MixAuto /\ InitField(16) = RcBypass
      /\ InitField(13) = if_filter_fields.MIX /\ InitField(14) = if_filter_fields.RC
      /\ InitField(15) = if_filter_fields.CHAN
  BY DEF InitField
<1>8. /\ FieldOf(chip[AgcMode.reg], AgcMode) = 9 /\ FieldOf(chip[MixAuto.reg], MixAuto) = 1
      /\ FieldOf(chip[RcBypass.reg], RcBypass) = 0
      /\ FieldOf(chip[if_filter_fields.MIX.reg], if_filter_fields.MIX) = Mix(1900)
      /\ FieldOf(chip[if_filter_fields.RC.reg], if_filter_fields.RC) = Rc(1000)
      /\ FieldOf(chip[if_filter_fields.CHAN.reg], if_filter_fields.CHAN) = Chan(2150)
  <2>1. /\ 4 \in 4..16 /\ 5 \in 4..16 /\ 16 \in 4..16 /\ 13 \in 4..16 /\ 14 \in 4..16 /\ 15 \in 4..16
    OBVIOUS
  <2> QED
    BY <1>3, <1>7, <2>1, InitStepFields
<1>9. AgcMode.reg = "AGC1" /\ MixAuto.reg = "AGC7" /\ RcBypass.reg = "FILT3"
  BY FieldSizes DEF Has
<1>10. ModeHolds /\ AwakeHolds /\ BypassHolds
  BY <1>3, <1>4, <1>8, <1>9 DEF ModeHolds, AwakeHolds, BypassHolds
<1>11. GainHolds
  BY <1>4 DEF GainHolds
<1>12. FilterHolds(1, "MIX") /\ FilterHolds(2, "RC") /\ FilterHolds(3, "CHAN")
  BY <1>4, <1>8, FiltersChosen DEF FilterHolds, FilterIs
<1>13. Settings
  BY <1>6, <1>10, <1>11, <1>12 DEF Settings
<1> QED
  BY <1>2, <1>3, <1>5, <1>13 DEF E4kInv

(* Every call keeps it, if no gain above 42 dB is asked for.               *)
LEMMA E4kCallsKeep ==
    ASSUME \A g \in Gains : g <= 420, E4kInv, [Next]_vars
    PROVE  E4kInv'
<1>0. E4kAssumption
  BY E4kAssumption
<1>1. ASSUME NEW f \in Freqs, TuneFreq(f) PROVE E4kInv'
  BY <1>0, <1>1, TuneKeepsSettings
<1>2. ASSUME NEW g \in IfGains, IfGainSet(g[1], g[2]) PROVE E4kInv'
  <2>1. g[1] \in 1..6 /\ g[2] \in Int
    BY <1>0 DEF E4kAssumption
  <2> QED
    BY <1>2, <2>1, IfGainKeepsSettings
<1>3. ASSUME NEW bw \in Bandwidths, SetBw(bw) PROVE E4kInv'
  <2>1. bw \in Nat
    BY <1>0 DEF E4kAssumption
  <2> QED
    BY <1>3, <2>1, SetBwKeepsSettings
<1>4. ASSUME NEW g \in Gains, SetGain(g) PROVE E4kInv'
  <2>1. g \in Int /\ g <= 420
    BY <1>0 DEF E4kAssumption
  <2> QED
    BY <1>4, <2>1, GainKeepsSettings
<1>5. ASSUME NEW on \in BOOLEAN, EnableManualGain(on) PROVE E4kInv'
  BY <1>5, ManualKeepsSettings
<1>6. ASSUME NEW on \in BOOLEAN, Standby(on) PROVE E4kInv'
  BY <1>6, StandbyKeepsSettings
<1>7. CASE UNCHANGED vars
  BY <1>7, NothingKept DEF vars
<1> QED
  BY <1>1, <1>2, <1>3, <1>4, <1>5, <1>6, <1>7 DEF Next

(* The synthesizer's settings for a frequency that its integer divider      *)
(* reaches without being cut to 8 bits make an oscillator frequency at most *)
(* 1 kHz below.                                                             *)
Reaches == Fosc >= 18750 /\ \A f \in Freqs : f < 128 * Fosc

(* The divider of the row stays below 256.                                 *)
LEMMA RowInReach ==
    ASSUME E4kAssumption, Fosc >= 18750, NEW f \in Nat, f < 128 * Fosc
    PROVE  f * PllRow(f).r < 256 * Fosc
<1> DEFINE row == PllRow(f)
           o == Fosc
           top == 4800000
<1>1. o \in Nat /\ o >= 18750
  BY DEF E4kAssumption
<1>2. top <= 256 * o
  BY <1>1, SMT
<1>3. \A n \in 1..10 : /\ pll_vars[n][3] \in Nat /\ pll_vars[n][1] \in Nat
                       /\ pll_vars[n][1] * pll_vars[n][3] <= top
                       /\ pll_vars[n][3] > 0
  <2>1. \A n \in 1..10 : n = 1 \/ n = 2 \/ n = 3 \/ n = 4 \/ n = 5 \/ n = 6 \/ n = 7 \/ n = 8
                         \/ n = 9 \/ n = 10
    OBVIOUS
  <2>2. /\ pll_vars[1][1] = 72400 /\ pll_vars[1][3] = 48 /\ pll_vars[2][1] = 81200 /\ pll_vars[2][3] = 40
        /\ pll_vars[3][1] = 108300 /\ pll_vars[3][3] = 32 /\ pll_vars[4][1] = 162500 /\ pll_vars[4][3] = 24
        /\ pll_vars[5][1] = 216600 /\ pll_vars[5][3] = 16 /\ pll_vars[6][1] = 325000 /\ pll_vars[6][3] = 12
        /\ pll_vars[7][1] = 350000 /\ pll_vars[7][3] = 8 /\ pll_vars[8][1] = 432000 /\ pll_vars[8][3] = 8
        /\ pll_vars[9][1] = 667000 /\ pll_vars[9][3] = 6 /\ pll_vars[10][1] = 1200000 /\ pll_vars[10][3] = 4
    BY SMT DEF pll_vars
  <2> QED
    BY <2>1, <2>2, SMT
<1>4. RowFor(f, row)
  BY PllRowIsRow
<1>5. f < 128 * o
  OBVIOUS
<1> HIDE DEF row, o, top
<1>6. CASE row.r = 2
  BY <1>1, <1>5, <1>6, SMT DEF o, row
<1>7. ASSUME NEW n \in 1..10, f < pll_vars[n][1], row.r = pll_vars[n][3]
      PROVE  f * PllRow(f).r < 256 * Fosc
  <2> DEFINE a == pll_vars[n][1]
             r == pll_vars[n][3]
  <2>1. a \in Nat /\ r \in Nat /\ r > 0 /\ f < a /\ a * r <= top
    BY <1>3, <1>7
  <2> HIDE DEF a, r
  <2>2. f * r < a * r
    BY <2>1, SMT
  <2>3. top \in Nat /\ 256 * o \in Nat
    BY <1>1, SMT DEF top
  <2>4. f * r < 256 * o
    BY <2>1, <2>2, <2>3, <1>2, SMT
  <2> QED
    BY <2>4, <1>7 DEF r, o, row
<1> QED
  BY <1>4, <1>6, <1>7 DEF RowFor

(* The same with numbers only: what the two divisions of a frequency fr by  *)
(* the crystal o give is put together again, short of at most 1.            *)
LEMMA TurnsBack ==
    ASSUME NEW o \in Nat, o > 0, o < 65536, NEW m \in Nat, m < o
    PROVE  LET x == ((m * 65536) \div o) % 65536
           IN  x \in Nat /\ ((o * x) \div 65536 = m \/ (o * x) \div 65536 + 1 = m)
<1> DEFINE k == 65536
           y == (m * k) \div o
           d == (m * k) % o
           x == y % k
<1>0. k \in Nat /\ k > 0 /\ o < k
  BY SMT
<1> HIDE DEF k
<1> DEFINE mk == m * k
<1>1. mk \in Nat
  BY <1>0
<1>2. mk < o * k
  BY <1>0, SMT
<1> HIDE DEF mk
<1> DEFINE q == mk \div o
           e == mk % o
<1>3. q \in Nat /\ e \in Nat /\ e < o /\ mk = o * q + e
  <2>1. o \in Nat \ {0}
    OBVIOUS
  <2> QED
    BY <2>1, <1>1, QuotientNat, DivModDef
<1> HIDE DEF q, e
<1>4. q < k
  <2> SUFFICES ASSUME q >= k PROVE FALSE
    BY <1>0, <1>3
  <2>1. o * q >= o * k
    BY <1>0, <1>3, SMT
  <2> QED
    BY <2>1, <1>0, <1>2, <1>3, SMT
<1>5. q % k = q
  <2>1. q = k * 0 + q /\ k \in Nat \ {0} /\ q \in 0..(k - 1)
    BY <1>0, <1>3, <1>4
  <2> DEFINE z == 0
  <2>2. q = k * z + q /\ z \in Nat
    BY <2>1
  <2> HIDE DEF z
  <2> QED
    BY <2>1, <2>2, <1>3, DivModUnique
<1>6. x = q
  BY <1>5 DEF mk, q
<1> DEFINE p == o * q
           w == p \div k
           v == p % k
<1>7. p \in Nat /\ p <= m * k /\ p + o > m * k
  BY <1>1, <1>3, SMT DEF mk
<1> HIDE DEF p
<1>8. w \in Nat /\ v \in Nat /\ v < k /\ p = k * w + v
  <2>1. k \in Nat \ {0}
    BY <1>0
  <2> QED
    BY <2>1, <1>0, <1>7, QuotientNat, DivModDef
<1> HIDE DEF w, v
<1>9. w <= m
  <2> SUFFICES ASSUME w >= m + 1 PROVE FALSE
    BY <1>8
  <2>1. k * w >= k * (m + 1)
    BY <1>0, <1>8, SMT
  <2> QED
    BY <2>1, <1>0, <1>7, <1>8, SMT
<1>10. w + 1 >= m
  <2> SUFFICES ASSUME w + 2 <= m PROVE FALSE
    BY <1>8
  <2>1. k * (w + 2) <= k * m
    BY <1>0, <1>8, SMT
  <2> QED
    BY <2>1, <1>0, <1>7, <1>8, SMT
<1>11. w = m \/ w + 1 = m
  BY <1>8, <1>9, <1>10
<1>12. (o * q) \div k = w
  BY DEF w, p
<1> QED
  BY <1>3, <1>6, <1>11, <1>12 DEF k

(* Dividing a multiple of r, or one less.                                  *)
LEMMA JustBelow ==
    ASSUME NEW f \in Nat, NEW r \in Nat, r >= 2, NEW v \in Nat, v = f * r \/ v + 1 = f * r
    PROVE  v \div r \in Nat /\ (v \div r = f \/ v \div r + 1 = f)
<1>0. r \in Nat \ {0}
  OBVIOUS
<1>1. CASE v = f * r
  <2> DEFINE z == 0
  <2>1. v = r * f + z /\ z \in 0..(r - 1)
    BY <1>1
  <2> HIDE DEF z
  <2>2. v \div r = f
    BY <1>0, <2>1, DivModUnique
  <2> QED
    BY <2>2
<1>2. CASE v + 1 = f * r
  <2>0. f # 0
    BY <1>2
  <2> DEFINE g == f - 1
             z == r - 1
  <2>1. g \in Nat /\ z \in 0..(r - 1) /\ g + 1 = f
    BY <2>0
  <2>2. v = r * g + z
    BY <1>2, <2>1, SMT
  <2> HIDE DEF g, z
  <2>3. v \div r = g
    BY <1>0, <2>1, <2>2, DivModUnique
  <2> QED
    BY <2>1, <2>3
<1> QED
  BY <1>1, <1>2

(* The oscillator that e4k_compute_pll_params finds for a frequency other  *)
(* than 0 (tuner_e4k.c:509-529).                                           *)
LEMMA FloIsClose ==
    ASSUME E4kAssumption, Fosc >= 18750, NEW f \in Nat \ {0}, f < 128 * Fosc
    PROVE  LET p == e4k_compute_pll_params(f)
           IN  /\ p.flo = (Fosc * p.z + (Fosc * p.x) \div 65536) \div PllRow(f).r
               /\ p.flo \in {f - 1, f}
<1> DEFINE row == PllRow(f)
           r == row.r
           o == Fosc
           fr == f * r
           q == fr \div o
           m == fr % o
           x == ((m * 65536) \div o) % 65536
           y == (o * x) \div 65536
           z == q % 256
           v == o * z + y
           p == e4k_compute_pll_params(f)
<1>0. /\ p.z = z /\ p.x = x
      /\ p.flo = IF z = 0 /\ x = 0 THEN EINVAL ELSE v \div r
      /\ v = Fosc * z + (Fosc * x) \div 65536 /\ r = PllRow(f).r
  BY DEF e4k_compute_pll_params, compute_flo
<1> HIDE DEF p
<1>1. o \in Nat /\ o > 0 /\ o < 65536
  <2>1. Fosc \in 16000..30000
    BY DEF E4kAssumption
  <2> QED
    BY <2>1, SMT
<1>2. r \in Nat /\ r >= 2
  BY PllRowType DEF PllRs
<1>3. fr < 256 * o
  BY RowInReach
<1> HIDE DEF row, r, o
<1>4. fr \in Nat
  BY <1>2
<1> HIDE DEF fr
<1>5. q \in Nat /\ m \in Nat /\ m < o /\ fr = o * q + m
  <2>1. o \in Nat \ {0}
    BY <1>1
  <2> QED
    BY <2>1, <1>1, <1>4, QuotientNat, DivModDef
<1> HIDE DEF q, m
<1>6. q < 256
  <2> SUFFICES ASSUME q >= 256 PROVE FALSE
    BY <1>5
  <2>1. o * q >= o * 256
    BY <1>1, <1>5, SMT
  <2> QED
    BY <2>1, <1>1, <1>3, <1>4, <1>5, SMT
<1>7. z = q
  BY <1>5, <1>6
<1> HIDE DEF z
<1>8. x \in Nat /\ (y = m \/ y + 1 = m)
  BY <1>1, <1>5, TurnsBack
<1> HIDE DEF x
<1>9. y \in Nat
  <2> DEFINE ox == o * x
  <2>1. ox \in Nat
    BY <1>1, <1>8
  <2> HIDE DEF ox
  <2>2. ox \div 65536 \in Nat
    BY <2>1, SMT
  <2> QED
    BY <2>2 DEF ox
<1> HIDE DEF y
<1> DEFINE oq == o * q
<1>10. oq \in Nat /\ v = oq + y
  BY <1>1, <1>5, <1>7
<1> HIDE DEF oq, v
<1>11. v \in Nat /\ (v = fr \/ v + 1 = fr)
  BY <1>5, <1>8, <1>9, <1>10 DEF oq
<1>12. v \div r \in Nat /\ (v \div r = f \/ v \div r + 1 = f)
  BY <1>2, <1>11, JustBelow DEF fr
<1>13. ~(z = 0 /\ x = 0)
  <2> SUFFICES ASSUME z = 0, x = 0 PROVE FALSE
    OBVIOUS
  <2>1. o * 0 = 0 /\ 0 \div 65536 = 0
    BY <1>1, SMT
  <2>2. v = 0
    BY <2>1 DEF v, oq, y, x
  <2>3. fr >= 2
    BY <1>2 DEF fr
  <2> QED
    BY <1>4, <1>11, <2>2, <2>3
<1>14. p.flo = v \div r
  BY <1>0, <1>13
<1>15. p.flo \in {f - 1, f}
  BY <1>12, <1>14
<1> QED
  BY <1>0, <1>14, <1>15 DEF p

(* What a tuning to f that met no fault leaves in the synthesizer.         *)
SynthRegs == {"SYNTH7", "SYNTH3", "SYNTH4", "SYNTH5", "SYNTH1", "FILT1"}

(* The registers of the synthesizer, of the band and of the RF filter are  *)
(* those of the settings p.                                                *)
SynthIs(p) ==
  /\ chip["SYNTH7"] = p.r_idx /\ chip["SYNTH3"] = p.z
  /\ chip["SYNTH4"] = p.x % 256 /\ chip["SYNTH5"] = p.x \div 256
  /\ FieldOf(chip["SYNTH1"], BandField) = BandFor(p.flo)
  /\ FieldOf(chip["FILT1"], RfFilter) = choose_rf_filter(BandFor(p.flo), p.flo)

(* They are those for f; with SynthInv, for the frequency that was tuned.  *)
TunedTo(f) == f \in Freqs /\ SynthIs(e4k_compute_pll_params(f))

SynthInv == want.clean /\ want.freq # Unknown => TunedTo(want.freq)

(* A step that keeps these registers and the wish keeps the tuning.        *)
LEMMA SynthKept ==
    ASSUME SynthInv, want'.freq = want.freq, want'.clean <=> want.clean,
           \A r \in SynthRegs : chip'[r] = chip[r]
    PROVE  SynthInv'
<1> SUFFICES ASSUME want.clean, want.freq # Unknown PROVE TunedTo(want.freq)'
  BY DEF SynthInv
<1> DEFINE f == want.freq
<1>1. TunedTo(f)
  BY DEF SynthInv
<1>2. /\ chip'["SYNTH7"] = chip["SYNTH7"] /\ chip'["SYNTH3"] = chip["SYNTH3"]
      /\ chip'["SYNTH4"] = chip["SYNTH4"] /\ chip'["SYNTH5"] = chip["SYNTH5"]
      /\ chip'["SYNTH1"] = chip["SYNTH1"] /\ chip'["FILT1"] = chip["FILT1"]
  BY DEF SynthRegs
<1>3. want'.freq = f
  OBVIOUS
<1> HIDE DEF f
<1> QED
  BY <1>1, <1>2, <1>3, Zenon DEF TunedTo, SynthIs

(* The fields and registers that accesses without a fault set.             *)
LEMMA CleanSets ==
    ASSUME NEW steps, NEW bad, Ran(steps, bad), bad.n = 0, NEW i \in 1..Len(steps),
           steps[i].kind # "write", \A n \in (i + 1)..Len(steps) : Spares(steps[n], steps[i].f)
    PROVE  FieldOf(chip'[steps[i].f.reg], steps[i].f) = steps[i].val
<1>1. steps[i].f.reg \notin Damage(steps, bad)
  BY DEF Damage
<1> QED
  BY <1>1, RunSets DEF Ran

(* The same for a register.                                                *)
LEMMA CleanWrites ==
    ASSUME NEW steps, NEW bad, Ran(steps, bad), bad.n = 0, NEW i \in 1..Len(steps),
           steps[i].kind = "write", \A n \in (i + 1)..Len(steps) : steps[n].f.reg # steps[i].f.reg
    PROVE  chip'[steps[i].f.reg] = steps[i].val
<1>1. steps[i].f.reg \notin Damage(steps, bad)
  BY DEF Damage
<1> QED
  BY <1>1, RunWrites DEF Ran

(* A clean tuning.                                                         *)
LEMMA TuneSets ==
    ASSUME NEW p, TuneType(p), NEW bd \in 0..3, bd = BandFor(p.flo), NEW bad, bad.n = 0,
           Ran(TuneSteps(p, bd), bad)
    PROVE  SynthIs(p)'
<1> DEFINE s == TuneSteps(p, bd)
<1>1. /\ AreSteps(s) /\ Len(s) = 8
      /\ s[1] = Write("SYNTH7", p.r_idx) /\ s[2] = Write("SYNTH3", p.z)
      /\ s[3] = Write("SYNTH4", p.x % 256) /\ s[4] = Write("SYNTH5", p.x \div 256)
      /\ s[5].f.reg = "BIAS" /\ s[5].kind = "write"
      /\ s[6] = Mask(BandField, 0) /\ s[7] = Mask(BandField, BandFor(p.flo))
      /\ s[8] = Mask(RfFilter, choose_rf_filter(bd, p.flo))
  BY TuneStepsAre
<1>b. BandField.reg = "SYNTH1" /\ RfFilter.reg = "FILT1" /\ BandField # RfFilter
  BY FieldSizes DEF Has
<1>r. Ran(s, bad)
  OBVIOUS
<1> HIDE DEF s
<1>2. /\ s[1].f.reg = "SYNTH7" /\ s[1].kind = "write" /\ s[1].val = p.r_idx
      /\ s[2].f.reg = "SYNTH3" /\ s[2].kind = "write" /\ s[2].val = p.z
      /\ s[3].f.reg = "SYNTH4" /\ s[3].kind = "write" /\ s[3].val = p.x % 256
      /\ s[4].f.reg = "SYNTH5" /\ s[4].kind = "write" /\ s[4].val = p.x \div 256
  <2>1. \A r, x : Write(r, x).val = x
    BY DEF Write
  <2> QED
    BY <1>1, <2>1, AccessParts
<1>3. /\ s[6].f = BandField /\ s[7].f = BandField /\ s[8].f = RfFilter
      /\ s[6].kind = "mask" /\ s[7].kind = "mask" /\ s[8].kind = "mask"
      /\ s[7].val = BandFor(p.flo) /\ s[8].val = choose_rf_filter(bd, p.flo)
  BY <1>1, AccessParts
<1>5. ASSUME NEW i \in 1..4
      PROVE  chip'[s[i].f.reg] = s[i].val
  <2>1. i = 1 \/ i = 2 \/ i = 3 \/ i = 4
    OBVIOUS
  <2>2. i \in 1..Len(s) /\ s[i].kind = "write"
    BY <1>1, <1>2, <2>1
  <2>3. \A n \in 1..8 : n = 1 \/ n = 2 \/ n = 3 \/ n = 4 \/ n = 5 \/ n = 6 \/ n = 7 \/ n = 8
    OBVIOUS
  <2>4. /\ s[6].f.reg = "SYNTH1" /\ s[7].f.reg = "SYNTH1" /\ s[8].f.reg = "FILT1"
    BY <1>3, <1>b
  <2>5. \A n \in (i + 1)..Len(s) : s[n].f.reg # s[i].f.reg
    <3> SUFFICES ASSUME NEW n \in (i + 1)..Len(s) PROVE s[n].f.reg # s[i].f.reg
      OBVIOUS
    <3>1. n \in 1..8 /\ n > i
      BY <1>1
    <3> QED
      BY <3>1, <2>1, <2>3, <2>4, <1>1, <1>2
  <2> QED
    BY <1>r, <2>2, <2>5, CleanWrites
<1>7. FieldOf(chip'[s[7].f.reg], s[7].f) = s[7].val
  <2> DEFINE i == 7
  <2>1. i \in 1..Len(s) /\ s[i].kind # "write"
    BY <1>1, <1>3
  <2>2. \A n \in (i + 1)..Len(s) : n = 8
    BY <1>1
  <2>3. \A n \in (i + 1)..Len(s) : Spares(s[n], s[i].f)
    BY <2>2, <1>3, <1>b DEF Spares
  <2> HIDE DEF i
  <2>7. FieldOf(chip'[s[i].f.reg], s[i].f) = s[i].val
    BY <1>r, <2>1, <2>3, CleanSets
  <2> QED
    BY <2>7 DEF i
<1>8. FieldOf(chip'[s[8].f.reg], s[8].f) = s[8].val
  <2> DEFINE i == 8
  <2>1. i \in 1..Len(s) /\ s[i].kind # "write"
    BY <1>1, <1>3
  <2>3. \A n \in (i + 1)..Len(s) : Spares(s[n], s[i].f)
    BY <1>1
  <2> HIDE DEF i
  <2>7. FieldOf(chip'[s[i].f.reg], s[i].f) = s[i].val
    BY <1>r, <2>1, <2>3, CleanSets
  <2> QED
    BY <2>7 DEF i
<1>9. /\ chip'["SYNTH7"] = p.r_idx /\ chip'["SYNTH3"] = p.z
      /\ chip'["SYNTH4"] = p.x % 256 /\ chip'["SYNTH5"] = p.x \div 256
  <2>1. 1 \in 1..4 /\ 2 \in 1..4 /\ 3 \in 1..4 /\ 4 \in 1..4
    OBVIOUS
  <2> QED
    BY <2>1, <1>5, <1>2
<1>10. /\ FieldOf(chip'["SYNTH1"], BandField) = BandFor(p.flo)
       /\ FieldOf(chip'["FILT1"], RfFilter) = choose_rf_filter(BandFor(p.flo), p.flo)
  BY <1>7, <1>8, <1>3, <1>b
<1> QED
  BY <1>9, <1>10, Zenon DEF SynthIs

(* e4k_tune_freq leaves its own settings, whatever the last one left, or   *)
(* an unknown frequency.                                                   *)
LEMMA TuneKeepsSynth ==
    ASSUME E4kAssumption, E4kInv, SynthInv, NEW f \in Freqs, TuneFreq(f)
    PROVE  SynthInv'
<1> DEFINE p == e4k_compute_pll_params(f)
<1>1. f \in Nat /\ f \in Int
  BY DEF E4kAssumption
<1>2. TuneType(p)
  BY <1>1, PllType
<1>3. PICK bad, ok : TunedBy(f, p, bad, ok)
  BY TuneFreqIs
<1> DEFINE bd == BandAfter(p, bad)
           freq == IF ok THEN f ELSE Unknown
           clean == bad.n = 0
<1>4. /\ chip' = Run(chip, TuneSteps(p, bd), bad).regs /\ band' = bd
      /\ want' = [want EXCEPT !.freq = freq, !.clean = clean]
      /\ hit' = hit \cup Damage(TuneSteps(p, bd), bad)
  BY <1>3 DEF TunedBy
<1>p. p = e4k_compute_pll_params(f)
  OBVIOUS
<1> HIDE DEF p
<1>5. bd \in 0..3
  BY <1>2, BandType DEF E4kInv, TuneType, BandAfter
<1>5a. freq \in Int
  BY <1>1 DEF Unknown
<1>5b. clean \in BOOLEAN
  OBVIOUS
<1>5c. TunesWant(want', want, freq, clean)
  BY <1>4 DEF TunesWant
<1>5d. freq # Unknown => freq = f
  OBVIOUS
<1>5e. clean => bad.n = 0 /\ bd = BandFor(p.flo)
  <2>1. BandStep # 0
    BY DEF BandStep
  <2> QED
    BY <2>1 DEF BandAfter
<1> HIDE DEF bd, freq, clean
<1>6. Ran(TuneSteps(p, bd), bad)
  <2>1. AreSteps(TuneSteps(p, bd))
    BY <1>2, <1>5, TuneStepsOk
  <2> QED
    BY <1>4, <2>1 DEF Ran, E4kInv
<1>7. want'.freq = freq
  BY <1>5a, <1>5b, <1>5c, WantTuned DEF E4kInv
<1>8. want'.clean = clean
  BY <1>5a, <1>5b, <1>5c, WantTuned DEF E4kInv
<1>9. clean => SynthIs(p)'
  BY <1>2, <1>5, <1>5e, <1>6, TuneSets
<1>10. clean => SynthIs(e4k_compute_pll_params(f))'
  BY <1>9, <1>p
<1> SUFFICES ASSUME want'.clean, want'.freq # Unknown PROVE TunedTo(want.freq)'
  BY DEF SynthInv
<1>11. clean /\ want'.freq = f
  BY <1>5d, <1>7, <1>8
<1>12. SynthIs(e4k_compute_pll_params(f))'
  BY <1>10, <1>11
<1>13. TunedTo(f)'
  BY <1>12 DEF TunedTo
<1> QED
  BY <1>11, <1>13 DEF TunedTo, SynthIs

(* The other calls do not use these registers.                             *)
Elsewhere(steps) ==
  AreSteps(steps) /\ \A n \in 1..Len(steps) : steps[n].f.reg \notin SynthRegs

(* Two wishes for the same frequency.                                      *)
SameTuning(v, w) == v.freq = w.freq /\ (v.clean <=> w.clean)

(* The other calls do not change it.                                       *)
LEMMA WishesApart ==
    ASSUME NEW w \in Wants
    PROVE  /\ \A s \in 1..6, g \in Int : SameTuning(StageWith(w, s, g), w)
           /\ \A g \in Int : SameTuning(GainWith(w, g), w) /\ SameTuning(BwWith(w, g), w)
           /\ \A b \in BOOLEAN : SameTuning(AwakeWith(w, b), w) /\ SameTuning(ManualWith(w, b), w)
BY Zenon DEF Wants, SameTuning, StageWith, GainWith, BwWith, AwakeWith, ManualWith

(* A call elsewhere keeps the tuning.                                      *)
LEMMA MadeKeepsSynth ==
    ASSUME E4kInv, SynthInv, NEW steps, Elsewhere(steps), NEW bad, NEW good, NEW new,
           MadeIf(steps, bad, good, new), SameTuning(new, want)
    PROVE  SynthInv'
<1>1. chip \in Memory /\ chip' = Run(chip, steps, bad).regs /\ AreSteps(steps)
  BY DEF E4kInv, MadeIf, Elsewhere
<1>2. ASSUME NEW r \in SynthRegs PROVE chip'[r] = chip[r]
  <2>1. r \in Regs /\ \A n \in 1..Len(steps) : steps[n].f.reg # r
    BY DEF SynthRegs, Regs, Elsewhere
  <2> QED
    BY <1>1, <2>1, RunKeepsReg
<1>3. want' = new \/ want' = want
  BY DEF MadeIf
<1>4. want'.freq = want.freq /\ (want'.clean <=> want.clean)
  BY <1>3 DEF SameTuning
<1> QED
  BY <1>2, <1>4, SynthKept

(* Two accesses elsewhere.                                                 *)
LEMMA TwoElsewhere ==
    ASSUME NEW a, NEW b, IsAccess(a), IsAccess(b),
           a.f.reg \notin SynthRegs, b.f.reg \notin SynthRegs
    PROVE  Elsewhere(<< a, b >>)
<1> DEFINE s == << a, b >>
<1>1. Len(s) = 2 /\ s[1] = a /\ s[2] = b
  OBVIOUS
<1>2. \A n \in 1..2 : n = 1 \/ n = 2
  OBVIOUS
<1> HIDE DEF s
<1>3. Elsewhere(s)
  BY <1>1, <1>2 DEF Elsewhere, AreSteps
<1> QED
  BY <1>3 DEF s

(* Three.                                                                  *)
LEMMA ThreeElsewhere ==
    ASSUME NEW a, NEW b, NEW c, IsAccess(a), IsAccess(b), IsAccess(c),
           a.f.reg \notin SynthRegs, b.f.reg \notin SynthRegs, c.f.reg \notin SynthRegs
    PROVE  Elsewhere(<< a, b, c >>)
<1> DEFINE s == << a, b, c >>
<1>1. Len(s) = 3 /\ s[1] = a /\ s[2] = b /\ s[3] = c
  OBVIOUS
<1>2. \A n \in 1..3 : n = 1 \/ n = 2 \/ n = 3
  OBVIOUS
<1> HIDE DEF s
<1>3. Elsewhere(s)
  BY <1>1, <1>2 DEF Elsewhere, AreSteps
<1> QED
  BY <1>3 DEF s

(* A call that puts one field.                                             *)
LEMMA OneElsewhere ==
    ASSUME NEW f, NEW x, NEW steps, OneField(steps, f, x), f.reg \notin SynthRegs
    PROVE  Elsewhere(steps)
<1>1. \A n \in 1..1 : n = 1
  OBVIOUS
<1> QED
  BY <1>1 DEF Elsewhere, OneField

(* An IF gain,                                                             *)
LEMMA IfGainKeepsSynth ==
    ASSUME E4kInv, SynthInv, NEW s \in 1..6, NEW gain \in Int, IfGainSet(s, gain)
    PROVE  SynthInv'
<1>1. CASE NoChange
  BY <1>1, SynthKept DEF NoChange
<1>2. CASE \E n \in DOMAIN if_stage_gain[s] :
             /\ if_stage_gain[s][n] = gain
             /\ Call(<< Mask(if_stage_gain_regs[s], n - 1) >>, AllOk, StageWith(want, s, gain))
  <2> DEFINE f == if_stage_gain_regs[s]
             new == StageWith(want, s, gain)
  <2>1. PICK n \in DOMAIN if_stage_gain[s] : Call(<< Mask(f, n - 1) >>, AllOk, new)
    BY <1>2
  <2>2. f \in Fields /\ n \in 1..Size(f) /\ Size(f) \in Nat /\ f.reg \notin SynthRegs
    BY KnownFields, StageTables, SizePositive, StageRegs DEF SynthRegs
  <2> DEFINE x == n - 1
             steps == << Mask(f, x) >>
  <2>3. x \in 0..(Size(f) - 1)
    BY <2>2
  <2>4. SameTuning(new, want)
    BY WishesApart DEF E4kInv
  <2> HIDE DEF f, x, new
  <2>5. OneField(steps, f, x)
    BY <2>2, <2>3, OneMaskIs
  <2>6. Call(steps, AllOk, new)
    BY <2>1 DEF x
  <2> HIDE DEF steps
  <2>7. PICK bad : MadeIf(steps, bad, OkOf(steps, bad), new)
    BY <2>6, CallIs
  <2>8. Elsewhere(steps)
    BY <2>2, <2>5, OneElsewhere
  <2> QED
    BY <2>4, <2>7, <2>8, MadeKeepsSynth
<1> QED
  BY <1>1, <1>2, IfGainSetIs

(* standby,                                                                *)
LEMMA StandbyKeepsSynth ==
    ASSUME E4kInv, SynthInv, NEW on \in BOOLEAN, Standby(on)
    PROVE  SynthInv'
<1> DEFINE x == IF on THEN 0 ELSE 1
           steps == << Mask(AwakeField, x) >>
           b == ~on
           new == AwakeWith(want, b)
<1>1. AwakeField \in Fields /\ x \in 0..(Size(AwakeField) - 1) /\ AwakeField.reg \notin SynthRegs
  BY KnownFields, FieldSizes DEF Has, SynthRegs
<1>2. OneField(steps, AwakeField, x)
  BY <1>1, OneMaskIs
<1>3. Call(steps, Ignored, new)
  BY Zenon DEF Standby, AwakeField, AwakeWith
<1>4. SameTuning(new, want)
  <2>1. b \in BOOLEAN /\ want \in Wants
    BY DEF E4kInv
  <2> HIDE DEF b
  <2> QED
    BY <2>1, WishesApart
<1> HIDE DEF steps, new
<1>5. PICK bad : MadeIf(steps, bad, TRUE, new)
  BY <1>3, CallIs
<1>6. Elsewhere(steps)
  BY <1>1, <1>2, OneElsewhere
<1> QED
  BY <1>4, <1>5, <1>6, MadeKeepsSynth

(* the gain mode,                                                          *)
LEMMA ManualKeepsSynth ==
    ASSUME E4kInv, SynthInv, NEW on \in BOOLEAN, EnableManualGain(on)
    PROVE  SynthInv'
<1> DEFINE steps == ManualSteps(on)
           new == ManualWith(want, on)
<1>2. Call(steps, Ignored, new)
  BY Zenon DEF EnableManualGain, ManualWith
<1>4. SameTuning(new, want)
  BY WishesApart DEF E4kInv
<1>1. /\ AgcMode \in Fields /\ MixAuto \in Fields /\ Agc11Field \in Fields
      /\ Size(AgcMode) = 16 /\ Size(MixAuto) = 2 /\ Size(Agc11Field) = 8
      /\ AgcMode.reg \notin SynthRegs /\ MixAuto.reg \notin SynthRegs /\ Agc11Field.reg \notin SynthRegs
  BY KnownFields, FieldSizes DEF Has, SynthRegs
<1>3. Elsewhere(steps)
  <2> DEFINE x == IF on THEN 0 ELSE 9
             y == IF on THEN 0 ELSE 1
             z == 0
             a == Mask(AgcMode, x)
             b == Mask(MixAuto, y)
             c == Mask(Agc11Field, z)
  <2>2. x \in 0..(Size(AgcMode) - 1) /\ y \in 0..(Size(MixAuto) - 1) /\ z \in 0..(Size(Agc11Field) - 1)
    BY <1>1
  <2>3. steps = << a, b >> \/ steps = << a, b, c >>
    BY DEF ManualSteps, Agc11Field
  <2> HIDE DEF x, y, z
  <2>4. IsPut(a, AgcMode, x) /\ IsPut(b, MixAuto, y) /\ IsPut(c, Agc11Field, z)
    BY <1>1, <2>2, PutIs
  <2> HIDE DEF a, b, c
  <2>5. Elsewhere(<< a, b >>) /\ Elsewhere(<< a, b, c >>)
    BY <1>1, <2>4, TwoElsewhere, ThreeElsewhere DEF IsPut
  <2> QED
    BY <2>3, <2>5
<1> HIDE DEF steps, new
<1>6. PICK bad : MadeIf(steps, bad, TRUE, new)
  BY <1>2, CallIs
<1> QED
  BY <1>3, <1>4, <1>6, MadeKeepsSynth

(* the gain                                                                *)
LEMMA GainKeepsSynth ==
    ASSUME E4kInv, SynthInv, NEW gain \in Int, gain <= 420, SetGain(gain)
    PROVE  SynthInv'
<1>1. CASE NoChange
  BY <1>1, SynthKept DEF NoChange
<1>2. ASSUME NEW n \in 1..13,
             Call(<< Mask(LnaField, lnagain[n][2]),
                     Mask(MixerField, IF MixGain(gain) = 120 THEN 1 ELSE 0) >>,
                  Ignored, GainWith(want, gain))
      PROVE  SynthInv'
  <2> DEFINE x == lnagain[n][2]
             y == IF MixGain(gain) = 120 THEN 1 ELSE 0
             a == Mask(LnaField, x)
             b == Mask(MixerField, y)
             steps == << a, b >>
             new == GainWith(want, gain)
  <2>1. /\ LnaField \in Fields /\ MixerField \in Fields /\ LnaField.reg \notin SynthRegs
        /\ MixerField.reg \notin SynthRegs /\ Size(LnaField) = 16 /\ Size(MixerField) = 2
    BY KnownFields, FieldSizes DEF Has, SynthRegs
  <2>2. x \in 0..(Size(LnaField) - 1) /\ y \in 0..(Size(MixerField) - 1)
    BY <2>1, LnaTable
  <2>3. SameTuning(new, want)
    BY WishesApart DEF E4kInv
  <2>4. Call(steps, Ignored, new)
    BY <1>2
  <2> HIDE DEF x, y, new
  <2>5. IsPut(a, LnaField, x) /\ IsPut(b, MixerField, y)
    BY <2>1, <2>2, PutIs
  <2> HIDE DEF a, b
  <2>6. Elsewhere(steps)
    BY <2>1, <2>5, TwoElsewhere DEF IsPut
  <2> HIDE DEF steps
  <2>7. PICK bad : MadeIf(steps, bad, TRUE, new)
    BY <2>4, CallIs
  <2> QED
    BY <2>3, <2>6, <2>7, MadeKeepsSynth
<1> QED
  BY <1>1, <1>2, SetGainIs

(* and the filters keep it.                                                *)
LEMMA SetBwKeepsSynth ==
    ASSUME E4kInv, SynthInv, NEW bw \in Nat, SetBw(bw)
    PROVE  SynthInv'
<1> DEFINE steps == FilterSteps(bw, bw, bw)
           good(bad) == OkOf(steps, bad)
           new(bad) == BwWith(want, IF good(bad) THEN bw ELSE Unknown)
<1>1. \E bad \in Faults(steps) : MadeIf(steps, bad, TRUE, new(bad))
  BY Zenon DEF SetBw, MadeIf, OkOf, BwWith
<1>2. PICK bad : MadeIf(steps, bad, TRUE, new(bad))
  BY <1>1
<1> DEFINE b == IF good(bad) THEN bw ELSE Unknown
           w == BwWith(want, b)
<1>3. b \in Int
  BY DEF Unknown
<1>4. MadeIf(steps, bad, TRUE, w)
  BY <1>2
<1> HIDE DEF b
<1>5. SameTuning(w, want)
  BY <1>3, WishesApart DEF E4kInv
<1> HIDE DEF w
<1>6. Elsewhere(steps)
  <2> DEFINE f == if_filter_fields.MIX
             g == if_filter_fields.RC
             h == if_filter_fields.CHAN
             p == FieldWrite(f, Mix(bw))
             q == FieldWrite(g, Rc(bw))
             r == FieldWrite(h, Chan(bw))
  <2>1. /\ f \in Fields /\ g \in Fields /\ h \in Fields /\ f.reg \notin SynthRegs /\ g.reg \notin SynthRegs
        /\ h.reg \notin SynthRegs /\ Size(f) = 16 /\ Size(g) = 16 /\ Size(h) = 32
    BY KnownFields, FieldSizes DEF Has, SynthRegs
  <2>2. steps = << p, q, r >>
    BY DEF FilterSteps, Mix, Rc, Chan
  <2>3. Mix(bw) \in 0..15 /\ Rc(bw) \in 0..15 /\ Chan(bw) \in 0..31
    BY FiltersChosen DEF FilterIs
  <2> HIDE DEF f, g, h
  <2>4. IsPut(p, f, Mix(bw)) /\ IsPut(q, g, Rc(bw)) /\ IsPut(r, h, Chan(bw))
    BY <2>1, <2>3, PutIs
  <2> HIDE DEF p, q, r
  <2> QED
    BY <2>1, <2>2, <2>4, ThreeElsewhere DEF IsPut
<1> QED
  BY <1>4, <1>5, <1>6, MadeKeepsSynth

(* A tuner starts with no frequency.                                       *)
LEMMA SynthStarts == Init => SynthInv
<1> SUFFICES ASSUME Init PROVE want.freq = Unknown
  BY DEF SynthInv
<1> QED
  BY DEF Init

(* Every call keeps the tuning.                                            *)
LEMMA SynthKeeps ==
    ASSUME \A g \in Gains : g <= 420, E4kInv, SynthInv, [Next]_vars
    PROVE  SynthInv'
<1>0. E4kAssumption
  BY E4kAssumption
<1>1. ASSUME NEW f \in Freqs, TuneFreq(f) PROVE SynthInv'
  BY <1>0, <1>1, TuneKeepsSynth
<1>2. ASSUME NEW g \in IfGains, IfGainSet(g[1], g[2]) PROVE SynthInv'
  <2>1. g[1] \in 1..6 /\ g[2] \in Int
    BY <1>0 DEF E4kAssumption
  <2> QED
    BY <1>2, <2>1, IfGainKeepsSynth
<1>3. ASSUME NEW bw \in Bandwidths, SetBw(bw) PROVE SynthInv'
  <2>1. bw \in Nat
    BY <1>0 DEF E4kAssumption
  <2> QED
    BY <1>3, <2>1, SetBwKeepsSynth
<1>4. ASSUME NEW g \in Gains, SetGain(g) PROVE SynthInv'
  <2>1. g \in Int /\ g <= 420
    BY <1>0 DEF E4kAssumption
  <2> QED
    BY <1>4, <2>1, GainKeepsSynth
<1>5. ASSUME NEW on \in BOOLEAN, EnableManualGain(on) PROVE SynthInv'
  BY <1>5, ManualKeepsSynth
<1>6. ASSUME NEW on \in BOOLEAN, Standby(on) PROVE SynthInv'
  BY <1>6, StandbyKeepsSynth
<1>7. CASE UNCHANGED vars
  BY <1>7, SynthKept DEF vars
<1> QED
  BY <1>1, <1>2, <1>3, <1>4, <1>5, <1>6, <1>7 DEF Next

(* What the chip makes of the divider's setting is the divider.             *)
ChipDivider(i) ==
  CASE i = 0 -> 2
    [] OTHER -> pll_vars[CHOOSE n \in DOMAIN pll_vars : pll_vars[n][2] = i][3]

(* It is the divider that was chosen for the frequency.                    *)
LEMMA DividerIs ==
    ASSUME NEW f \in Nat
    PROVE  ChipDivider(PllRow(f).r_idx) = PllRow(f).r
<1> DEFINE row == PllRow(f)
<1>0. DOMAIN pll_vars = 1..10
  BY DEF pll_vars
<1>1. /\ pll_vars[1][2] = 15 /\ pll_vars[2][2] = 14 /\ pll_vars[3][2] = 13 /\ pll_vars[4][2] = 12
      /\ pll_vars[5][2] = 11 /\ pll_vars[6][2] = 10 /\ pll_vars[7][2] = 9 /\ pll_vars[8][2] = 3
      /\ pll_vars[9][2] = 2 /\ pll_vars[10][2] = 1
  BY DEF pll_vars
<1>2. \A n \in 1..10 : n = 1 \/ n = 2 \/ n = 3 \/ n = 4 \/ n = 5 \/ n = 6 \/ n = 7 \/ n = 8
                       \/ n = 9 \/ n = 10
  OBVIOUS
<1>3. \A n, m \in 1..10 : pll_vars[n][2] = pll_vars[m][2] => n = m
  BY <1>1, <1>2
<1>4. \A n \in 1..10 : pll_vars[n][2] # 0
  BY <1>1, <1>2
<1>5. RowFor(f, row)
  BY PllRowIsRow
<1> HIDE DEF row
<1>6. CASE row.r_idx = 0 /\ row.r = 2
  BY <1>6 DEF ChipDivider, row
<1>7. ASSUME NEW n \in 1..10, row.r_idx = pll_vars[n][2], row.r = pll_vars[n][3]
      PROVE  ChipDivider(row.r_idx) = row.r
  <2> DEFINE c == CHOOSE m \in DOMAIN pll_vars : pll_vars[m][2] = row.r_idx
  <2>1. c \in 1..10 /\ pll_vars[c][2] = row.r_idx
    BY <1>0, <1>7
  <2>2. c = n
    BY <1>3, <1>7, <2>1
  <2>3. row.r_idx # 0
    BY <1>4, <1>7
  <2>4. ChipDivider(row.r_idx) = pll_vars[c][3]
    BY <2>3 DEF ChipDivider
  <2> QED
    BY <1>7, <2>2, <2>4
<1> QED
  BY <1>5, <1>6, <1>7 DEF RowFor, row

(* The chosen RF filter is the closest of its band.                        *)
BandFilterIs(bd, flo, sel) ==
  LET Closest(arr) == \A n \in DOMAIN arr :
        Delta(flo, 1000 * arr[sel + 1]) <= Delta(flo, 1000 * arr[n])
  IN  CASE bd = 2 -> Closest(RfCenterUhf)
        [] bd = 3 -> Closest(RfCenterL)
        [] OTHER -> sel = 0

(* choose_rf_filter chooses it.                                            *)
LEMMA FilterIsClosest ==
    ASSUME NEW bd \in 0..3, NEW flo \in Nat
    PROVE  BandFilterIs(bd, flo, choose_rf_filter(bd, flo))
<1> DEFINE U == [n \in DOMAIN RfCenterUhf |-> 1000 * RfCenterUhf[n]]
           L == [n \in DOMAIN RfCenterL |-> 1000 * RfCenterL[n]]
           k == 16
           sel == choose_rf_filter(bd, flo)
<1>1. IsTable(U, k) /\ IsTable(L, k) /\ k \in Nat /\ k # 0
  BY FilterTables
<1>2. DOMAIN RfCenterUhf = 1..k /\ DOMAIN RfCenterL = 1..k
  BY DEF RfCenterUhf, RfCenterL
<1>3. /\ \A n \in 1..k : U[n] = 1000 * RfCenterUhf[n]
      /\ \A n \in 1..k : L[n] = 1000 * RfCenterL[n]
  BY <1>2
<1>4. /\ bd = 2 => sel = closest_arr_idx(U, flo) - 1
      /\ bd = 3 => sel = closest_arr_idx(L, flo) - 1
      /\ bd \in {0, 1} => sel = 0
  BY DEF choose_rf_filter
<1> HIDE DEF U, L, k, sel
<1>5. Nearest(U, k, flo, closest_arr_idx(U, flo)) /\ Nearest(L, k, flo, closest_arr_idx(L, flo))
  BY <1>1, ClosestIsNearest
<1>6. \A n \in 1..k : (n - 1) + 1 = n
  BY <1>1
<1>7. CASE bd = 2
  <2> DEFINE c == closest_arr_idx(U, flo)
  <2>1. c \in 1..k /\ \A m \in 1..k : Delta(flo, U[c]) <= Delta(flo, U[m])
    BY <1>5 DEF Nearest
  <2>2. sel + 1 = c
    BY <1>4, <1>6, <1>7, <2>1
  <2> HIDE DEF c
  <2>3. \A m \in 1..k : Delta(flo, 1000 * RfCenterUhf[sel + 1]) <= Delta(flo, 1000 * RfCenterUhf[m])
    BY <1>3, <2>1, <2>2
  <2> QED
    BY <1>2, <1>7, <2>3 DEF BandFilterIs, sel
<1>8. CASE bd = 3
  <2> DEFINE c == closest_arr_idx(L, flo)
  <2>1. c \in 1..k /\ \A m \in 1..k : Delta(flo, L[c]) <= Delta(flo, L[m])
    BY <1>5 DEF Nearest
  <2>2. sel + 1 = c
    BY <1>4, <1>6, <1>8, <2>1
  <2> HIDE DEF c
  <2>3. \A m \in 1..k : Delta(flo, 1000 * RfCenterL[sel + 1]) <= Delta(flo, 1000 * RfCenterL[m])
    BY <1>3, <2>1, <2>2
  <2> QED
    BY <1>2, <1>8, <2>3 DEF BandFilterIs, sel
<1>9. CASE bd \in {0, 1}
  BY <1>4, <1>9 DEF BandFilterIs, sel
<1> QED
  BY <1>7, <1>8, <1>9

(* The invariant says that the tuner is tuned.                             *)
LEMMA SynthIsTuned ==
    ASSUME Reaches, E4kInv, SynthInv
    PROVE  Tuned
<1> SUFFICES ASSUME want.clean, want.freq # Unknown, want.freq # 0 PROVE Tuned
  BY DEF Tuned
<1> DEFINE f == want.freq
           p == e4k_compute_pll_params(f)
           row == PllRow(f)
<1>0. E4kAssumption
  BY E4kAssumption
<1>1. TunedTo(f)
  BY DEF SynthInv
<1>f. f = want.freq /\ f # 0
  OBVIOUS
<1> HIDE DEF f
<1>2. f \in Nat /\ Fosc >= 18750 /\ f < 128 * Fosc /\ SynthIs(p)
  BY <1>0, <1>1 DEF E4kAssumption, Reaches, TunedTo
<1>3. TuneType(p)
  BY <1>0, <1>2, PllType
<1>4. /\ p.flo \in {f - 1, f}
      /\ p.flo = (Fosc * p.z + (Fosc * p.x) \div 65536) \div row.r
  BY <1>0, <1>f, <1>2, FloIsClose
<1>5. ChipDivider(row.r_idx) = row.r
  BY <1>2, DividerIs
<1>6. p.r_idx = row.r_idx
  BY DEF e4k_compute_pll_params
<1> HIDE DEF p, row
<1>7. chip["SYNTH7"] = p.r_idx /\ chip["SYNTH3"] = p.z /\ ChipX = p.x
  <2>1. p.x \in Nat
    BY <1>3 DEF TuneType
  <2>2. 256 * (p.x \div 256) + (p.x % 256) = p.x
    BY <2>1
  <2> QED
    BY <1>2, <2>2 DEF SynthIs, ChipX
<1>8. ChipRow = row.r
  BY <1>5, <1>6, <1>7 DEF ChipRow, ChipDivider
<1>9. ChipFlo = p.flo
  BY <1>4, <1>7, <1>8 DEF ChipFlo
<1> DEFINE flo == p.flo
           bd == BandFor(flo)
           sel == FieldOf(chip["FILT1"], RfFilter)
<1>10. flo \in Nat /\ bd \in 0..3
  BY <1>3, BandType DEF TuneType
<1>11. ChipBand = bd /\ sel = choose_rf_filter(bd, flo)
  BY <1>2 DEF SynthIs, ChipBand
<1>12. BandFilterIs(bd, flo, sel)
  BY <1>10, <1>11, FilterIsClosest
<1>13. BandFilterIs(ChipBand, ChipFlo, sel) /\ ChipBand = BandFor(ChipFlo)
  BY <1>9, <1>11, <1>12
<1>14. ChipFlo <= want.freq /\ ChipFlo >= want.freq - 1
  BY <1>f, <1>2, <1>4, <1>9
<1> QED
  BY <1>13, <1>14, Zenon DEF Tuned, BandFilterIs

(* In a behaviour that drives an E4000, a step is a call of its driver or   *)
(* leaves it alone; else its registers stay as e4k_init left them.          *)
LEMMA E4kSteps ==
    ASSUME [E4kCalls \/ FcCalls \/ R82xxCalls]_<< vars, fcVars, r82xxVars >>
    PROVE  [Next]_vars
BY DEF E4kCalls, FcCalls, R82xxCalls, vars

(* tuner_e4k.c:94 "Set or clear some (masked) bits inside a register": the  *)
(* IF gains, the filters, the gain, its mode and standby stay as they were  *)
(* last asked for, whatever else is put into the registers they share, and  *)
(* an access that fails damages the settings of its register and no others: *)
(* for every frequency, bandwidth, gain and number of calls and faults.  No *)
(* gain is above the 42 dB that rtlsdr_get_tuner_gains lists last.          *)
THEOREM E4kSettingsAreHeld ==
    ASSUME \A g \in Gains : g <= 420
    PROVE  MCSpec => []SettingsHold
<1>1. E4kInv /\ [E4kCalls \/ FcCalls \/ R82xxCalls]_<< vars, fcVars, r82xxVars >> => E4kInv'
  BY E4kSteps, E4kCallsKeep
<1>2. E4kInv => SettingsHold
  BY SettingsAreAll DEF E4kInv
<1>3. MCInit => E4kInv
  BY InitSettings DEF MCInit
<1> QED
  BY <1>1, <1>2, <1>3, PTL DEF MCSpec

(* tuner_e4k.c:572 "returns actual tuned frequency": after a tuning without *)
(* a fault that reports success the synthesizer makes a frequency at most   *)
(* 1 kHz below the one asked for, its band is the band of that frequency    *)
(* and no RF filter of the band is closer, whatever the calls and the       *)
(* faults before it left behind, but for a tuning to 0 Hz, which finds no   *)
(* oscillator.  The frequencies are those the integer divider reaches in    *)
(* its 8 bits: with the usual 28.8 MHz crystal, all below 3.6 GHz.          *)
THEOREM E4kIsTuned ==
    ASSUME \A g \in Gains : g <= 420, Reaches
    PROVE  MCSpec => []Tuned
<1> DEFINE I == E4kInv /\ SynthInv
<1>1. I /\ [E4kCalls \/ FcCalls \/ R82xxCalls]_<< vars, fcVars, r82xxVars >> => I'
  BY E4kSteps, E4kCallsKeep, SynthKeeps
<1>2. I => Tuned
  BY SynthIsTuned
<1>3. MCInit => I
  BY InitSettings, SynthStarts DEF MCInit
<1> QED
  BY <1>1, <1>2, <1>3, PTL DEF MCSpec
=============================================================================
