------------------------------- MODULE R82xx -------------------------------
(***************************************************************************)
(* The R820T/R828D driver (src/src/tuner_r82xx.c): the driver's own record *)
(* (priv), the shadow copy of the chip's registers, and the chip.  A masked*)
(* write changes the shadow first and then sends the whole register, so a  *)
(* write that fails leaves the two apart until the register is sent again. *)
(*                                                                         *)
(* A call is a list of writes, to the registers, to priv and to the switch *)
(* the RTL2832 drives.  It ends at the first I2C write that fails, with a  *)
(* negative result, or where the synthesizer does not lock, with result 0. *)
(* Each register holds the fields the properties need:                     *)
(*   r05  input selection (cable 1, air-in off) and LNA gain               *)
(*   r06  cable 2          r17  the notch (open drain)                     *)
(*   r1b  the tracking filter (also the mux of r1a)                        *)
(*   r14  the synthesizer (r10, r14-r16)   r0b  the IF filter (also r0a)   *)
(* Frequencies are in kHz.                                                 *)
(***************************************************************************)
EXTENDS Integers, Sequences, FiniteSetsExt, R82xxMath

CONSTANTS
  Boards,     \* of "V4", "V4L", "R828D" (any other R828D), "R820T"
  Freqs,      \* frequencies tuned to, kHz
  Bws,        \* filter bandwidths, Hz
  MaxFaults   \* how many I2C writes may fail

VARIABLES
  board,     \* the dongle the driver runs on
  priv,      \* input, int_freq, has_lock, init_done
  regs,      \* the shadow registers
  chip,      \* the registers of the chip
  gpio5,     \* the upconverter switch, driven by the RTL2832
  faults,    \* I2C writes that failed so far
  ret,       \* the last call and whether it returned 0
  tuned,     \* the frequency of the last tuning that succeeded, else 0
  asleep     \* r82xx_standby was called and r82xx_init not since

vars == << board, priv, regs, chip, gpio5, faults, ret, tuned, asleep >>

Bypass == -1
Upconvert == 28800
XtalKhz == IF board = "R828D" THEN 16000 ELSE 28800
PowerRef == IF board = "R820T" THEN 2 ELSE 1

----------------------------------------------------------------------------
(* Calls. *)

W(to, upd) == [reg |-> to, val |-> upd]
Reg(r, upd) == W(r, upd)          \* upd is a record of the fields under the mask
Assign(field, v) == W("priv", [f \in {field} |-> v])
Gpio5(v) == W("gpio5", [on |-> v])
\* A write made under a condition: nothing is written where it is not made.
Made(condition, w) == IF condition THEN w ELSE W("none", << >>)

\* A record after the writes of s to it whose numbers are in done.
Masked(old, to, s, done) ==
  [f \in DOMAIN old |->
     LET hits == {k \in done : s[k].reg = to /\ f \in DOMAIN s[k].val}
     IN  IF hits = {} THEN old[f] ELSE s[Max(hits)].val[f]]

\* The shadow registers after the first n writes of s.
Shadow(start, s, n) == [r \in DOMAIN start |-> Masked(start[r], r, s, 1..n)]

\* A write sends the whole register as the shadow has it.
Sent(start, old, s, done) ==
  [r \in DOMAIN old |->
     LET writes == {k \in done : s[k].reg = r}
     IN  IF writes = {} THEN old[r] ELSE Shadow(start, s, Max(writes))[r]]

\* The writes of a call that can be made to fail; 0 for none.
Breakable(s) ==
  {0} \cup IF faults < MaxFaults THEN {k \in DOMAIN s : s[k].reg \in DOMAIN regs} ELSE {}

\* The call made of s up to its write number bad, which fails, or all of it;
\* the shadow registers and the chip are start and old before it.
MakeFrom(start, old, s, bad) ==
  LET last == IF bad = 0 THEN Len(s) ELSE bad
  IN  /\ regs' = Shadow(start, s, last)
      /\ chip' = Sent(start, old, s, (1..last) \ {bad})
      /\ priv' = Masked(priv, "priv", s, 1..last)
      /\ gpio5' = Masked([on |-> gpio5], "gpio5", s, 1..last).on
Make(s, bad) == MakeFrom(regs, chip, s, bad)

\* What a call leaves besides; count is the number of writes it lost.
Finish(call, ok, count) ==
  /\ faults' = faults + count
  /\ ret' = [call |-> call, ok |-> ok]
  /\ asleep' = (call = "standby" \/ (asleep /\ call # "init"))
  /\ UNCHANGED board

\* rtlsdr_open has called r82xx_init before anything else is called.
Call(call, s, bad) ==
  /\ ret.call # "none"
  /\ Make(s, bad)
  /\ Finish(call, bad = 0, IF bad = 0 THEN 0 ELSE 1)

----------------------------------------------------------------------------
(* r82xx_set_freq. *)

\* Mutant: only the V4 upconverts.
LoFreq_V4Only(f) ==
  f + (IF board = "V4" /\ f < 28800 THEN Upconvert ELSE 0) + priv.int_freq \div 1000

\* The LO frequency: the Blog V4 boards upconvert HF.
LoFreq(f) ==
  f + (IF board \in {"V4", "V4L"} /\ f < 28800 THEN Upconvert ELSE 0)
    + priv.int_freq \div 1000

\* r82xx_set_mux (r82xx_set_vga_gain follows and writes a constant).
MuxSteps(lo) == << Reg("r17", [notch |-> RangeOpenD(lo)]),
                   Reg("r1b", [filter |-> FreqRange(lo)]) >>

\* r82xx_set_pll finds settings; without them it gives up before the
\* synthesizer is written.
PllValid(lo) == ValidNint(lo, XtalKhz, PowerRef)

\* The input a frequency belongs to.
Band(f) ==
  IF board = "V4" THEN IF f <= 28800 THEN "HF" ELSE IF f < 250000 THEN "VHF" ELSE "UHF"
  ELSE IF board = "V4L" THEN IF f <= 28800 THEN "HF" ELSE "UHF"
  ELSE IF f > 345000 THEN "air" ELSE "cable"

\* The notch is off inside the broadcast bands.
Notch(f) == ~(f <= 2200 \/ f \in 85000..112000 \/ f \in 172000..242000)

\* Mutant: the bypass is written only when the band changes.
BypassStep_OnChange(band) ==
  Made(band = "HF" /\ band # priv.input, Reg("r1b", [filter |-> Bypass]))

\* HF bypasses the tracking filter, on every call.
BypassStep(band) == Made(band = "HF", Reg("r1b", [filter |-> Bypass]))

\* Mutant: air-in is left as it was.
SwitchSteps_NoAir(band) ==
  LET change == band # priv.input /\ board # "R820T"
  IN  << Made(change, Assign("input", band)),
         Made(change /\ board = "V4", Reg("r06", [cable2 |-> band = "HF"])),
         Made(change /\ board # "R828D", Gpio5(band # "HF")),
         Made(change, Reg("r05", [cable1 |-> band \in {"VHF", "cable"}])),
         Made(FALSE, Reg("r05", [air_off |-> FALSE])) >>

\* The input switch.  priv->input is assigned before the writes are made.
SwitchSteps(band) ==
  LET change == band # priv.input /\ board # "R820T"
  IN  << Made(change, Assign("input", band)),
         Made(change /\ board = "V4", Reg("r06", [cable2 |-> band = "HF"])),
         Made(change /\ board # "R828D", Gpio5(band # "HF")),
         Made(change, Reg("r05",
           CASE board = "V4" -> [cable1 |-> band = "VHF"]
             [] board = "V4L" -> [cable1 |-> band = "HF"]
             [] OTHER -> [cable1 |-> band = "cable", air_off |-> band = "cable"])),
         Made(change /\ board # "R828D", Reg("r05", [air_off |-> band # "UHF"])) >>

\* Where the synthesizer does not lock, nothing is written after it.
SetFreqSteps(f, locks) ==
  LET lo == LoFreq(f)
      mux == MuxSteps(lo)
      switch == SwitchSteps(Band(f))
  IN  << mux[1], mux[2], Reg("r14", [lo |-> lo]), Assign("has_lock", locks),
         Made(locks /\ board = "V4", Reg("r17", [notch |-> Notch(f)])),
         Made(locks /\ board \in {"V4", "V4L"}, BypassStep(Band(f))),
         Made(locks, switch[1]), Made(locks, switch[2]), Made(locks, switch[3]),
         Made(locks, switch[4]), Made(locks, switch[5]) >>

\* The library wakes the tuner before it tunes, except when it leaves
\* automatic direct sampling, which only the R820T enters.
MayTune == ~asleep \/ board = "R820T"

SetFreq(f) ==
  /\ MayTune /\ PllValid(LoFreq(f))
  /\ \E locks \in BOOLEAN :
       LET s == SetFreqSteps(f, locks)
       IN  \E bad \in Breakable(s) :
             /\ Call("set_freq", s, bad)
             /\ tuned' = IF bad = 0 /\ locks THEN f ELSE 0

\* "No valid PLL values": an error after the multiplexer has been written.
RefuseFreq(f) ==
  /\ MayTune /\ ~PllValid(LoFreq(f)) /\ ret.call # "none"
  /\ LET s == MuxSteps(LoFreq(f))
     IN  \E bad \in Breakable(s) :
           /\ Make(s, bad)
           /\ Finish("set_freq", FALSE, IF bad = 0 THEN 0 ELSE 1)
  /\ tuned' = 0

----------------------------------------------------------------------------
(* r82xx_init, r82xx_standby, r82xx_set_bandwidth, r82xx_set_gain. *)

InitArray == [r05 |-> [cable1 |-> FALSE, air_off |-> FALSE, gain |-> "auto"],
              r06 |-> [cable2 |-> FALSE], r17 |-> [notch |-> FALSE],
              r1b |-> [filter |-> 0], r14 |-> [lo |-> 0], r0b |-> [bw |-> 0]]

\* r82xx_set_tv_standard: calibration at 56 MHz, then the filter register;
\* without a lock it returns 0 before that, and init goes on.
\* r82xx_sysfreq_sel: forget the input (0, which is also air-in) and select
\* it.  init_done is set whatever sysfreq_sel returns.
InitSteps(locks) ==
  << Assign("int_freq", 3570000), Reg("r14", [lo |-> 56000]), Assign("has_lock", locks),
     Made(locks, Reg("r0b", [bw |-> 6000000])), Assign("init_done", TRUE),
     Assign("input", "air"), Reg("r05", [cable1 |-> FALSE, air_off |-> FALSE]),
     Reg("r06", [cable2 |-> FALSE]) >>

\* The block write of the initial array comes first.  Its result is overwritten
\* by that of set_tv_standard, which starts by resetting the shadow again.
InitChip ==
  /\ \E block \in IF faults < MaxFaults THEN 0..1 ELSE {0}, locks \in BOOLEAN :
       LET s == InitSteps(locks)
       IN  \E bad \in Breakable(s) :
             /\ MakeFrom(InitArray, IF block = 1 THEN chip ELSE InitArray, s, bad)
             /\ Finish("init", bad = 0, block + IF bad = 0 THEN 0 ELSE 1)
  /\ tuned' = 0

\* The registers are written whole; priv->input is not touched.
StandbySteps == << Reg("r06", [cable2 |-> FALSE]),
                   Reg("r05", [cable1 |-> FALSE, air_off |-> TRUE, gain |-> "auto"]),
                   Reg("r17", [notch |-> FALSE]) >>

Standby ==
  LET s == IF priv.init_done THEN StandbySteps ELSE << >>
  IN  \E bad \in Breakable(s) : Call("standby", s, bad) /\ tuned' = 0

SetBandwidth(bw) ==
  LET s == << Assign("int_freq", IntFreq(bw)), Reg("r0b", [bw |-> bw]) >>
  IN  \E bad \in Breakable(s) : Call("set_bandwidth", s, bad) /\ tuned' = tuned

SetGain(g) ==
  LET s == << Reg("r05", [gain |-> g]) >>
  IN  \E bad \in Breakable(s) : Call("set_gain", s, bad) /\ tuned' = tuned

\* struct r82xx_priv is zeroed with the device; the chip is as it powers up.
Init == /\ board \in Boards
        /\ priv = [input |-> "air", int_freq |-> 0, has_lock |-> FALSE,
                   init_done |-> FALSE]
        /\ regs = InitArray /\ chip = InitArray /\ gpio5 = FALSE
        /\ faults = 0
        /\ ret = [call |-> "none", ok |-> FALSE] /\ tuned = 0 /\ asleep = FALSE

Next == \/ InitChip
        \/ Standby
        \/ \E f \in Freqs : SetFreq(f) \/ RefuseFreq(f)
        \/ \E bw \in Bws : SetBandwidth(bw)
        \/ \E g \in {"auto", "manual"} : SetGain(g)

Spec == Init /\ [][Next]_vars

----------------------------------------------------------------------------
(* Properties. *)

\* Type correctness; priv->input is always the name of an input that exists
\* (tuner_r82xx.c:668,1219,1271,1305).
TypeOK ==
  /\ board \in Boards
  /\ priv.input \in {"air", "cable", "HF", "VHF", "UHF"}
  /\ priv.int_freq \in Nat /\ priv.has_lock \in BOOLEAN /\ priv.init_done \in BOOLEAN
  /\ \A r \in {regs, chip} :
       /\ r.r05 \in [cable1 : BOOLEAN, air_off : BOOLEAN, gain : {"auto", "manual"}]
       /\ r.r06.cable2 \in BOOLEAN /\ r.r17.notch \in BOOLEAN
       /\ r.r1b.filter \in Bypass..Len(FreqRanges)
       /\ r.r14.lo \in Nat /\ r.r0b.bw \in Nat
  /\ gpio5 \in BOOLEAN /\ faults \in Nat /\ tuned \in Freqs \cup {0} /\ asleep \in BOOLEAN

\* The input a dongle's switches select.
Route(bd, cable1, cable2, air_off, on) ==
  CASE bd = "V4" /\ cable2 /\ ~cable1 /\ ~on -> "HF"
    [] bd = "V4" /\ ~cable2 /\ cable1 /\ on -> "VHF"
    [] bd = "V4" /\ ~cable2 /\ ~cable1 /\ on /\ ~air_off -> "UHF"
    [] bd = "V4L" /\ cable1 /\ ~on -> "HF"
    [] bd = "V4L" /\ ~cable1 /\ on /\ ~air_off -> "UHF"
    [] bd \notin {"V4", "V4L"} /\ cable1 /\ air_off -> "cable"
    [] bd \notin {"V4", "V4L"} /\ ~cable1 /\ ~air_off -> "air"
    [] OTHER -> "mixed"

\* The input the chip and the upconverter switch are set to.
Routed == Route(board, chip.r05.cable1, chip.r06.cable2, chip.r05.air_off, gpio5)

\* tuner_r82xx.c:1199-1307 "select tuner band based on frequency and only
\* switch if there is a band change", 1169 "automatically upconvert by 28.8
\* MHz if we tune to HF": although priv->input decides whether anything is
\* written, and init, standby and unlocked tunings come between, a tuned
\* dongle listens to the input its frequency belongs to, as long as no write
\* was lost; the oscillator is moved up exactly when that is the HF input.
InputSelected ==
  tuned # 0 =>
    /\ board # "R820T" /\ faults = 0 => Routed = Band(tuned)
    /\ board \in {"V4", "V4L"} =>
         (chip.r14.lo >= tuned + Upconvert <=> Band(tuned) = "HF")

\* tuner_r82xx.c:1206-1215 "Must be outside band-change guard since
\* r82xx_set_mux re-applies the tracking filter on every frequency change":
\* the tracking filter of a tuned dongle is the one for its oscillator, and
\* bypassed on the upconverter path; the V4's notch is the one for the band.
\* A call that failed before does not show once a later one has succeeded.
RfPathMatches ==
  tuned # 0 =>
    /\ chip.r1b.filter = IF board \in {"V4", "V4L"} /\ Band(tuned) = "HF"
                         THEN Bypass ELSE FreqRange(chip.r14.lo)
    /\ board = "V4" => chip.r17.notch = Notch(tuned)
=============================================================================
