------------------------------- MODULE FcMath -------------------------------
(***************************************************************************)
(* The arithmetic of the Fitipower FC0012 and FC0013 drivers               *)
(* (src/src/tuner_fc0012.c, tuner_fc0013.c) and of the FCI FC2580 driver   *)
(* (tuner_fc2580.c): dividers, fractions and LNA gains.  Frequencies of    *)
(* the FC001x are in Hz, those of the FC2580 in kHz as in its driver.      *)
(*                                                                         *)
(* The VCO of the FC001x is counted in units of 512 Hz, so that its 32-bit *)
(* product fits TLC's integers and still wraps where it does in C: 2^32 Hz *)
(* are 2^23 units and half of the 28.8 MHz crystal is 28125 units.         *)
(* Frequencies are therefore taken to be multiples of 512 Hz.              *)
(***************************************************************************)
EXTENDS Integers, Sequences

Unit == 512
VcoWord == 8388608        \* 2^32 Hz
XtalDiv2 == 28125         \* xtal_freq_div_2
XtalDiv2Khz == 14400

----------------------------------------------------------------------------
(* FC0012 and FC0013: the output divider.  A row: upper limit in kHz, multi, *)
(* and the divider bits of registers 5 and 6.                                *)

Row(limit, multi, reg5, reg6) ==
  [limit |-> limit, multi |-> multi, reg5 |-> reg5, reg6 |-> reg6]

Fc0012Rows ==
  << Row(37084, 96, 130, 0), Row(55625, 64, 130, 2), Row(74167, 48, 66, 0),
     Row(111250, 32, 66, 2), Row(148334, 24, 34, 0), Row(222500, 16, 34, 2),
     Row(296667, 12, 18, 0), Row(445000, 8, 18, 2), Row(593334, 6, 10, 0),
     Row(0, 4, 10, 2) >>

\* Mutant: the FC0012's last row, without the one for GPS.
Fc0013Rows_NoGps ==
  << Row(37084, 96, 130, 0), Row(55625, 64, 2, 2), Row(74167, 48, 66, 0),
     Row(111250, 32, 130, 2), Row(148334, 24, 34, 0), Row(222500, 16, 66, 2),
     Row(296667, 12, 18, 0), Row(445000, 8, 34, 2), Row(593334, 6, 10, 0),
     Row(0, 4, 18, 2) >>

Fc0013Rows ==
  << Row(37084, 96, 130, 0), Row(55625, 64, 2, 2), Row(74167, 48, 66, 0),
     Row(111250, 32, 130, 2), Row(148334, 24, 34, 0), Row(222500, 16, 66, 2),
     Row(296667, 12, 18, 0), Row(445000, 8, 34, 2), Row(593334, 6, 10, 0),
     Row(950000, 4, 18, 2), Row(0, 2, 10, 2) >>

Rows(model) == IF model = "FC0012" THEN Fc0012Rows ELSE Fc0013Rows

\* The first row whose limit is above the frequency, or the last one.
DividerRow(model, freq) ==
  LET rows == Rows(model)
      Below(n) == n = Len(rows) \/ freq < 1000 * rows[n].limit
  IN  rows[CHOOSE n \in DOMAIN rows : Below(n) /\ \A m \in 1..(n - 1) : ~Below(m)]

\* f_vco = freq * multi, a product of 32 bits.
FVco(model, freq) == ((freq \div Unit) * DividerRow(model, freq).multi) % VcoWord

\* f_vco >= 3060000000
VcoSelect(fvco) == 8 * fvco >= 47812500

----------------------------------------------------------------------------
(* FC0012 and FC0013: the dividers in front of the phase detector. *)

\* Mutant: the quotient is cut, not rounded.
Xdiv_Cut(fvco) == fvco \div XtalDiv2

\* xdiv, rounded to the nearest
Xdiv(fvco) ==
  LET q == fvco \div XtalDiv2
  IN  IF 2 * (fvco - q * XtalDiv2) >= XtalDiv2 THEN q + 1 ELSE q

\* Registers 1 and 2 from xdiv = 8 * pm + am with am >= 2; all are uint8_t.
RfA_RfM(xdiv) ==
  LET pm0 == (xdiv \div 8) % 256
      am0 == (xdiv - 8 * pm0) % 256
      am == IF am0 < 2 THEN am0 + 8 ELSE am0
      pm == IF am0 < 2 THEN (pm0 - 1) % 256 ELSE pm0
  IN  IF pm > 31 THEN << (am + 8 * (pm - 31)) % 256, 31 >> ELSE << am, pm >>

\* "no valid PLL combination found" otherwise
ValidPll(xdiv) == RfA_RfM(xdiv)[1] <= 15 /\ RfA_RfM(xdiv)[2] >= 11

\* The 16 bits of registers 3 and 4; a fraction of one half or more is put
\* as a negative one.
Xin(fvco) ==
  LET khz == ((fvco % XtalDiv2) * Unit) \div 1000
      xin == (khz * 32768) \div XtalDiv2Khz
  IN  IF xin >= 16384 THEN (xin + 32768) % 65536 ELSE xin

\* What registers 1 to 4 make of the crystal, in kHz of the VCO.
SynthesizedKhz(rf, xin) ==
  (8 * rf[2] + rf[1]) * XtalDiv2Khz
    + ((IF xin >= 32768 THEN xin - 65536 ELSE xin) * XtalDiv2Khz) \div 32768

\* Bit 3 of register 6 after the VCO's control voltage was read back: the
\* other VCO is taken when this one is at the end of its range.
HighVco(vco_select, voltage) == IF vco_select THEN voltage <= 60 ELSE voltage < 2

----------------------------------------------------------------------------
(* FC0013: tracking filter and LNA gain; FC0012: LNA gain. *)

\* Bits 2 to 4 of register 0x1d.
VhfTrack(freq) ==
  CASE freq <= 177500000 -> 7
    [] freq > 177500000 /\ freq <= 184500000 -> 6
    [] freq > 184500000 /\ freq <= 191500000 -> 5
    [] freq > 191500000 /\ freq <= 198500000 -> 4
    [] freq > 198500000 /\ freq <= 205500000 -> 3
    [] freq > 205500000 /\ freq <= 219500000 -> 2
    [] freq > 219500000 /\ freq < 300000000 -> 1
    [] OTHER -> 7

fc0013_lna_gains ==
  << << -99, 2 >>, << -73, 3 >>, << -65, 5 >>, << -63, 4 >>, << -63, 0 >>,
     << -60, 7 >>, << -58, 1 >>, << -54, 6 >>, << 58, 15 >>, << 61, 14 >>,
     << 63, 13 >>, << 65, 12 >>, << 67, 11 >>, << 68, 10 >>, << 70, 9 >>,
     << 71, 8 >>, << 179, 23 >>, << 181, 22 >>, << 182, 21 >>, << 184, 20 >>,
     << 186, 19 >>, << 188, 18 >>, << 191, 17 >>, << 197, 16 >> >>

\* The low five bits of the gain register: 0x13 of the FC0012, 0x14 of the
\* FC0013, where the first entry that is not below the request is taken.
LnaBits(model, gain) ==
  IF model = "FC0012"
  THEN CASE gain = -99 -> 2 [] gain = -40 -> 0 [] gain = 71 -> 8
         [] gain = 179 -> 23 [] OTHER -> 16
  ELSE LET t == fc0013_lna_gains
           Enough(n) == n = Len(t) \/ t[n][1] >= gain
       IN  t[CHOOSE n \in DOMAIN t : Enough(n) /\ \A m \in 1..(n - 1) : ~Enough(m)][2]

----------------------------------------------------------------------------
(* FC2580. *)

CRYSTAL_KHZ == 16384
BORDER_FREQ == 2600000

\* RfFreqKhz, rounded from Hz
RoundKhz(hz) == (hz + 500) \div 1000

Fc2580Band(f_lo) ==
  IF f_lo > 1000000 THEN "L" ELSE IF f_lo > 400000 THEN "UHF" ELSE "VHF"

Fc2580Vco(f_lo) ==
  f_lo * (CASE Fc2580Band(f_lo) = "UHF" -> 4 [] Fc2580Band(f_lo) = "L" -> 2 [] OTHER -> 12)

\* r_val, the reference divider.  Mutant: the lower limit is doubled.
RVal_Late(f_vco) == IF f_vco >= 2 * 76 * CRYSTAL_KHZ THEN 1 ELSE 4
RVal(f_vco) == IF f_vco >= 2 * 76 * CRYSTAL_KHZ THEN 1
               ELSE IF f_vco >= 76 * CRYSTAL_KHZ THEN 2 ELSE 4

NVal(f_vco) == (f_vco \div 2) \div (CRYSTAL_KHZ \div RVal(f_vco))

\* k_val in twenty bits, rounded; the difference is shifted by 16 and the
\* divisor by 4 the other way so that it fits an unsigned int.
KVal(f_vco) ==
  LET f_comp == CRYSTAL_KHZ \div RVal(f_vco)
      shifted == (f_vco - 2 * f_comp * NVal(f_vco)) * 65536
      d == (2 * f_comp) \div 16
      k == shifted \div d
  IN  IF shifted - k * d >= f_comp \div 16 THEN k + 1 ELSE k

\* Registers 0x18, 0x1A, 0x1B, 0x1C and bit 3 of 0x02.
Fc2580Pll(f_lo) ==
  LET v == Fc2580Vco(f_lo)
      k == KVal(v)
  IN  [r18 |-> ((CASE RVal(v) = 1 -> 0 [] RVal(v) = 2 -> 16 [] OTHER -> 32)
                  + (k \div 65536)) % 256,
       r1A |-> (k \div 256) % 256, r1B |-> k % 256, r1C |-> NVal(v) % 256,
       highVco |-> v >= BORDER_FREQ]

\* The filter fc2580_set_freq chooses with the band.
BandFilter(band) == CASE band = "UHF" -> 8 [] band = "VHF" -> 7 [] band = "L" -> 1
=============================================================================
