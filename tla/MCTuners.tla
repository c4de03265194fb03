------------------------------ MODULE MCTuners ------------------------------
(***************************************************************************)
(* The tuner drivers, one dongle at a time: the tuner that was found       *)
(* decides which driver's calls are made.                                  *)
(***************************************************************************)
EXTENDS E4k, FcTuner

CONSTANTS Boards, R82xxFreqs, Bws   \* of R82xx

VARIABLES board, priv, shadow, r82xx, gpio5, lost, answer, tuned, asleep

r82xxVars == << board, priv, shadow, r82xx, gpio5, lost, answer, tuned, asleep >>

R == INSTANCE R82xx WITH Freqs <- R82xxFreqs, regs <- shadow, chip <- r82xx,
                         faults <- lost, ret <- answer

\* kHz.  No frequency, a row limit of pll_vars and its neighbours, the limits
\* of the bands, midpoints of the RF filters' centres, and both ends.
MCFreqs == {0, 52000, 72399, 72400, 81200, 108300, 139999, 140000, 162500, 216600,
            325000, 349999, 350000, 370000, 392500, 432000, 650000, 667000,
            1134999, 1135000, 1200000, 1310000, 1427500, 1735000, 2200000}
MCIfGains == { << 1, -3 >>, << 1, 6 >>, << 2, 0 >>, << 2, 9 >>, << 3, 3 >>, << 3, 6 >>,
               << 4, 2 >>, << 4, 5 >>, << 5, 15 >>, << 6, 12 >>, << 6, 4 >> }

\* rtlsdr_get_tuner_gains, and two gains it does not list.
MCGains == {-10, 15, 40, 65, 90, 115, 140, 165, 190, 215, 240, 290, 340, 420} \cup {50, 260}

\* Multiples of 512 Hz: below every divider, the multi 64 row, VHF, both sides
\* of the 300 MHz filter limit, UHF, one with no PLL setting, and GPS.
MCFcFreqs == {512 * n : n \in {97656, 195312, 585937, 586000, 976562, 1855000, 3076171}}
MCFcGains == {-99, 71, 192}

ASSUME FcAssumption ==
  /\ FcFreqs \subseteq Nat /\ FcGains \subseteq Int /\ Pins \subseteq Nat
  /\ {0, 6} \subseteq Pins /\ MaxFcCalls \in Nat /\ MaxFcFaults \in Nat

ASSUME R82xxAssumption ==
  /\ Boards \subseteq {"V4", "V4L", "R828D", "R820T"}
  /\ R82xxFreqs \subseteq Nat /\ Bws \subseteq Nat

NoR82xx == /\ board = "none" /\ priv = 0 /\ shadow = 0 /\ r82xx = 0 /\ gpio5 = 0
           /\ lost = 0 /\ answer = 0 /\ tuned = 0 /\ asleep = 0

MCInit == /\ tuner \in FcChips \cup {"E4000", "R82xx"}
          /\ Init /\ FcInit
          /\ IF tuner = "R82xx" THEN R!Init ELSE NoR82xx

E4kCalls == tuner = "E4000" /\ Next /\ UNCHANGED << fcVars, r82xxVars >>
FcCalls == tuner # "R82xx" /\ FcNext /\ UNCHANGED << vars, r82xxVars >>
R82xxCalls == tuner = "R82xx" /\ R!Next /\ UNCHANGED << vars, fcVars >>

MCSpec == MCInit /\ [][E4kCalls \/ FcCalls \/ R82xxCalls]_<< vars, fcVars, r82xxVars >>

----------------------------------------------------------------------------
\* tuner_r82xx.c:1169-1307: a tuned R82xx listens to the input of its band,
\* with the oscillator moved up exactly for HF (R82xx).
InputSelected == R!InputSelected

\* tuner_r82xx.c:1206-1215: its tracking filter and notch are those for what
\* it is tuned to, whatever was lost before (R82xx).
RfPathMatches == R!RfPathMatches
=============================================================================
