------------------------- MODULE ArithmeticProofs -------------------------
(***************************************************************************)
(* What ArithmeticSweep checks over samples, for all inputs: the filter of *)
(* the R82xx for every bandwidth, the sample rate for every rate that is   *)
(* accepted, the gain for every gain asked for, the synthesizers of the    *)
(* R82xx, FC0012, FC0013 and FC2580 for every frequency, and the hops of   *)
(* rtl_power for every width of a range.                                   *)
(***************************************************************************)
EXTENDS ArithmeticSweep, MathProofs

----------------------------------------------------------------------------
(* The bandwidth. *)

(* Bandwidths only grow, from 0.                                           *)
BwInv == kind = "bw" => x \in Nat

(* A sweep over the bandwidths stays in the naturals.                      *)
LEMMA BwStays ==
    ASSUME BwInv, [Next]_vars
    PROVE  BwInv'
<1>1. BwStep \in Nat
  BY SweepAssumption
<1>2. CASE SweepBw
  BY <1>1, <1>2 DEF SweepBw, Sweep, BwInv
<1>3. CASE SweepFreq \/ SweepFc \/ SweepGain \/ SweepWidth
  BY <1>3 DEF SweepFreq, SweepFc, SweepGain, SweepWidth, Sweep, BwInv, FcKinds
<1>4. CASE SweepRate
  BY <1>4 DEF SweepRate, BwInv
<1>5. CASE UNCHANGED vars
  BY <1>5 DEF vars, BwInv
<1> QED
  BY <1>2, <1>3, <1>4, <1>5 DEF Next

(* r82xx_set_bandwidth chooses, for every width its table serves, a filter *)
(* that covers it while the next narrower one would not, from inside the   *)
(* table, and an intermediate frequency with room for half of it.          *)
THEOREM FilterAlwaysCovers == Spec => []FilterCovers
<1>1. Init => BwInv
  BY DEF Init, BwInv, FcKinds
<1>2. BwInv => FilterCovers
  BY NarrowFilter DEF BwInv, FilterCovers
<1> QED
  BY <1>1, <1>2, BwStays, PTL DEF Spec

----------------------------------------------------------------------------
(* The sample rate. *)

(* Every sample rate that rtlsdr_set_sample_rate accepts, swept from       *)
(* either end of either range as far and as finely as one likes, is the    *)
(* one the dongle then has, and the ratio written is the wanted one        *)
(* without the two bits the hardware lacks (librtlsdr.c:1124-1141).        *)
THEOREM RatesAreKept ==
    ASSUME Xtals \subseteq Nominal
    PROVE  Spec => []RateIsExact
<1> DEFINE Inv == xtal \in Xtals /\ (RateSwept => x \in Int)
<1>1. Init => Inv
  BY SMT DEF Init, RateSwept, RatesUp, RatesDown, FcKinds
<1>2. Inv /\ [Next]_vars => Inv'
  <2>1. RateStep \in Nat
    BY SweepAssumption, SMT DEF SweepAssumption
  <2>2. ASSUME Inv, SweepRate PROVE Inv'
    BY <2>1, <2>2, SMT DEF SweepRate, RateSwept
  <2>3. ASSUME Inv, SweepFreq \/ SweepFc \/ SweepBw \/ SweepGain
                 \/ SweepWidth PROVE Inv'
    BY <2>3, SMT DEF SweepFreq, SweepFc, SweepBw, SweepGain, SweepWidth,
       Sweep, RateSwept, FcKinds
  <2>4. ASSUME Inv, UNCHANGED vars PROVE Inv'
    BY <2>4, SMT DEF vars, RateSwept
  <2> QED
    BY <2>2, <2>3, <2>4, SMT DEF Next
<1>3. Inv => RateIsExact
  <2> SUFFICES ASSUME xtal \in Nominal, x \in Int, RateSupported(x)
               PROVE  /\ real_rsamp_ratio(xtal, x)
                         = WantedRatio(xtal, x) - (WantedRatio(xtal, x) % 4)
                      /\ real_rate(xtal, x) = x
    BY SMT DEF RateIsExact
  <2>1. x \in Nat
    BY SMT DEF RateSupported
  <2>2. xtal \in Nat /\ xtal >= LeastXtal /\ ResamplerReaches(xtal, x)
    BY <2>1, NominalReaches
  <2> QED
    BY <2>1, <2>2, RateIsKept, SMT
<1> QED
  BY <1>1, <1>2, <1>3, PTL DEF Spec

----------------------------------------------------------------------------
(* The gains. *)

(* The gain after m half turns of the loop in r82xx_set_gain.              *)
Totals == << 0, 9, 14, 27, 37, 77, 87, 125, 144, 157, 166, 197, 207, 229,
    254, 280, 297, 328, 338, 364, 372, 386, 402, 421, 434, 439, 445, 480,
        483, 496, 488 >>

(* These are the sums of the steps, and the numbers that the loop          *)
(* compares.                                                               *)
LEMMA TotalsAre ==
    /\ \A i \in 1..31 : Totals[i] \in Int
    /\ \A k \in 1..15 : /\ Totals[2 * k] = Totals[2 * k - 1] + LnaSteps[k]
                        /\ Totals[2 * k + 1] = Totals[2 * k] + MixerSteps[k]
<1>1. \A i \in 1..31 : Totals[i] \in Int
  <2>1. \A i \in {1, 2, 3, 4, 5, 6, 7, 8, 9, 10, 11, 12, 13, 14,
          15} : Totals[i] \in Int
    BY SMT DEF Totals
  <2>2. \A i \in {16, 17, 18, 19, 20, 21, 22, 23, 24, 25, 26, 27, 28, 29, 30,
          31} : Totals[i] \in Int
    BY SMT DEF Totals
  <2>3. \A i \in 1..31 : i \in {1, 2, 3, 4, 5, 6, 7, 8, 9, 10, 11, 12, 13,
          14, 15} \/ i \in {16, 17, 18, 19, 20, 21, 22, 23, 24, 25, 26, 27,
              28, 29, 30, 31}
    BY SMT
  <2> QED
    BY <2>1, <2>2, <2>3
<1> DEFINE Right(k) == Totals[2 * k] = Totals[2 * k - 1] + LnaSteps[k]
      /\ Totals[2 * k + 1] = Totals[2 * k] + MixerSteps[k]
<1>2. \A k \in {1, 2, 3, 4, 5} : Right(k)
  BY SMT DEF Totals, LnaSteps, MixerSteps
<1>3. \A k \in {6, 7, 8, 9, 10} : Right(k)
  BY SMT DEF Totals, LnaSteps, MixerSteps
<1>4. \A k \in {11, 12, 13, 14, 15} : Right(k)
  BY SMT DEF Totals, LnaSteps, MixerSteps
<1>5. \A k \in 1..15 : k \in {1, 2, 3, 4, 5} \/ k \in {6, 7, 8, 9, 10}
        \/ k \in {11, 12, 13, 14, 15}
  BY SMT
<1> HIDE DEF Right
<1>6. \A k \in 1..15 : Right(k)
  BY <1>2, <1>3, <1>4, <1>5
<1> QED
  BY <1>1, <1>6 DEF Right

(* They rise, but for the last.                                            *)
LEMMA TotalsRise == \A i \in 1..29 : Totals[i] <= Totals[i + 1]
<1>1. \A i \in {1, 2, 3, 4, 5, 6, 7, 8, 9, 10, 11, 12, 13, 14,
        15} : Totals[i] <= Totals[i + 1]
  BY SMT DEF Totals
<1>2. \A i \in {16, 17, 18, 19, 20, 21, 22, 23, 24, 25, 26, 27, 28,
        29} : Totals[i] <= Totals[i + 1]
  BY SMT DEF Totals
<1>3. \A i \in 1..29 : i \in {1, 2, 3, 4, 5, 6, 7, 8, 9, 10, 11, 12, 13, 14,
        15} \/ i \in {16, 17, 18, 19, 20, 21, 22, 23, 24, 25, 26, 27, 28, 29}
  BY SMT
<1> QED
  BY <1>1, <1>2, <1>3

(* Every gain that is listed is one of them.                               *)
LEMMA GainsListed == \A g \in r82xx_gains : g \in Int
    /\ \E j \in 1..30 : Totals[j] = g
<1>1. \A g \in r82xx_gains : g \in {0, 9, 14, 27, 37, 77, 87, 125, 144, 157,
        166, 197, 207, 229, 254} \/ g \in {280, 297, 328, 338, 364, 372, 386,
            402, 421, 434, 439, 445, 480, 496}
  BY SMT DEF r82xx_gains
<1>2. /\ Totals[1] = 0
      /\ Totals[2] = 9
      /\ Totals[3] = 14
      /\ Totals[4] = 27
      /\ Totals[5] = 37
      /\ Totals[6] = 77
      /\ Totals[7] = 87
      /\ Totals[8] = 125
      /\ Totals[9] = 144
      /\ Totals[10] = 157
      /\ Totals[11] = 166
      /\ Totals[12] = 197
      /\ Totals[13] = 207
      /\ Totals[14] = 229
      /\ Totals[15] = 254
  BY SMT DEF Totals
<1>3. /\ Totals[16] = 280
      /\ Totals[17] = 297
      /\ Totals[18] = 328
      /\ Totals[19] = 338
      /\ Totals[20] = 364
      /\ Totals[21] = 372
      /\ Totals[22] = 386
      /\ Totals[23] = 402
      /\ Totals[24] = 421
      /\ Totals[25] = 434
      /\ Totals[26] = 439
      /\ Totals[27] = 445
      /\ Totals[28] = 480
      /\ Totals[30] = 496
  BY SMT DEF Totals
<1>4. \A g \in {0, 9, 14, 27, 37, 77, 87, 125, 144, 157, 166, 197, 207, 229,
        254} : g \in Int /\ \E j \in 1..30 : Totals[j] = g
  BY <1>2
<1>5. \A g \in {280, 297, 328, 338, 364, 372, 386, 402, 421, 434, 439, 445,
        480, 496} : g \in Int /\ \E j \in 1..30 : Totals[j] = g
  BY <1>3
<1> DEFINE A == {0, 9, 14, 27, 37, 77, 87, 125, 144, 157, 166, 197, 207, 229,
      254}
           B == {280, 297, 328, 338, 364, 372, 386, 402, 421, 434, 439, 445,
               480, 496}
           Listed(g) == g \in Int /\ \E j \in 1..30 : Totals[j] = g
<1>6. (\A g \in r82xx_gains : g \in A \/ g \in B) /\ (\A g \in A : Listed(g))
        /\ (\A g \in B : Listed(g))
  BY <1>1, <1>4, <1>5
<1> HIDE DEF A, B, Listed
<1>7. \A g \in r82xx_gains : Listed(g)
  BY <1>6
<1> QED
  BY <1>7 DEF Listed

(* What m half turns have set.                                             *)
Setting(m) == [total |-> Totals[m + 1], lna |-> (m + 1) \div 2,
    mix |-> m \div 2]

(* The loop after its n-th half turn stands at p.                          *)
HalfTurn(p, n) ==
  IF n % 2 = 1 THEN [p EXCEPT !.lna = @ + 1, !.total
      = @ + LnaSteps[p.lna + 1]]
               ELSE [p EXCEPT !.mix = @ + 1, !.total
                   = @ + MixerSteps[p.mix + 1]]

(* So a later total is not less.                                           *)
LEMMA TotalsMonotone ==
    ASSUME NEW i \in 1..30, NEW j \in 1..30, i <= j
    PROVE  Totals[i] <= Totals[j]
<1> DEFINE E == {k \in Nat : i + k \in 1..30 => Totals[i] <= Totals[i + k]}
<1>1. 0 \in E
  BY TotalsAre
<1>2. ASSUME NEW k \in Nat, k \in E PROVE k + 1 \in E
  <2> SUFFICES ASSUME i + (k + 1) \in 1..30
                 PROVE Totals[i] <= Totals[i + (k + 1)]
    OBVIOUS
  <2> DEFINE m == i + k
  <2>1. m \in 1..29 /\ i + (k + 1) = m + 1 /\ Totals[i] <= Totals[m]
    BY <1>2
  <2>2. Totals[i] \in Int /\ Totals[m] \in Int /\ Totals[m + 1] \in Int
    BY <2>1, TotalsAre
  <2> HIDE DEF m
  <2>3. Totals[m] <= Totals[m + 1]
    BY <2>1, TotalsRise
  <2> QED
    BY <2>1, <2>2, <2>3
<1> HIDE DEF E
<1>3. \A k \in Nat : k \in E
  BY <1>1, <1>2, Induction
<1> DEFINE d == j - i
<1>4. d \in Nat /\ i + d = j
  OBVIOUS
<1> HIDE DEF d
<1> QED
  BY <1>3, <1>4 DEF E

(* Every half turn adds the step of the LNA or of the mixer.               *)
LEMMA HalfTurnIs ==
    ASSUME NEW t, NEW l, NEW m, NEW n
    PROVE  LET p == [total |-> t, lna |-> l, mix |-> m]
           IN  /\ n % 2 = 1 => HalfTurn(p, n)
                  = [total |-> t + LnaSteps[l + 1], lna |-> l + 1, mix |-> m]
               /\ n % 2 # 1 => HalfTurn(p, n)
                  = [total |-> t + MixerSteps[m + 1], lna |-> l,
                      mix |-> m + 1]
BY DEF HalfTurn

(* After m half turns the loop stands at the m-th setting, unless it has   *)
(* stopped (tuner_r82xx.c:993-1003).                                       *)
LEMMA HalfTurnSets ==
    ASSUME NEW m \in 0..29
    PROVE  HalfTurn(Setting(m), m + 1) = Setting(m + 1)
<1> DEFINE t == Totals[m + 1]  l == (m + 1) \div 2  mx == m \div 2
<1>0. Setting(m) = [total |-> t, lna |-> l, mix |-> mx]
  BY DEF Setting
<1>1. /\ (m + 1) % 2 = 1 =>
           HalfTurn(Setting(m), m + 1) =
             [total |-> Totals[m + 1] + LnaSteps[(m + 1) \div 2 + 1],
              lna |-> (m + 1) \div 2 + 1, mix |-> m \div 2]
      /\ (m + 1) % 2 # 1 =>
           HalfTurn(Setting(m), m + 1) =
             [total |-> Totals[m + 1] + MixerSteps[m \div 2 + 1],
              lna |-> (m + 1) \div 2, mix |-> m \div 2 + 1]
  <2> DEFINE n == m + 1
  <2>1. /\ n % 2 = 1 => HalfTurn(Setting(m), n)
           = [total |-> t + LnaSteps[l + 1], lna |-> l + 1, mix |-> mx]
        /\ n % 2 # 1 => HalfTurn(Setting(m), n)
           = [total |-> t + MixerSteps[mx + 1], lna |-> l, mix |-> mx + 1]
    <3> HIDE DEF t, l, mx, n
    <3> QED
      BY <1>0, HalfTurnIs
  <2> QED
    BY <2>1
<1> HIDE DEF t, l, mx
<1>2. CASE \E k \in 0..14 : m = 2 * k
  <2>1. PICK k \in 0..14 : m = 2 * k
    BY <1>2
  <2>2. /\ (m + 1) % 2 = 1 /\ (m + 1) \div 2 = k /\ m \div 2 = k
        /\ ((m + 1) + 1) \div 2 = k + 1
    BY <2>1
  <2> DEFINE i == k + 1
  <2>3. i \in 1..15 /\ 2 * i - 1 = m + 1 /\ 2 * i = (m + 1) + 1 /\ k + 1 = i
    BY <2>1
  <2>4. Totals[2 * i] = Totals[2 * i - 1] + LnaSteps[i]
    BY <2>3, TotalsAre
  <2>5. Totals[(m + 1) + 1] = Totals[m + 1] + LnaSteps[i]
    BY <2>3, <2>4
  <2> HIDE DEF i
  <2> QED
    BY <1>1, <2>2, <2>3, <2>5 DEF Setting
<1>3. CASE \E k \in 0..14 : m = 2 * k + 1
  <2>1. PICK k \in 0..14 : m = 2 * k + 1
    BY <1>3
  <2>2. /\ (m + 1) % 2 # 1 /\ (m + 1) \div 2 = k + 1 /\ m \div 2 = k
        /\ ((m + 1) + 1) \div 2 = k + 1
    BY <2>1
  <2> DEFINE i == k + 1
  <2>3. i \in 1..15 /\ 2 * i = m + 1 /\ 2 * i + 1 = (m + 1) + 1 /\ k + 1 = i
    BY <2>1
  <2>4. Totals[2 * i + 1] = Totals[2 * i] + MixerSteps[i]
    BY <2>3, TotalsAre
  <2>5. Totals[(m + 1) + 1] = Totals[m + 1] + MixerSteps[i]
    BY <2>3, <2>4
  <2>6. (m + 1) \div 2 = k + 1
    BY <2>2
  <2> HIDE DEF i
  <2> QED
    BY <1>1, <2>2, <2>3, <2>5 DEF Setting
<1>4. (\E k \in 0..14 : m = 2 * k) \/ (\E k \in 0..14 : m = 2 * k + 1)
  <2>1. m = 2 * (m \div 2) \/ m = 2 * (m \div 2) + 1
    OBVIOUS
  <2>2. m \div 2 \in 0..14
    OBVIOUS
  <2> QED
    BY <2>1, <2>2
<1> QED
  BY <1>2, <1>3, <1>4

(* The loop stops at the first total that is not below the request.        *)
StopsAt(gain, m) ==
  m \in 0..30 /\ (\A j \in 1..m : Totals[j] < gain)
      /\ (m < 30 => Totals[m + 1] >= gain)

(* There is one.                                                           *)
LEMMA StopExists ==
    ASSUME NEW gain \in Int
    PROVE  \E m \in 0..30 : StopsAt(gain, m)
<1> DEFINE S == {m \in 0..30 : m < 30 => Totals[m + 1] >= gain}
<1>1. S \subseteq Nat /\ 30 \in S
  OBVIOUS
<1> HIDE DEF S
<1>2. PICK m \in S : \A y \in S : m <= y
  BY <1>1, LeastNatural
<1>3. m \in 0..30 /\ (m < 30 => Totals[m + 1] >= gain)
  BY <1>2 DEF S
<1>4. ASSUME NEW j \in 1..m PROVE Totals[j] < gain
  <2> DEFINE i == j - 1
  <2>1. i \in 0..30 /\ i < m /\ i < 30 /\ i + 1 = j /\ j \in 1..31
    BY <1>3
  <2> HIDE DEF i
  <2>2. i \notin S
    BY <1>2, <1>3, <2>1
  <2>3. ~(Totals[i + 1] >= gain)
    BY <2>1, <2>2 DEF S
  <2> QED
    BY <2>1, <2>3, TotalsAre
<1> QED
  BY <1>3, <1>4 DEF StopsAt

(* The setting is the first one whose total is not below the request, or   *)
(* the last one.                                                           *)
LEMMA GainStops ==
    ASSUME NEW gain \in Int, NEW stop, StopsAt(gain, stop)
    PROVE  GainSetting(gain) = Setting(stop)
<1> DEFINE Done(f) ==
      [n \in 0..30 |->
          IF n = 0 THEN [total |-> 0, lna |-> 0, mix |-> 0]
          ELSE LET p == f[n - 1]
               IN  IF p.total >= gain THEN p
                   ELSE IF n % 2 = 1
                        THEN [p EXCEPT !.lna = @ + 1,
                                       !.total = @ + LnaSteps[p.lna + 1]]
                        ELSE [p EXCEPT !.mix = @ + 1,
                                       !.total = @ + MixerSteps[p.mix + 1]]]
           Turn(p, n) == IF p.total >= gain THEN p ELSE HalfTurn(p, n)
           At(n) == Setting(IF n <= stop THEN n ELSE stop)
           c == [n \in 0..30 |-> At(n)]
<1>1. stop \in 0..30
  BY DEF StopsAt
<1>2. \A f : Done(f) = [n \in 0..30 |-> Done(f)[n]] /\ Done(f)[0]
        = [total |-> 0, lna |-> 0, mix |-> 0]
  OBVIOUS
<1>3. \A f : \A n \in 1..30 : Done(f)[n] = Turn(f[n - 1], n)
  BY DEF HalfTurn
<1> HIDE DEF Done
<1>4. At(0) = [total |-> 0, lna |-> 0, mix |-> 0]
  <2>1. Totals[0 + 1] = 0
    BY SMT DEF Totals
  <2>2. (0 + 1) \div 2 = 0 /\ 0 \div 2 = 0
    OBVIOUS
  <2> QED
    BY <1>1, <2>1, <2>2 DEF Setting
<1>5. \A n \in 1..30 : Turn(At(n - 1), n) = At(n)
  <2> SUFFICES ASSUME NEW n \in 1..30 PROVE Turn(At(n - 1), n) = At(n)
    OBVIOUS
  <2> DEFINE m == n - 1
  <2>1. m \in 0..29 /\ m + 1 = n
    OBVIOUS
  <2> HIDE DEF m
  <2>2. \A i : Setting(i).total = Totals[i + 1]
    BY DEF Setting
  <2>3. CASE m < stop
    <3>1. At(m) = Setting(m) /\ At(n) = Setting(n)
      BY <1>1, <2>1, <2>3
    <3>2. Totals[n] < gain /\ Totals[n] \in Int
      <4>1. n \in 1..stop
        BY <1>1, <2>1, <2>3
      <4> QED
        BY <4>1, TotalsAre DEF StopsAt
    <3>3. ~(Setting(m).total >= gain)
      BY <2>1, <2>2, <3>2
    <3>4. HalfTurn(Setting(m), n) = Setting(n)
      BY <2>1, HalfTurnSets
    <3> HIDE DEF At
    <3> QED
      BY <3>1, <3>3, <3>4 DEF m
  <2>4. CASE ~(m < stop)
    <3>1. At(m) = Setting(stop) /\ At(n) = Setting(stop)
      BY <1>1, <2>1, <2>4
    <3>2. stop < 30
      BY <1>1, <2>1, <2>4
    <3>3. Setting(stop).total >= gain
      BY <2>2, <3>2 DEF StopsAt
    <3> HIDE DEF At
    <3> QED
      BY <3>1, <3>3 DEF m
  <2> QED
    BY <2>3, <2>4
<1> HIDE DEF At, Turn
<1>6. c = Done(c)
  <2> DEFINE dc == Done(c)
  <2>1. \A n \in 0..30 : c[n] = dc[n]
    <3> SUFFICES ASSUME NEW n \in 0..30 PROVE c[n] = dc[n]
      OBVIOUS
    <3>1. CASE n = 0
      BY <3>1, <1>2, <1>4
    <3>2. CASE n # 0
      <4>1. n \in 1..30 /\ n - 1 \in 0..30
        BY <3>2
      <4>2. dc[n] = Turn(c[n - 1], n)
        BY <4>1, <1>3
      <4>3. c[n - 1] = At(n - 1) /\ c[n] = At(n)
        BY <4>1
      <4> QED
        BY <4>1, <4>2, <4>3, <1>5
    <3> QED
      BY <3>1, <3>2
  <2>2. c = [n \in 0..30 |-> c[n]] /\ dc = [n \in 0..30 |-> dc[n]]
    BY <1>2
  <2> HIDE DEF c, dc
  <2>3. c = dc
    BY <2>1, <2>2
  <2> QED
    BY <2>3 DEF dc
<1> DEFINE after == CHOOSE f : f = Done(f)
<1>7. after = Done(after)
  <2> HIDE DEF c
  <2> QED
    BY <1>6
<1>8. GainSetting(gain) = after[30]
  BY DEF GainSetting, GainAfter, Done
<1>9. after[0] = At(0) /\ \A n \in 1..30 : after[n] = Turn(after[n - 1], n)
  <2> DEFINE da == Done(after)
  <2>1. da[0] = At(0) /\ \A n \in 1..30 : da[n] = Turn(after[n - 1], n)
    BY <1>2, <1>3, <1>4
  <2>2. after = da
    BY <1>7
  <2> HIDE DEF after, da
  <2> QED
    BY <2>1, <2>2
<1> HIDE DEF c, after
<1> DEFINE E == {n \in Nat : n \in 0..30 => after[n] = At(n)}
<1>10. 0 \in E
  BY <1>9
<1>11. ASSUME NEW n \in Nat, n \in E PROVE n + 1 \in E
  <2> SUFFICES ASSUME n + 1 \in 0..30 PROVE after[n + 1] = At(n + 1)
    OBVIOUS
  <2> DEFINE m == n + 1
  <2>1. m \in 1..30 /\ m - 1 = n /\ after[n] = At(n)
    BY <1>11
  <2> HIDE DEF m
  <2>2. after[m] = Turn(after[n], m) /\ Turn(At(n), m) = At(m)
    BY <2>1, <1>5, <1>9
  <2> QED
    BY <2>1, <2>2 DEF m
<1> HIDE DEF E
<1>12. \A n \in Nat : n \in E
  BY <1>10, <1>11, Induction
<1>13. after[30] = At(30)
  BY <1>12 DEF E
<1>14. At(30) = Setting(stop)
  BY <1>1 DEF At
<1> QED
  BY <1>8, <1>13, <1>14

(* For each step of the FC0013, the bits that are written.                 *)
Fc0013Step == << 5, 7, 1, 2, 4, 3, 8, 6, 16, 15, 14, 13, 12, 11, 10, 9, 24,
    23, 22, 21, 20, 19, 18, 17 >>

(* The FC0013's table, row by row (tuner_fc0013.c:449-474).                *)
LEMMA Fc0013Table ==
    /\ Len(fc0013_lna_gains) = 24
    /\ DOMAIN fc0013_lna_gains = 1..24
    /\ \A n \in 1..24 : /\ fc0013_lna_gains[n][1] \in Int
                        /\ Fc0013Step[fc0013_lna_gains[n][2] + 1] = n
    /\ \A n \in 1..23 : fc0013_lna_gains[n][1] <= fc0013_lna_gains[n + 1][1]
<1>1. Len(fc0013_lna_gains) = 24 /\ DOMAIN fc0013_lna_gains = 1..24
  BY SMT DEF fc0013_lna_gains
<1> DEFINE Right(n) == /\ fc0013_lna_gains[n][1] \in Int
                       /\ Fc0013Step[fc0013_lna_gains[n][2] + 1] = n
                       /\ n # 24
                          => fc0013_lna_gains[n][1] <= fc0013_lna_gains[n + 1][1]
           A == {1, 2, 3, 4, 5, 6, 7, 8}
           B == {9, 10, 11, 12, 13, 14, 15, 16}
           C == {17, 18, 19, 20, 21, 22, 23, 24}
<1>2. \A n \in A : Right(n)
  <2>1. Right(1)
    BY SMT DEF fc0013_lna_gains, Fc0013Step
  <2>2. Right(2)
    BY SMT DEF fc0013_lna_gains, Fc0013Step
  <2>3. Right(3)
    BY SMT DEF fc0013_lna_gains, Fc0013Step
  <2>4. Right(4)
    BY SMT DEF fc0013_lna_gains, Fc0013Step
  <2>5. Right(5)
    BY SMT DEF fc0013_lna_gains, Fc0013Step
  <2>6. Right(6)
    BY SMT DEF fc0013_lna_gains, Fc0013Step
  <2>7. Right(7)
    BY SMT DEF fc0013_lna_gains, Fc0013Step
  <2>8. Right(8)
    BY SMT DEF fc0013_lna_gains, Fc0013Step
  <2> HIDE DEF Right
  <2> QED
    BY <2>1, <2>2, <2>3, <2>4, <2>5, <2>6, <2>7, <2>8
<1>3. \A n \in B : Right(n)
  <2>1. Right(9)
    BY SMT DEF fc0013_lna_gains, Fc0013Step
  <2>2. Right(10)
    BY SMT DEF fc0013_lna_gains, Fc0013Step
  <2>3. Right(11)
    BY SMT DEF fc0013_lna_gains, Fc0013Step
  <2>4. Right(12)
    BY SMT DEF fc0013_lna_gains, Fc0013Step
  <2>5. Right(13)
    BY SMT DEF fc0013_lna_gains, Fc0013Step
  <2>6. Right(14)
    BY SMT DEF fc0013_lna_gains, Fc0013Step
  <2>7. Right(15)
    BY SMT DEF fc0013_lna_gains, Fc0013Step
  <2>8. Right(16)
    BY SMT DEF fc0013_lna_gains, Fc0013Step
  <2> HIDE DEF Right
  <2> QED
    BY <2>1, <2>2, <2>3, <2>4, <2>5, <2>6, <2>7, <2>8
<1>4. \A n \in C : Right(n)
  <2>1. Right(17)
    BY SMT DEF fc0013_lna_gains, Fc0013Step
  <2>2. Right(18)
    BY SMT DEF fc0013_lna_gains, Fc0013Step
  <2>3. Right(19)
    BY SMT DEF fc0013_lna_gains, Fc0013Step
  <2>4. Right(20)
    BY SMT DEF fc0013_lna_gains, Fc0013Step
  <2>5. Right(21)
    BY SMT DEF fc0013_lna_gains, Fc0013Step
  <2>6. Right(22)
    BY SMT DEF fc0013_lna_gains, Fc0013Step
  <2>7. Right(23)
    BY SMT DEF fc0013_lna_gains, Fc0013Step
  <2>8. Right(24)
    BY SMT DEF fc0013_lna_gains, Fc0013Step
  <2> HIDE DEF Right
  <2> QED
    BY <2>1, <2>2, <2>3, <2>4, <2>5, <2>6, <2>7, <2>8
<1>5. \A n \in 1..24 : n \in A \/ n \in B \/ n \in C
  BY SMT
<1> HIDE DEF A, B, C, Right
<1>6. \A n \in 1..24 : Right(n)
  BY <1>2, <1>3, <1>4, <1>5
<1>7. \A n \in 1..23 : n \in 1..24 /\ n # 24
  OBVIOUS
<1> QED
  BY <1>1, <1>6, <1>7 DEF Right

(* Every gain that is listed for it is in its table.                       *)
LEMMA Fc0013Listed == \A g \in fc0013_gains : g \in Int
    /\ \E n \in 1..24 : fc0013_lna_gains[n][1] = g
<1> DEFINE A == {-99, -73, -65, -63, -60, -58, -54, 58, 61, 63, 65, 67}
           B == {68, 70, 71, 179, 181, 182, 184, 186, 188, 191, 197}
           Listed(g) == g \in Int /\ \E n \in 1..24 : fc0013_lna_gains[n][1]
               = g
<1>1. \A g \in fc0013_gains : g \in A \/ g \in B
  BY SMT DEF fc0013_gains
<1>2. \A g \in A : Listed(g)
  <2>1. Listed(-99)
    <3>1. fc0013_lna_gains[1][1] = -99
      BY SMT DEF fc0013_lna_gains
    <3> QED
      BY <3>1
  <2>2. Listed(-73)
    <3>1. fc0013_lna_gains[2][1] = -73
      BY SMT DEF fc0013_lna_gains
    <3> QED
      BY <3>1
  <2>3. Listed(-65)
    <3>1. fc0013_lna_gains[3][1] = -65
      BY SMT DEF fc0013_lna_gains
    <3> QED
      BY <3>1
  <2>4. Listed(-63)
    <3>1. fc0013_lna_gains[4][1] = -63
      BY SMT DEF fc0013_lna_gains
    <3> QED
      BY <3>1
  <2>5. Listed(-60)
    <3>1. fc0013_lna_gains[6][1] = -60
      BY SMT DEF fc0013_lna_gains
    <3> QED
      BY <3>1
  <2>6. Listed(-58)
    <3>1. fc0013_lna_gains[7][1] = -58
      BY SMT DEF fc0013_lna_gains
    <3> QED
      BY <3>1
  <2>7. Listed(-54)
    <3>1. fc0013_lna_gains[8][1] = -54
      BY SMT DEF fc0013_lna_gains
    <3> QED
      BY <3>1
  <2>8. Listed(58)
    <3>1. fc0013_lna_gains[9][1] = 58
      BY SMT DEF fc0013_lna_gains
    <3> QED
      BY <3>1
  <2>9. Listed(61)
    <3>1. fc0013_lna_gains[10][1] = 61
      BY SMT DEF fc0013_lna_gains
    <3> QED
      BY <3>1
  <2>10. Listed(63)
    <3>1. fc0013_lna_gains[11][1] = 63
      BY SMT DEF fc0013_lna_gains
    <3> QED
      BY <3>1
  <2>11. Listed(65)
    <3>1. fc0013_lna_gains[12][1] = 65
      BY SMT DEF fc0013_lna_gains
    <3> QED
      BY <3>1
  <2>12. Listed(67)
    <3>1. fc0013_lna_gains[13][1] = 67
      BY SMT DEF fc0013_lna_gains
    <3> QED
      BY <3>1
  <2> HIDE DEF Listed
  <2> QED
    BY <2>1, <2>2, <2>3, <2>4, <2>5, <2>6, <2>7, <2>8, <2>9, <2>10, <2>11,
       <2>12
<1>3. \A g \in B : Listed(g)
  <2>1. Listed(68)
    <3>1. fc0013_lna_gains[14][1] = 68
      BY SMT DEF fc0013_lna_gains
    <3> QED
      BY <3>1
  <2>2. Listed(70)
    <3>1. fc0013_lna_gains[15][1] = 70
      BY SMT DEF fc0013_lna_gains
    <3> QED
      BY <3>1
  <2>3. Listed(71)
    <3>1. fc0013_lna_gains[16][1] = 71
      BY SMT DEF fc0013_lna_gains
    <3> QED
      BY <3>1
  <2>4. Listed(179)
    <3>1. fc0013_lna_gains[17][1] = 179
      BY SMT DEF fc0013_lna_gains
    <3> QED
      BY <3>1
  <2>5. Listed(181)
    <3>1. fc0013_lna_gains[18][1] = 181
      BY SMT DEF fc0013_lna_gains
    <3> QED
      BY <3>1
  <2>6. Listed(182)
    <3>1. fc0013_lna_gains[19][1] = 182
      BY SMT DEF fc0013_lna_gains
    <3> QED
      BY <3>1
  <2>7. Listed(184)
    <3>1. fc0013_lna_gains[20][1] = 184
      BY SMT DEF fc0013_lna_gains
    <3> QED
      BY <3>1
  <2>8. Listed(186)
    <3>1. fc0013_lna_gains[21][1] = 186
      BY SMT DEF fc0013_lna_gains
    <3> QED
      BY <3>1
  <2>9. Listed(188)
    <3>1. fc0013_lna_gains[22][1] = 188
      BY SMT DEF fc0013_lna_gains
    <3> QED
      BY <3>1
  <2>10. Listed(191)
    <3>1. fc0013_lna_gains[23][1] = 191
      BY SMT DEF fc0013_lna_gains
    <3> QED
      BY <3>1
  <2>11. Listed(197)
    <3>1. fc0013_lna_gains[24][1] = 197
      BY SMT DEF fc0013_lna_gains
    <3> QED
      BY <3>1
  <2> HIDE DEF Listed
  <2> QED
    BY <2>1, <2>2, <2>3, <2>4, <2>5, <2>6, <2>7, <2>8, <2>9, <2>10, <2>11
<1> HIDE DEF A, B, Listed
<1>4. \A g \in fc0013_gains : Listed(g)
  BY <1>1, <1>2, <1>3
<1> QED
  BY <1>4 DEF Listed

(* Its gains rise.                                                         *)
LEMMA Fc0013Rises ==
    ASSUME NEW i \in 1..24, NEW j \in 1..24, i <= j
    PROVE  fc0013_lna_gains[i][1] <= fc0013_lna_gains[j][1]
<1> DEFINE G(n) == fc0013_lna_gains[n][1]
           E == {k \in Nat : i + k \in 1..24 => G(i) <= G(i + k)}
<1>0. (\A n \in 1..24 : G(n) \in Int) /\ (\A n \in 1..23 : G(n) <= G(n + 1))
  BY Fc0013Table
<1> HIDE DEF G
<1>1. 0 \in E
  BY <1>0
<1>2. ASSUME NEW k \in Nat, k \in E PROVE k + 1 \in E
  <2> SUFFICES ASSUME i + (k + 1) \in 1..24 PROVE G(i) <= G(i + (k + 1))
    OBVIOUS
  <2> DEFINE m == i + k
  <2>1. m \in 1..23 /\ i + (k + 1) = m + 1 /\ G(i) <= G(m)
    BY <1>2
  <2>2. G(i) \in Int /\ G(m) \in Int /\ G(m + 1) \in Int
    BY <2>1, <1>0
  <2> HIDE DEF m
  <2>3. G(m) <= G(m + 1)
    BY <2>1, <1>0
  <2> QED
    BY <2>1, <2>2, <2>3
<1> HIDE DEF E
<1>3. \A k \in Nat : k \in E
  BY <1>1, <1>2, Induction
<1> DEFINE d == j - i
<1>4. d \in Nat /\ i + d = j
  OBVIOUS
<1> HIDE DEF d
<1>5. G(i) <= G(j)
  BY <1>3, <1>4 DEF E
<1> QED
  BY <1>5 DEF G

(* A gain that is listed is set exactly (tuner_fc0013.c:476-494).          *)
LEMMA Fc0013Exact ==
    ASSUME NEW g \in fc0013_gains
    PROVE  Fc0013Total(g) = g
<1> DEFINE t == fc0013_lna_gains
           G(n) == t[n][1]
           S == {n \in 1..24 : n = 24 \/ G(n) >= g}
           First(n) == (n = 24 \/ G(n) >= g) /\ \A m \in 1..(n - 1) : ~(m
               = 24 \/ G(m) >= g)
           k == CHOOSE n \in 1..24 : First(n)
           u == CHOOSE n \in 1..24 : t[n][2] = t[k][2]
<1>1. LnaBits("FC0013", g) = t[k][2]
  <2>1. Len(t) = 24 /\ DOMAIN t = 1..24
    BY Fc0013Table
  <2> QED
    BY <2>1 DEF LnaBits
<1>2. Fc0013Total(g) = t[u][1]
  <2>1. Fc0013Total(g) = t[CHOOSE n \in DOMAIN t : t[n][2]
          = LnaBits("FC0013", g)][1]
    BY DEF Fc0013Total
  <2>2. DOMAIN t = 1..24
    BY Fc0013Table
  <2> HIDE DEF t, k
  <2> QED
    BY <1>1, <2>1, <2>2
<1>3. g \in Int /\ \E n \in 1..24 : G(n) = g
  BY Fc0013Listed
<1>4. \A n \in 1..24 : G(n) \in Int
  BY Fc0013Table
<1>5. S \subseteq Nat /\ 24 \in S
  OBVIOUS
<1>6. PICK least \in S : \A y \in S : least <= y
  <2> HIDE DEF S
  <2> QED
    BY <1>5, LeastNatural
<1> HIDE DEF G
<1>7. First(least)
  <2>1. ASSUME NEW m \in 1..(least - 1) PROVE ~(m = 24 \/ G(m) >= g)
    <3>1. m \in 1..24 /\ m < least
      OBVIOUS
    <3>2. m \notin S
      BY <1>6, <3>1
    <3> QED
      BY <3>1, <3>2
  <2> QED
    BY <2>1
<1>8. k \in 1..24 /\ First(k)
  <2>1. least \in 1..24
    OBVIOUS
  <2> HIDE DEF First
  <2> QED
    BY <2>1, <1>7
<1> HIDE DEF k, S, t
<1>9. G(k) = g
  <2>1. PICK j \in 1..24 : G(j) = g
    BY <1>3
  <2>2. k <= j
    <3>1. k > j => j \in 1..(k - 1)
      BY <1>8
    <3> QED
      BY <1>3, <1>8, <2>1, <3>1
  <2>3. G(k) <= G(j)
    BY <1>8, <2>2, Fc0013Rises DEF G, t
  <2>4. k = 24 => k = j
    BY <2>2
  <2> QED
    BY <1>3, <1>4, <1>8, <2>1, <2>3, <2>4
<1>10. u \in 1..24 /\ t[u][2] = t[k][2]
  BY <1>8
<1> HIDE DEF u
<1>11. u = k
  <2>1. Fc0013Step[t[u][2] + 1] = u /\ Fc0013Step[t[k][2] + 1] = k
    BY <1>8, <1>10, Fc0013Table DEF t
  <2> QED
    BY <1>10, <2>1
<1> QED
  BY <1>2, <1>9, <1>11 DEF G

(* The five gains of the FC0012 are five values of its register            *)
(* (tuner_fc0012.c:324-340).                                               *)
LEMMA Fc0012Differ ==
    ASSUME NEW g \in fc0012_gains, NEW h \in fc0012_gains \ {g}
    PROVE  LnaBits("FC0012", h) # LnaBits("FC0012", g)
<1>1. /\ LnaBits("FC0012", -99) = 2 /\ LnaBits("FC0012", -40) = 0
         /\ LnaBits("FC0012", 71) = 8
      /\ LnaBits("FC0012", 179) = 23 /\ LnaBits("FC0012", 192) = 16
  BY SMT DEF LnaBits
<1>2. fc0012_gains = {-99, -40, 71, 179, 192}
  BY DEF fc0012_gains
<1> QED
  BY <1>1, <1>2, SMT

(* nearest_gain returns a gain of the list, and no other is nearer         *)
(* (convenience.c:116-133).                                                *)
LEMMA NearestIs ==
    ASSUME NEW gains, gains \subseteq Int, gains # {}, NEW target \in Int
    PROVE  /\ nearest_gain(gains, target) \in gains
           /\ \A g \in gains : Distance(target,
              nearest_gain(gains, target)) <= Distance(target, g)
<1> DEFINE D(g) == Distance(target, g)
           key(g) == 2 * D(g) + (IF g > target THEN 1 ELSE 0)
           Nearest(g) == \A h \in gains \ {g} : D(g) < D(h)
               \/ (D(g) = D(h) /\ g < h)
           near == CHOOSE g \in gains : Nearest(g)
<1>1. nearest_gain(gains, target) = near
  BY DEF nearest_gain
<1>2. \A g \in Int : D(g) = (IF target < g THEN g - target ELSE target - g)
        /\ D(g) \in Nat
  BY DEF Distance
<1> HIDE DEF D
<1>3. \A g \in Int : key(g) \in Nat
  BY <1>2
<1> DEFINE Keys == {key(g) : g \in gains}
<1>4. Keys \subseteq Nat /\ Keys # {}
  <2> HIDE DEF key
  <2> QED
    BY <1>3
<1>5. PICK least \in Keys : \A y \in Keys : least <= y
  <2> HIDE DEF Keys
  <2> QED
    BY <1>4, LeastNatural
<1>6. PICK g \in gains : least = key(g)
  BY <1>5
<1>7. \A h \in gains : key(g) <= key(h)
  BY <1>5, <1>6
<1>8. Nearest(g)
  <2> SUFFICES ASSUME NEW h \in gains, h # g
               PROVE  D(g) < D(h) \/ (D(g) = D(h) /\ g < h)
    OBVIOUS
  <2>1. key(g) <= key(h) /\ g \in Int /\ h \in Int
    BY <1>7
  <2>2. D(g) \in Nat /\ D(h) \in Nat
    BY <1>2, <2>1
  <2>3. D(g) <= D(h)
    BY <2>1, <2>2
  <2>4. ASSUME D(g) = D(h) PROVE g < h
    <3>1. /\ D(g) = (IF target < g THEN g - target ELSE target - g)
          /\ D(h) = (IF target < h THEN h - target ELSE target - h)
      BY <1>2, <2>1
    <3>2. ~(g > target) \/ h > target
      BY <2>1, <2>2, <2>4
    <3> DEFINE d == D(g)
    <3>3. D(h) = d /\ d \in Nat
      BY <2>2, <2>4
    <3>4. d = (IF target < g THEN g - target ELSE target - g)
      BY <3>1
    <3>5. d = (IF target < h THEN h - target ELSE target - h)
      BY <3>1, <3>3
    <3> HIDE DEF d
    <3>6. g # h
      OBVIOUS
    <3> QED
      BY <2>1, <3>2, <3>3, <3>4, <3>5, <3>6
  <2> QED
    BY <2>2, <2>3, <2>4
<1>9. near \in gains /\ Nearest(near)
  <2> HIDE DEF Nearest
  <2> QED
    BY <1>8
<1>10. \A h \in gains : D(near) <= D(h)
  <2> SUFFICES ASSUME NEW h \in gains PROVE D(near) <= D(h)
    OBVIOUS
  <2>1. D(near) \in Nat /\ D(h) \in Nat
    BY <1>2, <1>9
  <2>2. h = near \/ D(near) < D(h) \/ D(near) = D(h)
    BY <1>9
  <2> HIDE DEF near
  <2> QED
    BY <2>1, <2>2
<1> HIDE DEF near
<1> QED
  BY <1>1, <1>9, <1>10 DEF D

(* All of this for one request.                                            *)
LEMMA GainIs ==
    ASSUME NEW gain \in Int
    PROVE  LET s == GainSetting(gain)
           IN  /\ s.total >= gain \/ (s.lna = 15 /\ s.mix = 15)
               /\ s.lna <= 15 /\ s.mix <= 15 /\ s.total \in Int
               /\ \A g \in r82xx_gains : g >= gain => s.total <= g
                  /\ s.total >= gain
<1>1. PICK m \in 0..30 : StopsAt(gain, m)
  BY StopExists
<1>2. GainSetting(gain) = Setting(m)
  BY <1>1, GainStops
<1> DEFINE s == Setting(m)
<1>3. s.total = Totals[m + 1] /\ s.lna = (m + 1) \div 2 /\ s.mix = m \div 2
  BY DEF Setting
<1> HIDE DEF s
<1>4. Totals[m + 1] \in Int
  <2>1. m + 1 \in 1..31
    OBVIOUS
  <2> QED
    BY <2>1, TotalsAre
<1>5. (m + 1) \div 2 <= 15 /\ m \div 2 <= 15 /\ (m = 30 => (m + 1) \div 2
        = 15 /\ m \div 2 = 15)
  OBVIOUS
<1>6. m < 30 => s.total >= gain
  BY <1>1, <1>3 DEF StopsAt
<1>7. ASSUME NEW g \in r82xx_gains, g >= gain
      PROVE  s.total <= g /\ m < 30
  <2>1. PICK j \in 1..30 : Totals[j] = g
    BY GainsListed
  <2>2. g \in Int
    BY GainsListed
  <2>3. j > m
    <3>1. j <= m => Totals[j] < gain
      BY <1>1 DEF StopsAt
    <3> QED
      BY <1>7, <2>1, <2>2, <3>1
  <2> DEFINE k == m + 1
  <2>4. k \in 1..30 /\ k <= j
    BY <2>3
  <2> HIDE DEF k
  <2>5. Totals[k] <= Totals[j]
    BY <2>4, TotalsMonotone
  <2> QED
    BY <1>3, <2>1, <2>3, <2>5 DEF k
<1>8. GainSetting(gain) = s
  BY <1>2 DEF s
<1> QED
  BY <1>3, <1>4, <1>5, <1>6, <1>7, <1>8

(* For every gain a user may ask for, the R82xx is set to the smallest     *)
(* total its step tables reach that is not below it, and a larger request  *)
(* never gives less; the gain nearest_gain picks is as near as any in the  *)
(* list and is then set exactly; the FC0012 tells its five apart           *)
(* (librtlsdr.c:984-993, tuner_r82xx.c:993-1003, tuner_fc0013.c:449-494,   *)
(* tuner_fc0012.c:324-340, convenience.c:116-133).                         *)
THEOREM GainsAreKept == Spec => []GainsAreRealised
<1> DEFINE Inv == kind = "gain" => x \in Int
<1>1. Init => Inv
  BY DEF Init, FcKinds
<1>2. ASSUME Inv, [Next]_vars PROVE Inv'
  <2>1. CASE SweepGain
    BY <1>2, <2>1 DEF SweepGain, Sweep
  <2>2. CASE SweepFreq \/ SweepFc \/ SweepBw \/ SweepWidth
    BY <2>2 DEF SweepFreq, SweepFc, SweepBw, SweepWidth, Sweep, FcKinds
  <2>3. CASE SweepRate
    BY <2>3 DEF SweepRate
  <2>4. CASE UNCHANGED vars
    BY <1>2, <2>4 DEF vars
  <2> QED
    BY <1>2, <2>1, <2>2, <2>3, <2>4 DEF Next
<1>3. ASSUME Inv PROVE GainsAreRealised
  <2> SUFFICES ASSUME kind = "gain" PROVE GainsAreRealised
    BY DEF GainsAreRealised
  <2> DEFINE target == x - Below
             near == nearest_gain(fc0013_gains, target)
             chosen == nearest_gain(r82xx_gains, target)
             few == nearest_gain(fc0012_gains, target)
             set == GainSetting(chosen)
             full == GainSetting(x)
  <2>1. x \in Int /\ target \in Int
    BY <1>3 DEF Below
  <2> HIDE DEF target
  <2>2. fc0013_gains \subseteq Int /\ fc0012_gains \subseteq Int
          /\ r82xx_gains \subseteq Int
    <3>1. \A g \in fc0012_gains : g \in Int
      BY SMT DEF fc0012_gains
    <3> QED
      BY <3>1, Fc0013Listed, GainsListed
  <2>3. fc0013_gains # {} /\ fc0012_gains # {} /\ r82xx_gains # {}
    BY DEF fc0013_gains, fc0012_gains, r82xx_gains
  <2>4. /\ near \in fc0013_gains
        /\ \A g \in fc0013_gains : Distance(target, near) <= Distance(target,
           g)
    BY <2>1, <2>2, <2>3, NearestIs
  <2>5. /\ chosen \in r82xx_gains
        /\ \A g \in r82xx_gains : Distance(target,
           chosen) <= Distance(target, g)
    BY <2>1, <2>2, <2>3, NearestIs
  <2>6. few \in fc0012_gains
    BY <2>1, <2>2, <2>3, NearestIs
  <2> HIDE DEF near, chosen, few
  <2>7. set.total = chosen
    <3>1. chosen \in Int
      BY <2>2, <2>5
    <3>2. set.total \in Int /\ set.total <= chosen /\ set.total >= chosen
      BY <2>5, <3>1, GainIs
    <3> HIDE DEF set
    <3> QED
      BY <3>1, <3>2
  <2>8. Fc0013Total(near) = near
    BY <2>4, Fc0013Exact
  <2>9. \A g \in fc0012_gains \ {few} : LnaBits("FC0012",
          g) # LnaBits("FC0012", few)
    BY <2>6, Fc0012Differ
  <2>10. /\ full.total >= x \/ (full.lna = 15 /\ full.mix = 15)
         /\ full.lna <= 15 /\ full.mix <= 15
         /\ \A g \in r82xx_gains : g >= x => full.total <= g
    BY <2>1, GainIs
  <2> QED
    BY <2>4, <2>5, <2>7, <2>8, <2>9, <2>10 DEF GainsAreRealised, near,
       chosen, few, target, set, full
<1> QED
  BY <1>1, <1>2, <1>3, PTL DEF Spec

----------------------------------------------------------------------------
(* The synthesizer of the R82xx. *)

(* The crystals of the R82xx boards, kHz.                                  *)
Refs == {28800, 16000}

(* The fraction that each turn of the sdm loop compares with: the crystal  *)
(* doubled, divided by n_sdm.                                              *)
SdmSteps(ref) == IF ref = 28800 THEN << 28800, 14400, 7200, 3600, 1800, 900,
    450, 225, 112, 56, 28, 14, 7, 3, 1 >> ELSE << 16000, 8000, 4000, 2000,
        1000, 500, 250, 125, 62, 31, 15, 7, 3, 1, 0 >>
(* What a turn adds to sdm.                                                *)
SdmWeights == << 32768, 16384, 8192, 4096, 2048, 1024, 512, 256, 128, 64, 32,
    16, 8, 4, 2 >>

(* One turn of the loop.                                                   *)
Turned(s, step, weight, k) ==
  IF s.fra > 1 /\ s.fra > step
  THEN [fra |-> s.fra - step, sdm |-> s.sdm + weight, hit |-> k] ELSE s

(* The states of the loop.                                                 *)
SdmStates == [fra : Int, sdm : Int, hit : Int]

(* The two tables are functions over the fifteen turns.                    *)
LEMMA SdmTables ==
    ASSUME NEW ref \in Refs
    PROVE  \A k \in 1..15 : SdmSteps(ref)[k] \in Int /\ SdmWeights[k] \in Int
<1>1. \A k \in 1..15 : k \in {1, 2, 3, 4, 5, 6, 7, 8, 9, 10, 11, 12, 13, 14,
        15}
  BY SMT
<1>2. \A k \in {1, 2, 3, 4, 5, 6, 7, 8, 9, 10, 11, 12, 13, 14,
        15} : SdmSteps(ref)[k] \in Int
  BY SMT DEF SdmSteps, Refs
<1>3. \A k \in {1, 2, 3, 4, 5, 6, 7, 8, 9, 10, 11, 12, 13, 14,
        15} : SdmWeights[k] \in Int
  BY SMT DEF SdmWeights
<1> QED
  BY <1>1, <1>2, <1>3

(* A turn of the model's loop, which divides by n_sdm, is one over the     *)
(* tables (tuner_r82xx.c:513-522).                                         *)
LEMMA SdmTurnIs ==
    ASSUME NEW ref \in Refs
    PROVE  \A k \in 1..15 : \A s : SdmTurn(s, k, ref)
             = Turned(s, SdmSteps(ref)[k], SdmWeights[k], k)
<1> DEFINE Same(k) == \A s : SdmTurn(s, k, ref) = Turned(s, SdmSteps(ref)[k],
      SdmWeights[k], k)
<1>1. Same(1)
  <2>1. (2 * ref) \div 2^1 = SdmSteps(ref)[1] /\ 32768 \div 2^(1 - 1)
          = SdmWeights[1]
    BY SMT DEF SdmSteps, SdmWeights, Refs
  <2> QED
    BY <2>1 DEF SdmTurn, Turned
<1>2. Same(2)
  <2>1. (2 * ref) \div 2^2 = SdmSteps(ref)[2] /\ 32768 \div 2^(2 - 1)
          = SdmWeights[2]
    BY SMT DEF SdmSteps, SdmWeights, Refs
  <2> QED
    BY <2>1 DEF SdmTurn, Turned
<1>3. Same(3)
  <2>1. (2 * ref) \div 2^3 = SdmSteps(ref)[3] /\ 32768 \div 2^(3 - 1)
          = SdmWeights[3]
    BY SMT DEF SdmSteps, SdmWeights, Refs
  <2> QED
    BY <2>1 DEF SdmTurn, Turned
<1>4. Same(4)
  <2>1. (2 * ref) \div 2^4 = SdmSteps(ref)[4] /\ 32768 \div 2^(4 - 1)
          = SdmWeights[4]
    BY SMT DEF SdmSteps, SdmWeights, Refs
  <2> QED
    BY <2>1 DEF SdmTurn, Turned
<1>5. Same(5)
  <2>1. (2 * ref) \div 2^5 = SdmSteps(ref)[5] /\ 32768 \div 2^(5 - 1)
          = SdmWeights[5]
    BY SMT DEF SdmSteps, SdmWeights, Refs
  <2> QED
    BY <2>1 DEF SdmTurn, Turned
<1>6. Same(6)
  <2>1. (2 * ref) \div 2^6 = SdmSteps(ref)[6] /\ 32768 \div 2^(6 - 1)
          = SdmWeights[6]
    BY SMT DEF SdmSteps, SdmWeights, Refs
  <2> QED
    BY <2>1 DEF SdmTurn, Turned
<1>7. Same(7)
  <2>1. (2 * ref) \div 2^7 = SdmSteps(ref)[7] /\ 32768 \div 2^(7 - 1)
          = SdmWeights[7]
    BY SMT DEF SdmSteps, SdmWeights, Refs
  <2> QED
    BY <2>1 DEF SdmTurn, Turned
<1>8. Same(8)
  <2>1. (2 * ref) \div 2^8 = SdmSteps(ref)[8] /\ 32768 \div 2^(8 - 1)
          = SdmWeights[8]
    BY SMT DEF SdmSteps, SdmWeights, Refs
  <2> QED
    BY <2>1 DEF SdmTurn, Turned
<1>9. Same(9)
  <2>1. (2 * ref) \div 2^9 = SdmSteps(ref)[9] /\ 32768 \div 2^(9 - 1)
          = SdmWeights[9]
    BY SMT DEF SdmSteps, SdmWeights, Refs
  <2> QED
    BY <2>1 DEF SdmTurn, Turned
<1>10. Same(10)
  <2>1. (2 * ref) \div 2^10 = SdmSteps(ref)[10] /\ 32768 \div 2^(10 - 1)
          = SdmWeights[10]
    BY SMT DEF SdmSteps, SdmWeights, Refs
  <2> QED
    BY <2>1 DEF SdmTurn, Turned
<1>11. Same(11)
  <2>1. (2 * ref) \div 2^11 = SdmSteps(ref)[11] /\ 32768 \div 2^(11 - 1)
          = SdmWeights[11]
    BY SMT DEF SdmSteps, SdmWeights, Refs
  <2> QED
    BY <2>1 DEF SdmTurn, Turned
<1>12. Same(12)
  <2>1. (2 * ref) \div 2^12 = SdmSteps(ref)[12] /\ 32768 \div 2^(12 - 1)
          = SdmWeights[12]
    BY SMT DEF SdmSteps, SdmWeights, Refs
  <2> QED
    BY <2>1 DEF SdmTurn, Turned
<1>13. Same(13)
  <2>1. (2 * ref) \div 2^13 = SdmSteps(ref)[13] /\ 32768 \div 2^(13 - 1)
          = SdmWeights[13]
    BY SMT DEF SdmSteps, SdmWeights, Refs
  <2> QED
    BY <2>1 DEF SdmTurn, Turned
<1>14. Same(14)
  <2>1. (2 * ref) \div 2^14 = SdmSteps(ref)[14] /\ 32768 \div 2^(14 - 1)
          = SdmWeights[14]
    BY SMT DEF SdmSteps, SdmWeights, Refs
  <2> QED
    BY <2>1 DEF SdmTurn, Turned
<1>15. Same(15)
  <2>1. (2 * ref) \div 2^15 = SdmSteps(ref)[15] /\ 32768 \div 2^(15 - 1)
          = SdmWeights[15]
    BY SMT DEF SdmSteps, SdmWeights, Refs
  <2> QED
    BY <2>1 DEF SdmTurn, Turned
<1> HIDE DEF Same
<1>16. \A k \in 1..15 : k \in {1, 2, 3, 4, 5, 6, 7, 8, 9, 10, 11, 12, 13, 14,
         15}
  BY SMT
<1>17. \A k \in 1..15 : Same(k)
  BY <1>16, <1>1, <1>2, <1>3, <1>4, <1>5, <1>6, <1>7, <1>8, <1>9, <1>10,
     <1>11, <1>12, <1>13, <1>14, <1>15
<1> QED
  BY <1>17 DEF Same

(* f runs through N turns inside F and ends at V.                          *)
RunsTo(f, V, a, F, N) ==
  f \in [0..N -> V] /\ f[0] = a /\ \A i \in 1..N : f[i] = F[i - 1][f[i - 1]]

(* A run leads somewhere.                                                  *)
LEMMA Bounded ==
    ASSUME NEW V, NEW a \in V, NEW F, Turns(F, V), NEW N \in Nat
    PROVE  \E f : RunsTo(f, V, a, F, N)
<1>1. PICK g : Repeats(g, V, a, F)
  BY Recursion
<1> DEFINE f == [i \in 0..N |-> g[i]]
<1>2. f \in [0..N -> V] /\ f[0] = a
  BY <1>1 DEF Repeats
<1>3. ASSUME NEW i \in 1..N PROVE f[i] = F[i - 1][f[i - 1]]
  <2> DEFINE m == i - 1
  <2>1. m \in Nat /\ m + 1 = i /\ i \in 0..N /\ m \in 0..N
    OBVIOUS
  <2> HIDE DEF m
  <2>2. g[m + 1] = F[m][g[m]]
    BY <2>1, <1>1 DEF Repeats
  <2>3. f[i] = F[m][f[m]]
    BY <2>1, <2>2
  <2> QED
    BY <2>3 DEF m
<1> QED
  BY <1>2, <1>3 DEF RunsTo

(* The loop is fifteen such turns.                                         *)
LEMMA SdmRuns ==
    ASSUME NEW ref \in Refs, NEW fra \in Nat
    PROVE  LET s == SdmAfter(fra, ref)
           IN  /\ s[0] = [fra |-> fra, sdm |-> 0, hit |-> 0]
               /\ \A k \in 1..15 : s[k] = Turned(s[k - 1], SdmSteps(ref)[k],
                  SdmWeights[k], k)
<1> DEFINE V == SdmStates
           a == [fra |-> fra, sdm |-> 0, hit |-> 0]
           Turn(p, k) == SdmTurn(p, k, ref)
           F == [i \in Nat |-> [p \in V |-> IF i \in 0..14
               THEN Turn(p, i + 1) ELSE p]]
           Done(f) == [k \in 0..15 |-> IF k = 0 THEN [fra |-> fra, sdm |-> 0,
               hit |-> 0]
                                 ELSE SdmTurn(f[k - 1], k, ref)]
           s == CHOOSE f : f = Done(f)
<1>1. a \in V
  BY DEF SdmStates
<1>2. ASSUME NEW p \in V, NEW k \in 1..15 PROVE Turn(p, k) \in V
  <2> DEFINE step == SdmSteps(ref)[k]  weight == SdmWeights[k]
  <2>1. step \in Int /\ weight \in Int
    BY SdmTables
  <2>2. Turn(p, k) = Turned(p, step, weight, k)
    BY SdmTurnIs
  <2> HIDE DEF step, weight, Turn
  <2> QED
    BY <2>1, <2>2 DEF Turned, SdmStates
<1>3. Turns(F, V)
  <2> HIDE DEF V, Turn
  <2>1. \A i \in 0..14 : i + 1 \in 1..15
    OBVIOUS
  <2>2. \A i \in Nat, p \in V : (IF i \in 0..14 THEN Turn(p, i + 1)
          ELSE p) \in V
    BY <1>2, <2>1
  <2> QED
    BY <2>2 DEF Turns
<1> HIDE DEF a, V
<1>4. PICK c : RunsTo(c, V, a, F, 15)
  <2>1. 15 \in Nat
    OBVIOUS
  <2> HIDE DEF F
  <2> QED
    BY <2>1, <1>1, <1>3, Bounded
<1>5. \A k \in 1..15 : c[k] = Turn(c[k - 1], k)
  <2> SUFFICES ASSUME NEW k \in 1..15 PROVE c[k] = Turn(c[k - 1], k)
    OBVIOUS
  <2> DEFINE m == k - 1
  <2>1. m \in 0..14 /\ m \in Nat /\ m + 1 = k /\ m \in 0..15
    OBVIOUS
  <2> HIDE DEF m, Turn
  <2>2. c[m] \in V
    BY <2>1, <1>4 DEF RunsTo
  <2>3. c[k] = F[m][c[m]]
    BY <1>4 DEF m, RunsTo
  <2>4. F[m][c[m]] = Turn(c[m], m + 1)
    BY <2>1, <2>2
  <2> QED
    BY <2>1, <2>3, <2>4 DEF m
<1> HIDE DEF F
<1>6. /\ \A f : Done(f) = [k \in 0..15 |-> Done(f)[k]] /\ Done(f)[0] = a
      /\ \A f : \A k \in 1..15 : Done(f)[k] = Turn(f[k - 1], k)
  <2>1. \A f : Done(f) = [k \in 0..15 |-> Done(f)[k]] /\ Done(f)[0] = a
    BY DEF a
  <2>2. \A f : \A k \in 1..15 : Done(f)[k] = Turn(f[k - 1], k)
    OBVIOUS
  <2> QED
    BY <2>1, <2>2
<1> HIDE DEF Done
<1>7. c = Done(c)
  <2> DEFINE dc == Done(c)
  <2>1. \A k \in 0..15 : c[k] = dc[k]
    <3> SUFFICES ASSUME NEW k \in 0..15 PROVE c[k] = dc[k]
      OBVIOUS
    <3>1. k = 0 \/ k \in 1..15
      OBVIOUS
    <3> HIDE DEF Turn
    <3> QED
      BY <3>1, <1>4, <1>5, <1>6 DEF RunsTo
  <2>2. c = [k \in 0..15 |-> c[k]] /\ dc = [k \in 0..15 |-> dc[k]]
    BY <1>4, <1>6 DEF RunsTo
  <2> HIDE DEF dc
  <2>3. c = dc
    BY <2>1, <2>2
  <2> QED
    BY <2>3 DEF dc
<1>8. s = Done(s)
  BY <1>7
<1>9. SdmAfter(fra, ref) = s
  BY DEF SdmAfter, Done
<1> HIDE DEF s, Turn
<1>10. s[0] = a /\ \A k \in 1..15 : s[k] = Turn(s[k - 1], k)
  <2> DEFINE ds == Done(s)
  <2>1. ds[0] = a /\ \A k \in 1..15 : ds[k] = Turn(s[k - 1], k)
    BY <1>6
  <2>2. s = ds
    BY <1>8
  <2> HIDE DEF ds
  <2> QED
    BY <2>1, <2>2
<1>11. \A k \in 1..15 : s[k] = Turned(s[k - 1], SdmSteps(ref)[k],
         SdmWeights[k], k)
  <2> SUFFICES ASSUME NEW k \in 1..15
               PROVE  s[k] = Turned(s[k - 1], SdmSteps(ref)[k],
                        SdmWeights[k], k)
    OBVIOUS
  <2>1. s[k] = SdmTurn(s[k - 1], k, ref)
    BY <1>10 DEF Turn
  <2> QED
    BY <2>1, SdmTurnIs
<1> QED
  BY <1>9, <1>10, <1>11 DEF a

(* The odd part of the crystal: the steps are even until they reach it.    *)
Part(ref) == IF ref = 28800 THEN 225 ELSE 125

(* After c turns whose step is a multiple h of the odd part, sdm and the   *)
(* rest of the fraction make the fraction.                                 *)
Halved(p, fra, c, h) ==
  /\ p \in SdmStates /\ p.fra >= 0 /\ p.fra <= c * h
  /\ \E j \in Nat : p.sdm = 256 * j /\ p.fra + c * j = fra

(* One of these turns takes the digit of weight h exactly.                 *)
LEMMA HalvedTurn ==
    ASSUME NEW p, NEW fra \in Nat, NEW c \in Nat, NEW h \in Nat,
           NEW k \in Int, c > 1, h > 0,
           Halved(p, fra, c, 2 * h)
    PROVE  Halved(Turned(p, c * h, 256 * h, k), fra, c, h)
<1> DEFINE a == c * h  f == p.fra  d == p.sdm
<1>1. a \in Nat /\ a > 1 /\ c * (2 * h) = 2 * a
  BY SMT
<1>2. p \in SdmStates /\ f \in Int /\ d \in Int /\ f >= 0 /\ f <= 2 * a
  BY <1>1 DEF Halved, SdmStates
<1>3. PICK j \in Nat : d = 256 * j /\ f + c * j = fra
  BY DEF Halved
<1>4. CASE f > a
  <2> DEFINE q == [fra |-> f - a, sdm |-> d + 256 * h, hit |-> k]  i == j + h
  <2>1. Turned(p, a, 256 * h, k) = q
    BY <1>1, <1>2, <1>4 DEF Turned
  <2>2. q \in SdmStates /\ q.fra = f - a /\ q.sdm = d + 256 * h
    BY <1>1, <1>2 DEF SdmStates
  <2> HIDE DEF q
  <2>3. c * i = c * j + a
    BY <1>3, SMT
  <2>4. c * j \in Int /\ i \in Nat
    BY <1>3
  <2>5. q.sdm = 256 * i /\ q.fra + c * i = fra
    BY <1>1, <1>2, <1>3, <2>2, <2>3, <2>4
  <2>6. q.fra >= 0 /\ q.fra <= a
    BY <1>1, <1>2, <1>4, <2>2
  <2> HIDE DEF i
  <2> QED
    BY <2>1, <2>2, <2>4, <2>5, <2>6 DEF Halved
<1>5. CASE ~(f > a)
  <2>1. Turned(p, a, 256 * h, k) = p
    BY <1>5 DEF Turned
  <2>2. f <= a
    BY <1>1, <1>2, <1>5
  <2> QED
    BY <1>2, <1>3, <2>1, <2>2 DEF Halved
<1> QED
  BY <1>4, <1>5

(* The first eight turns lose nothing.                                     *)
LEMMA SdmExact ==
    ASSUME NEW ref \in Refs, NEW fra \in Nat, fra < 2 * ref
    PROVE  Halved(SdmAfter(fra, ref)[8], fra, Part(ref), 1)
<1> DEFINE s == SdmAfter(fra, ref)
           c == Part(ref)
<1>1. c \in Nat /\ c > 1 /\ c * 256 = 2 * ref
  BY SMT DEF Part, Refs
<1>2. /\ s[0] = [fra |-> fra, sdm |-> 0, hit |-> 0]
      /\ \A k \in 1..15 : s[k] = Turned(s[k - 1], SdmSteps(ref)[k],
         SdmWeights[k], k)
  BY SdmRuns
<1>3. SdmSteps(ref)[1] = c * 128 /\ SdmSteps(ref)[2] = c * 64
        /\ SdmSteps(ref)[3] = c * 32 /\ SdmSteps(ref)[4] = c * 16
           /\ SdmSteps(ref)[5] = c * 8 /\ SdmSteps(ref)[6] = c * 4
              /\ SdmSteps(ref)[7] = c * 2 /\ SdmSteps(ref)[8] = c * 1
  BY SMT DEF Part, Refs, SdmSteps
<1>4. SdmWeights[1] = 256 * 128 /\ SdmWeights[2] = 256 * 64 /\ SdmWeights[3]
        = 256 * 32 /\ SdmWeights[4] = 256 * 16 /\ SdmWeights[5] = 256 * 8
            /\ SdmWeights[6] = 256 * 4 /\ SdmWeights[7] = 256 * 2
               /\ SdmWeights[8] = 256 * 1
  BY SMT DEF SdmWeights
<1>5. Halved([fra |-> fra, sdm |-> 0, hit |-> 0], fra, c, 256)
  <2> DEFINE p == [fra |-> fra, sdm |-> 0, hit |-> 0]
  <2>1. p \in SdmStates /\ p.fra = fra /\ p.sdm = 0
    BY DEF SdmStates
  <2>2. 0 \in Nat /\ 0 = 256 * 0 /\ fra + c * 0 = fra /\ fra >= 0
          /\ fra <= c * 256
    BY <1>1 DEF Refs
  <2> HIDE DEF p, c
  <2>3. Halved(p, fra, c, 256)
    BY <2>1, <2>2 DEF Halved
  <2> QED
    BY <2>3 DEF p
<1> HIDE DEF s, c
<1>6. Halved(s[1], fra, c, 128)
  <2>1. Halved(s[0], fra, c, 256)
    BY <1>5, <1>2
  <2>2. 1 \in 1..15 /\ 1 - 1 = 0
    OBVIOUS
  <2> DEFINE p == s[0]  q == s[1]  step == SdmSteps(ref)[1]  weight ==
        SdmWeights[1]
             h == 128  g == 256  k == 1
  <2>3. h \in Nat /\ h > 0 /\ k \in Int /\ g = 2 * h
    OBVIOUS
  <2>4. q = Turned(p, step, weight, k)
    BY <1>2, <2>2
  <2>5. Halved(p, fra, c, g) /\ step = c * h /\ weight = 256 * h
    BY <1>3, <1>4, <2>1
  <2> HIDE DEF p, q, step, weight, h, g, k
  <2>6. q = Turned(p, c * h, 256 * h, k) /\ Halved(p, fra, c, 2 * h)
    BY <2>3, <2>4, <2>5
  <2>7. Halved(Turned(p, c * h, 256 * h, k), fra, c, h)
    BY <1>1, <2>3, <2>6, HalvedTurn
  <2> QED
    BY <2>6, <2>7 DEF q, h
<1>7. Halved(s[2], fra, c, 64)
  <2>1. Halved(s[1], fra, c, 128)
    BY <1>6
  <2>2. 2 \in 1..15 /\ 2 - 1 = 1
    OBVIOUS
  <2> DEFINE p == s[1]  q == s[2]  step == SdmSteps(ref)[2]  weight ==
        SdmWeights[2]
             h == 64  g == 128  k == 2
  <2>3. h \in Nat /\ h > 0 /\ k \in Int /\ g = 2 * h
    OBVIOUS
  <2>4. q = Turned(p, step, weight, k)
    BY <1>2, <2>2
  <2>5. Halved(p, fra, c, g) /\ step = c * h /\ weight = 256 * h
    BY <1>3, <1>4, <2>1
  <2> HIDE DEF p, q, step, weight, h, g, k
  <2>6. q = Turned(p, c * h, 256 * h, k) /\ Halved(p, fra, c, 2 * h)
    BY <2>3, <2>4, <2>5
  <2>7. Halved(Turned(p, c * h, 256 * h, k), fra, c, h)
    BY <1>1, <2>3, <2>6, HalvedTurn
  <2> QED
    BY <2>6, <2>7 DEF q, h
<1>8. Halved(s[3], fra, c, 32)
  <2>1. Halved(s[2], fra, c, 64)
    BY <1>7
  <2>2. 3 \in 1..15 /\ 3 - 1 = 2
    OBVIOUS
  <2> DEFINE p == s[2]  q == s[3]  step == SdmSteps(ref)[3]  weight ==
        SdmWeights[3]
             h == 32  g == 64  k == 3
  <2>3. h \in Nat /\ h > 0 /\ k \in Int /\ g = 2 * h
    OBVIOUS
  <2>4. q = Turned(p, step, weight, k)
    BY <1>2, <2>2
  <2>5. Halved(p, fra, c, g) /\ step = c * h /\ weight = 256 * h
    BY <1>3, <1>4, <2>1
  <2> HIDE DEF p, q, step, weight, h, g, k
  <2>6. q = Turned(p, c * h, 256 * h, k) /\ Halved(p, fra, c, 2 * h)
    BY <2>3, <2>4, <2>5
  <2>7. Halved(Turned(p, c * h, 256 * h, k), fra, c, h)
    BY <1>1, <2>3, <2>6, HalvedTurn
  <2> QED
    BY <2>6, <2>7 DEF q, h
<1>9. Halved(s[4], fra, c, 16)
  <2>1. Halved(s[3], fra, c, 32)
    BY <1>8
  <2>2. 4 \in 1..15 /\ 4 - 1 = 3
    OBVIOUS
  <2> DEFINE p == s[3]  q == s[4]  step == SdmSteps(ref)[4]  weight ==
        SdmWeights[4]
             h == 16  g == 32  k == 4
  <2>3. h \in Nat /\ h > 0 /\ k \in Int /\ g = 2 * h
    OBVIOUS
  <2>4. q = Turned(p, step, weight, k)
    BY <1>2, <2>2
  <2>5. Halved(p, fra, c, g) /\ step = c * h /\ weight = 256 * h
    BY <1>3, <1>4, <2>1
  <2> HIDE DEF p, q, step, weight, h, g, k
  <2>6. q = Turned(p, c * h, 256 * h, k) /\ Halved(p, fra, c, 2 * h)
    BY <2>3, <2>4, <2>5
  <2>7. Halved(Turned(p, c * h, 256 * h, k), fra, c, h)
    BY <1>1, <2>3, <2>6, HalvedTurn
  <2> QED
    BY <2>6, <2>7 DEF q, h
<1>10. Halved(s[5], fra, c, 8)
  <2>1. Halved(s[4], fra, c, 16)
    BY <1>9
  <2>2. 5 \in 1..15 /\ 5 - 1 = 4
    OBVIOUS
  <2> DEFINE p == s[4]  q == s[5]  step == SdmSteps(ref)[5]  weight ==
        SdmWeights[5]
             h == 8  g == 16  k == 5
  <2>3. h \in Nat /\ h > 0 /\ k \in Int /\ g = 2 * h
    OBVIOUS
  <2>4. q = Turned(p, step, weight, k)
    BY <1>2, <2>2
  <2>5. Halved(p, fra, c, g) /\ step = c * h /\ weight = 256 * h
    BY <1>3, <1>4, <2>1
  <2> HIDE DEF p, q, step, weight, h, g, k
  <2>6. q = Turned(p, c * h, 256 * h, k) /\ Halved(p, fra, c, 2 * h)
    BY <2>3, <2>4, <2>5
  <2>7. Halved(Turned(p, c * h, 256 * h, k), fra, c, h)
    BY <1>1, <2>3, <2>6, HalvedTurn
  <2> QED
    BY <2>6, <2>7 DEF q, h
<1>11. Halved(s[6], fra, c, 4)
  <2>1. Halved(s[5], fra, c, 8)
    BY <1>10
  <2>2. 6 \in 1..15 /\ 6 - 1 = 5
    OBVIOUS
  <2> DEFINE p == s[5]  q == s[6]  step == SdmSteps(ref)[6]  weight ==
        SdmWeights[6]
             h == 4  g == 8  k == 6
  <2>3. h \in Nat /\ h > 0 /\ k \in Int /\ g = 2 * h
    OBVIOUS
  <2>4. q = Turned(p, step, weight, k)
    BY <1>2, <2>2
  <2>5. Halved(p, fra, c, g) /\ step = c * h /\ weight = 256 * h
    BY <1>3, <1>4, <2>1
  <2> HIDE DEF p, q, step, weight, h, g, k
  <2>6. q = Turned(p, c * h, 256 * h, k) /\ Halved(p, fra, c, 2 * h)
    BY <2>3, <2>4, <2>5
  <2>7. Halved(Turned(p, c * h, 256 * h, k), fra, c, h)
    BY <1>1, <2>3, <2>6, HalvedTurn
  <2> QED
    BY <2>6, <2>7 DEF q, h
<1>12. Halved(s[7], fra, c, 2)
  <2>1. Halved(s[6], fra, c, 4)
    BY <1>11
  <2>2. 7 \in 1..15 /\ 7 - 1 = 6
    OBVIOUS
  <2> DEFINE p == s[6]  q == s[7]  step == SdmSteps(ref)[7]  weight ==
        SdmWeights[7]
             h == 2  g == 4  k == 7
  <2>3. h \in Nat /\ h > 0 /\ k \in Int /\ g = 2 * h
    OBVIOUS
  <2>4. q = Turned(p, step, weight, k)
    BY <1>2, <2>2
  <2>5. Halved(p, fra, c, g) /\ step = c * h /\ weight = 256 * h
    BY <1>3, <1>4, <2>1
  <2> HIDE DEF p, q, step, weight, h, g, k
  <2>6. q = Turned(p, c * h, 256 * h, k) /\ Halved(p, fra, c, 2 * h)
    BY <2>3, <2>4, <2>5
  <2>7. Halved(Turned(p, c * h, 256 * h, k), fra, c, h)
    BY <1>1, <2>3, <2>6, HalvedTurn
  <2> QED
    BY <2>6, <2>7 DEF q, h
<1>13. Halved(s[8], fra, c, 1)
  <2>1. Halved(s[7], fra, c, 2)
    BY <1>12
  <2>2. 8 \in 1..15 /\ 8 - 1 = 7
    OBVIOUS
  <2> DEFINE p == s[7]  q == s[8]  step == SdmSteps(ref)[8]  weight ==
        SdmWeights[8]
             h == 1  g == 2  k == 8
  <2>3. h \in Nat /\ h > 0 /\ k \in Int /\ g = 2 * h
    OBVIOUS
  <2>4. q = Turned(p, step, weight, k)
    BY <1>2, <2>2
  <2>5. Halved(p, fra, c, g) /\ step = c * h /\ weight = 256 * h
    BY <1>3, <1>4, <2>1
  <2> HIDE DEF p, q, step, weight, h, g, k
  <2>6. q = Turned(p, c * h, 256 * h, k) /\ Halved(p, fra, c, 2 * h)
    BY <2>3, <2>4, <2>5
  <2>7. Halved(Turned(p, c * h, 256 * h, k), fra, c, h)
    BY <1>1, <2>3, <2>6, HalvedTurn
  <2> QED
    BY <2>6, <2>7 DEF q, h
<1> QED
  BY <1>13 DEF s, c

(* What a turn leaves of the fraction.                                     *)
Cut(f, step) == IF f > 1 /\ f > step THEN f - step ELSE f

(* What a turn adds to sdm.                                                *)
Hit(f, step, weight) == IF f > 1 /\ f > step THEN weight ELSE 0

(* A turn does both, as long as the loop has not ended.                    *)
LEMMA TurnedIs ==
    ASSUME NEW p \in SdmStates, NEW step \in Int, NEW weight \in Int,
           NEW k \in Int
    PROVE  /\ Turned(p, step, weight, k) \in SdmStates
           /\ Turned(p, step, weight, k).fra = Cut(p.fra, step)
           /\ Turned(p, step, weight, k).sdm = p.sdm + Hit(p.fra, step,
              weight)
           /\ Turned(p, step, weight, k).hit = k
              \/ ~(p.fra > 1 /\ p.fra > step)
<1>1. p.fra \in Int /\ p.sdm \in Int /\ p.hit \in Int
  BY DEF SdmStates
<1>2. CASE p.fra > 1 /\ p.fra > step
  <2>1. Turned(p, step, weight, k) = [fra |-> p.fra - step,
          sdm |-> p.sdm + weight, hit |-> k]
    BY <1>2 DEF Turned
  <2> QED
    BY <1>1, <1>2, <2>1 DEF SdmStates, Cut, Hit
<1>3. CASE ~(p.fra > 1 /\ p.fra > step)
  <2>1. Turned(p, step, weight, k) = p
    BY <1>3 DEF Turned
  <2> QED
    BY <1>1, <1>3, <2>1 DEF Cut, Hit
<1> QED
  BY <1>2, <1>3

(* A turn after the first eight.                                           *)
TailTurn(f, e, g, h, step, weight) == g = Cut(f, step) /\ h
    = e + Hit(f, step, weight)

(* The turns after the first eight are such.                               *)
LEMMA TailTurnIs ==
    ASSUME NEW f \in Int, NEW e \in Int, NEW g, NEW h, NEW step \in Int,
           NEW weight \in Int,
           TailTurn(f, e, g, h, step, weight)
    PROVE  \/ f > 1 /\ f > step /\ g = f - step /\ h = e + weight
           \/ ~(f > 1 /\ f > step) /\ g = f /\ h = e
BY DEF TailTurn, Cut, Hit

(* With the 28.8 MHz crystal the last seven turns leave the sum within the *)
(* bound, step by step.                                                    *)
LEMMA Tail28800 ==
    ASSUME NEW f8 \in 0..225, NEW f9, NEW f10, NEW f11, NEW f12, NEW f13,
           NEW f14,
           NEW e8, NEW e9, NEW e10, NEW e11, NEW e12, NEW e13, NEW e14, e8
               = 0,
           TailTurn(f8, e8, f9, e9, 112, 32),
           TailTurn(f9, e9, f10, e10, 56, 16),
           TailTurn(f10, e10, f11, e11, 28, 8),
           TailTurn(f11, e11, f12, e12, 14, 4),
           TailTurn(f12, e12, f13, e13, 7, 2),
           TailTurn(f13, e13, f14, e14, 3, 1)
    PROVE  e14 \in 0..63 /\ f8 - (225 * e14) \div 64 \in (0 - 4)..4
             /\ f14 \in Nat
<1>8. f8 \in Int /\ e8 \in Int /\ f8 >= 0 /\ f8 <= 225 /\ e8 = 0
  OBVIOUS
<1>9. /\ f9 \in Int /\ e9 \in Int /\ f9 >= 0 /\ f9 <= 113 /\ e9 >= 0
         /\ e9 <= 32
      /\ 225 * e9 - 64 * (f8 - f9) >= 0 /\ 225 * e9 - 64 * (f8 - f9) <= 32
      /\ (f9 <= 112 \/ 225 * e9 - 64 * (f8 - f9) >= 32)
  <2>1. f8 \in Int /\ e8 \in Int
    BY <1>8
  <2>2. \/ f8 > 1 /\ f8 > 112 /\ f9 = f8 - 112 /\ e9 = e8 + 32
        \/ ~(f8 > 1 /\ f8 > 112) /\ f9 = f8 /\ e9 = e8
    BY <2>1, TailTurnIs
  <2>3. (f8 > 112 /\ f9 = f8 - 112 /\ e9 = 32) \/ (f8 <= 112 /\ f9 = f8 /\ e9
          = 0)
    BY <1>8, <2>2
  <2> QED
    BY <1>8, <2>3
<1>10. /\ f10 \in Int /\ e10 \in Int /\ f10 >= 0 /\ f10 <= 57 /\ e10 >= 0
          /\ e10 <= 48
       /\ 225 * e10 - 64 * (f8 - f10) >= 0
          /\ 225 * e10 - 64 * (f8 - f10) <= 48
       /\ (f10 <= 56 \/ 225 * e10 - 64 * (f8 - f10) >= 48)
  <2>1. f9 \in Int /\ e9 \in Int
    BY <1>9
  <2>2. \/ f9 > 1 /\ f9 > 56 /\ f10 = f9 - 56 /\ e10 = e9 + 16
        \/ ~(f9 > 1 /\ f9 > 56) /\ f10 = f9 /\ e10 = e9
    BY <2>1, TailTurnIs
  <2> QED
    BY <1>8, <1>9, <2>1, <2>2, SMTT(30)
<1>11. /\ f11 \in Int /\ e11 \in Int /\ f11 >= 0 /\ f11 <= 29 /\ e11 >= 0
          /\ e11 <= 56
       /\ 225 * e11 - 64 * (f8 - f11) >= 0
          /\ 225 * e11 - 64 * (f8 - f11) <= 56
       /\ (f11 <= 28 \/ 225 * e11 - 64 * (f8 - f11) >= 56)
  <2>1. f10 \in Int /\ e10 \in Int
    BY <1>10
  <2>2. \/ f10 > 1 /\ f10 > 28 /\ f11 = f10 - 28 /\ e11 = e10 + 8
        \/ ~(f10 > 1 /\ f10 > 28) /\ f11 = f10 /\ e11 = e10
    BY <2>1, TailTurnIs
  <2> QED
    BY <1>8, <1>10, <2>1, <2>2, SMTT(30)
<1>12. /\ f12 \in Int /\ e12 \in Int /\ f12 >= 0 /\ f12 <= 15 /\ e12 >= 0
          /\ e12 <= 60
       /\ 225 * e12 - 64 * (f8 - f12) >= 0
          /\ 225 * e12 - 64 * (f8 - f12) <= 60
       /\ (f12 <= 14 \/ 225 * e12 - 64 * (f8 - f12) >= 60)
  <2>1. f11 \in Int /\ e11 \in Int
    BY <1>11
  <2>2. \/ f11 > 1 /\ f11 > 14 /\ f12 = f11 - 14 /\ e12 = e11 + 4
        \/ ~(f11 > 1 /\ f11 > 14) /\ f12 = f11 /\ e12 = e11
    BY <2>1, TailTurnIs
  <2> QED
    BY <1>8, <1>11, <2>1, <2>2, SMTT(30)
<1>13. /\ f13 \in Int /\ e13 \in Int /\ f13 >= 0 /\ f13 <= 8 /\ e13 >= 0
          /\ e13 <= 62
       /\ 225 * e13 - 64 * (f8 - f13) >= 0
          /\ 225 * e13 - 64 * (f8 - f13) <= 62
       /\ (f13 <= 7 \/ 225 * e13 - 64 * (f8 - f13) >= 62)
  <2>1. f12 \in Int /\ e12 \in Int
    BY <1>12
  <2>2. \/ f12 > 1 /\ f12 > 7 /\ f13 = f12 - 7 /\ e13 = e12 + 2
        \/ ~(f12 > 1 /\ f12 > 7) /\ f13 = f12 /\ e13 = e12
    BY <2>1, TailTurnIs
  <2> QED
    BY <1>8, <1>12, <2>1, <2>2, SMTT(30)
<1>14. /\ f14 \in Int /\ e14 \in Int /\ f14 >= 0 /\ f14 <= 5 /\ e14 >= 0
          /\ e14 <= 63
       /\ 225 * e14 - 64 * (f8 - f14) >= 0
          /\ 225 * e14 - 64 * (f8 - f14) <= 95
       /\ (f14 <= 4 \/ 225 * e14 - 64 * (f8 - f14) >= 95)
  <2>1. f13 \in Int /\ e13 \in Int
    BY <1>13
  <2>2. \/ f13 > 1 /\ f13 > 3 /\ f14 = f13 - 3 /\ e14 = e13 + 1
        \/ ~(f13 > 1 /\ f13 > 3) /\ f14 = f13 /\ e14 = e13
    BY <2>1, TailTurnIs
  <2> QED
    BY <1>8, <1>13, <2>1, <2>2, SMTT(30)
<1> QED
  BY <1>8, <1>14, SMT

(* So they do with the 16 MHz crystal.                                     *)
LEMMA Tail16000 ==
    ASSUME NEW f8 \in 0..125, NEW f9, NEW f10, NEW f11, NEW f12, NEW f13,
           NEW f14,
           NEW e8, NEW e9, NEW e10, NEW e11, NEW e12, NEW e13, NEW e14, e8
               = 0,
           TailTurn(f8, e8, f9, e9, 62, 32),
           TailTurn(f9, e9, f10, e10, 31, 16),
           TailTurn(f10, e10, f11, e11, 15, 8),
           TailTurn(f11, e11, f12, e12, 7, 4),
           TailTurn(f12, e12, f13, e13, 3, 2),
           TailTurn(f13, e13, f14, e14, 1, 1)
    PROVE  e14 \in 0..63 /\ f8 - (125 * e14) \div 64 \in (0 - 4)..4
             /\ f14 \in Nat
<1>8. f8 \in Int /\ e8 \in Int /\ f8 >= 0 /\ f8 <= 125 /\ e8 = 0
  OBVIOUS
<1>9. /\ f9 \in Int /\ e9 \in Int /\ f9 >= 0 /\ f9 <= 63 /\ e9 >= 0
         /\ e9 <= 32
      /\ 125 * e9 - 64 * (f8 - f9) >= 0 /\ 125 * e9 - 64 * (f8 - f9) <= 32
  <2>1. f8 \in Int /\ e8 \in Int
    BY <1>8
  <2>2. \/ f8 > 1 /\ f8 > 62 /\ f9 = f8 - 62 /\ e9 = e8 + 32
        \/ ~(f8 > 1 /\ f8 > 62) /\ f9 = f8 /\ e9 = e8
    BY <2>1, TailTurnIs
  <2>3. (f8 > 62 /\ f9 = f8 - 62 /\ e9 = 32) \/ (f8 <= 62 /\ f9 = f8 /\ e9
          = 0)
    BY <1>8, <2>2
  <2> QED
    BY <1>8, <2>3
<1>10. /\ f10 \in Int /\ e10 \in Int /\ f10 >= 0 /\ f10 <= 32 /\ e10 >= 0
          /\ e10 <= 48
       /\ 125 * e10 - 64 * (f8 - f10) >= 0
          /\ 125 * e10 - 64 * (f8 - f10) <= 48
  <2>1. f9 \in Int /\ e9 \in Int
    BY <1>9
  <2>2. \/ f9 > 1 /\ f9 > 31 /\ f10 = f9 - 31 /\ e10 = e9 + 16
        \/ ~(f9 > 1 /\ f9 > 31) /\ f10 = f9 /\ e10 = e9
    BY <2>1, TailTurnIs
  <2> QED
    BY <1>8, <1>9, <2>1, <2>2, SMTT(30)
<1>11. /\ f11 \in Int /\ e11 \in Int /\ f11 >= 0 /\ f11 <= 17 /\ e11 >= 0
          /\ e11 <= 56
       /\ 125 * e11 - 64 * (f8 - f11) >= 0
          /\ 125 * e11 - 64 * (f8 - f11) <= 88
  <2>1. f10 \in Int /\ e10 \in Int
    BY <1>10
  <2>2. \/ f10 > 1 /\ f10 > 15 /\ f11 = f10 - 15 /\ e11 = e10 + 8
        \/ ~(f10 > 1 /\ f10 > 15) /\ f11 = f10 /\ e11 = e10
    BY <2>1, TailTurnIs
  <2> QED
    BY <1>8, <1>10, <2>1, <2>2, SMTT(30)
<1>12. /\ f12 \in Int /\ e12 \in Int /\ f12 >= 0 /\ f12 <= 10 /\ e12 >= 0
          /\ e12 <= 60
       /\ 125 * e12 - 64 * (f8 - f12) >= 0
          /\ 125 * e12 - 64 * (f8 - f12) <= 140
       /\ (f12 <= 8 \/ 125 * e12 - 64 * (f8 - f12) >= 52)
  <2>1. f11 \in Int /\ e11 \in Int
    BY <1>11
  <2>2. \/ f11 > 1 /\ f11 > 7 /\ f12 = f11 - 7 /\ e12 = e11 + 4
        \/ ~(f11 > 1 /\ f11 > 7) /\ f12 = f11 /\ e12 = e11
    BY <2>1, TailTurnIs
  <2> QED
    BY <1>8, <1>11, <2>1, <2>2, SMTT(30)
<1>13. /\ f13 \in Int /\ e13 \in Int /\ f13 >= 0 /\ f13 <= 7 /\ e13 >= 0
          /\ e13 <= 62
       /\ 125 * e13 - 64 * (f8 - f13) >= 0
          /\ 125 * e13 - 64 * (f8 - f13) <= 198
       /\ (f13 <= 5 \/ 125 * e13 - 64 * (f8 - f13) >= 110)
  <2>1. f12 \in Int /\ e12 \in Int
    BY <1>12
  <2>2. \/ f12 > 1 /\ f12 > 3 /\ f13 = f12 - 3 /\ e13 = e12 + 2
        \/ ~(f12 > 1 /\ f12 > 3) /\ f13 = f12 /\ e13 = e12
    BY <2>1, TailTurnIs
  <2> QED
    BY <1>8, <1>12, <2>1, <2>2, SMTT(30)
<1>14. /\ f14 \in Int /\ e14 \in Int /\ f14 >= 0 /\ f14 <= 6 /\ e14 >= 0
          /\ e14 <= 63
       /\ 125 * e14 - 64 * (f8 - f14) >= 0
          /\ 125 * e14 - 64 * (f8 - f14) <= 259
       /\ (f14 <= 4 \/ 125 * e14 - 64 * (f8 - f14) >= 171)
  <2>1. f13 \in Int /\ e13 \in Int
    BY <1>13
  <2>2. \/ f13 > 1 /\ f13 > 1 /\ f14 = f13 - 1 /\ e14 = e13 + 1
        \/ ~(f13 > 1 /\ f13 > 1) /\ f14 = f13 /\ e14 = e13
    BY <2>1, TailTurnIs
  <2> QED
    BY <1>8, <1>13, <2>1, <2>2, SMTT(30)
<1> QED
  BY <1>8, <1>14, SMT

(* The fifteen turns over the tables.                                      *)
SdmRun(s, ref) == \A k \in 1..15 : s[k] = Turned(s[k - 1], SdmSteps(ref)[k],
    SdmWeights[k], k)

(* A turn of them.                                                         *)
LEMMA SdmRunIs ==
    ASSUME NEW ref \in Refs, NEW fra \in Nat
    PROVE  SdmRun(SdmAfter(fra, ref), ref)
<1> DEFINE s == SdmAfter(fra, ref)
<1>1. \A k \in 1..15 : s[k] = Turned(s[k - 1], SdmSteps(ref)[k],
        SdmWeights[k], k)
  BY SdmRuns
<1> QED
  BY <1>1 DEF SdmRun

(* A turn adds a multiple of four but in the last two.                     *)
LEMMA HitFour ==
    ASSUME NEW f, NEW step, NEW weight \in Int
    PROVE  Hit(f, step, weight) \in Int /\ Hit(f, step, 4 * weight)
             = 4 * Hit(f, step, weight)
BY DEF Hit

(* The fraction that sdm stands for is within 4 kHz of the fraction asked  *)
(* for, and the loop ends before its divisor is zero.                      *)
SdmGood(fra, ref) ==
  fra - SdmKhz(Sdm(fra, ref), ref) \in (0 - 4)..4 /\ ~SdmDividesByZero(fra,
      ref)

(* The states after eight turns.                                           *)
At(p, j, e) == p \in SdmStates /\ p.sdm = 256 * j + 4 * e /\ e \in Int

(* One turn from one state of the loop to the next.                        *)
LEMMA TurnGoes ==
    ASSUME NEW p, NEW j \in Nat, NEW e, NEW step \in Int, NEW weight \in Int,
           NEW k \in Int,
           At(p, j, e)
    PROVE  /\ At(Turned(p, step, 4 * weight, k), j,
              e + Hit(p.fra, step, weight))
           /\ TailTurn(p.fra, e, Turned(p, step, 4 * weight, k).fra,
              e + Hit(p.fra, step, weight), step, weight)
<1> DEFINE w4 == 4 * weight
           q == Turned(p, step, w4, k)
           h == e + Hit(p.fra, step, weight)
<1>1. w4 \in Int /\ p \in SdmStates /\ p.sdm = 256 * j + 4 * e /\ e \in Int
  BY DEF At
<1>3. Hit(p.fra, step, weight) \in Int /\ Hit(p.fra, step, w4)
        = 4 * Hit(p.fra, step, weight)
  BY HitFour
<1> HIDE DEF w4
<1>2. q \in SdmStates /\ q.fra = Cut(p.fra, step) /\ q.sdm
        = p.sdm + Hit(p.fra, step, w4)
  BY <1>1, TurnedIs
<1> HIDE DEF q
<1>4. q.sdm = 256 * j + 4 * h /\ h \in Int
  BY <1>1, <1>2, <1>3
<1>5. TailTurn(p.fra, e, q.fra, h, step, weight)
  BY <1>2 DEF TailTurn
<1>6. At(q, j, h)
  BY <1>2, <1>4 DEF At
<1> QED
  BY <1>5, <1>6 DEF q, w4

(* sdm is right for the 28.8 MHz crystal: eight exact turns, then seven    *)
(* bounded ones.                                                           *)
LEMMA SdmGood28800 ==
    ASSUME NEW fra \in Nat, fra < 2 * 28800
    PROVE  SdmGood(fra, 28800)
<1> DEFINE ref == 28800
           s == SdmAfter(fra, ref)
           f(k) == s[k].fra
           c == 225
           e8 == 0
           e9 == e8 + Hit(f(8), 112, 32)
           e10 == e9 + Hit(f(9), 56, 16)
           e11 == e10 + Hit(f(10), 28, 8)
           e12 == e11 + Hit(f(11), 14, 4)
           e13 == e12 + Hit(f(12), 7, 2)
           e14 == e13 + Hit(f(13), 3, 1)
<1>1. ref \in Refs /\ fra < 2 * ref /\ Part(ref) = c
  BY SMT DEF Refs, Part
<1>2. \A k \in 1..15 : s[k] = Turned(s[k - 1], SdmSteps(ref)[k],
        SdmWeights[k], k)
  <2>1. SdmRun(s, ref)
    <3> HIDE DEF ref
    <3> QED
      BY <1>1, SdmRunIs
  <2> HIDE DEF s
  <2> QED
    BY <2>1 DEF SdmRun
<1>3. Halved(s[8], fra, c, 1)
  BY <1>1, SdmExact
<1>4. SdmSteps(ref)[9] = 112 /\ SdmSteps(ref)[10] = 56 /\ SdmSteps(ref)[11]
        = 28 /\ SdmSteps(ref)[12] = 14 /\ SdmSteps(ref)[13] = 7
            /\ SdmSteps(ref)[14] = 3 /\ SdmSteps(ref)[15] = 1
  BY SMT DEF SdmSteps
<1>5. SdmWeights[9] = 128 /\ SdmWeights[10] = 64 /\ SdmWeights[11] = 32
        /\ SdmWeights[12] = 16 /\ SdmWeights[13] = 8 /\ SdmWeights[14] = 4
           /\ SdmWeights[15] = 2
  BY SMT DEF SdmWeights
<1> HIDE DEF s, e8
<1>6. PICK j \in Nat : s[8].sdm = 256 * j /\ f(8) + c * j = fra
  BY <1>3 DEF Halved
<1>7. e8 = 0 /\ e8 \in Int
  BY DEF e8
<1>8. At(s[8], j, e8) /\ f(8) \in 0..225
  <2>1. s[8] \in SdmStates /\ f(8) >= 0 /\ f(8) <= c * 1
    BY <1>3 DEF Halved
  <2>2. f(8) \in Int
    BY <2>1 DEF SdmStates
  <2> QED
    BY <1>6, <1>7, <2>1, <2>2 DEF At
<1>9. At(s[9], j, e9) /\ TailTurn(f(8), e8, f(9), e9, 112, 32)
  <2> DEFINE p == s[8]  q == s[9]  step == 112  weight == 32  n == 9  e == e8
  <2>1. 9 \in 1..15 /\ 9 - 1 = 8
    OBVIOUS
  <2>2. q = Turned(p, step, 128, n)
    BY <1>2, <1>4, <1>5, <2>1
  <2>3. step \in Int /\ weight \in Int /\ 128 = 4 * weight /\ n \in Int
    OBVIOUS
  <2>4. At(p, j, e)
    BY <1>8
  <2> HIDE DEF p, q, step, weight, n, e, e9
  <2>5. q = Turned(p, step, 4 * weight, n)
    BY <2>2, <2>3
  <2>6. /\ At(Turned(p, step, 4 * weight, n), j, e + Hit(p.fra, step, weight))
        /\ TailTurn(p.fra, e, Turned(p, step, 4 * weight, n).fra,
           e + Hit(p.fra, step, weight), step, weight)
    BY <2>3, <2>4, TurnGoes
  <2>7. At(q, j, e + Hit(p.fra, step, weight)) /\ TailTurn(p.fra, e, q.fra,
          e + Hit(p.fra, step, weight), step, weight)
    BY <2>5, <2>6
  <2> QED
    BY <2>7 DEF p, q, step, weight, e, e9
<1> HIDE DEF e9
<1>10. At(s[10], j, e10) /\ TailTurn(f(9), e9, f(10), e10, 56, 16)
  <2> DEFINE p == s[9]  q == s[10]  step == 56  weight == 16  n == 10  e == e9
  <2>1. 10 \in 1..15 /\ 10 - 1 = 9
    OBVIOUS
  <2>2. q = Turned(p, step, 64, n)
    BY <1>2, <1>4, <1>5, <2>1
  <2>3. step \in Int /\ weight \in Int /\ 64 = 4 * weight /\ n \in Int
    OBVIOUS
  <2>4. At(p, j, e)
    BY <1>9
  <2> HIDE DEF p, q, step, weight, n, e, e10
  <2>5. q = Turned(p, step, 4 * weight, n)
    BY <2>2, <2>3
  <2>6. /\ At(Turned(p, step, 4 * weight, n), j, e + Hit(p.fra, step, weight))
        /\ TailTurn(p.fra, e, Turned(p, step, 4 * weight, n).fra,
           e + Hit(p.fra, step, weight), step, weight)
    BY <2>3, <2>4, TurnGoes
  <2>7. At(q, j, e + Hit(p.fra, step, weight)) /\ TailTurn(p.fra, e, q.fra,
          e + Hit(p.fra, step, weight), step, weight)
    BY <2>5, <2>6
  <2> QED
    BY <2>7 DEF p, q, step, weight, e, e10
<1> HIDE DEF e10
<1>11. At(s[11], j, e11) /\ TailTurn(f(10), e10, f(11), e11, 28, 8)
  <2> DEFINE p == s[10]  q == s[11]  step == 28  weight == 8  n == 11  e ==
        e10
  <2>1. 11 \in 1..15 /\ 11 - 1 = 10
    OBVIOUS
  <2>2. q = Turned(p, step, 32, n)
    BY <1>2, <1>4, <1>5, <2>1
  <2>3. step \in Int /\ weight \in Int /\ 32 = 4 * weight /\ n \in Int
    OBVIOUS
  <2>4. At(p, j, e)
    BY <1>10
  <2> HIDE DEF p, q, step, weight, n, e, e11
  <2>5. q = Turned(p, step, 4 * weight, n)
    BY <2>2, <2>3
  <2>6. /\ At(Turned(p, step, 4 * weight, n), j, e + Hit(p.fra, step, weight))
        /\ TailTurn(p.fra, e, Turned(p, step, 4 * weight, n).fra,
           e + Hit(p.fra, step, weight), step, weight)
    BY <2>3, <2>4, TurnGoes
  <2>7. At(q, j, e + Hit(p.fra, step, weight)) /\ TailTurn(p.fra, e, q.fra,
          e + Hit(p.fra, step, weight), step, weight)
    BY <2>5, <2>6
  <2> QED
    BY <2>7 DEF p, q, step, weight, e, e11
<1> HIDE DEF e11
<1>12. At(s[12], j, e12) /\ TailTurn(f(11), e11, f(12), e12, 14, 4)
  <2> DEFINE p == s[11]  q == s[12]  step == 14  weight == 4  n == 12  e ==
        e11
  <2>1. 12 \in 1..15 /\ 12 - 1 = 11
    OBVIOUS
  <2>2. q = Turned(p, step, 16, n)
    BY <1>2, <1>4, <1>5, <2>1
  <2>3. step \in Int /\ weight \in Int /\ 16 = 4 * weight /\ n \in Int
    OBVIOUS
  <2>4. At(p, j, e)
    BY <1>11
  <2> HIDE DEF p, q, step, weight, n, e, e12
  <2>5. q = Turned(p, step, 4 * weight, n)
    BY <2>2, <2>3
  <2>6. /\ At(Turned(p, step, 4 * weight, n), j, e + Hit(p.fra, step, weight))
        /\ TailTurn(p.fra, e, Turned(p, step, 4 * weight, n).fra,
           e + Hit(p.fra, step, weight), step, weight)
    BY <2>3, <2>4, TurnGoes
  <2>7. At(q, j, e + Hit(p.fra, step, weight)) /\ TailTurn(p.fra, e, q.fra,
          e + Hit(p.fra, step, weight), step, weight)
    BY <2>5, <2>6
  <2> QED
    BY <2>7 DEF p, q, step, weight, e, e12
<1> HIDE DEF e12
<1>13. At(s[13], j, e13) /\ TailTurn(f(12), e12, f(13), e13, 7, 2)
  <2> DEFINE p == s[12]  q == s[13]  step == 7  weight == 2  n == 13  e == e12
  <2>1. 13 \in 1..15 /\ 13 - 1 = 12
    OBVIOUS
  <2>2. q = Turned(p, step, 8, n)
    BY <1>2, <1>4, <1>5, <2>1
  <2>3. step \in Int /\ weight \in Int /\ 8 = 4 * weight /\ n \in Int
    OBVIOUS
  <2>4. At(p, j, e)
    BY <1>12
  <2> HIDE DEF p, q, step, weight, n, e, e13
  <2>5. q = Turned(p, step, 4 * weight, n)
    BY <2>2, <2>3
  <2>6. /\ At(Turned(p, step, 4 * weight, n), j, e + Hit(p.fra, step, weight))
        /\ TailTurn(p.fra, e, Turned(p, step, 4 * weight, n).fra,
           e + Hit(p.fra, step, weight), step, weight)
    BY <2>3, <2>4, TurnGoes
  <2>7. At(q, j, e + Hit(p.fra, step, weight)) /\ TailTurn(p.fra, e, q.fra,
          e + Hit(p.fra, step, weight), step, weight)
    BY <2>5, <2>6
  <2> QED
    BY <2>7 DEF p, q, step, weight, e, e13
<1> HIDE DEF e13
<1>14. At(s[14], j, e14) /\ TailTurn(f(13), e13, f(14), e14, 3, 1)
  <2> DEFINE p == s[13]  q == s[14]  step == 3  weight == 1  n == 14  e == e13
  <2>1. 14 \in 1..15 /\ 14 - 1 = 13
    OBVIOUS
  <2>2. q = Turned(p, step, 4, n)
    BY <1>2, <1>4, <1>5, <2>1
  <2>3. step \in Int /\ weight \in Int /\ 4 = 4 * weight /\ n \in Int
    OBVIOUS
  <2>4. At(p, j, e)
    BY <1>13
  <2> HIDE DEF p, q, step, weight, n, e, e14
  <2>5. q = Turned(p, step, 4 * weight, n)
    BY <2>2, <2>3
  <2>6. /\ At(Turned(p, step, 4 * weight, n), j, e + Hit(p.fra, step, weight))
        /\ TailTurn(p.fra, e, Turned(p, step, 4 * weight, n).fra,
           e + Hit(p.fra, step, weight), step, weight)
    BY <2>3, <2>4, TurnGoes
  <2>7. At(q, j, e + Hit(p.fra, step, weight)) /\ TailTurn(p.fra, e, q.fra,
          e + Hit(p.fra, step, weight), step, weight)
    BY <2>5, <2>6
  <2> QED
    BY <2>7 DEF p, q, step, weight, e, e14
<1> HIDE DEF e14
<1> HIDE DEF f
<1>15. e14 \in 0..63 /\ f(8) - (c * e14) \div 64 \in (0 - 4)..4
  BY <1>7, <1>8, <1>9, <1>10, <1>11, <1>12, <1>13, <1>14, Tail28800
<1>16. /\ s[15].sdm = s[14].sdm + Hit(f(14), 1, 2)
       /\ s[15].fra = Cut(f(14), 1)
       /\ s[15].hit = 15 \/ ~(f(14) > 1 /\ f(14) > 1)
       /\ f(14) \in Int
  <2> DEFINE p == s[14]  q == s[15]
  <2>1. 15 \in 1..15 /\ 15 - 1 = 14 /\ 1 \in Int /\ 2 \in Int /\ 15 \in Int
    OBVIOUS
  <2>2. q = Turned(p, 1, 2, 15)
    BY <1>2, <1>4, <1>5, <2>1
  <2>3. p \in SdmStates
    BY <1>14 DEF At
  <2> HIDE DEF p, q
  <2>4. q.sdm = p.sdm + Hit(p.fra, 1, 2) /\ q.fra = Cut(p.fra, 1)
          /\ (q.hit = 15 \/ ~(p.fra > 1 /\ p.fra > 1))
    BY <2>1, <2>2, <2>3, TurnedIs
  <2>5. p.fra \in Int
    BY <2>3 DEF SdmStates
  <2> QED
    BY <2>4, <2>5 DEF p, q, f
<1>17. ~SdmDividesByZero(fra, ref)
  <2>1. SdmDividesByZero(fra, ref) <=> s[15].fra > 1 /\ s[15].hit # 15
    BY DEF SdmDividesByZero, s
  <2>2. s[15].hit # 15 => s[15].fra = f(14) /\ ~(f(14) > 1)
    BY <1>16 DEF Cut
  <2> QED
    BY <2>1, <2>2
<1>18. SdmKhz(Sdm(fra, ref), ref) = c * j + (c * e14) \div 64
  <2> DEFINE d == s[15].sdm
  <2>1. Sdm(fra, ref) = d
    BY DEF Sdm, s
  <2>2. d = 256 * j + 4 * e14 \/ d = 256 * j + 4 * e14 + 2
    <3>1. s[14].sdm = 256 * j + 4 * e14 /\ e14 \in Int
      BY <1>14 DEF At
    <3>2. Hit(f(14), 1, 2) = 0 \/ Hit(f(14), 1, 2) = 2
      BY DEF Hit
    <3>3. d = s[14].sdm + Hit(f(14), 1, 2)
      BY <1>16
    <3> HIDE DEF d
    <3> QED
      BY <1>6, <3>1, <3>2, <3>3
  <2> HIDE DEF d
  <2> DEFINE i == e14
  <2>3. i \in 0..63 /\ i \in Int
    BY <1>15
  <2> HIDE DEF i
  <2>4. d = 4 * (64 * j + i) \/ d = 4 * (64 * j + i) + 2
    BY <1>6, <2>2, <2>3 DEF i
  <2> DEFINE m == 64 * j + i
  <2>5. m \in Nat
    BY <1>6, <2>3
  <2>6. d \div 4 = m
    <3>1. d = 4 * m \/ d = 4 * m + 2
      BY <2>4
    <3> HIDE DEF m
    <3> QED
      BY <2>5, <3>1
  <2> HIDE DEF m
  <2>7. SdmKhz(Sdm(fra, ref), ref) = (57600 * m) \div 16384
    BY <2>1, <2>6 DEF SdmKhz
  <2>8. 57600 * m = 256 * (c * m)
    BY <2>5
  <2> DEFINE y == c * m
  <2>9. y \in Nat /\ (256 * y) \div 16384 = y \div 64
    BY <2>5
  <2>10. y = 64 * (c * j) + c * i /\ c * j \in Nat /\ c * i \in Nat
    BY <1>6, <2>3 DEF m
  <2> DEFINE v == c * j  w == c * i
  <2>11. (64 * v + w) \div 64 = v + w \div 64
    <3>1. v \in Nat /\ w \in Nat
      BY <2>10
    <3> HIDE DEF v, w
    <3> QED
      BY <3>1
  <2> HIDE DEF y, v, w
  <2>12. SdmKhz(Sdm(fra, ref), ref) = v + w \div 64
    BY <2>7, <2>8, <2>9, <2>10, <2>11 DEF y, v, w
  <2> QED
    BY <2>12 DEF v, w, i
<1>19. fra - SdmKhz(Sdm(fra, ref), ref) \in (0 - 4)..4
  <2> DEFINE t == (c * e14) \div 64
  <2>1. t \in Int
    BY <1>15
  <2>2. f(8) - t \in (0 - 4)..4 /\ f(8) \in Int /\ f(8) + c * j = fra
          /\ SdmKhz(Sdm(fra, ref), ref) = c * j + t
    BY <1>6, <1>8, <1>15, <1>18
  <2> HIDE DEF t, f
  <2> QED
    BY <1>6, <2>1, <2>2
<1> QED
  BY <1>17, <1>19 DEF SdmGood

(* And for the 16 MHz crystal.                                             *)
LEMMA SdmGood16000 ==
    ASSUME NEW fra \in Nat, fra < 2 * 16000
    PROVE  SdmGood(fra, 16000)
<1> DEFINE ref == 16000
           s == SdmAfter(fra, ref)
           f(k) == s[k].fra
           c == 125
           e8 == 0
           e9 == e8 + Hit(f(8), 62, 32)
           e10 == e9 + Hit(f(9), 31, 16)
           e11 == e10 + Hit(f(10), 15, 8)
           e12 == e11 + Hit(f(11), 7, 4)
           e13 == e12 + Hit(f(12), 3, 2)
           e14 == e13 + Hit(f(13), 1, 1)
<1>1. ref \in Refs /\ fra < 2 * ref /\ Part(ref) = c
  BY SMT DEF Refs, Part
<1>2. \A k \in 1..15 : s[k] = Turned(s[k - 1], SdmSteps(ref)[k],
        SdmWeights[k], k)
  <2>1. SdmRun(s, ref)
    <3> HIDE DEF ref
    <3> QED
      BY <1>1, SdmRunIs
  <2> HIDE DEF s
  <2> QED
    BY <2>1 DEF SdmRun
<1>3. Halved(s[8], fra, c, 1)
  BY <1>1, SdmExact
<1>4. SdmSteps(ref)[9] = 62 /\ SdmSteps(ref)[10] = 31 /\ SdmSteps(ref)[11]
        = 15 /\ SdmSteps(ref)[12] = 7 /\ SdmSteps(ref)[13] = 3
            /\ SdmSteps(ref)[14] = 1 /\ SdmSteps(ref)[15] = 0
  BY SMT DEF SdmSteps
<1>5. SdmWeights[9] = 128 /\ SdmWeights[10] = 64 /\ SdmWeights[11] = 32
        /\ SdmWeights[12] = 16 /\ SdmWeights[13] = 8 /\ SdmWeights[14] = 4
           /\ SdmWeights[15] = 2
  BY SMT DEF SdmWeights
<1> HIDE DEF s, e8
<1>6. PICK j \in Nat : s[8].sdm = 256 * j /\ f(8) + c * j = fra
  BY <1>3 DEF Halved
<1>7. e8 = 0 /\ e8 \in Int
  BY DEF e8
<1>8. At(s[8], j, e8) /\ f(8) \in 0..125
  <2>1. s[8] \in SdmStates /\ f(8) >= 0 /\ f(8) <= c * 1
    BY <1>3 DEF Halved
  <2>2. f(8) \in Int
    BY <2>1 DEF SdmStates
  <2> QED
    BY <1>6, <1>7, <2>1, <2>2 DEF At
<1>9. At(s[9], j, e9) /\ TailTurn(f(8), e8, f(9), e9, 62, 32)
  <2> DEFINE p == s[8]  q == s[9]  step == 62  weight == 32  n == 9  e == e8
  <2>1. 9 \in 1..15 /\ 9 - 1 = 8
    OBVIOUS
  <2>2. q = Turned(p, step, 128, n)
    BY <1>2, <1>4, <1>5, <2>1
  <2>3. step \in Int /\ weight \in Int /\ 128 = 4 * weight /\ n \in Int
    OBVIOUS
  <2>4. At(p, j, e)
    BY <1>8
  <2> HIDE DEF p, q, step, weight, n, e, e9
  <2>5. q = Turned(p, step, 4 * weight, n)
    BY <2>2, <2>3
  <2>6. /\ At(Turned(p, step, 4 * weight, n), j, e + Hit(p.fra, step, weight))
        /\ TailTurn(p.fra, e, Turned(p, step, 4 * weight, n).fra,
           e + Hit(p.fra, step, weight), step, weight)
    BY <2>3, <2>4, TurnGoes
  <2>7. At(q, j, e + Hit(p.fra, step, weight)) /\ TailTurn(p.fra, e, q.fra,
          e + Hit(p.fra, step, weight), step, weight)
    BY <2>5, <2>6
  <2> QED
    BY <2>7 DEF p, q, step, weight, e, e9
<1> HIDE DEF e9
<1>10. At(s[10], j, e10) /\ TailTurn(f(9), e9, f(10), e10, 31, 16)
  <2> DEFINE p == s[9]  q == s[10]  step == 31  weight == 16  n == 10  e == e9
  <2>1. 10 \in 1..15 /\ 10 - 1 = 9
    OBVIOUS
  <2>2. q = Turned(p, step, 64, n)
    BY <1>2, <1>4, <1>5, <2>1
  <2>3. step \in Int /\ weight \in Int /\ 64 = 4 * weight /\ n \in Int
    OBVIOUS
  <2>4. At(p, j, e)
    BY <1>9
  <2> HIDE DEF p, q, step, weight, n, e, e10
  <2>5. q = Turned(p, step, 4 * weight, n)
    BY <2>2, <2>3
  <2>6. /\ At(Turned(p, step, 4 * weight, n), j, e + Hit(p.fra, step, weight))
        /\ TailTurn(p.fra, e, Turned(p, step, 4 * weight, n).fra,
           e + Hit(p.fra, step, weight), step, weight)
    BY <2>3, <2>4, TurnGoes
  <2>7. At(q, j, e + Hit(p.fra, step, weight)) /\ TailTurn(p.fra, e, q.fra,
          e + Hit(p.fra, step, weight), step, weight)
    BY <2>5, <2>6
  <2> QED
    BY <2>7 DEF p, q, step, weight, e, e10
<1> HIDE DEF e10
<1>11. At(s[11], j, e11) /\ TailTurn(f(10), e10, f(11), e11, 15, 8)
  <2> DEFINE p == s[10]  q == s[11]  step == 15  weight == 8  n == 11  e ==
        e10
  <2>1. 11 \in 1..15 /\ 11 - 1 = 10
    OBVIOUS
  <2>2. q = Turned(p, step, 32, n)
    BY <1>2, <1>4, <1>5, <2>1
  <2>3. step \in Int /\ weight \in Int /\ 32 = 4 * weight /\ n \in Int
    OBVIOUS
  <2>4. At(p, j, e)
    BY <1>10
  <2> HIDE DEF p, q, step, weight, n, e, e11
  <2>5. q = Turned(p, step, 4 * weight, n)
    BY <2>2, <2>3
  <2>6. /\ At(Turned(p, step, 4 * weight, n), j, e + Hit(p.fra, step, weight))
        /\ TailTurn(p.fra, e, Turned(p, step, 4 * weight, n).fra,
           e + Hit(p.fra, step, weight), step, weight)
    BY <2>3, <2>4, TurnGoes
  <2>7. At(q, j, e + Hit(p.fra, step, weight)) /\ TailTurn(p.fra, e, q.fra,
          e + Hit(p.fra, step, weight), step, weight)
    BY <2>5, <2>6
  <2> QED
    BY <2>7 DEF p, q, step, weight, e, e11
<1> HIDE DEF e11
<1>12. At(s[12], j, e12) /\ TailTurn(f(11), e11, f(12), e12, 7, 4)
  <2> DEFINE p == s[11]  q == s[12]  step == 7  weight == 4  n == 12  e == e11
  <2>1. 12 \in 1..15 /\ 12 - 1 = 11
    OBVIOUS
  <2>2. q = Turned(p, step, 16, n)
    BY <1>2, <1>4, <1>5, <2>1
  <2>3. step \in Int /\ weight \in Int /\ 16 = 4 * weight /\ n \in Int
    OBVIOUS
  <2>4. At(p, j, e)
    BY <1>11
  <2> HIDE DEF p, q, step, weight, n, e, e12
  <2>5. q = Turned(p, step, 4 * weight, n)
    BY <2>2, <2>3
  <2>6. /\ At(Turned(p, step, 4 * weight, n), j, e + Hit(p.fra, step, weight))
        /\ TailTurn(p.fra, e, Turned(p, step, 4 * weight, n).fra,
           e + Hit(p.fra, step, weight), step, weight)
    BY <2>3, <2>4, TurnGoes
  <2>7. At(q, j, e + Hit(p.fra, step, weight)) /\ TailTurn(p.fra, e, q.fra,
          e + Hit(p.fra, step, weight), step, weight)
    BY <2>5, <2>6
  <2> QED
    BY <2>7 DEF p, q, step, weight, e, e12
<1> HIDE DEF e12
<1>13. At(s[13], j, e13) /\ TailTurn(f(12), e12, f(13), e13, 3, 2)
  <2> DEFINE p == s[12]  q == s[13]  step == 3  weight == 2  n == 13  e == e12
  <2>1. 13 \in 1..15 /\ 13 - 1 = 12
    OBVIOUS
  <2>2. q = Turned(p, step, 8, n)
    BY <1>2, <1>4, <1>5, <2>1
  <2>3. step \in Int /\ weight \in Int /\ 8 = 4 * weight /\ n \in Int
    OBVIOUS
  <2>4. At(p, j, e)
    BY <1>12
  <2> HIDE DEF p, q, step, weight, n, e, e13
  <2>5. q = Turned(p, step, 4 * weight, n)
    BY <2>2, <2>3
  <2>6. /\ At(Turned(p, step, 4 * weight, n), j, e + Hit(p.fra, step, weight))
        /\ TailTurn(p.fra, e, Turned(p, step, 4 * weight, n).fra,
           e + Hit(p.fra, step, weight), step, weight)
    BY <2>3, <2>4, TurnGoes
  <2>7. At(q, j, e + Hit(p.fra, step, weight)) /\ TailTurn(p.fra, e, q.fra,
          e + Hit(p.fra, step, weight), step, weight)
    BY <2>5, <2>6
  <2> QED
    BY <2>7 DEF p, q, step, weight, e, e13
<1> HIDE DEF e13
<1>14. At(s[14], j, e14) /\ TailTurn(f(13), e13, f(14), e14, 1, 1)
  <2> DEFINE p == s[13]  q == s[14]  step == 1  weight == 1  n == 14  e == e13
  <2>1. 14 \in 1..15 /\ 14 - 1 = 13
    OBVIOUS
  <2>2. q = Turned(p, step, 4, n)
    BY <1>2, <1>4, <1>5, <2>1
  <2>3. step \in Int /\ weight \in Int /\ 4 = 4 * weight /\ n \in Int
    OBVIOUS
  <2>4. At(p, j, e)
    BY <1>13
  <2> HIDE DEF p, q, step, weight, n, e, e14
  <2>5. q = Turned(p, step, 4 * weight, n)
    BY <2>2, <2>3
  <2>6. /\ At(Turned(p, step, 4 * weight, n), j, e + Hit(p.fra, step, weight))
        /\ TailTurn(p.fra, e, Turned(p, step, 4 * weight, n).fra,
           e + Hit(p.fra, step, weight), step, weight)
    BY <2>3, <2>4, TurnGoes
  <2>7. At(q, j, e + Hit(p.fra, step, weight)) /\ TailTurn(p.fra, e, q.fra,
          e + Hit(p.fra, step, weight), step, weight)
    BY <2>5, <2>6
  <2> QED
    BY <2>7 DEF p, q, step, weight, e, e14
<1> HIDE DEF e14
<1> HIDE DEF f
<1>15. e14 \in 0..63 /\ f(8) - (c * e14) \div 64 \in (0 - 4)..4
  BY <1>7, <1>8, <1>9, <1>10, <1>11, <1>12, <1>13, <1>14, Tail16000
<1>16. /\ s[15].sdm = s[14].sdm + Hit(f(14), 0, 2)
       /\ s[15].fra = Cut(f(14), 0)
       /\ s[15].hit = 15 \/ ~(f(14) > 1 /\ f(14) > 0)
       /\ f(14) \in Int
  <2> DEFINE p == s[14]  q == s[15]
  <2>1. 15 \in 1..15 /\ 15 - 1 = 14 /\ 0 \in Int /\ 2 \in Int /\ 15 \in Int
    OBVIOUS
  <2>2. q = Turned(p, 0, 2, 15)
    BY <1>2, <1>4, <1>5, <2>1
  <2>3. p \in SdmStates
    BY <1>14 DEF At
  <2> HIDE DEF p, q
  <2>4. q.sdm = p.sdm + Hit(p.fra, 0, 2) /\ q.fra = Cut(p.fra, 0)
          /\ (q.hit = 15 \/ ~(p.fra > 1 /\ p.fra > 0))
    BY <2>1, <2>2, <2>3, TurnedIs
  <2>5. p.fra \in Int
    BY <2>3 DEF SdmStates
  <2> QED
    BY <2>4, <2>5 DEF p, q, f
<1>17. ~SdmDividesByZero(fra, ref)
  <2>1. SdmDividesByZero(fra, ref) <=> s[15].fra > 1 /\ s[15].hit # 15
    BY DEF SdmDividesByZero, s
  <2>2. s[15].hit # 15 => s[15].fra = f(14) /\ ~(f(14) > 1)
    BY <1>16 DEF Cut
  <2> QED
    BY <2>1, <2>2
<1>18. SdmKhz(Sdm(fra, ref), ref) = c * j + (c * e14) \div 64
  <2> DEFINE d == s[15].sdm
  <2>1. Sdm(fra, ref) = d
    BY DEF Sdm, s
  <2>2. d = 256 * j + 4 * e14 \/ d = 256 * j + 4 * e14 + 2
    <3>1. s[14].sdm = 256 * j + 4 * e14 /\ e14 \in Int
      BY <1>14 DEF At
    <3>2. Hit(f(14), 0, 2) = 0 \/ Hit(f(14), 0, 2) = 2
      BY DEF Hit
    <3>3. d = s[14].sdm + Hit(f(14), 0, 2)
      BY <1>16
    <3> HIDE DEF d
    <3> QED
      BY <1>6, <3>1, <3>2, <3>3
  <2> HIDE DEF d
  <2> DEFINE i == e14
  <2>3. i \in 0..63 /\ i \in Int
    BY <1>15
  <2> HIDE DEF i
  <2>4. d = 4 * (64 * j + i) \/ d = 4 * (64 * j + i) + 2
    BY <1>6, <2>2, <2>3 DEF i
  <2> DEFINE m == 64 * j + i
  <2>5. m \in Nat
    BY <1>6, <2>3
  <2>6. d \div 4 = m
    <3>1. d = 4 * m \/ d = 4 * m + 2
      BY <2>4
    <3> HIDE DEF m
    <3> QED
      BY <2>5, <3>1
  <2> HIDE DEF m
  <2>7. SdmKhz(Sdm(fra, ref), ref) = (32000 * m) \div 16384
    BY <2>1, <2>6 DEF SdmKhz
  <2>8. 32000 * m = 256 * (c * m)
    BY <2>5
  <2> DEFINE y == c * m
  <2>9. y \in Nat /\ (256 * y) \div 16384 = y \div 64
    BY <2>5
  <2>10. y = 64 * (c * j) + c * i /\ c * j \in Nat /\ c * i \in Nat
    BY <1>6, <2>3 DEF m
  <2> DEFINE v == c * j  w == c * i
  <2>11. (64 * v + w) \div 64 = v + w \div 64
    <3>1. v \in Nat /\ w \in Nat
      BY <2>10
    <3> HIDE DEF v, w
    <3> QED
      BY <3>1
  <2> HIDE DEF y, v, w
  <2>12. SdmKhz(Sdm(fra, ref), ref) = v + w \div 64
    BY <2>7, <2>8, <2>9, <2>10, <2>11 DEF y, v, w
  <2> QED
    BY <2>12 DEF v, w, i
<1>19. fra - SdmKhz(Sdm(fra, ref), ref) \in (0 - 4)..4
  <2> DEFINE t == (c * e14) \div 64
  <2>1. t \in Int
    BY <1>15
  <2>2. f(8) - t \in (0 - 4)..4 /\ f(8) \in Int /\ f(8) + c * j = fra
          /\ SdmKhz(Sdm(fra, ref), ref) = c * j + t
    BY <1>6, <1>8, <1>15, <1>18
  <2> HIDE DEF t, f
  <2> QED
    BY <1>6, <2>1, <2>2
<1> QED
  BY <1>17, <1>19 DEF SdmGood

(* The pairs of a crystal and a vco_power_ref that the boards have: the    *)
(* R820T has both 28.8 MHz and the higher reference.                       *)
Fits(ref, power) ==
  /\ ref \in Refs /\ power \in {1, 2}
  /\ power = 2 => ref = 28800

(* For every frequency with an output divider the R82xx's synthesizer is   *)
(* set right (tuner_r82xx.c:468-542).                                      *)
LEMMA R82xxGood ==
    ASSUME NEW f \in Nat, HasDivider(f), NEW ref, NEW power,
           Fits(ref, power), SdmBound >= 4
    PROVE  LET n == Nint(f, ref)
               vco == f * MixDiv(f)
               off == vco - 2 * ref * n - SdmKhz(Sdm(VcoFra(f, ref), ref),
                   ref)
           IN  /\ vco \div (2 * ref) = n
               /\ ValidNint(f, ref, power)
               /\ 4 * Ni(n) + Si(n) + 13 = n /\ Ni(n) < 64 /\ Si(n) < 4
               /\ off >= -SdmBound /\ off <= SdmBound
               /\ ~SdmDividesByZero(VcoFra(f, ref), ref)
<1> DEFINE vco == f * MixDiv(f)
           D == 2 * ref
           q == vco \div D
           r == vco % D
           n == Nint(f, ref)
<1>0. ref \in Refs /\ power \in {1, 2} /\ (power = 2 => ref = 28800)
  BY SMT DEF Fits
<1>1. vco \in Nat /\ vco >= 1770000 /\ vco < 3540000
  <2>1. MixDiv(f) \in Dividers /\ InVcoRange(f, MixDiv(f))
    BY DEF HasDivider, MixDiv
  <2>2. MixDiv(f) \in Nat
    BY <2>1 DEF Dividers
  <2> QED
    BY <2>1, <2>2, SMT DEF InVcoRange, VcoMin, VcoMax
<1>2. D \in Nat \ {0} /\ D = (IF ref = 28800 THEN 57600 ELSE 32000)
  BY <1>0, SMT DEF Refs
<1> HIDE DEF vco
<1>3. vco = D * q + r /\ r \in 0..(D - 1) /\ q \in Nat
  <2>1. vco \in Nat
    BY <1>1
  <2>2. D \in Nat \ {0}
    BY <1>2
  <2> HIDE DEF D
  <2>3. vco = D * (vco \div D) + (vco % D)
    BY <2>1, <2>2, DivModDef
  <2>4. vco % D \in 0..(D - 1)
    BY <2>1, <2>2, DivModDef
  <2>5. vco \div D \in Nat
    BY <2>1, <2>2, DivModDef
  <2> QED
    BY <2>3, <2>4, <2>5
<1>4. n = q % 256
  BY DEF Nint, vco
<1>5. SdmBound \in Nat
  BY SweepAssumption
<1> HIDE DEF q, r, n, D
<1>6. q >= 30 /\ q <= 110 /\ (ref = 28800 => q <= 61)
  <2>1. CASE ref = 28800
    BY <1>1, <1>2, <1>3, <2>1
  <2>2. CASE ref # 28800
    BY <1>1, <1>2, <1>3, <2>2
  <2> QED
    BY <2>1, <2>2
<1>7. n = q
  BY <1>3, <1>4, <1>6
<1>8. VcoFra(f, ref) = r
  <2>1. VcoFra(f, ref) = vco - D * n
    BY DEF VcoFra, vco, D, n
  <2>2. D * q \in Int
    BY <1>2, <1>3
  <2> DEFINE y == D * q
  <2>3. y \in Int /\ vco = y + r /\ VcoFra(f, ref) = vco - y
    BY <1>3, <1>7, <2>1, <2>2
  <2> HIDE DEF y
  <2> QED
    BY <1>3, <2>3
<1>9. ValidNint(f, ref, power)
  <2>1. ValidNint(f, ref, power) <=> n <= (128 \div power) - 1
    BY DEF ValidNint, n
  <2> DEFINE h == 128 \div power
  <2>2. power = 1 => h = 128
    OBVIOUS
  <2>3. power = 2 => h = 64
    OBVIOUS
  <2> HIDE DEF h
  <2>4. power = 1 \/ (power = 2 /\ q <= 61)
    BY <1>0, <1>6, SMT
  <2>5. n <= h - 1
    BY <1>3, <1>6, <1>7, <2>2, <2>3, <2>4
  <2> QED
    BY <2>1, <2>5 DEF h
<1>10. 4 * Ni(n) + Si(n) + 13 = n /\ Ni(n) < 64 /\ Si(n) < 4
  <2> DEFINE a == (n - 13) \div 4
  <2>1. a \in 0..24 /\ n - 4 * a - 13 \in 0..3
    BY <1>3, <1>6, <1>7
  <2>2. Ni(n) = a % 256
    BY DEF Ni
  <2> HIDE DEF a
  <2>3. Ni(n) = a
    BY <2>1, <2>2
  <2>4. Si(n) = (n - 4 * a - 13) % 256
    BY <2>3 DEF Si
  <2> DEFINE b == n - 4 * a - 13
  <2>5. b \in 0..3
    BY <2>1
  <2>6. Si(n) = b
    <3> HIDE DEF b
    <3> QED
      BY <2>4, <2>5 DEF b
  <2> QED
    BY <1>3, <1>7, <2>1, <2>3, <2>6
<1>11. SdmGood(r, ref)
  <2>1. CASE ref = 28800
    <3>1. r \in Nat /\ r < 2 * 28800
      BY <1>2, <1>3, <2>1
    <3>2. SdmGood(r, 28800)
      BY <3>1, SdmGood28800
    <3> QED
      BY <2>1, <3>2
  <2>2. CASE ref = 16000
    <3>1. r \in Nat /\ r < 2 * 16000
      BY <1>2, <1>3, <2>2
    <3>2. SdmGood(r, 16000)
      BY <3>1, SdmGood16000
    <3> QED
      BY <2>2, <3>2
  <2> QED
    BY <1>0, <2>1, <2>2, SMT DEF Refs
<1>12. LET off == vco - D * n - SdmKhz(Sdm(VcoFra(f, ref), ref), ref)
       IN  off >= -SdmBound /\ off <= SdmBound
  <2> DEFINE z == SdmKhz(Sdm(r, ref), ref)  t == r - z
  <2>1. t \in (0 - 4)..4
    BY <1>11 DEF SdmGood
  <2>2. vco - D * n = r
    BY <1>7, <1>8 DEF VcoFra, vco, D, n
  <2>3. vco - D * n - SdmKhz(Sdm(VcoFra(f, ref), ref), ref) = t
    BY <1>8, <2>2
  <2> HIDE DEF t
  <2> QED
    BY <1>5, <2>1, <2>3
<1>13. ~SdmDividesByZero(VcoFra(f, ref), ref)
  BY <1>8, <1>11 DEF SdmGood
<1> QED
  BY <1>7, <1>9, <1>10, <1>12, <1>13 DEF n, q, D, vco

----------------------------------------------------------------------------
(* The synthesizer of the FC0012 and FC0013. *)

(* The row of the divider table that is chosen.                            *)
Dividing(model, n, freq) ==
  /\ n \in 1..Len(Rows(model)) /\ DividerRow(model, freq) = Rows(model)[n]
  /\ n = Len(Rows(model)) \/ freq < 1000 * Rows(model)[n].limit
  /\ \A m \in 1..(n - 1) : ~(freq < 1000 * Rows(model)[m].limit)

(* One is chosen, and it is the first that fits.                           *)
LEMMA RowFound ==
    ASSUME NEW model, NEW freq, Len(Rows(model)) \in Nat,
           Len(Rows(model)) > 0,
           DOMAIN Rows(model) = 1..Len(Rows(model))
    PROVE  \E n : Dividing(model, n, freq)
<1> DEFINE rows == Rows(model)
           L == Len(rows)
           Low(n) == n = L \/ freq < 1000 * rows[n].limit
           First(n) == Low(n) /\ \A m \in 1..(n - 1) : ~Low(m)
           k == CHOOSE n \in DOMAIN rows : First(n)
           S == {n \in 1..L : Low(n)}
<1>1. DividerRow(model, freq) = rows[k]
  BY DEF DividerRow
<1>2. L \in Nat /\ L > 0 /\ DOMAIN rows = 1..L
  OBVIOUS
<1> HIDE DEF rows, L, k
<1>3. S \subseteq Nat /\ L \in S
  BY <1>2
<1>4. PICK least \in S : \A y \in S : least <= y
  <2> HIDE DEF S
  <2> QED
    BY <1>3, LeastNatural
<1>5. least \in 1..L /\ First(least)
  <2> HIDE DEF Low
  <2>0. least \in 1..L /\ Low(least)
    BY <1>4
  <2>1. ASSUME NEW m \in 1..(least - 1) PROVE ~Low(m)
    <3>1. m \in 1..L /\ m < least
      BY <1>2, <2>0
    <3>2. m \notin S
      BY <1>4, <2>0, <3>1
    <3> QED
      BY <3>1, <3>2
  <2> QED
    BY <2>0, <2>1
<1>6. k \in 1..L /\ First(k)
  <2> HIDE DEF First
  <2> QED
    BY <1>2, <1>5 DEF k
<1>7. Dividing(model, k, freq)
  <2>1. k \in 1..L /\ (k = L \/ freq < 1000 * rows[k].limit)
    BY <1>6
  <2>2. \A m \in 1..(k - 1) : ~(freq < 1000 * rows[m].limit)
    BY <1>6
  <2> QED
    BY <1>1, <2>1, <2>2 DEF Dividing, rows, L
<1> QED
  BY <1>7

(* The tables of the two chips.                                            *)
LEMMA RowsAre ==
    /\ Len(Rows("FC0012")) = 10 /\ DOMAIN Rows("FC0012") = 1..10
    /\ Len(Rows("FC0013")) = 11 /\ DOMAIN Rows("FC0013") = 1..11
BY DEF Rows, Fc0012Rows, Fc0013Rows

(* The slowest VCO whose counters are valid, in units of 512 Hz.           *)
Lowest == 2517188

(* The first one that is too fast for them.                                *)
Highest == 7410938

(* The lowest frequency that the largest multiplier brings there, Hz.      *)
Slowest(freq) == freq >= 13499488

(* Below this the first nine rows and the tenth stay in the range.         *)
Middle(freq) == freq <= 948500000

(* Where the FC0013's last row does.                                       *)
Top(freq) == freq >= 950000000 /\ freq <= 1890000000

(* The VCO is in the range of the counters.                                *)
Reached(freq, fvco) == fvco >= Lowest /\ (Middle(freq) => fvco < Highest)

(* Every row of the FC0012 reaches it, row by row.                         *)
LEMMA Fc0012Reach ==
    ASSUME NEW u \in Nat, Slowest(512 * u)
    PROVE  LET freq == 512 * u
               fvco == u * DividerRow("FC0012", freq).multi
           IN  /\ DividerRow("FC0012", freq).multi \in Nat
               /\ Reached(freq, fvco)
<1> DEFINE freq == 512 * u
           rows == Rows("FC0012")
           row == DividerRow("FC0012", freq)
<1>0. Len(rows) = 10 /\ DOMAIN rows = 1..10
  BY RowsAre
<1>1. PICK n : Dividing("FC0012", n, freq)
  <2>1. Len(rows) \in Nat /\ Len(rows) > 0 /\ DOMAIN rows = 1..Len(rows)
    <3> HIDE DEF rows, freq
    <3> QED
      BY <1>0
  <2> HIDE DEF freq
  <2> QED
    BY <2>1, RowFound
<1>2. n \in 1..10 /\ row = rows[n] /\ (n = 10 \/ freq < 1000 * rows[n].limit)
        /\ \A m \in 1..(n - 1) : ~(freq < 1000 * rows[m].limit)
  <2> HIDE DEF freq
  <2>1. /\ n \in 1..Len(rows) /\ row = rows[n]
        /\ n = Len(rows) \/ freq < 1000 * rows[n].limit
        /\ \A m \in 1..(n - 1) : ~(freq < 1000 * rows[m].limit)
    BY <1>1 DEF Dividing
  <2> HIDE DEF rows, row
  <2> QED
    BY <1>0, <2>1
<1> HIDE DEF row, rows
<1>3. /\ rows[1].limit = 37084 /\ rows[1].multi = 96
      /\ rows[2].limit = 55625 /\ rows[2].multi = 64
      /\ rows[3].limit = 74167 /\ rows[3].multi = 48
      /\ rows[4].limit = 111250 /\ rows[4].multi = 32
      /\ rows[5].limit = 148334 /\ rows[5].multi = 24
      /\ rows[6].limit = 222500 /\ rows[6].multi = 16
      /\ rows[7].limit = 296667 /\ rows[7].multi = 12
      /\ rows[8].limit = 445000 /\ rows[8].multi = 8
      /\ rows[9].limit = 593334 /\ rows[9].multi = 6
      /\ rows[10].limit = 0 /\ rows[10].multi = 4
  BY SMT DEF rows, Rows, Fc0012Rows, Row
<1>4. freq = 512 * u /\ freq \in Nat /\ Slowest(freq)
  OBVIOUS
<1> HIDE DEF freq
<1>5. n \in {1, 2, 3, 4, 5, 6, 7, 8, 9, 10}
  BY <1>2, SMT
<1> DEFINE Good(m) == /\ m \in Nat /\ Reached(freq, u * m)
<1>6. n = 1 => Good(row.multi)
  <2> SUFFICES ASSUME n = 1 PROVE Good(row.multi)
    OBVIOUS
  <2>1. row.multi = 96
    BY <1>2, <1>3
  <2>2. freq < 1000 * 37084
    BY <1>2, <1>3, SMT
  <2>3. Good(96)
    BY <1>4, <2>2, SMT DEF Reached, Lowest, Highest, Slowest, Middle, Top
  <2> QED
    BY <2>1, <2>3
<1>7. n = 2 => Good(row.multi)
  <2> SUFFICES ASSUME n = 2 PROVE Good(row.multi)
    OBVIOUS
  <2>1. row.multi = 64
    BY <1>2, <1>3
  <2>2. freq < 1000 * 55625 /\ freq >= 1000 * 37084
    <3>1. 1 \in 1..(n - 1)
      OBVIOUS
    <3> QED
      BY <1>2, <1>3, <1>4, <3>1, SMT
  <2>3. Good(64)
    BY <1>4, <2>2, SMT DEF Reached, Lowest, Highest, Slowest, Middle, Top
  <2> QED
    BY <2>1, <2>3
<1>8. n = 3 => Good(row.multi)
  <2> SUFFICES ASSUME n = 3 PROVE Good(row.multi)
    OBVIOUS
  <2>1. row.multi = 48
    BY <1>2, <1>3
  <2>2. freq < 1000 * 74167 /\ freq >= 1000 * 55625
    <3>1. 2 \in 1..(n - 1)
      OBVIOUS
    <3> QED
      BY <1>2, <1>3, <1>4, <3>1, SMT
  <2>3. Good(48)
    BY <1>4, <2>2, SMT DEF Reached, Lowest, Highest, Slowest, Middle, Top
  <2> QED
    BY <2>1, <2>3
<1>9. n = 4 => Good(row.multi)
  <2> SUFFICES ASSUME n = 4 PROVE Good(row.multi)
    OBVIOUS
  <2>1. row.multi = 32
    BY <1>2, <1>3
  <2>2. freq < 1000 * 111250 /\ freq >= 1000 * 74167
    <3>1. 3 \in 1..(n - 1)
      OBVIOUS
    <3> QED
      BY <1>2, <1>3, <1>4, <3>1, SMT
  <2>3. Good(32)
    BY <1>4, <2>2, SMT DEF Reached, Lowest, Highest, Slowest, Middle, Top
  <2> QED
    BY <2>1, <2>3
<1>10. n = 5 => Good(row.multi)
  <2> SUFFICES ASSUME n = 5 PROVE Good(row.multi)
    OBVIOUS
  <2>1. row.multi = 24
    BY <1>2, <1>3
  <2>2. freq < 1000 * 148334 /\ freq >= 1000 * 111250
    <3>1. 4 \in 1..(n - 1)
      OBVIOUS
    <3> QED
      BY <1>2, <1>3, <1>4, <3>1, SMT
  <2>3. Good(24)
    BY <1>4, <2>2, SMT DEF Reached, Lowest, Highest, Slowest, Middle, Top
  <2> QED
    BY <2>1, <2>3
<1>11. n = 6 => Good(row.multi)
  <2> SUFFICES ASSUME n = 6 PROVE Good(row.multi)
    OBVIOUS
  <2>1. row.multi = 16
    BY <1>2, <1>3
  <2>2. freq < 1000 * 222500 /\ freq >= 1000 * 148334
    <3>1. 5 \in 1..(n - 1)
      OBVIOUS
    <3> QED
      BY <1>2, <1>3, <1>4, <3>1, SMT
  <2>3. Good(16)
    BY <1>4, <2>2, SMT DEF Reached, Lowest, Highest, Slowest, Middle, Top
  <2> QED
    BY <2>1, <2>3
<1>12. n = 7 => Good(row.multi)
  <2> SUFFICES ASSUME n = 7 PROVE Good(row.multi)
    OBVIOUS
  <2>1. row.multi = 12
    BY <1>2, <1>3
  <2>2. freq < 1000 * 296667 /\ freq >= 1000 * 222500
    <3>1. 6 \in 1..(n - 1)
      OBVIOUS
    <3> QED
      BY <1>2, <1>3, <1>4, <3>1, SMT
  <2>3. Good(12)
    BY <1>4, <2>2, SMT DEF Reached, Lowest, Highest, Slowest, Middle, Top
  <2> QED
    BY <2>1, <2>3
<1>13. n = 8 => Good(row.multi)
  <2> SUFFICES ASSUME n = 8 PROVE Good(row.multi)
    OBVIOUS
  <2>1. row.multi = 8
    BY <1>2, <1>3
  <2>2. freq < 1000 * 445000 /\ freq >= 1000 * 296667
    <3>1. 7 \in 1..(n - 1)
      OBVIOUS
    <3> QED
      BY <1>2, <1>3, <1>4, <3>1, SMT
  <2>3. Good(8)
    BY <1>4, <2>2, SMT DEF Reached, Lowest, Highest, Slowest, Middle, Top
  <2> QED
    BY <2>1, <2>3
<1>14. n = 9 => Good(row.multi)
  <2> SUFFICES ASSUME n = 9 PROVE Good(row.multi)
    OBVIOUS
  <2>1. row.multi = 6
    BY <1>2, <1>3
  <2>2. freq < 1000 * 593334 /\ freq >= 1000 * 445000
    <3>1. 8 \in 1..(n - 1)
      OBVIOUS
    <3> QED
      BY <1>2, <1>3, <1>4, <3>1, SMT
  <2>3. Good(6)
    BY <1>4, <2>2, SMT DEF Reached, Lowest, Highest, Slowest, Middle, Top
  <2> QED
    BY <2>1, <2>3
<1>15. n = 10 => Good(row.multi)
  <2> SUFFICES ASSUME n = 10 PROVE Good(row.multi)
    OBVIOUS
  <2>1. row.multi = 4
    BY <1>2, <1>3
  <2>2. freq >= 1000 * 593334
    <3>1. 9 \in 1..(n - 1)
      OBVIOUS
    <3> QED
      BY <1>2, <1>3, <1>4, <3>1, SMT
  <2>3. Good(4)
    BY <1>4, <2>2, SMT DEF Reached, Lowest, Highest, Slowest, Middle, Top
  <2> QED
    BY <2>1, <2>3
<1> HIDE DEF Good
<1>16. Good(row.multi)
  BY <1>5, <1>6, <1>7, <1>8, <1>9, <1>10, <1>11, <1>12, <1>13, <1>14, <1>15
<1> QED
  BY <1>16 DEF Good, freq, row

(* So does every row of the FC0013.                                        *)
LEMMA Fc0013Reach ==
    ASSUME NEW u \in Nat, Slowest(512 * u)
    PROVE  LET freq == 512 * u
               fvco == u * DividerRow("FC0013", freq).multi
           IN  /\ DividerRow("FC0013", freq).multi \in Nat
               /\ Reached(freq, fvco)
               /\ Top(freq) => fvco < Highest
<1> DEFINE freq == 512 * u
           rows == Rows("FC0013")
           row == DividerRow("FC0013", freq)
<1>0. Len(rows) = 11 /\ DOMAIN rows = 1..11
  BY RowsAre
<1>1. PICK n : Dividing("FC0013", n, freq)
  <2>1. Len(rows) \in Nat /\ Len(rows) > 0 /\ DOMAIN rows = 1..Len(rows)
    <3> HIDE DEF rows, freq
    <3> QED
      BY <1>0
  <2> HIDE DEF freq
  <2> QED
    BY <2>1, RowFound
<1>2. n \in 1..11 /\ row = rows[n] /\ (n = 11 \/ freq < 1000 * rows[n].limit)
        /\ \A m \in 1..(n - 1) : ~(freq < 1000 * rows[m].limit)
  <2> HIDE DEF freq
  <2>1. /\ n \in 1..Len(rows) /\ row = rows[n]
        /\ n = Len(rows) \/ freq < 1000 * rows[n].limit
        /\ \A m \in 1..(n - 1) : ~(freq < 1000 * rows[m].limit)
    BY <1>1 DEF Dividing
  <2> HIDE DEF rows, row
  <2> QED
    BY <1>0, <2>1
<1> HIDE DEF row, rows
<1>3. /\ rows[1].limit = 37084 /\ rows[1].multi = 96
      /\ rows[2].limit = 55625 /\ rows[2].multi = 64
      /\ rows[3].limit = 74167 /\ rows[3].multi = 48
      /\ rows[4].limit = 111250 /\ rows[4].multi = 32
      /\ rows[5].limit = 148334 /\ rows[5].multi = 24
      /\ rows[6].limit = 222500 /\ rows[6].multi = 16
      /\ rows[7].limit = 296667 /\ rows[7].multi = 12
      /\ rows[8].limit = 445000 /\ rows[8].multi = 8
      /\ rows[9].limit = 593334 /\ rows[9].multi = 6
      /\ rows[10].limit = 950000 /\ rows[10].multi = 4
      /\ rows[11].limit = 0 /\ rows[11].multi = 2
  BY SMT DEF rows, Rows, Fc0013Rows, Row
<1>4. freq = 512 * u /\ freq \in Nat /\ Slowest(freq)
  OBVIOUS
<1> HIDE DEF freq
<1>5. n \in {1, 2, 3, 4, 5, 6, 7, 8, 9, 10, 11}
  BY <1>2, SMT
<1> DEFINE Good(m) == /\ m \in Nat /\ Reached(freq, u * m)
                      /\ Top(freq) => u * m < Highest
<1>6. n = 1 => Good(row.multi)
  <2> SUFFICES ASSUME n = 1 PROVE Good(row.multi)
    OBVIOUS
  <2>1. row.multi = 96
    BY <1>2, <1>3
  <2>2. freq < 1000 * 37084
    BY <1>2, <1>3, SMT
  <2>3. Good(96)
    BY <1>4, <2>2, SMT DEF Reached, Lowest, Highest, Slowest, Middle, Top
  <2> QED
    BY <2>1, <2>3
<1>7. n = 2 => Good(row.multi)
  <2> SUFFICES ASSUME n = 2 PROVE Good(row.multi)
    OBVIOUS
  <2>1. row.multi = 64
    BY <1>2, <1>3
  <2>2. freq < 1000 * 55625 /\ freq >= 1000 * 37084
    <3>1. 1 \in 1..(n - 1)
      OBVIOUS
    <3> QED
      BY <1>2, <1>3, <1>4, <3>1, SMT
  <2>3. Good(64)
    BY <1>4, <2>2, SMT DEF Reached, Lowest, Highest, Slowest, Middle, Top
  <2> QED
    BY <2>1, <2>3
<1>8. n = 3 => Good(row.multi)
  <2> SUFFICES ASSUME n = 3 PROVE Good(row.multi)
    OBVIOUS
  <2>1. row.multi = 48
    BY <1>2, <1>3
  <2>2. freq < 1000 * 74167 /\ freq >= 1000 * 55625
    <3>1. 2 \in 1..(n - 1)
      OBVIOUS
    <3> QED
      BY <1>2, <1>3, <1>4, <3>1, SMT
  <2>3. Good(48)
    BY <1>4, <2>2, SMT DEF Reached, Lowest, Highest, Slowest, Middle, Top
  <2> QED
    BY <2>1, <2>3
<1>9. n = 4 => Good(row.multi)
  <2> SUFFICES ASSUME n = 4 PROVE Good(row.multi)
    OBVIOUS
  <2>1. row.multi = 32
    BY <1>2, <1>3
  <2>2. freq < 1000 * 111250 /\ freq >= 1000 * 74167
    <3>1. 3 \in 1..(n - 1)
      OBVIOUS
    <3> QED
      BY <1>2, <1>3, <1>4, <3>1, SMT
  <2>3. Good(32)
    BY <1>4, <2>2, SMT DEF Reached, Lowest, Highest, Slowest, Middle, Top
  <2> QED
    BY <2>1, <2>3
<1>10. n = 5 => Good(row.multi)
  <2> SUFFICES ASSUME n = 5 PROVE Good(row.multi)
    OBVIOUS
  <2>1. row.multi = 24
    BY <1>2, <1>3
  <2>2. freq < 1000 * 148334 /\ freq >= 1000 * 111250
    <3>1. 4 \in 1..(n - 1)
      OBVIOUS
    <3> QED
      BY <1>2, <1>3, <1>4, <3>1, SMT
  <2>3. Good(24)
    BY <1>4, <2>2, SMT DEF Reached, Lowest, Highest, Slowest, Middle, Top
  <2> QED
    BY <2>1, <2>3
<1>11. n = 6 => Good(row.multi)
  <2> SUFFICES ASSUME n = 6 PROVE Good(row.multi)
    OBVIOUS
  <2>1. row.multi = 16
    BY <1>2, <1>3
  <2>2. freq < 1000 * 222500 /\ freq >= 1000 * 148334
    <3>1. 5 \in 1..(n - 1)
      OBVIOUS
    <3> QED
      BY <1>2, <1>3, <1>4, <3>1, SMT
  <2>3. Good(16)
    BY <1>4, <2>2, SMT DEF Reached, Lowest, Highest, Slowest, Middle, Top
  <2> QED
    BY <2>1, <2>3
<1>12. n = 7 => Good(row.multi)
  <2> SUFFICES ASSUME n = 7 PROVE Good(row.multi)
    OBVIOUS
  <2>1. row.multi = 12
    BY <1>2, <1>3
  <2>2. freq < 1000 * 296667 /\ freq >= 1000 * 222500
    <3>1. 6 \in 1..(n - 1)
      OBVIOUS
    <3> QED
      BY <1>2, <1>3, <1>4, <3>1, SMT
  <2>3. Good(12)
    BY <1>4, <2>2, SMT DEF Reached, Lowest, Highest, Slowest, Middle, Top
  <2> QED
    BY <2>1, <2>3
<1>13. n = 8 => Good(row.multi)
  <2> SUFFICES ASSUME n = 8 PROVE Good(row.multi)
    OBVIOUS
  <2>1. row.multi = 8
    BY <1>2, <1>3
  <2>2. freq < 1000 * 445000 /\ freq >= 1000 * 296667
    <3>1. 7 \in 1..(n - 1)
      OBVIOUS
    <3> QED
      BY <1>2, <1>3, <1>4, <3>1, SMT
  <2>3. Good(8)
    BY <1>4, <2>2, SMT DEF Reached, Lowest, Highest, Slowest, Middle, Top
  <2> QED
    BY <2>1, <2>3
<1>14. n = 9 => Good(row.multi)
  <2> SUFFICES ASSUME n = 9 PROVE Good(row.multi)
    OBVIOUS
  <2>1. row.multi = 6
    BY <1>2, <1>3
  <2>2. freq < 1000 * 593334 /\ freq >= 1000 * 445000
    <3>1. 8 \in 1..(n - 1)
      OBVIOUS
    <3> QED
      BY <1>2, <1>3, <1>4, <3>1, SMT
  <2>3. Good(6)
    BY <1>4, <2>2, SMT DEF Reached, Lowest, Highest, Slowest, Middle, Top
  <2> QED
    BY <2>1, <2>3
<1>15. n = 10 => Good(row.multi)
  <2> SUFFICES ASSUME n = 10 PROVE Good(row.multi)
    OBVIOUS
  <2>1. row.multi = 4
    BY <1>2, <1>3
  <2>2. freq < 1000 * 950000 /\ freq >= 1000 * 593334
    <3>1. 9 \in 1..(n - 1)
      OBVIOUS
    <3> QED
      BY <1>2, <1>3, <1>4, <3>1, SMT
  <2>3. Good(4)
    BY <1>4, <2>2, SMT DEF Reached, Lowest, Highest, Slowest, Middle, Top
  <2> QED
    BY <2>1, <2>3
<1>16. n = 11 => Good(row.multi)
  <2> SUFFICES ASSUME n = 11 PROVE Good(row.multi)
    OBVIOUS
  <2>1. row.multi = 2
    BY <1>2, <1>3
  <2>2. freq >= 1000 * 950000
    <3>1. 10 \in 1..(n - 1)
      OBVIOUS
    <3> QED
      BY <1>2, <1>3, <1>4, <3>1, SMT
  <2>3. Good(2)
    BY <1>4, <2>2, SMT DEF Reached, Lowest, Highest, Slowest, Middle, Top
  <2> QED
    BY <2>1, <2>3
<1> HIDE DEF Good
<1>17. Good(row.multi)
  BY <1>5, <1>6, <1>7, <1>8, <1>9, <1>10, <1>11, <1>12, <1>13, <1>14, <1>15,
     <1>16
<1> QED
  BY <1>17 DEF Good, freq, row

(* The two counters rebuild xdiv, and up to 263 they are valid.            *)
LEMMA FcDividers ==
    ASSUME NEW d \in Int, d >= 90, d <= 298
    PROVE  LET rf == RfA_RfM(d)
           IN  /\ 8 * rf[2] + rf[1] = d /\ rf[1] >= 2
               /\ d <= 263 => ValidPll(d)
<1> DEFINE p0 == d \div 8
           pm0 == p0 % 256
           am0 == (d - 8 * pm0) % 256
           am == IF am0 < 2 THEN am0 + 8 ELSE am0
           pm == IF am0 < 2 THEN (pm0 - 1) % 256 ELSE pm0
           rf == IF pm > 31 THEN << (am + 8 * (pm - 31)) % 256, 31 >>
               ELSE << am, pm >>
<1>1. RfA_RfM(d) = rf
  BY DEF RfA_RfM
<1>2. p0 \in Nat /\ 8 * p0 <= d /\ d < 8 * p0 + 8
  BY SMT
<1> HIDE DEF p0
<1>3. p0 >= 11 /\ p0 <= 37
  BY <1>2
<1>4. pm0 = p0
  BY <1>2, <1>3
<1> HIDE DEF pm0
<1> DEFINE a == d - 8 * p0
<1>5. a \in 0..7 /\ d = 8 * p0 + a
  BY <1>2
<1> HIDE DEF a
<1>6. am0 = a
  <2>1. am0 = a % 256
    BY <1>4 DEF a
  <2> QED
    BY <1>5, <2>1
<1> HIDE DEF am0
<1>7. am = (IF a < 2 THEN a + 8 ELSE a) /\ pm = (IF a < 2 THEN p0 - 1 ELSE p0)
  BY <1>2, <1>3, <1>4, <1>5, <1>6
<1>8. am \in 2..9 /\ pm \in 10..37 /\ d = 8 * pm + am
  BY <1>2, <1>3, <1>5, <1>7
<1>9. d <= 263 => pm <= 32 /\ (pm = 32 => am <= 7) /\ pm >= 11
  <2>1. CASE a < 2
    <3>1. pm = p0 - 1 /\ am = a + 8
      BY <1>7, <2>1
    <3> HIDE DEF am, pm
    <3> QED
      BY <1>2, <1>3, <1>5, <2>1, <3>1, SMT
  <2>2. CASE ~(a < 2)
    <3>1. pm = p0 /\ am = a
      BY <1>7, <2>2
    <3> HIDE DEF am, pm
    <3> QED
      BY <1>2, <1>3, <1>5, <2>2, <3>1, SMT
  <2> QED
    BY <2>1, <2>2
<1> HIDE DEF am, pm
<1>10. CASE pm > 31
  <2> DEFINE b == am + 8 * (pm - 31)
  <2>1. b \in 2..57 /\ b + 248 = d /\ (d <= 263 => b <= 15)
    BY <1>8, <1>9, <1>10
  <2>2. rf = << b % 256, 31 >>
    BY <1>10
  <2> HIDE DEF b
  <2>3. b % 256 = b
    BY <2>1
  <2>4. RfA_RfM(d)[1] = b /\ RfA_RfM(d)[2] = 31
    BY <1>1, <2>2, <2>3
  <2> QED
    BY <2>1, <2>4 DEF ValidPll
<1>11. CASE ~(pm > 31)
  <2>1. RfA_RfM(d)[1] = am /\ RfA_RfM(d)[2] = pm
    BY <1>1, <1>11
  <2> QED
    BY <1>8, <1>9, <2>1 DEF ValidPll
<1> QED
  BY <1>10, <1>11

(* So the synthesizer of the FC0012 and FC0013 makes the VCO to 1 kHz      *)
(* (tuner_fc0012.c:196-236, tuner_fc0013.c:281-341).                       *)
LEMMA FcSynth ==
    ASSUME NEW fvco \in Nat, fvco < VcoWord, fvco >= Lowest
    PROVE  LET rf == RfA_RfM(Xdiv(fvco))
           IN  /\ fvco < Highest => ValidPll(Xdiv(fvco))
               /\ 8 * rf[2] + rf[1] = Xdiv(fvco) /\ rf[1] >= 2
               /\ SynthesizedKhz(rf,
                  Xin(fvco)) - (fvco * 64) \div 125 \in -1..1
<1> DEFINE q == fvco \div 28125
           r == fvco % 28125
           d == Xdiv(fvco)
           khz == (r * 512) \div 1000
           xin == (khz * 32768) \div 14400
           xs == IF xin >= 16384 THEN xin - 32768 ELSE xin
<1>1. fvco = 28125 * q + r /\ r \in 0..28124 /\ q \in Nat
  BY SMT
<1>2. d = IF 2 * r >= 28125 THEN q + 1 ELSE q
  <2>1. fvco - q * 28125 = r
    BY <1>1
  <2> QED
    BY <2>1 DEF Xdiv, XtalDiv2
<1>3. khz = ((fvco % XtalDiv2) * Unit) \div 1000
  <2>1. fvco % XtalDiv2 = r
    BY SMT DEF XtalDiv2
  <2>2. Unit = 512
    BY DEF Unit
  <2> HIDE DEF r
  <2> QED
    BY <2>1, <2>2, Zenon
<1> HIDE DEF q, r, d
<1>4. d \in Nat /\ d >= 90 /\ d <= 298 /\ (fvco < Highest => d <= 263)
  <2>1. d \in Nat /\ 28125 * d <= fvco + 14062 /\ fvco <= 28125 * d + 14062
    <3>1. CASE 2 * r >= 28125
      <4>1. d = q + 1
        BY <1>2, <3>1
      <4> QED
        BY <1>1, <3>1, <4>1, SMT
    <3>2. CASE ~(2 * r >= 28125)
      <4>1. d = q
        BY <1>2, <3>2
      <4> QED
        BY <1>1, <3>2, <4>1, SMT
    <3> QED
      BY <3>1, <3>2
  <2>2. d >= 90
    BY <2>1, SMT DEF Lowest
  <2>3. d <= 298
    BY <2>1, SMT DEF VcoWord
  <2>4. fvco < Highest => d <= 263
    BY <2>1, SMT DEF Highest
  <2> QED
    BY <2>1, <2>2, <2>3, <2>4
<1>5. khz \in 0..14399 /\ (2 * r >= 28125 <=> khz >= 7200)
        /\ 1000 * khz <= 512 * r /\ 512 * r < 1000 * khz + 1000
  <2> DEFINE t == r * 512
  <2>1. t \in Nat /\ t = 512 * r
    BY <1>1
  <2>2. khz = t \div 1000
    OBVIOUS
  <2> HIDE DEF t, khz
  <2>3. khz \in Nat /\ 1000 * khz <= t /\ t < 1000 * khz + 1000
    BY <2>1, <2>2
  <2>4. r \in Nat /\ r <= 28124
    BY <1>1, SMT
  <2>5. khz <= 14399
    BY <2>1, <2>3, <2>4, SMT
  <2>6. CASE 2 * r >= 28125
    <3>1. t >= 7200256
      BY <2>1, <2>4, <2>6, SMT
    <3>2. khz >= 7200
      BY <2>1, <2>3, <3>1, SMT
    <3>3. 2 * r >= 28125 <=> khz >= 7200
      BY <2>3, <2>4, <2>6, <3>2, SMT
    <3> QED
      BY <2>1, <2>3, <2>5, <3>3, SMT
  <2>7. CASE ~(2 * r >= 28125)
    <3>1. t <= 7199744
      BY <2>1, <2>4, <2>7, SMT
    <3>2. khz < 7200
      BY <2>1, <2>3, <3>1, SMT
    <3>3. ~(khz >= 7200)
      BY <2>3, <3>2, SMT
    <3>4. 2 * r >= 28125 <=> khz >= 7200
      BY <2>3, <2>4, <2>7, <3>3, SMT
    <3> QED
      BY <2>1, <2>3, <2>5, <3>4, SMT
  <2> QED
    BY <2>6, <2>7, SMT
<1> HIDE DEF khz
<1>6. /\ xin \in 0..32766 /\ 14400 * xin <= 32768 * khz
         /\ 32768 * khz < 14400 * xin + 14400
  BY <1>5, SMT
<1>7. xin >= 16384 <=> khz >= 7200
  BY <1>5, <1>6, SMT
<1> DEFINE x16 == Xin(fvco)
<1>8. x16 = IF xin >= 16384 THEN (xin + 32768) % 65536 ELSE xin
  BY <1>3 DEF Xin, XtalDiv2Khz
<1> HIDE DEF x16, xin
<1>9. (IF x16 >= 32768 THEN x16 - 65536 ELSE x16) = xs
  <2>1. CASE xin >= 16384
    <3>1. x16 = xin + 32768
      <4> DEFINE v == xin + 32768
      <4>1. v \in Nat /\ v < 65536
        BY <1>6
      <4>2. x16 = v % 65536
        BY <1>8, <2>1
      <4> HIDE DEF v
      <4>3. v % 65536 = v
        BY <4>1, SMT
      <4> QED
        BY <4>2, <4>3 DEF v
    <3> QED
      BY <1>6, <2>1, <3>1, SMT
  <2>2. CASE ~(xin >= 16384)
    BY <1>6, <1>8, <2>2, SMT
  <2> QED
    BY <2>1, <2>2
<1> HIDE DEF xs
<1>10. 8 * RfA_RfM(d)[2] + RfA_RfM(d)[1] = d /\ RfA_RfM(d)[1] >= 2
         /\ (d <= 263 => ValidPll(d))
  BY <1>4, FcDividers
<1> DEFINE y == (xs * 14400) \div 32768
<1>11. SynthesizedKhz(RfA_RfM(d), x16) = d * 14400 + y
  BY <1>9, <1>10 DEF SynthesizedKhz, XtalDiv2Khz
<1>12. xs = (IF khz >= 7200 THEN xin - 32768 ELSE xin)
  BY <1>7 DEF xs
<1>13. y \in Int /\ (khz >= 7200 => y + 14400 - khz \in {0 - 1, 0})
         /\ (khz < 7200 => y - khz \in {0 - 1, 0})
  <2>1. CASE khz >= 7200
    <3>1. xs \in Int /\ xs = xin - 32768
      BY <1>6, <1>12, <2>1
    <3> HIDE DEF y
    <3>2. y \in Int /\ 32768 * y <= 14400 * xs
            /\ 14400 * xs < 32768 * y + 32768
      BY <3>1, SMT DEF y
    <3> QED
      BY <1>5, <1>6, <2>1, <3>1, <3>2, SMT
  <2>2. CASE khz < 7200
    <3>1. xs \in Int /\ xs = xin
      BY <1>5, <1>6, <1>12, <2>2
    <3> HIDE DEF y
    <3>2. y \in Int /\ 32768 * y <= 14400 * xs
            /\ 14400 * xs < 32768 * y + 32768
      BY <3>1, SMT DEF y
    <3> QED
      BY <1>5, <1>6, <2>2, <3>1, <3>2, SMT
  <2> QED
    BY <1>5, <2>1, <2>2, SMT
<1> HIDE DEF y
<1>14. (fvco * 64) \div 125 = q * 14400 + khz
  <2> DEFINE z == fvco * 64
  <2>1. z \in Nat /\ z = 125 * (q * 14400) + 64 * r
    BY <1>1
  <2> HIDE DEF z
  <2>2. 125 * khz <= 64 * r /\ 64 * r < 125 * khz + 125
    BY <1>1, <1>5, SMT
  <2>3. z \div 125 = q * 14400 + khz
    BY <1>1, <1>5, <2>1, <2>2, SMT
  <2> QED
    BY <2>3 DEF z
<1>15. SynthesizedKhz(RfA_RfM(d), x16) - (fvco * 64) \div 125 \in (0 - 1)..1
  BY <1>1, <1>2, <1>4, <1>5, <1>11, <1>13, <1>14, SMT
<1>16. fvco < Highest => ValidPll(d)
  BY <1>4, <1>10
<1>17. SynthesizedKhz(RfA_RfM(d), x16) - (fvco * 64) \div 125 \in -1..1
  BY <1>15, SMT
<1> QED
  BY <1>10, <1>16, <1>17 DEF d, x16

----------------------------------------------------------------------------
(* The synthesizer of the FC2580. *)

(* k_val fits 20 bits.                                                     *)
In20(k) == k < 1048576

(* The VCO of the FC2580 stays below this, kHz.                            *)
In23(v) == v < 8388608

(* As long as the frequency is at most 4 GHz.                              *)
Fc2580Reach(f) == f <= 4000000

(* The three parts of k_val that go to three registers.                    *)
Hi(k) == k \div 65536
Mid(k) == (k \div 256) % 256
Lo(k) == k % 256

(* Put together again.                                                     *)
Word3(a, b, c) == 65536 * a + 256 * b + c
Word(k) == Word3(Hi(k), Mid(k), Lo(k))

(* They are k_val.                                                         *)
LEMMA WordIs ==
    ASSUME NEW k \in Nat, In20(k)
    PROVE  /\ Word(k) = k /\ k \div 65536 \in 0..15
           /\ (k \div 256) % 256 \in Nat /\ k % 256 \in Nat
<1> DEFINE a == k \div 256  b == k % 256
<1>1. k = 256 * a + b /\ b \in 0..255 /\ a \in Nat
  BY SMT
<1>2. k \div 65536 = a \div 256
  BY <1>1, SMT
<1> HIDE DEF a, b
<1> DEFINE c == a \div 256  d == a % 256
<1>3. a = 256 * c + d /\ d \in 0..255 /\ c \in Nat
  BY <1>1, SMT
<1> HIDE DEF c, d
<1>4. c \in 0..15
  BY <1>1, <1>3, SMT DEF In20
<1>5. Word(k) = 65536 * c + 256 * d + b
  <2>1. Hi(k) = c
    BY <1>2 DEF Hi, c
  <2>2. Mid(k) = d /\ Lo(k) = b
    BY DEF Mid, Lo, a, b, d
  <2>3. Word(k) = Word3(c, d, b)
    BY <2>1, <2>2 DEF Word
  <2> QED
    BY <2>3, SMT DEF Word3
<1>6. Word(k) = k
  BY <1>1, <1>3, <1>5, SMT
<1> QED
  BY <1>1, <1>2, <1>3, <1>4, <1>6, SMT DEF a, b, c, d

(* Register 0x18: the reference divider and the upper part of k_val.       *)
R18(rv, k) ==
    ((CASE rv = 1 -> 0 [] rv = 2 -> 16 [] OTHER -> 32) + (k \div 65536)) % 256

(* With reference divider 1, N and K rebuild the VCO exactly               *)
(* (tuner_fc2580.c:207-217).                                               *)
LEMMA Fc2580Makes1 ==
    ASSUME NEW v \in Nat, RVal(v) = 1, In23(v)
    PROVE  /\ 1 * v
              = 2 * CRYSTAL_KHZ * (NVal(v) % 256) + (2 * CRYSTAL_KHZ * (KVal(v) \div 32)) \div 32768
           /\ KVal(v) % 32 = 0 /\ KVal(v) \in Nat /\ In20(KVal(v))
<1> DEFINE N == NVal(v)  e == v - 32768 * N
<1>1. N = (v \div 2) \div 16384 /\ N \in Nat /\ e \in Nat /\ e < 32768
        /\ N < 256
  <2>1. CRYSTAL_KHZ \div RVal(v) = 16384
    BY SMT DEF CRYSTAL_KHZ
  <2>2. N = (v \div 2) \div 16384
    BY <2>1, SMT DEF NVal
  <2> DEFINE h == v \div 2
  <2>3. h \in Nat /\ 2 * h <= v /\ v <= 2 * h + 1
    BY SMT
  <2> HIDE DEF h
  <2>4. N = h \div 16384
    BY <2>2, SMT DEF h
  <2> HIDE DEF N
  <2>5. N \in Nat /\ 16384 * N <= h /\ h < 16384 * N + 16384
    BY <2>3, <2>4, SMT
  <2>6. v < 8388608
    BY SMT DEF RVal, CRYSTAL_KHZ, In23
  <2> QED
    BY <2>2, <2>3, <2>5, <2>6, SMT
<1> HIDE DEF N
<1>2. KVal(v) = 32 * e
  <2>1. CRYSTAL_KHZ \div RVal(v) = 16384
    BY SMT DEF CRYSTAL_KHZ
  <2> DEFINE shifted == (v - 2 * 16384 * N) * 65536
             d == (2 * 16384) \div 16
             k == shifted \div d
             low == 16384 \div 16
  <2>2. KVal(v) = IF shifted - k * d >= low THEN k + 1 ELSE k
    BY <2>1, SMT DEF KVal, N
  <2>3. d = 2048 /\ low = 1024
    BY SMT
  <2>4. shifted = e * 65536
    BY <1>1, SMT
  <2> HIDE DEF shifted, e, low, d
  <2>5. k = 32 * e
    BY <1>1, <2>3, <2>4, SMT
  <2> HIDE DEF k
  <2>6. shifted - k * d = 0
    BY <1>1, <2>3, <2>4, <2>5, SMT
  <2> QED
    BY <2>2, <2>3, <2>5, <2>6, SMT
<1> DEFINE K == KVal(v)
<1>3. v = 32768 * N + e
  BY <1>1, SMT DEF e
<1> HIDE DEF e, K
<1>4. K = 32 * e
  BY <1>2, SMT DEF K
<1>5. K \div 32 = 1 * e /\ K % 32 = 0 /\ K \in Nat /\ In20(K)
  BY <1>1, <1>4, SMT DEF In20
<1>6. N % 256 = N
  BY <1>1, SMT
<1>7. (2 * CRYSTAL_KHZ * (K \div 32)) \div 32768 = 1 * e
  <2> DEFINE w == 1 * e
  <2>1. w \in Nat /\ K \div 32 = w
    BY <1>1, <1>5, SMT
  <2> HIDE DEF w
  <2>2. (2 * 16384 * w) \div 32768 = w
    BY <2>1, SMT
  <2> QED
    BY <2>1, <2>2, SMT DEF w, CRYSTAL_KHZ
<1>8. 1 * v = 2 * CRYSTAL_KHZ * (N % 256) + 1 * e
  BY <1>1, <1>3, <1>6, SMT DEF CRYSTAL_KHZ
<1> QED
  BY <1>5, <1>7, <1>8, SMT DEF K, N

(* With reference divider 2.                                               *)
LEMMA Fc2580Makes2 ==
    ASSUME NEW v \in Nat, RVal(v) = 2, In23(v)
    PROVE  /\ 2 * v
              = 2 * CRYSTAL_KHZ * (NVal(v) % 256) + (2 * CRYSTAL_KHZ * (KVal(v) \div 32)) \div 32768
           /\ KVal(v) % 32 = 0 /\ KVal(v) \in Nat /\ In20(KVal(v))
<1> DEFINE N == NVal(v)  e == v - 16384 * N
<1>1. N = (v \div 2) \div 8192 /\ N \in Nat /\ e \in Nat /\ e < 16384
        /\ N < 256
  <2>1. CRYSTAL_KHZ \div RVal(v) = 8192
    BY SMT DEF CRYSTAL_KHZ
  <2>2. N = (v \div 2) \div 8192
    BY <2>1, SMT DEF NVal
  <2> DEFINE h == v \div 2
  <2>3. h \in Nat /\ 2 * h <= v /\ v <= 2 * h + 1
    BY SMT
  <2> HIDE DEF h
  <2>4. N = h \div 8192
    BY <2>2, SMT DEF h
  <2> HIDE DEF N
  <2>5. N \in Nat /\ 8192 * N <= h /\ h < 8192 * N + 8192
    BY <2>3, <2>4, SMT
  <2>6. v < 2490368
    BY SMT DEF RVal, CRYSTAL_KHZ, In23
  <2> QED
    BY <2>2, <2>3, <2>5, <2>6, SMT
<1> HIDE DEF N
<1>2. KVal(v) = 64 * e
  <2>1. CRYSTAL_KHZ \div RVal(v) = 8192
    BY SMT DEF CRYSTAL_KHZ
  <2> DEFINE shifted == (v - 2 * 8192 * N) * 65536
             d == (2 * 8192) \div 16
             k == shifted \div d
             low == 8192 \div 16
  <2>2. KVal(v) = IF shifted - k * d >= low THEN k + 1 ELSE k
    BY <2>1, SMT DEF KVal, N
  <2>3. d = 1024 /\ low = 512
    BY SMT
  <2>4. shifted = e * 65536
    BY <1>1, SMT
  <2> HIDE DEF shifted, e, low, d
  <2>5. k = 64 * e
    BY <1>1, <2>3, <2>4, SMT
  <2> HIDE DEF k
  <2>6. shifted - k * d = 0
    BY <1>1, <2>3, <2>4, <2>5, SMT
  <2> QED
    BY <2>2, <2>3, <2>5, <2>6, SMT
<1> DEFINE K == KVal(v)
<1>3. v = 16384 * N + e
  BY <1>1, SMT DEF e
<1> HIDE DEF e, K
<1>4. K = 64 * e
  BY <1>2, SMT DEF K
<1>5. K \div 32 = 2 * e /\ K % 32 = 0 /\ K \in Nat /\ In20(K)
  BY <1>1, <1>4, SMT DEF In20
<1>6. N % 256 = N
  BY <1>1, SMT
<1>7. (2 * CRYSTAL_KHZ * (K \div 32)) \div 32768 = 2 * e
  <2> DEFINE w == 2 * e
  <2>1. w \in Nat /\ K \div 32 = w
    BY <1>1, <1>5, SMT
  <2> HIDE DEF w
  <2>2. (2 * 16384 * w) \div 32768 = w
    BY <2>1, SMT
  <2> QED
    BY <2>1, <2>2, SMT DEF w, CRYSTAL_KHZ
<1>8. 2 * v = 2 * CRYSTAL_KHZ * (N % 256) + 2 * e
  BY <1>1, <1>3, <1>6, SMT DEF CRYSTAL_KHZ
<1> QED
  BY <1>5, <1>7, <1>8, SMT DEF K, N

(* With reference divider 4.                                               *)
LEMMA Fc2580Makes4 ==
    ASSUME NEW v \in Nat, RVal(v) = 4, In23(v)
    PROVE  /\ 4 * v
              = 2 * CRYSTAL_KHZ * (NVal(v) % 256) + (2 * CRYSTAL_KHZ * (KVal(v) \div 32)) \div 32768
           /\ KVal(v) % 32 = 0 /\ KVal(v) \in Nat /\ In20(KVal(v))
<1> DEFINE N == NVal(v)  e == v - 8192 * N
<1>1. N = (v \div 2) \div 4096 /\ N \in Nat /\ e \in Nat /\ e < 8192
        /\ N < 256
  <2>1. CRYSTAL_KHZ \div RVal(v) = 4096
    BY SMT DEF CRYSTAL_KHZ
  <2>2. N = (v \div 2) \div 4096
    BY <2>1, SMT DEF NVal
  <2> DEFINE h == v \div 2
  <2>3. h \in Nat /\ 2 * h <= v /\ v <= 2 * h + 1
    BY SMT
  <2> HIDE DEF h
  <2>4. N = h \div 4096
    BY <2>2, SMT DEF h
  <2> HIDE DEF N
  <2>5. N \in Nat /\ 4096 * N <= h /\ h < 4096 * N + 4096
    BY <2>3, <2>4, SMT
  <2>6. v < 1245184
    BY SMT DEF RVal, CRYSTAL_KHZ, In23
  <2> QED
    BY <2>2, <2>3, <2>5, <2>6, SMT
<1> HIDE DEF N
<1>2. KVal(v) = 128 * e
  <2>1. CRYSTAL_KHZ \div RVal(v) = 4096
    BY SMT DEF CRYSTAL_KHZ
  <2> DEFINE shifted == (v - 2 * 4096 * N) * 65536
             d == (2 * 4096) \div 16
             k == shifted \div d
             low == 4096 \div 16
  <2>2. KVal(v) = IF shifted - k * d >= low THEN k + 1 ELSE k
    BY <2>1, SMT DEF KVal, N
  <2>3. d = 512 /\ low = 256
    BY SMT
  <2>4. shifted = e * 65536
    BY <1>1, SMT
  <2> HIDE DEF shifted, e, low, d
  <2>5. k = 128 * e
    BY <1>1, <2>3, <2>4, SMT
  <2> HIDE DEF k
  <2>6. shifted - k * d = 0
    BY <1>1, <2>3, <2>4, <2>5, SMT
  <2> QED
    BY <2>2, <2>3, <2>5, <2>6, SMT
<1> DEFINE K == KVal(v)
<1>3. v = 8192 * N + e
  BY <1>1, SMT DEF e
<1> HIDE DEF e, K
<1>4. K = 128 * e
  BY <1>2, SMT DEF K
<1>5. K \div 32 = 4 * e /\ K % 32 = 0 /\ K \in Nat /\ In20(K)
  BY <1>1, <1>4, SMT DEF In20
<1>6. N % 256 = N
  BY <1>1, SMT
<1>7. (2 * CRYSTAL_KHZ * (K \div 32)) \div 32768 = 4 * e
  <2> DEFINE w == 4 * e
  <2>1. w \in Nat /\ K \div 32 = w
    BY <1>1, <1>5, SMT
  <2> HIDE DEF w
  <2>2. (2 * 16384 * w) \div 32768 = w
    BY <2>1, SMT
  <2> QED
    BY <2>1, <2>2, SMT DEF w, CRYSTAL_KHZ
<1>8. 4 * v = 2 * CRYSTAL_KHZ * (N % 256) + 4 * e
  BY <1>1, <1>3, <1>6, SMT DEF CRYSTAL_KHZ
<1> QED
  BY <1>5, <1>7, <1>8, SMT DEF K, N

(* Register 0x18 tells both of its parts.                                  *)
LEMMA R18Is ==
    ASSUME NEW rv \in {1, 2, 4}, NEW k \in Nat, In20(k)
    PROVE  /\ R18(rv, k) % 16 = k \div 65536
           /\ R18(rv, k) \div 16 = (IF rv = 1 THEN 0 ELSE IF rv = 2 THEN 1
              ELSE 2)
<1> DEFINE h == k \div 65536
           r == IF rv = 1 THEN 0 ELSE IF rv = 2 THEN 16 ELSE 32
<1>1. h \in 0..15
  BY WordIs, SMT
<1>2. R18(rv, k) = (r + h) % 256
  BY SMT DEF R18
<1> HIDE DEF h
<1>3. r \in {0, 16, 32}
  BY SMT
<1>4. R18(rv, k) = r + h
  <2> HIDE DEF r
  <2> QED
    BY <1>1, <1>2, <1>3, SMT
<1>5. (r + h) % 16 = h /\ (r + h) \div 16 = (IF rv = 1 THEN 0 ELSE IF rv = 2
        THEN 1 ELSE 2)
  <2>1. CASE rv = 1
    BY <1>1, <2>1, SMT
  <2>2. CASE rv = 2
    BY <1>1, <2>2, SMT
  <2>3. CASE rv = 4
    BY <1>1, <2>3, SMT
  <2> QED
    BY <2>1, <2>2, <2>3, SMT
<1> QED
  BY <1>4, <1>5, SMT DEF h

(* The FC2580's registers make the VCO to the kHz                          *)
(* (tuner_fc2580.c:337-343).                                               *)
LEMMA Fc2580Good ==
    ASSUME NEW f \in Nat, Fc2580Reach(f)
    PROVE  Fc2580R(Fc2580Pll(f)) * Fc2580Vco(f) = Fc2580Khz(Fc2580Pll(f))
             /\ Fc2580K(Fc2580Pll(f)) % 32 = 0
<1> DEFINE vco == Fc2580Vco(f)
           pll == Fc2580Pll(f)
           r == Fc2580R(pll)
           k == Fc2580K(pll)
           rv == RVal(vco)
           kv == KVal(vco)
<1>1. vco \in Nat /\ In23(vco)
  <2>1. vco = f * 4 \/ vco = f * 2 \/ vco = f * 12
    BY SMT DEF Fc2580Vco
  <2>2. vco = f * 12 => f <= 400000 \/ f = 0
    BY SMT DEF Fc2580Vco, Fc2580Band, Fc2580Reach
  <2>3. vco = f * 4 => f <= 1000000
    BY SMT DEF Fc2580Vco, Fc2580Band, Fc2580Reach
  <2>4. vco = f * 2 => f <= 4000000
    BY SMT DEF Fc2580Reach
  <2> HIDE DEF vco
  <2> QED
    BY <2>1, <2>2, <2>3, <2>4, SMT DEF In23, Fc2580Reach
<1>2. rv \in {1, 2, 4}
  BY SMT DEF RVal
<1>3. /\ pll.r18 = R18(rv, kv) /\ pll.r1A = (kv \div 256) % 256
      /\ pll.r1B = kv % 256 /\ pll.r1C = NVal(vco) % 256
  BY SMT DEF Fc2580Pll, R18
<1> HIDE DEF vco, pll, rv, kv
<1>4. /\ rv * vco
         = 2 * CRYSTAL_KHZ * (NVal(vco) % 256) + (2 * CRYSTAL_KHZ * (kv \div 32)) \div 32768
      /\ kv % 32 = 0 /\ kv \in Nat /\ In20(kv)
  <2>1. CASE rv = 1
    BY <1>1, <2>1, Fc2580Makes1, SMT DEF rv, kv
  <2>2. CASE rv = 2
    BY <1>1, <2>2, Fc2580Makes2, SMT DEF rv, kv
  <2>3. CASE rv = 4
    BY <1>1, <2>3, Fc2580Makes4, SMT DEF rv, kv
  <2> QED
    BY <1>2, <2>1, <2>2, <2>3, SMT
<1>5. pll.r18 % 16 = kv \div 65536 /\ pll.r18 \div 16
        = (IF rv = 1 THEN 0 ELSE IF rv = 2 THEN 1 ELSE 2)
  BY <1>2, <1>3, <1>4, R18Is, SMT
<1>6. r = rv
  <2> DEFINE t == pll.r18 \div 16
  <2>1. (rv = 1 => t = 0) /\ (rv = 2 => t = 1) /\ (rv = 4 => t = 2)
    BY <1>5, SMT
  <2>2. r = (CASE t = 0 -> 1 [] t = 1 -> 2 [] t = 2 -> 4)
    BY DEF Fc2580R
  <2> HIDE DEF t, r
  <2>3. (CASE t = 0 -> 1 [] t = 1 -> 2 [] t = 2 -> 4) = rv
    BY <1>2, <2>1, SMT
  <2> QED
    BY <2>2, <2>3
<1>7. k = kv
  <2>1. Word(kv) = kv /\ kv \div 65536 \in 0..15
          /\ (kv \div 256) % 256 \in Nat /\ kv % 256 \in Nat
    BY <1>4, WordIs, SMT
  <2> DEFINE a == kv \div 65536  b == (kv \div 256) % 256  c == kv % 256
  <2>2. k = a * 65536 + b * 256 + c
    BY <1>3, <1>5, SMT DEF Fc2580K
  <2>3. Word(kv) = 65536 * a + 256 * b + c
    <3>1. Hi(kv) = a /\ Mid(kv) = b /\ Lo(kv) = c
      BY SMT DEF Hi, Mid, Lo
    <3> HIDE DEF a, b, c
    <3>2. Word(kv) = Word3(a, b, c)
      BY <3>1 DEF Word
    <3> QED
      BY <3>2, SMT DEF Word3
  <2> HIDE DEF a, b, c, k
  <2>4. a \in Nat /\ b \in Nat /\ c \in Nat
    BY <2>1, SMT DEF a, b, c
  <2> QED
    BY <2>1, <2>2, <2>3, <2>4, SMT
<1> HIDE DEF r, k
<1> DEFINE khz ==
      2 * CRYSTAL_KHZ * pll.r1C + (2 * CRYSTAL_KHZ * (k \div 32)) \div 32768
<1>8. rv * vco = khz /\ k % 32 = 0
  BY <1>3, <1>4, <1>7, SMT
<1>9. Fc2580Khz(pll) = khz
  BY DEF Fc2580Khz, k
<1> HIDE DEF khz
<1>10. r * vco = Fc2580Khz(pll) /\ k % 32 = 0
  BY <1>6, <1>8, <1>9
<1> QED
  BY <1>10 DEF r, k, vco, pll

----------------------------------------------------------------------------
(* All of them. *)

(* The frequency in Hz that a swept one stands for.                        *)
Aimed(xx) == Unit * ((1000 * xx) \div Unit)

(* The sweep stays where the counters of the FC0012 and FC0013 can be      *)
(* valid: 13.5 MHz is the lowest frequency the largest multiplier brings   *)
(* to 90 half crystals, 1890 MHz one that the smallest keeps below 263.5.  *)
FcRange == FcFirst >= 13500 /\ FcFirst <= 1890000 /\ FcLast <= 1890000

(* Such a frequency.                                                       *)
FcServed(xx) == xx >= 13500 /\ xx <= 1890000

(* Below the gap that neither chip fills.                                  *)
FcLow(xx) == xx <= 948500

(* Above it.                                                               *)
FcHigh(xx) == xx > 950000

(* Where a chip must find its dividers.                                    *)
FcServable(model, xx) == FcLow(xx) \/ (model = "FC0013" /\ FcHigh(xx))

(* It is a number of units inside the same bounds.                         *)
LEMMA AimedIs ==
    ASSUME NEW xx \in Nat, FcServed(xx)
    PROVE  \E u \in Nat : /\ Aimed(xx) = 512 * u /\ Aimed(xx) \div Unit = u
                          /\ Slowest(512 * u)
                          /\ FcLow(xx) => Middle(512 * u)
                          /\ FcHigh(xx) => Top(512 * u)
<1> DEFINE y == 1000 * xx
           u == y \div 512
<1>1. y \in Nat /\ y >= 13500000 /\ y <= 1890000000
  BY SMT DEF FcServed
<1>2. (FcLow(xx) => y <= 948500000) /\ (FcHigh(xx) => y >= 950001000)
  BY SMT DEF FcLow, FcHigh
<1>3. Aimed(xx) = 512 * u
  BY SMT DEF Aimed, Unit
<1> HIDE DEF y
<1>4. u \in Nat /\ 512 * u <= y /\ y < 512 * u + 512
  BY <1>1, SMT
<1> HIDE DEF u
<1>5. Aimed(xx) \div Unit = u
  <2> DEFINE a == Aimed(xx)
  <2>1. a = 512 * u
    BY <1>3, SMT
  <2> HIDE DEF a
  <2>2. a \div 512 = u
    BY <1>4, <2>1, SMT
  <2> QED
    BY <2>2, SMT DEF a, Unit
<1>6. Slowest(512 * u)
  BY <1>1, <1>4, SMT DEF Slowest
<1>7. FcLow(xx) => Middle(512 * u)
  BY <1>1, <1>2, <1>4, SMT DEF Middle
<1>8. FcHigh(xx) => Top(512 * u)
  BY <1>1, <1>2, <1>4, SMT DEF Top
<1> QED
  BY <1>3, <1>4, <1>5, <1>6, <1>7, <1>8

(* There the dividers are valid and make the frequency.                    *)
LEMMA FcGood ==
    ASSUME NEW model \in {"FC0012", "FC0013"}, NEW xx \in Nat, FcServed(xx),
           (Aimed(xx) \div Unit) * DividerRow(model,
               Aimed(xx)).multi < VcoWord
    PROVE  LET fvco == FVco(model, Aimed(xx))
               rf == RfA_RfM(Xdiv(fvco))
               off == SynthesizedKhz(rf, Xin(fvco)) - (fvco * 64) \div 125
           IN  /\ FcServable(model, xx) => ValidPll(Xdiv(fvco))
               /\ 8 * rf[2] + rf[1] = Xdiv(fvco) /\ rf[1] >= 2
                  /\ off \in -1..1
<1> DEFINE freq == Aimed(xx)
           multi == DividerRow(model, freq).multi
           fvco == FVco(model, freq)
<1>1. PICK u \in Nat : /\ freq = 512 * u /\ freq \div Unit = u
                          /\ Slowest(512 * u)
                       /\ FcLow(xx) => Middle(512 * u)
                       /\ FcHigh(xx) => Top(512 * u)
  BY AimedIs
<1>2. multi \in Nat /\ Reached(freq, u * multi)
      /\ (model = "FC0013" => (Top(freq) => u * multi < Highest))
  <2>1. CASE model = "FC0012"
    <3> DEFINE g == 512 * u
               mu == DividerRow("FC0012", g).multi
    <3>1. mu \in Nat /\ Reached(g, u * mu)
      <4>1. Slowest(512 * u)
        BY <1>1, Zenon
      <4> QED
        BY <4>1, Fc0012Reach
    <3>2. freq = g
      BY <1>1, Zenon
    <3>3. multi = mu
      BY <2>1, <3>2, Zenon
    <3> HIDE DEF multi, mu, freq, g
    <3> QED
      BY <2>1, <3>1, <3>2, <3>3, Zenon
  <2>2. CASE model = "FC0013"
    <3> DEFINE g == 512 * u
               mu == DividerRow("FC0013", g).multi
    <3>1. mu \in Nat /\ Reached(g, u * mu) /\ (Top(g) => u * mu < Highest)
      <4>1. Slowest(512 * u)
        BY <1>1, Zenon
      <4> QED
        BY <4>1, Fc0013Reach
    <3>2. freq = g
      BY <1>1, Zenon
    <3>3. multi = mu
      BY <2>2, <3>2, Zenon
    <3> HIDE DEF multi, mu, freq, g
    <3> QED
      BY <2>2, <3>1, <3>2, <3>3, Zenon
  <2> QED
    BY <2>1, <2>2
<1>3. u * multi < VcoWord
  BY <1>1, Zenon
<1>4. fvco = (u * multi) % VcoWord
  BY <1>1, Zenon DEF FVco
<1> HIDE DEF multi, fvco, freq
<1>5. u * multi \in Nat
  BY <1>2, SMT
<1> DEFINE w == u * multi
<1> HIDE DEF w
<1>6. fvco = w
  <2>1. w \in Nat /\ w < VcoWord /\ fvco = w % VcoWord
    BY <1>3, <1>4, <1>5 DEF w
  <2> QED
    BY <2>1, SMT DEF VcoWord
<1>7. fvco \in Nat /\ fvco < VcoWord /\ fvco >= Lowest
  BY <1>2, <1>3, <1>5, <1>6 DEF w, Reached
<1>8. FcServable(model, xx) => fvco < Highest
  <2>1. FcLow(xx) => fvco < Highest
    BY <1>1, <1>2, <1>6, Zenon DEF w, Reached
  <2>2. model = "FC0013" /\ FcHigh(xx) => fvco < Highest
    BY <1>1, <1>2, <1>6, Zenon DEF w
  <2> QED
    BY <2>1, <2>2, Zenon DEF FcServable
<1> DEFINE rf == RfA_RfM(Xdiv(fvco))
<1>9. /\ fvco < Highest => ValidPll(Xdiv(fvco))
      /\ 8 * rf[2] + rf[1] = Xdiv(fvco) /\ rf[1] >= 2
      /\ SynthesizedKhz(rf, Xin(fvco)) - (fvco * 64) \div 125 \in -1..1
  BY <1>7, FcSynth, Zenon
<1>10. FcServable(model, xx) => ValidPll(Xdiv(fvco))
  BY <1>8, <1>9, Zenon
<1> QED
  BY <1>9, <1>10, Zenon DEF fvco, freq

(* An R82xx is swept over naturals, for one of the boards.                 *)
FreqInv == kind = "freq" => x \in Nat /\ chip \in Chips

(* The FC tuners are swept over their range.                               *)
FcInv == kind \in FcKinds => x \in Nat /\ x >= FcFirst
    /\ (x = FcFirst \/ x <= FcLast)
(* Both.                                                                   *)
PllInv == FreqInv /\ FcInv

(* A step keeps it.                                                        *)
LEMMA PllStays ==
    ASSUME PllInv, [Next]_vars
    PROVE  PllInv'
<1>0. FreqStep \in Nat /\ FcStep \in Nat /\ FcFirst \in Nat /\ FcLast \in Nat
  BY SweepAssumption
<1>1. CASE SweepFreq
  BY <1>0, <1>1 DEF SweepFreq, Sweep, PllInv, FreqInv, FcInv, FcKinds
<1>2. CASE SweepFc
  <2>1. kind \in FcKinds /\ x' = x + FcStep /\ x + FcStep <= FcLast
          /\ UNCHANGED << kind, chip >>
    BY <1>2 DEF SweepFc, Sweep
  <2>2. x' \in Nat /\ x' >= FcFirst /\ x' <= FcLast
    BY <1>0, <2>1, SMT DEF PllInv, FcInv
  <2>3. kind' # "freq"
    BY <2>1 DEF FcKinds
  <2> QED
    BY <2>2, <2>3 DEF PllInv, FreqInv, FcInv
<1>3. CASE SweepBw \/ SweepGain \/ SweepWidth
  BY <1>3 DEF SweepBw, SweepGain, SweepWidth, Sweep, PllInv, FreqInv, FcInv,
     FcKinds
<1>4. CASE SweepRate
  BY <1>4 DEF SweepRate, PllInv, FreqInv, FcInv, FcKinds
<1>5. CASE UNCHANGED vars
  BY <1>5 DEF vars, PllInv, FreqInv, FcInv
<1> QED
  BY <1>1, <1>2, <1>3, <1>4, <1>5 DEF Next

(* The boards.                                                             *)
LEMMA ChipsAre ==
    ASSUME NEW c \in Chips
    PROVE  Fits(c.ref, c.power)
BY SMT DEF Chips, R820T, Refs, Fits

(* Wherever the sweep is, the synthesizers are right.                      *)
LEMMA PllMakes ==
    ASSUME PllInv, SdmBound >= 4, FcRange
    PROVE  PllSynthesizes
<1>1. R82xxSynthesizes
  <2> SUFFICES ASSUME kind = "freq", HasDivider(x) PROVE R82xxSynthesizes
    BY DEF R82xxSynthesizes
  <2>1. x \in Nat /\ chip \in Chips
    BY DEF PllInv, FreqInv
  <2>2. Fits(chip.ref, chip.power)
    BY <2>1, ChipsAre, Zenon
  <2>3. R82xxSynthesizes
    BY <2>1, <2>2, R82xxGood, Zenon DEF R82xxSynthesizes
  <2> QED
    BY <2>3
<1>2. kind \in FcKinds => FcServed(x) /\ x \in Nat
  BY SweepAssumption, SMT DEF PllInv, FcInv, FcServed, FcRange
<1>3. kind \in {"FC0012", "FC0013"} => kind \in FcKinds
  BY DEF FcKinds
<1>4. kind = "FC2580" => kind \in FcKinds
  BY DEF FcKinds
<1>5. FcSynthesizes
  <2> DEFINE u == (1000 * x) \div Unit
             freq == Unit * u
             fvco == FVco(kind, freq)
             rf == RfA_RfM(Xdiv(fvco))
             off == SynthesizedKhz(rf, Xin(fvco)) - (fvco * 64) \div 125
  <2>1. ASSUME kind \in {"FC0012", "FC0013"},
                 (freq \div Unit) * DividerRow(kind, freq).multi < VcoWord
        PROVE  /\ x <= 948500 \/ (kind = "FC0013" /\ x > 950000)
                  => ValidPll(Xdiv(fvco))
               /\ ValidPll(Xdiv(fvco)) => /\ 8 * rf[2] + rf[1] = Xdiv(fvco)
                                          /\ rf[1] >= 2 /\ off \in -1..1
    <3>1. Aimed(x) = freq
      BY Zenon DEF Aimed
    <3>2. FcServed(x) /\ x \in Nat
      BY <1>2, <1>3, <2>1
    <3> HIDE DEF freq
    <3>3. /\ FcServable(kind, x) => ValidPll(Xdiv(fvco))
          /\ 8 * rf[2] + rf[1] = Xdiv(fvco) /\ rf[1] >= 2 /\ off \in -1..1
      BY <2>1, <3>1, <3>2, FcGood, Zenon
    <3> HIDE DEF rf, off, fvco
    <3> QED
      BY <3>3, SMT DEF FcServable, FcLow, FcHigh
  <2>2. ASSUME kind = "FC2580"
        PROVE  Fc2580R(Fc2580Pll(x)) * Fc2580Vco(x) = Fc2580Khz(Fc2580Pll(x))
                 /\ Fc2580K(Fc2580Pll(x)) % 32 = 0
    <3>1. FcServed(x) /\ x \in Nat
      BY <1>2, <1>4, <2>2
    <3>2. Fc2580Reach(x)
      BY <3>1, SMT DEF Fc2580Reach, FcServed
    <3> QED
      BY <3>1, <3>2, Fc2580Good, Zenon
  <2> HIDE DEF u
  <2> QED
    BY <2>1, <2>2, SMT DEF FcSynthesizes, u
<1> QED
  BY <1>1, <1>5 DEF PllSynthesizes

(* Whatever frequencies are swept, the synthesizer of every tuner makes    *)
(* the one asked for: the R82xx's wherever it has an output divider, its   *)
(* fields rebuilding the integer part, the fraction within 4 kHz of the    *)
(* VCO and the sdm loop never dividing by zero (tuner_r82xx.c:468-542);    *)
(* those of the FC0012 and FC0013 to 1 kHz of the VCO                      *)
(* (tuner_fc0012.c:148-247, tuner_fc0013.c:194-352); the FC2580's to the   *)
(* kHz (tuner_fc2580.c:207-217, 337-343).                                  *)
THEOREM SynthesizersAreRight ==
    ASSUME SdmBound >= 4, FcRange
    PROVE  Spec => []PllSynthesizes
<1>1. Init => PllInv
  BY SweepAssumption DEF Init, PllInv, FreqInv, FcInv, FcKinds
<1>2. PllInv => PllSynthesizes
  BY PllMakes
<1> QED
  BY <1>1, <1>2, PllStays, PTL DEF Spec

----------------------------------------------------------------------------
(* The hops of rtl_power. *)

(* u is four m-ths of n, rounded down.                                     *)
Uncrops(u, n, m) == u \in Nat /\ m * u <= 4 * n /\ 4 * n < m * u + m

(* That is what frequency_range computes unless the conversion overflows,  *)
(* m being what the crop leaves in quarters (rtl_power.c:463).             *)
LEMMA UncroppedIs ==
    ASSUME NEW n \in Nat, NEW c \in 0..3, ~ConversionOverflows(n, c)
    PROVE  Uncrops(Uncropped(n, c), n, 4 - c)
<1>1. Uncropped(n, c)
        = (n \div (4 - c)) * 4 + ((n % (4 - c)) * 4) \div (4 - c)
  BY DEF Uncropped
<1> DEFINE u == Uncropped(n, c)
<1> HIDE DEF u
<1>2. CASE c = 0
  <2>1. u = (n \div 4) * 4 + ((n % 4) * 4) \div 4
    BY <1>1, <1>2, SMT DEF u
  <2>2. Uncrops(u, n, 4)
    BY <2>1, SMT DEF Uncrops
  <2> QED
    BY <1>2, <2>2, SMT DEF u
<1>3. CASE c = 1
  <2>1. u = (n \div 3) * 4 + ((n % 3) * 4) \div 3
    BY <1>1, <1>3, SMT DEF u
  <2>2. Uncrops(u, n, 3)
    BY <2>1, SMT DEF Uncrops
  <2> QED
    BY <1>3, <2>2, SMT DEF u
<1>4. CASE c = 2
  <2>1. u = (n \div 2) * 4 + ((n % 2) * 4) \div 2
    BY <1>1, <1>4, SMT DEF u
  <2>2. Uncrops(u, n, 2)
    BY <2>1, SMT DEF Uncrops
  <2> QED
    BY <1>4, <2>2, SMT DEF u
<1>5. CASE c = 3
  <2>1. u = (n \div 1) * 4 + ((n % 1) * 4) \div 1
    BY <1>1, <1>5, SMT DEF u
  <2>2. Uncrops(u, n, 1)
    BY <2>1, SMT DEF Uncrops
  <2> QED
    BY <1>5, <2>2, SMT DEF u
<1> QED
  BY <1>2, <1>3, <1>4, <1>5 DEF u

(* What is narrower does not overflow either.                              *)
LEMMA NarrowerFits ==
    ASSUME NEW n \in Nat, NEW x0 \in Nat, n <= x0, NEW c \in 0..3,
           ~ConversionOverflows(x0, c)
    PROVE  ~ConversionOverflows(n, c)
<1>1. ~(x0 \div 536870912 >= 4 - c)
  BY SMT DEF ConversionOverflows
<1>2. n \div 536870912 <= x0 \div 536870912
  BY SMT
<1>3. ~(n \div 536870912 >= 4 - c)
  BY <1>1, <1>2, SMT
<1> QED
  BY <1>3, SMT DEF ConversionOverflows

(* Nor does a rate the library supports.                                   *)
LEMMA SmallFits ==
    ASSUME NEW n \in Nat, n <= 3200000, NEW c \in 0..3
    PROVE  ~ConversionOverflows(n, c)
<1>1. n \div 536870912 = 0
  BY SMT
<1> QED
  BY <1>1, SMT DEF ConversionOverflows

(* After the crop at least n hertz are left, but for the rounding.         *)
LEMMA LeftAfterCrop ==
    ASSUME NEW n \in Nat, NEW u \in Nat, NEW m \in 1..4, Uncrops(u, n, m)
    PROVE  (u \div 4) * m + 4 >= n
<1> DEFINE q == u \div 4
<1>1. q \in Nat /\ 4 * q <= u /\ u <= 4 * q + 3
  BY SMT
<1> HIDE DEF q
<1>2. m = 1 => q * m + 4 >= n
  BY <1>1, SMT DEF Uncrops
<1>3. m = 2 => q * m + 4 >= n
  BY <1>1, SMT DEF Uncrops
<1>4. m = 3 => q * m + 4 >= n
  BY <1>1, SMT DEF Uncrops
<1>5. m = 4 => q * m + 4 >= n
  BY <1>1, SMT DEF Uncrops
<1> QED
  BY <1>2, <1>3, <1>4, <1>5 DEF q

(* A bandwidth for which frequency_range cuts the rate down, and one that  *)
(* is not too wide for a hop.                                              *)
Narrow(u) == u < MINIMUM_RATE
Fitting(u) == u <= MAXIMUM_RATE

(* Half of what does not fit is not narrow.                                *)
LEMMA NotNarrow ==
    ASSUME NEW y \in Nat, NEW u, NEW m \in 1..4, Uncrops(u, y, m),
           ~Fitting(u),
           NEW z \in Nat, 2 * z + 1 >= y, NEW v, Uncrops(v, z, m)
    PROVE  ~Narrow(v)
<1>1. m = 1 => ~Narrow(v)
  BY SMT DEF Narrow, Fitting, Uncrops, MINIMUM_RATE, MAXIMUM_RATE
<1>2. m = 2 => ~Narrow(v)
  BY SMT DEF Narrow, Fitting, Uncrops, MINIMUM_RATE, MAXIMUM_RATE
<1>3. m = 3 => ~Narrow(v)
  BY SMT DEF Narrow, Fitting, Uncrops, MINIMUM_RATE, MAXIMUM_RATE
<1>4. m = 4 => ~Narrow(v)
  BY SMT DEF Narrow, Fitting, Uncrops, MINIMUM_RATE, MAXIMUM_RATE
<1> QED
  BY <1>1, <1>2, <1>3, <1>4

(* One hop more never makes a hop less than half as wide.                  *)
LEMMA HalfAgain ==
    ASSUME NEW w \in Nat, NEW k \in Nat \ {0}
    PROVE  2 * (w \div (k + 1)) + 1 >= w \div k
<1> DEFINE d == k + 1  y == w \div k  z == w \div d
<1>0. d \in Nat \ {0} /\ d = k + 1
  OBVIOUS
<1>1. w = k * y + (w % k) /\ w % k \in 0..(k - 1) /\ y \in Nat
  BY DivModDef
<1> HIDE DEF d, y
<1>2. w = d * z + (w % d) /\ w % d \in 0..(d - 1) /\ z \in Nat
  BY <1>0, DivModDef
<1> DEFINE r == w % k  s == w % d
<1>3. r \in 0..(k - 1) /\ s \in 0..(d - 1) /\ w = k * y + r /\ w = d * z + s
  BY <1>1, <1>2
<1> HIDE DEF z, r, s
<1>4. k * y <= w /\ w < d * (z + 1)
  <2>1. d * (z + 1) = d * z + d
    BY <1>0, <1>2, SMT
  <2> DEFINE p == k * y  q == d * z
  <2>2. p \in Int /\ q \in Int
    BY <1>0, <1>1, <1>2, SMT
  <2>3. w = p + r /\ w = q + s /\ d * (z + 1) = q + d
    BY <1>3, <2>1
  <2> HIDE DEF p, q
  <2>4. p <= w /\ w < q + d
    BY <1>0, <1>3, <2>2, <2>3, SMT
  <2> QED
    BY <2>3, <2>4 DEF p
<1>5. d * (z + 1) <= (2 * k) * (z + 1)
  BY <1>0, <1>2, SMT
<1>6. k * y < k * (2 * (z + 1))
  <2>1. (2 * k) * (z + 1) = k * (2 * (z + 1))
    BY <1>2, SMT
  <2>2. k * y \in Int /\ d * (z + 1) \in Int /\ (2 * k) * (z + 1) \in Int
          /\ w \in Int
    BY <1>0, <1>1, <1>2, SMT
  <2> DEFINE a == k * y  b == d * (z + 1)  c == (2 * k) * (z + 1)
  <2>3. a \in Int /\ b \in Int /\ c \in Int /\ a <= w /\ w < b /\ b <= c
    BY <1>4, <1>5, <2>2
  <2> HIDE DEF a, b, c
  <2>4. a < c
    BY <2>3, SMT
  <2> QED
    BY <2>1, <2>4 DEF a, c
<1>7. y < 2 * (z + 1)
  <2>1. y >= 2 * (z + 1) => k * y >= k * (2 * (z + 1))
    BY <1>1, <1>2, SMT
  <2>2. k * y \in Int /\ k * (2 * (z + 1)) \in Int
    BY <1>1, <1>2, SMT
  <2> QED
    BY <1>1, <1>2, <1>6, <2>1, <2>2, SMT
<1> QED
  BY <1>1, <1>2, <1>7, SMT DEF y, z, d

(* The powers of two that occur.                                           *)
PowersUpTo22 == {1, 2, 4, 8, 16, 32, 64, 128, 256, 512, 1024, 2048, 4096,
    8192, 16384, 32768, 65536, 131072, 262144, 524288, 1048576, 2097152,
        4194304}

(* These are they.                                                         *)
LEMMA PowersAre ==
    ASSUME NEW p \in 0..22
    PROVE  2^p \in PowersUpTo22 /\ 2^(p + 1) = 2 * 2^p
<1>0. p = 0 \/ p = 1 \/ p = 2 \/ p = 3 \/ p = 4 \/ p = 5 \/ p = 6 \/ p = 7
        \/ p = 8 \/ p = 9 \/ p = 10 \/ p = 11 \/ p = 12 \/ p = 13 \/ p = 14
           \/ p = 15 \/ p = 16 \/ p = 17 \/ p = 18 \/ p = 19 \/ p = 20 \/ p
              = 21 \/ p = 22
  BY SMT
<1>1. CASE p = 0
  <2>1. 2^0 = 1 /\ 2^(0 + 1) = 2
    BY SMT
  <2>2. 2^p = 2^0 /\ 2^(p + 1) = 2^(0 + 1)
    BY <1>1
  <2> QED
    BY <2>1, <2>2, SMT DEF PowersUpTo22
<1>2. CASE p = 1
  <2>1. 2^1 = 2 /\ 2^(1 + 1) = 4
    BY SMT
  <2>2. 2^p = 2^1 /\ 2^(p + 1) = 2^(1 + 1)
    BY <1>2
  <2> QED
    BY <2>1, <2>2, SMT DEF PowersUpTo22
<1>3. CASE p = 2
  <2>1. 2^2 = 4 /\ 2^(2 + 1) = 8
    BY SMT
  <2>2. 2^p = 2^2 /\ 2^(p + 1) = 2^(2 + 1)
    BY <1>3
  <2> QED
    BY <2>1, <2>2, SMT DEF PowersUpTo22
<1>4. CASE p = 3
  <2>1. 2^3 = 8 /\ 2^(3 + 1) = 16
    BY SMT
  <2>2. 2^p = 2^3 /\ 2^(p + 1) = 2^(3 + 1)
    BY <1>4
  <2> QED
    BY <2>1, <2>2, SMT DEF PowersUpTo22
<1>5. CASE p = 4
  <2>1. 2^4 = 16 /\ 2^(4 + 1) = 32
    BY SMT
  <2>2. 2^p = 2^4 /\ 2^(p + 1) = 2^(4 + 1)
    BY <1>5
  <2> QED
    BY <2>1, <2>2, SMT DEF PowersUpTo22
<1>6. CASE p = 5
  <2>1. 2^5 = 32 /\ 2^(5 + 1) = 64
    BY SMT
  <2>2. 2^p = 2^5 /\ 2^(p + 1) = 2^(5 + 1)
    BY <1>6
  <2> QED
    BY <2>1, <2>2, SMT DEF PowersUpTo22
<1>7. CASE p = 6
  <2>1. 2^6 = 64 /\ 2^(6 + 1) = 128
    BY SMT
  <2>2. 2^p = 2^6 /\ 2^(p + 1) = 2^(6 + 1)
    BY <1>7
  <2> QED
    BY <2>1, <2>2, SMT DEF PowersUpTo22
<1>8. CASE p = 7
  <2>1. 2^7 = 128 /\ 2^(7 + 1) = 256
    BY SMT
  <2>2. 2^p = 2^7 /\ 2^(p + 1) = 2^(7 + 1)
    BY <1>8
  <2> QED
    BY <2>1, <2>2, SMT DEF PowersUpTo22
<1>9. CASE p = 8
  <2>1. 2^8 = 256 /\ 2^(8 + 1) = 512
    BY SMT
  <2>2. 2^p = 2^8 /\ 2^(p + 1) = 2^(8 + 1)
    BY <1>9
  <2> QED
    BY <2>1, <2>2, SMT DEF PowersUpTo22
<1>10. CASE p = 9
  <2>1. 2^9 = 512 /\ 2^(9 + 1) = 1024
    BY SMT
  <2>2. 2^p = 2^9 /\ 2^(p + 1) = 2^(9 + 1)
    BY <1>10
  <2> QED
    BY <2>1, <2>2, SMT DEF PowersUpTo22
<1>11. CASE p = 10
  <2>1. 2^10 = 1024 /\ 2^(10 + 1) = 2048
    BY SMT
  <2>2. 2^p = 2^10 /\ 2^(p + 1) = 2^(10 + 1)
    BY <1>11
  <2> QED
    BY <2>1, <2>2, SMT DEF PowersUpTo22
<1>12. CASE p = 11
  <2>1. 2^11 = 2048 /\ 2^(11 + 1) = 4096
    BY SMT
  <2>2. 2^p = 2^11 /\ 2^(p + 1) = 2^(11 + 1)
    BY <1>12
  <2> QED
    BY <2>1, <2>2, SMT DEF PowersUpTo22
<1>13. CASE p = 12
  <2>1. 2^12 = 4096 /\ 2^(12 + 1) = 8192
    BY SMT
  <2>2. 2^p = 2^12 /\ 2^(p + 1) = 2^(12 + 1)
    BY <1>13
  <2> QED
    BY <2>1, <2>2, SMT DEF PowersUpTo22
<1>14. CASE p = 13
  <2>1. 2^13 = 8192 /\ 2^(13 + 1) = 16384
    BY SMT
  <2>2. 2^p = 2^13 /\ 2^(p + 1) = 2^(13 + 1)
    BY <1>14
  <2> QED
    BY <2>1, <2>2, SMT DEF PowersUpTo22
<1>15. CASE p = 14
  <2>1. 2^14 = 16384 /\ 2^(14 + 1) = 32768
    BY SMT
  <2>2. 2^p = 2^14 /\ 2^(p + 1) = 2^(14 + 1)
    BY <1>15
  <2> QED
    BY <2>1, <2>2, SMT DEF PowersUpTo22
<1>16. CASE p = 15
  <2>1. 2^15 = 32768 /\ 2^(15 + 1) = 65536
    BY SMT
  <2>2. 2^p = 2^15 /\ 2^(p + 1) = 2^(15 + 1)
    BY <1>16
  <2> QED
    BY <2>1, <2>2, SMT DEF PowersUpTo22
<1>17. CASE p = 16
  <2>1. 2^16 = 65536 /\ 2^(16 + 1) = 131072
    BY SMT
  <2>2. 2^p = 2^16 /\ 2^(p + 1) = 2^(16 + 1)
    BY <1>17
  <2> QED
    BY <2>1, <2>2, SMT DEF PowersUpTo22
<1>18. CASE p = 17
  <2>1. 2^17 = 131072 /\ 2^(17 + 1) = 262144
    BY SMT
  <2>2. 2^p = 2^17 /\ 2^(p + 1) = 2^(17 + 1)
    BY <1>18
  <2> QED
    BY <2>1, <2>2, SMT DEF PowersUpTo22
<1>19. CASE p = 18
  <2>1. 2^18 = 262144 /\ 2^(18 + 1) = 524288
    BY SMT
  <2>2. 2^p = 2^18 /\ 2^(p + 1) = 2^(18 + 1)
    BY <1>19
  <2> QED
    BY <2>1, <2>2, SMT DEF PowersUpTo22
<1>20. CASE p = 19
  <2>1. 2^19 = 524288 /\ 2^(19 + 1) = 1048576
    BY SMT
  <2>2. 2^p = 2^19 /\ 2^(p + 1) = 2^(19 + 1)
    BY <1>20
  <2> QED
    BY <2>1, <2>2, SMT DEF PowersUpTo22
<1>21. CASE p = 20
  <2>1. 2^20 = 1048576 /\ 2^(20 + 1) = 2097152
    BY SMT
  <2>2. 2^p = 2^20 /\ 2^(p + 1) = 2^(20 + 1)
    BY <1>21
  <2> QED
    BY <2>1, <2>2, SMT DEF PowersUpTo22
<1>22. CASE p = 21
  <2>1. 2^21 = 2097152 /\ 2^(21 + 1) = 4194304
    BY SMT
  <2>2. 2^p = 2^21 /\ 2^(p + 1) = 2^(21 + 1)
    BY <1>22
  <2> QED
    BY <2>1, <2>2, SMT DEF PowersUpTo22
<1>23. CASE p = 22
  <2>1. 2^22 = 4194304 /\ 2^(22 + 1) = 8388608
    BY SMT
  <2>2. 2^p = 2^22 /\ 2^(p + 1) = 2^(22 + 1)
    BY <1>23
  <2> QED
    BY <2>1, <2>2, SMT DEF PowersUpTo22
<1> QED
  BY <1>0, <1>1, <1>2, <1>3, <1>4, <1>5, <1>6, <1>7, <1>8, <1>9, <1>10,
     <1>11, <1>12, <1>13, <1>14, <1>15, <1>16, <1>17, <1>18, <1>19, <1>20,
            <1>21, <1>22, <1>23

(* The recursive filter takes the largest power of two that is not above   *)
(* the factor (rtl_power.c:476-477).                                       *)
LEMMA PassesOf ==
    ASSUME NEW n \in Nat, n >= 1, Fitting(n)
    PROVE  /\ Passes(n) \in 0..22 /\ 2^Passes(n) \in PowersUpTo22
           /\ 2^Passes(n) <= n /\ n < 2 * 2^Passes(n)
<1>1. \E p \in 0..22 : 2^p <= n /\ n < 2^(p + 1)

  <2>1. CASE 1 <= n /\ n < 2
    <3>1. 2^0 = 1 /\ 2^(0 + 1) = 2
      BY SMT
    <3>2. 2^0 <= n /\ n < 2^(0 + 1)
      BY <2>1, <3>1, SMT
    <3>3. 0 \in 0..22
      BY SMT
    <3> QED
      BY <3>2, <3>3, Zenon
  <2>2. CASE 2 <= n /\ n < 4
    <3>1. 2^1 = 2 /\ 2^(1 + 1) = 4
      BY SMT
    <3>2. 2^1 <= n /\ n < 2^(1 + 1)
      BY <2>2, <3>1, SMT
    <3>3. 1 \in 0..22
      BY SMT
    <3> QED
      BY <3>2, <3>3, Zenon
  <2>3. CASE 4 <= n /\ n < 8
    <3>1. 2^2 = 4 /\ 2^(2 + 1) = 8
      BY SMT
    <3>2. 2^2 <= n /\ n < 2^(2 + 1)
      BY <2>3, <3>1, SMT
    <3>3. 2 \in 0..22
      BY SMT
    <3> QED
      BY <3>2, <3>3, Zenon
  <2>4. CASE 8 <= n /\ n < 16
    <3>1. 2^3 = 8 /\ 2^(3 + 1) = 16
      BY SMT
    <3>2. 2^3 <= n /\ n < 2^(3 + 1)
      BY <2>4, <3>1, SMT
    <3>3. 3 \in 0..22
      BY SMT
    <3> QED
      BY <3>2, <3>3, Zenon
  <2>5. CASE 16 <= n /\ n < 32
    <3>1. 2^4 = 16 /\ 2^(4 + 1) = 32
      BY SMT
    <3>2. 2^4 <= n /\ n < 2^(4 + 1)
      BY <2>5, <3>1, SMT
    <3>3. 4 \in 0..22
      BY SMT
    <3> QED
      BY <3>2, <3>3, Zenon
  <2>6. CASE 32 <= n /\ n < 64
    <3>1. 2^5 = 32 /\ 2^(5 + 1) = 64
      BY SMT
    <3>2. 2^5 <= n /\ n < 2^(5 + 1)
      BY <2>6, <3>1, SMT
    <3>3. 5 \in 0..22
      BY SMT
    <3> QED
      BY <3>2, <3>3, Zenon
  <2>7. CASE 64 <= n /\ n < 128
    <3>1. 2^6 = 64 /\ 2^(6 + 1) = 128
      BY SMT
    <3>2. 2^6 <= n /\ n < 2^(6 + 1)
      BY <2>7, <3>1, SMT
    <3>3. 6 \in 0..22
      BY SMT
    <3> QED
      BY <3>2, <3>3, Zenon
  <2>8. CASE 128 <= n /\ n < 256
    <3>1. 2^7 = 128 /\ 2^(7 + 1) = 256
      BY SMT
    <3>2. 2^7 <= n /\ n < 2^(7 + 1)
      BY <2>8, <3>1, SMT
    <3>3. 7 \in 0..22
      BY SMT
    <3> QED
      BY <3>2, <3>3, Zenon
  <2>9. CASE 256 <= n /\ n < 512
    <3>1. 2^8 = 256 /\ 2^(8 + 1) = 512
      BY SMT
    <3>2. 2^8 <= n /\ n < 2^(8 + 1)
      BY <2>9, <3>1, SMT
    <3>3. 8 \in 0..22
      BY SMT
    <3> QED
      BY <3>2, <3>3, Zenon
  <2>10. CASE 512 <= n /\ n < 1024
    <3>1. 2^9 = 512 /\ 2^(9 + 1) = 1024
      BY SMT
    <3>2. 2^9 <= n /\ n < 2^(9 + 1)
      BY <2>10, <3>1, SMT
    <3>3. 9 \in 0..22
      BY SMT
    <3> QED
      BY <3>2, <3>3, Zenon
  <2>11. CASE 1024 <= n /\ n < 2048
    <3>1. 2^10 = 1024 /\ 2^(10 + 1) = 2048
      BY SMT
    <3>2. 2^10 <= n /\ n < 2^(10 + 1)
      BY <2>11, <3>1, SMT
    <3>3. 10 \in 0..22
      BY SMT
    <3> QED
      BY <3>2, <3>3, Zenon
  <2>12. CASE 2048 <= n /\ n < 4096
    <3>1. 2^11 = 2048 /\ 2^(11 + 1) = 4096
      BY SMT
    <3>2. 2^11 <= n /\ n < 2^(11 + 1)
      BY <2>12, <3>1, SMT
    <3>3. 11 \in 0..22
      BY SMT
    <3> QED
      BY <3>2, <3>3, Zenon
  <2>13. CASE 4096 <= n /\ n < 8192
    <3>1. 2^12 = 4096 /\ 2^(12 + 1) = 8192
      BY SMT
    <3>2. 2^12 <= n /\ n < 2^(12 + 1)
      BY <2>13, <3>1, SMT
    <3>3. 12 \in 0..22
      BY SMT
    <3> QED
      BY <3>2, <3>3, Zenon
  <2>14. CASE 8192 <= n /\ n < 16384
    <3>1. 2^13 = 8192 /\ 2^(13 + 1) = 16384
      BY SMT
    <3>2. 2^13 <= n /\ n < 2^(13 + 1)
      BY <2>14, <3>1, SMT
    <3>3. 13 \in 0..22
      BY SMT
    <3> QED
      BY <3>2, <3>3, Zenon
  <2>15. CASE 16384 <= n /\ n < 32768
    <3>1. 2^14 = 16384 /\ 2^(14 + 1) = 32768
      BY SMT
    <3>2. 2^14 <= n /\ n < 2^(14 + 1)
      BY <2>15, <3>1, SMT
    <3>3. 14 \in 0..22
      BY SMT
    <3> QED
      BY <3>2, <3>3, Zenon
  <2>16. CASE 32768 <= n /\ n < 65536
    <3>1. 2^15 = 32768 /\ 2^(15 + 1) = 65536
      BY SMT
    <3>2. 2^15 <= n /\ n < 2^(15 + 1)
      BY <2>16, <3>1, SMT
    <3>3. 15 \in 0..22
      BY SMT
    <3> QED
      BY <3>2, <3>3, Zenon
  <2>17. CASE 65536 <= n /\ n < 131072
    <3>1. 2^16 = 65536 /\ 2^(16 + 1) = 131072
      BY SMT
    <3>2. 2^16 <= n /\ n < 2^(16 + 1)
      BY <2>17, <3>1, SMT
    <3>3. 16 \in 0..22
      BY SMT
    <3> QED
      BY <3>2, <3>3, Zenon
  <2>18. CASE 131072 <= n /\ n < 262144
    <3>1. 2^17 = 131072 /\ 2^(17 + 1) = 262144
      BY SMT
    <3>2. 2^17 <= n /\ n < 2^(17 + 1)
      BY <2>18, <3>1, SMT
    <3>3. 17 \in 0..22
      BY SMT
    <3> QED
      BY <3>2, <3>3, Zenon
  <2>19. CASE 262144 <= n /\ n < 524288
    <3>1. 2^18 = 262144 /\ 2^(18 + 1) = 524288
      BY SMT
    <3>2. 2^18 <= n /\ n < 2^(18 + 1)
      BY <2>19, <3>1, SMT
    <3>3. 18 \in 0..22
      BY SMT
    <3> QED
      BY <3>2, <3>3, Zenon
  <2>20. CASE 524288 <= n /\ n < 1048576
    <3>1. 2^19 = 524288 /\ 2^(19 + 1) = 1048576
      BY SMT
    <3>2. 2^19 <= n /\ n < 2^(19 + 1)
      BY <2>20, <3>1, SMT
    <3>3. 19 \in 0..22
      BY SMT
    <3> QED
      BY <3>2, <3>3, Zenon
  <2>21. CASE 1048576 <= n /\ n < 2097152
    <3>1. 2^20 = 1048576 /\ 2^(20 + 1) = 2097152
      BY SMT
    <3>2. 2^20 <= n /\ n < 2^(20 + 1)
      BY <2>21, <3>1, SMT
    <3>3. 20 \in 0..22
      BY SMT
    <3> QED
      BY <3>2, <3>3, Zenon
  <2>22. CASE 2097152 <= n /\ n < 4194304
    <3>1. 2^21 = 2097152 /\ 2^(21 + 1) = 4194304
      BY SMT
    <3>2. 2^21 <= n /\ n < 2^(21 + 1)
      BY <2>22, <3>1, SMT
    <3>3. 21 \in 0..22
      BY SMT
    <3> QED
      BY <3>2, <3>3, Zenon
  <2> QED
    BY <2>1, <2>2, <2>3, <2>4, <2>5, <2>6, <2>7, <2>8, <2>9, <2>10, <2>11,
       <2>12, <2>13, <2>14, <2>15, <2>16, <2>17, <2>18, <2>19, <2>20, <2>21,
              <2>22, SMT DEF Fitting, MAXIMUM_RATE
<1> DEFINE p == Passes(n)
<1>2. p \in 0..22 /\ 2^p <= n /\ n < 2^(p + 1)
  BY <1>1, Zenon DEF Passes
<1> HIDE DEF p
<1>3. 2^p \in PowersUpTo22 /\ 2^(p + 1) = 2 * 2^p
  BY <1>2, PowersAre
<1> QED
  BY <1>2, <1>3, Zenon DEF p

(* The last number of hops that the loop tries.                            *)
LastTry == 1499

LEMMA TriesAre ==
    Tries \subseteq Nat \ {0} /\ LastTry \in Tries /\ (\A i \in Tries : i # 1
        => i - 1 \in Tries)
BY SMT DEF Tries, LastTry

(* The number of hops is the least with which a hop fits, or 0 if none     *)
(* does (rtl_power.c:461-468).                                             *)
LEMMA LeastHops ==
    ASSUME NEW w \in Nat, NEW c \in 0..3
    PROVE  /\ HopCount(w, c) = 0 \/ HopCount(w, c) \in Tries
           /\ HopCount(w, c) # 0
              => Fitting(Uncropped(w \div HopCount(w, c), c))
           /\ \A i \in Tries : (HopCount(w, c) = 0 \/ i < HopCount(w, c))
              => ~Fitting(Uncropped(w \div i, c))
<1> DEFINE E == Enough(w, c)  k == HopCount(w, c)
<1>1. \A i : i \in E <=> i \in Tries /\ Fitting(Uncropped(w \div i, c))
  BY DEF Enough, Fitting
<1>2. E \subseteq Tries
  BY <1>1
<1>3. Tries \subseteq Nat \ {0}
  BY TriesAre
<1>4. k = IF E = {} THEN 0 ELSE Min(E)
  BY DEF HopCount
<1>5. CASE E = {}
  <2>1. k = 0
    BY <1>4, <1>5
  <2> QED
    BY <1>1, <1>5, <2>1, SMT
<1>6. CASE E # {}
  <2>1. E \subseteq Nat
    BY <1>2, <1>3
  <2>2. \E y \in E : \A z \in E : y <= z
    BY <1>6, <2>1, LeastNatural
  <2>3. k = CHOOSE y \in E : \A z \in E : y <= z
    BY <1>4, <1>6 DEF Min
  <2> HIDE DEF E, k
  <2>4. k \in E /\ \A z \in E : k <= z
    BY <2>2, <2>3
  <2>5. k \in Tries /\ Fitting(Uncropped(w \div k, c))
    BY <1>1, <1>3, <2>4
  <2>6. ASSUME NEW i \in Tries, k = 0 \/ i < k
                 PROVE ~Fitting(Uncropped(w \div i, c))
    <3>1. i < k
      BY <1>3, <2>5, <2>6
    <3>2. i \in Nat /\ ~(k <= i)
      BY <1>3, <2>5, <3>1, SMT
    <3>3. i \notin E
      BY <2>4, <3>2
    <3> QED
      BY <1>1, <3>3
  <2> QED
    BY <2>5, <2>6, Zenon DEF k
<1> QED
  BY <1>5, <1>6

(* What a hop sees, and the bandwidth that leaves it room to crop.         *)
PSeen(w, c) == HopWidth(w, HopCount(w, c))
PBw(w, c) == Uncropped(PSeen(w, c), c)

(* A hop sees its share of the range; it is narrow only if it is the only  *)
(* one, since with fewer hops it did not fit.                              *)
LEMMA HopsSee ==
    ASSUME NEW w \in Nat \ {0}, NEW c \in 0..3, ~ConversionOverflows(w, c)
    PROVE  /\ PSeen(w, c) \in Nat /\ Uncrops(PBw(w, c), PSeen(w, c), 4 - c)
           /\ HopCount(w, c) # 0 => Fitting(PBw(w, c)) /\ PSeen(w, c)
              = w \div HopCount(w, c)
           /\ Narrow(PBw(w, c)) => HopCount(w, c) = 1 /\ PSeen(w, c) = w
<1> DEFINE k == HopCount(w, c)  d == IF k = 0 THEN LastTry ELSE k  n ==
      PSeen(w, c)  u == PBw(w, c)
<1>0. Tries \subseteq Nat \ {0} /\ LastTry \in Tries
        /\ (\A i \in Tries : i # 1 => i - 1 \in Tries)
  BY TriesAre
<1>1. /\ k = 0 \/ k \in Tries
      /\ k # 0 => Fitting(Uncropped(w \div k, c))
      /\ \A i \in Tries : (k = 0 \/ i < k) => ~Fitting(Uncropped(w \div i, c))
  BY LeastHops, Zenon
<1>2. n = w \div d /\ u = Uncropped(n, c)
  BY DEF PSeen, PBw, HopWidth, LastTry
<1> HIDE DEF k, n, u
<1>3. d \in Nat \ {0} /\ d \in Tries
  BY <1>0, <1>1
<1>4. k # 0 => n = w \div k
  BY <1>2
<1>5. k = 0 => d = LastTry
  OBVIOUS
<1>6. k # 0 => d = k
  OBVIOUS
<1> HIDE DEF d
<1>7. \A y \in Tries : w \div y \in Nat /\ w \div y <= w
  <2> TAKE y \in Tries
  <2>1. y \in Nat \ {0}
    BY <1>0
  <2> DEFINE q == w \div y
  <2>2. w = y * q + (w % y) /\ w % y \in 0..(y - 1) /\ q \in Nat
    BY <2>1, DivModDef
  <2> HIDE DEF q
  <2>3. y * q >= q
    BY <2>1, <2>2, SMT
  <2>4. y * q \in Nat
    BY <2>1, <2>2, SMT
  <2>5. q <= w
    BY <2>2, <2>3, <2>4, SMT
  <2> QED
    BY <2>2, <2>5 DEF q
<1>8. \A y \in Tries : Uncrops(Uncropped(w \div y, c), w \div y, 4 - c)
  <2> TAKE y \in Tries
  <2>1. w \div y \in Nat /\ w \div y <= w
    BY <1>7
  <2>2. ~ConversionOverflows(w \div y, c)
    BY <2>1, NarrowerFits
  <2> QED
    BY <2>1, <2>2, UncroppedIs
<1>9. n \in Nat /\ Uncrops(u, n, 4 - c)
  BY <1>2, <1>3, <1>7, <1>8
<1>10. k # 0 => Fitting(u)
  BY <1>1, <1>2, <1>4
<1>11. ASSUME Narrow(u) PROVE k = 1 /\ n = w
  <2>1. u \in Nat
    BY <1>9 DEF Uncrops
  <2>2. Fitting(u)
    BY <1>11, <2>1, SMT DEF Narrow, Fitting, MINIMUM_RATE, MAXIMUM_RATE
  <2>4. k # 0
    BY <1>0, <1>1, <1>2, <1>5, <2>2
  <2>5. k = 1
    <3> SUFFICES ASSUME k # 1 PROVE FALSE
      OBVIOUS
    <3> DEFINE i == k - 1
    <3>0. k \in Tries /\ k \in Nat \ {0}
      BY <1>0, <1>1, <2>4
    <3>1. i \in Nat \ {0} /\ i \in Tries /\ i < k /\ i + 1 = k
      BY <1>0, <3>0
    <3> HIDE DEF i
    <3>2. ~Fitting(Uncropped(w \div i, c))
      BY <1>1, <3>1
    <3>3. Uncrops(Uncropped(w \div i, c), w \div i, 4 - c) /\ w \div i \in Nat
      BY <1>7, <1>8, <3>1
    <3>4. 2 * (w \div k) + 1 >= w \div i
      BY <3>1, HalfAgain
    <3>5. 4 - c \in 1..4
      BY SMT
    <3>6. 2 * n + 1 >= w \div i
      BY <1>4, <2>4, <3>4
    <3>7. ~Narrow(u)
      BY <1>9, <3>2, <3>3, <3>5, <3>6, NotNarrow
    <3> QED
      BY <1>11, <3>7
  <2>6. w \div 1 = w
    BY SMT
  <2>7. n = w
    BY <1>4, <2>5, <2>6
  <2> QED
    BY <2>5, <2>7
<1> QED
  BY <1>4, <1>9, <1>10, <1>11, Zenon DEF k, n, u

(* The bandwidth is not less than what the hop sees.                       *)
LEMMA NotLess ==
    ASSUME NEW n \in Nat, NEW u, NEW m \in 1..4, Uncrops(u, n, m)
    PROVE  u \in Nat /\ u >= n
<1>1. m = 1 => u \in Nat /\ u >= n
  BY SMT DEF Uncrops
<1>2. m = 2 => u \in Nat /\ u >= n
  BY SMT DEF Uncrops
<1>3. m = 3 => u \in Nat /\ u >= n
  BY SMT DEF Uncrops
<1>4. m = 4 => u \in Nat /\ u >= n
  BY SMT DEF Uncrops
<1> QED
  BY <1>1, <1>2, <1>3, <1>4

(* The factor of a narrow hop is at least two and brings the rate just     *)
(* under MAXIMUM_RATE (rtl_power.c:470-474).                               *)
LEMMA Factor ==
    ASSUME NEW bw \in Nat \ {0}, Narrow(bw)
    PROVE  /\ Downsample(bw) \in Nat /\ Downsample(bw) > 1
              /\ Downsample(bw) <= MAXIMUM_RATE
           /\ bw * Downsample(bw) \in Nat
           /\ bw * Downsample(bw) <= MAXIMUM_RATE
           /\ bw * Downsample(bw) + bw > MAXIMUM_RATE
<1> DEFINE M == MAXIMUM_RATE  d == M \div bw
<1>0. M \in Nat
  BY SMT DEF MAXIMUM_RATE
<1>00. Narrow(bw) => 2 * bw <= M
  BY SMT DEF MAXIMUM_RATE, MINIMUM_RATE, Narrow
<1>01. 2 * bw <= M
  BY <1>00
<1>a. Downsample(bw) = d
  BY SMT DEF Downsample
<1> HIDE DEF M
<1>1. M = bw * d + (M % bw) /\ M % bw \in 0..(bw - 1) /\ d \in Nat
  BY <1>0, DivModDef
<1> DEFINE r == M % bw  p == bw * d
<1>2. r \in 0..(bw - 1) /\ M = p + r
  BY <1>1
<1>3. p \in Nat
  BY <1>1, SMT
<1>4. p >= d
  <2> HIDE DEF d
  <2>1. (bw - 1) * d >= 0 /\ (bw - 1) * d \in Int
    BY <1>1, SMT
  <2>2. bw * d = (bw - 1) * d + d
    BY <1>1, SMT
  <2> QED
    BY <1>1, <2>1, <2>2, SMT
<1>5. d <= 1 => p <= bw
  BY <1>1, SMT
<1> HIDE DEF r, p, d
<1>6. d \in Nat /\ d > 1 /\ d <= M /\ p \in Nat /\ p <= M /\ p + bw > M
  BY <1>0, <1>01, <1>1, <1>2, <1>3, <1>4, <1>5, SMT
<1> QED
  BY <1>6, <1>a, Zenon DEF p, M

(* With the boxcar filter: the rate is supported, and dividing it by the   *)
(* factor gives the bandwidth back.                                        *)
LEMMA Boxcar ==
    ASSUME NEW bw \in Nat \ {0}, Narrow(bw)
    PROVE  /\ RateSupported(bw * Downsample(bw))
           /\ (bw * Downsample(bw)) \div Downsample(bw) = bw
<1> DEFINE d == Downsample(bw)  p == bw * d
<1>1. /\ d \in Nat \ {0} /\ p \in Nat /\ p <= MAXIMUM_RATE
         /\ p + bw > MAXIMUM_RATE
  BY Factor
<1> HIDE DEF d
<1>2. p \div d = bw
  <2> DEFINE q == p \div d
  <2>1. p = d * q + (p % d) /\ p % d \in 0..(d - 1) /\ q \in Nat
    BY <1>1, DivModDef
  <2> DEFINE r == p % d
  <2>2. r \in 0..(d - 1) /\ p = d * q + r
    BY <2>1
  <2> HIDE DEF q, r
  <2>3. bw < q => d * q >= bw * d + d
    <3>1. bw < q => d * q >= d * (bw + 1)
      BY <1>1, <2>1, SMT
    <3> QED
      BY <1>1, <2>1, <3>1, SMT
  <2>4. bw > q => bw * d >= d * q + d
    <3>1. bw > q => d * bw >= d * (q + 1)
      BY <1>1, <2>1, SMT
    <3> QED
      BY <1>1, <2>1, <3>1, SMT
  <2> DEFINE a == d * q
  <2>5. a \in Nat /\ p = a + r /\ (bw < q => a >= p + d)
          /\ (bw > q => p >= a + d)
    BY <1>1, <2>1, <2>2, <2>3, <2>4, SMT
  <2> HIDE DEF a, p
  <2>6. bw = q
    BY <1>1, <2>1, <2>2, <2>5, SMT
  <2> QED
    BY <2>6 DEF q
<1> HIDE DEF p
<1>3. RateSupported(p)
  BY <1>1, SMT DEF RateSupported, Narrow, MINIMUM_RATE, MAXIMUM_RATE
<1> QED
  BY <1>2, <1>3, Zenon DEF p, d

(* With a power of two the rate is computed from the hop again, but        *)
(* dividing it gives the same bandwidth.                                   *)
LEMMA ScaledUncrop ==
    ASSUME NEW w \in Nat, NEW bw, NEW m \in 1..4, Uncrops(bw, w, m),
           NEW ds \in Nat \ {0}, NEW used, Uncrops(used, w * ds, m)
    PROVE  /\ used \in Nat /\ bw * ds \in Nat /\ bw * ds <= used
              /\ used < bw * ds + ds
           /\ used \div ds = bw
<1> DEFINE p == w * ds  q == bw * ds
<1>1. bw \in Nat /\ used \in Nat
  BY DEF Uncrops
<1>2. p \in Nat /\ q \in Nat
  BY <1>1, SMT
<1>3. m * bw <= 4 * w /\ 4 * w + 1 <= m * bw + m /\ m * used <= 4 * p
        /\ 4 * p < m * used + m
  BY <1>1, <1>2, SMT DEF Uncrops
<1>4. (m * bw) * ds <= (4 * w) * ds /\ (4 * w + 1) * ds <= (m * bw + m) * ds
  BY <1>1, <1>3, SMT
<1>5. (m * bw) * ds = m * q /\ (4 * w) * ds = 4 * p /\ (4 * w + 1) * ds
        = 4 * p + ds
        /\ (m * bw + m) * ds = m * q + m * ds
  BY <1>1, SMT
<1> HIDE DEF p, q
<1>6. m * q <= 4 * p /\ 4 * p + ds <= m * q + m * ds
  BY <1>4, <1>5
<1>7. m = 1 => q <= used /\ used < q + ds
  BY <1>1, <1>2, <1>3, <1>6, SMT
<1>8. m = 2 => q <= used /\ used < q + ds
  BY <1>1, <1>2, <1>3, <1>6, SMT
<1>9. m = 3 => q <= used /\ used < q + ds
  BY <1>1, <1>2, <1>3, <1>6, SMT
<1>10. m = 4 => q <= used /\ used < q + ds
  BY <1>1, <1>2, <1>3, <1>6, SMT
<1>11. q <= used /\ used < q + ds
  BY <1>7, <1>8, <1>9, <1>10
<1>12. used \div ds = bw
  <2> DEFINE k == used \div ds  r == used % ds
  <2>1. used = ds * k + r /\ r \in 0..(ds - 1) /\ k \in Nat
    BY <1>1, DivModDef
  <2> HIDE DEF k, r
  <2>2. bw < k => ds * k >= bw * ds + ds
    <3>1. bw < k => ds * k >= ds * (bw + 1)
      BY <1>1, <2>1, SMT
    <3> QED
      BY <1>1, <2>1, <3>1, SMT
  <2>3. bw > k => bw * ds >= ds * k + ds
    <3>1. bw > k => ds * bw >= ds * (k + 1)
      BY <1>1, <2>1, SMT
    <3> QED
      BY <1>1, <2>1, <3>1, SMT
  <2> DEFINE a == ds * k
  <2>4. a \in Nat /\ used = a + r /\ (bw < k => a >= q + ds)
          /\ (bw > k => q >= a + ds)
    BY <1>1, <2>1, <2>2, <2>3, SMT DEF q
  <2> HIDE DEF a
  <2>5. bw = k
    BY <1>1, <1>2, <1>11, <2>1, <2>4, SMT
  <2> QED
    BY <2>5 DEF k
<1> QED
  BY <1>1, <1>2, <1>11, <1>12 DEF q

(* A crop of one quarter rounds; for hops of up to 6 Hz the rate is looked *)
(* up, power by power.                                                     *)
LEMMA ThirdsFit ==
    ASSUME NEW w \in Nat \ {0}, w < 7, NEW bw \in Nat, Uncrops(bw, w, 3),
           NEW ds \in PowersUpTo22, bw * ds <= MAXIMUM_RATE,
           NEW used \in Nat, 3 * used <= 4 * (w * ds)
    PROVE  used <= 3200000
<1>0. ds \in Nat
  BY SMT DEF PowersUpTo22
<1>1. CASE w = 1
  <2>1. bw = 1
    BY <1>1, SMT DEF Uncrops
  <2>2. ds <= MAXIMUM_RATE /\ 3 * used <= 4 * ds
    BY <1>0, <1>1, <2>1
  <2>3. ds <= 2097152
    BY <2>2, SMT DEF PowersUpTo22, MAXIMUM_RATE
  <2> QED
    BY <1>0, <2>2, <2>3, SMT
<1>2. CASE w = 2
  <2>1. bw = 2
    BY <1>2, SMT DEF Uncrops
  <2>2. 2 * ds <= MAXIMUM_RATE /\ 3 * used <= 8 * ds
    BY <1>0, <1>2, <2>1, SMT
  <2>3. ds <= 1048576
    BY <2>2, SMT DEF PowersUpTo22, MAXIMUM_RATE
  <2> QED
    BY <1>0, <2>2, <2>3, SMT
<1>3. CASE w = 3
  <2>1. bw = 4
    BY <1>3, SMT DEF Uncrops
  <2>2. 4 * ds <= MAXIMUM_RATE /\ 3 * used <= 12 * ds
    BY <1>0, <1>3, <2>1, SMT
  <2> QED
    BY <1>0, <2>2, SMT DEF MAXIMUM_RATE
<1>4. CASE w = 4
  <2>1. bw = 5
    BY <1>4, SMT DEF Uncrops
  <2>2. 5 * ds <= MAXIMUM_RATE /\ 3 * used <= 16 * ds
    BY <1>0, <1>4, <2>1, SMT
  <2> QED
    BY <1>0, <2>2, SMT DEF MAXIMUM_RATE
<1>5. CASE w = 5
  <2>1. bw = 6
    BY <1>5, SMT DEF Uncrops
  <2>2. 6 * ds <= MAXIMUM_RATE /\ 3 * used <= 20 * ds
    BY <1>0, <1>5, <2>1, SMT
  <2> QED
    BY <1>0, <2>2, SMT DEF MAXIMUM_RATE
<1>6. CASE w = 6
  <2>1. bw = 8
    BY <1>6, SMT DEF Uncrops
  <2>2. 8 * ds <= MAXIMUM_RATE /\ 3 * used <= 24 * ds
    BY <1>0, <1>6, <2>1, SMT
  <2> QED
    BY <1>0, <2>2, SMT DEF MAXIMUM_RATE
<1>7. w = 1 \/ w = 2 \/ w = 3 \/ w = 4 \/ w = 5 \/ w = 6
  BY SMT
<1> QED
  BY <1>1, <1>2, <1>3, <1>4, <1>5, <1>6, <1>7, SMT

(* So the rate is one the library supports.                                *)
LEMMA RateFitsScaled ==
    ASSUME NEW w \in Nat \ {0}, NEW m \in 1..4, NEW bw \in Nat,
           Uncrops(bw, w, m),
           NEW ds \in PowersUpTo22, bw * ds <= MAXIMUM_RATE,
           NEW used, Uncrops(used, w * ds, m)
    PROVE  used <= 3200000
<1>0. ds \in Nat \ {0}
  BY SMT DEF PowersUpTo22
<1> DEFINE q == bw * ds  p == w * ds
<1>1. used \in Nat /\ q \in Nat /\ q <= used /\ used < q + ds
  BY <1>0, ScaledUncrop
<1>2. q <= MAXIMUM_RATE
  OBVIOUS
<1>3. p \in Nat
  BY <1>0, SMT
<1>4. m * used <= 4 * p
  BY DEF Uncrops
<1>5. CASE bw >= 7
  <2>1. (bw - 7) * ds >= 0 /\ (bw - 7) * ds \in Int
    BY <1>0, <1>5, SMT
  <2>2. q = (bw - 7) * ds + 7 * ds
    BY <1>0, SMT
  <2>3. q >= 7 * ds
    BY <1>0, <1>1, <2>1, <2>2, SMT
  <2> HIDE DEF q, p
  <2> QED
    BY <1>0, <1>1, <1>2, <2>3, SMT DEF MAXIMUM_RATE
<1>6. CASE bw < 7
  <2>1. bw >= w
    BY NotLess
  <2>2. w < 7
    BY <1>6, <2>1, SMT
  <2>3. m = 3 => used <= 3200000
    <3>1. ASSUME m = 3 PROVE 3 * used <= 4 * (w * ds) /\ Uncrops(bw, w, 3)
      BY <1>4, <3>1
    <3> QED
      BY <1>1, <2>2, <3>1, ThirdsFit, SMT
  <2>4. m # 3 => 4 * w = m * bw
    <3>1. m = 1 => 4 * w = m * bw
      BY SMT DEF Uncrops
    <3>2. m = 2 => 4 * w = m * bw
      BY SMT DEF Uncrops
    <3>3. m = 4 => 4 * w = m * bw
      BY SMT DEF Uncrops
    <3> QED
      BY <3>1, <3>2, <3>3
  <2>5. m # 3 => 4 * p = m * q
    <3>1. (4 * w) * ds = 4 * p /\ (m * bw) * ds = m * q
      BY <1>0, SMT
    <3> QED
      BY <2>4, <3>1
  <2>6. m # 3 => used <= q
    <3>1. m # 3 => m * used <= m * q
      BY <1>4, <2>5
    <3> HIDE DEF q, p
    <3>2. m = 1 => used <= q
      BY <1>1, <3>1, SMT
    <3>3. m = 2 => used <= q
      BY <1>1, <3>1, SMT
    <3>4. m = 4 => used <= q
      BY <1>1, <3>1, SMT
    <3> QED
      BY <3>2, <3>3, <3>4
  <2>7. m # 3 => used <= 3200000
    BY <1>1, <1>2, <2>6, SMT DEF MAXIMUM_RATE
  <2> QED
    BY <2>3, <2>7, SMT
<1> QED
  BY <1>5, <1>6, SMT

(* The rate for the recursive filter is supported, and dividing it gives   *)
(* the bandwidth back.                                                     *)
LEMMA HalvedRate ==
    ASSUME NEW w \in Nat \ {0}, NEW c \in 0..3, NEW bw \in Nat \ {0},
           Uncrops(bw, w, 4 - c), Narrow(bw),
           NEW ds, ds = 2^Passes(Downsample(bw)), NEW used, used
               = Uncropped(w * ds, c)
    PROVE  /\ ds \in Nat /\ ds > 1 /\ used \in Nat
           /\ RateSupported(used) /\ used \div ds = bw
<1> DEFINE d0 == Downsample(bw)  q == bw * ds  p == w * ds  m == 4 - c
<1>1. /\ d0 \in Nat /\ d0 > 1 /\ Fitting(d0) /\ bw * d0 \in Nat
      /\ bw * d0 <= MAXIMUM_RATE /\ bw * d0 + bw > MAXIMUM_RATE
  BY Factor, SMT DEF Fitting
<1>2. ds \in PowersUpTo22 /\ ds <= d0 /\ d0 < 2 * ds
  BY <1>1, PassesOf, SMT
<1>3. ds \in Nat \ {0}
  BY <1>2, SMT DEF PowersUpTo22
<1> HIDE DEF d0
<1>4. ds > 1
  BY <1>1, <1>2, <1>3, SMT
<1>5. q \in Nat /\ p \in Nat
  BY <1>3, SMT
<1>6. q <= MAXIMUM_RATE
  <2>1. (d0 - ds) * bw >= 0 /\ (d0 - ds) * bw \in Int
    BY <1>1, <1>2, <1>3, SMT
  <2>2. bw * d0 = (d0 - ds) * bw + q
    BY <1>1, <1>3, SMT
  <2> HIDE DEF q
  <2>3. q <= bw * d0
    BY <1>1, <1>5, <2>1, <2>2, SMT
  <2> DEFINE a == bw * d0
  <2>4. a \in Nat /\ q <= a /\ a <= MAXIMUM_RATE
    BY <1>1, <2>3
  <2> HIDE DEF a
  <2> QED
    BY <1>5, <2>4, SMT DEF MAXIMUM_RATE
<1>7. 2 * q > MAXIMUM_RATE
  <2>1. (2 * ds - d0 - 1) * bw >= 0 /\ (2 * ds - d0 - 1) * bw \in Int
    BY <1>1, <1>2, <1>3, SMT
  <2>2. (2 * ds - d0 - 1) * bw = 2 * q - bw * d0 - bw
    BY <1>1, <1>3, SMT
  <2> DEFINE a == bw * d0
  <2>3. a \in Nat /\ 2 * q >= a + bw
    BY <1>1, <1>5, <2>1, <2>2, SMT
  <2>4. a + bw > MAXIMUM_RATE
    BY <1>1
  <2> HIDE DEF a, q
  <2> QED
    BY <1>5, <2>3, <2>4, SMT DEF MAXIMUM_RATE
<1>8. p <= q
  <2>1. bw >= w
    <3>1. m \in 1..4
      BY SMT
    <3> QED
      BY <3>1, NotLess
  <2>2. (bw - w) * ds >= 0 /\ (bw - w) * ds \in Int
    BY <1>3, <2>1, SMT
  <2>3. q = (bw - w) * ds + p
    BY <1>3, SMT
  <2> HIDE DEF q, p
  <2> QED
    BY <1>5, <2>2, <2>3, SMT
<1>9. ~ConversionOverflows(p, c)
  <2> HIDE DEF p, q
  <2>1. p <= 3200000
    BY <1>5, <1>6, <1>8, SMT DEF MAXIMUM_RATE
  <2> QED
    BY <1>5, <2>1, SmallFits, SMT
<1>10. Uncrops(used, p, m)
  BY <1>5, <1>9, UncroppedIs
<1>11. m \in 1..4
  BY SMT
<1> HIDE DEF m
<1>12. used \in Nat /\ q <= used /\ used \div ds = bw
  BY <1>3, <1>10, <1>11, ScaledUncrop DEF m
<1>13. used <= 3200000
  BY <1>2, <1>6, <1>10, <1>11, RateFitsScaled, SMT DEF m
<1> HIDE DEF q
<1>14. RateSupported(used)
  BY <1>5, <1>7, <1>12, <1>13, SMT DEF RateSupported, MAXIMUM_RATE
<1> QED
  BY <1>3, <1>4, <1>12, <1>14

(* How wide bins are.                                                      *)
BinWidth(used, ds, e) == CeilDiv(CeilDiv(used, ds), 2^e)

LEMMA CeilIsInt ==
    ASSUME NEW n \in Nat, NEW d \in Nat \ {0}
    PROVE  CeilDiv(n, d) \in Nat
<1> DEFINE a == n + d - 1
<1>1. a \in Nat
  OBVIOUS
<1>2. CeilDiv(n, d) = a \div d
  BY DEF CeilDiv
<1> HIDE DEF a
<1>3. a \div d \in Nat
  BY <1>1, DivModDef
<1> QED
  BY <1>2, <1>3

LEMMA BinWidthIsInt ==
    ASSUME NEW used \in Nat, NEW ds \in Nat \ {0}, NEW e \in 0..22
    PROVE  BinWidth(used, ds, e) \in Nat
<1>1. CeilDiv(used, ds) \in Nat
  BY CeilIsInt
<1>2. 2^e \in PowersUpTo22
  BY PowersAre
<1>3. 2^e \in Nat \ {0}
  BY <1>2, SMT DEF PowersUpTo22
<1> QED
  BY <1>1, <1>3, CeilIsInt DEF BinWidth

(* bin_e is the least exponent whose bins are not too wide, or 21          *)
(* (rtl_power.c:480-487).                                                  *)
LEMMA FewestBins ==
    ASSUME NEW used \in Nat, NEW ds \in Nat \ {0}, NEW s \in Nat
    PROVE  /\ BinE(used, ds, s) \in 1..21
           /\ BinE(used, ds, s) = 21
              \/ ~(BinWidth(used, ds, BinE(used, ds, s)) > s)
           /\ BinE(used, ds, s) = 1
              \/ BinWidth(used, ds, BinE(used, ds, s) - 1) > s
<1> DEFINE fits == {i \in 1..21 : ds > 0 /\ CeilDiv(CeilDiv(used, ds),
      2^i) <= s}
           e == BinE(used, ds, s)
<1>0. \A i \in 1..21 : BinWidth(used, ds, i) \in Nat
  <2> TAKE i \in 1..21
  <2>1. i \in 0..22
    BY SMT
  <2> QED
    BY <2>1, BinWidthIsInt
<1>1. \A i : i \in fits <=> i \in 1..21 /\ BinWidth(used, ds, i) <= s
  BY DEF BinWidth
<1>2. e = IF fits = {} THEN 21 ELSE Min(fits)
  BY DEF BinE
<1> HIDE DEF fits, e
<1>3. fits \subseteq Nat
  BY <1>1
<1>4. CASE fits = {}
  <2>1. e = 21
    BY <1>2, <1>4
  <2>2. 20 \notin fits
    BY <1>4
  <2>3. BinWidth(used, ds, 20) > s
    BY <1>0, <1>1, <2>2, SMT
  <2>4. e - 1 = 20 /\ e \in 1..21
    BY <2>1
  <2>5. BinWidth(used, ds, e - 1) > s
    BY <2>3, <2>4
  <2> QED
    BY <2>1, <2>4, <2>5 DEF e
<1>5. CASE fits # {}
  <2>1. \E y \in fits : \A z \in fits : y <= z
    BY <1>3, <1>5, LeastNatural
  <2>2. e = CHOOSE y \in fits : \A z \in fits : y <= z
    BY <1>2, <1>5 DEF Min
  <2>3. e \in fits /\ \A z \in fits : e <= z
    BY <2>1, <2>2
  <2>4. e \in 1..21 /\ BinWidth(used, ds, e) <= s
    BY <1>1, <2>3
  <2>5. ~(BinWidth(used, ds, e) > s)
    BY <1>0, <2>4
  <2>6. e = 1 \/ BinWidth(used, ds, e - 1) > s
    <3> SUFFICES ASSUME e # 1 PROVE BinWidth(used, ds, e - 1) > s
      OBVIOUS
    <3> DEFINE i == e - 1
    <3>1. i \in 1..21 /\ ~(e <= i)
      BY <2>4
    <3> HIDE DEF i
    <3>2. i \notin fits
      BY <2>3, <3>1
    <3>3. BinWidth(used, ds, i) > s
      BY <1>0, <1>1, <3>1, <3>2
    <3> QED
      BY <3>3 DEF i
  <2> QED
    BY <2>4, <2>5, <2>6, Zenon DEF e
<1> QED
  BY <1>4, <1>5

(* The smallest buffer is a whole number of FFTs that are smaller.         *)
LEMMA PartOfBuffer ==
    ASSUME NEW B \in PowersUpTo22, B < DEFAULT_BUF_LENGTH
    PROVE  \E j \in Nat : DEFAULT_BUF_LENGTH = B * j
<1>0. B = 1 \/ B = 2 \/ B = 4 \/ B = 8 \/ B = 16 \/ B = 32 \/ B = 64 \/ B
        = 128 \/ B = 256 \/ B = 512 \/ B = 1024 \/ B = 2048 \/ B = 4096 \/ B
            = 8192
  BY SMT DEF PowersUpTo22, DEFAULT_BUF_LENGTH
<1>1. DEFAULT_BUF_LENGTH = B * (DEFAULT_BUF_LENGTH \div B)
        /\ DEFAULT_BUF_LENGTH \div B \in Nat
  <2>1. CASE B = 1
    BY <2>1, SMT DEF DEFAULT_BUF_LENGTH
  <2>2. CASE B = 2
    BY <2>2, SMT DEF DEFAULT_BUF_LENGTH
  <2>3. CASE B = 4
    BY <2>3, SMT DEF DEFAULT_BUF_LENGTH
  <2>4. CASE B = 8
    BY <2>4, SMT DEF DEFAULT_BUF_LENGTH
  <2>5. CASE B = 16
    BY <2>5, SMT DEF DEFAULT_BUF_LENGTH
  <2>6. CASE B = 32
    BY <2>6, SMT DEF DEFAULT_BUF_LENGTH
  <2>7. CASE B = 64
    BY <2>7, SMT DEF DEFAULT_BUF_LENGTH
  <2>8. CASE B = 128
    BY <2>8, SMT DEF DEFAULT_BUF_LENGTH
  <2>9. CASE B = 256
    BY <2>9, SMT DEF DEFAULT_BUF_LENGTH
  <2>10. CASE B = 512
    BY <2>10, SMT DEF DEFAULT_BUF_LENGTH
  <2>11. CASE B = 1024
    BY <2>11, SMT DEF DEFAULT_BUF_LENGTH
  <2>12. CASE B = 2048
    BY <2>12, SMT DEF DEFAULT_BUF_LENGTH
  <2>13. CASE B = 4096
    BY <2>13, SMT DEF DEFAULT_BUF_LENGTH
  <2>14. CASE B = 8192
    BY <2>14, SMT DEF DEFAULT_BUF_LENGTH
  <2> QED
    BY <1>0, <2>1, <2>2, <2>3, <2>4, <2>5, <2>6, <2>7, <2>8, <2>9, <2>10,
       <2>11, <2>12, <2>13, <2>14, SMT
<1> QED
  BY <1>1, Zenon

(* The buffer for FFTs of B bytes.                                         *)
BufferFor(B, ds) == IF B * ds < DEFAULT_BUF_LENGTH THEN DEFAULT_BUF_LENGTH
    ELSE B * ds

(* Every FFT that scanner starts ends inside the buffer                    *)
(* (rtl_power.c:500-503, 694).                                             *)
LEMMA FftsInside ==
    ASSUME NEW B \in PowersUpTo22, NEW ds \in Nat \ {0}, NEW k \in Nat,
           k <= ((BufferFor(B, ds) \div ds) - 1) \div B
    PROVE  BufferFor(B, ds) >= B * ds /\ k * B + B <= BufferFor(B, ds)
<1> DEFINE L == BufferFor(B, ds)  n == L \div ds  a == n - 1  h == a \div B
<1>0. B \in Nat \ {0} /\ DEFAULT_BUF_LENGTH \in Nat
  BY SMT DEF PowersUpTo22, DEFAULT_BUF_LENGTH
<1>1. B * ds \in Nat
  BY <1>0, SMT
<1>2. L \in Nat /\ L >= B * ds
  BY <1>0, <1>1, SMT DEF BufferFor
<1>3. B * ds >= B
  <2>1. B * (ds - 1) >= 0 /\ B * (ds - 1) \in Int /\ B * ds = B * (ds - 1) + B
    BY <1>0, SMT
  <2> QED
    BY <1>0, <2>1, SMT
<1> HIDE DEF L
<1>4. L = ds * n + (L % ds) /\ L % ds \in 0..(ds - 1) /\ n \in Nat
  BY <1>2, DivModDef
<1> HIDE DEF n
<1>5. a \in Nat
  <2>1. B * ds >= ds
    <3>1. (B - 1) * ds >= 0 /\ (B - 1) * ds \in Int /\ B * ds
            = (B - 1) * ds + ds
      BY <1>0, SMT
    <3> QED
      BY <1>0, <3>1, SMT
  <2>2. L >= ds
    <3> DEFINE p == B * ds
    <3>1. p \in Nat /\ p >= ds /\ L >= p
      BY <1>1, <1>2, <2>1
    <3> HIDE DEF p
    <3> QED
      BY <1>2, <3>1, SMT
  <2>3. n = 0 => L < ds
    <3> DEFINE r == L % ds
    <3>1. n = 0 => ds * n = 0
      BY <1>4
    <3>2. n = 0 => L = 0 + r /\ r \in 0..(ds - 1)
      BY <1>4, <3>1
    <3> HIDE DEF r
    <3> QED
      BY <1>2, <3>2, SMT
  <2>4. n # 0
    BY <1>2, <2>2, <2>3, SMT
  <2>5. n \in Nat
    BY <1>4
  <2> QED
    BY <2>4, <2>5
<1> HIDE DEF a
<1>6. a = B * h + (a % B) /\ a % B \in 0..(B - 1) /\ h \in Nat
  <2>1. B \in Nat \ {0}
    BY <1>0
  <2> QED
    BY <2>1, <1>5, DivModDef
<1>7. k <= h
  BY DEF h, a, n, L
<1> HIDE DEF h
<1>8. k * B <= a
  <2>1. B * (h - k) >= 0 /\ B * (h - k) \in Int /\ B * h
          = B * (h - k) + k * B /\ k * B \in Int
    BY <1>0, <1>6, <1>7, SMT
  <2> DEFINE p == B * h  r == B * (h - k)  t == k * B  g == a % B
  <2>2. a = p + g /\ g \in 0..(B - 1) /\ p = r + t /\ r >= 0 /\ r \in Int
          /\ t \in Int
    BY <1>6, <2>1
  <2> HIDE DEF p, r, t, g
  <2>3. t <= a
    BY <1>0, <2>2, SMT
  <2> QED
    BY <2>3 DEF t
<1>9. k * B < n /\ k * B \in Nat
  <2>1. k * B \in Nat
    BY <1>0, SMT
  <2>2. a = n - 1
    BY DEF a
  <2> DEFINE t == k * B
  <2>3. t \in Nat /\ t <= a
    BY <1>8, <2>1
  <2> HIDE DEF t
  <2>4. t < n
    BY <1>4, <2>2, <2>3, SMT
  <2> QED
    BY <2>1, <2>4 DEF t
<1>10. k * B + B <= L
  <2>1. CASE ds = 1
    <3>1. n = L
      BY <2>1, <1>2, SMT DEF n
    <3>2. \E j \in Nat : L = B * j
      <4>1. B * ds = B
        BY <1>0, <2>1, SMT
      <4>2. CASE B < DEFAULT_BUF_LENGTH
        BY <4>1, <4>2, PartOfBuffer DEF L, BufferFor
      <4>3. CASE ~(B < DEFAULT_BUF_LENGTH)
        <5>1. L = B
          BY <4>1, <4>3 DEF L, BufferFor
        <5>2. L = B * 1
          BY <1>0, <5>1
        <5> QED
          BY <5>2
      <4> QED
        BY <4>2, <4>3
    <3>3. PICK j \in Nat : L = B * j
      BY <3>2
    <3>4. k < j
      <4>1. k >= j => k * B >= B * j
        <5>1. k >= j => B * (k - j) >= 0 /\ B * (k - j) \in Int
          BY <1>0, SMT
        <5>2. k * B = B * (k - j) + B * j /\ k * B \in Int /\ B * j \in Int
          BY <1>0, SMT
        <5> QED
          BY <5>1, <5>2, SMT
      <4>2. k * B < B * j
        BY <1>9, <3>1, <3>3
      <4>3. k * B \in Int /\ B * j \in Int
        BY <1>0, SMT
      <4> QED
        BY <4>1, <4>2, <4>3, SMT
    <3>5. B * (j - k - 1) >= 0 /\ B * (j - k - 1) \in Int
      BY <1>0, <3>4, SMT
    <3>6. B * j = B * (j - k - 1) + (k * B + B)
      BY <1>0, SMT
    <3> DEFINE u == k * B + B  v == B * (j - k - 1)
    <3>7. L = v + u /\ v >= 0 /\ v \in Int /\ u \in Int
      BY <1>0, <1>9, <3>3, <3>5, <3>6
    <3> HIDE DEF u, v
    <3>8. u <= L
      BY <3>7, SMT
    <3> QED
      BY <3>8 DEF u
  <2>2. CASE ds # 1
    <3>1. 2 * n <= L
      <4>1. (ds - 2) * n >= 0 /\ (ds - 2) * n \in Int
        BY <1>4, <2>2, SMT
      <4>2. ds * n = (ds - 2) * n + 2 * n
        BY <1>4, SMT
      <4> DEFINE p == (ds - 2) * n  q == ds * n  r == L % ds
      <4>3. p >= 0 /\ p \in Int /\ q = p + 2 * n /\ L = q + r
              /\ r \in 0..(ds - 1)
        BY <1>4, <4>1, <4>2
      <4> HIDE DEF p, q, r
      <4> QED
        BY <1>2, <1>4, <4>3, SMT
    <3>2. 2 * B <= L
      <4>1. B * (ds - 2) >= 0 /\ B * (ds - 2) \in Int /\ B * ds
              = B * (ds - 2) + 2 * B
        BY <1>0, <2>2, SMT
      <4> DEFINE p == B * ds  r == B * (ds - 2)
      <4>2. r >= 0 /\ r \in Int /\ p = r + 2 * B /\ L >= p /\ p \in Int
        BY <1>1, <1>2, <4>1
      <4> HIDE DEF p, r
      <4> QED
        BY <1>0, <1>2, <4>2, SMT
    <3> DEFINE t == k * B
    <3>3. t \in Nat /\ t < n
      BY <1>9
    <3> HIDE DEF t
    <3>4. t + B <= L
      BY <1>0, <1>2, <1>4, <3>1, <3>2, <3>3, SMT
    <3> QED
      BY <3>4 DEF t
  <2> QED
    BY <2>1, <2>2
<1> QED
  BY <1>2, <1>10 DEF L

(* At most three eighths are cut from either end of an FFT.                *)
LEMMA PrintedInside ==
    ASSUME NEW N \in PowersUpTo22, NEW c \in 0..3, N = 1 => c = 0
    PROVE  (N * c) \div 8 <= N - 1 - (N * c) \div 8
<1>0. N \in Nat \ {0} /\ (N = 1 \/ N = 2 \/ N >= 4)
  BY SMT DEF PowersUpTo22
<1> HIDE DEF PowersUpTo22
<1>1. c = 0 => N * c = 0
  BY <1>0
<1>2. c = 1 => N * c = N
  BY <1>0
<1>3. c = 2 => N * c = 2 * N
  BY <1>0
<1>4. c = 3 => N * c = 3 * N
  BY <1>0
<1> DEFINE p == N * c
<1>5. p \in Nat /\ p <= 3 * N /\ (N = 1 => p = 0)
  BY <1>0, <1>1, <1>2, <1>3, <1>4, SMT
<1> HIDE DEF p
<1> DEFINE h == p \div 8
<1>6. h \in Nat /\ 8 * h <= p
  BY <1>5, SMT
<1> HIDE DEF h
<1>7. h <= N - 1 - h
  BY <1>0, <1>5, <1>6, SMT
<1> QED
  BY <1>7 DEF h, p

(* The parts of a plan by name.                                            *)
Giant(s) == s >= MINIMUM_RATE
PFactor(w, c) == HopFactor(PBw(w, c))
PDs(w, c, boxcar) == FactorTaken(PFactor(w, c), boxcar)
PUsed(w, c, boxcar) == HopRate(PSeen(w, c), c, PFactor(w, c), boxcar)
PE(w, s, c, boxcar) == IF Giant(s) THEN 0 ELSE BinE(PUsed(w, c, boxcar),
    PDs(w, c, boxcar), s)

(* They make it up.                                                        *)
LEMMA PlanIs ==
    ASSUME NEW w, NEW s, NEW c, NEW boxcar
    PROVE  LET plan == Plan(w, s, c, boxcar)
           IN  /\ plan.tune_count = IF Giant(s) THEN w \div s
                  ELSE IF Narrow(PBw(w, c)) THEN 1 ELSE HopCount(w, c)
               /\ plan.bw_seen = IF Giant(s) THEN s ELSE PSeen(w, c)
               /\ plan.rate = IF Giant(s) THEN s ELSE PUsed(w, c, boxcar)
               /\ plan.downsample = PDs(w, c, boxcar)
               /\ plan.bin_e = PE(w, s, c, boxcar)
               /\ plan.crop = IF Giant(s) THEN 0 ELSE c
               /\ plan.buf_len = BufferLength(PE(w, s, c, boxcar),
                  PDs(w, c, boxcar))
BY DEF Plan, PFactor, PDs, PUsed, Giant, PE, PSeen, PBw, Narrow

LEMMA LengthIs ==
    ASSUME NEW e, NEW ds
    PROVE  BufferLength(e, ds) = BufferFor(2 * 2^e, ds)
BY DEF BufferLength, BufferFor

(* What HopsCover says of a plan, part by part.                            *)
Accepted(plan) == RateSupported(plan.rate)
LeavesOut(plan, w, s) ==
  /\ w - plan.tune_count * plan.bw_seen >= 0
  /\ w - plan.tune_count * plan.bw_seen < IF Giant(s) THEN plan.bw_seen
     ELSE plan.tune_count
InRange(plan, w) ==
    HopCenter(plan, plan.tune_count - 1) + plan.bw_seen \div 2 <= w
KeepsWidth(plan) ==
    ((plan.rate \div plan.downsample) \div 4) * (4 - plan.crop) + 4 >= plan.bw_seen
TooWide(plan, s, e) == BinWidth(plan.rate, plan.downsample, e) > s
WidestBins(plan, s) ==
  /\ Giant(s) \/ plan.bin_e = 21 \/ ~TooWide(plan, s, plan.bin_e)
  /\ Giant(s) \/ plan.bin_e = 1 \/ TooWide(plan, s, plan.bin_e - 1)
InBuffer(plan) ==
  /\ plan.buf_len >= 2 * 2^plan.bin_e * plan.downsample
  /\ \A offset \in FftOffsets(plan) : offset + 2 * 2^plan.bin_e <= plan.buf_len
InFft(plan) == FirstBin(plan) <= LastBin(plan)
CoversAll(plan, w, s) ==
  /\ Accepted(plan) /\ LeavesOut(plan, w, s) /\ InRange(plan, w)
     /\ KeepsWidth(plan)
  /\ WidestBins(plan, s) /\ InBuffer(plan) /\ InFft(plan)

(* These are its parts.                                                    *)
LEMMA HopsCoverIs ==
    ASSUME kind = "width" /\ ~ConversionOverflows(x, chip.crop) =>
             \/ Refused(Plan(x, chip.max_size, chip.crop, chip.boxcar))
             \/ CoversAll(Plan(x, chip.max_size, chip.crop, chip.boxcar), x,
                chip.max_size)
    PROVE  HopsCover
<1> DEFINE plan == Plan(x, chip.max_size, chip.crop, chip.boxcar)
<1>1. kind = "width" /\ ~ConversionOverflows(x, chip.crop) => Refused(plan)
        \/ CoversAll(plan, x, chip.max_size)
  OBVIOUS
<1> SUFFICES ASSUME kind = "width" /\ ~ConversionOverflows(x, chip.crop)
             PROVE  Refused(plan) \/
               LET giant == chip.max_size >= MINIMUM_RATE
                   real == plan.rate \div plan.downsample
                   left == x - plan.tune_count * plan.bw_seen
                   Wide(e) == CeilDiv(CeilDiv(plan.rate, plan.downsample),
                       2^e) > chip.max_size
                   last == plan.tune_count - 1
               IN   /\ RateSupported(plan.rate)
                    /\ left >= 0 /\ left < IF giant THEN plan.bw_seen
                       ELSE plan.tune_count
                    /\ HopCenter(plan, last) + plan.bw_seen \div 2 <= x
                    /\ (real \div 4) * (4 - plan.crop) + 4 >= plan.bw_seen
                    /\ giant \/ plan.bin_e = 21 \/ ~Wide(plan.bin_e)
                    /\ giant \/ plan.bin_e = 1 \/ Wide(plan.bin_e - 1)
                    /\ plan.buf_len >= 2 * 2^plan.bin_e * plan.downsample
                    /\ \A offset \in FftOffsets(plan) : offset + 2 * 2^plan.bin_e <= plan.buf_len
                    /\ FirstBin(plan) <= LastBin(plan)
  BY Zenon DEF HopsCover
<1> HIDE DEF plan
<1> QED
  BY <1>1, Zenon DEF CoversAll, Accepted, LeavesOut, InRange, KeepsWidth,
     TooWide, WidestBins, InBuffer, InFft,
     Giant, BinWidth

(* A range that can be asked for, whose width converts.                    *)
GivenRange(w, c) == w \in Nat \ {0} /\ c \in 0..3 /\ ~ConversionOverflows(w,
    c)

(* The rate of its hops is supported and gives the bandwidth back.         *)
HopsMade(w, c, boxcar) ==
  LET ds == PDs(w, c, boxcar)
      used == PUsed(w, c, boxcar)
  IN  /\ ds \in Nat \ {0} /\ used \in Nat /\ RateSupported(used)
      /\ used \div ds = PBw(w, c)

(* Only a narrow hop is cut down.                                          *)
LEMMA FactorIs ==
    ASSUME NEW w, NEW c, GivenRange(w, c)
    PROVE  /\ Narrow(PBw(w, c)) => PFactor(w, c) = Downsample(PBw(w, c))
              /\ PBw(w, c) \in Nat \ {0}
           /\ ~Narrow(PBw(w, c)) => PFactor(w, c) = 1
<1> DEFINE bw == PBw(w, c)
<1>1. w \in Nat \ {0} /\ c \in 0..3 /\ ~ConversionOverflows(w, c)
  BY DEF GivenRange
<1>2. /\ PSeen(w, c) \in Nat /\ Uncrops(bw, PSeen(w, c), 4 - c)
      /\ Narrow(bw) => PSeen(w, c) = w
  BY <1>1, HopsSee
<1> HIDE DEF bw
<1>3. 4 - c \in 1..4
  BY <1>1, SMT
<1>4. bw \in Nat /\ bw >= PSeen(w, c)
  BY <1>2, <1>3, NotLess
<1>5. Narrow(bw) => bw \in Nat \ {0}
  BY <1>1, <1>2, <1>4
<1>6. PFactor(w, c) = HopFactor(bw)
  BY DEF PFactor, bw
<1>7. Narrow(bw) => HopFactor(bw) = Downsample(bw)
  BY DEF HopFactor, Narrow
<1>8. ~Narrow(bw) => HopFactor(bw) = 1
  BY DEF HopFactor, Narrow
<1> QED
  BY <1>5, <1>6, <1>7, <1>8 DEF bw

(* A hop that is not narrow is sampled as it is.                           *)
LEMMA WideHops ==
    ASSUME NEW w, NEW c, NEW boxcar, GivenRange(w, c), ~Narrow(PBw(w, c))
    PROVE  PDs(w, c, boxcar) = 1 /\ PUsed(w, c, boxcar) = PBw(w, c)
             /\ PBw(w, c) \in Nat
<1> DEFINE bw == PBw(w, c)  f == PFactor(w, c)
<1>1. f = 1
  BY FactorIs
<1>2. bw \in Nat
  BY HopsSee DEF GivenRange, Uncrops
<1>3. PDs(w, c, boxcar) = FactorTaken(f, boxcar) /\ PUsed(w, c, boxcar)
        = HopRate(PSeen(w, c), c, f, boxcar)
  BY DEF PDs, PUsed
<1>4. bw = Uncropped(PSeen(w, c), c)
  BY DEF PBw
<1> HIDE DEF bw, f
<1>5. ~Filtered(f, boxcar)
  BY <1>1 DEF Filtered
<1>6. FactorTaken(f, boxcar) = 1
  BY <1>1, <1>5 DEF FactorTaken
<1>7. HopRate(PSeen(w, c), c, f, boxcar) = bw * 1
  BY <1>1, <1>4, <1>5 DEF HopRate
<1>8. bw * 1 = bw
  BY <1>2
<1> QED
  BY <1>2, <1>3, <1>6, <1>7, <1>8 DEF bw

(* When the loop finds a number of hops, their rate is right.              *)
LEMMA HopsAreMade ==
    ASSUME NEW w, NEW c, NEW boxcar \in BOOLEAN, GivenRange(w, c),
           HopCount(w, c) # 0
    PROVE  HopsMade(w, c, boxcar)
<1> DEFINE bw == PBw(w, c)  f == PFactor(w, c)  n == PSeen(w, c)
           ds == PDs(w, c, boxcar)  used == PUsed(w, c, boxcar)
<1>1. w \in Nat \ {0} /\ c \in 0..3 /\ ~ConversionOverflows(w, c)
  BY DEF GivenRange
<1>2. /\ n \in Nat /\ Uncrops(bw, n, 4 - c) /\ Fitting(bw)
      /\ Narrow(bw) => n = w
  BY <1>1, HopsSee
<1>3. bw \in Nat
  BY <1>2 DEF Uncrops
<1>4. ds = FactorTaken(f, boxcar) /\ used = HopRate(n, c, f, boxcar) /\ bw
        = Uncropped(n, c)
  BY DEF PDs, PUsed, PBw
<1>5. /\ Narrow(bw) => f = Downsample(bw) /\ bw \in Nat \ {0}
      /\ ~Narrow(bw) => ds = 1 /\ used = bw
  BY FactorIs, WideHops
<1> HIDE DEF bw, f, n, ds, used
<1>6. CASE ~Narrow(bw)
  <2>1. RateSupported(bw)
    BY <1>2, <1>3, <1>6, SMT DEF RateSupported, Narrow, Fitting,
       MINIMUM_RATE, MAXIMUM_RATE
  <2>2. bw \div 1 = bw
    BY <1>3, SMT
  <2>3. 1 \in Nat \ {0}
    OBVIOUS
  <2>4. ds \in Nat \ {0} /\ used \in Nat /\ RateSupported(used)
          /\ used \div ds = bw
    BY <1>3, <1>5, <1>6, <2>1, <2>2, <2>3, Zenon
  <2> QED
    BY <2>4, Zenon DEF HopsMade, ds, used, bw
<1>7. CASE Narrow(bw)
  <2>1. f = Downsample(bw) /\ bw \in Nat \ {0} /\ n = w
    BY <1>2, <1>5, <1>7
  <2>2. f \in Nat /\ f > 1 /\ f # 0
    BY <1>7, <2>1, Factor
  <2>3. CASE Filtered(f, boxcar)
    <3>1. ds = 2^Passes(Downsample(bw)) /\ used = Uncropped(n * ds, c)
      BY <1>4, <2>1, <2>3 DEF FactorTaken, HopRate
    <3>2. used = Uncropped(w * ds, c) /\ Uncrops(bw, w, 4 - c)
      BY <1>2, <2>1, <3>1
    <3>3. ds \in Nat /\ ds > 1 /\ used \in Nat /\ RateSupported(used)
            /\ used \div ds = bw
      BY <1>1, <1>7, <2>1, <3>1, <3>2, HalvedRate
    <3>4. ds \in Nat \ {0}
      BY <3>3
    <3> QED
      BY <3>3, <3>4, Zenon DEF HopsMade, ds, used, bw
  <2>4. CASE ~Filtered(f, boxcar)
    <3>1. ds = Downsample(bw) /\ used = bw * Downsample(bw)
      BY <1>4, <2>1, <2>2, <2>4 DEF FactorTaken, HopRate
    <3>2. RateSupported(used) /\ used \div ds = bw
      BY <1>7, <2>1, <3>1, Boxcar
    <3>3. ds \in Nat \ {0} /\ used \in Nat
      BY <1>3, <2>1, <2>2, <3>1
    <3> QED
      BY <3>2, <3>3, Zenon DEF HopsMade, ds, used, bw
  <2> QED
    BY <2>3, <2>4
<1> QED
  BY <1>6, <1>7

(* A range that holds a bin of 1 MHz or more is not narrow.                *)
LEMMA GiantHops ==
    ASSUME NEW w, NEW c, NEW boxcar \in BOOLEAN, GivenRange(w, c),
           NEW s \in Nat, Giant(s), w >= s
    PROVE  PDs(w, c, boxcar) = 1
<1> DEFINE bw == PBw(w, c)
<1>1. w \in Nat \ {0} /\ c \in 0..3 /\ ~ConversionOverflows(w, c)
  BY DEF GivenRange
<1>2. /\ PSeen(w, c) \in Nat /\ Uncrops(bw, PSeen(w, c), 4 - c)
      /\ Narrow(bw) => PSeen(w, c) = w
  BY <1>1, HopsSee
<1> HIDE DEF bw
<1>3. 4 - c \in 1..4
  BY <1>1, SMT
<1>4. bw \in Nat /\ bw >= PSeen(w, c)
  BY <1>2, <1>3, NotLess
<1>5. ~Narrow(bw)
  <2> SUFFICES ASSUME Narrow(bw) PROVE FALSE
    OBVIOUS
  <2>1. bw >= w
    BY <1>2, <1>4
  <2> QED
    BY <1>1, <1>4, <2>1, SMT DEF Narrow, Giant, MINIMUM_RATE
<1> QED
  BY <1>5, WideHops DEF bw

(* The last hop ends inside the range.                                     *)
LEMMA InRangeIf ==
    ASSUME NEW w \in Nat, NEW n \in Nat \ {0}, NEW v \in Nat, n * v <= w
    PROVE  (n - 1) * v + v \div 2 + v \div 2 <= w
<1> DEFINE p == (n - 1) * v  h == v \div 2
<1>1. n * v = p + v /\ p \in Int
  BY SMT
<1>2. h \in Nat /\ 2 * h <= v
  BY SMT
<1> HIDE DEF p, h
<1>3. p + v <= w
  BY <1>1
<1>4. p + h + h <= w
  BY <1>1, <1>2, <1>3, SMT
<1> QED
  BY <1>4 DEF p, h

(* The buffer of a plan holds its FFTs.                                    *)
LEMMA BufferIs ==
    ASSUME NEW plan, plan.bin_e \in 0..21, plan.downsample \in Nat \ {0},
           plan.buf_len = BufferFor(2 * 2^plan.bin_e, plan.downsample)
    PROVE  InBuffer(plan)
<1> DEFINE e == plan.bin_e  ds == plan.downsample  L == plan.buf_len  B ==
      2 * 2^e
<1>1. e \in 0..22 /\ e + 1 \in 0..22
  BY SMT
<1>2. 2^(e + 1) \in PowersUpTo22 /\ 2^(e + 1) = B
  BY <1>1, PowersAre
<1>3. B \in PowersUpTo22 /\ L = BufferFor(B, ds) /\ ds \in Nat \ {0}
  BY <1>2
<1>4. 2^e \in Nat /\ B \in Nat \ {0}
  <2>1. 2^e \in PowersUpTo22
    BY <1>1, PowersAre
  <2> QED
    BY <2>1, SMT DEF PowersUpTo22
<1>5. FftOffsets(plan) = {k * 2 * 2^e : k \in 0..(((L \div ds) - 1) \div B)}
  BY DEF FftOffsets
<1>6. L >= B * ds
  <2>1. B * ds \in Int /\ DEFAULT_BUF_LENGTH \in Int
    BY <1>3, <1>4, SMT DEF DEFAULT_BUF_LENGTH
  <2> HIDE DEF B, ds, L
  <2>2. L = IF B * ds < DEFAULT_BUF_LENGTH THEN DEFAULT_BUF_LENGTH ELSE B * ds
    BY <1>3 DEF BufferFor
  <2> DEFINE p == B * ds
  <2>3. p \in Int /\ L = IF p < DEFAULT_BUF_LENGTH THEN DEFAULT_BUF_LENGTH
          ELSE p
    BY <2>1, <2>2
  <2> HIDE DEF p
  <2>4. L >= p
    BY <2>1, <2>3
  <2> QED
    BY <2>4 DEF p
<1>7. ASSUME NEW offset \in FftOffsets(plan) PROVE offset + B <= L
  <2>1. PICK k \in 0..(((L \div ds) - 1) \div B) : offset = k * 2 * 2^e
    BY <1>5, <1>7
  <2> HIDE DEF B, ds, L
  <2>2. k \in Nat /\ k <= ((L \div ds) - 1) \div B
    OBVIOUS
  <2>3. k * B + B <= L
    BY <1>3, <2>2, FftsInside
  <2>4. offset = k * B
    <3> DEFINE p == 2^e
    <3>1. p \in Nat /\ B = 2 * p /\ offset = k * 2 * p
      BY <1>4, <2>1 DEF B
    <3> HIDE DEF p
    <3> QED
      BY <2>2, <3>1, SMT
  <2> QED
    BY <2>3, <2>4
<1> QED
  BY <1>6, <1>7 DEF InBuffer

(* What is printed is inside the FFT.                                      *)
LEMMA FftIs ==
    ASSUME NEW plan, plan.bin_e \in 0..21, plan.crop \in 0..3, plan.bin_e = 0
           => plan.crop = 0
    PROVE  InFft(plan)
<1> DEFINE e == plan.bin_e  N == 2^e  c == plan.crop
<1>1. e \in 0..22 /\ c \in 0..3 /\ (e = 0 => c = 0)
  BY SMT
<1>2. N \in PowersUpTo22
  BY <1>1, PowersAre
<1>3. N = 1 => c = 0
  <2> SUFFICES ASSUME e # 0 PROVE N # 1
    BY <1>1
  <2> DEFINE d == e - 1
  <2>1. d \in 0..22 /\ d + 1 = e
    BY SMT
  <2> HIDE DEF d
  <2>2. 2^d \in PowersUpTo22 /\ 2^(d + 1) = 2 * 2^d
    BY <2>1, PowersAre
  <2>3. 2^d \in Nat
    BY <2>2, SMT DEF PowersUpTo22
  <2>4. N = 2 * 2^d
    BY <2>1, <2>2
  <2> HIDE DEF N
  <2> QED
    BY <2>3, <2>4, SMT
<1>4. (N * c) \div 8 <= N - 1 - (N * c) \div 8
  <2> HIDE DEF N, c
  <2> QED
    BY <1>1, <1>2, <1>3, PrintedInside
<1> QED
  BY <1>4, Zenon DEF InFft, FirstBin, LastBin

(* Bins that are not wider than the highest rate.                          *)
SizeOk(s) == s \in Nat \ {0} /\ s <= FastestRate

(* Bins of 1 MHz or more: a hop is one bin.                                *)
LEMMA GiantCovers ==
    ASSUME NEW w, NEW c, GivenRange(w, c), NEW boxcar \in BOOLEAN, NEW s,
           SizeOk(s), Giant(s),
           ~Refused(Plan(w, s, c, boxcar))
    PROVE  CoversAll(Plan(w, s, c, boxcar), w, s)
<1> DEFINE plan == Plan(w, s, c, boxcar)  n == plan.tune_count
<1>1. /\ n = w \div s /\ plan.bw_seen = s /\ plan.rate = s /\ plan.downsample
         = PDs(w, c, boxcar)
      /\ plan.bin_e = 0 /\ plan.crop = 0
      /\ plan.buf_len = BufferLength(0, PDs(w, c, boxcar))
  <2>1. PE(w, s, c, boxcar) = 0
    BY DEF PE
  <2> QED
    BY <2>1, PlanIs
<1>2. w \in Nat \ {0} /\ s \in Nat \ {0}
  BY DEF GivenRange, SizeOk
<1>3. ~Refused(plan)
  OBVIOUS
<1> HIDE DEF plan
<1>4. n # 0
  BY <1>3 DEF Refused
<1> DEFINE r == w % s
<1>5. w = s * n + r /\ r \in 0..(s - 1) /\ n \in Nat
  <2>1. w = s * (w \div s) + (w % s) /\ w % s \in 0..(s - 1)
          /\ w \div s \in Nat
    BY <1>2, DivModDef
  <2> QED
    BY <1>1, <2>1
<1> HIDE DEF n, r
<1>6. s * n = n * s /\ n * s \in Nat /\ n * s >= s
  <2>1. (n - 1) * s >= 0 /\ (n - 1) * s \in Int /\ n * s = (n - 1) * s + s
          /\ s * n = n * s
    BY <1>2, <1>4, <1>5, SMT
  <2> DEFINE p == n * s  q == (n - 1) * s
  <2>2. q >= 0 /\ q \in Int /\ p = q + s
    BY <2>1
  <2> HIDE DEF p, q
  <2>3. p \in Nat /\ p >= s
    BY <1>2, <2>2, SMT
  <2> QED
    BY <2>1, <2>3 DEF p
<1> DEFINE p == n * s
<1>7. w = p + r /\ p \in Nat /\ p >= s /\ p = n * s
  BY <1>5, <1>6
<1> HIDE DEF p
<1>8. w >= s /\ p <= w /\ w - p >= 0 /\ w - p < s
  BY <1>2, <1>5, <1>7, SMT
<1>9. plan.downsample = 1
  BY <1>1, <1>2, <1>8, GiantHops
<1>10. Accepted(plan)
  <2>1. RateSupported(s)
    BY <1>2, SMT DEF SizeOk, Giant, MINIMUM_RATE, RateSupported, FastestRate
  <2> QED
    BY <1>1, <2>1 DEF Accepted
<1>11. LeavesOut(plan, w, s)
  BY <1>1, <1>7, <1>8 DEF LeavesOut, n
<1>12. InRange(plan, w)
  <2>1. n \in Nat \ {0} /\ s \in Nat /\ n * s <= w /\ w \in Nat
    BY <1>2, <1>4, <1>5, <1>7, <1>8
  <2>2. (n - 1) * s + s \div 2 + s \div 2 <= w
    BY <2>1, InRangeIf
  <2> QED
    BY <1>1, <2>2 DEF InRange, HopCenter, n
<1>13. KeepsWidth(plan)
  <2>1. s \div 1 = s /\ (s \div 4) * 4 + 4 >= s
    BY <1>2, SMT
  <2>2. 4 - 0 = 4
    OBVIOUS
  <2> QED
    BY <1>1, <1>9, <2>1, <2>2, Zenon DEF KeepsWidth
<1>14. WidestBins(plan, s)
  BY DEF WidestBins
<1>15. InBuffer(plan)
  <2>1. plan.bin_e \in 0..21 /\ plan.downsample \in Nat \ {0}
    BY <1>1, <1>9
  <2>2. plan.buf_len = BufferFor(2 * 2^plan.bin_e, plan.downsample)
    BY <1>1, LengthIs
  <2> QED
    BY <2>1, <2>2, BufferIs
<1>16. InFft(plan)
  <2>1. plan.bin_e \in 0..21 /\ plan.crop \in 0..3
    BY <1>1
  <2> QED
    BY <1>1, <2>1, FftIs
<1> QED
  BY <1>10, <1>11, <1>12, <1>13, <1>14, <1>15, <1>16 DEF CoversAll, plan

(* Narrower bins: the hops share the range.                                *)
LEMMA HopsCovered ==
    ASSUME NEW w, NEW c, GivenRange(w, c), NEW boxcar \in BOOLEAN, NEW s,
           SizeOk(s), ~Giant(s),
           ~Refused(Plan(w, s, c, boxcar))
    PROVE  CoversAll(Plan(w, s, c, boxcar), w, s)
<1> DEFINE plan == Plan(w, s, c, boxcar)  n == plan.tune_count  v ==
      PSeen(w, c)  bw == PBw(w, c)
           ds == PDs(w, c, boxcar)  used == PUsed(w, c, boxcar)  e ==
               PE(w, s, c, boxcar)
           k == HopCount(w, c)
<1>1. /\ n = IF Narrow(bw) THEN 1 ELSE k
      /\ plan.bw_seen = v /\ plan.rate = used /\ plan.downsample = ds
      /\ plan.bin_e = e /\ plan.crop = c
      /\ plan.buf_len = BufferLength(e, ds)
  BY PlanIs
<1>2. w \in Nat \ {0} /\ s \in Nat \ {0} /\ c \in 0..3
        /\ ~ConversionOverflows(w, c)
  BY DEF GivenRange, SizeOk
<1>3. ~Refused(plan)
  OBVIOUS
<1>4. e = BinE(used, ds, s)
  BY DEF PE
<1> HIDE DEF plan
<1>5. n # 0
  BY <1>3 DEF Refused
<1>6. /\ v \in Nat /\ Uncrops(bw, v, 4 - c)
      /\ k # 0 => v = w \div k
      /\ Narrow(bw) => k = 1 /\ v = w
  BY <1>2, HopsSee
<1>7. k # 0 /\ n = k /\ v = w \div n
  BY <1>1, <1>5, <1>6
<1>8. k \in Nat
  <2>1. k = 0 \/ k \in Tries
    BY <1>2, LeastHops
  <2>2. Tries \subseteq Nat \ {0}
    BY TriesAre
  <2> HIDE DEF k
  <2>3. k = 0 => k \in Nat
    OBVIOUS
  <2>4. k \in Tries => k \in Nat
    BY <2>2
  <2> QED
    BY <2>1, <2>3, <2>4
<1>9. HopsMade(w, c, boxcar)
  BY <1>7, HopsAreMade
<1>10. ds \in Nat \ {0} /\ used \in Nat /\ RateSupported(used)
         /\ used \div ds = bw
  BY <1>9 DEF HopsMade
<1> HIDE DEF v, bw, ds, used, k, n, e
<1>11. n \in Nat \ {0}
  BY <1>7, <1>8
<1> DEFINE r == w % n
<1>12. w = n * v + r /\ r \in 0..(n - 1)
  <2>1. w = n * (w \div n) + (w % n) /\ w % n \in 0..(n - 1)
    BY <1>2, <1>11, DivModDef
  <2> QED
    BY <1>7, <2>1
<1> HIDE DEF r
<1> DEFINE p == n * v
<1>13. w = p + r /\ p \in Nat
  BY <1>6, <1>11, <1>12, SMT
<1> HIDE DEF p
<1>14. p <= w /\ w - p >= 0 /\ w - p < n
  BY <1>2, <1>11, <1>12, <1>13, SMT
<1>15. Accepted(plan)
  BY <1>1, <1>10 DEF Accepted
<1>16. LeavesOut(plan, w, s)
  BY <1>1, <1>14, Zenon DEF LeavesOut, n, p
<1>17. InRange(plan, w)
  <2>1. w \in Nat /\ n * v <= w
    BY <1>2, <1>14 DEF p
  <2>2. (n - 1) * v + v \div 2 + v \div 2 <= w
    BY <1>6, <1>11, <2>1, InRangeIf
  <2> QED
    BY <1>1, <2>2 DEF InRange, HopCenter, n
<1>18. KeepsWidth(plan)
  <2>1. 4 - c \in 1..4
    BY <1>2, SMT
  <2>2. bw \in Nat
    BY <1>6 DEF Uncrops
  <2>3. (bw \div 4) * (4 - c) + 4 >= v
    BY <1>6, <2>1, <2>2, LeftAfterCrop
  <2> QED
    BY <1>1, <1>10, <2>3, Zenon DEF KeepsWidth
<1>19. /\ e \in 1..21
       /\ e = 21 \/ ~(BinWidth(used, ds, e) > s)
       /\ e = 1 \/ BinWidth(used, ds, e - 1) > s
  BY <1>2, <1>4, <1>10, FewestBins
<1>20. WidestBins(plan, s)
  BY <1>1, <1>19, Zenon DEF WidestBins, TooWide
<1>21. plan.bin_e \in 0..21 /\ plan.bin_e # 0 /\ plan.crop \in 0..3
         /\ plan.downsample \in Nat \ {0}
  BY <1>1, <1>2, <1>10, <1>19
<1>22. InBuffer(plan)
  <2>1. plan.buf_len = BufferFor(2 * 2^plan.bin_e, plan.downsample)
    BY <1>1, LengthIs
  <2> QED
    BY <1>21, <2>1, BufferIs
<1>23. InFft(plan)
  BY <1>21, FftIs
<1> QED
  BY <1>15, <1>16, <1>17, <1>18, <1>20, <1>22, <1>23 DEF CoversAll, plan

(* The widths swept are positive.                                          *)
WidthInv == kind = "width" => x \in Nat \ {0} /\ chip \in Options

LEMMA WidthStays ==
    ASSUME WidthInv, [Next]_vars
    PROVE  WidthInv'
<1>1. ASSUME kind = "width", SweepWidth PROVE WidthInv'
  <2>1. x \in Nat \ {0} /\ chip \in Options /\ WidthGrowth \in Nat \ {0}
    BY <1>1, SweepAssumption DEF WidthInv
  <2>2. x \div WidthGrowth \in Nat
    BY <2>1, DivModDef
  <2>3. x' = x + 1 + x \div WidthGrowth /\ chip' = chip
    BY <1>1 DEF SweepWidth, Sweep
  <2> DEFINE g == x \div WidthGrowth
  <2>4. g \in Nat /\ x' = x + 1 + g
    BY <2>2, <2>3
  <2> HIDE DEF g
  <2>5. x' \in Nat \ {0}
    BY <2>1, <2>4
  <2> QED
    BY <2>1, <2>3, <2>5 DEF WidthInv, Options
<1>2. CASE UNCHANGED vars
  BY <1>2 DEF vars, WidthInv, Options
<1>3. ASSUME Next, ~SweepWidth PROVE kind' # "width"
  BY <1>3 DEF Next, SweepFreq, SweepFc, SweepBw, SweepGain, SweepRate, Sweep,
     FcKinds
<1>4. ASSUME SweepWidth PROVE kind = "width"
  BY <1>4 DEF SweepWidth
<1>5. kind' # "width" => WidthInv'
  BY DEF WidthInv
<1> QED
  BY <1>1, <1>2, <1>3, <1>4, <1>5

(* For every width whose conversion to int does not overflow, every crop,  *)
(* either filter and every bin size up to the highest rate: when rtl_power *)
(* does not refuse the range, the library accepts the rate, the hops lie   *)
(* next to each other inside the range and leave out less than one hop, or *)
(* one hertz per hop, each keeps its width after the crop, the bins are    *)
(* the widest that are allowed, and FFTs and printed bins stay inside      *)
(* their buffers (rtl_power.c:459-520, 656-681, 738-755).                  *)
THEOREM HopsAreCovered ==
    ASSUME \A b \in BinSizes : b <= FastestRate
    PROVE  Spec => []HopsCover
<1>1. Init => WidthInv
  <2> SUFFICES ASSUME Init, kind = "width" PROVE x \in Nat \ {0}
                 /\ chip \in Options
    BY DEF WidthInv
  <2>1. x = 1
    BY DEF Init, FcKinds
  <2>2. chip \in Options
    BY DEF Init
  <2> QED
    BY <2>1, <2>2
<1>2. WidthInv /\ [Next]_vars => WidthInv'
  BY WidthStays
<1>3. WidthInv => HopsCover
  <2> SUFFICES ASSUME WidthInv, kind = "width",
                 ~ConversionOverflows(x, chip.crop),
                      ~Refused(Plan(x, chip.max_size, chip.crop, chip.boxcar))
               PROVE  CoversAll(Plan(x, chip.max_size, chip.crop,
                        chip.boxcar), x, chip.max_size)
    BY HopsCoverIs
  <2> DEFINE s == chip.max_size  c == chip.crop  boxcar == chip.boxcar
  <2>1. x \in Nat \ {0} /\ s \in BinSizes /\ c \in Crops /\ boxcar \in BOOLEAN
    BY DEF WidthInv, Options
  <2>2. BinSizes \subseteq Nat \ {0} /\ Crops \subseteq 0..3
    BY SweepAssumption
  <2>3. GivenRange(x, c)
    BY <2>1, <2>2 DEF GivenRange
  <2>4. SizeOk(s)
    BY <2>1, <2>2, Zenon DEF SizeOk
  <2>5. ~Refused(Plan(x, s, c, boxcar))
    OBVIOUS
  <2> HIDE DEF s, c, boxcar
  <2>6. CoversAll(Plan(x, s, c, boxcar), x, s)
    BY <2>1, <2>3, <2>4, <2>5, GiantCovers, HopsCovered
  <2> QED
    BY <2>6 DEF s, c, boxcar
<1> QED
  BY <1>1, <1>2, <1>3, PTL DEF Spec
=============================================================================
