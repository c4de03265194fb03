----------------------------- MODULE MathProofs -----------------------------
(***************************************************************************)
(* Facts that the other proofs share: induction over the naturals,         *)
(* division, what r82xx_set_bandwidth computes for every bandwidth, and    *)
(* which sample rates the resampler reaches.                               *)
(***************************************************************************)
EXTENDS R82xxMath, Resampler, WellFoundedInduction, TLAPS

(* Every set of naturals that is not empty has a least element.            *)
LEMMA LeastNatural ==
    ASSUME NEW T, T \subseteq Nat, T # {}
    PROVE  \E x \in T : \A y \in T : x <= y
<1> DEFINE R == {ss \in Nat \X Nat : ss[1] < ss[2]}
<1>1. IsWellFoundedOn(R, Nat)
  BY NatLessThanWellFounded DEF OpToRel
<1>2. \A x, y \in Nat : y < x => << y, x >> \in R
  OBVIOUS
<1> HIDE DEF R
<1>3. PICK x \in T : \A y \in T : << y, x >> \notin R
  BY <1>1, WFMin
<1>4. \A y \in T : x \in Nat /\ y \in Nat
  OBVIOUS
<1>5. \A y \in T : ~(y < x)
  BY <1>2, <1>3, <1>4
<1>6. \A y \in T : x <= y
  BY <1>4, <1>5
<1> QED
  BY <1>6

(* Induction: a set that holds 0, and n + 1 whenever it holds n, holds     *)
(* every natural number.                                                   *)
LEMMA Induction ==
    ASSUME NEW S, 0 \in S, \A n \in Nat : n \in S => n + 1 \in S
    PROVE  \A n \in Nat : n \in S
<1> SUFFICES ASSUME NEW k \in Nat, k \notin S PROVE FALSE
  OBVIOUS
<1> DEFINE T == {n \in Nat : n \notin S}
<1>1. PICK x \in T : \A y \in T : x <= y
  BY LeastNatural, k \in T
<1>2. x # 0
  OBVIOUS
<1>3. x - 1 \in Nat
  BY <1>2
<1>4. x - 1 \notin T
  BY <1>1, <1>3
<1> QED
  BY <1>3, <1>4

(* F is a step function of a recursion over the naturals with values in V; *)
(* g is what the recursion from a computes.                                *)
Turns(F, V) == F \in [Nat -> [V -> V]]
Repeats(g, V, a, F) == g \in [Nat -> V] /\ g[0] = a /\ \A n \in Nat : g[n + 1] = F[n][g[n]]

(* Every recursion over the naturals computes something.                   *)
LEMMA Recursion ==
    ASSUME NEW V, NEW a \in V, NEW F, Turns(F, V)
    PROVE  \E g : Repeats(g, V, a, F)
<1>0. F \in [Nat -> [V -> V]]
  BY DEF Turns
<1> DEFINE Upto(g, n) == /\ g \in [0..n -> V] /\ g[0] = a
                         /\ \A i \in 0..(n - 1) : g[i + 1] = F[i][g[i]]
           Good == {n \in Nat : \E g \in [0..n -> V] : Upto(g, n)}
<1>1. 0 \in Good
  <2>1. Upto([i \in 0..0 |-> a], 0)
    OBVIOUS
  <2> QED
    BY <2>1
<1>2. ASSUME NEW n \in Nat, n \in Good
      PROVE  n + 1 \in Good
  <2>1. PICK g \in [0..n -> V] : Upto(g, n)
    BY <1>2
  <2> DEFINE h == [i \in 0..(n + 1) |-> IF i = n + 1 THEN F[n][g[n]] ELSE g[i]]
  <2>2. g[n] \in V
    OBVIOUS
  <2>3. F[n][g[n]] \in V
    BY <2>2, <1>0
  <2>4. h \in [0..(n + 1) -> V] /\ h[0] = a /\ \A i \in 0..n : h[i + 1] = F[i][h[i]]
    BY <2>1, <2>3
  <2> HIDE DEF h
  <2>5. Upto(h, n + 1)
    BY <2>4
  <2> HIDE DEF Upto
  <2> QED
    BY <2>4, <2>5
<1>3. \A n \in Nat : n \in Good
  <2> HIDE DEF Good
  <2> QED
    BY <1>1, <1>2, Induction
<1> DEFINE G == [n \in Nat |-> CHOOSE g \in [0..n -> V] : Upto(g, n)]
<1>4. \A n \in Nat : Upto(G[n], n)
  BY <1>3
<1> HIDE DEF G, Good
<1>5. \A n \in Nat : \A i \in Nat : i \in {j \in Nat : j <= n => G[n + 1][j] = G[n][j]}
  <2> TAKE n \in Nat
  <2> DEFINE E == {j \in Nat : j <= n => G[n + 1][j] = G[n][j]}
  <2>1. 0 \in E
    BY <1>4
  <2>2. ASSUME NEW j \in Nat, j \in E
        PROVE  j + 1 \in E
    <3> SUFFICES ASSUME j + 1 <= n PROVE G[n + 1][j + 1] = G[n][j + 1]
      OBVIOUS
    <3>1. G[n + 1][j] = G[n][j]
      BY <2>2
    <3>2. j \in 0..((n + 1) - 1) /\ j \in 0..(n - 1)
      OBVIOUS
    <3>3. G[n + 1][j + 1] = F[j][G[n + 1][j]]
      BY <3>2, <1>4
    <3>4. G[n][j + 1] = F[j][G[n][j]]
      BY <3>2, <1>4
    <3> QED
      BY <3>1, <3>3, <3>4
  <2> HIDE DEF E
  <2> QED
    BY <2>1, <2>2, Induction DEF E
<1> DEFINE f == [n \in Nat |-> G[n][n]]
<1>6. f \in [Nat -> V] /\ f[0] = a
  BY <1>4
<1>7. ASSUME NEW n \in Nat
      PROVE  f[n + 1] = F[n][f[n]]
  <2>1. G[n + 1][n] = G[n][n]
    BY <1>5
  <2>2. G[n + 1][n + 1] = F[n][G[n + 1][n]]
    BY <1>4, n \in 0..((n + 1) - 1)
  <2> QED
    BY <2>1, <2>2
<1> HIDE DEF f
<1> QED
  BY <1>6, <1>7 DEF Repeats

(* The division with remainder.                                            *)
LEMMA DivModDef ==
    ASSUME NEW a \in Nat, NEW m \in Nat \ {0}
    PROVE  /\ a = m * (a \div m) + (a % m)
           /\ a % m \in 0..(m - 1) /\ a \div m \in Nat
OBVIOUS

(* Its quotient and its remainder are naturals.                             *)
LEMMA QuotientNat ==
    ASSUME NEW a \in Nat, NEW m \in Nat, m > 0
    PROVE  a \div m \in Nat /\ a % m \in Nat /\ a % m < m
BY DivModDef

(* It is the only one.                                                     *)
LEMMA DivModUnique ==
    ASSUME NEW a \in Nat, NEW m \in Nat \ {0}, NEW q \in Nat, NEW r \in 0..(m - 1),
           a = m * q + r
    PROVE  a % m = r /\ a \div m = q
<1>1. a = m * (a \div m) + (a % m) /\ a % m \in 0..(m - 1) /\ a \div m \in Nat
  BY DivModDef
<1>2. a \div m = q
  <2>1. a \div m >= q + 1 => m * (a \div m) >= m * (q + 1)
    BY <1>1
  <2>2. a \div m + 1 <= q => m * (a \div m + 1) <= m * q
    BY <1>1
  <2> QED
    BY <1>1, <2>1, <2>2
<1> QED
  BY <1>1, <1>2

-----------------------------------------------------------------------------
(* r82xx_set_bandwidth. *)

(* The table, entry by entry.                                              *)
LEMMA Table ==
    /\ LowPassTable[1] = 1700000 /\ LowPassTable[2] = 1600000 /\ LowPassTable[3] = 1550000
    /\ LowPassTable[4] = 1450000 /\ LowPassTable[5] = 1200000 /\ LowPassTable[6] = 900000
    /\ LowPassTable[7] = 700000 /\ LowPassTable[8] = 550000 /\ LowPassTable[9] = 450000
    /\ LowPassTable[10] = 350000
BY DEF LowPassTable

(* The loop over the table stops after the first entry, at the first one   *)
(* that is too narrow.                                                     *)
Stops(x, i) == (\A j \in 1..(i - 1) : x <= LowPassTable[j]) /\ (i < 11 => x > LowPassTable[i])

(* LoopStop is where the loop over the table ends: never at its first      *)
(* entry.                                                                  *)
LEMMA LoopStops ==
    ASSUME NEW x \in Int, x <= 1700000
    PROVE  LoopStop(x) \in 2..11 /\ Stops(x, LoopStop(x))
<1>1. \E i \in 1..11 : Stops(x, i)
  <2> USE Table
  <2>1. x > 1600000 => Stops(x, 2)
    BY DEF Stops
  <2>2. x <= 1600000 /\ x > 1550000 => Stops(x, 3)
    BY DEF Stops
  <2>3. x <= 1550000 /\ x > 1450000 => Stops(x, 4)
    BY DEF Stops
  <2>4. x <= 1450000 /\ x > 1200000 => Stops(x, 5)
    BY DEF Stops
  <2>5. x <= 1200000 /\ x > 900000 => Stops(x, 6)
    BY DEF Stops
  <2>6. x <= 900000 /\ x > 700000 => Stops(x, 7)
    BY DEF Stops
  <2>7. x <= 700000 /\ x > 550000 => Stops(x, 8)
    BY DEF Stops
  <2>8. x <= 550000 /\ x > 450000 => Stops(x, 9)
    BY DEF Stops
  <2>9. x <= 450000 /\ x > 350000 => Stops(x, 10)
    BY DEF Stops
  <2>10. x <= 350000 => Stops(x, 11)
    BY DEF Stops
  <2> QED
    BY <2>1, <2>2, <2>3, <2>4, <2>5, <2>6, <2>7, <2>8, <2>9, <2>10
<1>2. LoopStop(x) \in 1..11 /\ Stops(x, LoopStop(x))
  <2>1. LoopStop(x) = CHOOSE i \in 1..11 : Stops(x, i)
    BY DEF LoopStop, Stops
  <2> QED
    BY <1>1, <2>1
<1>3. ~Stops(x, 1)
  BY Table, SMT DEF Stops
<1> QED
  BY <1>2, <1>3

(* The filter chosen for a width the table serves: it covers the width,    *)
(* the next narrower one would not, and the intermediate frequency leaves  *)
(* room for half of it.                                                    *)
LEMMA NarrowFilter ==
    ASSUME NEW bw \in Nat, bw <= NarrowLimit
    PROVE  /\ LowPassIndex(bw) \in 1..10
           /\ RealBandwidth(bw) >= bw
           /\ LowPassIndex(bw) < 10 => LowPassTable[LowPassIndex(bw) + 1] < Remaining(bw)
           /\ IntFreq(bw) > RealBandwidth(bw) \div 2
           /\ IntFreq(bw) \in Nat /\ IntFreq(bw) <= 4570000
<1> DEFINE high == HighPass2(bw) + HighPass1(bw)
           i == LoopStop(Remaining(bw))
<1>1. NarrowLimit = 2430000
  BY Table, SMT DEF NarrowLimit, FILT_HP_BW1, FILT_HP_BW2
<1>2. /\ high \in Nat /\ high <= 730000 /\ Remaining(bw) = bw - high
      /\ Remaining(bw) \in Int /\ Remaining(bw) <= 1700000
  BY <1>1, Table, SMT DEF HighPass2, HighPass1, Remaining, FILT_HP_BW1, FILT_HP_BW2
<1> HIDE DEF high
<1>3. i \in 2..11 /\ Stops(Remaining(bw), i)
  BY <1>2, LoopStops, SMT
<1> HIDE DEF i
<1>4. LowPassIndex(bw) = i - 1 /\ i - 1 \in 1..10
  BY <1>3, SMT DEF LowPassIndex, i
<1>5. /\ Remaining(bw) <= LowPassTable[i - 1] /\ LowPassTable[i - 1] \in Nat
      /\ LowPassTable[i - 1] <= 1700000
  <2>1. \A j \in 1..10 : LowPassTable[j] \in Nat /\ LowPassTable[j] <= 1700000
    BY Table, SMT
  <2> QED
    BY <1>3, <1>4, <2>1, SMT DEF Stops
<1>6. RealBandwidth(bw) = high + LowPassTable[i - 1]
  BY <1>4, SMT DEF RealBandwidth, high
<1>7. i < 11 => LowPassTable[i] < Remaining(bw)
  BY <1>3, SMT DEF Stops
<1>8. IntFreq(bw) = 2300000 + high - (RealBandwidth(bw) \div 2)
  <2>1. HighPass2(bw) \in Nat /\ HighPass1(bw) \in Nat
    BY SMT DEF HighPass2, HighPass1, FILT_HP_BW1, FILT_HP_BW2
  <2>2. IntFreq(bw) = 2300000 + HighPass2(bw) + HighPass1(bw) - (RealBandwidth(bw) \div 2)
    BY <1>1, SMT DEF IntFreq
  <2>3. RealBandwidth(bw) \in Nat
    BY <1>2, <1>5, <1>6, SMT
  <2>4. RealBandwidth(bw) \div 2 \in Int
    BY <2>3, SMT
  <2> QED
    BY <2>1, <2>2, <2>4, SMT DEF high
<1>9. RealBandwidth(bw) \in Nat /\ RealBandwidth(bw) <= high + 1700000
  BY <1>2, <1>5, <1>6, SMT
<1>10. RealBandwidth(bw) \div 2 \in Nat /\ 2 * (RealBandwidth(bw) \div 2) <= RealBandwidth(bw)
  BY <1>9, SMT
<1>11. /\ IntFreq(bw) > RealBandwidth(bw) \div 2
       /\ IntFreq(bw) \in Nat /\ IntFreq(bw) <= 4570000
  BY <1>2, <1>8, <1>9, <1>10, SMT
<1>12. LowPassIndex(bw) + 1 = i
  BY <1>3, <1>4, SMT
<1> QED
  BY <1>2, <1>3, <1>4, <1>5, <1>6, <1>7, <1>11, <1>12, SMT

(* The intermediate frequency of any filter is positive.                   *)
LEMMA IntFreqNat ==
    ASSUME NEW bw \in Nat
    PROVE  IntFreq(bw) \in Nat /\ IntFreq(bw) <= 4570000
<1>1. CASE bw <= NarrowLimit
  BY <1>1, NarrowFilter, SMT
<1>2. CASE ~(bw <= NarrowLimit)
  <2>1. NarrowLimit = 2430000
    BY Table, SMT DEF NarrowLimit, FILT_HP_BW1, FILT_HP_BW2
  <2> QED
    BY <1>2, <2>1, SMT DEF IntFreq
<1> QED
  BY <1>1, <1>2, SMT

----------------------------------------------------------------------------
(* The sample rate: long division, and the bits of the ratio. *)

(* The powers of two that the long division compares with.                 *)
Doubled == << 1, 2, 4, 8, 16, 32, 64, 128, 256, 512, 1024, 2048, 4096, 8192,
    16384, 32768, 65536, 131072, 262144, 524288, 1048576, 2097152, 4194304 >>

(* They double.                                                            *)
LEMMA DoubledIs ==
    /\ Doubled[1] = 1 /\ Doubled[23] = 4194304
    /\ \A i \in 1..22 : Doubled[i] \in Nat /\ Doubled[i + 1] \in Nat
       /\ Doubled[i + 1] = 2 * Doubled[i]
<1>1. \A i \in 1..22 : i \in {1, 2, 3, 4, 5, 6, 7, 8, 9, 10, 11}
        \/ i \in {12, 13, 14, 15, 16, 17, 18, 19, 20, 21, 22}
  BY SMT
<1>2. \A i \in {1, 2, 3, 4, 5, 6, 7, 8, 9, 10, 11} :
        Doubled[i] \in Nat /\ Doubled[i + 1] \in Nat /\ Doubled[i + 1]
            = 2 * Doubled[i]
  BY SMT DEF Doubled
<1>3. \A i \in {12, 13, 14, 15, 16, 17, 18, 19, 20, 21, 22} :
        Doubled[i] \in Nat /\ Doubled[i + 1] \in Nat /\ Doubled[i + 1]
            = 2 * Doubled[i]
  BY SMT DEF Doubled
<1>4. Doubled[1] = 1 /\ Doubled[23] = 4194304
  BY SMT DEF Doubled
<1> QED
  BY <1>1, <1>2, <1>3, <1>4

(* p holds the quotient and the remainder of n.                            *)
Divided(p, n, d) == p \in Nat \X Nat /\ p[2] < d /\ p[1] * d + p[2] = n

(* One more binary digit of the quotient.                                  *)
NextDigit(p, d) ==
    LET r == 2 * p[2]
    IN  IF r >= d THEN << 2 * p[1] + 1, r - d >> ELSE << 2 * p[1], r >>

(* A digit keeps the quotient right.                                       *)
LEMMA DigitDivides ==
    ASSUME NEW d \in Nat \ {0}, NEW n \in Nat, NEW p, Divided(p, n, d)
    PROVE  Divided(NextDigit(p, d), 2 * n, d)
<1> DEFINE a == p[1]  b == p[2]
<1>1. a \in Nat /\ b \in Nat /\ b < d /\ a * d + b = n
  BY DEF Divided
<1>2. NextDigit(p, d) = IF 2 * b >= d THEN << 2 * a + 1, 2 * b - d >>
        ELSE << 2 * a, 2 * b >>
  BY DEF NextDigit
<1> HIDE DEF a, b
<1>3. (2 * a) * d = 2 * (a * d) /\ (2 * a + 1) * d = 2 * (a * d) + d
        /\ a * d \in Nat
  BY <1>1
<1>4. CASE 2 * b >= d
  <2> DEFINE u == 2 * a + 1  v == 2 * b - d
  <2>1. u \in Nat /\ v \in Nat /\ v < d /\ u * d + v = 2 * n
    BY <1>1, <1>3, <1>4
  <2>2. NextDigit(p, d) = << u, v >>
    BY <1>2, <1>4
  <2> HIDE DEF u, v
  <2> QED
    BY <2>1, <2>2 DEF Divided
<1>5. CASE ~(2 * b >= d)
  <2> DEFINE u == 2 * a  v == 2 * b
  <2>1. u \in Nat /\ v \in Nat /\ v < d /\ u * d + v = 2 * n
    BY <1>1, <1>3, <1>5
  <2>2. NextDigit(p, d) = << u, v >>
    BY <1>2, <1>5
  <2> HIDE DEF u, v
  <2> QED
    BY <2>1, <2>2 DEF Divided
<1> QED
  BY <1>4, <1>5

(* How far the wanted ratio is shifted.                                    *)
Scale == 4194304

(* The long division of the model is the quotient of the shifted crystal   *)
(* frequency (librtlsdr.c:1129).                                           *)
LEMMA ScaledQuotientIs ==
    ASSUME NEW n \in Nat, NEW d \in Nat \ {0}
    PROVE  ScaledQuotient(n, d, 22) = (n * Scale) \div d
<1> DEFINE L == 22
           t == << n \div d, n % d >>
           V == {p \in Nat \X Nat : p[2] < d}
           F == [i \in Nat |-> [p \in V |-> NextDigit(p, d)]]
<1>1. Divided(t, n, d)
  <2> DEFINE a == n \div d  b == n % d
  <2>1. n = d * a + b /\ b \in 0..(d - 1) /\ a \in Nat
    BY DivModDef
  <2>2. t = << a, b >>
    OBVIOUS
  <2> HIDE DEF a, b, t
  <2>3. a * d + b = n /\ b < d /\ b \in Nat
    BY <2>1
  <2> QED
    BY <2>1, <2>2, <2>3 DEF Divided
<1> HIDE DEF t
<1>2. t \in V
  BY <1>1 DEF Divided
<1>3. ASSUME NEW p \in V PROVE NextDigit(p, d) \in V
  <2> DEFINE m == p[1] * d + p[2]
  <2>1. Divided(p, m, d)
    BY DEF Divided
  <2>2. m \in Nat
    OBVIOUS
  <2> HIDE DEF m
  <2>3. Divided(NextDigit(p, d), 2 * m, d)
    BY <2>1, <2>2, DigitDivides
  <2> QED
    BY <2>3 DEF Divided
<1> HIDE DEF V
<1>4. Turns(F, V)
  BY <1>3 DEF Turns
<1> HIDE DEF F
<1>5. PICK h : Repeats(h, V, t, F)
  BY <1>2, <1>4, Recursion
<1>6. \A i \in 1..L : h[i] = NextDigit(h[i - 1], d)
  <2> SUFFICES ASSUME NEW i \in 1..L PROVE h[i] = NextDigit(h[i - 1], d)
    OBVIOUS
  <2> DEFINE m == i - 1
  <2>1. m \in Nat /\ m + 1 = i
    OBVIOUS
  <2> HIDE DEF m
  <2>2. h[m] \in V /\ h[m + 1] = F[m][h[m]]
    BY <2>1, <1>5 DEF Repeats
  <2>3. h[m + 1] = NextDigit(h[m], d)
    BY <2>1, <2>2 DEF F
  <2> QED
    BY <2>1, <2>3 DEF m
<1> DEFINE Done(f) ==
      [i \in 0..L |->
         IF i = 0 THEN << n \div d, n % d >>
         ELSE LET p == f[i - 1]
                  r == 2 * p[2]
              IN  IF r >= d THEN << 2 * p[1] + 1, r - d >>
                  ELSE << 2 * p[1], r >>]
           c == [i \in 0..L |-> h[i]]
<1>7. \A f : \A i \in 1..L : Done(f)[i] = NextDigit(f[i - 1], d)
  BY DEF NextDigit
<1>8. \A f : Done(f)[0] = t /\ Done(f) = [i \in 0..L |-> Done(f)[i]]
  BY DEF t
<1> HIDE DEF Done
<1>9. c = Done(c)
  <2>1. h[0] = t
    BY <1>5 DEF Repeats
  <2> DEFINE dc == Done(c)
  <2>2. \A i \in 0..L : c[i] = dc[i]
    <3> SUFFICES ASSUME NEW i \in 0..L PROVE c[i] = dc[i]
      OBVIOUS
    <3>1. CASE i = 0
      BY <3>1, <2>1, <1>8
    <3>2. CASE i # 0
      <4>1. i \in 1..L /\ i - 1 \in 0..L
        BY <3>2
      <4>2. c[i] = h[i] /\ c[i - 1] = h[i - 1]
        BY <4>1
      <4>3. dc[i] = NextDigit(c[i - 1], d)
        BY <4>1, <1>7
      <4> QED
        BY <4>1, <4>2, <4>3, <1>6
    <3> QED
      BY <3>1, <3>2
  <2>3. c = [i \in 0..L |-> c[i]] /\ dc = [i \in 0..L |-> dc[i]]
    BY <1>8
  <2> HIDE DEF c, dc
  <2>4. c = dc
    BY <2>2, <2>3
  <2> QED
    BY <2>4 DEF dc
<1> DEFINE after == CHOOSE f : f = Done(f)
<1>10. after = Done(after)
  <2> HIDE DEF c
  <2> QED
    BY <1>9
<1>11. ScaledQuotient(n, d, 22) = after[L][1]
  BY DEF ScaledQuotient, Done
<1>12. after[0] = t /\ \A i \in 1..L : after[i] = NextDigit(after[i - 1], d)
  <2> DEFINE da == Done(after)
  <2>1. da[0] = t /\ \A i \in 1..L : da[i] = NextDigit(after[i - 1], d)
    BY <1>7, <1>8
  <2>2. after = da
    BY <1>10
  <2> HIDE DEF after, da
  <2> QED
    BY <2>1, <2>2
<1> HIDE DEF c, after
<1>13. \A i \in 0..L : Divided(after[i], n * Doubled[i + 1], d)
  <2> DEFINE E ==
        {i \in Nat : i \in 0..L => Divided(after[i], n * Doubled[i + 1], d)}
  <2>1. 0 \in E
    <3>1. n * Doubled[0 + 1] = n
      BY DoubledIs
    <3> QED
      BY <1>1, <1>12, <3>1
  <2>2. ASSUME NEW i \in Nat, i \in E PROVE i + 1 \in E
    <3> SUFFICES ASSUME i + 1 \in 0..L PROVE Divided(after[i + 1],
                   n * Doubled[(i + 1) + 1], d)
      OBVIOUS
    <3> DEFINE m == i + 1  k == n * Doubled[m]
    <3>1. m \in 1..22 /\ m - 1 = i /\ Divided(after[i], k, d)
      BY <2>2
    <3>2. Doubled[m] \in Nat /\ Doubled[m + 1] = 2 * Doubled[m]
            /\ Doubled[m + 1] \in Nat
      BY <3>1, DoubledIs
    <3>3. after[m] = NextDigit(after[i], d)
      BY <3>1, <1>12
    <3> HIDE DEF m
    <3>4. k \in Nat /\ 2 * k = n * Doubled[m + 1]
      BY <3>2
    <3> HIDE DEF k
    <3>5. Divided(after[m], 2 * k, d)
      BY <3>1, <3>3, <3>4, DigitDivides
    <3> QED
      BY <3>4, <3>5 DEF m
  <2> HIDE DEF E
  <2>3. \A i \in Nat : i \in E
    BY <2>1, <2>2, Induction
  <2> QED
    BY <2>3 DEF E
<1>14. Divided(after[22], n * 4194304, d)
  BY <1>13, DoubledIs
<1> DEFINE N == n * 4194304
           a == after[22][1]
           b == after[22][2]
<1>15. N \in Nat
  BY SMT
<1>16. Divided(after[22], N, d)
  BY <1>14
<1> HIDE DEF N
<1>17. a \in Nat /\ b \in Nat /\ b < d /\ a * d + b = N
  BY <1>16 DEF Divided
<1> HIDE DEF a, b
<1>18. N = d * a + b /\ b \in 0..(d - 1)
  BY <1>17
<1>19. N \div d = a
  BY <1>15, <1>17, <1>18, DivModUnique
<1> QED
  BY <1>11, <1>19 DEF N, a, Scale

(* The ratios whose lower 28 bits say what all of them do: bit 27 is       *)
(* copied into bit 28.                                                     *)
RatioFits(w) == w < Bit27 \/ (w >= 3 * Bit27 /\ w < 4 * Bit27)

(* The last two bits of a multiple of four are clear.                      *)
LEMMA FourDivides ==
    ASSUME NEW w \in Nat, NEW b \in Nat, NEW c \in Nat, w = b + 4 * c
    PROVE  w % 4 = b % 4
<1>1. b = 4 * (b \div 4) + (b % 4) /\ b % 4 \in 0..3 /\ b \div 4 \in Nat
  BY DivModDef
<1> DEFINE q == b \div 4 + c  r == b % 4
<1>2. w = 4 * q + r /\ r \in 0..(4 - 1) /\ q \in Nat
  BY <1>1
<1> HIDE DEF q, r
<1>3. w % 4 = r
  <2> DEFINE m == 4
  <2>1. m \in Nat \ {0} /\ w = m * q + r /\ r \in 0..(m - 1)
    BY <1>2
  <2> HIDE DEF m
  <2>2. w % m = r
    BY <1>2, <2>1, DivModUnique
  <2> QED
    BY <2>2 DEF m
<1> QED
  BY <1>3 DEF r

(* Where the two bits that are made equal lie.                             *)
LEMMA BitsAre ==
    /\ Bit27 \in Nat \ {0} /\ Bit28 \in Nat \ {0} /\ Bit28 = 2 * Bit27
    /\ \E b \in Nat : Bit27 = 4 * b
<1>1. Bit27 = 134217728 /\ Bit28 = 268435456
  BY SMT DEF Bit27, Bit28
<1>2. 33554432 \in Nat /\ 134217728 = 4 * 33554432 /\ 268435456
        = 2 * 134217728
  BY SMT
<1> QED
  BY <1>1, <1>2, SMT

(* The ratio written is the wanted one without its last two bits,          *)
(* whichever half of the range it is in.                                   *)
LEMMA HardwareRatio ==
    ASSUME NEW xt, NEW rate, NEW w \in Nat, w = WantedRatio(xt, rate),
           RatioFits(w)
    PROVE  real_rsamp_ratio(xt, rate) = w - (w % 4)
<1> DEFINE r == w % Bit28
           k == r - (r % 4)
<1>1. Bit27 \in Nat \ {0} /\ Bit28 \in Nat \ {0} /\ Bit28 = 2 * Bit27
  BY BitsAre
<1>0. PICK c \in Nat : Bit27 = 4 * c
  BY BitsAre
<1>2. rsamp_ratio(xt, rate) = k
  BY DEF rsamp_ratio
<1>3. real_rsamp_ratio(xt, rate) = IF k >= Bit27 THEN k + Bit28 ELSE k
  BY <1>2 DEF real_rsamp_ratio
<1>4. CASE w < Bit27
  <2>1. w = Bit28 * 0 + w /\ w \in 0..(Bit28 - 1)
    BY <1>1, <1>4
  <2>2. r = w
    BY <1>1, <2>1, DivModUnique
  <2> HIDE DEF r
  <2>3. w % 4 \in 0..3
    BY SMT
  <2>4. k = w - (w % 4)
    BY <2>2
  <2> HIDE DEF k
  <2>5. ~(k >= Bit27)
    BY <1>1, <1>4, <2>3, <2>4
  <2> QED
    BY <1>3, <2>4, <2>5
<1>5. CASE w >= 3 * Bit27 /\ w < 4 * Bit27
  <2> DEFINE s == w - Bit28
  <2>1. w = Bit28 * 1 + s /\ s \in 0..(Bit28 - 1) /\ s >= Bit27 /\ s \in Nat
          /\ w = s + Bit28
    BY <1>1, <1>5
  <2> HIDE DEF s
  <2>2. r = s
    <3>1. 1 \in Nat
      OBVIOUS
    <3> QED
      BY <1>1, <2>1, <3>1, DivModUnique
  <2> HIDE DEF r
  <2>3. w = s + 4 * (2 * c) /\ 2 * c \in Nat
    BY <1>0, <1>1, <2>1
  <2>4. w % 4 = s % 4
    BY <1>0, <2>1, <2>3, FourDivides
  <2>5. s = 4 * (s \div 4) + (s % 4) /\ s % 4 \in 0..3 /\ s \div 4 \in Nat
    BY <2>1, SMT
  <2> DEFINE j == s \div 4  i == s % 4
  <2>6. s = 4 * j + i /\ i \in 0..3 /\ j \in Nat
    BY <2>5
  <2>7. k = s - i /\ w % 4 = i
    BY <2>2, <2>4
  <2> HIDE DEF j, i, k
  <2>8. k = 4 * j /\ j >= c
    BY <1>0, <2>1, <2>6, <2>7
  <2>9. k >= Bit27 /\ k + Bit28 = w - i
    BY <1>0, <1>1, <2>1, <2>6, <2>7, <2>8
  <2> QED
    BY <1>3, <2>7, <2>9
<1> QED
  BY <1>4, <1>5 DEF RatioFits

(* The shift is a number.                                                  *)
LEMMA ScaleNat == Scale \in Nat
BY SMT DEF Scale

(* The rate computed back from the ratio written is the one asked for,     *)
(* since a ratio is more than four times as large as a rate.               *)
LEMMA RateComesBack ==
    ASSUME NEW xt \in Nat, NEW rate \in Nat \ {0},
           RatioFits((xt * Scale) \div rate),
           (xt * Scale) \div rate >= 4 * rate + 3
    PROVE  /\ real_rsamp_ratio(xt, rate)
              = WantedRatio(xt, rate) - (WantedRatio(xt, rate) % 4)
           /\ real_rate(xt, rate) = rate
<1> DEFINE N == xt * Scale
           w == N \div rate
           s == N % rate
           u == w % 4
           R == w - u
<1>1. N \in Nat
  BY ScaleNat
<1>2. WantedRatio(xt, rate) = w
  BY ScaledQuotientIs DEF WantedRatio
<1>3. RatioFits(w) /\ w >= 4 * rate + 3
  OBVIOUS
<1> HIDE DEF N
<1>4. N = rate * w + s /\ s \in 0..(rate - 1) /\ w \in Nat
  BY <1>1, DivModDef
<1> HIDE DEF w, s
<1>5. u \in 0..3
  BY <1>4, SMT
<1>6. real_rsamp_ratio(xt, rate) = R
  BY <1>2, <1>3, <1>4, HardwareRatio
<1> HIDE DEF u
<1>7. R \in Nat /\ R > 0 /\ R <= w /\ R >= w - 3 /\ R >= 4 * rate
  BY <1>3, <1>4, <1>5
<1>8. real_rate(xt, rate) = N \div R
  BY <1>6, <1>7, ScaledQuotientIs DEF real_rate, N
<1> HIDE DEF R
<1> DEFINE y == N \div R
           t == N % R
<1>9. N = R * y + t /\ t \in 0..(R - 1) /\ y \in Nat
  <2>1. R \in Nat \ {0}
    BY <1>7
  <2> HIDE DEF N
  <2> QED
    BY <1>1, <2>1, DivModDef
<1> HIDE DEF y, t
<1>10. R * rate <= N
  <2>1. R * rate <= w * rate
    BY <1>4, <1>7
  <2>2. w * rate = rate * w
    BY <1>4
  <2> QED
    BY <1>4, <1>7, <2>1, <2>2
<1>11. N < R * (rate + 1)
  <2> DEFINE e == w - R
  <2>1. e \in 0..3 /\ w = R + e
    BY <1>4, <1>7
  <2> HIDE DEF e
  <2>2. rate * w = rate * R + rate * e /\ R * (rate + 1) = rate * R + R
    BY <1>7, <2>1
  <2>3. rate * e <= rate * 3
    BY <2>1
  <2> DEFINE p == rate * R  q == rate * e
  <2>4. N = p + q + s /\ R * (rate + 1) = p + R /\ q <= 3 * rate /\ p \in Int
          /\ q \in Int
    BY <1>4, <1>7, <2>1, <2>2, <2>3
  <2> HIDE DEF p, q
  <2>5. R >= 4 * rate
    BY <1>7
  <2> QED
    BY <1>4, <1>7, <2>4, <2>5
<1>12. y >= rate
  <2>1. y + 1 <= rate => R * (y + 1) <= R * rate
    BY <1>7, <1>9
  <2>2. R * (y + 1) = R * y + R
    BY <1>7, <1>9
  <2> QED
    BY <1>7, <1>9, <1>10, <2>1, <2>2
<1>13. y <= rate
  <2>1. y >= rate + 1 => R * y >= R * (rate + 1)
    BY <1>7, <1>9
  <2> QED
    BY <1>7, <1>9, <1>11, <2>1
<1>14. real_rate(xt, rate) = y
  BY <1>8 DEF y
<1> QED
  BY <1>2, <1>6, <1>9, <1>12, <1>13, <1>14 DEF R, u


(* Where the crystal divided by the rate is less than 128, and not between *)
(* 32 and 96: there the ratio fits.                                        *)
ResamplerReaches(xt, rate) == xt < 128 * rate
    /\ (xt >= 96 * rate \/ xt < 32 * rate)
(* The lowest crystal that rtlsdr_set_xtal_freq accepts, and the highest   *)
(* rate.                                                                   *)
LeastXtal == 28799000
FastestRate == 3200000

(* There it does fit, and is large enough.                                 *)
LEMMA RateFits ==
    ASSUME NEW xt \in Nat, NEW rate \in Nat \ {0}, ResamplerReaches(xt, rate),
           xt >= LeastXtal, rate <= FastestRate
    PROVE  /\ RatioFits((xt * Scale) \div rate)
           /\ (xt * Scale) \div rate >= 4 * rate + 3
<1> DEFINE N == xt * Scale
           w == N \div rate
           s == N % rate
<1>0. N \in Nat
  BY ScaleNat
<1>1. N \in Nat /\ N = 4194304 * xt
  BY SMT DEF Scale
<1> HIDE DEF N
<1>2. N = rate * w + s /\ s \in 0..(rate - 1) /\ w \in Nat
  BY <1>0, DivModDef
<1> HIDE DEF w, s
<1>b. Bit27 = 134217728
  BY SMT DEF Bit27
<1>c. rate * (w + 1) = rate * w + rate
  BY <1>2, SMT
<1>3. w < 4 * Bit27
  <2>1. w >= 536870912 => rate * w >= rate * 536870912
    BY <1>2, SMT
  <2>2. N < rate * 536870912
    BY <1>1, SMT DEF ResamplerReaches
  <2> QED
    BY <1>1, <1>2, <1>b, <2>1, <2>2, SMT
<1>4. xt >= 96 * rate => w >= 3 * Bit27
  <2>1. w + 1 <= 402653184 => rate * (w + 1) <= rate * 402653184
    BY <1>2, SMT
  <2>2. xt >= 96 * rate => N >= rate * 402653184
    BY <1>1, SMT
  <2> QED
    BY <1>1, <1>2, <1>b, <1>c, <2>1, <2>2, SMT
<1>5. xt < 32 * rate => w < Bit27
  <2>1. w >= 134217728 => rate * w >= rate * 134217728
    BY <1>2, SMT
  <2>2. xt < 32 * rate => N < rate * 134217728
    BY <1>1, SMT
  <2> QED
    BY <1>1, <1>2, <1>b, <2>1, <2>2, SMT
<1>6. w >= 12800003
  <2>1. w + 1 <= 12800003 => rate * (w + 1) <= rate * 12800003
    BY <1>2, SMT
  <2>2. rate * 12800003 <= 3200000 * 12800003
    BY SMT DEF FastestRate
  <2>3. N > 3200000 * 12800003
    BY <1>1, SMT DEF LeastXtal
  <2> QED
    BY <1>1, <1>2, <1>c, <2>1, <2>2, <2>3, SMT
<1>7. RatioFits(w) /\ w >= 4 * rate + 3
  BY <1>2, <1>3, <1>4, <1>5, <1>6, SMT DEF RatioFits, ResamplerReaches,
     FastestRate
<1> QED
  BY <1>7, SMT DEF w, N

(* So every rate in reach of the resampler is kept, and its ratio is the   *)
(* wanted one but for the two bits the hardware lacks                      *)
(* (librtlsdr.c:1124-1141).                                                *)
LEMMA RateIsKept ==
    ASSUME NEW xt \in Nat, NEW rate \in Nat, RateSupported(rate),
           xt >= LeastXtal,
           ResamplerReaches(xt, rate)
    PROVE  /\ real_rsamp_ratio(xt, rate)
              = WantedRatio(xt, rate) - (WantedRatio(xt, rate) % 4)
           /\ real_rate(xt, rate) = rate
<1>1. rate # 0 /\ rate <= FastestRate
  BY SMT DEF RateSupported, FastestRate
<1>2. /\ RatioFits((xt * Scale) \div rate)
      /\ (xt * Scale) \div rate >= 4 * rate + 3
  BY <1>1, RateFits, SMT
<1> QED
  BY <1>1, <1>2, RateComesBack, SMT

(* The nominal crystal, and what is above it as far as 900001 Hz, the      *)
(* first rate of the upper range, is in reach.                             *)
Nominal == 28800000..28800031

(* With these every rate that is accepted is in reach.                     *)
LEMMA NominalReaches ==
    ASSUME NEW xt \in Nominal, NEW rate \in Nat, RateSupported(rate)
    PROVE  xt \in Nat /\ xt >= LeastXtal /\ ResamplerReaches(xt, rate)
BY SMT DEF ResamplerReaches, LeastXtal, Nominal, RateSupported
=============================================================================
