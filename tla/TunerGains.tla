---------------------------- MODULE TunerGains ----------------------------
(***************************************************************************)
(* The gains rtlsdr_get_tuner_gains (src/src/librtlsdr.c) lists for the    *)
(* FC tuners (those of the R82xx are in R82xxMath), and the choice         *)
(* nearest_gain (src/src/convenience/convenience.c) makes among such a     *)
(* list.  The lists rise, so that the first of two gains equally near is   *)
(* the lower one.  Tenths of a dB.                                         *)
(***************************************************************************)
EXTENDS Integers

fc0012_gains == { -99, -40, 71, 179, 192 }
fc0013_gains == { -99, -73, -65, -63, -60, -58, -54, 58, 61, 63, 65, 67, 68, 70,
                  71, 179, 181, 182, 184, 186, 188, 191, 197 }

Distance(a, b) == IF a < b THEN b - a ELSE a - b

\* Mutant: the search stops at the first gain that is not below the target.
nearest_gain_Above(gains, target) ==
  IF \E g \in gains : g >= target
  THEN CHOOSE g \in gains : g >= target /\ \A h \in gains : h >= target => g <= h
  ELSE CHOOSE g \in gains : \A h \in gains : h <= g

nearest_gain(gains, target) ==
  CHOOSE g \in gains : \A h \in gains \ {g} :
    \/ Distance(target, g) < Distance(target, h)
    \/ Distance(target, g) = Distance(target, h) /\ g < h
=============================================================================
