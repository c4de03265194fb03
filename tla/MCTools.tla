------------------------------- MODULE MCTools -------------------------------
(***************************************************************************)
(* The command line tools, one program per behaviour.  A program has its   *)
(* own main, do_exit and stream; the variables of the others stand still.  *)
(***************************************************************************)
EXTENDS Integers

CONSTANTS
  Tools,                                                       \* which programs are run
  Samples, Modes, BlockSize, Word, MaxSignals, MaxWritten,     \* RtlSdr
  Size, Low, Bytes, BiasOptions, Faults,                       \* RtlEeprom
  Counter, BufLen, MaxDrop, MaxBuffers,                           \* RtlTest
  Second, ppm_duration, PPM_DUMP_TIME, MaxTime,                \* PpmTest
  Hops, Interval, ExitTimes, Clock, MaxFaults,                 \* RtlPower
  FmRates, FmResample, Oversample, MaxBlocks                   \* FmBlocks

ASSUME ToolsAssumption ==
  Tools \subseteq {"rtl_sdr", "rtl_eeprom", "rtl_test", "rtl_test -p", "rtl_adsb", "rtl_power",
                "rtl_fm"}

ASSUME SdrAssumption ==
  /\ Samples \subseteq Nat /\ Modes \subseteq BOOLEAN
  /\ BlockSize \in Nat \ {0} /\ Word \in Nat \ {0}
  /\ MaxSignals \in Nat /\ MaxWritten \in Nat

ASSUME EepromAssumption ==
  /\ Low \in Nat \ {0, 1} /\ Size \in Nat /\ Low <= Size
  /\ {0, 1} \subseteq Bytes /\ Bytes \subseteq Nat
  /\ BiasOptions \subseteq {"none", "on", "off"}
  /\ Faults \subseteq {"read", "fetch", "write"}

ASSUME TestAssumption ==
  /\ Counter \in Nat \ {0, 1} /\ BufLen \in Nat \ {0} /\ MaxDrop \in Nat /\ MaxBuffers \in Nat
  /\ Second \in Nat \ {0} /\ ppm_duration \in Nat \ {0}
  /\ PPM_DUMP_TIME \in Nat /\ MaxTime \in Nat

\* The clock goes on until the report after the longest exit timer.
ASSUME PowerAssumption ==
  /\ Hops \in Nat \ {0} /\ Interval \in Nat \ {0} /\ ExitTimes \subseteq Nat
  /\ MaxFaults \in Nat /\ \A t \in ExitTimes : Clock >= t + Interval

ASSUME FmAssumption ==
  /\ FmRates \subseteq Nat \ {0} /\ FmResample \subseteq Nat
  /\ Oversample \subseteq 1..16 /\ MaxBlocks \in Nat

VARIABLES
  tool,
  main, do_exit, stream, closed, signals, sync_mode, heard,
  samples, bytes_to_read, written, failed,
  rom, rom0, opts, buf, pc, i, cell, rc,
  source, bcnt, uninit, total_samples, dropped_samples, lost, visible,
  now, ppm_init, ppm_recent, nsamples, nsamples_total, interval_total, first, started, seen,
  demod, killed, sig_pc,
  single, exit_after, hop, time, next_tick, dev_freq, at, fifo, buf8, avg, sampled,
  faulty, reports, gaps, faults,
  rate_out, rate_out2, post_downsample, fir, prev_index, prev_lpr_index, blocks, audio, produced

Sdr == INSTANCE RtlSdr
Eeprom == INSTANCE RtlEeprom
Test == INSTANCE RtlTest WITH TestModes <- Modes
Ppm == INSTANCE PpmTest
Adsb == INSTANCE RtlAdsb
Power == INSTANCE RtlPower
Fm == INSTANCE FmBlocks

programVars == << main, do_exit, stream, closed, signals >>
optionVars == << sync_mode, heard >>
sdrVars == << samples, bytes_to_read, written, failed >>
eepromVars == << rom, rom0, opts, buf, pc, i, cell, rc >>
testVars == << source, bcnt, uninit, total_samples, dropped_samples, lost, visible >>
ppmVars == << now, ppm_init, ppm_recent, nsamples, nsamples_total, interval_total, first,
              started, seen >>
adsbVars == << demod, killed, sig_pc >>
powerVars == << single, exit_after, hop, time, next_tick, dev_freq, at, fifo, buf8, avg,
                sampled, faulty, reports, gaps, faults >>
fmVars == << rate_out, rate_out2, post_downsample, fir, prev_index, prev_lpr_index,
             blocks, audio, produced >>
all == << tool, programVars, optionVars, sdrVars, eepromVars, testVars, ppmVars,
          adsbVars, powerVars, fmVars >>

----------------------------------------------------------------------------
(* The variables of a program that is not the one run. *)
NoProgram == main = "none" /\ do_exit = 0 /\ signals = 0
NoStream == stream = "none" /\ closed = 0
NoSyncMode == sync_mode = 0
NoHeard == heard = FALSE
NoSdr == samples = 0 /\ bytes_to_read = 0 /\ written = 0 /\ failed = 0
NoEeprom == /\ rom = 0 /\ rom0 = 0 /\ opts = 0 /\ buf = 0 /\ pc = 0 /\ i = 0 /\ cell = 0 /\ rc = 0
NoTest == /\ source = 0 /\ bcnt = 0 /\ uninit = 0 /\ total_samples = 0
          /\ dropped_samples = 0 /\ lost = 0 /\ visible = 0
NoPpm == /\ now = 0 /\ ppm_init = 0 /\ ppm_recent = 0 /\ nsamples = 0 /\ nsamples_total = 0
         /\ interval_total = 0 /\ first = 0 /\ started = 0 /\ seen = 0
NoAdsb == demod = "none" /\ killed = 0 /\ sig_pc = "none"
NoPower == /\ single = FALSE /\ exit_after = 0 /\ hop = 0 /\ time = 0 /\ next_tick = 0
           /\ dev_freq = 0 /\ at = 0 /\ fifo = 0 /\ buf8 = 0 /\ avg = 0 /\ sampled = 0
           /\ faulty = 0 /\ reports = 0 /\ gaps = 0 /\ faults = 0
NoFm == /\ rate_out = 0 /\ rate_out2 = 0 /\ post_downsample = 0 /\ fir = FALSE
        /\ prev_index = 0 /\ prev_lpr_index = 0
        /\ blocks = 0 /\ audio = 0 /\ produced = 0

Init ==
  /\ tool \in Tools
  /\ \/ /\ tool = "rtl_sdr" /\ Sdr!Init
        /\ NoEeprom /\ NoTest /\ NoPpm /\ NoAdsb /\ NoPower /\ NoFm
     \/ /\ tool = "rtl_eeprom" /\ Eeprom!Init
        /\ NoProgram /\ NoStream /\ NoSyncMode /\ NoHeard
        /\ NoSdr /\ NoTest /\ NoPpm /\ NoAdsb /\ NoPower /\ NoFm
     \/ /\ tool = "rtl_test" /\ Test!Init
        /\ NoHeard /\ NoSdr /\ NoEeprom /\ NoPpm /\ NoAdsb /\ NoPower /\ NoFm
     \/ /\ tool = "rtl_test -p" /\ Ppm!Init
        /\ NoProgram /\ NoStream /\ NoSyncMode /\ NoHeard
        /\ NoSdr /\ NoEeprom /\ NoTest /\ NoAdsb /\ NoPower /\ NoFm
     \/ /\ tool = "rtl_adsb" /\ Adsb!Init
        /\ NoSyncMode /\ NoSdr /\ NoEeprom /\ NoTest /\ NoPpm /\ NoPower /\ NoFm
     \/ /\ tool = "rtl_power" /\ Power!Init
        /\ NoStream /\ NoSyncMode /\ NoHeard /\ NoSdr /\ NoEeprom /\ NoTest /\ NoPpm /\ NoAdsb
        /\ NoFm
     \/ /\ tool = "rtl_fm" /\ Fm!Init
        /\ NoProgram /\ NoStream /\ NoSyncMode /\ NoHeard
        /\ NoSdr /\ NoEeprom /\ NoTest /\ NoPpm /\ NoAdsb /\ NoPower

SdrRest == UNCHANGED << tool, eepromVars, testVars, ppmVars, adsbVars, powerVars, fmVars >>
SdrStep == tool = "rtl_sdr" /\ Sdr!Next /\ SdrRest
EepromStep == /\ tool = "rtl_eeprom" /\ Eeprom!Next
              /\ UNCHANGED << tool, programVars, optionVars, sdrVars, testVars, ppmVars,
                              adsbVars, powerVars, fmVars >>
TestStep == /\ tool = "rtl_test" /\ Test!Next
            /\ UNCHANGED << tool, heard, sdrVars, eepromVars, ppmVars, adsbVars, powerVars, fmVars >>
PpmStep == /\ tool = "rtl_test -p" /\ Ppm!Next
           /\ UNCHANGED << tool, programVars, optionVars, sdrVars, eepromVars, testVars,
                           adsbVars, powerVars, fmVars >>
AdsbRest == UNCHANGED << tool, sync_mode, sdrVars, eepromVars, testVars, ppmVars, powerVars, fmVars >>
AdsbStep == tool = "rtl_adsb" /\ Adsb!Next /\ AdsbRest
PowerRest == UNCHANGED << tool, stream, closed, optionVars, sdrVars, eepromVars, testVars,
                          ppmVars, adsbVars, fmVars >>
PowerStep == tool = "rtl_power" /\ Power!Next /\ PowerRest
FmStep == /\ tool = "rtl_fm" /\ Fm!Next
          /\ UNCHANGED << tool, programVars, optionVars, sdrVars, eepromVars, testVars,
                          ppmVars, adsbVars, powerVars >>

Next == SdrStep \/ EepromStep \/ TestStep \/ PpmStep \/ AdsbStep \/ PowerStep \/ FmStep

(* The fairness of the programs' own specifications. *)
Fairness ==
  /\ WF_all(tool = "rtl_sdr" /\ Sdr!Recording /\ SdrRest)
  /\ WF_all(tool = "rtl_sdr" /\ Sdr!EndAsync /\ SdrRest)
  /\ WF_all(tool = "rtl_adsb" /\ Adsb!MainStep /\ AdsbRest)
  /\ SF_all(tool = "rtl_adsb" /\ Adsb!StreamEnds /\ AdsbRest)
  /\ WF_all(tool = "rtl_adsb" /\ Adsb!DemodStep /\ AdsbRest)
  /\ WF_all(tool = "rtl_adsb" /\ Adsb!SignalCancel /\ AdsbRest)
  /\ WF_all(tool = "rtl_power" /\ Power!Main /\ PowerRest)
  /\ WF_all(tool = "rtl_power" /\ Power!ClockTicks /\ PowerRest)

Spec == Init /\ [][Next]_all /\ Fairness

----------------------------------------------------------------------------
\* rtl_sdr.c:84-108, 246-277: a recording whose limit leaves a last block
\* never holds more than -n samples, an undisturbed one exactly these, and
\* without a last block none ends by itself (RtlSdr).
RecordingExact == tool = "rtl_sdr" => Sdr!RecordingExact

\* librtlsdr.c:835-857: a write of the EEPROM replaces a prefix of its range
\* in order, also when it is cut short (RtlEeprom).
WrittenPrefix == tool = "rtl_eeprom" => Eeprom!WrittenPrefix

\* rtl_test.c:125-151: a loss is counted when bytes are lost, and only then
\* (RtlTest).
LossIsSeen == tool = "rtl_test" => Test!LossIsSeen

\* rtl_test.c:233-248: the totals of the ppm test cover every buffer and every
\* tick once (PpmTest).
TotalsAreExact == tool = "rtl_test -p" => Ppm!TotalsAreExact

\* rtl_test.c:218 "PPM_DUMP_TIME throws out the first N seconds of data".
DumpIsRespected == tool = "rtl_test -p" => Ppm!DumpIsRespected

\* rtl_adsb.c:344-361: the demod thread keeps decoding as long as blocks come
\* in, whatever wake-ups it misses (RtlAdsb).
DecodingGoesOn == tool = "rtl_adsb" => Adsb!DecodingGoesOn

\* rtl_power.c:541-551, 641-718: a hop's sums hold its own frequency unless a
\* call failed on that hop; rtl_power.c:976-996: one report per interval
\* (RtlPower).
SweepSound == tool = "rtl_power" => Power!HopsKeptApart /\ Power!ReportsSpaced

\* rtl_fm.c:305-363, 733-781: where two blocks meet no audio is made up, and
\* less than a step of the oversampling is lost (FmBlocks).
AudioInTime == tool = "rtl_fm" => Fm!AudioInTime

\* "Signal caught, exiting!" (rtl_sdr.c:79, rtl_adsb.c:127), "finishing scan
\* pass" (rtl_power.c:176): each program comes to its end when its work is
\* done, its stream fails or a signal is received while it runs.
ToolsEnd ==
  /\ tool = "rtl_sdr" => Sdr!RecordingEnds
  /\ tool = "rtl_adsb" => Adsb!ShutdownCompletes
  /\ tool = "rtl_power" => Power!PowerEnds
=============================================================================
