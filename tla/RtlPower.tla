------------------------------ MODULE RtlPower ------------------------------
(***************************************************************************)
(* The main loop of rtl_power (src/src/rtl_power.c): scanner visits every  *)
(* hop of the plan (PowerMath) and adds what it reads to the hop's sums;   *)
(* once per interval the sums are printed and cleared.  Results of the     *)
(* library's calls are not looked at: a failed one leaves wrong data.      *)
(*                                                                         *)
(* Hops are numbered from 1, and hop h wants frequency h; 0 is any other   *)
(* frequency.  Signals come between any two visits and only count up       *)
(* do_exit, which a visit reads once, at its start.                        *)
(***************************************************************************)
EXTENDS Integers, Sequences

CONSTANTS
    Hops,          \* tune_count
    Interval,      \* -i, in seconds
    ExitTimes,     \* values of -e, 0 for none
    Clock,         \* bound on the clock
    MaxSignals,    \* bound on the signals delivered
    MaxFaults      \* bound on the library calls that fail

VARIABLES
    single, exit_after,   \* -1 and -e
    main,        \* loop, scan, ticks, exited
    do_exit,     \* signals so far; -1 and -e set it to 1
    hop,         \* the hop to be visited
    time,        \* seconds since the scan began
    next_tick,
    dev_freq,    \* rtlsdr_get_center_freq
    at, fifo,    \* what the tuner receives, and what waits to be read
    buf8,        \* per hop: the frequencies its buffer holds samples of
    avg,         \* per hop: those that were added up since the last report
    sampled,     \* per hop: whether anything was
    faulty,      \* history: hops visited with a failing call since then
    reports,     \* history: the times of the reports
    gaps,        \* history: a hop was reported that had no samples
    signals, faults

deviceVars == << dev_freq, at, fifo >>
sumVars == << buf8, avg, sampled, faulty >>
optionVars == << single, exit_after >>
vars == << optionVars, main, do_exit, hop, time, next_tick, deviceVars, sumVars,
           reports, gaps, signals, faults >>

AllHops == 1..Hops

\* buf8 is not initialised; the library's frequency is 0 after opening.
Init ==
    /\ single \in BOOLEAN /\ exit_after \in ExitTimes
    /\ main = "loop" /\ do_exit = 0 /\ hop = 1 /\ time = 0 /\ next_tick = Interval
    /\ dev_freq = 0 /\ at = 0 /\ fifo = 0
    /\ buf8 = [h \in AllHops |-> {0}]
    /\ avg = [h \in AllHops |-> {}] /\ sampled = [h \in AllHops |-> FALSE]
    /\ faulty = {} /\ reports = << >> /\ gaps = FALSE /\ signals = 0 /\ faults = 0

\* Mutant: only the first signal is noticed.
LoopEnds_First == do_exit = 1

\* while (!do_exit)
LoopEnds == do_exit # 0

\* fclose and rtlsdr_close end the program.
Loop ==
    /\ main = "loop"
    /\ IF LoopEnds THEN main' = "exited" /\ UNCHANGED hop
                   ELSE main' = "scan" /\ hop' = 1
    /\ UNCHANGED << optionVars, do_exit, time, next_tick, deviceVars, sumVars,
                    reports, gaps, signals, faults >>

\* Mutant: what was received on the last hop is not thrown away.
Flushed_Not(waiting, received) == waiting

\* The samples that wait after a successful read of BUFFER_DUMP bytes.
Flushed(waiting, received) == received

\* retune, where needed: rtlsdr_set_center_freq forgets the frequency when the
\* tuner fails, which then receives the old, the new or some other one.
Tunings(h) ==
    IF dev_freq = h THEN {[freq |-> h, at |-> at, fifo |-> fifo, ok |-> TRUE]}
    ELSE {[freq |-> h, at |-> h, fifo |-> Flushed(fifo, h), ok |-> TRUE],
          [freq |-> h, at |-> h, fifo |-> fifo, ok |-> FALSE]}
         \cup {[freq |-> 0, at |-> f, fifo |-> w, ok |-> FALSE] :
                 f \in {0, at, h}, w \in {fifo, Flushed(fifo, h)}}

\* rtlsdr_read_sync into buf8: all of it, or some part when it fails.
Reads(tuning, old) ==
    {[data |-> {tuning.fifo, tuning.at}, ok |-> TRUE]}
    \cup {[data |-> old \cup new, ok |-> FALSE] : new \in {{}, {tuning.fifo, tuning.at}}}

\* One turn of scanner's loop; the FFT or rms_power of the whole buffer is
\* added to avg whatever the calls returned.
Visit ==
    /\ main = "scan" /\ hop <= Hops /\ do_exit < 2
    /\ \E tuning \in Tunings(hop) : \E read \in Reads(tuning, buf8[hop]) :
         /\ faults' = faults + (IF tuning.ok THEN 0 ELSE 1) + (IF read.ok THEN 0 ELSE 1)
         /\ faults' <= MaxFaults
         /\ dev_freq' = tuning.freq /\ at' = tuning.at /\ fifo' = tuning.at
         /\ buf8' = [buf8 EXCEPT ![hop] = read.data]
         /\ avg' = [avg EXCEPT ![hop] = @ \cup read.data]
         /\ faulty' = IF tuning.ok /\ read.ok THEN faulty ELSE faulty \cup {hop}
    /\ sampled' = [sampled EXCEPT ![hop] = TRUE]
    /\ hop' = hop + 1
    /\ UNCHANGED << optionVars, main, do_exit, time, next_tick, reports, gaps, signals >>

\* scanner is done, or was aborted by a second signal; when it is time, every
\* hop is printed and cleared by csv_dbm.
ScanEnds ==
    /\ main = "scan" /\ (hop > Hops \/ do_exit >= 2)
    /\ IF time < next_tick
       THEN main' = "loop" /\ UNCHANGED << avg, sampled, faulty, reports, gaps >>
       ELSE /\ main' = "ticks"
            /\ avg' = [h \in AllHops |-> {}] /\ sampled' = [h \in AllHops |-> FALSE]
            /\ faulty' = {} /\ reports' = Append(reports, time)
            /\ gaps' = (gaps \/ \E h \in AllHops : ~sampled[h])
    /\ UNCHANGED << optionVars, do_exit, hop, time, next_tick, deviceVars, buf8, signals, faults >>

\* Mutant: one interval is added, however long the pass took.
NextTick_Once(tick, now) == tick + Interval

\* while (time(NULL) >= next_tick) next_tick += interval
NextTick(tick, now) ==
    IF now < tick THEN tick ELSE tick + Interval * (1 + (now - tick) \div Interval)

Ticks ==
    /\ main = "ticks" /\ main' = "loop"
    /\ next_tick' = NextTick(next_tick, time)
    /\ do_exit' = IF single \/ (exit_after > 0 /\ time >= exit_after) THEN 1 ELSE do_exit
    /\ UNCHANGED << optionVars, hop, time, deviceVars, sumVars, reports, gaps, signals, faults >>

Sighandler ==
    /\ signals < MaxSignals /\ main # "exited"
    /\ do_exit' = do_exit + 1 /\ signals' = signals + 1
    /\ UNCHANGED << optionVars, main, hop, time, next_tick, deviceVars, sumVars,
                    reports, gaps, faults >>

\* A second passes.
ClockTicks ==
    /\ time < Clock /\ main # "exited" /\ time' = time + 1
    /\ UNCHANGED << optionVars, main, do_exit, hop, next_tick, deviceVars, sumVars,
                    reports, gaps, signals, faults >>

Main == Loop \/ Visit \/ ScanEnds \/ Ticks

Next == Main \/ Sighandler \/ ClockTicks

Spec == Init /\ [][Next]_vars

(* The thread keeps running, every read returns, and time passes. *)
FairSpec == Spec /\ WF_vars(Main) /\ WF_vars(ClockTicks)

-----------------------------------------------------------------------------
\* Type correctness: a hop within the plan, a frequency of the plan or some
\* other one, and sums of both (rtl_power.c:641-718).
Freqs == 0..Hops

TypeOK ==
    /\ single \in BOOLEAN /\ exit_after \in ExitTimes /\ gaps \in BOOLEAN
    /\ main \in {"loop", "scan", "ticks", "exited"}
    /\ do_exit \in Nat /\ time \in Nat /\ next_tick \in Nat
    /\ signals \in Nat /\ faults \in Nat
    /\ hop \in 1..(Hops + 1)
    /\ dev_freq \in Freqs /\ at \in Freqs /\ fifo \in Freqs
    /\ buf8 \in [AllHops -> SUBSET Freqs] /\ avg \in [AllHops -> SUBSET Freqs]
    /\ sampled \in [AllHops -> BOOLEAN] /\ faulty \subseteq AllHops
    /\ reports \in Seq(Nat)

\* rtl_power.c:541-551, 649-661, 757-760: the sums of a hop hold samples of
\* its own frequency only, unless a call failed during a visit to that very
\* hop since the last report: a failure on one hop spoils no other hop and
\* no later report.  A hop without samples (printed as not-a-number) is only
\* reported after a second signal.
HopsKeptApart ==
    /\ \A h \in AllHops : avg[h] \subseteq {h} \/ h \in faulty
    /\ gaps => signals > 1

\* rtl_power.c:982-996 "Reporting every %i seconds": no two reports are made
\* in the same interval, however long the passes take.
ReportsSpaced ==
    \A i, j \in DOMAIN reports :
        i < j => reports[i] \div Interval < reports[j] \div Interval

\* rtl_power.c:176 "Signal caught, finishing scan pass.", 129 "single-shot
\* mode", 130 "exit_timer": each of them ends the program.
PowerEnds == (signals > 0 \/ single \/ exit_after > 0) ~> (main = "exited")
=============================================================================
