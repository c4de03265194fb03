------------------------------ MODULE PpmTest ------------------------------
(***************************************************************************)
(* ppm_test of rtl_test (src/src/rtl_test.c:208-249): measuring the real   *)
(* sample rate from the buffers that arrive and the monotonic clock, in    *)
(* periods of at least ppm_duration seconds, after a time in which the     *)
(* data is thrown away.  Time is counted in ticks, Second of them to one   *)
(* tv_sec; the rest is tv_nsec.  A buffer brings one unit of samples.      *)
(***************************************************************************)
EXTENDS Integers

CONSTANTS
    Second,         \* ticks of a second
    ppm_duration,   \* -p
    PPM_DUMP_TIME,  \* 5
    MaxTime         \* bound on the clock

VARIABLES
    now,              \* the clock
    ppm_init,         \* PPM_INIT_NO, _DUMP, _RUN
    ppm_recent,       \* start of the period
    nsamples, nsamples_total, interval_total,
    first, started,   \* history: the first call, and the start of RUN
    seen              \* history: buffers since then

vars == << now, ppm_init, ppm_recent, nsamples, nsamples_total, interval_total,
           first, started, seen >>

tv_sec(t) == t \div Second
tv_nsec(t) == t % Second

Init == /\ now = 0 /\ ppm_init = "NO" /\ ppm_recent = 0
        /\ nsamples = 0 /\ nsamples_total = 0 /\ interval_total = 0
        /\ first = 0 /\ started = 0 /\ seen = 0

Tick == /\ now < MaxTime /\ now' = now + 1
        /\ UNCHANGED << ppm_init, ppm_recent, nsamples, nsamples_total,
                        interval_total, first, started, seen >>

FirstCall ==
    /\ ppm_init = "NO" /\ ppm_init' = "DUMP"
    /\ ppm_recent' = (tv_sec(now) + PPM_DUMP_TIME) * Second
    /\ first' = now
    /\ UNCHANGED << now, nsamples, nsamples_total, interval_total, started, seen >>

\* The data is thrown away as long as this holds.
Dumping(t) == tv_sec(ppm_recent) < tv_sec(t)

DumpCall ==
    /\ ppm_init = "DUMP" /\ ~Dumping(now)
    /\ ppm_init' = "RUN" /\ ppm_recent' = now /\ started' = now
    /\ UNCHANGED << now, nsamples, nsamples_total, interval_total, first, seen >>

\* interval, once it is in the unit of tv_nsec
Elapsed(t) == (tv_sec(t) - tv_sec(ppm_recent)) * Second
               + (tv_nsec(t) - tv_nsec(ppm_recent))

\* Mutant: nsamples is not reset.
NewPeriod_Kept(n) == n

\* nsamples at the start of a period
NewPeriod(n) == 0

RunCall ==
    /\ ppm_init = "RUN" /\ seen' = seen + 1
    /\ IF tv_sec(now) - tv_sec(ppm_recent) < ppm_duration
       THEN /\ nsamples' = nsamples + 1
            /\ UNCHANGED << ppm_recent, nsamples_total, interval_total >>
       ELSE /\ nsamples_total' = nsamples_total + nsamples + 1
            /\ interval_total' = interval_total + Elapsed(now)
            /\ ppm_recent' = now /\ nsamples' = NewPeriod(nsamples + 1)
    /\ UNCHANGED << now, ppm_init, first, started >>

\* A call while dumping changes nothing.
Call == seen < MaxTime /\ (FirstCall \/ DumpCall \/ RunCall)

Next == Tick \/ Call

Spec == Init /\ [][Next]_vars

-----------------------------------------------------------------------------
\* rtl_test.c:233-248: over any number of periods, whole seconds or not, the
\* totals behind "cumulative PPM" count every buffer since the measurement
\* started exactly once, over exactly the time that has passed.
TotalsAreExact ==
    /\ nsamples_total + nsamples = seen
    /\ interval_total = IF ppm_init = "RUN" THEN ppm_recent - started ELSE 0

\* rtl_test.c:218 "PPM_DUMP_TIME throws out the first N seconds of data".
DumpIsRespected ==
    ppm_init = "RUN" => tv_sec(started) >= tv_sec(first) + PPM_DUMP_TIME
=============================================================================
