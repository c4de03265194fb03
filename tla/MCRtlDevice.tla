---------------------------- MODULE MCRtlDevice ----------------------------
EXTENDS RtlDevice

\* What a program calls: on the R820T everything but the two calls that only
\* test the hardware and the two that change the clocks, on the E4000 the
\* calls of a program that uses offset tuning and leaves direct sampling
\* alone, without a known tuner everything.
MCCalls == [R820T |-> CallNames \ {"set_testmode", "set_agc_mode", "set_xtal_freq",
                                   "set_freq_correction"},
            E4000 |-> CallNames \ {"set_direct_sampling", "set_tuner_gain",
                                   "set_tuner_gain_mode", "set_testmode", "set_agc_mode"},
            UNKNOWN |-> CallNames]
=============================================================================
