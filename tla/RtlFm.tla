-------------------------------- MODULE RtlFm --------------------------------
(***************************************************************************)
(* The thread pipeline of the FM demodulator (src/src/rtl_fm.c).  The      *)
(* dongle thread sits in rtlsdr_read_async; its callback hands a block to  *)
(* the demod thread, which hands its result to the output thread or, when  *)
(* the channel is silent, asks the controller to hop to the next one.      *)
(* Threads wake each other with condition variables that guard no          *)
(* predicate (safe_cond_signal, safe_cond_wait): a signal that finds       *)
(* nobody waiting is lost.  The signal processing itself is left out; a    *)
(* block only has the channel it was captured on.                          *)
(***************************************************************************)
EXTENDS Naturals

CONSTANTS
    Channels,        \* controller.freq_len
    Squelch,         \* squelch_level is not 0
    conseq_squelch,  \* -t
    MaxSignals,      \* bound on the signals delivered
    MayLose          \* the device may fail

ASSUME ConstantsAssumption ==
    /\ Channels \in Nat \ {0} /\ Squelch \in BOOLEAN /\ conseq_squelch \in Nat
    /\ MaxSignals \in Nat /\ MayLose \in BOOLEAN
    /\ Channels > 1 => Squelch      \* sanity_checks

VARIABLES
    do_exit,       \* the flag every loop polls
    main,          \* the main thread, from the polling loop on
    pc,            \* where demod, output and controller are in their loops
    stream,        \* dongle.dev->async_status
    closed,        \* rtlsdr_close has returned
    dongle,        \* the dongle thread: created, streaming, ended
    tuned,         \* the channel the device is tuned to
    lowpassed,     \* the channel of the block in demod.lowpassed
    mute,          \* dongle.mute is set
    freq_now,      \* controller.freq_now
    squelch_hits,  \* demod.squelch_hits
    sig_pc,        \* rtlsdr_cancel_async in a signal handler: test, assign, none
    signals        \* signals so far

libVars == <<stream, closed>>
dataVars == <<tuned, lowpassed, mute, freq_now, squelch_hits>>
vars == <<do_exit, main, pc, libVars, dongle, dataVars, sig_pc, signals>>

Loops == {"demod", "output", "controller"}
Lib == INSTANCE StreamSession

(* squelch_hits starts above the default conseq_squelch (demod_init). *)
InitialHits == 11

Init ==
    /\ do_exit = FALSE /\ main = "poll"
    /\ pc = [t \in Loops |-> IF t = "controller" THEN "setup" ELSE "test"]
    /\ Lib!Init /\ dongle = "created"
    /\ tuned = 0 /\ lowpassed = 0 /\ mute = FALSE /\ freq_now = 0
    /\ squelch_hits = InitialHits
    /\ sig_pc = "none" /\ signals = 0

Goto(t, l) == [pc EXCEPT ![t] = l]

(* safe_cond_signal: p with the thread woken, if it waits. *)
Signalled(p, t) == [p EXCEPT ![t] = IF p[t] = "wait" THEN "woken" ELSE p[t]]

-----------------------------------------------------------------------------
(* The loop that the three threads share: while (!do_exit) safe_cond_wait. *)

LoopTest(t) ==
    /\ pc[t] = "test"
    /\ pc' = Goto(t, IF do_exit THEN "exited" ELSE "enter")
    /\ UNCHANGED <<do_exit, main, libVars, dongle, dataVars, sig_pc, signals>>

EnterWait(t) ==
    /\ pc[t] = "enter"
    /\ pc' = Goto(t, "wait")
    /\ UNCHANGED <<do_exit, main, libVars, dongle, dataVars, sig_pc, signals>>

(* pthread_cond_wait may return with nobody having signalled. *)
SpuriousWake(t) ==
    /\ pc[t] = "wait"
    /\ pc' = Goto(t, "woken")
    /\ UNCHANGED <<do_exit, main, libVars, dongle, dataVars, sig_pc, signals>>

-----------------------------------------------------------------------------
(* The dongle thread.                                                      *)

DongleStart ==
    /\ dongle = "created" /\ Lib!Start
    /\ dongle' = "streaming"
    /\ UNCHANGED <<do_exit, main, pc, dataVars, sig_pc, signals>>

DongleEnd ==
    /\ dongle = "streaming" /\ Lib!Finish
    /\ dongle' = "ended"
    /\ UNCHANGED <<do_exit, main, pc, dataVars, sig_pc, signals>>

DeviceLost ==
    /\ MayLose /\ dongle = "streaming" /\ Lib!RequestCancel
    /\ UNCHANGED <<do_exit, main, pc, dongle, dataVars, sig_pc, signals>>

(* rtlsdr_callback.  The block and the signal for it are two steps, the    *)
(* second under another lock than the first.  do_exit stops the callback.   *)
CallbackBlock ==
    /\ dongle = "streaming" /\ ~do_exit
    /\ mute' = FALSE
    /\ lowpassed' = tuned
    /\ dongle' = "signal"
    /\ UNCHANGED <<do_exit, main, pc, libVars, tuned, freq_now, squelch_hits,
                   sig_pc, signals>>

CallbackSignal ==
    /\ dongle = "signal"
    /\ pc' = Signalled(pc, "demod")
    /\ dongle' = "streaming"
    /\ UNCHANGED <<do_exit, main, libVars, dataVars, sig_pc, signals>>

-----------------------------------------------------------------------------
(* demod_thread_fn, after the wait.                                        *)

(* full_demod: a block below the squelch level counts.  terminate_on_squelch *)
(* is never looked at.                                                     *)
FullDemod ==
    /\ pc["demod"] = "woken"
    /\ \E quiet \in BOOLEAN :
           squelch_hits' = IF ~Squelch THEN squelch_hits
                           ELSE IF quiet THEN squelch_hits + 1 ELSE 0
    /\ pc' = Goto("demod", "squelch")
    /\ UNCHANGED <<do_exit, main, libVars, dongle, tuned, lowpassed, mute,
                   freq_now, sig_pc, signals>>

Squelched == Squelch /\ squelch_hits > conseq_squelch

DemodHop ==
    /\ pc["demod"] = "squelch" /\ Squelched
    /\ squelch_hits' = conseq_squelch + 1
    /\ pc' = Signalled(Goto("demod", "test"), "controller")
    /\ UNCHANGED <<do_exit, main, libVars, dongle, tuned, lowpassed, mute,
                   freq_now, sig_pc, signals>>

(* The result is copied, then the output thread is signalled. *)
DemodPublish ==
    /\ pc["demod"] = "squelch" /\ ~Squelched
    /\ pc' = Goto("demod", "publish")
    /\ UNCHANGED <<do_exit, main, libVars, dongle, dataVars, sig_pc, signals>>

DemodSignal ==
    /\ pc["demod"] = "publish"
    /\ pc' = Signalled(Goto("demod", "test"), "output")
    /\ UNCHANGED <<do_exit, main, libVars, dongle, dataVars, sig_pc, signals>>

(* output_thread_fn writes whatever the result is now. *)
OutputWrite ==
    /\ pc["output"] = "woken"
    /\ pc' = Goto("output", "test")
    /\ UNCHANGED <<do_exit, main, libVars, dongle, dataVars, sig_pc, signals>>

-----------------------------------------------------------------------------
(* controller_thread_fn.                                                   *)

ControllerSetup ==
    /\ pc["controller"] = "setup"
    /\ tuned' = 0
    /\ pc' = Goto("controller", "test")
    /\ UNCHANGED <<do_exit, main, libVars, dongle, lowpassed, mute, freq_now,
                   squelch_hits, sig_pc, signals>>

(* Mutant: the last channel is left out. *)
NextChannel_Short(f) == (f + 1) % (Channels - 1)
NextChannel(f) == (f + 1) % Channels

(* The channel that is tuned: optimal_settings comes after freq_now.       *)
HopTarget(f) == NextChannel(f)

ControllerHop ==
    /\ pc["controller"] = "woken"
    /\ IF Channels <= 1
       THEN pc' = Goto("controller", "test") /\ UNCHANGED <<freq_now, tuned>>
       ELSE /\ freq_now' = NextChannel(freq_now)
            /\ tuned' = HopTarget(freq_now)
            /\ pc' = Goto("controller", "mute")
    /\ UNCHANGED <<do_exit, main, libVars, dongle, lowpassed, mute,
                   squelch_hits, sig_pc, signals>>

ControllerMute ==
    /\ pc["controller"] = "mute"
    /\ mute' = TRUE
    /\ pc' = Goto("controller", "test")
    /\ UNCHANGED <<do_exit, main, libVars, dongle, tuned, lowpassed, freq_now,
                   squelch_hits, sig_pc, signals>>

-----------------------------------------------------------------------------
(* The main thread, and signals.                                           *)

(* rtlsdr_cancel_async tests the status and then assigns it, whatever      *)
(* happened in between (librtlsdr.c:2048-2049).                            *)
CancelAccepted == stream = "RUNNING"
CancelAssign == stream' = "CANCELING" /\ UNCHANGED closed

MainCancel ==
    /\ main = "poll" /\ do_exit
    /\ main' = (IF CancelAccepted THEN "assign" ELSE "join_dongle")
    /\ UNCHANGED <<do_exit, pc, libVars, dongle, dataVars, sig_pc, signals>>

MainAssign ==
    /\ main = "assign" /\ CancelAssign
    /\ main' = "join_dongle"
    /\ UNCHANGED <<do_exit, pc, dongle, dataVars, sig_pc, signals>>

JoinDongle ==
    /\ main = "join_dongle" /\ dongle = "ended"
    /\ main' = "join_demod" /\ pc' = Signalled(pc, "demod")
    /\ UNCHANGED <<do_exit, libVars, dongle, dataVars, sig_pc, signals>>

JoinDemod ==
    /\ main = "join_demod" /\ pc["demod"] = "exited"
    /\ main' = "join_output" /\ pc' = Signalled(pc, "output")
    /\ UNCHANGED <<do_exit, libVars, dongle, dataVars, sig_pc, signals>>

(* Wakes the controller.  Mutant: nobody does. *)
WakeController_Not(p) == p
WakeController(p) == Signalled(p, "controller")

JoinOutput ==
    /\ main = "join_output" /\ pc["output"] = "exited"
    /\ main' = "join_controller" /\ pc' = WakeController(pc)
    /\ UNCHANGED <<do_exit, libVars, dongle, dataVars, sig_pc, signals>>

(* The last join, the clean-ups and rtlsdr_close. *)
JoinController ==
    /\ main = "join_controller" /\ pc["controller"] = "exited"
    /\ Lib!Close
    /\ main' = "exited"
    /\ UNCHANGED <<do_exit, pc, dongle, dataVars, sig_pc, signals>>

(* sighandler, on any thread: do_exit, then rtlsdr_cancel_async.  What one *)
(* does to a device that main has closed meanwhile is undefined and left   *)
(* out.                                                                    *)
Signal ==
    /\ signals < MaxSignals /\ sig_pc = "none" /\ main # "exited"
    /\ do_exit' = TRUE /\ sig_pc' = "test" /\ signals' = signals + 1
    /\ UNCHANGED <<main, pc, libVars, dongle, dataVars>>

SignalTest ==
    /\ sig_pc = "test" /\ ~closed
    /\ sig_pc' = (IF CancelAccepted THEN "assign" ELSE "none")
    /\ UNCHANGED <<do_exit, main, pc, libVars, dongle, dataVars, signals>>

SignalAssign ==
    /\ sig_pc = "assign" /\ ~closed /\ CancelAssign
    /\ sig_pc' = "none"
    /\ UNCHANGED <<do_exit, main, pc, dongle, dataVars, signals>>

-----------------------------------------------------------------------------

DongleStep == DongleStart \/ DongleEnd \/ CallbackSignal
DemodStep == FullDemod \/ DemodHop \/ DemodPublish \/ DemodSignal
ControllerStep == ControllerSetup \/ ControllerHop \/ ControllerMute
MainStep == MainCancel \/ MainAssign \/ JoinDongle \/ JoinDemod \/ JoinOutput \/ JoinController
LoopStep(t) == LoopTest(t) \/ EnterWait(t)
SignalCancel == SignalTest \/ SignalAssign

Next ==
    \/ \E t \in Loops : LoopStep(t) \/ SpuriousWake(t)
    \/ DongleStep \/ CallbackBlock \/ DeviceLost
    \/ DemodStep \/ OutputWrite \/ ControllerStep
    \/ MainStep \/ Signal \/ SignalCancel

Spec == Init /\ [][Next]_vars

(* Every thread keeps running, and a streaming device delivers blocks.     *)
(* Nobody is obliged to send a signal, no device to fail, no wait to end   *)
(* without one.                                                            *)
Fairness ==
    /\ \A t \in Loops : WF_vars(LoopStep(t))
    /\ WF_vars(DongleStep) /\ WF_vars(CallbackBlock) /\ WF_vars(DemodStep)
    /\ WF_vars(OutputWrite) /\ WF_vars(ControllerStep)
    /\ WF_vars(MainStep) /\ WF_vars(SignalCancel)

FairSpec == Spec /\ Fairness

-----------------------------------------------------------------------------
(* Properties.                                                             *)

(* Type correctness; the channel index stays inside controller.freqs.      *)
TypeOK ==
    /\ do_exit \in BOOLEAN /\ mute \in BOOLEAN /\ closed \in BOOLEAN
    /\ main \in {"poll", "assign", "join_dongle", "join_demod", "join_output",
                 "join_controller", "exited"}
    /\ pc \in [Loops -> {"setup", "test", "enter", "wait", "woken", "squelch",
                         "publish", "mute", "exited"}]
    /\ stream \in {"INACTIVE", "RUNNING", "CANCELING"}
    /\ dongle \in {"created", "streaming", "signal", "ended"}
    /\ tuned \in 0..(Channels - 1) /\ freq_now \in 0..(Channels - 1)
    /\ lowpassed \in 0..(Channels - 1)
    /\ squelch_hits \in Nat /\ sig_pc \in {"none", "test", "assign"} /\ signals \in Nat

(* rtl_fm.c:828-831, 912-921: as long as the program runs and only quiet   *)
(* blocks come, the scanner keeps visiting every channel, although a hop   *)
(* request is lost when the controller is not waiting for it.              *)
ScanVisitsAll ==
    \A c \in 0..(Channels - 1) :
        []<>(tuned = c) \/ []<>(squelch_hits = 0) \/ <>(do_exit \/ dongle = "ended")

(* A cancel assigned its status after the read had ended: rtlsdr_close     *)
(* waits for ever for a stream that nobody reads.                          *)
StaleCancel == stream = "CANCELING" /\ dongle = "ended"

(* rtl_fm.c:1269-1286: the shutdown of main, each thread signalled once    *)
(* and joined in the order of the pipeline, comes to its end whatever the  *)
(* threads were doing, with three exceptions: the stream had not begun     *)
(* when main cancelled it; a thread was between its test of do_exit and    *)
(* its wait, and misses its only wake-up; or the cancel of one thread, of  *)
(* main and the signal handler, was overtaken by the end of the read that  *)
(* the other or the device had cancelled.                                  *)
ShutdownCompletes ==
    (/\ main = "join_dongle" /\ dongle # "created" /\ stream # "RUNNING"
     /\ \A t \in Loops : pc[t] # "enter")
        ~> (main = "exited" \/ StaleCancel)

(* rtl_fm.c:1265 "User cancel, exiting...": the same without exception.    *)
ExitsWhenTold == (main = "join_dongle") ~> (main = "exited")
=============================================================================
