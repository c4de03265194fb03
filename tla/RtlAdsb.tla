------------------------------- MODULE RtlAdsb -------------------------------
(***************************************************************************)
(* The threads of rtl_adsb (src/src/rtl_adsb.c).  main sits in             *)
(* rtlsdr_read_async; its callback copies each block into one buffer and   *)
(* signals the demod thread, which decodes that buffer in place            *)
(* (AdsbDecoder) and waits again.  There is no lock on the buffer and no   *)
(* predicate behind the condition variable.  At the end main cancels the   *)
(* demod thread, which then dies at the next point that allows it.         *)
(***************************************************************************)
EXTENDS Naturals

CONSTANT MaxSignals   \* bound on the signals delivered

VARIABLES
    do_exit,
    main,      \* setup, streaming, copied, cancel, kill, join, exited
    demod,     \* none, test, enter, wait, woken, decoding, leave, assign, exited
    killed,    \* pthread_cancel(demod_thread) was called
    stream, closed,   \* the stream of the device (StreamSession)
    sig_pc,    \* rtlsdr_cancel_async in a signal handler: test, assign, none
    signals,
    heard      \* history: a signal came while the stream was on

libVars == <<stream, closed>>
vars == <<do_exit, main, demod, killed, libVars, sig_pc, signals, heard>>

Lib == INSTANCE StreamSession

Init ==
    /\ do_exit = FALSE /\ main = "setup" /\ demod = "none" /\ killed = FALSE
    /\ Lib!Init /\ sig_pc = "none" /\ signals = 0
    /\ heard = FALSE

(* rtlsdr_cancel_async tests the status and then assigns it, whatever      *)
(* happened in between (librtlsdr.c:2048-2049).                            *)
CancelAccepted == stream = "RUNNING"
CancelAssign == stream' = "CANCELING" /\ UNCHANGED closed

-----------------------------------------------------------------------------
(* main, and the callback that runs in it.                                 *)

CreateDemod ==
    /\ main = "setup" /\ demod = "none"
    /\ demod' = "test"
    /\ UNCHANGED <<do_exit, main, killed, libVars, sig_pc, signals, heard>>

StartStream ==
    /\ main = "setup" /\ demod # "none" /\ Lib!Start
    /\ main' = "streaming"
    /\ UNCHANGED <<do_exit, demod, killed, sig_pc, signals, heard>>

(* Copy and signal are two steps: the demod thread may still be decoding.  *)
(* A thread that is not waiting misses the signal.                         *)
CallbackCopy ==
    /\ main = "streaming" /\ stream # "INACTIVE" /\ ~do_exit
    /\ main' = "copied"
    /\ UNCHANGED <<do_exit, demod, killed, libVars, sig_pc, signals, heard>>

(* Mutant: nobody is signalled.                                            *)
Woken_Not == demod
Woken == IF demod = "wait" THEN "woken" ELSE demod

CallbackSignal ==
    /\ main = "copied"
    /\ main' = "streaming"
    /\ demod' = Woken
    /\ UNCHANGED <<do_exit, killed, libVars, sig_pc, signals, heard>>

StreamFails ==
    /\ main = "streaming" /\ Lib!RequestCancel
    /\ UNCHANGED <<do_exit, main, demod, killed, sig_pc, signals, heard>>

StreamEnds ==
    /\ main = "streaming" /\ Lib!Finish
    /\ main' = "cancel"
    /\ UNCHANGED <<do_exit, demod, killed, sig_pc, signals, heard>>

(* The read has returned, so that this cancel is refused. *)
MainCancel ==
    /\ main = "cancel" /\ ~CancelAccepted
    /\ main' = "kill"
    /\ UNCHANGED <<do_exit, demod, killed, libVars, sig_pc, signals, heard>>

(* Mutant: the thread is only woken, as rtl_fm does. *)
KillDemod_Wakes ==
    /\ killed' = killed
    /\ demod' = IF demod = "wait" THEN "woken" ELSE demod

KillDemod == killed' = TRUE /\ UNCHANGED demod

MainKill ==
    /\ main = "kill" /\ KillDemod
    /\ main' = "join"
    /\ UNCHANGED <<do_exit, libVars, sig_pc, signals, heard>>

(* pthread_join, the clean-ups, rtlsdr_close and free(buffer). *)
MainEnd ==
    /\ main = "join" /\ demod = "exited" /\ Lib!Close
    /\ main' = "exited"
    /\ UNCHANGED <<do_exit, demod, killed, sig_pc, signals, heard>>

-----------------------------------------------------------------------------
(* demod_thread_fn.                                                        *)

LoopTest ==
    /\ demod = "test"
    /\ demod' = IF do_exit THEN "leave" ELSE "enter"
    /\ UNCHANGED <<do_exit, main, killed, libVars, sig_pc, signals, heard>>

(* A thread that was cancelled does not get past pthread_cond_wait. *)
EnterWait ==
    /\ demod = "enter"
    /\ demod' = IF killed THEN "exited" ELSE "wait"
    /\ UNCHANGED <<do_exit, main, killed, libVars, sig_pc, signals, heard>>

SpuriousWake ==
    /\ demod = "wait" /\ ~killed
    /\ demod' = "woken"
    /\ UNCHANGED <<do_exit, main, killed, libVars, sig_pc, signals, heard>>

KilledWaiting ==
    /\ demod = "wait" /\ killed
    /\ demod' = "exited"
    /\ UNCHANGED <<do_exit, main, killed, libVars, sig_pc, signals, heard>>

DecodeBegins ==
    /\ demod = "woken"
    /\ demod' = "decoding"
    /\ UNCHANGED <<do_exit, main, killed, libVars, sig_pc, signals, heard>>

(* display and fflush allow the cancellation too, where there is a frame.  *)
DecodeEnds ==
    /\ demod = "decoding"
    /\ demod' \in IF killed THEN {"test", "exited"} ELSE {"test"}
    /\ UNCHANGED <<do_exit, main, killed, libVars, sig_pc, signals, heard>>

DemodLeaves ==
    /\ demod = "leave"
    /\ demod' = (IF CancelAccepted THEN "assign" ELSE "exited")
    /\ UNCHANGED <<do_exit, main, killed, libVars, sig_pc, signals, heard>>

DemodAssign ==
    /\ demod = "assign" /\ CancelAssign
    /\ demod' = "exited"
    /\ UNCHANGED <<do_exit, main, killed, sig_pc, signals, heard>>

-----------------------------------------------------------------------------
(* sighandler, on either thread: do_exit, then rtlsdr_cancel_async.  What  *)
(* one does to a device that main has closed meanwhile is undefined and    *)
(* left out.                                                               *)
Signal ==
    /\ signals < MaxSignals /\ sig_pc = "none" /\ main # "exited"
    /\ do_exit' = TRUE /\ sig_pc' = "test" /\ signals' = signals + 1
    /\ heard' = (heard \/ stream # "INACTIVE")
    /\ UNCHANGED <<main, demod, killed, libVars>>

SignalTest ==
    /\ sig_pc = "test" /\ ~closed
    /\ sig_pc' = (IF CancelAccepted THEN "assign" ELSE "none")
    /\ UNCHANGED <<do_exit, main, demod, killed, libVars, signals, heard>>

SignalAssign ==
    /\ sig_pc = "assign" /\ ~closed /\ CancelAssign
    /\ sig_pc' = "none"
    /\ UNCHANGED <<do_exit, main, demod, killed, signals, heard>>

MainStep == CreateDemod \/ StartStream \/ CallbackSignal \/ StreamEnds
            \/ MainCancel \/ MainKill \/ MainEnd
DemodStep == LoopTest \/ EnterWait \/ KilledWaiting \/ DecodeBegins
             \/ DecodeEnds \/ DemodLeaves \/ DemodAssign
SignalCancel == SignalTest \/ SignalAssign

Next == MainStep \/ CallbackCopy \/ StreamFails \/ DemodStep \/ SpuriousWake
        \/ Signal \/ SignalCancel

Spec == Init /\ [][Next]_vars

(* Both threads keep running and a signal handler completes; a cancelled   *)
(* stream delivers what had come in and then ends.                         *)
FairSpec == Spec /\ WF_vars(MainStep) /\ SF_vars(StreamEnds)
            /\ WF_vars(DemodStep) /\ WF_vars(SignalCancel)

-----------------------------------------------------------------------------
(* rtl_adsb.c:344-350, 352-361: as long as blocks come in, the demod       *)
(* thread decodes again and again, although it misses every wake-up that   *)
(* is sent between its test of do_exit and its wait, or while it decodes.  *)
DecodingGoesOn == []<>(main = "copied") => []<>(demod = "decoding")

(* A cancel assigned its status after the read had ended: rtlsdr_close     *)
(* waits for ever for a stream that nobody reads.                          *)
StaleCancel == stream = "CANCELING" /\ main \notin {"streaming", "copied"}

(* rtl_adsb.c:127 "Signal caught, exiting!", 352-363, 494-505: however the *)
(* stream ends, by a signal or by the library, and wherever the demod      *)
(* thread is at that moment, it dies and the program exits, although a     *)
(* wake-up may have been lost; but not when the cancel of the demod thread *)
(* or of a signal handler is overtaken by the end of the read.             *)
ShutdownCompletes ==
    (heard \/ main = "cancel") ~> (main = "exited" \/ StaleCancel)
=============================================================================
