------------------------------- MODULE RtlSdr -------------------------------
(***************************************************************************)
(* The recorder (src/src/rtl_sdr.c): one thread writes the blocks of the   *)
(* stream to a file, in async mode from the callback of rtlsdr_read_async, *)
(* in sync mode in a loop around rtlsdr_read_sync, until -n samples are    *)
(* written, a signal arrives or something fails.  Signal handlers run on   *)
(* the only thread, between any two of its steps.                          *)
(***************************************************************************)
EXTENDS Integers

CONSTANTS
    Samples,      \* values of -n, 0 for no limit
    Modes,        \* values of sync_mode
    BlockSize,    \* out_block_size, in bytes
    Word,         \* 2^32, the range of the uint32_t bytes_to_read
    MaxSignals,   \* bound on the signals delivered
    MaxWritten    \* bound on the bytes written when there is no limit

VARIABLES
    samples,        \* -n
    sync_mode,      \* -S
    main,           \* setup, recording, finishing, exited
    do_exit,        \* set by the handler and by the last block
    bytes_to_read,  \* what is left of -n; 0 for no limit
    stream, closed, \* the library, as StreamSession
    written,        \* bytes in the file
    failed,         \* history: a read, a write or the stream failed
    signals,        \* signals so far
    heard           \* history: a signal came in sync mode or after the start

libVars == <<stream, closed>>
options == <<samples, sync_mode>>
vars == <<options, main, do_exit, bytes_to_read, libVars, written, failed, signals, heard>>

Lib == INSTANCE StreamSession

Init ==
    /\ samples \in Samples /\ sync_mode \in Modes
    /\ main = "setup" /\ do_exit = FALSE
    /\ bytes_to_read = (2 * samples) % Word
    /\ Lib!Init /\ written = 0 /\ failed = FALSE /\ signals = 0 /\ heard = FALSE

(* Mutant: the stream is not cancelled.                                    *)
CancelAsync_Never == UNCHANGED libVars
CancelAsync == IF stream = "RUNNING" THEN Lib!RequestCancel ELSE UNCHANGED libVars

(* rtlsdr_read_sync may return less than a block; a transfer of the        *)
(* stream comes whole.                                                     *)
Lengths == IF sync_mode THEN 1..BlockSize ELSE {BlockSize}

(* The last block is the one that is longer than what is left.             *)
LastBlock(len) == bytes_to_read > 0 /\ bytes_to_read < len

(* Bytes of a block that are to be written.  Mutants: the last block is    *)
(* written whole; it is left out.                                          *)
Wanted_Whole(len) == len
Wanted_Nothing(len) == IF LastBlock(len) THEN 0 ELSE len
Wanted(len) == IF LastBlock(len) THEN bytes_to_read ELSE len

LeftAfter(n) == IF bytes_to_read > 0 THEN (Word + bytes_to_read - n) % Word ELSE 0

Start ==
    /\ main = "setup"
    /\ IF sync_mode THEN UNCHANGED libVars ELSE Lib!Start
    /\ main' = "recording"
    /\ UNCHANGED <<options, do_exit, bytes_to_read, written, failed, signals, heard>>

-----------------------------------------------------------------------------
(* Async mode: rtlsdr_callback, and the end of rtlsdr_read_async.          *)

(* Both cancels of the callback happen in one step of the only thread; a   *)
(* short write cancels but does not set do_exit.                           *)
RtlsdrCallback(len) ==
    /\ main = "recording" /\ ~sync_mode /\ stream # "INACTIVE"
    /\ ~do_exit /\ written < MaxWritten
    /\ LET n == Wanted(len)
       IN  \/ /\ written' = written + n
              /\ IF LastBlock(len) THEN CancelAsync ELSE UNCHANGED libVars
              /\ UNCHANGED failed
           \/ /\ \E k \in 0..(n - 1) : written' = written + k
              /\ CancelAsync /\ failed' = TRUE
    /\ bytes_to_read' = LeftAfter(Wanted(len))
    /\ do_exit' = (do_exit \/ LastBlock(len))
    /\ UNCHANGED <<options, main, signals, heard>>

StreamFails ==
    /\ main = "recording" /\ ~sync_mode
    /\ Lib!RequestCancel /\ failed' = TRUE
    /\ UNCHANGED <<options, main, do_exit, bytes_to_read, written, signals, heard>>

EndAsync ==
    /\ main = "recording" /\ ~sync_mode
    /\ Lib!Finish
    /\ main' = "finishing"
    /\ UNCHANGED <<options, do_exit, bytes_to_read, written, failed, signals, heard>>

-----------------------------------------------------------------------------
(* Sync mode.  A block cut to the limit is shorter than out_block_size and *)
(* ends the loop as a short read.                                          *)
SyncRead(len) ==
    /\ main = "recording" /\ sync_mode /\ ~do_exit /\ written < MaxWritten
    /\ LET n == Wanted(len)
       IN  \/ /\ written' = written + n
              /\ failed' = (failed \/ (n < BlockSize /\ ~LastBlock(len)))
              /\ IF n < BlockSize
                 THEN main' = "finishing" /\ UNCHANGED bytes_to_read
                 ELSE bytes_to_read' = LeftAfter(n) /\ UNCHANGED main
           \/ /\ \E k \in 0..(n - 1) : written' = written + k
              /\ main' = "finishing" /\ failed' = TRUE
              /\ UNCHANGED bytes_to_read
    /\ do_exit' = LastBlock(len)
    /\ UNCHANGED <<options, libVars, signals, heard>>

SyncReadFails ==
    /\ main = "recording" /\ sync_mode /\ ~do_exit
    /\ main' = "finishing" /\ failed' = TRUE
    /\ UNCHANGED <<options, do_exit, bytes_to_read, libVars, written, signals, heard>>

(* Mutant: the loop only ends at the limit.                                *)
SyncExit_AtLimit ==
    /\ main = "recording" /\ sync_mode /\ do_exit /\ bytes_to_read = 0
    /\ main' = "finishing"
    /\ UNCHANGED <<options, do_exit, bytes_to_read, libVars, written, failed, signals, heard>>

SyncExit ==
    /\ main = "recording" /\ sync_mode /\ do_exit
    /\ main' = "finishing"
    /\ UNCHANGED <<options, do_exit, bytes_to_read, libVars, written, failed, signals, heard>>

-----------------------------------------------------------------------------
(* fclose, rtlsdr_close. *)
Finish ==
    /\ main = "finishing" /\ Lib!Close
    /\ main' = "exited"
    /\ UNCHANGED <<options, do_exit, bytes_to_read, written, failed, signals, heard>>

Sighandler ==
    /\ signals < MaxSignals /\ main # "exited"
    /\ do_exit' = TRUE /\ CancelAsync /\ signals' = signals + 1
    /\ heard' = (heard \/ sync_mode \/ main # "setup")
    /\ UNCHANGED <<options, main, bytes_to_read, written, failed>>

Recording ==
    \/ Start \/ EndAsync \/ SyncExit \/ Finish
    \/ \E len \in Lengths : RtlsdrCallback(len) \/ SyncRead(len)

Next == Recording \/ StreamFails \/ SyncReadFails \/ Sighandler

(* The thread keeps running and a streaming device delivers; the library   *)
(* ends a cancelled stream even while blocks keep coming.                  *)
Spec == Init /\ [][Next]_vars
FairSpec == Spec /\ WF_vars(Recording) /\ WF_vars(EndAsync)

-----------------------------------------------------------------------------
(* Type correctness; the uint32_t bytes_to_read never wraps below zero     *)
(* (rtl_sdr.c:102-103).                                                    *)
TypeOK ==
    /\ main \in {"setup", "recording", "finishing", "exited"}
    /\ samples \in Samples /\ {sync_mode, do_exit, failed, closed, heard} \subseteq BOOLEAN
    /\ bytes_to_read \in 0..(Word - 1)
    /\ stream \in {"INACTIVE", "RUNNING", "CANCELING"}
    /\ written \in Nat /\ signals \in 0..MaxSignals

(* The limit, two bytes a sample, leaves a shorter last block.  A whole    *)
(* number of blocks brings bytes_to_read to 0, taken for no limit.         *)
HasLastBlock == (samples + samples) % BlockSize # 0

(* rtl_sdr.c:56 "-n number of samples to read (default: 0, infinite)":     *)
(* never more than that many samples are written, but where they fill      *)
(* whole blocks (rtl_sdr.c:91, 102-103); what ends without a failure or a  *)
(* signal has every one of them, and had a last block to end at.           *)
RecordingExact ==
    /\ HasLastBlock => written <= 2 * samples
    /\ main = "exited" /\ ~failed /\ signals = 0 => HasLastBlock /\ written = 2 * samples

(* rtl_sdr.c:79 "Signal caught, exiting!": a recording with a last block   *)
(* comes to its end by itself, and a signal ends any, but for one that     *)
(* comes before the stream it should cancel has begun and stops only the   *)
(* callback.                                                               *)
RecordingEnds ==
    /\ <>(main = "exited" \/ ~HasLastBlock \/ (signals > 0 /\ ~heard))
    /\ heard ~> (main = "exited")
=============================================================================
