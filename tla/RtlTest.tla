------------------------------ MODULE RtlTest ------------------------------
(***************************************************************************)
(* The loss test of rtl_test (src/src/rtl_test.c).  In test mode the       *)
(* RTL2832 sends an 8-bit counter; underrun_test follows it, adds up what  *)
(* is missing, and main prints the share that was lost.                    *)
(*                                                                         *)
(* Counter stands for 256, the range of the uint8_t bcnt.  A buffer is     *)
(* given by the number of bytes the dongle dropped before each of its      *)
(* bytes, which the program cannot see.                                    *)
(***************************************************************************)
EXTENDS Integers

CONSTANTS
    Counter,      \* values of the test counter
    BufLen,       \* bytes in a buffer
    TestModes,    \* values of sync_mode
    MaxDrop,      \* most bytes lost at one place
    MaxBuffers,   \* bound on the buffers delivered
    MaxSignals    \* bound on the signals delivered

VARIABLES
    sync_mode,        \* -S
    main,             \* setup, reading, report, exited, crashed
    do_exit,          \* set by the handler
    stream, closed,   \* the library, as StreamSession
    source,           \* the dongle's counter
    bcnt, uninit,     \* what underrun_test expects next
    total_samples, dropped_samples,
    lost,             \* history: bytes really lost, after the first one
    visible,          \* history: some loss was no multiple of Counter
    signals

libVars == << stream, closed >>
testVars == << source, bcnt, uninit, total_samples, dropped_samples, lost, visible >>
vars == << sync_mode, main, do_exit, libVars, testVars, signals >>

Lib == INSTANCE StreamSession

Init ==
    /\ sync_mode \in TestModes
    /\ main = "setup" /\ do_exit = FALSE /\ Lib!Init /\ signals = 0
    /\ source \in 0..(Counter - 1) /\ bcnt = 0 /\ uninit = TRUE
    /\ total_samples = 0 /\ dropped_samples = 0 /\ lost = 0 /\ visible = FALSE

\* Mutant: only a counter that jumped ahead counts.
Missing_Ahead(expected, byte) == IF byte > expected THEN byte - expected ELSE 0

\* What one unexpected byte adds to lost.
Missing(expected, byte) ==
    IF byte > expected THEN byte - expected ELSE expected - byte

\* Mutant: the uint8_t does not wrap.
Following_Wide(byte) == byte + 1

\* bcnt++
Following(byte) == (byte + 1) % Counter

\* One byte, before which the dongle dropped some; the first one ever seen is
\* the one expected.  t is what underrun_test keeps, and the history.
NextByte(t, drop) ==
    LET byte == (t.source + drop) % Counter
        expected == IF t.uninit THEN byte ELSE t.bcnt
    IN  [source |-> (byte + 1) % Counter,
         bcnt |-> Following(byte),
         uninit |-> FALSE,
         dropped |-> t.dropped + Missing(expected, byte),
         lost |-> IF t.uninit THEN t.lost ELSE t.lost + drop,
         visible |-> t.visible \/ (~t.uninit /\ drop % Counter # 0)]

\* What has been kept so far.
Tested == [source |-> source, bcnt |-> bcnt, uninit |-> uninit, dropped |-> dropped_samples,
           lost |-> lost, visible |-> visible]

\* All bytes of a buffer, one after the other.
Heard(t, drops) ==
    LET after[k \in 0..BufLen] ==
          IF k = 0 THEN t ELSE NextByte(after[k - 1], drops[k])
    IN  after[BufLen]

\* underrun_test over one buffer; total_samples counts bytes.
UnderrunTest(drops) ==
    LET t == Heard(Tested, drops)
    IN  /\ source' = t.source /\ bcnt' = t.bcnt /\ uninit' = t.uninit
        /\ dropped_samples' = t.dropped /\ lost' = t.lost /\ visible' = t.visible
        /\ total_samples' = total_samples + BufLen

Buffers == [1..BufLen -> 0..MaxDrop]

Start == /\ main = "setup" /\ main' = "reading"
         /\ IF sync_mode THEN UNCHANGED libVars ELSE Lib!Start
         /\ UNCHANGED << sync_mode, do_exit, testVars, signals >>

\* The callback of the stream, or one turn of the loop of sync mode.
Read == /\ main = "reading"
        /\ IF sync_mode THEN ~do_exit ELSE stream # "INACTIVE"
        /\ total_samples < MaxBuffers * BufLen
        /\ \E drops \in Buffers : UnderrunTest(drops)
        /\ UNCHANGED << sync_mode, main, do_exit, libVars, signals >>

\* rtlsdr_read_async comes back, cancelled or on its own after a failure.
EndAsync == /\ main = "reading" /\ ~sync_mode /\ Lib!Finish /\ main' = "report"
            /\ UNCHANGED << sync_mode, do_exit, testVars, signals >>

StreamFails == /\ main = "reading" /\ ~sync_mode /\ Lib!RequestCancel
               /\ UNCHANGED << sync_mode, main, do_exit, testVars, signals >>

\* do_exit is seen, or a read failed or was short.
EndSync == /\ main = "reading" /\ sync_mode /\ main' = "report"
           /\ UNCHANGED << sync_mode, do_exit, libVars, testVars, signals >>

\* "Samples per million lost" is an integer division by total_samples.
Report == /\ main = "report"
          /\ IF do_exit /\ total_samples = 0
             THEN main' = "crashed" /\ UNCHANGED libVars
             ELSE main' = "exited" /\ Lib!Close
          /\ UNCHANGED << sync_mode, do_exit, testVars, signals >>

Sighandler == /\ signals < MaxSignals /\ main \notin {"exited", "crashed"}
              /\ do_exit' = TRUE /\ signals' = signals + 1
              /\ IF stream = "RUNNING" THEN Lib!RequestCancel ELSE UNCHANGED libVars
              /\ UNCHANGED << sync_mode, main, testVars >>

Next == Start \/ Read \/ EndAsync \/ StreamFails \/ EndSync \/ Report \/ Sighandler

Spec == Init /\ [][Next]_vars

-----------------------------------------------------------------------------
\* Type correctness; the expected byte stays a uint8_t (rtl_test.c:128,140).
TypeOK ==
    /\ main \in {"setup", "reading", "report", "exited", "crashed"}
    /\ {sync_mode, do_exit, uninit, visible, closed} \subseteq BOOLEAN
    /\ stream \in {"INACTIVE", "RUNNING", "CANCELING"}
    /\ {source, bcnt} \subseteq 0..(Counter - 1)
    /\ {total_samples, dropped_samples, lost} \subseteq Nat /\ signals \in 0..MaxSignals

\* rtl_test.c:419-421 "If you observe no further output, everything is fine":
\* a loss is counted when, and only when, bytes were lost, wherever in or
\* between buffers; only a loss of a whole number of counter turns is unseen.
LossIsSeen ==
    /\ lost = 0 => dropped_samples = 0
    /\ visible => dropped_samples > 0
=============================================================================
