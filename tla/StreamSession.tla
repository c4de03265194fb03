---------------------------- MODULE StreamSession ----------------------------
(***************************************************************************)
(* What rtlsdr_read_async, rtlsdr_cancel_async and rtlsdr_close promise a  *)
(* client (include/rtl-sdr.h): a stream runs until it is cancelled, a      *)
(* cancelled stream ends, and the device is closed only between streams.   *)
(***************************************************************************)
VARIABLES stream, closed

vars == <<stream, closed>>

Init == stream = "INACTIVE" /\ closed = FALSE

(* rtlsdr_read_async is called on an open, idle device. *)
Start ==
    /\ stream = "INACTIVE" /\ ~closed
    /\ stream' = "RUNNING" /\ UNCHANGED closed

(* rtlsdr_cancel_async, or the library itself after a failed submission. *)
RequestCancel ==
    /\ stream = "RUNNING"
    /\ stream' = "CANCELING" /\ UNCHANGED closed

(* rtlsdr_read_async returns. *)
Finish ==
    /\ stream = "CANCELING"
    /\ stream' = "INACTIVE" /\ UNCHANGED closed

(* rtlsdr_close returns. *)
Close ==
    /\ stream = "INACTIVE" /\ ~closed
    /\ closed' = TRUE /\ UNCHANGED stream

Next == Start \/ RequestCancel \/ Finish \/ Close

Spec == Init /\ [][Next]_vars /\ WF_vars(Finish)
=============================================================================
