----------------------------- MODULE MCRtlAsync -----------------------------
(* Instances of RtlAsync for TLC.  The constants are given in the .cfg.    *)
EXTENDS RtlAsync

(* Completion statuses by scenario. *)
NoFaults == {}
TransientFaults == {"OTHER"}
AllFaults == FaultStatus
=============================================================================
