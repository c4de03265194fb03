------------------------------ MODULE RtlAsync ------------------------------
(***************************************************************************)
(* The asynchronous streaming engine of librtlsdr (src/src/librtlsdr.c):   *)
(* rtlsdr_read_async, rtlsdr_cancel_async, _libusb_callback, the transfer  *)
(* buffers and the wait in rtlsdr_close.                                   *)
(*                                                                         *)
(* One thread, the reader, sits in rtlsdr_read_async.  Cancellers are      *)
(* other threads that call rtlsdr_cancel_async; the function tests         *)
(* async_status and then assigns it, so for them it is two steps.  A call  *)
(* made on the reader's own thread (a signal handler, or the client        *)
(* callback) cannot be interleaved with the reader and is one step.        *)
(* Handlers are other threads whose control transfers make libusb handle   *)
(* events: they may run _libusb_callback too.  rtlsdr_close may be called  *)
(* by another thread at any time, by the reader between its reads.  Once   *)
(* the device is freed nothing more is modelled: what a call that is still *)
(* under way then does is undefined.                                       *)
(***************************************************************************)
EXTENDS Naturals

CONSTANTS
    BufNum,       \* dev->xfer_buf_num, the number of transfers
    Cancellers,   \* threads, other than the reader, that cancel
    Handlers,     \* threads, other than the reader, that handle USB events
    Faults,       \* completion statuses a transfer may fail with
    PromptReap,   \* a cancelled transfer is reported by the next event call
    SubmitFails,  \* libusb_submit_transfer may return an error
    EventsFail,   \* libusb_handle_events... may return a fatal error
    MaxSessions   \* bound on the calls of rtlsdr_read_async

(* LIBUSB_TRANSFER_TIMED_OUT, _STALL and _OVERFLOW are one status, OTHER:  *)
(* the callback does not tell them apart.                                  *)
FaultStatus == {"ERROR", "NO_DEVICE", "OTHER"}
XferStatus == {"COMPLETED", "CANCELLED"} \cup FaultStatus
AsyncStatus == {"INACTIVE", "CANCELING", "RUNNING"}
Reader == "reader"
None == "none"
NoXfer == 0
Xfers == 1..BufNum

ASSUME ConstantsAssumption ==
    /\ BufNum \in Nat \ {0}
    /\ Faults \subseteq FaultStatus
    /\ PromptReap \in BOOLEAN
    /\ SubmitFails \in BOOLEAN
    /\ EventsFail \in BOOLEAN
    /\ MaxSessions \in Nat
    /\ {Reader, None} \cap (Handlers \cup Cancellers) = {}

VARIABLES
    pc,            \* where the reader is in rtlsdr_read_async
    async_status,  \* dev->async_status
    async_cancel,  \* dev->async_cancel
    next_status,   \* local of rtlsdr_read_async
    i,             \* loop index of rtlsdr_read_async
    cancel_ok,     \* libusb_cancel_transfer returned r >= 0
    status,        \* dev->xfer[i]->status, the last completion reported
    buffers,       \* dev->xfer and dev->xfer_buf are allocated
    xfer_errors,   \* dev->xfer_errors
    dev_lost,      \* dev->dev_lost
    in_flight,     \* libusb: transfers submitted and not yet reported
    cancelling,    \* libusb: transfers in flight that were cancelled
    handler,       \* thread inside _libusb_callback, or None
    cb_xfer,       \* the transfer it was called for, or NoXfer
    armed,         \* cancellers between the test and the assignment
    close_pc,      \* progress of rtlsdr_close; closed: the device is freed
    sessions,      \* calls of rtlsdr_read_async so far
    events_failed, \* history: the event loop was once left by an error
    freed_in_use,  \* history: a transfer was freed while libusb owned it
    closed_lost    \* history: rtlsdr_close found the device lost

readerVars == <<pc, next_status, i, cancel_ok, sessions, events_failed>>
devVars == <<async_status, async_cancel, buffers, xfer_errors, dev_lost>>
usbVars == <<status, in_flight, cancelling, handler, cb_xfer>>
closeVars == <<close_pc, closed_lost>>
vars == <<readerVars, devVars, usbVars, armed, closeVars, freed_in_use>>

Init ==
    /\ pc = "idle" /\ next_status = "INACTIVE" /\ i = 1 /\ cancel_ok = FALSE
    /\ async_status = "INACTIVE" /\ async_cancel = FALSE
    /\ buffers = FALSE /\ xfer_errors = 0 /\ dev_lost = FALSE
    /\ status = [x \in Xfers |-> "COMPLETED"]
    /\ in_flight = {} /\ cancelling = {}
    /\ handler = None /\ cb_xfer = NoXfer
    /\ armed = {} /\ close_pc = "open" /\ sessions = 0
    /\ events_failed = FALSE /\ freed_in_use = FALSE /\ closed_lost = FALSE

(* dev has not been freed by rtlsdr_close. *)
Allocated == close_pc # "closed"

-----------------------------------------------------------------------------
(* rtlsdr_read_async, from the call to the event loop.                     *)

(* A call that finds async_status # INACTIVE returns -2 and changes        *)
(* nothing.  xfer_errors is not reset; the transfers are new (zeroed).     *)
ReadAsync ==
    /\ pc = "idle" /\ close_pc = "open" /\ sessions < MaxSessions
    /\ async_status = "INACTIVE"
    /\ async_status' = "RUNNING" /\ async_cancel' = FALSE
    /\ pc' = "submit" /\ next_status' = "INACTIVE" /\ i' = 1
    /\ buffers' = TRUE
    /\ status' = [x \in Xfers |-> "COMPLETED"]
    /\ in_flight' = {} /\ cancelling' = {}
    /\ sessions' = sessions + 1
    /\ UNCHANGED <<cancel_ok, events_failed, xfer_errors, dev_lost, handler, cb_xfer,
                   armed, closeVars, freed_in_use>>

(* The state a failed submission leaves behind.  Mutant: give up at once.  *)
SubmitErrorStatus_GiveUp == "INACTIVE"
SubmitErrorStatus == "CANCELING"

(* One turn of the submission loop; the first failure cancels the rest.    *)
SubmitXfer ==
    /\ pc = "submit"
    /\ \/ /\ in_flight' = in_flight \cup {i}
          /\ IF i = BufNum THEN pc' = "events" /\ UNCHANGED i
                           ELSE i' = i + 1 /\ UNCHANGED pc
          /\ UNCHANGED async_status
       \/ /\ SubmitFails
          /\ async_status' = SubmitErrorStatus
          /\ pc' = "events"
          /\ UNCHANGED <<in_flight, i>>
    /\ UNCHANGED <<next_status, cancel_ok, sessions, events_failed,
                   async_cancel, buffers, xfer_errors, dev_lost, status,
                   cancelling, handler, cb_xfer, armed, closeVars,
                   freed_in_use>>

-----------------------------------------------------------------------------
(* The event loop.  The blocking call of libusb returns r >= 0 at any time *)
(* (timeout, events handled); only a return that finds CANCELING matters.  *)

(* First index of the cancel loop.  Mutants: off by one, both ways.        *)
FirstXfer_Zero == 0
FirstXfer_Second == 2
FirstXfer == 1

BeginCancelPass ==
    /\ pc = "events" /\ handler # Reader
    /\ async_status = "CANCELING"
    /\ pc' = "cancel" /\ next_status' = "INACTIVE" /\ i' = FirstXfer
    /\ UNCHANGED <<cancel_ok, sessions, events_failed, devVars, usbVars,
                   armed, closeVars, freed_in_use>>

(* r < 0 and not LIBUSB_ERROR_INTERRUPTED: break, whatever next_status is. *)
EventsError ==
    /\ EventsFail /\ Allocated
    /\ pc = "events" /\ handler # Reader
    /\ pc' = "free" /\ events_failed' = TRUE
    /\ UNCHANGED <<next_status, i, cancel_ok, sessions, devVars, usbVars,
                   armed, closeVars, freed_in_use>>

SkipCancelled ==
    /\ pc = "cancel" /\ i \in Xfers
    /\ status[i] = "CANCELLED"
    /\ i' = i + 1
    /\ UNCHANGED <<pc, next_status, cancel_ok, sessions, events_failed,
                   devVars, usbVars, armed, closeVars, freed_in_use>>

(* libusb_cancel_transfer fails (NOT_FOUND) for a transfer that is not in  *)
(* flight or that was cancelled before.                                    *)
CancelXfer ==
    /\ pc = "cancel" /\ i \in Xfers
    /\ status[i] # "CANCELLED"
    /\ cancel_ok' = (i \in in_flight \ cancelling)
    /\ cancelling' = cancelling \cup ({i} \cap in_flight)
    /\ pc' = "drain"
    /\ UNCHANGED <<next_status, i, sessions, events_failed, devVars, status,
                   in_flight, handler, cb_xfer, armed, closeVars,
                   freed_in_use>>

(* A zero-timeout event call may return once no cancelled transfer is      *)
(* waiting to be reported (PromptReap), or at once: always if PromptReap   *)
(* does not hold, and when another thread is handling the events.          *)
MayReturn ==
    /\ handler # Reader
    /\ (PromptReap /\ handler = None) => cancelling = {}

DrainDone ==
    /\ pc = "drain" /\ MayReturn
    /\ next_status' = IF cancel_ok THEN "CANCELING" ELSE next_status
    /\ pc' = "cancel" /\ i' = i + 1
    /\ UNCHANGED <<cancel_ok, sessions, events_failed, devVars, usbVars,
                   armed, closeVars, freed_in_use>>

(* A pass that found nothing left to cancel, or a lost device, ends the    *)
(* loop.  Mutants: leave after any pass; leave only when the device is lost. *)
PassEnds_Always == TRUE
PassEnds_OnlyLost == dev_lost
PassEnds == dev_lost \/ next_status = "INACTIVE"

EndPass ==
    /\ pc = "cancel" /\ i = BufNum + 1
    /\ pc' = IF PassEnds THEN "final" ELSE "events"
    /\ UNCHANGED <<next_status, i, cancel_ok, sessions, events_failed,
                   devVars, usbVars, armed, closeVars, freed_in_use>>

FinalDone ==
    /\ pc = "final" /\ MayReturn
    /\ pc' = "free"
    /\ UNCHANGED <<next_status, i, cancel_ok, sessions, events_failed,
                   devVars, usbVars, armed, closeVars, freed_in_use>>

(* _rtlsdr_free_async_buffers: whatever libusb still owns is lost.         *)
FreeBuffers ==
    /\ pc = "free"
    /\ buffers' = FALSE
    /\ freed_in_use' = (freed_in_use \/ in_flight # {} \/ cb_xfer # NoXfer)
    /\ in_flight' = {} /\ cancelling' = {}
    /\ pc' = "return"
    /\ UNCHANGED <<next_status, i, cancel_ok, sessions, events_failed,
                   async_status, async_cancel, xfer_errors, dev_lost, status,
                   handler, cb_xfer, armed, closeVars>>

Return ==
    /\ pc = "return"
    /\ async_status' = next_status
    /\ pc' = "idle"
    /\ UNCHANGED <<next_status, i, cancel_ok, sessions, events_failed,
                   async_cancel, buffers, xfer_errors, dev_lost, usbVars,
                   armed, closeVars, freed_in_use>>

-----------------------------------------------------------------------------
(* libusb reports a completion and calls _libusb_callback.  The event lock *)
(* lets one thread at a time do so.  The reader handles events inside its  *)
(* event calls; the blocking one returns at once when async_cancel is set. *)

CanHandle(h) ==
    \/ /\ h = Reader /\ Allocated
       /\ \/ pc = "events" /\ ~async_cancel
          \/ pc \in {"drain", "final"}
    \/ h \in Handlers /\ close_pc = "open"

ReportedStatus(x) ==
    IF x \in cancelling
    THEN {"CANCELLED"} \cup Faults \cup (IF PromptReap THEN {} ELSE {"COMPLETED"})
    ELSE {"COMPLETED"} \cup Faults

Reap(h, x, s) ==
    /\ handler = None /\ CanHandle(h)
    /\ x \in in_flight /\ s \in ReportedStatus(x)
    /\ in_flight' = in_flight \ {x}
    /\ cancelling' = cancelling \ {x}
    /\ status' = [status EXCEPT ![x] = s]
    /\ handler' = h /\ cb_xfer' = x
    /\ UNCHANGED <<readerVars, devVars, armed, closeVars, freed_in_use>>

(* LIBUSB_TRANSFER_COMPLETED: hand the samples over, resubmit (the result  *)
(* is ignored), forget the errors.                                         *)
CallbackCompleted ==
    /\ status[cb_xfer] = "COMPLETED"
    /\ \/ in_flight' = IF buffers THEN in_flight \cup {cb_xfer} ELSE in_flight
       \/ SubmitFails /\ UNCHANGED in_flight
    /\ xfer_errors' = 0
    /\ UNCHANGED <<async_status, async_cancel, dev_lost, armed>>

CallbackCancelled ==
    /\ status[cb_xfer] = "CANCELLED"
    /\ UNCHANGED <<in_flight, xfer_errors, async_status, async_cancel,
                   dev_lost, armed>>

(* BufNum errors in a row, or NO_DEVICE: the device is lost.  Mutants: one *)
(* error too early; the unplugged device is not recognised.                *)
LossDetected_Early(errors, s) == errors + 1 >= BufNum \/ s = "NO_DEVICE"
LossDetected_ErrorsOnly(errors, s) == errors >= BufNum
LossDetected(errors, s) == errors >= BufNum \/ s = "NO_DEVICE"

(* Any other status: the transfer is not resubmitted; a lost device        *)
(* cancels the stream.                                                     *)
CallbackFailed ==
    /\ status[cb_xfer] \in FaultStatus
    /\ xfer_errors' = IF status[cb_xfer] = "ERROR" THEN xfer_errors + 1
                                                   ELSE xfer_errors
    /\ IF LossDetected(xfer_errors', status[cb_xfer])
       THEN /\ dev_lost' = TRUE
            /\ IF async_status # "RUNNING"
               THEN UNCHANGED <<async_status, async_cancel, armed>>
               ELSE IF handler = Reader
               THEN /\ async_status' = "CANCELING" /\ async_cancel' = TRUE
                    /\ UNCHANGED armed
               ELSE /\ armed' = armed \cup {handler}
                    /\ UNCHANGED <<async_status, async_cancel>>
       ELSE UNCHANGED <<dev_lost, async_status, async_cancel, armed>>
    /\ UNCHANGED in_flight

Callback ==
    /\ handler # None /\ Allocated
    /\ CallbackCompleted \/ CallbackCancelled \/ CallbackFailed
    /\ handler' = None /\ cb_xfer' = NoXfer
    /\ UNCHANGED <<readerVars, buffers, status, cancelling, closeVars,
                   freed_in_use>>

-----------------------------------------------------------------------------
(* rtlsdr_cancel_async.  It returns -2 unless async_status is RUNNING.     *)

CancelInline ==
    /\ async_status = "RUNNING" /\ Allocated
    /\ async_status' = "CANCELING" /\ async_cancel' = TRUE
    /\ UNCHANGED <<readerVars, buffers, xfer_errors, dev_lost, usbVars,
                   armed, closeVars, freed_in_use>>

CancelTest(c) ==
    /\ c \notin armed
    /\ async_status = "RUNNING" /\ Allocated
    /\ armed' = armed \cup {c}
    /\ UNCHANGED <<readerVars, devVars, usbVars, closeVars, freed_in_use>>

CancelAssign(c) ==
    /\ c \in armed /\ Allocated
    /\ async_status' = "CANCELING" /\ async_cancel' = TRUE
    /\ armed' = armed \ {c}
    /\ UNCHANGED <<readerVars, buffers, xfer_errors, dev_lost, usbVars,
                   closeVars, freed_in_use>>

(* rtlsdr_close waits for INACTIVE, unless it finds the device lost, and   *)
(* frees it.  No read is started on a device that is being closed.         *)
CloseBegin ==
    /\ close_pc = "open"
    /\ close_pc' = (IF dev_lost THEN "closed" ELSE "wait")
    /\ closed_lost' = dev_lost
    /\ UNCHANGED <<readerVars, devVars, usbVars, armed, freed_in_use>>

(* The end of its polling.  Mutant: a read that is being cancelled counts  *)
(* as ended.                                                               *)
MayFree_NotRunning == async_status # "RUNNING"
MayFree == async_status = "INACTIVE"

CloseEnd ==
    /\ close_pc = "wait" /\ MayFree
    /\ close_pc' = "closed"
    /\ UNCHANGED <<closed_lost, readerVars, devVars, usbVars, armed, freed_in_use>>

-----------------------------------------------------------------------------

ReaderStep ==
    /\ Allocated
    /\ \/ SubmitXfer \/ BeginCancelPass \/ SkipCancelled \/ CancelXfer
       \/ DrainDone \/ EndPass \/ FinalDone \/ FreeBuffers \/ Return

Next ==
    \/ ReadAsync \/ ReaderStep \/ EventsError
    \/ \E h \in {Reader} \cup Handlers, x \in Xfers, s \in XferStatus :
           Reap(h, x, s)
    \/ Callback
    \/ CancelInline
    \/ \E c \in Cancellers : CancelTest(c)
    \/ \E c \in Cancellers \cup Handlers : CancelAssign(c)
    \/ CloseBegin \/ CloseEnd

Spec == Init /\ [][Next]_vars

(* The reader and a callback keep running; the event call reports what was *)
(* cancelled and returns after a bounded number of completions, however    *)
(* many the device keeps producing (strong fairness); rtlsdr_close polls.  *)
(* Nobody is obliged to cancel, to start a stream or to close, and no      *)
(* event call to fail.                                                     *)
ReapCancelled ==
    \E x \in Xfers : x \in cancelling /\ Reap(Reader, x, "CANCELLED")

Fairness ==
    /\ SF_vars(ReaderStep)
    /\ SF_vars(ReapCancelled)
    /\ WF_vars(Callback)
    /\ WF_vars(CloseEnd)
    /\ \A c \in Cancellers \cup Handlers : WF_vars(CancelAssign(c))

FairSpec == Spec /\ Fairness

-----------------------------------------------------------------------------
(* Properties.                                                             *)

(* Type correctness of the engine's state.  The loop index stays within    *)
(* one past the last transfer, so dev->xfer[i] is never read out of range. *)
TypeOK ==
    /\ pc \in {"idle", "submit", "events", "cancel", "drain", "final",
               "free", "return"}
    /\ async_status \in AsyncStatus /\ next_status \in {"INACTIVE", "CANCELING"}
    /\ async_cancel \in BOOLEAN /\ cancel_ok \in BOOLEAN
    /\ buffers \in BOOLEAN /\ dev_lost \in BOOLEAN
    /\ events_failed \in BOOLEAN /\ freed_in_use \in BOOLEAN
    /\ closed_lost \in BOOLEAN
    /\ i \in 1..(BufNum + 1) /\ (pc \in {"submit", "drain"} => i \in Xfers)
    /\ xfer_errors \in Nat /\ sessions \in Nat
    /\ status \in [Xfers -> XferStatus]
    /\ in_flight \subseteq Xfers /\ cancelling \subseteq in_flight
    /\ handler \in {None, Reader} \cup Handlers
    /\ cb_xfer \in Xfers \cup {NoXfer} /\ (handler = None <=> cb_xfer = NoXfer)
    /\ armed \subseteq Cancellers \cup Handlers
    /\ close_pc \in {"open", "wait", "closed"}

(* _rtlsdr_free_async_buffers never frees a transfer, or its buffer, while *)
(* libusb still owns it or its callback is running, as long as the device  *)
(* was not lost and the event loop was not left by an error: the cancel    *)
(* loop of rtlsdr_read_async only ends when every transfer is back.        *)
BuffersOutliveTransfers == freed_in_use => dev_lost \/ events_failed

(* When rtlsdr_read_async has returned without such an accident the device *)
(* is INACTIVE again, so that it can be read again and closed.             *)
ReturnIsClean ==
    pc = "idle" /\ ~dev_lost /\ ~events_failed => async_status = "INACTIVE"

(* While the stream is RUNNING and the reader waits for events, some       *)
(* transfer is in flight or about to be resubmitted: the stream cannot die *)
(* without rtlsdr_read_async noticing.                                     *)
StreamAlive ==
    pc = "events" /\ async_status = "RUNNING"
        => in_flight # {} \/ cb_xfer # NoXfer \/ armed # {}

(* _libusb_callback declares a device lost only after an unplug report or  *)
(* when every transfer has failed.  (In the first session: xfer_errors is  *)
(* carried over to the next one.)                                          *)
LossMeansDead ==
    dev_lost /\ sessions = 1 => in_flight = {} \/ \E x \in Xfers : status[x] = "NO_DEVICE"

(* A cancel request is never dropped: once async_status is CANCELING only  *)
(* the last assignment of rtlsdr_read_async takes it away.                 *)
CancelSticky ==
    [][async_status = "CANCELING" /\ async_status' # "CANCELING"
           => pc = "return"]_vars

(* rtlsdr_close, called by any thread at any time, does not free a device  *)
(* that is still being read, whatever cancels, failures and stale cancels  *)
(* there are: only a device that it found lost is freed without waiting    *)
(* for the read (librtlsdr.c:1727-1735).                                   *)
CloseWaitsForRead == close_pc = "closed" => pc = "idle" \/ closed_lost

(* The read of a lost device may have the device freed under it. *)
ReadIsOver == pc = "idle" \/ ~Allocated

(* rtlsdr_read_async "will block until it is being canceled": after an     *)
(* accepted cancel it returns.                                             *)
CancelReturns ==
    (async_status = "CANCELING" /\ pc # "idle") ~> ReadIsOver

(* rtlsdr_close blocks "until all async operations have been completed (if *)
(* any)" and then goes on: unless a read runs that nobody cancels, it      *)
(* returns.                                                                *)
CloseReturns ==
    (close_pc = "wait" /\ async_status # "RUNNING") ~> (close_pc = "closed")

(* An unplugged device ends rtlsdr_read_async without anybody cancelling.  *)
UnplugEndsRead ==
    (cb_xfer # NoXfer /\ "NO_DEVICE" \in {status[x] : x \in Xfers \cap {cb_xfer}})
        ~> ReadIsOver

(* The engine implements the abstract stream session.                      *)
Session == INSTANCE StreamSession WITH stream <- async_status,
                                       closed <- close_pc = "closed"
SessionSpec == Session!Spec
=============================================================================
