--------------------------- MODULE RtlAsyncProofs ---------------------------
(***************************************************************************)
(* Theorems about the streaming engine, for every number of transfers and  *)
(* any number of sessions.                                                 *)
(***************************************************************************)
EXTENDS RtlAsync, FiniteSets, FiniteSetTheorems, TLAPS

(* One thread handles the USB events, and a cancelled transfer is reported *)
(* by the event call that follows its cancellation.                        *)
PromptSingleHandler == Handlers = {} /\ PromptReap

(* One thread makes every call but rtlsdr_close, which any thread may make *)
(* at any time: nothing interleaves inside the other calls.                *)
SingleThreaded == Handlers = {} /\ Cancellers = {}

-----------------------------------------------------------------------------
(* The inductive invariant behind BuffersOutliveTransfers.                 *)

(* A transfer last reported as cancelled is not in flight, so the cancel   *)
(* loop may skip it.                                                       *)
CancelledIsBack == \A x \in Xfers : status[x] = "CANCELLED" => x \notin in_flight

(* The reader runs a callback only inside its event calls.                 *)
CallbacksInEvents == pc \notin {"events", "drain", "final"} => handler = None

(* While the transfers are being submitted none has been reported.         *)
SubmitIsFresh == pc = "submit" => \A x \in Xfers : status[x] = "COMPLETED"

(* No cancellation is pending outside the event call that reports it.      *)
CancelsAreReaped == pc # "drain" => cancelling = {}

(* As long as a pass of the cancel loop has found nothing to cancel, every *)
(* transfer it has passed is back, and stays back.                         *)
PassedAreBack ==
    pc \in {"cancel", "drain"} /\ next_status = "INACTIVE"
        => \A x \in Xfers : x < i => x \notin in_flight /\ x # cb_xfer

(* A cancellation that failed found its transfer back.                     *)
RefusedIsBack == pc = "drain" /\ ~cancel_ok => i \notin in_flight /\ i # cb_xfer

(* The loop ends, but for the two accidents, with every transfer back.     *)
LoopExit ==
    pc \in {"final", "free"} /\ ~dev_lost /\ ~events_failed
        => in_flight = {} /\ cb_xfer = NoXfer

DrainInv ==
    /\ TypeOK /\ CancelledIsBack /\ CallbacksInEvents /\ SubmitIsFresh
    /\ CancelsAreReaped /\ PassedAreBack /\ RefusedIsBack /\ LoopExit
    /\ BuffersOutliveTransfers

(* The inductive invariant behind ReturnIsClean: the loop is only left, but *)
(* for the two accidents, after a pass that found nothing to cancel.       *)
ExitIsInactive ==
    pc \in {"final", "free", "return"} /\ ~dev_lost /\ ~events_failed
        => next_status = "INACTIVE"

(* A call that is under way has not been forgotten.                        *)
CallIsActive == pc # "idle" => async_status # "INACTIVE"

-----------------------------------------------------------------------------
(* Type correctness, with the loop index in range: every step of the       *)
(* engine, for any number of transfers, threads and sessions.              *)
THEOREM TypeCorrect == Spec => []TypeOK
<1>1. Init => TypeOK
  <2> SUFFICES ASSUME Init PROVE TypeOK
    OBVIOUS
  <2> USE ConstantsAssumption DEF Init, NoXfer
  <2>1. status \in [Xfers -> XferStatus]
    BY DEF XferStatus
  <2>2. i \in 1..(BufNum + 1) /\ xfer_errors \in Nat /\ sessions \in Nat
    BY DEF ConstantsAssumption
  <2> QED
    BY <2>1, <2>2 DEF TypeOK, AsyncStatus
<1>2. TypeOK /\ [Next]_vars => TypeOK'
  <2> SUFFICES ASSUME TypeOK, [Next]_vars PROVE TypeOK'
    OBVIOUS
  <2> USE ConstantsAssumption DEF ConstantsAssumption, AsyncStatus, XferStatus, FaultStatus, Xfers, NoXfer, None, Reader, closeVars
  <2>1. CASE ReadAsync
    <3>1. status' \in [Xfers -> XferStatus]
      BY <2>1 DEF ReadAsync
    <3>2. i' \in Xfers /\ i' \in 1..(BufNum + 1) /\ sessions' \in Nat
      BY <2>1 DEF TypeOK, ReadAsync
    <3> QED
      BY <2>1, <3>1, <3>2 DEF TypeOK, ReadAsync
  <2>2. CASE SubmitXfer
    <3>1. i \in Xfers /\ i' \in 1..(BufNum + 1) /\ (pc' = "submit" => i' \in Xfers)
      BY <2>2 DEF TypeOK, SubmitXfer
    <3>2. in_flight' \subseteq Xfers /\ cancelling' \subseteq in_flight'
      BY <2>2, <3>1 DEF TypeOK, SubmitXfer
    <3>3. async_status' \in AsyncStatus
      BY <2>2 DEF TypeOK, SubmitXfer, SubmitErrorStatus
    <3> QED
      BY <2>2, <3>1, <3>2, <3>3 DEF TypeOK, SubmitXfer
  <2>3. CASE BeginCancelPass
    BY <2>3 DEF TypeOK, BeginCancelPass, FirstXfer, devVars, usbVars
  <2>4. CASE EventsError
    BY <2>4 DEF TypeOK, EventsError, devVars, usbVars
  <2>5. CASE SkipCancelled
    BY <2>5 DEF TypeOK, SkipCancelled, devVars, usbVars
  <2>6. CASE CancelXfer
    BY <2>6 DEF TypeOK, CancelXfer, devVars
  <2>7. CASE DrainDone
    BY <2>7 DEF TypeOK, DrainDone, devVars, usbVars
  <2>8. CASE EndPass
    BY <2>8 DEF TypeOK, EndPass, devVars, usbVars
  <2>9. CASE FinalDone
    BY <2>9 DEF TypeOK, FinalDone, devVars, usbVars
  <2>10. CASE FreeBuffers
    BY <2>10 DEF TypeOK, FreeBuffers
  <2>11. CASE Return
    BY <2>11 DEF TypeOK, Return, usbVars
  <2>12. ASSUME NEW h \in {Reader} \cup Handlers, NEW x \in Xfers,
               NEW s \in XferStatus, Reap(h, x, s)
        PROVE TypeOK'
    BY <2>12 DEF TypeOK, Reap, readerVars, devVars
  <2>13. CASE Callback
    <3>1. handler # None /\ cb_xfer \in Xfers
      BY <2>13 DEF TypeOK, Callback
    <3>2. CASE CallbackCompleted
      <4>1. in_flight' \subseteq Xfers /\ cancelling' \subseteq in_flight'
        BY <2>13, <3>1, <3>2 DEF TypeOK, Callback, CallbackCompleted
      <4> QED
        BY <2>13, <3>1, <3>2, <4>1 DEF TypeOK, Callback, CallbackCompleted, readerVars
    <3>3. CASE CallbackCancelled
      BY <2>13, <3>1, <3>3 DEF TypeOK, Callback, CallbackCancelled, readerVars
    <3>4. CASE CallbackFailed
      <4>1. xfer_errors' \in Nat
        BY <3>4 DEF TypeOK, CallbackFailed
      <4>2. dev_lost' \in BOOLEAN /\ async_cancel' \in BOOLEAN /\ async_status' \in AsyncStatus
        BY <3>4 DEF TypeOK, CallbackFailed
      <4>3. armed' \subseteq Cancellers \cup Handlers
        BY <3>1, <3>4 DEF TypeOK, CallbackFailed
      <4>4. UNCHANGED in_flight
        BY <3>4 DEF CallbackFailed
      <4> QED
        BY <2>13, <4>1, <4>2, <4>3, <4>4 DEF TypeOK, Callback, readerVars
    <3> QED
      BY <2>13, <3>2, <3>3, <3>4 DEF Callback
  <2>14. CASE CancelInline
    BY <2>14 DEF TypeOK, CancelInline, readerVars, usbVars
  <2>15. ASSUME NEW c \in Cancellers, CancelTest(c) PROVE TypeOK'
    BY <2>15 DEF TypeOK, CancelTest, readerVars, devVars, usbVars
  <2>16. ASSUME NEW c \in Cancellers \cup Handlers, CancelAssign(c) PROVE TypeOK'
    BY <2>16 DEF TypeOK, CancelAssign, readerVars, usbVars
  <2>17. CASE CloseBegin
    BY <2>17 DEF TypeOK, CloseBegin, readerVars, devVars, usbVars
  <2>18. CASE CloseEnd
    BY <2>18 DEF TypeOK, CloseEnd, readerVars, devVars, usbVars
  <2>19. CASE UNCHANGED vars
    BY <2>19 DEF TypeOK, vars, readerVars, devVars, usbVars
  <2> QED
    BY <2>1, <2>2, <2>3, <2>4, <2>5, <2>6, <2>7, <2>8, <2>9, <2>10, <2>11, <2>12, <2>13, <2>14, <2>15, <2>16, <2>17, <2>18, <2>19
       DEF Next, ReaderStep
<1> QED
  BY <1>1, <1>2, PTL DEF Spec

(* Once a cancel was accepted only the last assignment of                  *)
(* rtlsdr_read_async takes it away, with any number of threads cancelling  *)
(* and handling events.                                                    *)
THEOREM CancelIsSticky == Spec => CancelSticky
<1>1. ASSUME [Next]_vars, async_status = "CANCELING", async_status' # "CANCELING"
      PROVE  pc = "return"
  <2>1. ~UNCHANGED async_status
    BY <1>1
  <2>2. ~ReadAsync /\ ~SubmitXfer /\ ~CancelInline
    BY <1>1 DEF ReadAsync, SubmitXfer, SubmitErrorStatus, CancelInline
  <2>3. ~BeginCancelPass /\ ~EventsError /\ ~SkipCancelled /\ ~CancelXfer
        /\ ~DrainDone /\ ~EndPass /\ ~FinalDone
    BY <2>1 DEF BeginCancelPass, EventsError, SkipCancelled, CancelXfer,
                DrainDone, EndPass, FinalDone, devVars
  <2>4. ~FreeBuffers /\ ~CloseBegin /\ ~CloseEnd /\ ~UNCHANGED vars
    BY <2>1 DEF FreeBuffers, CloseBegin, CloseEnd, vars, devVars
  <2>5. \A h, x, s : ~Reap(h, x, s)
    BY <2>1 DEF Reap, devVars
  <2>6. ~Callback
    BY <1>1 DEF Callback, CallbackCompleted, CallbackCancelled, CallbackFailed
  <2>7. \A c : ~CancelTest(c) /\ ~CancelAssign(c)
    BY <1>1 DEF CancelTest, CancelAssign, devVars
  <2> QED
    BY <1>1, <2>2, <2>3, <2>4, <2>5, <2>6, <2>7 DEF Next, ReaderStep, Return
<1> QED
  BY <1>1, PTL DEF Spec, CancelSticky

-----------------------------------------------------------------------------
(* With one event handler and prompt reports the parts of DrainInv are     *)
(* inductive together.                                                     *)
LEMMA DrainStep ==
    ASSUME PromptSingleHandler, DrainInv, TypeOK', [Next]_vars
    PROVE  DrainInv'
<1> USE ConstantsAssumption DEF ConstantsAssumption, Xfers, NoXfer, None, Reader
<1> DEFINE Parts == /\ CancelledIsBack /\ CallbacksInEvents /\ SubmitIsFresh
                    /\ CancelsAreReaped /\ PassedAreBack /\ RefusedIsBack
                    /\ LoopExit /\ BuffersOutliveTransfers
<1> SUFFICES Parts'
  BY DEF DrainInv
<1> USE DEF DrainInv, CancelledIsBack, CallbacksInEvents, SubmitIsFresh,
            CancelsAreReaped, PassedAreBack, RefusedIsBack, LoopExit,
            BuffersOutliveTransfers
<1>1. CASE ReadAsync
  BY <1>1 DEF TypeOK, ReadAsync
<1>2. CASE SubmitXfer
  BY <1>2 DEF TypeOK, SubmitXfer
<1>3. CASE BeginCancelPass
  BY <1>3 DEF TypeOK, BeginCancelPass, FirstXfer, PromptSingleHandler, devVars, usbVars
<1>4. CASE EventsError
  BY <1>4 DEF TypeOK, EventsError, PromptSingleHandler, devVars, usbVars
<1>5. CASE SkipCancelled
  BY <1>5 DEF TypeOK, SkipCancelled, devVars, usbVars
<1>6. CASE CancelXfer
  <2>1. pc = "cancel" /\ pc' = "drain" /\ cb_xfer = NoXfer /\ cancelling = {}
    BY <1>6 DEF TypeOK, CancelXfer
  <2>2. ~cancel_ok' => i \notin in_flight
    BY <1>6, <2>1 DEF CancelXfer
  <2>3. RefusedIsBack'
    BY <1>6, <2>1, <2>2 DEF TypeOK, CancelXfer
  <2> QED
    BY <1>6, <2>1, <2>3 DEF TypeOK, CancelXfer, devVars
<1>7. CASE DrainDone
  BY <1>7 DEF TypeOK, DrainDone, MayReturn, PromptSingleHandler, devVars, usbVars
<1>8. CASE EndPass
  BY <1>8 DEF TypeOK, EndPass, PassEnds, devVars, usbVars
<1>9. CASE FinalDone
  BY <1>9 DEF TypeOK, FinalDone, MayReturn, PromptSingleHandler, devVars, usbVars
<1>10. CASE FreeBuffers
  BY <1>10 DEF TypeOK, FreeBuffers
<1>11. CASE Return
  BY <1>11 DEF TypeOK, Return, usbVars
<1>12. ASSUME NEW h \in {Reader} \cup Handlers, NEW x \in Xfers,
             NEW s \in XferStatus, Reap(h, x, s)
      PROVE Parts'
  BY <1>12 DEF TypeOK, Reap, CanHandle, PromptSingleHandler, readerVars, devVars
<1>13. CASE Callback
  <2>1. handler = Reader /\ cb_xfer \in Xfers
    BY <1>13 DEF TypeOK, Callback, PromptSingleHandler
  <2>2. CASE CallbackCompleted
    BY <1>13, <2>1, <2>2 DEF TypeOK, Callback, CallbackCompleted, readerVars
  <2>3. CASE CallbackCancelled
    BY <1>13, <2>1, <2>3 DEF TypeOK, Callback, CallbackCancelled, readerVars
  <2>4. CASE CallbackFailed
    BY <1>13, <2>1, <2>4 DEF TypeOK, Callback, CallbackFailed, readerVars
  <2> QED
    BY <1>13, <2>2, <2>3, <2>4 DEF Callback
<1>14. CASE CancelInline
  BY <1>14 DEF TypeOK, CancelInline, readerVars, usbVars
<1>15. ASSUME NEW c \in Cancellers, CancelTest(c) PROVE Parts'
  BY <1>15 DEF TypeOK, CancelTest, readerVars, devVars, usbVars
<1>16. ASSUME NEW c \in Cancellers \cup Handlers, CancelAssign(c) PROVE Parts'
  BY <1>16 DEF TypeOK, CancelAssign, readerVars, usbVars
<1>17. CASE CloseBegin
  BY <1>17 DEF TypeOK, CloseBegin, readerVars, devVars, usbVars
<1>18. CASE CloseEnd
  BY <1>18 DEF TypeOK, CloseEnd, readerVars, devVars, usbVars
<1>19. CASE UNCHANGED vars
  BY <1>19 DEF TypeOK, vars, readerVars, devVars, usbVars
<1> HIDE DEF Parts
<1> QED
  BY <1>1, <1>2, <1>3, <1>4, <1>5, <1>6, <1>7, <1>8, <1>9, <1>10, <1>11, <1>12, <1>13, <1>14, <1>15, <1>16, <1>17, <1>18, <1>19
     DEF Next, ReaderStep

(* No transfer and no buffer is freed while libusb owns it, for any number *)
(* of transfers, failing submissions, failing transfers and any number of  *)
(* cancelling threads, unless the device was lost or the event loop failed. *)
THEOREM BuffersAreSafe ==
    ASSUME PromptSingleHandler
    PROVE  Spec => []BuffersOutliveTransfers
<1>1. Init /\ TypeOK => DrainInv
  BY DEF Init, DrainInv, CancelledIsBack, CallbacksInEvents, SubmitIsFresh,
         CancelsAreReaped, PassedAreBack, RefusedIsBack, LoopExit,
         BuffersOutliveTransfers
<1>2. DrainInv /\ TypeOK' /\ [Next]_vars => DrainInv'
  BY DrainStep
<1>3. DrainInv => BuffersOutliveTransfers
  BY DEF DrainInv
<1> QED
  BY <1>1, <1>2, <1>3, TypeCorrect, PTL DEF Spec

-----------------------------------------------------------------------------
(* When one thread makes every call, rtlsdr_read_async leaves the device   *)
(* INACTIVE, ready to be read again or closed, unless the device was lost  *)
(* or the event loop failed.                                               *)
THEOREM ReturnsClean ==
    ASSUME SingleThreaded
    PROVE  Spec => []ReturnIsClean
<1> DEFINE Inv == ExitIsInactive /\ ReturnIsClean
<1> USE DEF ExitIsInactive, ReturnIsClean
<1>1. Init => Inv
  BY DEF Init
<1>2. ASSUME Inv, TypeOK, [Next]_vars PROVE Inv'
  <2>1. CASE ReadAsync
    BY <1>2, <2>1 DEF ReadAsync, devVars, usbVars
  <2>2. CASE SubmitXfer
    BY <1>2, <2>2 DEF SubmitXfer, devVars, usbVars
  <2>3. CASE BeginCancelPass
    BY <1>2, <2>3 DEF BeginCancelPass, devVars, usbVars
  <2>4. CASE EventsError
    BY <1>2, <2>4 DEF EventsError, devVars, usbVars
  <2>5. CASE SkipCancelled
    BY <1>2, <2>5 DEF SkipCancelled, devVars, usbVars
  <2>6. CASE CancelXfer
    BY <1>2, <2>6 DEF CancelXfer, devVars, usbVars
  <2>7. CASE DrainDone
    BY <1>2, <2>7 DEF DrainDone, devVars, usbVars
  <2>8. CASE EndPass
    BY <1>2, <2>8 DEF EndPass, PassEnds, devVars, usbVars
  <2>9. CASE FinalDone
    BY <1>2, <2>9 DEF FinalDone, devVars, usbVars
  <2>10. CASE FreeBuffers
    BY <1>2, <2>10 DEF FreeBuffers, devVars, usbVars
  <2>11. CASE Return
    BY <1>2, <2>11 DEF Return, devVars, usbVars
  <2>12. ASSUME NEW h, NEW x, NEW s, Reap(h, x, s) PROVE Inv'
    BY <1>2, <2>12 DEF Reap, readerVars, devVars
  <2>13. CASE Callback
    <3>1. handler = Reader
      BY <1>2, <2>13 DEF TypeOK, Callback, SingleThreaded
    <3>2. (dev_lost => dev_lost') /\ (async_status' = async_status \/ async_status = "RUNNING")
      BY <2>13, <3>1 DEF Callback, CallbackCompleted, CallbackCancelled, CallbackFailed
    <3> QED
      BY <1>2, <2>13, <3>2 DEF Callback, readerVars
  <2>14. CASE CancelInline
    BY <1>2, <2>14 DEF CancelInline, readerVars, usbVars
  <2>15. \A c \in Cancellers \cup Handlers : FALSE
    BY DEF SingleThreaded
  <2>16. CASE CloseBegin
    BY <1>2, <2>16 DEF CloseBegin, readerVars, devVars
  <2>17. CASE CloseEnd
    BY <1>2, <2>17 DEF CloseEnd, readerVars, devVars
  <2>18. CASE UNCHANGED vars
    BY <1>2, <2>18 DEF vars, readerVars, devVars
  <2> HIDE DEF Inv
  <2> QED
    BY <1>2, <2>1, <2>2, <2>3, <2>4, <2>5, <2>6, <2>7, <2>8, <2>9, <2>10, <2>11, <2>12, <2>13, <2>14, <2>15, <2>16, <2>17, <2>18
       DEF Next, ReaderStep
<1> QED
  BY <1>1, <1>2, TypeCorrect, PTL DEF Spec

-----------------------------------------------------------------------------
(* The inductive invariant behind LossMeansDead.  The callback counts      *)
(* errors without remembering whose they are; what makes the count         *)
(* meaningful is that a failed transfer is not submitted again, so within  *)
(* one session it is counted at most once.                                 *)

(* Transfers whose error the callback has counted.                         *)
Counted == {x \in Xfers : status[x] = "ERROR" /\ x # cb_xfer}

(* Before the first read nothing has been counted.                         *)
FreshDevice ==
    sessions = 0 => pc = "idle" /\ ~dev_lost /\ xfer_errors = 0 /\ handler = None
                    /\ in_flight = {}

(* A failed transfer is not in flight.                                     *)
FailedIsBack == \A x \in Xfers : status[x] \in FaultStatus => x \notin in_flight

(* The submission loop is ahead of every completion.                       *)
SubmitIsAhead ==
    pc = "submit" => \A x \in Xfers : x >= i =>
        status[x] = "COMPLETED" /\ x \notin in_flight /\ x # cb_xfer

(* Every error counted is a transfer of its own.                           *)
ErrorsAreDistinct == xfer_errors <= Cardinality(Counted)

(* Why the device was declared lost.                                       *)
LossHasCause ==
    dev_lost => \/ \E x \in Xfers : status[x] = "NO_DEVICE"
                \/ \A x \in Xfers : status[x] = "ERROR"

LossParts == FailedIsBack /\ SubmitIsAhead /\ ErrorsAreDistinct /\ LossHasCause

LossInv == FreshDevice /\ (sessions = 1 => LossParts)

(* Steps that report no completion, count no error and submit nothing keep *)
(* the parts.                                                              *)
LEMMA LossStutter ==
    ASSUME LossParts, UNCHANGED <<status, cb_xfer, xfer_errors, dev_lost>>,
           in_flight' \subseteq in_flight, pc' # "submit"
    PROVE  LossParts'
<1>1. UNCHANGED Counted
  BY DEF Counted
<1> QED
  BY <1>1 DEF LossParts, FailedIsBack, SubmitIsAhead, ErrorsAreDistinct, LossHasCause

(* BufNum errors, each of a transfer of its own, are every transfer.       *)
LEMMA AllCounted ==
    ASSUME NEW S \in SUBSET Xfers, BufNum <= Cardinality(S)
    PROVE  S = Xfers
<1>1. IsFiniteSet(Xfers) /\ Cardinality(Xfers) = BufNum
  BY FS_Interval, ConstantsAssumption DEF Xfers, ConstantsAssumption
<1>2. IsFiniteSet(S) /\ Cardinality(S) <= Cardinality(Xfers) /\ (Cardinality(Xfers) = Cardinality(S) => Xfers = S)
  BY <1>1, FS_Subset
<1>3. Cardinality(S) \in Nat
  BY <1>2, FS_CardinalityType
<1> QED
  BY <1>1, <1>2, <1>3, ConstantsAssumption DEF ConstantsAssumption

(* The callback of a failed transfer counts an error that was not counted. *)
LEMMA CountOnce ==
    ASSUME TypeOK, LossParts, Callback, CallbackFailed
    PROVE  /\ xfer_errors' <= Cardinality(Counted')
           /\ dev_lost' => \/ dev_lost
                           \/ status[cb_xfer] = "NO_DEVICE"
                           \/ \A x \in Xfers : status[x] = "ERROR"
<1> USE ConstantsAssumption DEF ConstantsAssumption, NoXfer
<1>1. cb_xfer \in Xfers /\ cb_xfer' = 0 /\ status' = status
  BY DEF TypeOK, Callback
<1>2. IsFiniteSet(Counted) /\ Cardinality(Counted) \in Nat
  <2>1. IsFiniteSet(Xfers) /\ Counted \in SUBSET Xfers
    BY FS_Interval DEF Xfers, Counted
  <2> QED
    BY <2>1, FS_Subset, FS_CardinalityType
<1>3. Counted' = IF status[cb_xfer] = "ERROR" THEN Counted \cup {cb_xfer} ELSE Counted
  BY <1>1 DEF Counted, Xfers
<1>4. cb_xfer \notin Counted
  BY DEF Counted
<1>5. xfer_errors' <= Cardinality(Counted')
  <2>1. CASE status[cb_xfer] = "ERROR"
    <3>1. Cardinality(Counted') = Cardinality(Counted) + 1
      BY <1>2, <1>3, <1>4, <2>1, FS_AddElement
    <3>2. xfer_errors' = xfer_errors + 1
      BY <2>1 DEF CallbackFailed
    <3> QED
      BY <1>2, <3>1, <3>2 DEF TypeOK, LossParts, ErrorsAreDistinct
  <2>2. CASE status[cb_xfer] # "ERROR"
    BY <1>3, <2>2 DEF LossParts, ErrorsAreDistinct, CallbackFailed
  <2> QED
    BY <2>1, <2>2
<1>6. ASSUME dev_lost', ~dev_lost, status[cb_xfer] # "NO_DEVICE"
      PROVE  \A x \in Xfers : status[x] = "ERROR"
  <2>1. xfer_errors' >= BufNum
    BY <1>6 DEF CallbackFailed, LossDetected
  <2>2. xfer_errors' \in Nat /\ Cardinality(Counted') \in Nat
    <3>1. IsFiniteSet(Counted')
      BY <1>2, <1>3, FS_AddElement
    <3>2. Cardinality(Counted') \in Nat
      BY <3>1, FS_CardinalityType
    <3> QED
      BY <3>2 DEF TypeOK, CallbackFailed
  <2>3. BufNum <= Cardinality(Counted')
    BY <1>5, <2>1, <2>2
  <2>4. Counted' = Xfers
    BY <2>3, AllCounted DEF Counted
  <2> QED
    BY <1>1, <2>4 DEF Counted
<1> QED
  BY <1>5, <1>6

(* The parts survive every step of a session.                              *)
LEMMA LossStep ==
    ASSUME TypeOK, TypeOK', LossParts, [Next]_vars, sessions' = sessions
    PROVE  LossParts'
<1> USE ConstantsAssumption DEF ConstantsAssumption, Xfers, NoXfer, None, Reader
<1>1. CASE ReadAsync
  BY <1>1 DEF TypeOK, ReadAsync
<1>2. CASE SubmitXfer
  <2>1. i \in Xfers /\ Counted' = Counted
    BY <1>2 DEF TypeOK, SubmitXfer, Counted
  <2>2. FailedIsBack'
    BY <1>2, <2>1 DEF LossParts, FailedIsBack, SubmitIsAhead, SubmitXfer, FaultStatus
  <2>3. SubmitIsAhead'
    BY <1>2, <2>1 DEF LossParts, SubmitIsAhead, SubmitXfer
  <2> QED
    BY <1>2, <2>1, <2>2, <2>3 DEF LossParts, ErrorsAreDistinct, LossHasCause, SubmitXfer
<1>3. CASE BeginCancelPass
  BY <1>3, LossStutter DEF BeginCancelPass, devVars, usbVars
<1>4. CASE EventsError
  BY <1>4, LossStutter DEF EventsError, devVars, usbVars
<1>5. CASE SkipCancelled
  BY <1>5, LossStutter DEF SkipCancelled, devVars, usbVars
<1>6. CASE CancelXfer
  BY <1>6, LossStutter DEF CancelXfer, devVars
<1>7. CASE DrainDone
  BY <1>7, LossStutter DEF DrainDone, devVars, usbVars
<1>8. CASE EndPass
  BY <1>8, LossStutter DEF EndPass, devVars, usbVars
<1>9. CASE FinalDone
  BY <1>9, LossStutter DEF FinalDone, devVars, usbVars
<1>10. CASE FreeBuffers
  BY <1>10, LossStutter DEF FreeBuffers
<1>11. CASE Return
  BY <1>11, LossStutter DEF Return, usbVars
<1>12. ASSUME NEW h \in {Reader} \cup Handlers, NEW x \in Xfers,
             NEW s \in XferStatus, Reap(h, x, s)
      PROVE LossParts'
  <2>1. /\ x \in in_flight /\ cb_xfer = 0 /\ cb_xfer' = x
        /\ in_flight' = in_flight \ {x} /\ status' = [status EXCEPT ![x] = s]
        /\ UNCHANGED <<pc, i, xfer_errors, dev_lost>>
    BY <1>12 DEF TypeOK, Reap, readerVars, devVars
  <2>2. status[x] \notin FaultStatus /\ (pc = "submit" => x < i)
    BY <2>1 DEF TypeOK, LossParts, FailedIsBack, SubmitIsAhead
  <2>3. \A y \in Xfers : status'[y] = IF y = x THEN s ELSE status[y]
    BY <2>1 DEF TypeOK
  <2>4. Counted' = Counted
    BY <2>1, <2>2, <2>3 DEF Counted, FaultStatus
  <2>5. FailedIsBack' /\ SubmitIsAhead'
    BY <2>1, <2>2, <2>3 DEF TypeOK, LossParts, FailedIsBack, SubmitIsAhead
  <2>6. LossHasCause'
    BY <2>1, <2>2, <2>3 DEF LossParts, LossHasCause, FaultStatus
  <2> QED
    BY <2>1, <2>4, <2>5, <2>6 DEF LossParts, ErrorsAreDistinct
<1>13. CASE Callback
  <2>1. /\ cb_xfer \in Xfers /\ cb_xfer' = 0
        /\ UNCHANGED <<pc, i, status>>
    BY <1>13 DEF TypeOK, Callback, readerVars
  <2>2. pc = "submit" => cb_xfer < i
    BY <2>1 DEF TypeOK, LossParts, SubmitIsAhead
  <2>3. CASE CallbackCompleted
    <3>1. Counted' = Counted /\ xfer_errors' = 0 /\ Cardinality(Counted) \in Nat
      <4>1. IsFiniteSet(Xfers) /\ Counted \in SUBSET Xfers
        BY FS_Interval DEF Counted
      <4>2. Cardinality(Counted) \in Nat
        BY <4>1, FS_Subset, FS_CardinalityType
      <4> QED
        BY <2>1, <2>3, <4>2 DEF Counted, CallbackCompleted
    <3>2. FailedIsBack' /\ SubmitIsAhead'
      BY <2>1, <2>2, <2>3 DEF TypeOK, LossParts, FailedIsBack, SubmitIsAhead, CallbackCompleted, FaultStatus
    <3>3. LossHasCause'
      BY <2>1, <2>3 DEF LossParts, LossHasCause, CallbackCompleted
    <3> QED
      BY <3>1, <3>2, <3>3 DEF LossParts, ErrorsAreDistinct
  <2>4. CASE CallbackCancelled
    <3>1. Counted' = Counted
      BY <2>1, <2>4 DEF Counted, CallbackCancelled
    <3> QED
      BY <2>1, <2>4, <3>1 DEF LossParts, FailedIsBack, SubmitIsAhead, ErrorsAreDistinct, LossHasCause, CallbackCancelled
  <2>5. CASE CallbackFailed
    <3>1. FailedIsBack' /\ SubmitIsAhead'
      BY <2>1, <2>5 DEF LossParts, FailedIsBack, SubmitIsAhead, CallbackFailed
    <3>2. ErrorsAreDistinct' /\ LossHasCause'
      BY <1>13, <2>1, <2>5, CountOnce DEF LossParts, ErrorsAreDistinct, LossHasCause
    <3> QED
      BY <3>1, <3>2 DEF LossParts
  <2> QED
    BY <1>13, <2>3, <2>4, <2>5 DEF Callback
<1>14. CASE UNCHANGED <<status, cb_xfer, xfer_errors, dev_lost, in_flight, pc, i>>
  <2>1. Counted' = Counted
    BY <1>14 DEF Counted
  <2> QED
    BY <1>14, <2>1 DEF LossParts, FailedIsBack, SubmitIsAhead, ErrorsAreDistinct, LossHasCause
<1>15. CASE CancelInline
  BY <1>14, <1>15 DEF CancelInline, readerVars, usbVars
<1>16. ASSUME NEW c, CancelTest(c) \/ CancelAssign(c) PROVE LossParts'
  BY <1>14, <1>16 DEF CancelTest, CancelAssign, readerVars, devVars, usbVars
<1>17. CASE CloseBegin \/ CloseEnd \/ UNCHANGED vars
  BY <1>14, <1>17 DEF CloseBegin, CloseEnd, vars, readerVars, devVars, usbVars
<1> QED
  BY <1>1, <1>2, <1>3, <1>4, <1>5, <1>6, <1>7, <1>8, <1>9, <1>10, <1>11, <1>12, <1>13, <1>15, <1>16, <1>17
     DEF Next, ReaderStep

(* In a first session _libusb_callback declares the device lost only when  *)
(* an unplug was reported or every transfer has failed, for any number of  *)
(* transfers, of threads that handle events and of threads that cancel,    *)
(* and whatever fails.                                                     *)
THEOREM LossIsDeath == Spec => []LossMeansDead
<1> USE ConstantsAssumption DEF ConstantsAssumption, NoXfer, None, Reader
<1>1. Init => LossInv
  BY DEF Init, LossInv, FreshDevice
<1>2. ASSUME TypeOK, TypeOK', LossInv, [Next]_vars PROVE LossInv'
  <2>1. CASE ReadAsync
    <3>1. sessions' = sessions + 1 /\ sessions \in Nat
      BY <2>1, <1>2 DEF TypeOK, ReadAsync
    <3>2. ASSUME sessions = 0 PROVE LossParts'
      <4>1. /\ status' = [x \in Xfers |-> "COMPLETED"] /\ in_flight' = {}
            /\ xfer_errors' = 0 /\ dev_lost' = FALSE /\ cb_xfer' = 0
        BY <1>2, <2>1, <3>2 DEF TypeOK, LossInv, FreshDevice, ReadAsync
      <4>2. Counted' = {}
        BY <4>1 DEF Counted
      <4>3. Cardinality(Counted') = 0
        BY <4>2, FS_EmptySet
      <4> QED
        BY <4>1, <4>3 DEF LossParts, FailedIsBack, SubmitIsAhead, ErrorsAreDistinct, LossHasCause, FaultStatus, Xfers
    <3> QED
      BY <3>1, <3>2 DEF LossInv, FreshDevice
  <2>2. CASE ~ReadAsync
    <3>1. sessions' = sessions
      BY <1>2, <2>2 DEF Next, ReaderStep, SubmitXfer, BeginCancelPass, EventsError, SkipCancelled, CancelXfer,
         DrainDone, EndPass, FinalDone, FreeBuffers, Return, Reap, Callback, CancelInline, CancelTest, CancelAssign,
         CloseBegin, CloseEnd, vars, readerVars
    <3>2. sessions = 1 => LossParts'
      BY <1>2, <3>1, LossStep DEF LossInv
    <3>3. ASSUME sessions = 0 PROVE FreshDevice'
      <4>1. /\ pc = "idle" /\ handler = None /\ ~dev_lost /\ xfer_errors = 0
            /\ in_flight = {}
        BY <1>2, <3>3 DEF LossInv, FreshDevice
      <4> QED
        BY <1>2, <2>2, <4>1 DEF FreshDevice, Next, ReaderStep, SubmitXfer, BeginCancelPass, EventsError, SkipCancelled, CancelXfer,
         DrainDone, EndPass, FinalDone, FreeBuffers, Return, Reap, Callback, CancelInline, CancelTest, CancelAssign,
         CloseBegin, CloseEnd, vars, readerVars, devVars, usbVars
    <3> QED
      BY <3>1, <3>2, <3>3 DEF LossInv, FreshDevice
  <2> QED
    BY <2>1, <2>2
<1>3. TypeOK /\ LossInv => LossMeansDead
  BY DEF TypeOK, LossInv, LossParts, FailedIsBack, LossHasCause, LossMeansDead, FaultStatus, Xfers
<1> QED
  BY <1>1, <1>2, <1>3, TypeCorrect, PTL DEF Spec

-----------------------------------------------------------------------------
(* rtlsdr_close frees no device that is being read but a lost one, for any *)
(* number of transfers and of threads that cancel or handle events, and    *)
(* whatever fails: a read keeps async_status away from INACTIVE up to its  *)
(* last assignment.                                                        *)
THEOREM CloseWaits == Spec => []CloseWaitsForRead
<1> DEFINE Inv == CallIsActive /\ CloseWaitsForRead
<1> USE DEF CallIsActive, CloseWaitsForRead, closeVars
<1>1. Init => Inv
  BY DEF Init
<1>2. ASSUME Inv, [Next]_vars PROVE Inv'
  <2>1. CASE ReadAsync
    BY <1>2, <2>1 DEF ReadAsync
  <2>2. CASE SubmitXfer \/ BeginCancelPass \/ EventsError \/ SkipCancelled \/ CancelXfer
             \/ DrainDone \/ EndPass \/ FinalDone \/ FreeBuffers
    BY <1>2, <2>2 DEF SubmitXfer, SubmitErrorStatus, BeginCancelPass, EventsError, SkipCancelled, CancelXfer,
                      DrainDone, EndPass, FinalDone, FreeBuffers, devVars
  <2>3. CASE Return
    BY <1>2, <2>3 DEF Return
  <2>4. ASSUME NEW h, NEW x, NEW s, Reap(h, x, s) PROVE Inv'
    BY <1>2, <2>4 DEF Reap, readerVars, devVars
  <2>5. CASE Callback
    BY <1>2, <2>5 DEF Callback, CallbackCompleted, CallbackCancelled, CallbackFailed, readerVars
  <2>6. CASE CancelInline
    BY <1>2, <2>6 DEF CancelInline, readerVars
  <2>7. ASSUME NEW c, CancelTest(c) \/ CancelAssign(c) PROVE Inv'
    BY <1>2, <2>7 DEF CancelTest, CancelAssign, readerVars, devVars
  <2>8. CASE CloseBegin
    BY <1>2, <2>8 DEF CloseBegin, readerVars, devVars
  <2>9. CASE CloseEnd
    BY <1>2, <2>9 DEF CloseEnd, MayFree, readerVars, devVars
  <2>10. CASE UNCHANGED vars
    BY <1>2, <2>10 DEF vars, readerVars, devVars
  <2> HIDE DEF Inv
  <2> QED
    BY <1>2, <2>1, <2>2, <2>3, <2>4, <2>5, <2>6, <2>7, <2>8, <2>9, <2>10 DEF Next, ReaderStep
<1>3. Inv => CloseWaitsForRead
  OBVIOUS
<1> HIDE DEF Inv
<1> QED
  BY <1>1, <1>2, <1>3, PTL DEF Spec

-----------------------------------------------------------------------------
(* Step simulation: the engine's async_status and close_pc move as the     *)
(* abstract session does.                                                  *)

(* What the client is promised, without the fairness of the last step.     *)
SessionSafety == Session!Init /\ [][Session!Next]_(Session!vars)

(* The same up to the accidents that the promise does not cover: the       *)
(* device is lost, or libusb's event handling fails.                       *)
SessionUntilAccident ==
    Session!Init /\ [][Session!Next \/ dev_lost \/ events_failed]_(Session!vars)

(* The cancel loop is only entered for a cancel.                           *)
CancelLoopCancels ==
    pc \in {"cancel", "drain", "final", "free", "return"} /\ ~events_failed
        => async_status = "CANCELING"

SessionInv == CallIsActive /\ CancelLoopCancels /\ ExitIsInactive

(* The callback, run by the reader, can only turn RUNNING into CANCELING.  *)
LEMMA CallbackCancels ==
    ASSUME SingleThreaded, TypeOK, Callback
    PROVE  /\ async_status' = async_status \/ (async_status = "RUNNING" /\ async_status' = "CANCELING")
           /\ dev_lost => dev_lost'
           /\ UNCHANGED <<pc, next_status, events_failed, close_pc>>
<1>1. handler = Reader
  BY DEF TypeOK, Callback, SingleThreaded
<1> QED
  BY <1>1 DEF Callback, CallbackCompleted, CallbackCancelled, CallbackFailed, readerVars, closeVars

(* Each step keeps the invariant.                                          *)
LEMMA SessionInvStep ==
    ASSUME SingleThreaded, TypeOK, SessionInv, [Next]_vars
    PROVE  SessionInv'
<1> USE DEF SessionInv, CallIsActive, CancelLoopCancels, ExitIsInactive
<1>1. CASE ReadAsync
  BY <1>1 DEF ReadAsync
<1>2. CASE SubmitXfer
  BY <1>2 DEF SubmitXfer, SubmitErrorStatus
<1>3. CASE BeginCancelPass \/ EventsError
  BY <1>3 DEF BeginCancelPass, EventsError, devVars
<1>4. CASE SkipCancelled \/ CancelXfer \/ DrainDone
  BY <1>4 DEF SkipCancelled, CancelXfer, DrainDone, devVars
<1>5. CASE EndPass
  BY <1>5 DEF EndPass, PassEnds, devVars
<1>6. CASE FinalDone \/ FreeBuffers \/ Return
  BY <1>6 DEF FinalDone, FreeBuffers, Return, devVars
<1>7. ASSUME NEW h, NEW x, NEW s, Reap(h, x, s) PROVE SessionInv'
  BY <1>7 DEF Reap, readerVars, devVars
<1>8. CASE Callback
  BY <1>8, CallbackCancels
<1>9. CASE CancelInline
  BY <1>9 DEF CancelInline, readerVars
<1>10. \A c \in Cancellers \cup Handlers : FALSE
  BY DEF SingleThreaded
<1>11. CASE CloseBegin \/ CloseEnd \/ UNCHANGED vars
  BY <1>11 DEF CloseBegin, CloseEnd, vars, readerVars, devVars
<1> HIDE DEF SessionInv
<1> QED
  BY <1>1, <1>2, <1>3, <1>4, <1>5, <1>6, <1>7, <1>8, <1>9, <1>10, <1>11 DEF Next, ReaderStep

(* Each step is a step of the session, or stutters, or follows an accident. *)
LEMMA SessionStep ==
    ASSUME SingleThreaded, TypeOK, SessionInv, [Next]_vars
    PROVE  [Session!Next \/ dev_lost \/ events_failed]_(Session!vars)
<1> USE DEF Session!vars, Session!Next, closeVars
<1>1. CASE ReadAsync
  BY <1>1 DEF ReadAsync, Session!Start
<1>2. CASE SubmitXfer
  BY <1>2 DEF SubmitXfer, SubmitErrorStatus, TypeOK, AsyncStatus, SessionInv, CallIsActive, Session!RequestCancel
<1>3. CASE BeginCancelPass \/ EventsError \/ SkipCancelled \/ CancelXfer
           \/ DrainDone \/ EndPass \/ FinalDone \/ FreeBuffers
  BY <1>3 DEF BeginCancelPass, EventsError, SkipCancelled, CancelXfer, DrainDone, EndPass, FinalDone, FreeBuffers, devVars
<1>4. CASE Return
  BY <1>4 DEF Return, SessionInv, CancelLoopCancels, ExitIsInactive, Session!Finish
<1>5. ASSUME NEW h, NEW x, NEW s, Reap(h, x, s) PROVE UNCHANGED Session!vars
  BY <1>5 DEF Reap, devVars
<1>6. CASE Callback
  BY <1>6, CallbackCancels DEF Session!RequestCancel
<1>7. CASE CancelInline
  BY <1>7 DEF CancelInline, Session!RequestCancel
<1>8. \A c \in Cancellers \cup Handlers : FALSE
  BY DEF SingleThreaded
<1>9. CASE CloseBegin
  BY <1>9 DEF CloseBegin, devVars
<1>10. CASE CloseEnd
  BY <1>10 DEF CloseEnd, MayFree, devVars, Session!Close
<1>11. CASE UNCHANGED vars
  BY <1>11 DEF vars, devVars
<1> QED
  BY <1>1, <1>2, <1>3, <1>4, <1>5, <1>6, <1>7, <1>8, <1>9, <1>10, <1>11 DEF Next, ReaderStep

(* With one thread the engine implements the session, for any number of    *)
(* transfers and reads, until the device is lost or libusb fails.          *)
THEOREM EngineIsSession ==
    ASSUME SingleThreaded
    PROVE  Spec => SessionUntilAccident
<1>1. Init => Session!Init /\ SessionInv
  BY DEF Init, Session!Init, SessionInv, CallIsActive, CancelLoopCancels, ExitIsInactive
<1>2. SessionInv /\ TypeOK /\ [Next]_vars => SessionInv'
  BY SessionInvStep
<1>3. SessionInv /\ TypeOK /\ [Next]_vars => [Session!Next \/ dev_lost \/ events_failed]_(Session!vars)
  BY SessionStep
<1> QED
  BY <1>1, <1>2, <1>3, TypeCorrect, PTL DEF Spec, SessionUntilAccident

(* Where neither accident can happen (transfers fail neither with          *)
(* NO_DEVICE nor with ERROR, the event calls succeed) it implements the    *)
(* session without reserve.                                                *)
THEOREM EngineRefinesSession ==
    ASSUME SingleThreaded, Faults \subseteq {"OTHER"}, ~EventsFail
    PROVE  Spec => SessionSafety
<1> DEFINE NoAccident == /\ ~dev_lost /\ ~events_failed /\ xfer_errors = 0
                         /\ \A x \in Xfers : status[x] \notin {"ERROR", "NO_DEVICE"}
<1>1. Init => NoAccident
  BY DEF Init
<1>2. ASSUME NoAccident, TypeOK, [Next]_vars PROVE NoAccident'
  <2> USE ConstantsAssumption DEF ConstantsAssumption
  <2>1. CASE ReadAsync
    BY <1>2, <2>1 DEF ReadAsync
  <2>2. CASE SubmitXfer
    BY <1>2, <2>2 DEF SubmitXfer
  <2>3. CASE BeginCancelPass \/ EventsError \/ SkipCancelled \/ CancelXfer
             \/ DrainDone \/ EndPass \/ FinalDone
    BY <1>2, <2>3 DEF BeginCancelPass, EventsError, SkipCancelled, CancelXfer, DrainDone, EndPass, FinalDone, devVars, usbVars
  <2>4. CASE FreeBuffers \/ Return
    BY <1>2, <2>4 DEF FreeBuffers, Return, usbVars
  <2>5. ASSUME NEW h, NEW x \in Xfers, NEW s, Reap(h, x, s) PROVE NoAccident'
    <3>1. s \notin {"ERROR", "NO_DEVICE"}
      BY <2>5 DEF Reap, ReportedStatus
    <3> QED
      BY <1>2, <2>5, <3>1 DEF Reap, TypeOK, readerVars, devVars
  <2>6. CASE Callback
    <3>1. cb_xfer \in Xfers
      BY <1>2, <2>6 DEF TypeOK, Callback, NoXfer
    <3>2. ~dev_lost' /\ xfer_errors' = 0
      BY <1>2, <2>6, <3>1 DEF Callback, CallbackCompleted, CallbackCancelled, CallbackFailed, LossDetected
    <3> QED
      BY <1>2, <2>6, <3>2 DEF Callback, readerVars
  <2>7. CASE CancelInline
    BY <1>2, <2>7 DEF CancelInline, readerVars, usbVars
  <2>8. ASSUME NEW c, CancelTest(c) \/ CancelAssign(c) PROVE NoAccident'
    BY <1>2, <2>8 DEF CancelTest, CancelAssign, readerVars, devVars, usbVars
  <2>9. CASE CloseBegin \/ CloseEnd \/ UNCHANGED vars
    BY <1>2, <2>9 DEF CloseBegin, CloseEnd, vars, readerVars, devVars, usbVars
  <2> HIDE DEF NoAccident
  <2> QED
    BY <1>2, <2>1, <2>2, <2>3, <2>4, <2>5, <2>6, <2>7, <2>8, <2>9 DEF Next, ReaderStep
<1>3. NoAccident => ~dev_lost /\ ~events_failed
  OBVIOUS
<1>4. Spec => SessionUntilAccident
  BY EngineIsSession
<1>5. ~dev_lost /\ ~events_failed /\ [Session!Next \/ dev_lost \/ events_failed]_(Session!vars)
        => [Session!Next]_(Session!vars)
  OBVIOUS
<1> HIDE DEF NoAccident
<1> QED
  BY <1>1, <1>2, <1>3, <1>4, <1>5, TypeCorrect, PTL DEF Spec, SessionUntilAccident, SessionSafety
=============================================================================
