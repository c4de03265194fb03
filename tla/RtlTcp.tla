------------------------------- MODULE RtlTcp -------------------------------
(***************************************************************************)
(* The I/Q server (src/src/rtl_tcp.c).  Per client, the main thread sits   *)
(* in rtlsdr_read_async, whose callback appends buffers to a linked list;  *)
(* tcp_worker takes the whole list and sends it; command_worker reads      *)
(* commands from the socket.  sighandler ends a client: signals run it,    *)
(* and so do the two workers on their way out.                             *)
(*                                                                         *)
(* The library is StreamSession, the abstract stream that RtlAsync         *)
(* implements, except that a cancel is split, as in the code, into its     *)
(* test and its assignment: three threads and signal handlers make them.   *)
(***************************************************************************)
EXTENDS Naturals, Sequences

CONSTANTS
    llbuf_num,     \* -n, 0 for no limit
    MaxClients,    \* bound on the clients accepted
    MaxBuffers,    \* bound on the callbacks per client
    MaxSignals     \* bound on the signals delivered

ASSUME ConstantsAssumption ==
    /\ llbuf_num \in Nat /\ MaxClients \in Nat /\ MaxBuffers \in Nat
    /\ MaxSignals \in Nat

Threads == {"main", "worker", "command"}
NoThread == "nobody"

VARIABLES
    main,        \* the main thread: listen, created, streaming, join, close, exited
    worker,      \* tcp_worker: none, top, wait, send, test, assign, flag, exited
    command,     \* command_worker: none, recv, blocked, test, assign, flag, exited
    stream,      \* dev->async_status
    closed,      \* rtlsdr_close has returned
    do_exit,     \* the flag every loop polls
    ll_buffers,  \* the linked list, head first
    curelem,     \* the list tcp_worker is sending
    signalled,   \* tcp_worker was signalled while it waited
    client,      \* the peer: connected, fin (closed its side) or reset
    sig_thread,  \* the thread a signal interrupted, or NoThread
    sig_pc,      \* that activation of sighandler: test, assign, flag
    clients,     \* history: clients accepted so far, numbering them
    produced,    \* history: buffers the callback was given for this client
    sent,        \* history: buffers sent on the current socket
    signals,     \* signals so far
    sig_idle     \* history: a signal was handled while no client was served

libVars == <<stream, closed>>
listVars == <<ll_buffers, curelem, signalled, produced, sent>>
sigVars == <<sig_thread, sig_pc, signals, sig_idle>>
vars == <<main, worker, command, libVars, do_exit, listVars, client, sigVars, clients>>

Lib == INSTANCE StreamSession

Init ==
    /\ main = "listen" /\ worker = "none" /\ command = "none"
    /\ Lib!Init
    /\ do_exit = FALSE
    /\ ll_buffers = <<>> /\ curelem = <<>> /\ signalled = FALSE
    /\ client = "reset" /\ sig_thread = NoThread /\ sig_pc = "none"
    /\ clients = 0 /\ produced = 0 /\ sent = <<>>
    /\ signals = 0 /\ sig_idle = FALSE

(* A thread inside a signal handler makes no other step. *)
Runs(t) == sig_thread # t

-----------------------------------------------------------------------------
(* The main thread.                                                        *)

(* select on the listening socket: do_exit is looked at first. *)
AcceptClient ==
    /\ main = "listen" /\ Runs("main")
    /\ ~do_exit /\ clients < MaxClients
    /\ main' = "created" /\ worker' = "top" /\ command' = "recv"
    /\ client' = "connected" /\ clients' = clients + 1
    /\ produced' = 0 /\ sent' = <<>>
    /\ UNCHANGED <<libVars, do_exit, ll_buffers, curelem, signalled, sigVars>>

StopListening ==
    /\ main = "listen" /\ Runs("main")
    /\ do_exit
    /\ main' = "close"
    /\ UNCHANGED <<worker, command, libVars, do_exit, listVars, client, sigVars, clients>>

(* rtlsdr_read_async, called after the threads were created.  It returns   *)
(* -2 at once when the device is not INACTIVE.                             *)
StartStream ==
    /\ main = "created" /\ Runs("main")
    /\ IF stream = "INACTIVE" THEN Lib!Start /\ main' = "streaming"
                              ELSE main' = "join" /\ UNCHANGED libVars
    /\ UNCHANGED <<worker, command, do_exit, listVars, client, sigVars, clients>>

EndStream ==
    /\ main = "streaming" /\ Runs("main")
    /\ Lib!Finish
    /\ main' = "join"
    /\ UNCHANGED <<worker, command, do_exit, listVars, client, sigVars, clients>>

(* The library cancels by itself when the device fails. *)
DeviceFails ==
    /\ main = "streaming" /\ Runs("main")
    /\ Lib!RequestCancel
    /\ UNCHANGED <<main, worker, command, do_exit, listVars, client, sigVars, clients>>

(* After the client the flag is cleared.  Mutant: it is not.               *)
ResetDoExit_Forgotten == do_exit
ResetDoExit == FALSE

(* The list that is left over is freed.  Mutant: it is kept.               *)
LeftOver_Kept == ll_buffers
LeftOver == <<>>

(* Both joins, closesocket, the left-over list, the flag. *)
JoinThreads ==
    /\ main = "join" /\ Runs("main")
    /\ worker = "exited" /\ command = "exited"
    /\ worker' = "none" /\ command' = "none"
    /\ client' = "reset"
    /\ ll_buffers' = LeftOver
    /\ do_exit' = ResetDoExit
    /\ main' = "listen"
    /\ UNCHANGED <<libVars, curelem, signalled, produced, sent, sigVars, clients>>

(* rtlsdr_close blocks until the device is INACTIVE. *)
CloseDevice ==
    /\ main = "close" /\ Runs("main")
    /\ Lib!Close
    /\ main' = "exited"
    /\ UNCHANGED <<worker, command, do_exit, listVars, client, sigVars, clients>>

-----------------------------------------------------------------------------
(* rtlsdr_callback, on the main thread inside rtlsdr_read_async.           *)

(* num_queued counts the links, one less than the elements.                *)
DropOldest(list) == llbuf_num # 0 /\ Len(list) - 1 = llbuf_num + 2

(* Append at the tail, dropping the head when the list is full.           *)
Enqueue(list, b) == Append(IF DropOldest(list) THEN Tail(list) ELSE list, b)

RtlsdrCallback ==
    /\ main = "streaming" /\ Runs("main")
    /\ produced < MaxBuffers
    /\ produced' = produced + 1
    /\ IF do_exit
       THEN UNCHANGED <<ll_buffers, signalled>>
       ELSE /\ ll_buffers' = Enqueue(ll_buffers, <<clients, produced'>>)
            /\ signalled' = (worker = "wait")
    /\ UNCHANGED <<main, worker, command, libVars, do_exit, curelem, sent,
                   client, sigVars, clients>>

-----------------------------------------------------------------------------
(* tcp_worker.                                                             *)

WorkerTop ==
    /\ worker = "top" /\ Runs("worker")
    /\ worker' = IF do_exit THEN "exited" ELSE "wait"
    /\ signalled' = FALSE
    /\ UNCHANGED <<main, command, libVars, do_exit, ll_buffers, curelem,
                   produced, sent, client, sigVars, clients>>

(* pthread_cond_timedwait returns 0, signalled or spuriously. *)
WorkerWoken ==
    /\ worker = "wait" /\ Runs("worker")
    /\ curelem' = ll_buffers /\ ll_buffers' = <<>>
    /\ worker' = "send"
    /\ UNCHANGED <<main, command, libVars, do_exit, signalled, produced, sent,
                   client, sigVars, clients>>

(* Five seconds without a signal.  Mutant: the worker waits for ever.      *)
TimedOut_Never == FALSE
TimedOut == ~signalled

WorkerTimeout ==
    /\ worker = "wait" /\ Runs("worker")
    /\ TimedOut
    /\ worker' = "test"
    /\ UNCHANGED <<main, command, libVars, do_exit, listVars, client, sigVars, clients>>

(* One element is sent, in as many pieces as it takes. *)
WorkerSend ==
    /\ worker = "send" /\ Runs("worker")
    /\ curelem # <<>> /\ client # "reset"
    /\ sent' = Append(sent, Head(curelem))
    /\ IF do_exit THEN worker' = "test" /\ UNCHANGED curelem
                  ELSE curelem' = Tail(curelem) /\ UNCHANGED worker
    /\ UNCHANGED <<main, command, libVars, do_exit, ll_buffers, signalled,
                   produced, client, sigVars, clients>>

(* send fails, or select times out and do_exit is set: what is left of the *)
(* list is abandoned.                                                      *)
WorkerBye ==
    /\ worker = "send" /\ Runs("worker")
    /\ curelem # <<>> /\ (client # "connected" \/ do_exit)
    /\ worker' = "test"
    /\ UNCHANGED <<main, command, libVars, do_exit, listVars, client, sigVars, clients>>

WorkerSentAll ==
    /\ worker = "send" /\ Runs("worker")
    /\ curelem = <<>>
    /\ worker' = "top"
    /\ UNCHANGED <<main, command, libVars, do_exit, listVars, client, sigVars, clients>>

-----------------------------------------------------------------------------
(* command_worker.  A complete command is applied to the device, which     *)
(* changes nothing here.  recv returns 0 for ever once the peer has closed *)
(* its side: only do_exit or an error ends the loop.                       *)
RecvEndsLoop == client = "reset" \/ do_exit

(* select returns, after a second at the latest. *)
CommandBye ==
    /\ command = "recv" /\ Runs("command")
    /\ RecvEndsLoop
    /\ command' = "test"
    /\ UNCHANGED <<main, worker, libVars, do_exit, listVars, client, sigVars, clients>>

(* The error of an interrupted select is taken for "readable"              *)
(* (rtl_tcp.c:305), and recv blocks until the peer sends something or      *)
(* leaves.                                                                 *)
RecvReturns ==
    /\ command = "blocked" /\ Runs("command")
    /\ command' = (IF RecvEndsLoop THEN "test" ELSE "recv")
    /\ UNCHANGED <<main, worker, libVars, do_exit, listVars, client, sigVars, clients>>

PeerHasLeft == client # "connected" /\ RecvReturns
PeerSends == client = "connected" /\ RecvReturns

-----------------------------------------------------------------------------
(* sighandler: rtlsdr_cancel_async, then do_exit.  p and p2 are the        *)
(* program counter of the thread that runs it.                             *)

(* rtlsdr_cancel_async: where its test leads. *)
AfterTest == IF stream = "RUNNING" THEN "assign" ELSE "flag"

(* The assignment, whatever happened since the test. *)
CancelAssign == stream' = "CANCELING" /\ UNCHANGED closed

Sighandler(p, p2, last) ==
    \/ p = "test" /\ p2 = AfterTest /\ UNCHANGED <<libVars, do_exit>>
    \/ p = "assign" /\ p2 = "flag" /\ CancelAssign /\ UNCHANGED do_exit
    \/ p = "flag" /\ p2 = last /\ do_exit' = TRUE /\ UNCHANGED libVars

WorkerSighandler ==
    /\ Runs("worker") /\ Sighandler(worker, worker', "exited")
    /\ UNCHANGED <<main, command, listVars, client, sigVars, clients>>

CommandSighandler ==
    /\ Runs("command") /\ Sighandler(command, command', "exited")
    /\ UNCHANGED <<main, worker, listVars, client, sigVars, clients>>

(* SIGINT, SIGTERM or SIGQUIT interrupts any thread that exists (one that  *)
(* comes when the server is exiting anyway is left out).                   *)
Alive(t) ==
    \/ t = "main" /\ main # "exited"
    \/ t = "worker" /\ worker \notin {"none", "exited"}
    \/ t = "command" /\ command \notin {"none", "exited"}

(* Where command_worker may find itself after the handler: select was      *)
(* interrupted and a recv follows that blocks, or that recv was, and fails *)
(* (no call is restarted, the handler is installed without SA_RESTART).    *)
Interrupted == {<<"recv", "blocked">>, <<"blocked", "test">>}
AfterSignal(t) ==
    {command} \cup {c \in {"blocked", "test"} : t = "command" /\ <<command, c>> \in Interrupted}

Signal(t) ==
    /\ signals < MaxSignals /\ sig_thread = NoThread
    /\ Alive(t) /\ main # "close"
    /\ sig_thread' = t /\ sig_pc' = "test" /\ signals' = signals + 1
    /\ sig_idle' = (sig_idle \/ main = "listen")
    /\ command' \in AfterSignal(t)
    /\ UNCHANGED <<main, worker, libVars, do_exit, listVars, client, clients>>

SignalSighandler ==
    /\ sig_thread # NoThread
    /\ Sighandler(sig_pc, sig_pc', "none")
    /\ sig_thread' = IF sig_pc' = "none" THEN NoThread ELSE sig_thread
    /\ UNCHANGED <<main, worker, command, listVars, client, clients, signals, sig_idle>>

(* The peer closes its side, or the connection breaks. *)
PeerLeaves ==
    /\ client # "reset" /\ main # "listen"
    /\ client' \in (IF client = "connected" THEN {"fin", "reset"} ELSE {"reset"})
    /\ UNCHANGED <<main, worker, command, libVars, do_exit, listVars, sigVars, clients>>

-----------------------------------------------------------------------------

MainStep ==
    \/ StopListening \/ StartStream \/ EndStream \/ JoinThreads \/ CloseDevice
WorkerStep ==
    \/ WorkerTop \/ WorkerWoken \/ WorkerTimeout \/ WorkerSend \/ WorkerBye
    \/ WorkerSentAll \/ WorkerSighandler
CommandStep == CommandBye \/ PeerHasLeft \/ CommandSighandler

Next ==
    \/ AcceptClient \/ MainStep \/ DeviceFails \/ RtlsdrCallback
    \/ WorkerStep \/ CommandStep
    \/ \E t \in Threads : Signal(t)
    \/ SignalSighandler \/ PeerLeaves \/ PeerSends

Spec == Init /\ [][Next]_vars

(* Every thread keeps running, and a connected peer keeps reading.  Nobody *)
(* is obliged to connect, to send commands, to leave or to signal, and the *)
(* device is not obliged to deliver samples.  A wait ends after five       *)
(* seconds: spurious wake-ups do not put the timeout off for ever (strong  *)
(* fairness).                                                              *)
Fairness ==
    /\ WF_vars(MainStep) /\ WF_vars(WorkerStep) /\ WF_vars(CommandStep)
    /\ SF_vars(WorkerTimeout)
    /\ WF_vars(SignalSighandler)

FairSpec == Spec /\ Fairness

-----------------------------------------------------------------------------
(* Properties.                                                             *)

Buffers == (1..MaxClients) \X (1..MaxBuffers)
Older(a, b) == a[1] = b[1] /\ a[2] < b[2]
Ordered(list) == \A j \in 1..(Len(list) - 1) : Older(list[j], list[j + 1])

(* Type correctness: every element of the linked lists is a copied buffer *)
(* (rtl_tcp.c:158-162), and every thread is at a known place.              *)
TypeOK ==
    /\ main \in {"listen", "created", "streaming", "join", "close", "exited"}
    /\ worker \in {"none", "top", "wait", "send", "test", "assign", "flag", "exited"}
    /\ command \in {"none", "recv", "blocked", "test", "assign", "flag", "exited"}
    /\ stream \in {"INACTIVE", "RUNNING", "CANCELING"} /\ closed \in BOOLEAN
    /\ do_exit \in BOOLEAN /\ signalled \in BOOLEAN /\ sig_idle \in BOOLEAN
    /\ ll_buffers \in Seq(Buffers) /\ curelem \in Seq(Buffers) /\ sent \in Seq(Buffers)
    /\ client \in {"connected", "fin", "reset"}
    /\ sig_thread \in Threads \cup {NoThread}
    /\ sig_pc \in {"none", "test", "assign", "flag"}
    /\ clients \in 0..MaxClients /\ produced \in 0..MaxBuffers /\ signals \in 0..MaxSignals

(* A client is only ever sent its own samples, oldest first and none       *)
(* twice, whatever the callback drops from the full list and whatever was  *)
(* left over from the client before; the list is bounded although its      *)
(* limit is tested with ==, on the number of links, before the new element *)
(* is appended (rtl_tcp.c:160-195).                                        *)
SentInOrder ==
    /\ Ordered(sent)
    /\ llbuf_num # 0 => Len(ll_buffers) <= llbuf_num + 3
    /\ main # "listen" => \A j \in DOMAIN sent : sent[j][1] = clients

(* "-n max number of linked list buffers to keep".                         *)
QueueWithinLimit == llbuf_num # 0 => Len(ll_buffers) <= llbuf_num

(* The server only exits on a signal that came while no client was served: *)
(* no client, however it leaves, takes the server down with it.            *)
ServerSurvivesClient == main \in {"close", "exited"} => sig_idle

(* Once the stream is being cancelled, by anybody, the client's threads    *)
(* all end and the server listens again, unless a signal has driven the    *)
(* command thread into a recv from a peer that never says anything more    *)
(* and never leaves (rtl_tcp.c:304-309).                                   *)
CancelEndsClient ==
    \/ <>[](command = "blocked" /\ client = "connected")
    \/ (main = "streaming" /\ stream = "CANCELING") ~> (main = "listen")

(* "Signal caught, exiting!": after a signal the server exits.             *)
SignalExits == (sig_thread # NoThread) ~> (main = "exited")

(* "all threads dead..": when both threads of a client have ended the main *)
(* thread gets there.                                                      *)
DeadThreadsEndClient ==
    (worker = "exited" /\ command = "exited") ~> (main = "listen")

(* "This function will block until it is being canceled": rtlsdr_read_async *)
(* is only called on a device that can be read.                            *)
StreamCanStart == main = "created" => stream = "INACTIVE"
=============================================================================
