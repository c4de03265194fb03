---------------------------- MODULE RtlTcpProofs ----------------------------
(***************************************************************************)
(* Theorems about the I/Q server, for every list limit and any number of   *)
(* clients, buffers and signals.                                           *)
(***************************************************************************)
EXTENDS RtlTcp, SequenceTheorems, TLAPS

-----------------------------------------------------------------------------
(* The queue from the callback to the socket is one sequence cut in three: *)
(* what was sent, what tcp_worker holds, and the linked list.              *)

Sorted(list) == \A j, k \in 1..Len(list) : j < k => Older(list[j], list[k])
Before(s, t) == \A j \in 1..Len(s), k \in 1..Len(t) : Older(s[j], t[k])

(* Every buffer of a list was produced for the client that is served.      *)
Own(list) ==
    \A j \in 1..Len(list) : list[j][1] = clients /\ list[j][2] <= produced

(* Between clients the list is empty.                                      *)
ListIsReset == main = "listen" => ll_buffers = <<>>

(* A client is being served.                                               *)
Serving == main \in {"created", "streaming", "join"}
ClientIsNumbered == Serving => clients >= 1

SentSorted == Sorted(sent) /\ Own(sent)
ListSorted == Sorted(ll_buffers) /\ Own(ll_buffers) /\ Before(sent, ll_buffers)
HeldSorted ==
    worker = "send" => /\ Sorted(curelem) /\ Own(curelem)
                       /\ Before(sent, curelem) /\ Before(curelem, ll_buffers)
ListBounded == llbuf_num # 0 => Len(ll_buffers) <= llbuf_num + 3

QueueInv ==
    /\ TypeOK /\ ClientIsNumbered /\ ListIsReset
    /\ SentSorted /\ ListSorted /\ HeldSorted /\ ListBounded

-----------------------------------------------------------------------------
(* What appending, dropping the head and moving the head do to such lists. *)

(* A buffer newer than a list can be appended to it.                       *)
LEMMA AppendNewer ==
    ASSUME NEW s \in Seq(Buffers), NEW b \in Buffers,
           \A j \in 1..Len(s) : Older(s[j], b)
    PROVE  /\ Sorted(s) => Sorted(Append(s, b))
           /\ \A t \in Seq(Buffers) : Before(t, s) /\ (\A j \in 1..Len(t) : Older(t[j], b))
                                        => Before(t, Append(s, b))
           /\ \A t \in Seq(Buffers) : Before(s, t) /\ (\A k \in 1..Len(t) : Older(b, t[k]))
                                        => Before(Append(s, b), t)
<1>1. /\ Len(Append(s, b)) = Len(s) + 1 /\ Len(s) \in Nat
      /\ \A j \in 1..Len(s) : Append(s, b)[j] = s[j]
      /\ Append(s, b)[Len(s) + 1] = b
  BY AppendProperties, LenProperties
<1>2. \A j \in 1..Len(Append(s, b)) : j \in 1..Len(s) \/ j = Len(s) + 1
  BY <1>1
<1>3. Sorted(s) => Sorted(Append(s, b))
  BY <1>1, <1>2 DEF Sorted
<1> QED
  BY <1>1, <1>2, <1>3 DEF Before

(* The rest of a list keeps its order, and its place among the others.     *)
LEMMA TailKeeps ==
    ASSUME NEW s \in Seq(Buffers), s # <<>>
    PROVE  /\ Sorted(s) => Sorted(Tail(s)) /\ \A k \in 1..Len(Tail(s)) : Older(s[1], Tail(s)[k])
           /\ \A t \in Seq(Buffers) : Before(t, s) => Before(t, Tail(s))
           /\ \A t \in Seq(Buffers) : Before(s, t) => Before(Tail(s), t)
           /\ Own(s) => Own(Tail(s))
<1>1. /\ Len(s) \in Nat \ {0} /\ Len(Tail(s)) = Len(s) - 1
      /\ \A j \in 1..Len(Tail(s)) : Tail(s)[j] = s[j + 1]
  BY HeadTailProperties, EmptySeq
<1>2. \A j \in 1..Len(Tail(s)) : j + 1 \in 1..Len(s) /\ j \in Nat /\ 1 < j + 1
  BY <1>1
<1>3. ASSUME Sorted(s) PROVE Sorted(Tail(s)) /\ \A k \in 1..Len(Tail(s)) : Older(s[1], Tail(s)[k])
  BY <1>1, <1>2, <1>3 DEF Sorted
<1> QED
  BY <1>1, <1>2, <1>3 DEF Before, Own

(* The empty list is in order, everybody's own, and anywhere.              *)
LEMMA EmptyKeeps ==
    Sorted(<<>>) /\ Own(<<>>) /\ \A t : Before(t, <<>>) /\ Before(<<>>, t)
<1>1. Len(<<>>) = 0
  BY EmptySeq
<1> QED
  BY <1>1 DEF Sorted, Own, Before

(* What was produced before is older than the buffer produced now.         *)
LEMMA NewIsNewest ==
    ASSUME NEW s \in Seq(Buffers), Own(s), produced \in Nat
    PROVE  \A j \in 1..Len(s) : Older(s[j], <<clients, produced + 1>>)
<1> SUFFICES ASSUME NEW j \in 1..Len(s) PROVE Older(s[j], <<clients, produced + 1>>)
  OBVIOUS
<1>1. s[j] \in Buffers
  BY ElementOfSeq
<1>2. s[j][2] \in Nat /\ s[j][1] = clients /\ s[j][2] <= produced
  BY <1>1, ConstantsAssumption DEF Own, Buffers, ConstantsAssumption
<1> QED
  BY <1>2 DEF Older

-----------------------------------------------------------------------------
(* What one step of sighandler does, on whichever thread.                  *)
LEMMA SighandlerTypes ==
    ASSUME TypeOK, NEW p, NEW p2, NEW last, Sighandler(p, p2, last)
    PROVE  /\ p2 \in {"assign", "flag", last}
           /\ stream' \in {"INACTIVE", "RUNNING", "CANCELING"}
           /\ closed' \in BOOLEAN /\ do_exit' \in BOOLEAN
BY DEF Sighandler, AfterTest, CancelAssign, TypeOK, libVars

(* Type correctness, with every buffer numbered, for each thread's steps.  *)
LEMMA TypeStep ==
    ASSUME TypeOK, ClientIsNumbered, [Next]_vars
    PROVE  TypeOK' /\ ClientIsNumbered'
<1> USE ConstantsAssumption DEF ConstantsAssumption, ClientIsNumbered, Serving, Threads, NoThread
<1>1. CASE AcceptClient
  BY <1>1, EmptySeq DEF TypeOK, AcceptClient, libVars, sigVars
<1>2. CASE StopListening \/ PeerLeaves
  BY <1>2 DEF TypeOK, StopListening, PeerLeaves, libVars, listVars, sigVars
<1>3. CASE StartStream \/ EndStream \/ DeviceFails \/ CloseDevice
  BY <1>3 DEF TypeOK, StartStream, EndStream, DeviceFails, CloseDevice, Lib!Start, Lib!Finish,
              Lib!RequestCancel, Lib!Close, libVars, listVars, sigVars
<1>4. CASE JoinThreads
  BY <1>4, EmptySeq DEF TypeOK, JoinThreads, LeftOver, ResetDoExit, libVars, sigVars
<1>5. CASE RtlsdrCallback
  <2>1. <<clients, produced'>> \in Buffers
    BY <1>5 DEF TypeOK, RtlsdrCallback, Buffers
  <2>2. ll_buffers' \in Seq(Buffers)
    <3>1. ll_buffers # <<>> => Tail(ll_buffers) \in Seq(Buffers)
      BY HeadTailProperties DEF TypeOK
    <3>2. DropOldest(ll_buffers) => ll_buffers # <<>>
      BY EmptySeq DEF TypeOK, DropOldest
    <3>3. Enqueue(ll_buffers, <<clients, produced'>>) \in Seq(Buffers)
      BY <2>1, <3>1, <3>2, AppendProperties DEF TypeOK, Enqueue
    <3> QED
      BY <1>5, <3>3 DEF TypeOK, RtlsdrCallback
  <2>3. produced' \in 0..MaxBuffers
    BY <1>5 DEF TypeOK, RtlsdrCallback
  <2>4. signalled' \in BOOLEAN
    BY <1>5, Zenon DEF TypeOK, RtlsdrCallback
  <2> QED
    BY <1>5, <2>2, <2>3, <2>4 DEF TypeOK, RtlsdrCallback, libVars, sigVars
<1>6. CASE WorkerTop \/ WorkerTimeout \/ WorkerBye \/ WorkerSentAll
  BY <1>6 DEF TypeOK, WorkerTop, WorkerTimeout, WorkerBye, WorkerSentAll, libVars, listVars, sigVars
<1>7. CASE WorkerWoken
  BY <1>7, EmptySeq DEF TypeOK, WorkerWoken, libVars, sigVars
<1>8. CASE WorkerSend
  <2>1. Head(curelem) \in Buffers /\ Tail(curelem) \in Seq(Buffers)
    BY <1>8, HeadTailProperties DEF TypeOK, WorkerSend
  <2>2. sent' \in Seq(Buffers)
    BY <1>8, <2>1, AppendProperties DEF TypeOK, WorkerSend
  <2>3. curelem' \in Seq(Buffers) /\ worker' \in {"send", "test"}
    BY <1>8, <2>1 DEF TypeOK, WorkerSend
  <2> QED
    BY <1>8, <2>2, <2>3 DEF TypeOK, WorkerSend, libVars, sigVars
<1>9. CASE WorkerSighandler
  BY <1>9, SighandlerTypes DEF TypeOK, WorkerSighandler, listVars, sigVars
<1>10. CASE CommandSighandler
  BY <1>10, SighandlerTypes DEF TypeOK, CommandSighandler, listVars, sigVars
<1>11. CASE CommandBye \/ RecvReturns
  BY <1>11 DEF TypeOK, CommandBye, RecvReturns, libVars, listVars, sigVars
<1>12. ASSUME NEW t \in Threads, Signal(t) PROVE TypeOK' /\ ClientIsNumbered'
  BY <1>12 DEF TypeOK, Signal, AfterSignal, libVars, listVars
<1>13. CASE SignalSighandler
  <2>1. sig_thread' \in Threads \cup {NoThread}
    BY <1>13 DEF TypeOK, SignalSighandler
  <2> QED
    BY <1>13, <2>1, SighandlerTypes DEF TypeOK, SignalSighandler, listVars
<1>14. CASE UNCHANGED vars
  BY <1>14 DEF TypeOK, vars, libVars, listVars, sigVars
<1> QED
  BY <1>1, <1>2, <1>3, <1>4, <1>5, <1>6, <1>7, <1>8, <1>9, <1>10, <1>11, <1>12, <1>13, <1>14
     DEF Next, MainStep, WorkerStep, CommandStep, PeerHasLeft, PeerSends

(* Nothing a step leaves alone disturbs the queue.                         *)
LEMMA QueueUntouched ==
    ASSUME QueueInv, UNCHANGED <<ll_buffers, sent, curelem, clients, produced>>,
           worker' = "send" => worker = "send", main' = "listen" => main = "listen"
    PROVE  ListIsReset' /\ SentSorted' /\ ListSorted' /\ HeldSorted' /\ ListBounded'
BY DEF QueueInv, ListIsReset, SentSorted, ListSorted, HeldSorted, ListBounded, Own, Sorted, Before

(* The callback appends the newest buffer, and drops the oldest of a full  *)
(* list.                                                                   *)
LEMMA CallbackKeepsQueue ==
    ASSUME QueueInv, RtlsdrCallback
    PROVE  ListIsReset' /\ SentSorted' /\ ListSorted' /\ HeldSorted' /\ ListBounded'
<1> USE ConstantsAssumption DEF ConstantsAssumption
<1> DEFINE b == <<clients, produced + 1>>
           kept == IF DropOldest(ll_buffers) THEN Tail(ll_buffers) ELSE ll_buffers
<1>1. /\ produced \in Nat /\ produced' = produced + 1 /\ main = "streaming"
      /\ UNCHANGED <<main, worker, curelem, sent, clients>>
      /\ sent \in Seq(Buffers) /\ curelem \in Seq(Buffers) /\ ll_buffers \in Seq(Buffers)
  BY DEF QueueInv, TypeOK, RtlsdrCallback
<1>2. b \in Buffers
  BY DEF RtlsdrCallback, Buffers, QueueInv, TypeOK, ClientIsNumbered, Serving
<1>3. DropOldest(ll_buffers) => ll_buffers # <<>>
  BY <1>1, EmptySeq DEF DropOldest
<1>4. /\ kept \in Seq(Buffers) /\ Sorted(kept) /\ Own(kept) /\ Before(sent, kept)
      /\ worker = "send" => Before(curelem, kept)
  BY <1>1, <1>3, TailKeeps, HeadTailProperties DEF QueueInv, ListSorted, HeldSorted
<1>5. llbuf_num # 0 => Len(kept) <= llbuf_num + 2
  <2>1. Len(ll_buffers) \in Nat
    BY <1>1, LenProperties
  <2>2. DropOldest(ll_buffers) => Len(kept) = Len(ll_buffers) - 1
    BY <1>1, <1>3, HeadTailProperties
  <2> QED
    BY <2>1, <2>2 DEF QueueInv, ListBounded, DropOldest
<1>6. \A s \in Seq(Buffers) : Own(s) => \A j \in 1..Len(s) : Older(s[j], b)
  BY <1>1, NewIsNewest
<1>7. \A s \in Seq(Buffers) : Own(s) => (\A j \in 1..Len(s) : s[j][1] = clients /\ s[j][2] <= produced')
  <2> SUFFICES ASSUME NEW s \in Seq(Buffers), Own(s), NEW j \in 1..Len(s)
               PROVE  s[j][1] = clients /\ s[j][2] <= produced'
    OBVIOUS
  <2>1. s[j] \in Buffers
    BY ElementOfSeq
  <2>2. s[j][2] \in Nat
    BY <2>1 DEF Buffers
  <2> QED
    BY <1>1, <2>2 DEF Own
<1>8. CASE do_exit
  <2>1. UNCHANGED ll_buffers
    BY <1>8 DEF RtlsdrCallback
  <2> QED
    BY <1>1, <1>7, <2>1 DEF QueueInv, ListIsReset, SentSorted, ListSorted, HeldSorted, ListBounded, Own, Sorted, Before
<1>9. CASE ~do_exit
  <2>1. ll_buffers' = Append(kept, b)
    BY <1>1, <1>9 DEF RtlsdrCallback, Enqueue
  <2>2. /\ Len(Append(kept, b)) = Len(kept) + 1 /\ Len(kept) \in Nat
        /\ \A j \in 1..Len(kept) : Append(kept, b)[j] = kept[j]
        /\ Append(kept, b)[Len(kept) + 1] = b
    BY <1>2, <1>4, AppendProperties, LenProperties
  <2>3. Own(ll_buffers)'
    <3> SUFFICES ASSUME NEW j \in 1..Len(Append(kept, b))
                 PROVE  Append(kept, b)[j][1] = clients /\ Append(kept, b)[j][2] <= produced'
      BY <1>1, <2>1 DEF Own
    <3>1. CASE j \in 1..Len(kept)
      BY <1>4, <1>7, <2>2, <3>1
    <3>2. CASE j = Len(kept) + 1
      BY <1>1, <2>2, <3>2
    <3> QED
      BY <2>2, <3>1, <3>2
  <2>4. Sorted(ll_buffers') /\ Before(sent, ll_buffers') /\ (worker = "send" => Before(curelem, ll_buffers'))
    <3> HIDE DEF kept, b
    <3>1. \A j \in 1..Len(kept) : Older(kept[j], b)
      BY <1>4, <1>6
    <3>2. \A j \in 1..Len(sent) : Older(sent[j], b)
      BY <1>1, <1>6 DEF QueueInv, SentSorted
    <3>3. worker = "send" => \A j \in 1..Len(curelem) : Older(curelem[j], b)
      BY <1>1, <1>6 DEF QueueInv, HeldSorted
    <3> QED
      BY <1>1, <1>2, <1>4, <2>1, <3>1, <3>2, <3>3, AppendNewer
  <2>5. Own(sent)' /\ (worker = "send" => Own(curelem)')
    BY <1>1, <1>7 DEF QueueInv, SentSorted, HeldSorted, Own
  <2>6. ListBounded'
    BY <1>5, <2>1, <2>2 DEF ListBounded
  <2> QED
    BY <1>1, <2>3, <2>4, <2>5, <2>6 DEF QueueInv, ListIsReset, SentSorted, ListSorted, HeldSorted, Sorted, Before
<1> QED
  BY <1>8, <1>9

(* tcp_worker takes the whole list, and sends it from the head.            *)
LEMMA WorkerKeepsQueue ==
    ASSUME QueueInv, WorkerWoken \/ WorkerSend
    PROVE  ListIsReset' /\ SentSorted' /\ ListSorted' /\ HeldSorted' /\ ListBounded'
<1> USE ConstantsAssumption DEF ConstantsAssumption
<1>1. sent \in Seq(Buffers) /\ curelem \in Seq(Buffers) /\ ll_buffers \in Seq(Buffers)
  BY DEF QueueInv, TypeOK
<1>2. CASE WorkerWoken
  <2>1. /\ curelem' = ll_buffers /\ ll_buffers' = <<>> /\ Len(<<>>) = 0
        /\ UNCHANGED <<main, sent, clients, produced>>
    BY <1>2, EmptySeq DEF WorkerWoken
  <2>2. ListSorted' /\ ListBounded' /\ ListIsReset'
    BY <2>1 DEF ListSorted, ListBounded, ListIsReset, Sorted, Own, Before
  <2>3. SentSorted'
    BY <2>1 DEF QueueInv, SentSorted, Own, Sorted
  <2>4. HeldSorted'
    BY <2>1 DEF QueueInv, ListSorted, HeldSorted, Sorted, Own, Before
  <2> QED
    BY <2>2, <2>3, <2>4
<1>3. CASE WorkerSend
  <2> DEFINE b == Head(curelem)
  <2>1. /\ worker = "send" /\ curelem # <<>> /\ sent' = Append(sent, b)
        /\ UNCHANGED <<main, ll_buffers, clients, produced>>
        /\ worker' = "send" => curelem' = Tail(curelem)
    BY <1>3 DEF WorkerSend
  <2>2. Len(curelem) \in Nat \ {0} /\ b = curelem[1] /\ b \in Buffers /\ Tail(curelem) \in Seq(Buffers)
    BY <1>1, <2>1, EmptySeq, HeadTailProperties
  <2>3. /\ Sorted(curelem) /\ Own(curelem) /\ Before(sent, curelem) /\ Before(curelem, ll_buffers)
    BY <2>1 DEF QueueInv, HeldSorted
  <2>4. \A j \in 1..Len(sent) : Older(sent[j], b)
    BY <2>2, <2>3 DEF Before
  <2>5. \A k \in 1..Len(ll_buffers) : Older(b, ll_buffers[k])
    BY <2>2, <2>3 DEF Before
  <2>6. \A k \in 1..Len(Tail(curelem)) : Older(b, Tail(curelem)[k])
    BY <1>1, <2>1, <2>2, <2>3, TailKeeps
  <2>7. b[1] = clients /\ b[2] <= produced
    BY <2>2, <2>3 DEF Own
  <2> HIDE DEF b
  <2>8. Sorted(sent)' /\ Before(sent', ll_buffers) /\ Before(sent', Tail(curelem))
    <3>1. Sorted(sent) /\ Before(sent, ll_buffers) /\ Before(sent, Tail(curelem))
      BY <1>1, <2>1, <2>3, TailKeeps DEF QueueInv, SentSorted, ListSorted
    <3>2. Sorted(Append(sent, b)) /\ Before(Append(sent, b), ll_buffers) /\ Before(Append(sent, b), Tail(curelem))
      BY <1>1, <2>2, <2>4, <2>5, <2>6, <3>1, AppendNewer
    <3> QED
      BY <2>1, <3>2 DEF Sorted
  <2>9. Own(sent)'
    <3>1. /\ Len(Append(sent, b)) = Len(sent) + 1 /\ Len(sent) \in Nat
          /\ \A j \in 1..Len(sent) : Append(sent, b)[j] = sent[j]
          /\ Append(sent, b)[Len(sent) + 1] = b
      BY <1>1, <2>2, AppendProperties, LenProperties
    <3> SUFFICES ASSUME NEW j \in 1..Len(Append(sent, b))
                 PROVE  Append(sent, b)[j][1] = clients /\ Append(sent, b)[j][2] <= produced
      BY <2>1 DEF Own
    <3>2. CASE j \in 1..Len(sent)
      BY <3>1, <3>2 DEF QueueInv, SentSorted, Own
    <3>3. CASE j = Len(sent) + 1
      BY <2>7, <3>1, <3>3
    <3> QED
      BY <3>1, <3>2, <3>3
  <2>10. SentSorted' /\ ListSorted' /\ ListBounded' /\ ListIsReset'
    BY <2>1, <2>8, <2>9 DEF QueueInv, SentSorted, ListSorted, ListBounded, ListIsReset, Sorted, Own, Before
  <2>11. HeldSorted'
    <3>1. Sorted(Tail(curelem)) /\ Own(Tail(curelem)) /\ Before(Tail(curelem), ll_buffers)
      BY <1>1, <2>1, <2>3, TailKeeps
    <3> QED
      BY <2>1, <2>8, <3>1 DEF HeldSorted, Sorted, Own, Before
  <2> QED
    BY <2>10, <2>11
<1> QED
  BY <1>2, <1>3

(* The queue stays in order under every step of every thread.              *)
LEMMA QueueStep ==
    ASSUME QueueInv, [Next]_vars
    PROVE  QueueInv'
<1> DEFINE Parts == ListIsReset /\ SentSorted /\ ListSorted /\ HeldSorted /\ ListBounded
<1>1. TypeOK' /\ ClientIsNumbered'
  BY TypeStep DEF QueueInv
<1> SUFFICES Parts'
  BY <1>1 DEF QueueInv
<1>2. CASE AcceptClient
  <2>1. /\ ll_buffers = <<>> /\ ll_buffers' = <<>> /\ sent' = <<>> /\ worker' = "top"
        /\ main' = "created" /\ Len(<<>>) = 0
    BY <1>2, EmptySeq DEF AcceptClient, QueueInv, ListIsReset
  <2> QED
    BY <2>1, ConstantsAssumption DEF ConstantsAssumption, ListIsReset, SentSorted, ListSorted, HeldSorted, ListBounded, Sorted, Own, Before
<1>3. CASE StopListening \/ StartStream \/ EndStream \/ DeviceFails \/ CloseDevice \/ PeerLeaves
  BY <1>3, QueueUntouched DEF StopListening, StartStream, EndStream, DeviceFails, CloseDevice, PeerLeaves, listVars
<1>4. CASE JoinThreads
  <2>1. /\ ll_buffers' = <<>> /\ worker' = "none" /\ Len(<<>>) = 0
        /\ UNCHANGED <<sent, clients, produced>>
    BY <1>4, EmptySeq DEF JoinThreads, LeftOver
  <2> QED
    BY <2>1, ConstantsAssumption DEF ConstantsAssumption, QueueInv, ListIsReset, SentSorted, ListSorted, HeldSorted, ListBounded, Sorted, Own, Before
<1>5. CASE RtlsdrCallback
  BY <1>5, CallbackKeepsQueue
<1>6. CASE WorkerTop \/ WorkerTimeout \/ WorkerBye \/ WorkerSentAll
  BY <1>6, QueueUntouched DEF WorkerTop, WorkerTimeout, WorkerBye, WorkerSentAll, listVars
<1>7. CASE WorkerWoken \/ WorkerSend
  BY <1>7, WorkerKeepsQueue
<1>8. CASE WorkerSighandler
  BY <1>8, QueueUntouched DEF WorkerSighandler, Sighandler, AfterTest, listVars
<1>9. CASE CommandSighandler \/ CommandBye \/ RecvReturns
  BY <1>9, QueueUntouched DEF CommandSighandler, CommandBye, RecvReturns, listVars
<1>10. ASSUME NEW t \in Threads, Signal(t) PROVE Parts'
  BY <1>10, QueueUntouched DEF Signal, listVars
<1>11. CASE SignalSighandler
  BY <1>11, QueueUntouched DEF SignalSighandler, listVars
<1>12. CASE UNCHANGED vars
  BY <1>12, QueueUntouched DEF vars, listVars
<1> HIDE DEF Parts
<1> QED
  BY <1>2, <1>3, <1>4, <1>5, <1>6, <1>7, <1>8, <1>9, <1>10, <1>11, <1>12
     DEF Next, MainStep, WorkerStep, CommandStep, PeerHasLeft, PeerSends

(* Initially all lists are empty.                                          *)
LEMMA QueueInit == Init => QueueInv
<1> SUFFICES ASSUME Init PROVE QueueInv
  OBVIOUS
<1> USE ConstantsAssumption DEF ConstantsAssumption
<1>1. <<>> \in Seq(Buffers) /\ Len(<<>>) = 0
  BY EmptySeq
<1>2. TypeOK
  <2>1. clients \in 0..MaxClients /\ produced \in 0..MaxBuffers /\ signals \in 0..MaxSignals
    BY DEF Init
  <2>2. ll_buffers \in Seq(Buffers) /\ curelem \in Seq(Buffers) /\ sent \in Seq(Buffers)
    BY <1>1 DEF Init
  <2> QED
    BY <2>1, <2>2 DEF Init, Lib!Init, TypeOK
<1> QED
  BY <1>1, <1>2 DEF Init, QueueInv, ClientIsNumbered, Serving, ListIsReset, SentSorted, ListSorted, HeldSorted,
                    ListBounded, Sorted, Own, Before

(* Every thread is at a known place and every list holds copied buffers.   *)
THEOREM TcpTypeCorrect == Spec => []TypeOK
<1>1. QueueInv /\ [Next]_vars => QueueInv'
  BY QueueStep
<1>2. QueueInv => TypeOK
  BY DEF QueueInv
<1> QED
  BY <1>1, <1>2, QueueInit, PTL DEF Spec

(* A client is sent its own samples in order and none twice, and the list  *)
(* stays bounded, for every limit and however the threads interleave.      *)
THEOREM ClientsGetTheirSamples == Spec => []SentInOrder
<1>1. QueueInv /\ [Next]_vars => QueueInv'
  BY QueueStep
<1>2. QueueInv => SentInOrder
  <2> SUFFICES ASSUME QueueInv PROVE SentInOrder
    OBVIOUS
  <2>1. sent \in Seq(Buffers) /\ Len(sent) \in Nat /\ DOMAIN sent = 1..Len(sent)
    BY LenProperties DEF QueueInv, TypeOK
  <2>2. Ordered(sent)
    BY <2>1 DEF QueueInv, SentSorted, Sorted, Ordered
  <2> QED
    BY <2>1, <2>2 DEF QueueInv, SentSorted, Own, ListBounded, SentInOrder
<1> QED
  BY <1>1, <1>2, QueueInit, PTL DEF Spec

-----------------------------------------------------------------------------
(* Why no client takes the server down: do_exit is cleared when its two    *)
(* threads have ended, and nobody who could set it again is left.          *)

(* Between clients there are no workers.                                   *)
WorkersAreJoined == main = "listen" => worker = "none" /\ command = "none"

(* A thread interrupted by a signal cannot end before the handler does.    *)
InterruptedLives ==
    /\ sig_thread = "worker" => worker \notin {"none", "exited"}
    /\ sig_thread = "command" => command \notin {"none", "exited"}

(* While the server listens, only a signal that came meanwhile can have    *)
(* set do_exit, or can still set it.                                       *)
ExitIsAsked == main = "listen" /\ (do_exit \/ sig_thread # NoThread) => sig_idle

SurvivalInv == WorkersAreJoined /\ InterruptedLives /\ ExitIsAsked /\ ServerSurvivesClient

(* The server only stops for a signal that came while it was listening,    *)
(* for any number of clients, whichever thread the signals interrupt.      *)
THEOREM ServerSurvives == Spec => []ServerSurvivesClient
<1> USE DEF SurvivalInv, WorkersAreJoined, InterruptedLives, ExitIsAsked, ServerSurvivesClient, Threads, NoThread
<1>1. Init => SurvivalInv
  BY DEF Init
<1>2. ASSUME TypeOK, SurvivalInv, [Next]_vars PROVE SurvivalInv'
  <2>1. CASE AcceptClient
    BY <1>2, <2>1 DEF AcceptClient, sigVars
  <2>2. CASE StopListening \/ StartStream \/ EndStream \/ DeviceFails \/ CloseDevice \/ PeerLeaves
    BY <1>2, <2>2 DEF StopListening, StartStream, EndStream, DeviceFails, CloseDevice, PeerLeaves, sigVars
  <2>3. CASE JoinThreads
    <3>1. sig_thread = NoThread
      BY <1>2, <2>3 DEF JoinThreads, Runs, TypeOK
    <3> QED
      BY <1>2, <2>3, <3>1 DEF JoinThreads, ResetDoExit, sigVars
  <2>4. CASE RtlsdrCallback
    BY <1>2, <2>4 DEF RtlsdrCallback, sigVars
  <2>5. CASE WorkerTop \/ WorkerWoken \/ WorkerTimeout \/ WorkerSend \/ WorkerBye \/ WorkerSentAll
    BY <1>2, <2>5 DEF WorkerTop, WorkerWoken, WorkerTimeout, WorkerSend, WorkerBye, WorkerSentAll, Runs, sigVars
  <2>6. CASE WorkerSighandler
    BY <1>2, <2>6 DEF WorkerSighandler, Sighandler, AfterTest, Runs, sigVars
  <2>7. CASE CommandSighandler
    BY <1>2, <2>7 DEF CommandSighandler, Sighandler, AfterTest, Runs, sigVars
  <2>8. CASE CommandBye \/ RecvReturns
    BY <1>2, <2>8 DEF CommandBye, RecvReturns, Runs, sigVars
  <2>9. ASSUME NEW t \in Threads, Signal(t) PROVE SurvivalInv'
    BY <1>2, <2>9 DEF Signal, Alive, AfterSignal
  <2>10. CASE SignalSighandler
    BY <1>2, <2>10 DEF SignalSighandler
  <2>11. CASE UNCHANGED vars
    BY <1>2, <2>11 DEF vars, sigVars
  <2> HIDE DEF SurvivalInv
  <2> QED
    BY <1>2, <2>1, <2>2, <2>3, <2>4, <2>5, <2>6, <2>7, <2>8, <2>9, <2>10, <2>11
       DEF Next, MainStep, WorkerStep, CommandStep, PeerHasLeft, PeerSends
<1> QED
  BY <1>1, <1>2, TcpTypeCorrect, PTL DEF Spec
=============================================================================
