---------------------------- MODULE EpollProofs ----------------------------
(***************************************************************************)
(* Proofs about Epoll for every capacity, every set of sockets, whichever  *)
(* of them are listeners, and every bound on the calls.                    *)
(***************************************************************************)
EXTENDS Epoll, RingIndexProofs

-----------------------------------------------------------------------------
(* Facts about the constants and the messages.                             *)

\* A request of libnts has an operation, a socket or none, and a mask; None is no
\* request.
LEMMA RequestTypes ==
    /\ Request("CREATE", None, "none") \in Requests
    /\ Request("CLOSE", None, "none") \in Requests
    /\ \A op \in CtlOps, s \in Sockets, m \in Masks : Request(op, s, m) \in Requests
    /\ None \notin Requests
    /\ \A r \in Requests : /\ r.op \in CtlOps \cup {"CREATE", "CLOSE"}
                           /\ r.sock \in Sockets \cup {None}
                           /\ r.events \in Masks
  BY EpollAssumption, Zenon DEF Requests, Request, Masks, CtlOps

\* The fields of a request.
LEMMA RequestFields ==
    ASSUME NEW op, NEW s, NEW m
    PROVE  Request(op, s, m).op = op /\ Request(op, s, m).sock = s /\ Request(op, s, m).events = m
  BY Zenon DEF Request

\* The request that nts_epoll_ctl posts.
LEMMA CtlRequest ==
    ASSUME NEW op \in CtlOps, NEW s \in Sockets, NEW m \in Masks, nts_epoll_ctl(op, s, m)
    PROVE  /\ call' # None /\ call'.op = op /\ call'.sock = s /\ call'.events = m
           /\ nts_msg' = call' /\ app = "idle" /\ app' = "asked"
           /\ op # "CREATE" /\ op # "CLOSE"
<1>1. call' = Request(op, s, m) /\ nts_msg' = call' /\ app = "idle" /\ app' = "asked"
  BY Zenon DEF nts_epoll_ctl, Ask
<1>2. Request(op, s, m) # None /\ op # "CREATE" /\ op # "CLOSE"
  BY RequestTypes, Zenon DEF CtlOps
<1>3. Request(op, s, m).op = op /\ Request(op, s, m).sock = s /\ Request(op, s, m).events = m
  BY Zenon DEF Request
<1>4. QED
  BY <1>1, <1>2, <1>3, Zenon

\* The requests of the creation and of the close.
LEMMA SocketRequest ==
    /\ nts_epoll_create => /\ call' # None /\ call'.op = "CREATE" /\ call'.sock = None
                           /\ nts_msg' = call' /\ app = "idle" /\ app' = "asked"
    /\ nts_close_epoll_socket => /\ call' # None /\ call'.op = "CLOSE"
                                 /\ nts_msg' = call' /\ app = "idle" /\ app' = "asked"
<1>1. /\ Request("CREATE", None, "none").op = "CREATE" /\ Request("CREATE", None, "none").sock = None
      /\ Request("CLOSE", None, "none").op = "CLOSE"
  BY Zenon DEF Request
<1>2. Request("CREATE", None, "none") # None /\ Request("CLOSE", None, "none") # None
  BY RequestTypes, Zenon
<1>3. QED
  BY <1>1, <1>2, Zenon DEF nts_epoll_create, nts_close_epoll_socket, Ask

\* None is neither a socket nor an answer nor a count.
LEMMA NoneApart ==
    None \notin Sockets /\ None # 0 /\ None # -1 /\ None \notin Nat
  BY EpollAssumption

\* The producers are the monitor and the proxy.
LEMMA TwoProducers ==
    /\ "ntm" \in Producers /\ "ntp" \in Producers
    /\ \A p \in Producers : p = "ntm" \/ p = "ntp"
  BY EpollAssumption, Zenon

-----------------------------------------------------------------------------
(* Moves of the producers.                                                 *)

\* A producer that goes on keeps its event and what it loaded.
LEMMA PushMoves ==
    ASSUME PushTypeOK, NEW p \in Producers, NEW pc \in PushPlaces,
           push' = [push EXCEPT ![p].pc = pc]
    PROVE  /\ PushTypeOK'
           /\ \A q \in Producers : q # p => push'[q] = push[q]
           /\ push'[p].pc = pc /\ push'[p].sock = push[p].sock /\ push'[p].num = push[p].num
  BY Zenon DEF PushTypeOK

\* The same with the load, or the store, of num_events.
LEMMA PushLoads ==
    ASSUME PushTypeOK, NEW p \in Producers, NEW pc \in PushPlaces, NEW n \in Nat,
           push' = [push EXCEPT ![p].pc = pc, ![p].num = n]
    PROVE  /\ PushTypeOK'
           /\ \A q \in Producers : q # p => push'[q] = push[q]
           /\ push'[p].pc = pc /\ push'[p].sock = push[p].sock /\ push'[p].num = n
  BY Zenon DEF PushTypeOK

\* A producer with a new event, or with none.
LEMMA PushStarts ==
    ASSUME PushTypeOK, NEW p \in Producers, NEW pc \in PushPlaces, NEW s \in Sockets \cup {None},
           push' = [push EXCEPT ![p] = [pc |-> pc, sock |-> s, num |-> 0]]
    PROVE  /\ PushTypeOK'
           /\ \A q \in Producers : q # p => push'[q] = push[q]
           /\ push'[p].pc = pc /\ push'[p].sock = s /\ push'[p].num = 0
  BY Zenon DEF PushTypeOK

\* The unmapping of the queue cuts off the producer that is at it.
LEMMA PushFreed ==
    ASSUME PushTypeOK, NEW p \in Producers, Freed(p)
    PROVE  /\ PushTypeOK'
           /\ \A q \in Producers : q # p => push'[q] = push[q]
           /\ push'[p].pc = IF push[p].pc \in {"idle", "checked"} THEN push[p].pc ELSE "freed"
           /\ push'[p].sock = push[p].sock /\ push'[p].num = push[p].num
<1> DEFINE pc == IF push[p].pc \in {"idle", "checked"} THEN push[p].pc ELSE "freed"
<1>1. pc \in PushPlaces
  BY Zenon DEF PushTypeOK, PushPlaces
<1>2. push' = [push EXCEPT ![p].pc = pc]
  BY Zenon DEF Freed, PushTypeOK
<1> HIDE DEF pc
<1>3. QED
  BY <1>1, <1>2, PushMoves, Zenon DEF pc

\* Producer p has moved to pc, and nobody else has.
Moved(p, pc) ==
    /\ PushTypeOK'
    /\ \A q \in Producers : q # p => push'[q] = push[q]
    /\ push'[p].pc = pc
    /\ pc # "idle" => push'[p].sock = push[p].sock

\* The steps of a push take the producer from place to place.
LEMMA PushStepMoves ==
    ASSUME IndInv, NEW p \in Producers
    PROVE  /\ CallPush(p) => Moved(p, "called") /\ push[p].pc = "checked"
           /\ PushWait(p) => Moved(p, "room") /\ push[p].pc = "called"
           /\ PushCopy(p) => Moved(p, "copied") /\ push[p].pc = "room" /\ push'[p].num = num_events
           /\ PushCount(p) => Moved(p, "counted") /\ push[p].pc = "copied"
           /\ PushDone(p) => Moved(p, "idle") /\ push[p].pc = "counted"
<1>0. PushTypeOK /\ num_events \in Nat /\ {"called", "room", "copied", "counted", "idle"} \subseteq PushPlaces
  BY Zenon DEF IndInv, TypeOK, QueueTypeOK, PushPlaces
<1>1. CallPush(p) => Moved(p, "called") /\ push[p].pc = "checked"
  BY <1>0, PushMoves, ZenonT(30) DEF CallPush, Moved
<1>2. PushWait(p) => Moved(p, "room") /\ push[p].pc = "called"
  BY <1>0, PushMoves, ZenonT(30) DEF PushWait, Moved
<1>3. PushCopy(p) => Moved(p, "copied") /\ push[p].pc = "room" /\ push'[p].num = num_events
  <2>1. PushCopy(p) => push' = [push EXCEPT ![p].pc = "copied", ![p].num = num_events]
                       /\ push[p].pc = "room"
    BY Zenon DEF PushCopy
  <2>2. QED
    BY <1>0, <2>1, PushLoads DEF Moved
<1>4. PushCount(p) => Moved(p, "counted") /\ push[p].pc = "copied"
  <2>1. PushCount(p) => push' = [push EXCEPT ![p].pc = "counted", ![p].num = 0]
                        /\ push[p].pc = "copied"
    BY Zenon DEF PushCount
  <2>2. QED
    BY <1>0, <2>1, PushLoads DEF Moved
<1>5. PushDone(p) => Moved(p, "idle") /\ push[p].pc = "counted"
  <2>1. PushDone(p) => push' = [push EXCEPT ![p] = [pc |-> "idle", sock |-> None, num |-> 0]]
                       /\ push[p].pc = "counted"
    BY Zenon DEF PushDone, NotPushing
  <2>2. QED
    BY <1>0, <2>1, PushStarts DEF Moved
<1>6. QED
  BY <1>1, <1>2, <1>3, <1>4, <1>5, Zenon

\* What one producer's move does to the number of producers with a slot they have
\* not filled, and of those inside num_events++.
LEMMA ProducerCounts ==
    ASSUME NEW p \in Producers, \A q \in Producers : q # p => push'[q] = push[q]
    PROVE  /\ Claimed \in Nat /\ Claimed' \in Nat
           /\ push[p].pc = "room" => Claimed >= 1
           /\ push[p].pc = "room" /\ push'[p].pc # "room" => Claimed' = Claimed - 1
           /\ push[p].pc # "room" /\ push'[p].pc = "room" => Claimed' = Claimed + 1
           /\ (push[p].pc = "room" <=> push'[p].pc = "room") => Claimed' = Claimed
           /\ Counting \in Nat /\ Counting' \in Nat
           /\ push[p].pc = "copied" => Counting >= 1
           /\ push[p].pc = "copied" /\ push'[p].pc # "copied" => Counting' = Counting - 1
           /\ push[p].pc # "copied" /\ push'[p].pc = "copied" => Counting' = Counting + 1
           /\ (push[p].pc = "copied" <=> push'[p].pc = "copied") => Counting' = Counting
<1>1. CASE p = "ntm"
  <2>1. push'["ntp"] = push["ntp"]
    BY <1>1, TwoProducers, Zenon
  <2>2. QED
    BY <1>1, <2>1 DEF Claimed, Counting, At
<1>2. CASE p = "ntp"
  <2>1. push'["ntm"] = push["ntm"]
    BY <1>2, TwoProducers, Zenon
  <2>2. QED
    BY <1>2, <2>1 DEF Claimed, Counting, At
<1>3. QED
  BY <1>1, <1>2, TwoProducers, Zenon

\* When no producer moves, the counts stay.
LEMMA ProducersStay ==
    ASSUME UNCHANGED push
    PROVE  Claimed \in Nat /\ Claimed' = Claimed /\ Counting \in Nat /\ Counting' = Counting
  BY DEF Claimed, Counting, At

\* The counts are those of the two producers.
LEMMA NoneCounted ==
    /\ (\A p \in Producers : push[p].pc # "room") <=> Claimed = 0
    /\ (\A p \in Producers : push[p].pc # "copied") <=> Counting = 0
    /\ Claimed \in Nat /\ Counting \in Nat
  BY TwoProducers DEF Claimed, Counting, At

\* When one producer counts, the other does not.
LEMMA OneCounting ==
    ASSUME NEW p \in Producers, push[p].pc = "copied", Counting = 1
    PROVE  \A q \in Producers : q # p => push[q].pc # "copied"
  BY TwoProducers DEF Counting, At

-----------------------------------------------------------------------------
(* What the steps leave alone.                                             *)

\* nts_epoll_wait touches the queue and its own variables.
LEMMA WaitFrame ==
    ASSUME Wait \/ \E t \in Timeouts : nts_epoll_wait(t)
    PROVE  /\ UNCHANGED <<push, call, libVars, rings, ntmVars, ntpVars, ep_ctx, pushes, creates, closed>>
           /\ app # "asked" /\ app' # "asked"
<1> USE DEF AppStep, queueVars, queue, counts
<1>1. CASE \E t \in Timeouts : nts_epoll_wait(t)
  BY <1>1, Zenon DEF nts_epoll_wait
<1>2. CASE WaitCheck \/ WaitWoken \/ WaitTimedOut \/ WaitReturn
  BY <1>2, Zenon DEF WaitCheck, WaitWoken, WaitTimedOut, WaitReturn
<1>3. CASE WaitLook \/ WaitTake \/ WaitSkip
  BY <1>3, Zenon DEF WaitLook, TakeEvent, WaitTake, WaitSkip, TakeDone
<1>4. QED
  BY <1>1, <1>2, <1>3, Zenon DEF Wait

\* A producer at the queue touches the queue and its own step.
LEMMA PushFrame ==
    ASSUME NEW p \in Producers, PushStep(p)
    PROVE  UNCHANGED <<app, call, waitVars, libVars, rings, ntmVars, ntpVars, ep_ctx, counts, take>>
  BY Zenon DEF PushStep, CallPush, PushFault, queueVars, Push, PushWait, PushCopy, PushCount, PushDone

\* The monitor's and the proxy's handlers leave the application alone.
LEMMA ServerFrame ==
    ASSUME Monitor \/ Proxy
    PROVE  UNCHANGED <<app, call, waitVars, libVars, down, counts>>
<1>1. CASE Monitor
  BY <1>1, Zenon DEF Monitor, handle_msg_nts_epoll_create, CtlUnknown, handle_msg_nts_epoll_ctl, ListenerCtl,
              handle_msg_nts_epoll_close, ProxyAnswered
<1>2. CASE Proxy
  BY <1>2, Zenon DEF Proxy, handle_epoll_create_msg, AddConn, FindConn, CtlNoConn, SetMask,
                     handle_epoll_close_msg
<1>3. QED
  BY <1>1, <1>2, Zenon

\* The steps of a call, of the application, the monitor and the proxy.
CallStep ==
    \/ nts_epoll_create \/ nts_close_epoll_socket \/ Response
    \/ \E op \in CtlOps, s \in Sockets, m \in Masks : nts_epoll_ctl(op, s, m)
    \/ Monitor \/ Proxy

\* What they are about.
callVars == <<call, nt_epoll_map, lib_epoll, rings, ntm_pc, ntm_req, ntm_epoll, ntp_pc, ntp_epoll,
              ep_conn_map, ep_ctx, closed>>

\* The other steps leave that alone.
LEMMA QuietSteps ==
    ASSUME [Next]_vars
    PROVE  \/ CallStep
           \/ /\ UNCHANGED callVars
              /\ app = "asked" <=> app' = "asked"
              /\ nt_sock_map' \subseteq nt_sock_map
              /\ app # "idle" => UNCHANGED nt_sock_map
              /\ UNCHANGED push \/ \E p \in Producers : PushStep(p) \/ \E s \in Sockets : Ready(p, s)
<1> USE DEF callVars, libVars, ntmVars, ntpVars, rings, counts, queueVars
<1>1. CASE UNCHANGED vars \/ \E s \in Sockets : CtlClosed(s) \/ nts_close(s) \/ NtmForget(s) \/ NtpForget(s)
  BY <1>1 DEF vars, CtlClosed, nts_close, NtmForget, NtpForget
<1>2. CASE Wait \/ \E t \in Timeouts : nts_epoll_wait(t)
  BY <1>2, WaitFrame, Zenon
<1>3. CASE \E p \in Producers : PushStep(p) \/ \E s \in Sockets : Ready(p, s)
  BY <1>3, PushFrame DEF Ready
<1>4. QED
  BY <1>1, <1>2, <1>3, Zenon DEF Next, CallStep

\* The steps that touch the queue or move a producer; the others leave a wait that
\* has begun to take events where it is.
LEMMA QueueTouched ==
    ASSUME [Next]_vars
    PROVE  \/ /\ UNCHANGED queueVars
              /\ \/ UNCHANGED <<app, left>>
                 \/ /\ {app, app'} \cap {"take", "skip"} = {}
                    /\ app' = "scan" => left' = num_events
           \/ handle_msg_nts_epoll_create
           \/ WaitWoken \/ WaitLook \/ WaitTake \/ WaitSkip
           \/ ProxyAnswered \/ handle_epoll_close_msg
           \/ \E p \in Producers : PushStep(p) \/ \E s \in Sockets : Ready(p, s)
<1> USE DEF waitVars
<1>1. CASE UNCHANGED vars
  BY <1>1, Zenon DEF vars
<1>2. CASE \/ nts_epoll_create \/ nts_close_epoll_socket \/ Response
           \/ \E op \in CtlOps, s \in Sockets, m \in Masks : nts_epoll_ctl(op, s, m)
           \/ \E s \in Sockets : CtlClosed(s) \/ nts_close(s) \/ NtmForget(s) \/ NtpForget(s)
  BY <1>2 DEF nts_epoll_create, nts_close_epoll_socket, Response, nts_epoll_ctl, Ask, CtlClosed,
              nts_close, NtmForget, NtpForget
<1>3. CASE WaitCheck \/ WaitTimedOut \/ WaitReturn \/ \E t \in Timeouts : nts_epoll_wait(t)
  BY <1>3, Zenon DEF nts_epoll_wait, WaitCheck, WaitTimedOut, WaitReturn, AppStep
<1>4. CASE CtlUnknown \/ handle_msg_nts_epoll_ctl \/ ListenerCtl \/ handle_msg_nts_epoll_close
  BY <1>4, Zenon DEF CtlUnknown, handle_msg_nts_epoll_ctl, ListenerCtl, handle_msg_nts_epoll_close
<1>5. CASE AddConn \/ FindConn \/ CtlNoConn \/ SetMask \/ \E ok \in BOOLEAN : handle_epoll_create_msg(ok)
  BY <1>5, Zenon DEF AddConn, FindConn, CtlNoConn, SetMask, handle_epoll_create_msg
<1>6. QED
  BY <1>1, <1>2, <1>3, <1>4, <1>5, Zenon DEF Next, Wait, Monitor, Proxy

\* Where a request is when a handler takes it up.
LEMMA HandlerFacts ==
    ASSUME IndInv
    PROVE  /\ nts_msg # None => /\ nts_msg = call /\ call # None /\ nts_resp = None /\ ep_msg = None
                                /\ ep_resp = None /\ ntm_pc = "idle" /\ ntp_pc # "mask"
           /\ ntm_pc # "idle" => ntm_req = call /\ call # None /\ nts_resp = None /\ nts_msg = None
           /\ ep_msg # None => /\ ep_msg = call /\ call # None /\ ntm_pc = "wait_ntp" /\ ep_resp = None
                               /\ nts_resp = None /\ nts_msg = None
           /\ ntp_pc = "mask" => ep_msg # None /\ call.op \in CtlOps /\ call.sock \in Conns
           /\ call # None /\ call.op \in CtlOps =>
                /\ nt_epoll_map /\ call.op # "CLOSE" /\ call.op # "CREATE"
                /\ call.sock \in nt_sock_map /\ call.sock \in Sockets
                /\ lib_epoll[call.sock] = call.events
           /\ call # None /\ call.op = "CLOSE" => closed /\ nt_epoll_map
<1>1. MessageTypes /\ TableTypes /\ CallInv
  BY Zenon DEF IndInv, TypeOK
<1>2. QED
  BY <1>1, NoneApart, Zenon DEF MessageTypes, TableTypes, CallInv, CtlOps, Conns

\* Who works on a close knows the epoll socket as closed.
LEMMA ClosingSteps ==
    ASSUME IndInv, handle_msg_nts_epoll_close \/ handle_epoll_close_msg
    PROVE  closed'
<1>1. UNCHANGED closed /\ \/ nts_msg # None /\ nts_msg.op = "CLOSE"
                          \/ ep_msg # None /\ ep_msg.op = "CLOSE"
  BY Zenon DEF handle_msg_nts_epoll_close, handle_epoll_close_msg, Recv, NtpRecv, counts
<1>2. QED
  BY <1>1, HandlerFacts, Zenon

-----------------------------------------------------------------------------
(* The queue.                                                              *)

\* What the steps of a producer do to the number of claimed slots and of producers
\* inside num_events++.
LEMMA PushCounts ==
    ASSUME IndInv, NEW p \in Producers
    PROVE  /\ CallPush(p) \/ PushDone(p) \/ (\E s \in Sockets : Ready(p, s)) =>
                Claimed' = Claimed /\ Counting' = Counting
           /\ PushWait(p) => Claimed' = Claimed + 1 /\ Counting' = Counting
           /\ PushCopy(p) => Claimed >= 1 /\ Claimed' = Claimed - 1 /\ Counting' = Counting + 1
           /\ PushCount(p) => Claimed' = Claimed /\ Counting >= 1 /\ Counting' = Counting - 1
<1>0. PushTypeOK
  BY Zenon DEF IndInv, TypeOK
<1>1. ASSUME NEW s \in Sockets, Ready(p, s)
      PROVE  Claimed' = Claimed /\ Counting' = Counting
  BY <1>0, <1>1, PushStarts, ProducerCounts, Zenon DEF Ready, PushPlaces
<1>2. QED
  BY <1>1, PushStepMoves, ProducerCounts, Zenon DEF Moved

\* A producer that stores num_events++ holds the mutex, and is the only one between
\* the load and the store.
LEMMA CountHolds ==
    ASSUME IndInv, NEW p \in Producers, PushCount(p)
    PROVE  mutex_sem = 0 /\ Counting = 1 /\ Counting' = 0
<1> USE DEF IndInv, TypeOK
<1>1. push[p].pc = "copied" /\ Counting <= 1 /\ (mutex_sem = 1 => Counting = 0) /\ mutex_sem \in 0 .. 1
  BY Zenon DEF PushCount, CountInv, QueueTypeOK
<1>2. QED
  BY <1>1, NoneCounted, PushCounts

\* When the monitor creates the queue, nobody is at the old one.
LEMMA CreateStep ==
    ASSUME IndInv, handle_msg_nts_epoll_create
    PROVE  /\ UNCHANGED <<push, take, app, left>> /\ app = "asked"
           /\ \A p \in Producers : push'[p].pc # "copied"
           /\ Claimed' = 0 /\ Counting' = 0
<1>0. CallInv /\ CloseInv
  BY Zenon DEF IndInv
<1>1. call # None /\ call.op = "CREATE" /\ UNCHANGED <<push, take, app, left>>
  BY HandlerFacts, Zenon DEF handle_msg_nts_epoll_create, Recv, waitVars
<1>2. app = "asked" /\ \A p \in Producers : Away(p)
  BY <1>0, <1>1, Zenon DEF CallInv, CloseInv
<1>3. QED
  BY <1>1, <1>2, NoneCounted, ProducersStay, Zenon DEF Away

\* One producer at a time is in num_events++, what it loaded is no less than what is
\* there, and nts_epoll_wait finds as many events counted as it has left to look at.
LEMMA StepCountInv ==
    ASSUME IndInv, [Next]_vars
    PROVE  CountInv'
<1> SUFFICES ASSUME PushTypeOK, QueueTypeOK, WaitTypes, CountInv
             PROVE  CountInv'
  BY Zenon DEF IndInv, TypeOK
<1> USE NoneApart DEF waitVars, queueVars, queue, header
<1>1. CASE /\ UNCHANGED <<num_events, mutex_sem, push, take>>
           /\ \/ UNCHANGED <<app, left>>
              \/ /\ {app, app'} \cap {"take", "skip"} = {}
                 /\ app' = "scan" => left' = num_events
  <2>1. Counting' = Counting /\ num_events >= num_events
    BY <1>1, ProducersStay DEF QueueTypeOK
  <2>2. QED
    BY <1>1, <2>1, Zenon DEF CountInv
<1>2. CASE WaitLook
  <2>1. /\ take' = num_events /\ UNCHANGED <<num_events, mutex_sem, push, left>>
        /\ app = "scan" /\ left > 0 /\ app' \in {"take", "skip"}
    BY <1>2, Zenon DEF WaitLook, TakeEvent, AppStep
  <2>2. QED
    BY <2>1, ProducersStay DEF CountInv, WaitTypes, QueueTypeOK
<1>3. CASE WaitTake \/ WaitSkip
  <2>1. /\ take \in Nat \ {0} /\ num_events >= take /\ take >= left /\ take' = None
        /\ num_events' = take - 1 /\ UNCHANGED <<mutex_sem, push>>
        /\ app' = "faulted" \/ (app' = "scan" /\ left' = left - 1)
    BY <1>3, Zenon DEF CountInv, QueueTypeOK, WaitTake, WaitSkip, TakeDone, AppStep
  <2>2. \A q \in Producers : push'[q].pc = "copied" => push'[q].num >= num_events'
    BY <2>1 DEF CountInv, QueueTypeOK, PushTypeOK
  <2>3. QED
    BY <2>1, <2>2, ProducersStay DEF WaitTypes, CountInv
<1>4. CASE handle_msg_nts_epoll_create
  <2>1. mutex_sem' = 1
    BY <1>4, Zenon DEF handle_msg_nts_epoll_create, ep_event_queue_create
  <2>2. QED
    BY <1>4, <2>1, CreateStep DEF CountInv
<1>5. ASSUME NEW p \in Producers, Freed(p), UNCHANGED <<num_events, mutex_sem, take, app, left>>
      PROVE  CountInv'
  <2>1. \A q \in Producers : /\ q # p => push'[q] = push[q]
                             /\ push'[q].pc = "copied" => push[q].pc = "copied" /\ push'[q].num = push[q].num
    BY <1>5, PushFreed, Zenon
  <2>2. Counting' <= Counting /\ Counting' \in Nat /\ Counting \in Nat
    BY <2>1, ProducerCounts
  <2>3. Counting' <= 1 /\ (mutex_sem' = 1 => Counting' = 0)
    BY <1>5, <2>2 DEF CountInv
  <2>4. QED
    BY <1>5, <2>1, <2>3, Zenon DEF CountInv
<1>6. CASE ProxyAnswered \/ handle_epoll_close_msg
  BY <1>1, <1>5, <1>6, TwoProducers, Zenon DEF ProxyAnswered, handle_epoll_close_msg
<1>7. ASSUME NEW p \in Producers, CallPush(p) \/ PushWait(p) \/ PushDone(p) \/ \E s \in Sockets : Ready(p, s),
             UNCHANGED <<take, app, left>>
      PROVE  CountInv'
  <2>1. /\ \A q \in Producers : q # p => push'[q] = push[q]
        /\ push'[p].pc # "copied" /\ UNCHANGED <<num_events, mutex_sem>>
    <3>1. CASE CallPush(p) \/ PushWait(p) \/ PushDone(p)
      BY <3>1, PushStepMoves, Zenon DEF Moved, CallPush, PushWait, PushDone
    <3>2. CASE \E s \in Sockets : Ready(p, s)
      BY <3>2, PushStarts, Zenon DEF PushPlaces, Ready
    <3>3. QED
      BY <1>7, <3>1, <3>2, Zenon
  <2>2. Counting' = Counting
    BY <1>7, PushCounts, Zenon
  <2>3. QED
    BY <1>7, <2>1, <2>2, Zenon DEF CountInv
<1>8. ASSUME NEW p \in Producers, PushCopy(p), UNCHANGED <<take, app, left>>
      PROVE  CountInv'
  <2>1. UNCHANGED num_events /\ mutex_sem' = 0 /\ mutex_sem = 1
    BY <1>8 DEF PushCopy, QueueTypeOK
  <2>2. Counting' = 1
    BY <1>8, <2>1, PushCounts DEF CountInv
  <2>3. QED
    BY <1>8, <2>1, <2>2, PushStepMoves DEF CountInv, QueueTypeOK, Moved
<1>9. ASSUME NEW p \in Producers, PushCount(p), UNCHANGED <<take, app, left>>
      PROVE  CountInv'
  <2>1. /\ Moved(p, "counted") /\ push[p].pc = "copied" /\ push[p].num >= num_events /\ push[p].num \in Nat
        /\ num_events' = push[p].num + 1 /\ mutex_sem' = mutex_sem + 1
    <3>1. Moved(p, "counted") /\ push[p].pc = "copied"
      BY <1>9, PushStepMoves, Zenon
    <3>2. push[p].num >= num_events /\ push[p].num \in Nat
      BY <3>1, Zenon DEF CountInv, PushTypeOK
    <3>3. num_events' = push[p].num + 1 /\ mutex_sem' = mutex_sem + 1
      BY <1>9, Zenon DEF PushCount
    <3>4. QED
      BY <3>1, <3>2, <3>3, Zenon
  <2>2. mutex_sem = 0 /\ Counting = 1 /\ Counting' = 0
    BY <1>9, CountHolds, Zenon
  <2>3. \A q \in Producers : push'[q].pc # "copied"
    BY <2>1, <2>2, OneCounting, Zenon DEF Moved
  <2>4. num_events' >= num_events /\ num_events' \in Nat /\ num_events \in Nat
    BY <2>1 DEF QueueTypeOK
  <2>5. QED
    BY <1>9, <2>1, <2>2, <2>3, <2>4 DEF CountInv, WaitTypes, QueueTypeOK
<1>10. ASSUME NEW p \in Producers, PushStep(p) \/ \E s \in Sockets : Ready(p, s)
       PROVE  CountInv'
  <2>1. UNCHANGED <<take, app, left>>
    BY <1>10, PushFrame, Zenon DEF Ready
  <2>2. QED
    BY <1>1, <1>7, <1>8, <1>9, <1>10, <2>1, Zenon DEF PushStep, PushFault, Push
<1>11. CASE WaitWoken
  BY <1>1, <1>11, Zenon DEF WaitWoken, AppStep
<1>12. QED
  BY <1>1, <1>2, <1>3, <1>4, <1>6, <1>10, <1>11, QueueTouched, Zenon

\* Only ep_event_queue_create brings the queue into use.
LEMMA MappedStays ==
    ASSUME IndInv, [Next]_vars, Mapped'
    PROVE  Mapped \/ handle_msg_nts_epoll_create
<1>0. CallInv
  BY Zenon DEF IndInv
<1> USE <1>0, NoneApart DEF libVars, rings, Mapped, Open
<1>1. CASE UNCHANGED <<call, nts_msg, nt_epoll_map>>
  BY <1>1, Zenon
<1>2. CASE nts_epoll_create \/ nts_close_epoll_socket
  BY <1>2, SocketRequest, Zenon DEF nts_epoll_create, nts_close_epoll_socket
<1>3. CASE Response
  BY <1>3, Zenon DEF Response, CallInv, CtlOps
<1>4. CASE \E op \in CtlOps, s \in Sockets, m \in Masks : nts_epoll_ctl(op, s, m)
  BY <1>4, Zenon DEF nts_epoll_ctl, Ask, CallInv
<1>5. CASE CtlUnknown \/ handle_msg_nts_epoll_ctl \/ handle_msg_nts_epoll_close
  BY <1>5, HandlerFacts, Zenon
     DEF CtlUnknown, handle_msg_nts_epoll_ctl, handle_msg_nts_epoll_close, Recv, CtlOps
<1>6. CASE ListenerCtl \/ ProxyAnswered \/ Proxy
  BY <1>1, <1>6, Zenon DEF ListenerCtl, ProxyAnswered, Proxy, handle_epoll_create_msg, AddConn, FindConn,
                    CtlNoConn, SetMask, handle_epoll_close_msg, Answer
<1>7. QED
  BY <1>1, <1>2, <1>3, <1>4, <1>5, <1>6, QuietSteps, Zenon DEF CallStep, Monitor, callVars

\* A queue whose close the monitor or the proxy has ended is no longer in use.
LEMMA ClosingNotMapped ==
    ASSUME IndInv, (ProxyAnswered /\ ntm_req.op = "CLOSE") \/ handle_epoll_close_msg
    PROVE  ~Mapped'
<1>1. call # None /\ call.op = "CLOSE" /\ UNCHANGED call
  BY HandlerFacts, Zenon DEF ProxyAnswered, handle_epoll_close_msg, NtpRecv
<1>2. QED
  BY <1>1, Zenon DEF Mapped, Open

\* When nts_epoll_wait takes an event and no update of num_events was lost, the
\* queue was not empty.
LEMMA TakeFinds ==
    ASSUME IndInv, TakeDone, ~lost'
    PROVE  /\ ~lost /\ num_events = take /\ pending' = Tail(pending)
           /\ pending # <<>> /\ Len(pending) >= 1 /\ Len(pending') = Len(pending) - 1
           /\ pending' \in Seq(Sockets)
<1>0. QueueTypeOK /\ SlotInv
  BY Zenon DEF IndInv, TypeOK
<1> USE <1>0
<1>1. ~lost /\ num_events = take /\ pending' = Tail(pending)
  BY Zenon DEF QueueTypeOK, TakeDone
<1>2. take \in Nat \ {0} /\ pending \in Seq(Sockets) /\ num_events + Counting <= Len(pending)
  BY <1>1, Zenon DEF QueueTypeOK, TakeDone, SlotInv
<1>3. Len(pending) >= 1
  BY <1>1, <1>2, NoneCounted
<1>4. QED
  BY <1>1, <1>2, <1>3

\* Every slot is free, claimed or in the queue, and every event in it is counted or
\* about to be, through each step of a push, of nts_epoll_wait and of a close.
LEMMA StepSlotInv ==
    ASSUME IndInv, [Next]_vars
    PROVE  SlotInv'
<1> SUFFICES ASSUME PushTypeOK, QueueTypeOK, SlotInv
             PROVE  SlotInv'
  BY Zenon DEF IndInv, TypeOK
<1> USE DEF queueVars, queue, header
<1>1. /\ num_events \in Nat /\ empty_sem \in Nat /\ Len(pending) \in Nat /\ Capacity \in Nat
      /\ Claimed \in Nat /\ Counting \in Nat
      /\ ~lost => /\ end = SlotAfter(start, Len(pending))
                  /\ empty_sem + Claimed + Len(pending) <= Capacity
                  /\ num_events + Counting <= Len(pending)
                  /\ Mapped => /\ empty_sem + Claimed + Len(pending) = Capacity
                               /\ num_events + Counting = Len(pending)
  BY CapacityAssumption, NoneCounted DEF QueueTypeOK, SlotInv
<1>2. CASE handle_msg_nts_epoll_create
  <2>1. /\ start' = 0 /\ end' = 0 /\ num_events' = 0 /\ empty_sem' = Capacity
        /\ pending' = <<>> /\ Len(pending') = 0
    BY <1>2, Zenon DEF handle_msg_nts_epoll_create, ep_event_queue_create
  <2>2. SlotAfter(0, 0) = 0
    BY CapacityAssumption DEF SlotAfter
  <2>3. QED
    BY <1>1, <1>2, <2>1, <2>2, CreateStep DEF SlotInv
<1> SUFFICES ASSUME ~handle_msg_nts_epoll_create
             PROVE  SlotInv'
  BY <1>2, Zenon
<1>3. Mapped' => Mapped
  BY MappedStays, Zenon
<1>4. ASSUME UNCHANGED <<start, end, num_events, empty_sem, pending, lost>>, Claimed' = Claimed,
             Counting' = Counting
      PROVE  SlotInv'
  BY <1>3, <1>4, Zenon DEF SlotInv
<1>5. CASE UNCHANGED queueVars \/ WaitWoken \/ WaitLook
  <2>1. UNCHANGED <<start, end, num_events, empty_sem, pending, lost, push>>
    BY <1>5, Zenon DEF WaitWoken, WaitLook, TakeEvent
  <2>2. QED
    BY <1>4, <2>1, ProducersStay, Zenon
<1>6. CASE WaitTake \/ WaitSkip
  <2> SUFFICES ASSUME ~lost'
               PROVE  SlotInv'
    BY Zenon DEF SlotInv
  <2>1. /\ ~lost /\ Len(pending) >= 1 /\ Len(pending') = Len(pending) - 1
        /\ start' = next_index(start) /\ num_events' = num_events - 1 /\ empty_sem' = empty_sem + 1
        /\ UNCHANGED <<end, push>>
    BY <1>6, TakeFinds, Zenon DEF WaitTake, WaitSkip, TakeDone
  <2>2. Len(pending) - 1 \in 0 .. Capacity - 1
    BY <1>1, <2>1
  <2>3. SlotAfter(start', Len(pending')) = end'
    <3>1. SlotAfter(increment(start), Len(pending) - 1) = SlotAfter(start, (Len(pending) - 1) + 1)
      BY <2>2, SlotAfterStep, Zenon DEF QueueTypeOK
    <3>2. QED
      BY <1>1, <2>1, <3>1, IncrementWraps DEF QueueTypeOK
  <2>4. QED
    BY <1>1, <1>3, <2>1, <2>3, ProducersStay DEF SlotInv
<1>7. ASSUME NEW p \in Producers, Freed(p), UNCHANGED queue, ~Mapped'
      PROVE  SlotInv'
  <2>1. Claimed' <= Claimed /\ Claimed' \in Nat /\ Counting' <= Counting /\ Counting' \in Nat
    BY <1>7, PushFreed, ProducerCounts
  <2>2. ~lost' => /\ end' = SlotAfter(start', Len(pending'))
                  /\ empty_sem' + Claimed' + Len(pending') <= Capacity
                  /\ num_events' + Counting' <= Len(pending')
    BY <1>1, <1>7, <2>1
  <2>3. QED
    BY <1>7, <2>2, Zenon DEF SlotInv
<1>8. CASE ProxyAnswered \/ handle_epoll_close_msg
  BY <1>5, <1>7, <1>8, ClosingNotMapped, TwoProducers, Zenon DEF ProxyAnswered, handle_epoll_close_msg
<1>9. ASSUME NEW p \in Producers, CallPush(p) \/ PushDone(p) \/ \E s \in Sockets : Ready(p, s)
      PROVE  SlotInv'
  BY <1>4, <1>9, PushCounts, Zenon DEF CallPush, PushDone, Ready
<1>10. ASSUME NEW p \in Producers, PushWait(p)
       PROVE  SlotInv'
  <2>1. /\ UNCHANGED <<start, end, num_events, pending, lost>> /\ empty_sem' = empty_sem - 1
        /\ Claimed' = Claimed + 1 /\ Counting' = Counting
    BY <1>10, PushCounts, Zenon DEF PushWait
  <2>2. ~lost' => /\ empty_sem' + Claimed' + Len(pending') <= Capacity
                  /\ Mapped' => empty_sem' + Claimed' + Len(pending') = Capacity
    BY <1>1, <1>3, <2>1
  <2>3. QED
    BY <1>3, <2>1, <2>2, Zenon DEF SlotInv
<1>11. ASSUME NEW p \in Producers, PushCopy(p)
       PROVE  SlotInv'
  <2> SUFFICES ASSUME ~lost'
               PROVE  SlotInv'
    BY Zenon DEF SlotInv
  <2>1. /\ UNCHANGED <<start, num_events, empty_sem>> /\ ~lost /\ end' = next_index(end)
        /\ pending' = Append(pending, push[p].sock)
        /\ Claimed >= 1 /\ Claimed' = Claimed - 1 /\ Counting' = Counting + 1
    BY <1>11, PushCounts, Zenon DEF PushCopy
  <2>2. Len(pending') = Len(pending) + 1 /\ Len(pending) \in 0 .. Capacity - 1
    BY <1>1, <2>1 DEF QueueTypeOK
  <2>3. end' = SlotAfter(start', Len(pending'))
    <3>1. increment(SlotAfter(start, Len(pending))) = SlotAfter(start, Len(pending) + 1)
      BY <2>2, SlotAfterStep, Zenon DEF QueueTypeOK
    <3>2. QED
      BY <1>1, <2>1, <2>2, <3>1, IncrementWraps, Zenon DEF QueueTypeOK
  <2>4. /\ num_events' + Counting' <= Len(pending')
        /\ Mapped' => num_events' + Counting' = Len(pending')
        /\ empty_sem' + Claimed' + Len(pending') <= Capacity
        /\ Mapped' => empty_sem' + Claimed' + Len(pending') = Capacity
    BY <1>1, <1>3, <2>1, <2>2
  <2>5. QED
    BY <2>3, <2>4, Zenon DEF SlotInv
<1>12. ASSUME NEW p \in Producers, PushCount(p)
       PROVE  SlotInv'
  <2> SUFFICES ASSUME ~lost'
               PROVE  SlotInv'
    BY DEF SlotInv
  <2>1. /\ UNCHANGED <<start, end, empty_sem, pending>> /\ ~lost /\ num_events' = num_events + 1
        /\ Claimed' = Claimed /\ Counting' = Counting - 1
    BY <1>12, PushCounts, Zenon DEF PushCount
  <2>2. QED
    BY <1>1, <1>3, <2>1 DEF SlotInv
<1>13. QED
  BY <1>5, <1>6, <1>8, <1>9, <1>10, <1>11, <1>12, QueueTouched, Zenon DEF PushStep, PushFault, Push

\* A push writes a slot behind the window of events, and nts_epoll_wait takes the
\* first slot of it: what is in between stays as it was pushed.
LEMMA StepEventsInOrder ==
    ASSUME IndInv, [Next]_vars, QueueTypeOK', SlotInv'
    PROVE  EventsInOrder'
<1> SUFFICES ASSUME QueueTypeOK, SlotInv, EventsInOrder
             PROVE  EventsInOrder'
  BY Zenon DEF IndInv, TypeOK
<1> USE DEF queueVars, queue, header
<1>1. ~lost' => Len(pending') <= Capacity
  <2>1. Claimed' \in Nat /\ empty_sem' \in Nat /\ Len(pending') \in Nat /\ Capacity \in Nat
    BY CapacityAssumption DEF Claimed, At, QueueTypeOK
  <2>2. QED
    BY <2>1 DEF SlotInv
<1>2. ASSUME UNCHANGED <<start, events>>, ~lost' => ~lost /\ pending' = pending
      PROVE  EventsInOrder'
  BY <1>2, Zenon DEF EventsInOrder
<1>3. CASE UNCHANGED queueVars \/ WaitWoken \/ WaitLook \/ ProxyAnswered \/ handle_epoll_close_msg
  BY <1>2, <1>3, Zenon DEF WaitWoken, WaitLook, TakeEvent, ProxyAnswered, handle_epoll_close_msg
<1>4. CASE handle_msg_nts_epoll_create
  <2>1. pending' = <<>> /\ Len(pending') = 0
    BY <1>4, Zenon DEF handle_msg_nts_epoll_create, ep_event_queue_create
  <2>2. Window(events', start', 0) = <<>>
    BY DEF Window
  <2>3. QED
    BY <1>1, <2>1, <2>2, Zenon DEF EventsInOrder
<1>5. CASE WaitTake \/ WaitSkip
  <2> SUFFICES ASSUME ~lost'
               PROVE  Window(events', start', Len(pending')) = pending'
    BY <1>1, Zenon DEF EventsInOrder
  <2>1. /\ pending' = Tail(pending) /\ Len(pending) \in 1 .. Capacity /\ Len(pending') = Len(pending) - 1
        /\ Window(events, start, Len(pending)) = pending
    BY <1>5, TakeFinds DEF WaitTake, WaitSkip, EventsInOrder, QueueTypeOK
  <2>2. start' = increment(start) /\ events' = events
    BY <1>5, IncrementWraps, Zenon DEF WaitTake, WaitSkip, TakeDone, QueueTypeOK
  <2>3. Window(events, increment(start), Len(pending) - 1) = Tail(Window(events, start, Len(pending)))
    BY <2>1, WindowTail, Zenon DEF QueueTypeOK
  <2>4. QED
    BY <2>1, <2>2, <2>3, Zenon
<1>6. ASSUME NEW p \in Producers, PushCopy(p)
      PROVE  EventsInOrder'
  <2> SUFFICES ASSUME ~lost'
               PROVE  Window(events', start', Len(pending')) = pending'
    BY <1>1, Zenon DEF EventsInOrder
  <2> DEFINE n == Len(pending)
  <2>1. /\ start' = start /\ ~lost /\ pending' = Append(pending, push[p].sock)
        /\ events' = [events EXCEPT ![end] = push[p].sock]
    BY <1>6, Zenon DEF PushCopy
  <2>2. end = SlotAfter(start, n) /\ Window(events, start, n) = pending
    BY <2>1, Zenon DEF SlotInv, EventsInOrder
  <2>3. Len(pending') = n + 1 /\ n \in 0 .. Capacity - 1 /\ n \in n .. Capacity - 1
    BY <1>1, <2>1, CapacityAssumption DEF QueueTypeOK
  <2>4. events'[end] = push[p].sock /\ \A i \in Slots \ {end} : events'[i] = events[i]
    BY <2>1, Zenon DEF QueueTypeOK
  <2>5. \A k \in 1 .. n : SlotAfter(start, k - 1) \in Slots \ {end}
    BY <2>2, <2>3, SlotOutsideWindow, Zenon DEF QueueTypeOK
  <2>6. Window(events', start, n) = pending
    BY <2>2, <2>4, <2>5, Zenon DEF Window
  <2>7. Window(events', start, n + 1) = Append(Window(events', start, n), events'[SlotAfter(start, n)])
    BY <2>3, WindowAppend, Zenon DEF QueueTypeOK
  <2>8. QED
    BY <2>1, <2>2, <2>3, <2>4, <2>6, <2>7, Zenon
<1>7. ASSUME NEW p \in Producers, PushStep(p) \/ \E s \in Sockets : Ready(p, s)
      PROVE  EventsInOrder'
  BY <1>2, <1>6, <1>7, Zenon DEF PushStep, Push, CallPush, PushFault, PushWait, PushCount, PushDone, Ready
<1>8. QED
  BY <1>3, <1>4, <1>5, <1>7, QueueTouched, Zenon

-----------------------------------------------------------------------------
(* Types.                                                                  *)

\* Every step keeps the types of the queue.
LEMMA StepQueueTypes ==
    ASSUME IndInv, [Next]_vars
    PROVE  QueueTypeOK'
<1> SUFFICES ASSUME PushTypeOK, QueueTypeOK, WaitTypes, CloseInv, CountInv
             PROVE  QueueTypeOK'
  BY Zenon DEF IndInv, TypeOK
<1> USE DEF queueVars, queue, header
<1>1. ASSUME UNCHANGED <<header, mutex_sem, pending, lost>>, empty_sem' \in Nat, full_sem' \in Nat,
             take' = None \/ take' \in Nat \ {0}
      PROVE  QueueTypeOK'
  BY <1>1, Zenon DEF QueueTypeOK
<1>2. CASE UNCHANGED queueVars \/ WaitWoken
  BY <1>1, <1>2 DEF QueueTypeOK, WaitWoken
<1>3. CASE handle_msg_nts_epoll_create
  <2>1. /\ start' \in Slots /\ end' \in Slots /\ mutex_sem' \in 0 .. 1
        /\ num_events' \in Nat /\ empty_sem' \in Nat /\ full_sem' \in Nat
        /\ events' \in [Slots -> Sockets \cup {None}] /\ pending' \in Seq(Sockets)
    BY <1>3, CapacityAssumption DEF handle_msg_nts_epoll_create, ep_event_queue_create, Slots
  <2>2. lost' = FALSE /\ UNCHANGED take
    BY <1>3, Zenon DEF handle_msg_nts_epoll_create, ep_event_queue_create
  <2>3. QED
    BY <2>1, <2>2, Zenon DEF QueueTypeOK
<1>4. CASE WaitLook
  <2>1. num_events \in Nat \ {0}
    BY <1>4 DEF WaitTypes, CountInv, WaitLook, QueueTypeOK
  <2>2. QED
    BY <1>1, <1>4, <2>1, Zenon DEF QueueTypeOK, WaitLook, TakeEvent
<1>5. CASE WaitTake \/ WaitSkip
  <2>1. TakeDone
    BY <1>5, Zenon DEF WaitTake, WaitSkip
  <2>2. start' \in Slots /\ num_events' \in Nat /\ empty_sem' \in Nat
    BY <2>1, IncrementWraps DEF QueueTypeOK, TakeDone
  <2>3. pending' \in Seq(Sockets)
    BY <2>1, TakeFinds DEF TakeDone
  <2>4. lost' \in BOOLEAN
    BY <2>1, Zenon DEF TakeDone
  <2>5. QED
    BY <2>1, <2>2, <2>3, <2>4, Zenon DEF QueueTypeOK, TakeDone
<1>6. CASE ProxyAnswered \/ handle_epoll_close_msg
  BY <1>1, <1>6, Zenon DEF ProxyAnswered, handle_epoll_close_msg, QueueTypeOK
<1>7. ASSUME NEW p \in Producers, Push(p) \/ CallPush(p) \/ \E s \in Sockets : Ready(p, s)
      PROVE  QueueTypeOK'
  <2>1. CASE CallPush(p) \/ PushWait(p) \/ PushDone(p) \/ \E s \in Sockets : Ready(p, s)
    BY <1>1, <2>1 DEF CallPush, PushWait, PushDone, Ready, QueueTypeOK
  <2>2. CASE PushCopy(p)
    <3>1. end' \in Slots /\ mutex_sem' \in 0 .. 1
      BY <2>2, IncrementWraps DEF PushCopy, QueueTypeOK
    <3>2. push[p].sock \in Sockets
      BY <2>2, TwoProducers, EpollAssumption, Zenon DEF CloseInv, PushCopy, Conns
    <3>3. events' \in [Slots -> Sockets \cup {None}] /\ pending' \in Seq(Sockets)
      BY <2>2, <3>2 DEF PushCopy, QueueTypeOK
    <3>4. QED
      BY <2>2, <3>1, <3>3, Zenon DEF PushCopy, QueueTypeOK
  <2>3. CASE PushCount(p)
    <3>1. mutex_sem = 0
      BY <2>3, CountHolds, Zenon
    <3>2. mutex_sem' \in 0 .. 1 /\ num_events' \in Nat /\ pending' \in Seq(Sockets)
      BY <2>3, <3>1 DEF PushCount, QueueTypeOK, PushTypeOK
    <3>3. lost' \in BOOLEAN /\ UNCHANGED <<start, end, events, empty_sem, full_sem, take>>
      BY <2>3, Zenon DEF PushCount
    <3>4. QED
      BY <3>2, <3>3, Zenon DEF QueueTypeOK
  <2>4. QED
    BY <1>7, <2>1, <2>2, <2>3, Zenon DEF Push
<1>8. QED
  BY <1>2, <1>3, <1>4, <1>5, <1>6, <1>7, QueueTouched, Zenon DEF PushStep, PushFault

\* Every step keeps the places of the producers.
LEMMA StepPushTypes ==
    ASSUME IndInv, [Next]_vars
    PROVE  PushTypeOK'
<1>1. PushTypeOK
  BY Zenon DEF IndInv, TypeOK
<1>2. CASE UNCHANGED push
  BY <1>1, <1>2, Zenon DEF PushTypeOK
<1>3. CASE ProxyAnswered \/ handle_epoll_close_msg
  BY <1>1, <1>2, <1>3, TwoProducers, PushFreed, Zenon DEF ProxyAnswered, handle_epoll_close_msg
<1>4. ASSUME NEW p \in Producers, PushStep(p)
      PROVE  PushTypeOK'
  BY <1>2, <1>4, PushStepMoves, Zenon DEF PushStep, PushFault, Push, Moved, queueVars
<1>5. ASSUME NEW p \in Producers, NEW s \in Sockets, Ready(p, s)
      PROVE  PushTypeOK'
  <2>1. push' = [push EXCEPT ![p] = [pc |-> "checked", sock |-> s, num |-> 0]] /\ "checked" \in PushPlaces
    BY <1>5, Zenon DEF Ready, PushPlaces
  <2>2. QED
    BY <1>1, <2>1, PushStarts, Zenon
<1>6. CASE handle_msg_nts_epoll_create \/ WaitWoken \/ WaitLook \/ WaitTake \/ WaitSkip
  BY <1>2, <1>6, Zenon DEF handle_msg_nts_epoll_create, WaitWoken, WaitLook, WaitTake, WaitSkip,
                           TakeEvent, TakeDone
<1>7. QED
  BY <1>2, <1>3, <1>4, <1>5, <1>6, QueueTouched, Zenon DEF queueVars

\* Every step keeps the types of nts_epoll_wait: it never has less than no event
\* left to look at.
LEMMA StepWaitTypes ==
    ASSUME IndInv, [Next]_vars
    PROVE  WaitTypes'
<1> SUFFICES ASSUME QueueTypeOK, WaitTypes, CountInv
             PROVE  WaitTypes'
  BY Zenon DEF IndInv, TypeOK
<1> USE DEF waitVars
<1>1. ASSUME UNCHANGED app \/ app' \in {"idle", "asked"}, UNCHANGED waitVars,
             down' \subseteq Producers \cup {"app"}
      PROVE  WaitTypes'
  BY <1>1, Zenon DEF WaitTypes
<1>2. CASE UNCHANGED <<app, waitVars, down>>
  BY <1>1, <1>2, Zenon DEF WaitTypes
<1>3. CASE nts_epoll_create \/ nts_close_epoll_socket \/ Response
           \/ \E op \in CtlOps, s \in Sockets, m \in Masks : nts_epoll_ctl(op, s, m)
  BY <1>1, <1>3 DEF WaitTypes, nts_epoll_create, nts_close_epoll_socket, Response, nts_epoll_ctl, Ask
<1>4. CASE \E s \in Sockets : CtlClosed(s) \/ nts_close(s) \/ NtmForget(s) \/ NtpForget(s)
  BY <1>2, <1>4, Zenon DEF CtlClosed, nts_close, NtmForget, NtpForget
<1>5. CASE \E t \in Timeouts : nts_epoll_wait(t)
  BY <1>5, EpollAssumption DEF WaitTypes, nts_epoll_wait
<1>6. CASE Wait
  <2> USE DEF Wait, WaitCheck, WaitWoken, WaitTimedOut, WaitLook, WaitTake, WaitSkip, WaitReturn
  <2>1. /\ app' \in {"idle", "asked", "check", "sleep", "scan", "take", "skip", "faulted"}
        /\ timeout' \in Timeouts /\ down' \subseteq Producers \cup {"app"}
    BY <1>6, Zenon DEF AppStep, WaitTypes, Timeouts
  <2>2. cnt' \in Nat
    BY <1>6, EpollAssumption DEF WaitTypes
  <2>3. WaitTake => left' \in Nat
    BY DEF WaitTypes, CountInv
  <2>4. UNCHANGED left \/ left' = num_events \/ WaitTake
    BY <1>6, Zenon
  <2>5. left' \in Nat
    BY ONLY WaitTypes, QueueTypeOK, <2>3, <2>4, Zenon DEF WaitTypes, QueueTypeOK
  <2>6. QED
    BY <2>1, <2>2, <2>5, Zenon DEF WaitTypes
<1>7. ASSUME NEW p \in Producers, PushStep(p) \/ \E s \in Sockets : Ready(p, s)
      PROVE  WaitTypes'
  <2>1. UNCHANGED <<app, waitVars>>
    BY <1>7, PushFrame, Zenon DEF Ready
  <2>2. down' \subseteq Producers \cup {"app"}
    BY <1>7, Zenon DEF WaitTypes, PushStep, CallPush, PushFault, Ready
  <2>3. QED
    BY <1>1, <2>1, <2>2, Zenon
<1>8. QED
  BY <1>2, <1>3, <1>4, <1>5, <1>6, <1>7, ServerFrame, Zenon DEF Next, vars

\* Every step keeps the bounds on the calls.
LEMMA StepBoundTypes ==
    ASSUME IndInv, [Next]_vars
    PROVE  BoundTypes'
<1> SUFFICES ASSUME BoundTypes
             PROVE  BoundTypes'
  BY Zenon DEF IndInv, TypeOK
<1> USE DEF counts
<1>1. CASE UNCHANGED counts
  BY <1>1, Zenon DEF BoundTypes
<1>2. ASSUME UNCHANGED closed \/ closed' = TRUE, UNCHANGED pushes,
             UNCHANGED calls \/ (calls < MaxCalls /\ calls' = calls + 1),
             UNCHANGED creates \/ (creates < MaxCreates /\ creates' = creates + 1)
      PROVE  BoundTypes'
  <2>1. closed' \in BOOLEAN
    BY <1>2, Zenon DEF BoundTypes
  <2>2. calls' \in 0 .. MaxCalls /\ creates' \in 0 .. MaxCreates /\ pushes' \in 0 .. MaxPushes
    BY <1>2, EpollAssumption DEF BoundTypes
  <2>3. QED
    BY <2>1, <2>2, Zenon DEF BoundTypes
<1>3. CASE nts_epoll_create \/ nts_close_epoll_socket
  BY <1>2, <1>3, Zenon DEF nts_epoll_create, nts_close_epoll_socket
<1>4. CASE \/ \E s \in Sockets : nts_close(s)
           \/ \E op \in CtlOps, s \in Sockets, m \in Masks : nts_epoll_ctl(op, s, m)
           \/ \E t \in Timeouts : nts_epoll_wait(t)
  BY <1>2, <1>4, Zenon DEF nts_close, nts_epoll_ctl, nts_epoll_wait
<1>5. ASSUME NEW p \in Producers, NEW s \in Sockets, Ready(p, s)
      PROVE  BoundTypes'
  <2>1. pushes' \in 0 .. MaxPushes
    BY <1>5, EpollAssumption DEF BoundTypes, Ready
  <2>2. QED
    BY <1>5, <2>1, Zenon DEF BoundTypes, Ready
<1>6. CASE Response \/ \E s \in Sockets : CtlClosed(s) \/ NtmForget(s) \/ NtpForget(s)
  BY <1>1, <1>6, Zenon DEF Response, CtlClosed, NtmForget, NtpForget
<1>7. CASE Wait
  BY <1>1, <1>7, Zenon
     DEF Wait, WaitCheck, WaitWoken, WaitTimedOut, WaitLook, WaitTake, WaitSkip, WaitReturn, AppStep
<1>8. QED
  BY <1>1, <1>3, <1>4, <1>5, <1>6, <1>7, ServerFrame, PushFrame, Zenon DEF Next, vars

\* Every step keeps the types of the messages and of who works on them.
LEMMA StepMessageTypes ==
    ASSUME IndInv, [Next]_vars
    PROVE  MessageTypes'
<1> SUFFICES ASSUME MessageTypes
             PROVE  MessageTypes'
  BY Zenon DEF IndInv, TypeOK
<1> USE DEF rings, ntmVars, ntpVars
<1>1. CASE UNCHANGED callVars
  BY <1>1, Zenon DEF MessageTypes, callVars
<1>2. CASE nts_epoll_create \/ nts_close_epoll_socket \/ Response
           \/ \E op \in CtlOps, s \in Sockets, m \in Masks : nts_epoll_ctl(op, s, m)
  <2>1. /\ call' \in Requests \cup {None} /\ nts_msg' \in Requests \cup {None} /\ nts_resp' \in Answers
        /\ UNCHANGED <<ep_msg, ep_resp, ntm_pc, ntm_req, ntp_pc>>
    <3>1. CASE Response
      BY <3>1, Zenon DEF MessageTypes, Response, Answers
    <3>2. CASE nts_epoll_create \/ nts_close_epoll_socket
      BY <3>2, RequestTypes, Zenon DEF MessageTypes, nts_epoll_create, nts_close_epoll_socket, Ask
    <3>3. ASSUME NEW op \in CtlOps, NEW s \in Sockets, NEW m \in Masks, nts_epoll_ctl(op, s, m)
          PROVE  /\ call' \in Requests /\ nts_msg' \in Requests
                 /\ UNCHANGED <<nts_resp, ep_msg, ep_resp, ntm_pc, ntm_req, ntp_pc>>
      <4>1. Request(op, s, m) \in Requests
        BY RequestTypes, Zenon
      <4>2. QED
        BY <3>3, <4>1, Zenon DEF nts_epoll_ctl, Ask
    <3>4. QED
      BY <1>2, <3>1, <3>2, <3>3, Zenon DEF MessageTypes
  <2>2. QED
    BY <2>1, Zenon DEF MessageTypes
<1>3. CASE handle_msg_nts_epoll_create \/ CtlUnknown \/ handle_msg_nts_epoll_close
  BY <1>3, Zenon DEF MessageTypes, handle_msg_nts_epoll_create, CtlUnknown, handle_msg_nts_epoll_close,
                     Recv, AskProxy
<1>4. CASE handle_msg_nts_epoll_ctl
  BY <1>4, Zenon DEF MessageTypes, handle_msg_nts_epoll_ctl, Recv, AskProxy, Reply, Answers
<1>5. CASE ListenerCtl \/ ProxyAnswered
  BY <1>5, Zenon DEF MessageTypes, ListenerCtl, ProxyAnswered, Reply, Answers
<1>6. CASE AddConn \/ FindConn
  BY <1>6, Zenon DEF MessageTypes, AddConn, FindConn
<1>7. CASE CtlNoConn \/ SetMask \/ handle_epoll_close_msg \/ \E ok \in BOOLEAN : handle_epoll_create_msg(ok)
  <2>1. /\ UNCHANGED <<call, nts_msg, nts_resp, ntm_pc, ntm_req>>
        /\ ep_msg' = None /\ ep_resp' \in {0, -1} /\ ntp_pc' \in {"recv", "exited"}
    BY <1>7, Zenon DEF CtlNoConn, SetMask, handle_epoll_close_msg, handle_epoll_create_msg, Answer
  <2>2. QED
    BY <2>1, Zenon DEF MessageTypes, Answers
<1>8. QED
  BY <1>1, <1>2, <1>3, <1>4, <1>5, <1>6, <1>7, QuietSteps, Zenon DEF CallStep, Monitor, Proxy

\* Every step keeps the types of the tables: libnts, the monitor and the proxy hold
\* masks for sockets only, and contexts of listeners and of connections apart.
LEMMA StepTableTypes ==
    ASSUME IndInv, [Next]_vars
    PROVE  TableTypes'
<1> SUFFICES ASSUME MessageTypes, TableTypes, CallInv
             PROVE  TableTypes'
  BY Zenon DEF IndInv, TypeOK
<1> USE DEF libVars, ntmVars, ntpVars
<1>1. CASE UNCHANGED <<libVars, ntmVars, ntpVars, ep_ctx>>
  BY <1>1, Zenon DEF TableTypes
<1>2. CASE nts_epoll_create \/ nts_close_epoll_socket \/ CtlUnknown
  BY <1>1, <1>2, Zenon DEF nts_epoll_create, nts_close_epoll_socket, CtlUnknown
<1>3. CASE Response
  <2>1. nt_epoll_map' \in BOOLEAN
    BY <1>3, Zenon DEF TableTypes, Response
  <2>2. epoll_sockets' \subseteq Sockets
    BY <1>3, HandlerFacts, Zenon DEF TableTypes, CallInv, Response, CtlOps
  <2>3. QED
    BY <1>3, <2>1, <2>2, Zenon DEF TableTypes, Response
<1>4. ASSUME NEW s \in Sockets, CtlClosed(s) \/ nts_close(s) \/ NtmForget(s) \/ NtpForget(s)
      PROVE  TableTypes'
  BY <1>4, Zenon DEF TableTypes, CtlClosed, nts_close, NtmForget, NtpForget
<1>5. ASSUME NEW op \in CtlOps, NEW s \in Sockets, NEW m \in Masks, nts_epoll_ctl(op, s, m)
      PROVE  TableTypes'
  BY <1>5, Zenon DEF TableTypes, nts_epoll_ctl
<1>6. CASE handle_msg_nts_epoll_create \/ ProxyAnswered
  BY <1>6, Zenon DEF TableTypes, handle_msg_nts_epoll_create, AskProxy, ProxyAnswered
<1>7. CASE handle_msg_nts_epoll_ctl
  <2>1. ntm_epoll' \in [Sockets -> Masks]
    BY <1>7, RequestTypes, Zenon DEF MessageTypes, TableTypes, handle_msg_nts_epoll_ctl, Recv
  <2>2. QED
    BY <1>7, <2>1, Zenon DEF TableTypes, handle_msg_nts_epoll_ctl
<1>8. CASE ListenerCtl
  <2>1. ep_socket_map' \subseteq Listeners /\ ep_ctx' \subseteq Sockets
    BY <1>8, EpollAssumption, Zenon DEF TableTypes, CallInv, ListenerCtl
  <2>2. QED
    BY <1>8, <2>1, Zenon DEF TableTypes, ListenerCtl
<1>9. CASE handle_msg_nts_epoll_close
  BY <1>9, Zenon DEF TableTypes, handle_msg_nts_epoll_close, AskProxy, Masks
<1>10. ASSUME NEW ok \in BOOLEAN, handle_epoll_create_msg(ok)
       PROVE  TableTypes'
  BY <1>10, Zenon DEF TableTypes, handle_epoll_create_msg
<1>11. CASE AddConn \/ FindConn \/ CtlNoConn
  BY <1>11, Zenon DEF TableTypes, AddConn, FindConn, CtlNoConn, Conns, Answer
<1>12. CASE SetMask
  <2>1. ntp_epoll' \in [Conns -> Masks]
    BY <1>12, HandlerFacts, RequestTypes, Zenon DEF MessageTypes, TableTypes, SetMask
  <2>2. QED
    BY <1>12, <2>1, Zenon DEF TableTypes, SetMask
<1>13. CASE handle_epoll_close_msg
  <2>1. /\ ntp_epoll' \in [Conns -> Masks] /\ ep_ctx' \subseteq Sockets /\ ep_conn_map' \subseteq Conns
        /\ UNCHANGED <<libVars, ntmVars, port2conn>>
    BY <1>13, Zenon DEF TableTypes, handle_epoll_close_msg, Masks
  <2>2. ntp_ctx' \in BOOLEAN
    BY <1>13, Zenon DEF handle_epoll_close_msg
  <2>3. QED
    BY <2>1, <2>2, Zenon DEF TableTypes
<1>14. CASE \/ Wait \/ (\E t \in Timeouts : nts_epoll_wait(t))
            \/ \E p \in Producers : PushStep(p) \/ \E s \in Sockets : Ready(p, s)
  BY <1>1, <1>14, WaitFrame, PushFrame DEF Ready
<1>15. QED
  BY <1>1, <1>2, <1>3, <1>4, <1>5, <1>6, <1>7, <1>8, <1>9, <1>10, <1>11, <1>12, <1>13, <1>14, Zenon
     DEF Next, Monitor, Proxy, vars

-----------------------------------------------------------------------------
(* The call of the application, and the masks and contexts of the sockets. *)

\* The application's call is in one place.
LEMMA StepCallInv ==
    ASSUME IndInv, [Next]_vars
    PROVE  CallInv'
<1> SUFFICES ASSUME MessageTypes, TableTypes, CallInv
             PROVE  CallInv'
  BY Zenon DEF IndInv, TypeOK
<1> USE NoneApart DEF libVars, ntmVars, ntpVars, rings, counts
<1>1. ASSUME ~CallStep
      PROVE  CallInv'
  <2>1. /\ UNCHANGED callVars /\ (app = "asked" <=> app' = "asked") /\ nt_sock_map' \subseteq nt_sock_map
        /\ app # "idle" => UNCHANGED nt_sock_map
    BY <1>1, QuietSteps, Zenon
  <2>2. /\ call = None <=> app' # "asked"
        /\ call # None => UNCHANGED nt_sock_map
    BY <2>1, Zenon DEF CallInv
  <2>3. QED
    BY <2>1, <2>2, Zenon DEF CallInv, callVars
<1>2. CASE nts_epoll_create \/ nts_close_epoll_socket
  <2>1. /\ call = None /\ ~nt_epoll_map' => call'.op = "CREATE"
        /\ UNCHANGED <<nts_resp, ep_msg, ep_resp, ntm_pc, ntm_req, ntp_pc>>
    BY <1>2, SocketRequest, Zenon DEF CallInv, nts_epoll_create, nts_close_epoll_socket
  <2>2. /\ nts_epoll_create => ~nt_epoll_map'
        /\ nts_close_epoll_socket => nt_epoll_map' /\ closed'
    BY DEF nts_epoll_create, nts_close_epoll_socket
  <2>3. "CREATE" \notin CtlOps /\ "CLOSE" \notin CtlOps
    BY Zenon DEF CtlOps
  <2>4. QED
    BY <1>2, <2>1, <2>2, <2>3, SocketRequest, Zenon DEF CallInv
<1>3. CASE Response
  BY <1>3, Zenon DEF CallInv, Response
<1>4. ASSUME NEW op \in CtlOps, NEW s \in Sockets, NEW m \in Masks, nts_epoll_ctl(op, s, m)
      PROVE  CallInv'
  <2>1. lib_epoll'[s] = m /\ nt_epoll_map' /\ s \in nt_sock_map'
    BY <1>4, Zenon DEF TableTypes, nts_epoll_ctl
  <2>2. call = None /\ UNCHANGED <<nts_resp, ep_msg, ep_resp, ntm_pc, ntm_req, ntp_pc>>
    BY <1>4, CtlRequest, Zenon DEF CallInv, nts_epoll_ctl
  <2>3. QED
    BY <1>4, <2>1, <2>2, CtlRequest, Zenon DEF CallInv
<1>5. CASE handle_msg_nts_epoll_create \/ CtlUnknown \/ handle_msg_nts_epoll_close
  BY <1>5 DEF CallInv, handle_msg_nts_epoll_create, CtlUnknown, handle_msg_nts_epoll_close, Recv,
              AskProxy, CtlOps
<1>6. CASE handle_msg_nts_epoll_ctl
  BY <1>6, Zenon DEF MessageTypes, TableTypes, CallInv, handle_msg_nts_epoll_ctl, Recv, AskProxy, Reply, Conns
<1>7. CASE ListenerCtl \/ ProxyAnswered
  BY <1>7 DEF MessageTypes, CallInv, ListenerCtl, ProxyAnswered, Reply
<1>8. CASE AddConn \/ FindConn
  BY <1>8, Zenon DEF CallInv, AddConn, FindConn, NtpRecv, CtlOps
<1>9. CASE SetMask \/ CtlNoConn \/ handle_epoll_close_msg \/ \E ok \in BOOLEAN : handle_epoll_create_msg(ok)
  <2>1. /\ UNCHANGED <<app, call, nts_msg, nts_resp, ntm_pc, ntm_req, lib_epoll, nt_sock_map,
                       nt_epoll_map, closed>>
        /\ ep_msg' = None /\ ep_resp' # None /\ ntp_pc' # "mask" /\ ep_msg # None
    BY <1>9, HandlerFacts, Zenon DEF SetMask, CtlNoConn, handle_epoll_close_msg, handle_epoll_create_msg,
                                     NtpRecv, Answer
  <2>2. QED
    BY <2>1, HandlerFacts, Zenon DEF CallInv
<1>10. QED
  BY <1>1, <1>2, <1>3, <1>4, <1>5, <1>6, <1>7, <1>8, <1>9, Zenon DEF CallStep, Monitor, Proxy

\* Until the epoll socket is closed, the masks of a socket agree, except while its
\* own call is under way.
LEMMA StepMaskInv ==
    ASSUME IndInv, [Next]_vars
    PROVE  MaskInv'
<1> SUFFICES ASSUME MessageTypes, TableTypes, CallInv, MaskInv
             PROVE  MaskInv'
  BY Zenon DEF IndInv, TypeOK
<1> USE NoneApart DEF libVars, ntmVars, ntpVars, rings, counts
<1>1. CASE ~CallStep
  BY <1>1, QuietSteps, Zenon DEF MaskInv, callVars
<1>2. CASE nts_epoll_create
  <2>1. /\ call = None /\ call'.sock \notin nt_sock_map
        /\ UNCHANGED <<nt_sock_map, lib_epoll, ntm_epoll, ntp_epoll, closed>>
    BY <1>2, SocketRequest, Zenon DEF TableTypes, CallInv, nts_epoll_create
  <2>2. QED
    BY <2>1, Zenon DEF MaskInv
<1>3. CASE nts_close_epoll_socket \/ Response
  BY <1>3, Zenon DEF CallInv, MaskInv, Response, nts_close_epoll_socket
<1>4. ASSUME NEW op \in CtlOps, NEW s \in Sockets, NEW m \in Masks, nts_epoll_ctl(op, s, m)
      PROVE  MaskInv'
  <2>1. /\ call = None /\ ntm_pc = "idle" /\ nts_resp = None /\ ep_resp = None
        /\ call'.op = op /\ call'.sock = s /\ call' # None
    BY <1>4, CtlRequest, Zenon DEF CallInv
  <2>2. /\ \A r \in Sockets : r # s => lib_epoll'[r] = lib_epoll[r]
        /\ lib_epoll[s] = "none" <=> op = "ADD"
        /\ UNCHANGED <<nt_sock_map, ntm_epoll, ntp_epoll, ntm_pc, nts_resp, ep_resp, closed>>
        /\ nt_sock_map \subseteq Sockets
    BY <1>4, Zenon DEF TableTypes, nts_epoll_ctl
  <2>3. ~closed => \A r \in nt_sock_map : /\ ntm_epoll[r] = lib_epoll[r]
                                          /\ r \in Conns => ntp_epoll[r] = lib_epoll[r]
    BY <2>1, Zenon DEF MaskInv
  <2>4. QED
    BY <2>1, <2>2, <2>3, Zenon DEF MaskInv
<1>5. CASE handle_msg_nts_epoll_create
  <2>1. call.sock \notin nt_sock_map
    BY <1>5, HandlerFacts, Zenon DEF handle_msg_nts_epoll_create, Recv, CallInv, TableTypes
  <2>2. UNCHANGED <<call, nt_sock_map, lib_epoll, ntm_epoll, ntp_epoll, closed>>
    BY <1>5, Zenon DEF handle_msg_nts_epoll_create
  <2>3. QED
    BY <2>1, <2>2, Zenon DEF MaskInv
<1>6. CASE CtlUnknown \/ AddConn \/ FindConn
  BY <1>6, Zenon DEF MaskInv, CtlUnknown, Recv, AddConn, FindConn
<1>7. CASE handle_msg_nts_epoll_ctl
  <2>1. /\ nts_msg = call /\ call # None /\ nts_resp = None /\ ep_resp = None /\ ntm_pc = "idle"
        /\ call.sock \in nt_sock_map /\ call.sock \in Sockets /\ lib_epoll[call.sock] = call.events
    BY <1>7, HandlerFacts, Zenon DEF handle_msg_nts_epoll_ctl, Recv
  <2>2. UNCHANGED <<call, nt_sock_map, lib_epoll, ntp_epoll, closed, ep_resp>> /\ nts_msg' = None
    BY <1>7, Zenon DEF handle_msg_nts_epoll_ctl, Recv, AskProxy, Reply
  <2>3. ~closed => ntm_epoll' = [ntm_epoll EXCEPT ![call.sock] = call.events] /\ nts_resp' = nts_resp
    BY <1>7, <2>1, Zenon DEF MaskInv, handle_msg_nts_epoll_ctl, AskProxy, Recv
  <2>4. QED
    BY <2>1, <2>2, <2>3, Zenon DEF TableTypes, MaskInv
<1>8. CASE ListenerCtl
  BY <1>8, HandlerFacts, Zenon DEF CallInv, MaskInv, ListenerCtl, Reply, Conns
<1>9. CASE handle_msg_nts_epoll_close \/ handle_epoll_close_msg
  BY <1>9, ClosingSteps, Zenon DEF MaskInv
<1>10. CASE ProxyAnswered
  BY <1>10, HandlerFacts, Zenon DEF MaskInv, ProxyAnswered
<1>11. ASSUME NEW ok \in BOOLEAN, handle_epoll_create_msg(ok)
       PROVE  MaskInv'
  <2>1. call.sock \notin nt_sock_map
    BY <1>11, HandlerFacts, Zenon DEF handle_epoll_create_msg, NtpRecv, CallInv, TableTypes
  <2>2. UNCHANGED <<call, nt_sock_map, lib_epoll, ntm_epoll, ntp_epoll, closed>>
    BY <1>11, Zenon DEF handle_epoll_create_msg
  <2>3. QED
    BY <2>1, <2>2, Zenon DEF MaskInv
<1>12. CASE CtlNoConn
  <2>1. /\ UNCHANGED <<call, nt_sock_map, lib_epoll, ntm_epoll, ntp_epoll, closed, nts_msg, nts_resp, ntm_pc>>
        /\ ep_resp' # 0
    BY <1>12 DEF CtlNoConn, Answer
  <2>2. QED
    BY <2>1, Zenon DEF MaskInv
<1>13. CASE SetMask
  <2>1. /\ UNCHANGED <<call, nt_sock_map, lib_epoll, ntm_epoll, closed, nts_msg, nts_resp, ntm_pc>>
        /\ ntp_epoll' = [ntp_epoll EXCEPT ![call.sock] = call.events]
        /\ call # None /\ nts_resp = None /\ nts_msg = None
        /\ call.sock \in Conns /\ lib_epoll[call.sock] = call.events
    BY <1>13, HandlerFacts, Zenon DEF SetMask, Answer
  <2>2. QED
    BY <2>1, Zenon DEF TableTypes, MaskInv
<1>14. QED
  BY <1>1, <1>2, <1>3, <1>4, <1>5, <1>6, <1>7, <1>8, <1>9, <1>10, <1>11, <1>12, <1>13, Zenon
     DEF CallStep, Monitor, Proxy

\* Until the epoll socket is closed, a connection with a mask has the context.
LEMMA StepContextInv ==
    ASSUME IndInv, [Next]_vars
    PROVE  ContextInv'
<1> SUFFICES ASSUME PushTypeOK, QueueTypeOK, TableTypes, CallInv, ContextInv, CloseInv
             PROVE  ContextInv'
  BY Zenon DEF IndInv, TypeOK
<1> USE NoneApart DEF libVars, ntmVars, ntpVars, rings, counts, queueVars
<1>1. ASSUME UNCHANGED callVars, UNCHANGED push
      PROVE  ContextInv'
  BY <1>1, Zenon DEF ContextInv, callVars
<1>2. ASSUME NEW p \in Producers, NEW s \in Sockets, Ready(p, s)
      PROVE  ContextInv'
  <2>1. /\ push'[p].sock = s /\ \A q \in Producers : q # p => push'[q] = push[q]
    BY <1>2, PushStarts, Zenon DEF Ready, PushPlaces
  <2>2. p = "ntp" => s \in Conns /\ ntp_epoll[s] # "none"
    BY <1>2, Zenon DEF TableTypes, Ready
  <2>3. UNCHANGED <<ntp_epoll, ep_ctx, ep_conn_map, ntp_pc, ep_msg, closed>>
    BY <1>2, Zenon DEF Ready
  <2>4. QED
    BY <2>1, <2>2, <2>3, TwoProducers, Zenon DEF ContextInv
<1>3. ASSUME NEW p \in Producers, PushStep(p)
      PROVE  ContextInv'
  <2>1. push'["ntp"].pc = "checked" => push'["ntp"] = push["ntp"]
    BY <1>3, TwoProducers, PushStepMoves, Zenon DEF PushStep, PushFault, Push, Moved
  <2>2. UNCHANGED <<ntp_epoll, ep_ctx, ep_conn_map, ntp_pc, ep_msg, closed>>
    BY <1>3, PushFrame, Zenon
  <2>3. QED
    BY <2>1, <2>2, Zenon DEF ContextInv
<1>4. CASE nts_epoll_create \/ Response \/ nts_close_epoll_socket
  BY <1>4 DEF ContextInv, nts_epoll_create, Response, nts_close_epoll_socket
<1>5. ASSUME NEW op \in CtlOps, NEW s \in Sockets, NEW m \in Masks, nts_epoll_ctl(op, s, m)
      PROVE  ContextInv'
  BY <1>5, Zenon DEF ContextInv, nts_epoll_ctl
<1>6. CASE handle_msg_nts_epoll_create \/ CtlUnknown \/ handle_msg_nts_epoll_ctl
  <2>1. ntp_pc' # "mask" /\ UNCHANGED <<ntp_epoll, ep_ctx, ep_conn_map, push, closed>>
    BY <1>6, HandlerFacts, Zenon DEF handle_msg_nts_epoll_create, CtlUnknown, handle_msg_nts_epoll_ctl, Recv
  <2>2. QED
    BY <2>1, Zenon DEF ContextInv
<1>7. CASE ListenerCtl
  <2>1. ntm_req.sock \in Listeners /\ ntp_pc' # "mask" /\ UNCHANGED <<ntp_epoll, ep_conn_map, push, closed>>
    BY <1>7, Zenon DEF CallInv, ListenerCtl
  <2>2. \A s \in Conns : s \in ep_ctx => s \in ep_ctx'
    BY <1>7, <2>1, Zenon DEF ListenerCtl, Conns
  <2>3. ep_conn_map \subseteq Conns /\ (push["ntp"].pc = "checked" => push["ntp"].sock \in Conns)
    BY Zenon DEF TableTypes, CloseInv
  <2>4. QED
    BY <2>1, <2>2, <2>3, Zenon DEF ContextInv
<1>8. CASE handle_msg_nts_epoll_close \/ handle_epoll_close_msg
  BY <1>8, ClosingSteps, Zenon DEF ContextInv
<1>9. CASE ProxyAnswered
  <2>1. closed' \/ UNCHANGED <<ntp_epoll, ep_ctx, ep_conn_map, push, closed, ntp_pc, ep_msg>>
    BY <1>9, HandlerFacts, Zenon DEF ProxyAnswered
  <2>2. QED
    BY <2>1 DEF ContextInv
<1>10. CASE AddConn \/ FindConn
  <2>1. UNCHANGED <<ntp_epoll, push, closed, ep_msg>>
    BY <1>10, Zenon DEF AddConn, FindConn
  <2>2. /\ ep_ctx \subseteq ep_ctx'
        /\ ~closed /\ ep_conn_map \subseteq ep_ctx => ep_conn_map' \subseteq ep_ctx' /\ ep_msg.sock \in ep_ctx'
    BY <1>10, Zenon DEF AddConn, FindConn
  <2>3. QED
    BY <2>1, <2>2, Zenon DEF ContextInv
<1>11. CASE CtlNoConn \/ \E ok \in BOOLEAN : handle_epoll_create_msg(ok)
  <2>1. /\ UNCHANGED <<ntp_epoll, ep_ctx, push, closed>> /\ ep_conn_map' \subseteq ep_conn_map
        /\ ntp_pc' # "mask"
    BY <1>11, Zenon DEF CtlNoConn, handle_epoll_create_msg, Answer
  <2>2. QED
    BY <2>1, Zenon DEF ContextInv
<1>12. CASE SetMask
  BY <1>12, Zenon DEF TableTypes, ContextInv, SetMask, Answer
<1>13. QED
  BY <1>1, <1>2, <1>3, <1>4, <1>5, <1>6, <1>7, <1>8, <1>9, <1>10, <1>11, <1>12, QuietSteps, Zenon
     DEF CallStep, Monitor, Proxy

\* Without an epoll socket there is no context and nobody is at the queue.
LEMMA StepCloseInv ==
    ASSUME IndInv, [Next]_vars
    PROVE  CloseInv'
<1> SUFFICES ASSUME PushTypeOK, QueueTypeOK, TableTypes, CallInv, CloseInv
             PROVE  CloseInv'
  BY Zenon DEF IndInv, TypeOK
<1> USE NoneApart DEF libVars, ntmVars, ntpVars, rings, counts, queueVars
<1>1. ASSUME UNCHANGED callVars, UNCHANGED push
      PROVE  CloseInv'
  BY <1>1, Zenon DEF CloseInv, Away, callVars
<1>2. ASSUME nt_epoll_map', call'.op # "CLOSE", UNCHANGED push
      PROVE  CloseInv'
  BY <1>2, Zenon DEF CloseInv
<1>3. ASSUME NEW p \in Producers, NEW s \in Sockets, Ready(p, s)
      PROVE  CloseInv'
  <2>1. /\ push'[p].sock = s /\ push'[p].pc = "checked"
        /\ \A q \in Producers : q # p => push'[q] = push[q]
    BY <1>3, PushStarts, Zenon DEF Ready, PushPlaces
  <2>2. /\ s \in IF p = "ntm" THEN Listeners ELSE Conns
        /\ UNCHANGED <<ep_ctx, call, nt_epoll_map, nts_resp, ep_resp>>
    BY <1>3, Zenon DEF TableTypes, Ready
  <2>3. QED
    BY <2>1, <2>2, TwoProducers, Zenon DEF CloseInv, Away
<1>4. ASSUME NEW p \in Producers, PushStep(p)
      PROVE  CloseInv'
  <2>1. UNCHANGED <<ep_ctx, call, nt_epoll_map, nts_resp, ep_resp>>
    BY <1>4, PushFrame, Zenon
  <2>2. CASE PushFault(p)
    BY <2>1, <2>2 DEF PushFault, CloseInv, Away
  <2>3. CASE CallPush(p) \/ Push(p)
    <3>1. /\ push[p].sock \in ep_ctx \/ ~Away(p)
          /\ push[p].pc # "idle"
          /\ \A q \in Producers : q # p => push'[q] = push[q] /\ (Away(q) => Away(q)')
          /\ push'[p].pc # "idle" => push'[p].sock = push[p].sock
      BY <2>3, PushStepMoves, Zenon DEF CallPush, Push, Moved, Away
    <3>2. nt_epoll_map /\ ~(call # None /\ call.op = "CLOSE" /\ nts_resp # None)
      BY <3>1, Zenon DEF CloseInv
    <3>3. p = "ntp" => ~(call # None /\ call.op = "CLOSE" /\ ep_resp # None)
      BY <3>1 DEF CloseInv
    <3>4. QED
      BY <2>1, <3>1, <3>2, <3>3, TwoProducers, Zenon DEF CloseInv
  <2>4. QED
    BY <1>4, <2>2, <2>3, Zenon DEF PushStep
<1>5. CASE nts_epoll_create \/ nts_close_epoll_socket
  BY <1>5, SocketRequest, Zenon DEF CallInv, CloseInv, Away, nts_epoll_create, nts_close_epoll_socket
<1>6. CASE Response
  <2>1. /\ ~nt_epoll_map' => ~nt_epoll_map \/ (call # None /\ call.op = "CLOSE" /\ nts_resp # None)
        /\ UNCHANGED <<push, ep_ctx>> /\ call' = None
    BY <1>6, Zenon DEF CallInv, Response
  <2>2. QED
    BY <2>1, Zenon DEF CloseInv, Away
<1>7. CASE \/ handle_msg_nts_epoll_ctl \/ ListenerCtl \/ AddConn \/ FindConn \/ CtlNoConn \/ SetMask
           \/ \E op \in CtlOps, s \in Sockets, m \in Masks : nts_epoll_ctl(op, s, m)
  <2>1. ASSUME NEW op \in CtlOps, NEW s \in Sockets, NEW m \in Masks, nts_epoll_ctl(op, s, m)
        PROVE  CloseInv'
    <3>1. nt_epoll_map' /\ UNCHANGED push
      BY <2>1, Zenon DEF nts_epoll_ctl
    <3>2. call'.op # "CLOSE"
      BY <2>1, CtlRequest, Zenon
    <3>3. QED
      BY <1>2, <3>1, <3>2, Zenon
  <2>2. CASE handle_msg_nts_epoll_ctl \/ ListenerCtl \/ AddConn \/ FindConn \/ CtlNoConn \/ SetMask
    <3>1. call # None /\ call.op \in CtlOps
      BY <2>2, HandlerFacts, Zenon DEF CallInv, handle_msg_nts_epoll_ctl, ListenerCtl, AddConn, FindConn,
                                       CtlNoConn,
                                SetMask, Recv, NtpRecv, CtlOps
    <3>2. UNCHANGED <<call, nt_epoll_map, push>>
      BY <2>2, Zenon DEF handle_msg_nts_epoll_ctl, ListenerCtl, AddConn, FindConn, CtlNoConn, SetMask
    <3>3. QED
      BY <1>2, <3>1, <3>2, HandlerFacts, Zenon
  <2>3. QED
    BY <1>7, <2>1, <2>2, Zenon
<1>8. CASE handle_msg_nts_epoll_create \/ CtlUnknown \/ handle_msg_nts_epoll_close
  BY <1>8, Zenon DEF CallInv, CloseInv, Away, handle_msg_nts_epoll_create, CtlUnknown,
              handle_msg_nts_epoll_close, Recv, AskProxy
<1>9. CASE ProxyAnswered
  <2>1. ntm_req = call /\ call # None /\ nts_resp = None /\ ep_resp' = None
        /\ UNCHANGED <<call, nt_epoll_map>>
    BY <1>9, HandlerFacts, Zenon DEF ProxyAnswered
  <2>2. CASE call.op = "CLOSE" /\ ep_resp = 0
    <3>1. Freed("ntm") /\ ep_ctx' = {} /\ ep_resp # None
      BY <1>9, <2>1, <2>2, Zenon DEF ProxyAnswered
    <3>2. /\ push'["ntm"].pc = IF push["ntm"].pc \in {"idle", "checked"} THEN push["ntm"].pc ELSE "freed"
          /\ push'["ntm"].sock = push["ntm"].sock /\ push'["ntp"] = push["ntp"]
      BY <3>1, TwoProducers, PushFreed
    <3>3. \A p \in Producers : Away(p)'
      BY <2>1, <2>2, <3>1, <3>2, TwoProducers, Zenon DEF CloseInv, Away
    <3>4. QED
      BY <2>1, <3>1, <3>2, <3>3, Zenon DEF CloseInv
  <2>3. CASE ~(call.op = "CLOSE" /\ ep_resp = 0)
    BY <1>9, <2>1, <2>3 DEF ProxyAnswered, CloseInv, Away
  <2>4. QED
    BY <2>2, <2>3, Zenon
<1>10. CASE \E ok \in BOOLEAN : handle_epoll_create_msg(ok)
  <2>1. call.op # "CLOSE" /\ UNCHANGED <<call, nt_epoll_map, push, ep_ctx, nts_resp>>
    BY <1>10, HandlerFacts, Zenon DEF handle_epoll_create_msg, NtpRecv, Answer
  <2>2. QED
    BY <2>1, Zenon DEF CloseInv, Away
<1>11. CASE handle_epoll_close_msg
  <2>1. /\ nt_epoll_map /\ nts_resp = None
        /\ Freed("ntp") /\ ep_ctx' = ep_ctx \ Conns /\ UNCHANGED <<call, nt_epoll_map, nts_resp>>
    BY <1>11, HandlerFacts, Zenon DEF handle_epoll_close_msg, NtpRecv, Answer
  <2>2. /\ push'["ntp"].pc = IF push["ntp"].pc \in {"idle", "checked"} THEN push["ntp"].pc ELSE "freed"
        /\ push'["ntp"].sock = push["ntp"].sock /\ push'["ntm"] = push["ntm"]
    BY <2>1, TwoProducers, PushFreed
  <2>3. QED
    BY <2>1, <2>2, Zenon DEF CloseInv, Away
<1>12. QED
  BY <1>1, <1>3, <1>4, <1>5, <1>6, <1>7, <1>8, <1>9, <1>10, <1>11, QuietSteps, Zenon
     DEF CallStep, Monitor, Proxy

-----------------------------------------------------------------------------
(* The theorems.                                                           *)

\* Init satisfies the invariant: no epoll socket, no mask and nobody at the queue.
LEMMA InitIndInv ==
    ASSUME Init
    PROVE  IndInv
<1> USE NoneApart DEF Init, QueueInit
<1>1. /\ Capacity \in Nat /\ 0 \in Slots /\ SlotAfter(0, 0) = 0 /\ Len(pending) = 0
      /\ \A p \in Producers : push[p] = NotPushing /\ push[p].pc = "idle"
  BY CapacityAssumption DEF Slots, SlotAfter, NotPushing
<1>2. Claimed = 0 /\ Counting = 0
  BY <1>1, NoneCounted, Zenon
<1>3. lost \in BOOLEAN /\ closed \in BOOLEAN /\ nt_epoll_map \in BOOLEAN /\ ntp_ctx \in BOOLEAN
  BY Zenon
<1>4. PushTypeOK
  <2>1. 0 \in Nat
    BY Zenon
  <2>2. NotPushing \in [pc : PushPlaces, sock : Sockets \cup {None}, num : Nat]
    BY <2>1, Zenon DEF NotPushing, PushPlaces
  <2>3. QED
    BY <2>2, Zenon DEF PushTypeOK
<1>5. QueueTypeOK
  <2>1. 0 \in Nat /\ 1 \in 0 .. 1 /\ pending \in Seq(Sockets)
    OBVIOUS
  <2>2. QED
    BY <1>1, <1>3, <2>1, Zenon DEF QueueTypeOK
<1>6. WaitTypes /\ MessageTypes /\ BoundTypes
  BY <1>3, EpollAssumption DEF WaitTypes, MessageTypes, BoundTypes, Answers, Timeouts
<1>7. TableTypes
  BY <1>3, EpollAssumption, Zenon DEF TableTypes, Masks
<1>8. CallInv /\ MaskInv /\ ContextInv
  BY <1>1, TwoProducers, Zenon DEF CallInv, MaskInv, ContextInv, Conns
<1>9. CloseInv
  BY <1>1, TwoProducers, Zenon DEF CloseInv, Away
<1>10. CountInv /\ SlotInv
  BY <1>1, <1>2 DEF CountInv, SlotInv
<1>11. EventsInOrder
  BY <1>1 DEF EventsInOrder, Window
<1>12. QED
  BY <1>4, <1>5, <1>6, <1>7, <1>8, <1>9, <1>10, <1>11, Zenon DEF IndInv, TypeOK

\* The inductive invariant holds for any set of sockets, any capacity of the queue
\* and any number of calls, pushes and creations.
THEOREM EpollInvariant == Spec => []IndInv
<1>1. Init => IndInv
  BY InitIndInv, Zenon
<1>2. IndInv /\ [Next]_vars => IndInv'
  <2> SUFFICES ASSUME IndInv, [Next]_vars
               PROVE  IndInv'
    BY Zenon
  <2>1. TypeOK'
    BY StepPushTypes, StepQueueTypes, StepWaitTypes, StepMessageTypes, StepTableTypes, StepBoundTypes, Zenon
       DEF TypeOK
  <2>2. QueueTypeOK' /\ CallInv' /\ MaskInv' /\ ContextInv' /\ CloseInv' /\ CountInv' /\ SlotInv'
    BY StepQueueTypes, StepCallInv, StepMaskInv, StepContextInv, StepCloseInv, StepCountInv, StepSlotInv, Zenon
  <2>3. EventsInOrder'
    BY <2>2, StepEventsInOrder, Zenon
  <2>4. QED
    BY <2>1, <2>2, <2>3, Zenon DEF IndInv
<1>3. QED
  BY <1>1, <1>2, PTL DEF Spec

\* The indices of the ready queue stay in its slots, and nts_epoll_wait takes an
\* event only when one is counted.
THEOREM EpollTypes == Spec => []TypeOK
<1>1. IndInv => TypeOK
  BY Zenon DEF IndInv
<1>2. QED
  BY <1>1, EpollInvariant, PTL

\* What ep_event_queue_push put in and nts_epoll_wait has not taken out is in the
\* queue, in order, until an update of num_events is lost.
THEOREM EventsKeepOrder == Spec => []EventsInOrder
<1>1. IndInv => EventsInOrder
  BY Zenon DEF IndInv
<1>2. QED
  BY <1>1, EpollInvariant, PTL

\* While the epoll socket is open, empty_sem, the claimed slots and the events make
\* up the capacity: no slot leaks.
THEOREM EpollSlotsConserved == Spec => []SlotsConserved
<1>1. IndInv => SlotsConserved
  BY Zenon DEF IndInv, SlotInv, Mapped, SlotsConserved
<1>2. QED
  BY <1>1, EpollInvariant, PTL

\* num_events is the number of events, whenever nobody is updating it and until an
\* update is lost.
THEOREM EpollNumEvents == Spec => []NumEventsExact
<1>1. IndInv => NumEventsExact
  <2> SUFFICES ASSUME IndInv, Open, ~lost, \A p \in Producers : push[p].pc # "copied"
               PROVE  num_events = Capacity - empty_sem - Claimed
    BY Zenon DEF NumEventsExact
  <2>1. Counting = 0 /\ Claimed \in Nat
    BY NoneCounted, Zenon
  <2>2. num_events \in Nat /\ empty_sem \in Nat /\ Len(pending) \in Nat /\ Capacity \in Nat
    BY CapacityAssumption DEF IndInv, TypeOK, QueueTypeOK
  <2>3. /\ empty_sem + Claimed + Len(pending) = Capacity
        /\ num_events + Counting = Len(pending)
    BY Zenon DEF IndInv, SlotInv, Mapped
  <2>4. QED
    BY <2>1, <2>2, <2>3
<1>2. QED
  BY <1>1, EpollInvariant, PTL

\* nts_epoll_wait finds an event in every slot it has still to look at, until an
\* update of num_events is lost.
THEOREM EpollScanFinds == Spec => []ScanFindsEvents
<1>1. IndInv => ScanFindsEvents
  <2> SUFFICES ASSUME IndInv, ~lost, app \in {"scan", "take", "skip"}
               PROVE  left <= Len(pending)
    BY Zenon DEF ScanFindsEvents
  <2>1. /\ num_events \in Nat /\ left \in Nat /\ Len(pending) \in Nat
        /\ take = None \/ take \in Nat \ {0}
    BY DEF IndInv, TypeOK, QueueTypeOK, WaitTypes
  <2>2. Counting \in Nat /\ num_events + Counting <= Len(pending)
    BY NoneCounted, Zenon DEF IndInv, SlotInv
  <2>3. num_events >= left
    BY <2>1 DEF IndInv, CountInv
  <2>4. QED
    BY <2>1, <2>2, <2>3
<1>2. QED
  BY <1>1, EpollInvariant, PTL

\* Between calls, libnts, the monitor and the proxy hold the same mask for every
\* open socket.
THEOREM EpollMasksAgree == Spec => []MasksAgree
<1>1. IndInv => MasksAgree
  BY Zenon DEF IndInv, CallInv, MaskInv, MasksAgree
<1>2. QED
  BY <1>1, EpollInvariant, PTL

\* The proxy's receive thread finds the context of a connection whose mask it has
\* tested, unless the epoll socket was closed.
THEOREM EpollPushFindsContext == Spec => []PushFindsContext
<1>1. IndInv => PushFindsContext
  BY Zenon DEF IndInv, ContextInv, PushFindsContext
<1>2. QED
  BY <1>1, EpollInvariant, PTL
=============================================================================
