-------------------------------- MODULE Epoll --------------------------------
(***************************************************************************)
(* One epoll socket across the three processes:                            *)
(*   - the application (libnts/src/nts_epoll.c) creates it, registers      *)
(*     sockets with nts_epoll_ctl, waits, and closes it;                   *)
(*   - the monitor's thread for libnts answers each request, after asking  *)
(*     the proxy's epoll thread where a connection is concerned, and its   *)
(*     TCP thread pushes an event when a listener has a new connection;    *)
(*   - the proxy's receive thread pushes an event when data has arrived.   *)
(* The application has one call at a time, so each of the four message     *)
(* rings between the processes holds at most one message.                  *)
(*                                                                         *)
(* A mask is what socket->epoll tells apart: nothing, a mask with          *)
(* NTS_EPOLLIN, a mask without.  Using a context that was freed, or was    *)
(* not set yet, is a fault of the process that does it (down).             *)
(***************************************************************************)
EXTENDS EpollQueue

CONSTANTS Listeners, \* the listening sockets; the others are connections
          MaxEvents, \* maxevents of nts_epoll_wait
          MaxCalls, MaxPushes, MaxCreates \* bounds

\* The monitor's TCP thread and the proxy's receive thread are the producers; None
\* is no socket, no number and no message.
ASSUME EpollAssumption ==
    /\ Producers = {"ntm", "ntp"} /\ Listeners \subseteq Sockets
    /\ MaxEvents \in Nat /\ MaxCalls \in Nat /\ MaxPushes \in Nat /\ MaxCreates \in Nat
    /\ None \notin Sockets /\ None \notin Int
    /\ None \notin [op : {"CREATE", "CLOSE", "ADD", "MOD", "DEL"}, sock : Sockets \cup {None},
                     events : {"none", "in", "out"}]

Masks == {"none", "in", "out"}
CtlOps == {"ADD", "MOD", "DEL"}
Timeouts == {"zero", "finite", "forever"}
Conns == Sockets \ Listeners
Request(op, s, m) == [op |-> op, sock |-> s, events |-> m]

VARIABLES
    app,              \* the application's step
    call,             \* the request it has made
    timeout, left, cnt, \* nts_epoll_wait: its timeout, events to look at, reported
    nt_epoll_map,     \* whether the application has the epoll socket
    nt_sock_map,      \* its open sockets
    lib_epoll,        \* its socket->epoll
    epoll_sockets,    \* the sockets it has registered
    nts_msg, nts_resp,\* the rings application -> monitor and back
    ntm_pc, ntm_req,  \* the monitor's step, and the request it works on
    nts_shm_conn_map, \* the sockets the monitor knows
    ntm_epoll,        \* its socket->epoll
    ep_socket_map,    \* the listeners of its epoll context
    ep_msg, ep_resp,  \* the rings monitor -> proxy and back
    ntp_pc,           \* the step of the proxy's epoll thread
    ntp_ctx,          \* whether the proxy has the epoll context
    port2conn,        \* the proxy's connections
    ntp_epoll,        \* its conn->epoll
    ep_conn_map,      \* the connections of its epoll context
    ep_ctx,           \* the sockets whose epoll_ctx points to a live context
    down,             \* the processes that faulted
    calls, pushes, creates, \* how often: bounds
    closed            \* history: the epoll socket was closed once

waitVars == <<timeout, left, cnt>>
libVars == <<nt_epoll_map, nt_sock_map, lib_epoll, epoll_sockets>>
ntmVars == <<ntm_pc, ntm_req, nts_shm_conn_map, ntm_epoll, ep_socket_map>>
ntpVars == <<ntp_pc, ntp_ctx, port2conn, ntp_epoll, ep_conn_map>>
rings == <<nts_msg, nts_resp, ep_msg, ep_resp>>
counts == <<calls, pushes, creates, closed>>
vars == <<queueVars, app, call, waitVars, libVars, rings, ntmVars, ntpVars, ep_ctx, down, counts>>

Init ==
    /\ QueueInit
    /\ app = "idle"
    /\ call = None
    /\ timeout = "zero"
    /\ left = 0
    /\ cnt = 0
    /\ nt_epoll_map = FALSE
    /\ nt_sock_map = Sockets
    /\ lib_epoll = [s \in Sockets |-> "none"]
    /\ epoll_sockets = {}
    /\ nts_msg = None
    /\ nts_resp = None
    /\ ep_msg = None
    /\ ep_resp = None
    /\ ntm_pc = "idle"
    /\ ntm_req = None
    /\ nts_shm_conn_map = Sockets
    /\ ntm_epoll = [s \in Sockets |-> "none"]
    /\ ep_socket_map = {}
    /\ ntp_pc = "recv"
    /\ ntp_ctx = FALSE
    /\ port2conn = Conns
    /\ ntp_epoll = [s \in Conns |-> "none"]
    /\ ep_conn_map = {}
    /\ ep_ctx = {}
    /\ down = {}
    /\ calls = 0
    /\ pushes = 0
    /\ creates = 0
    /\ closed = FALSE

-----------------------------------------------------------------------------
(* The application.                                                        *)

Ask(req) ==
    /\ app = "idle"
    /\ app' = "asked"
    /\ call' = req
    /\ nts_msg' = req

nts_epoll_create ==
    /\ ~nt_epoll_map
    /\ creates < MaxCreates
    /\ creates' = creates + 1
    /\ Ask(Request("CREATE", None, "none"))
    /\ UNCHANGED <<queueVars, waitVars, libVars, nts_resp, ep_msg, ep_resp, ntmVars, ntpVars,
                   ep_ctx, down, calls, pushes, closed>>

\* The local mask is set first; the reply decides about epoll_sockets.
nts_epoll_ctl(op, s, m) ==
    /\ nt_epoll_map
    /\ s \in nt_sock_map
    /\ calls < MaxCalls
    /\ (lib_epoll[s] = "none") <=> (op = "ADD")
    /\ (m = "none") <=> (op = "DEL")
    /\ calls' = calls + 1
    /\ lib_epoll' = [lib_epoll EXCEPT ![s] = m]
    /\ Ask(Request(op, s, m))
    /\ UNCHANGED <<queueVars, waitVars, nt_epoll_map, nt_sock_map, epoll_sockets, nts_resp, ep_msg,
                   ep_resp, ntmVars, ntpVars, ep_ctx, down, pushes, creates, closed>>

\* nts_epoll_ctl of a socket that was closed.
CtlClosed(s) ==
    /\ app = "idle"
    /\ nt_epoll_map
    /\ s \in epoll_sockets \ nt_sock_map
    /\ epoll_sockets' = epoll_sockets \ {s}
    /\ UNCHANGED <<queueVars, app, call, waitVars, nt_epoll_map, nt_sock_map, lib_epoll, rings,
                   ntmVars, ntpVars, ep_ctx, down, counts>>

\* The application unmaps the queue and asks.
nts_close_epoll_socket ==
    /\ nt_epoll_map
    /\ closed' = TRUE
    /\ Ask(Request("CLOSE", None, "none"))
    /\ UNCHANGED <<queueVars, waitVars, libVars, nts_resp, ep_msg, ep_resp, ntmVars, ntpVars,
                   ep_ctx, down, calls, pushes, creates>>

\* The call returns, with an error if retval is -1.
Response ==
    /\ app = "asked"
    /\ nts_resp # None
    /\ nts_resp' = None
    /\ app' = "idle"
    /\ call' = None
    /\ nt_epoll_map' = CASE call.op = "CREATE" -> nts_resp = 0
                         [] call.op = "CLOSE" -> nts_resp # 0
                         [] OTHER -> nt_epoll_map
    /\ epoll_sockets' = CASE nts_resp # 0 -> epoll_sockets
                          [] call.op = "ADD" -> epoll_sockets \cup {call.sock}
                          [] call.op = "DEL" -> epoll_sockets \ {call.sock}
                          [] call.op = "CLOSE" -> {}
                          [] OTHER -> epoll_sockets
    /\ UNCHANGED <<queueVars, waitVars, nt_sock_map, lib_epoll, nts_msg, ep_msg, ep_resp, ntmVars,
                   ntpVars, ep_ctx, down, counts>>

\* What nts_close does to the application's own tables; NtmHandshake has the rest.
nts_close(s) ==
    /\ app = "idle"
    /\ s \in nt_sock_map
    /\ calls < MaxCalls
    /\ calls' = calls + 1
    /\ nt_sock_map' = nt_sock_map \ {s}
    /\ UNCHANGED <<queueVars, app, call, waitVars, nt_epoll_map, lib_epoll, epoll_sockets, rings,
                   ntmVars, ntpVars, ep_ctx, down, pushes, creates, closed>>

-----------------------------------------------------------------------------
(* nts_epoll_wait.                                                         *)

AppStep(pc) ==
    /\ app' = pc
    /\ UNCHANGED <<call, libVars, rings, ntmVars, ntpVars, ep_ctx, down, counts>>

nts_epoll_wait(t) ==
    /\ app = "idle"
    /\ nt_epoll_map
    /\ calls < MaxCalls
    /\ calls' = calls + 1
    /\ timeout' = t
    /\ left' = 0
    /\ cnt' = 0
    /\ app' = "check"
    /\ UNCHANGED <<queueVars, call, libVars, rings, ntmVars, ntpVars, ep_ctx, down, pushes, creates,
                   closed>>

WaitCheckSlots ==
    /\ app = "check"
    /\ IF num_events = 0 /\ timeout # "zero"
       THEN AppStep("sleep") /\ UNCHANGED left
       ELSE AppStep("scan") /\ left' = Capacity - empty_sem
    /\ UNCHANGED <<queueVars, timeout, cnt>>

\* while (eq->num_events == 0 && timeout != 0): to sleep, or on with the events
\* counted now.
WaitCheck ==
    /\ app = "check"
    /\ IF num_events = 0 /\ timeout # "zero"
       THEN AppStep("sleep") /\ UNCHANGED left
       ELSE AppStep("scan") /\ left' = num_events
    /\ UNCHANGED <<queueVars, timeout, cnt>>

\* sem_wait or sem_timedwait on full_sem; a timed wait is the last one.
WaitWoken ==
    /\ app = "sleep"
    /\ full_sem > 0
    /\ full_sem' = full_sem - 1
    /\ timeout' = IF timeout = "finite" THEN "zero" ELSE timeout
    /\ AppStep("check")
    /\ UNCHANGED <<header, mutex_sem, empty_sem, push, take, lost, pending, left, cnt>>

WaitTimedOut ==
    /\ app = "sleep"
    /\ timeout = "finite"
    /\ timeout' = "zero"
    /\ AppStep("check")
    /\ UNCHANGED <<queueVars, left, cnt>>

\* for (i = 0; i < num_events && cnt <= maxevents; i++): the event at start is
\* reported if the socket's mask asks for it.  The branch for a socket that is
\* not open ("skip") removes the event and goes on to use the socket.
WaitLook ==
    /\ app = "scan"
    /\ left > 0
    /\ cnt <= MaxEvents
    /\ TakeEvent
    /\ IF events[start] \in nt_sock_map
       THEN /\ AppStep("take")
            /\ cnt' = IF lib_epoll[events[start]] = "in" THEN cnt + 1 ELSE cnt
       ELSE /\ AppStep("skip")
            /\ UNCHANGED cnt
    /\ UNCHANGED <<timeout, left>>

WaitTake ==
    /\ app = "take"
    /\ TakeDone
    /\ left' = left - 1
    /\ AppStep("scan")
    /\ UNCHANGED <<timeout, cnt>>

WaitSkip ==
    /\ app = "skip"
    /\ TakeDone
    /\ app' = "faulted"
    /\ down' = down \cup {"app"}
    /\ UNCHANGED <<call, waitVars, libVars, rings, ntmVars, ntpVars, ep_ctx, counts>>

WaitReturn ==
    /\ app = "scan"
    /\ left = 0 \/ cnt > MaxEvents
    /\ AppStep(IF cnt = 0 /\ timeout # "zero" THEN "check" ELSE "idle")
    /\ UNCHANGED <<queueVars, waitVars>>

Wait == WaitCheck \/ WaitWoken \/ WaitTimedOut \/ WaitLook \/ WaitTake \/ WaitSkip \/ WaitReturn

-----------------------------------------------------------------------------
(* The monitor's thread for libnts.                                        *)

Reply(r) == nts_resp' = r /\ UNCHANGED <<ep_msg, ep_resp>>

\* epoll_sem_shm_send to the proxy, then epoll_sem_shm_recv.
AskProxy ==
    /\ ep_msg' = nts_msg
    /\ ntm_req' = nts_msg
    /\ ntm_pc' = "wait_ntp"
    /\ UNCHANGED <<nts_resp, ep_resp>>

Recv ==
    /\ "ntm" \notin down
    /\ ntm_pc = "idle"
    /\ nts_msg # None
    /\ nts_msg' = None

handle_msg_nts_epoll_create ==
    /\ Recv
    /\ nts_msg.op = "CREATE"
    /\ ep_event_queue_create
    /\ AskProxy
    /\ UNCHANGED <<push, take, app, call, waitVars, libVars, nts_shm_conn_map, ntm_epoll, ep_socket_map,
                   ntpVars, ep_ctx, down, counts>>

\* A socket the monitor does not know gets no answer.
CtlUnknown ==
    /\ Recv
    /\ nts_msg.op \in CtlOps
    /\ nts_msg.sock \notin nts_shm_conn_map
    /\ UNCHANGED <<queueVars, app, call, waitVars, libVars, nts_resp, ep_msg, ep_resp, ntmVars, ntpVars,
                   ep_ctx, down, counts>>

\* The mask is set; a listener is the monitor's own (ListenerCtl), a connection
\* is the proxy's.
handle_msg_nts_epoll_ctl ==
    LET s == nts_msg.sock IN
    /\ Recv
    /\ nts_msg.op \in CtlOps
    /\ s \in nts_shm_conn_map
    /\ IF (ntm_epoll[s] = "none") # (nts_msg.op = "ADD")
       THEN /\ Reply(-1)
            /\ UNCHANGED <<ntm_epoll, ntm_pc, ntm_req>>
       ELSE /\ ntm_epoll' = [ntm_epoll EXCEPT ![s] = nts_msg.events]
            /\ IF s \in Listeners
               THEN /\ ntm_pc' = "listener"
                    /\ ntm_req' = nts_msg
                    /\ UNCHANGED <<nts_resp, ep_msg, ep_resp>>
               ELSE AskProxy
    /\ UNCHANGED <<queueVars, app, call, waitVars, libVars, nts_shm_conn_map, ep_socket_map, ntpVars,
                   ep_ctx, down, counts>>

\* Its end for a listener: the reply, the context's map and the listener's
\* epoll_ctx.
ListenerCtl ==
    LET s == ntm_req.sock IN
    /\ "ntm" \notin down
    /\ ntm_pc = "listener"
    /\ Reply(0)
    /\ ep_socket_map' = CASE ntm_req.op = "ADD" -> ep_socket_map \cup {s}
                          [] ntm_req.op = "DEL" -> ep_socket_map \ {s}
                          [] OTHER -> ep_socket_map
    /\ ep_ctx' = CASE ntm_req.op = "ADD" -> ep_ctx \cup {s}
                   [] ntm_req.op = "DEL" -> ep_ctx \ {s}
                   [] OTHER -> ep_ctx
    /\ ntm_pc' = "idle"
    /\ ntm_req' = None
    /\ UNCHANGED <<queueVars, app, call, waitVars, libVars, nts_msg, nts_shm_conn_map, ntm_epoll,
                   ntpVars, down, counts>>

\* The listeners of the context lose their masks; the connections are the
\* proxy's.
handle_msg_nts_epoll_close ==
    /\ Recv
    /\ nts_msg.op = "CLOSE"
    /\ ntm_epoll' = [s \in Sockets |-> IF s \in ep_socket_map THEN "none" ELSE ntm_epoll[s]]
    /\ ep_socket_map' = {}
    /\ AskProxy
    /\ UNCHANGED <<queueVars, app, call, waitVars, libVars, nts_shm_conn_map, ntpVars, ep_ctx, down,
                   counts>>

\* Who is pushing when the queue is unmapped under it.
Freed(p) == push' = [push EXCEPT ![p].pc = IF @ \in {"idle", "checked"} THEN @ ELSE "freed"]

\* The proxy has answered.  A refusal ends the handler without a reply; the end
\* of a close unmaps the monitor's queue.
ProxyAnswered ==
    /\ "ntm" \notin down
    /\ ntm_pc = "wait_ntp"
    /\ ep_resp # None
    /\ ep_resp' = None
    /\ nts_resp' = IF ep_resp = 0 THEN 0 ELSE nts_resp
    /\ IF ntm_req.op = "CLOSE" /\ ep_resp = 0
       THEN Freed("ntm") /\ ep_ctx' = {}
       ELSE UNCHANGED <<push, ep_ctx>>
    /\ ntm_pc' = "idle"
    /\ ntm_req' = None
    /\ UNCHANGED <<queue, take, app, call, waitVars, libVars, nts_msg, ep_msg, nts_shm_conn_map,
                   ntm_epoll, ep_socket_map, ntpVars, down, counts>>

Monitor ==
    \/ handle_msg_nts_epoll_create \/ CtlUnknown \/ handle_msg_nts_epoll_ctl
    \/ ListenerCtl \/ handle_msg_nts_epoll_close \/ ProxyAnswered

-----------------------------------------------------------------------------
(* The proxy's epoll thread.  A handler that fails ends the thread.        *)

NtpRecv(ops) ==
    /\ "ntp" \notin down
    /\ ntp_pc = "recv"
    /\ ep_msg # None
    /\ ep_msg.op \in ops

Answer(r) ==
    /\ ep_msg' = None
    /\ ep_resp' = r
    /\ ntp_pc' = IF r = 0 THEN "recv" ELSE "exited"
    /\ UNCHANGED <<nts_msg, nts_resp>>

\* ep_event_queue_init, the proxy's mapping of the queue, may fail.
handle_epoll_create_msg(ok) ==
    /\ NtpRecv({"CREATE"})
    /\ Answer(IF ok THEN 0 ELSE -1)
    /\ ntp_ctx' = ok
    /\ ep_conn_map' = {}
    /\ UNCHANGED <<queueVars, app, call, waitVars, libVars, ntmVars, port2conn, ntp_epoll, ep_ctx, down,
                   counts>>

AddConnNoContext ==
    LET s == ep_msg.sock IN
    /\ NtpRecv({"ADD"})
    /\ s \in port2conn
    /\ ep_conn_map' = ep_conn_map \cup {s}
    /\ ntp_pc' = "mask"
    /\ UNCHANGED <<queueVars, app, call, waitVars, libVars, rings, ntmVars, ntp_ctx, port2conn, ntp_epoll,
                   ep_ctx, down, counts>>

\* handle_epoll_ctl_msg, ADD: the connection is found by its ports and gets the
\* context.  For an accepted socket the monitor sends the port it allocated, and
\* the connection is kept under the listener's: it is not found (CtlNoConn, as
\* after NtpForget).
AddConn ==
    LET s == ep_msg.sock IN
    /\ NtpRecv({"ADD"})
    /\ s \in port2conn
    /\ ep_conn_map' = ep_conn_map \cup {s}
    /\ ep_ctx' = ep_ctx \cup {s}
    /\ ntp_pc' = "mask"
    /\ UNCHANGED <<queueVars, app, call, waitVars, libVars, rings, ntmVars, ntp_ctx, port2conn, ntp_epoll,
                   down, counts>>

\* MOD and DEL: it is found by its socket.
FindConn ==
    /\ NtpRecv({"MOD", "DEL"})
    /\ ep_msg.sock \in ep_conn_map
    /\ ntp_pc' = "mask"
    /\ UNCHANGED <<queueVars, app, call, waitVars, libVars, rings, ntmVars, ntp_ctx, port2conn, ntp_epoll,
                   ep_conn_map, ep_ctx, down, counts>>

CtlNoConn ==
    /\ NtpRecv(CtlOps)
    /\ ep_msg.sock \notin IF ep_msg.op = "ADD" THEN port2conn ELSE ep_conn_map
    /\ Answer(-1)
    /\ UNCHANGED <<queueVars, app, call, waitVars, libVars, ntmVars, ntp_ctx, port2conn, ntp_epoll,
                   ep_conn_map, ep_ctx, down, counts>>

SetMaskUnlessDel ==
    /\ "ntp" \notin down
    /\ ntp_pc = "mask"
    /\ ntp_epoll' = IF ep_msg.op = "DEL" THEN ntp_epoll
                    ELSE [ntp_epoll EXCEPT ![ep_msg.sock] = ep_msg.events]
    /\ ep_conn_map' = IF ep_msg.op = "DEL" THEN ep_conn_map \ {ep_msg.sock} ELSE ep_conn_map
    /\ Answer(0)
    /\ UNCHANGED <<queueVars, app, call, waitVars, libVars, ntmVars, ntp_ctx, port2conn, ep_ctx, down,
                   counts>>

SetMaskNoAnswer ==
    /\ "ntp" \notin down
    /\ ntp_pc = "mask"
    /\ ntp_epoll' = [ntp_epoll EXCEPT ![ep_msg.sock] = ep_msg.events]
    /\ ep_conn_map' = IF ep_msg.op = "DEL" THEN ep_conn_map \ {ep_msg.sock} ELSE ep_conn_map
    /\ ep_msg' = None
    /\ ntp_pc' = "recv"
    /\ UNCHANGED <<queueVars, app, call, waitVars, libVars, nts_msg, nts_resp, ep_resp, ntmVars, ntp_ctx,
                   port2conn, ep_ctx, down, counts>>

\* Its mask, the map of the context, and the answer.
SetMask ==
    /\ "ntp" \notin down
    /\ ntp_pc = "mask"
    /\ ntp_epoll' = [ntp_epoll EXCEPT ![ep_msg.sock] = ep_msg.events]
    /\ ep_conn_map' = IF ep_msg.op = "DEL" THEN ep_conn_map \ {ep_msg.sock} ELSE ep_conn_map
    /\ Answer(0)
    /\ UNCHANGED <<queueVars, app, call, waitVars, libVars, ntmVars, ntp_ctx, port2conn, ep_ctx, down,
                   counts>>

\* The connections of the context lose mask and context, and the proxy's queue is
\* unmapped.  Those taken out by a DEL keep a pointer to the freed context.
handle_epoll_close_msg ==
    /\ NtpRecv({"CLOSE"})
    /\ ntp_ctx
    /\ ntp_epoll' = [s \in Conns |-> IF s \in ep_conn_map THEN "none" ELSE ntp_epoll[s]]
    /\ ep_ctx' = ep_ctx \ Conns
    /\ ep_conn_map' = {}
    /\ ntp_ctx' = FALSE
    /\ Freed("ntp")
    /\ Answer(0)
    /\ UNCHANGED <<queue, take, app, call, waitVars, libVars, ntmVars, port2conn, down, counts>>

Proxy ==
    \/ \E ok \in BOOLEAN : handle_epoll_create_msg(ok)
    \/ AddConn \/ FindConn \/ CtlNoConn \/ SetMask \/ handle_epoll_close_msg

-----------------------------------------------------------------------------
(* The producers: the proxy's receive thread after it forwarded data, and  *)
(* the monitor's TCP thread after it pushed on a backlog.                  *)

\* The test of conn->epoll, or of the listener's socket->epoll.
Ready(p, s) ==
    /\ p \notin down
    /\ push[p].pc = "idle"
    /\ pushes < MaxPushes
    /\ IF p = "ntm" THEN s \in Listeners \cap nts_shm_conn_map /\ ntm_epoll[s] = "in"
                    ELSE s \in port2conn /\ ntp_epoll[s] = "in"
    /\ pushes' = pushes + 1
    /\ push' = [push EXCEPT ![p] = [pc |-> "checked", sock |-> s, num |-> 0]]
    /\ UNCHANGED <<queue, take, app, call, waitVars, libVars, rings, ntmVars, ntpVars, ep_ctx, down,
                   calls, creates, closed>>

\* The call of ep_event_queue_push through epoll_ctx.
CallPush(p) ==
    /\ p \notin down
    /\ push[p].pc = "checked"
    /\ push[p].sock \in ep_ctx
    /\ push' = [push EXCEPT ![p].pc = "called"]
    /\ UNCHANGED <<queue, take, app, call, waitVars, libVars, rings, ntmVars, ntpVars, ep_ctx, down, counts>>

\* There is no live context behind it.
PushFault(p) ==
    /\ p \notin down
    /\ push[p].pc = "freed" \/ (push[p].pc = "checked" /\ push[p].sock \notin ep_ctx)
    /\ down' = down \cup {p}
    /\ UNCHANGED <<queueVars, app, call, waitVars, libVars, rings, ntmVars, ntpVars, ep_ctx, counts>>

PushStep(p) ==
    \/ CallPush(p)
    \/ PushFault(p)
    \/ /\ p \notin down
       /\ Push(p)
       /\ UNCHANGED <<app, call, waitVars, libVars, rings, ntmVars, ntpVars, ep_ctx, down, counts>>

-----------------------------------------------------------------------------
(* A connection ends elsewhere (NtpConn, NtmHandshake): the monitor and    *)
(* the proxy forget it.  ep_conn_map is left alone.  That the receive      *)
(* thread may hold the freed connection is NtpConn's subject.              *)

NtmForget(s) ==
    /\ s \in nts_shm_conn_map
    /\ s \in Listeners => s \notin nt_sock_map
    /\ push["ntm"].sock # s
    /\ nts_shm_conn_map' = nts_shm_conn_map \ {s}
    /\ UNCHANGED <<queueVars, app, call, waitVars, libVars, rings, ntm_pc, ntm_req, ntm_epoll,
                   ep_socket_map, ntpVars, ep_ctx, down, counts>>

NtpForget(s) ==
    /\ s \in port2conn
    /\ push["ntp"].sock # s
    /\ port2conn' = port2conn \ {s}
    /\ UNCHANGED <<queueVars, app, call, waitVars, libVars, rings, ntmVars, ntp_pc, ntp_ctx, ntp_epoll,
                   ep_conn_map, ep_ctx, down, counts>>

Next ==
    \/ nts_epoll_create \/ nts_close_epoll_socket \/ Response
    \/ \E s \in Sockets : CtlClosed(s) \/ nts_close(s) \/ NtmForget(s) \/ NtpForget(s)
    \/ \E op \in CtlOps, s \in Sockets, m \in Masks : nts_epoll_ctl(op, s, m)
    \/ \E t \in Timeouts : nts_epoll_wait(t)
    \/ Wait \/ Monitor \/ Proxy
    \/ \E p \in Producers : PushStep(p) \/ \E s \in Sockets : Ready(p, s)

Spec == Init /\ [][Next]_vars

\* Each thread is scheduled again and again, and a semaphore's waiter is woken.
FairSpec ==
    /\ Spec
    /\ WF_vars(Response \/ Wait)
    /\ WF_vars(Monitor)
    /\ WF_vars(Proxy)
    /\ \A p \in Producers : WF_vars(PushStep(p))

-----------------------------------------------------------------------------
(* Properties.                                                             *)

Requests == [op : CtlOps \cup {"CREATE", "CLOSE"}, sock : Sockets \cup {None}, events : Masks]
Answers == {None, 0, -1}

\* The waiting application, and who is down.
WaitTypes ==
    /\ app \in {"idle", "asked", "check", "sleep", "scan", "take", "skip", "faulted"}
    /\ timeout \in Timeouts
    /\ left \in Nat
    /\ cnt \in Nat
    /\ down \subseteq Producers \cup {"app"}

\* The call in its places, and the two servers' program counters.
MessageTypes ==
    /\ call \in Requests \cup {None} /\ nts_msg \in Requests \cup {None}
    /\ ntm_req \in Requests \cup {None} /\ ep_msg \in Requests \cup {None}
    /\ nts_resp \in Answers /\ ep_resp \in Answers
    /\ ntm_pc \in {"idle", "wait_ntp", "listener"}
    /\ ntp_pc \in {"recv", "mask", "exited"}

\* The masks, maps and contexts.
TableTypes ==
    /\ nt_epoll_map \in BOOLEAN /\ ntp_ctx \in BOOLEAN
    /\ nt_sock_map \subseteq Sockets /\ epoll_sockets \subseteq Sockets
    /\ nts_shm_conn_map \subseteq Sockets /\ ep_ctx \subseteq Sockets
    /\ ep_socket_map \subseteq Listeners
    /\ port2conn \subseteq Conns /\ ep_conn_map \subseteq Conns
    /\ lib_epoll \in [Sockets -> Masks] /\ ntm_epoll \in [Sockets -> Masks]
    /\ ntp_epoll \in [Conns -> Masks]

\* The counts the model's bounds are about.
BoundTypes ==
    /\ calls \in 0 .. MaxCalls
    /\ pushes \in 0 .. MaxPushes
    /\ creates \in 0 .. MaxCreates
    /\ closed \in BOOLEAN

\* Types, of the queue and of the three processes.
TypeOK == PushTypeOK /\ QueueTypeOK /\ WaitTypes /\ MessageTypes /\ TableTypes /\ BoundTypes

\* The events in the queue are the ones pushed, in their order, and none has been
\* overwritten, however two producers and nts_epoll_wait interleave: empty_sem
\* keeps the producers from lapping the consumer, which takes no mutex.  The one
\* thing that can break this is an update of num_events that was lost.
EventsInOrder ==
    ~lost => /\ Len(pending) <= Capacity
             /\ Window(events, start, Len(pending)) = pending

\* The epoll socket is open, and nobody is closing it.
Open == nt_epoll_map /\ (call # None => call.op # "CLOSE")

\* How many of the two producers are at step pc of ep_event_queue_push.
At(pc) ==
    LET here(p) == IF push[p].pc = pc THEN 1 ELSE 0
    IN  here("ntm") + here("ntp")

\* The producers that have a slot and have not filled it.
Claimed == At("room")

\* Every slot is accounted for: it is free (empty_sem), claimed by a producer
\* that has not copied yet, or in the queue.  A leak would, event by event, block
\* the proxy's receive thread for good.
SlotsConserved ==
    (Open /\ ~lost) => empty_sem + Claimed + Len(pending) = Capacity

\* num_events is the "number of current active events in event_queue"
\* (epoll_event_queue.h): while nobody is between the load and the store of an
\* update, it is the number of slots that are neither free nor claimed by a
\* producer.  It stays so until ++ in ep_event_queue_push and -- in nts_epoll_wait,
\* which takes no mutex, meet and one of them is lost.
NumEventsExact ==
    (Open /\ ~lost /\ take = None /\ \A p \in Producers : push[p].pc # "copied") =>
        num_events = Capacity - empty_sem - Claimed

\* nts_epoll_wait, which takes no mutex and does not look at num_events again,
\* finds an event in every slot it has still to look at, whatever the producers
\* have claimed and not filled, until an update of num_events is lost.
ScanFindsEvents ==
    ~lost /\ app \in {"scan", "take", "skip"} => left <= Len(pending)

\* Between calls, the three processes agree on the mask of every open socket,
\* registered, changed or taken out again: libnts's socket->epoll, the monitor's
\* socket->epoll and, for a connection, the proxy's conn->epoll.  (The close of
\* the epoll socket clears only the proxy's and the listeners'.)
MasksAgree ==
    (app = "idle" /\ ~closed) =>
        \A s \in nt_sock_map :
            /\ ntm_epoll[s] = lib_epoll[s]
            /\ s \in Conns => ntp_epoll[s] = lib_epoll[s]

\* The proxy's receive thread tests conn->epoll and then goes through
\* conn->epoll_ctx, while the epoll thread registers and removes connections: the
\* context is there, unless the epoll socket was closed in between.
PushFindsContext ==
    push["ntp"].pc = "checked" => closed \/ push["ntp"].sock \in ep_ctx

\* nts_epoll_wait without a timeout does not sleep on an event: it sleeps on
\* full_sem after it found num_events zero, and the push that counted the event
\* posts full_sem after that.
WaitWakes ==
    (app = "sleep" /\ timeout = "forever" /\ pending # <<>> /\ ~lost)
        ~> (app \in {"take", "skip"} \/ lost)

\* A call that asks the monitor returns, whatever the receive threads are blocked
\* on, unless the socket's connection is gone in the monitor, the proxy's epoll
\* thread has ended, or a process has faulted.
CallReturns ==
    app = "asked" ~> \/ app = "idle"
                     \/ call # None /\ call.sock # None /\ call.sock \notin nts_shm_conn_map
                     \/ ntp_pc = "exited"
                     \/ down # {}

-----------------------------------------------------------------------------
(* The inductive invariant.                                                *)

\* The application's one call is in one place: on its way to the monitor, worked
\* on there, with the proxy, on its way back, or dropped without an answer.
CallInv ==
    /\ call = None <=> app # "asked"
    /\ call # None =>
         /\ call.op \in CtlOps => /\ nt_epoll_map /\ call.sock \in nt_sock_map
                                  /\ lib_epoll[call.sock] = call.events
         /\ call.op = "CREATE" => ~nt_epoll_map /\ call.sock = None
         /\ call.op = "CLOSE" => nt_epoll_map /\ closed
    /\ nts_msg # None => nts_msg = call /\ ntm_pc = "idle" /\ nts_resp = None
    /\ nts_resp # None => /\ call # None /\ ntm_pc = "idle"
                          /\ call.op \notin CtlOps => nts_resp = 0
    /\ IF ntm_pc = "idle" THEN ntm_req = None /\ ep_msg = None /\ ep_resp = None
                          ELSE call # None /\ ntm_req = call
    /\ ntm_pc = "listener" => /\ call.op \in CtlOps /\ call.sock \in Listeners
                              /\ ep_msg = None /\ ep_resp = None
    /\ ntm_pc = "wait_ntp" /\ call.op \in CtlOps => call.sock \in Conns
    /\ ep_msg # None => ep_msg = call /\ ep_resp = None
    /\ ntp_pc = "mask" => ep_msg # None /\ call.op \in CtlOps

\* Outside of a call, and during one for the other sockets, the masks agree; the
\* socket of the call gets its mask in the monitor and then in the proxy.
MaskInv ==
    ~closed =>
        \A s \in nt_sock_map :
            IF call # None /\ call.sock = s
            THEN /\ nts_msg # None => (ntm_epoll[s] = "none" <=> call.op = "ADD")
                 /\ ntm_pc # "idle" \/ nts_resp # None => ntm_epoll[s] = lib_epoll[s]
                 /\ s \in Conns /\ (ep_resp = 0 \/ nts_resp # None) => ntp_epoll[s] = lib_epoll[s]
            ELSE /\ ntm_epoll[s] = lib_epoll[s]
                 /\ s \in Conns => ntp_epoll[s] = lib_epoll[s]

\* Until the epoll socket is closed, a connection with a mask has the context, and
\* so have those that are in the proxy's map or are getting their mask.
ContextInv ==
    ~closed =>
        /\ \A s \in Conns : ntp_epoll[s] # "none" => s \in ep_ctx
        /\ ep_conn_map \subseteq ep_ctx
        /\ ntp_pc = "mask" => ep_msg.sock \in ep_ctx
        /\ push["ntp"].pc = "checked" => push["ntp"].sock \in ep_ctx

\* Producer p is not at the queue.
Away(p) == push[p].pc \in {"idle", "checked", "freed"}

\* Without an epoll socket there is no context, and nobody is at the queue when it
\* is created anew: the proxy's producer is gone when the proxy has answered the
\* close, the monitor's when the monitor has.
CloseInv ==
    /\ ~nt_epoll_map \/ (call # None /\ call.op = "CLOSE" /\ nts_resp # None) =>
         ep_ctx = {} /\ \A p \in Producers : Away(p)
    /\ call # None /\ call.op = "CLOSE" /\ ep_resp # None => ep_ctx \cap Conns = {} /\ Away("ntp")
    /\ push["ntm"].pc # "idle" => push["ntm"].sock \in Listeners
    /\ push["ntp"].pc # "idle" => push["ntp"].sock \in Conns

\* The producers inside num_events++.
Counting == At("copied")

\* Only one producer is in num_events++, and only the consumer lowers num_events,
\* so whoever loaded it saw no less than there is now, and nts_epoll_wait finds
\* the events it still has to look at.
CountInv ==
    /\ Counting <= 1 /\ (mutex_sem = 1 => Counting = 0)
    /\ \A p \in Producers : push[p].pc = "copied" => push[p].num >= num_events
    /\ take # None <=> app \in {"take", "skip"}
    /\ take # None => num_events >= take /\ take >= left /\ left > 0
    /\ app = "scan" => num_events >= left

\* The queue is in use, or was just created.
Mapped == Open \/ (call # None /\ call.op = "CREATE" /\ nts_msg = None)

\* A producer that is cut off by a close leaves its slot, and the event it has not
\* counted, behind: what is exact while the queue is mapped is a bound from then on.
SlotInv ==
    ~lost =>
        /\ end = SlotAfter(start, Len(pending))
        /\ empty_sem + Claimed + Len(pending) <= Capacity
        /\ num_events + Counting <= Len(pending)
        /\ Mapped => /\ empty_sem + Claimed + Len(pending) = Capacity
                     /\ num_events + Counting = Len(pending)

\* The inductive invariant of the proofs: the types, the call in one place, the masks
\* and contexts that follow it, the close, and the count and slots of the queue.
IndInv ==
    /\ TypeOK /\ CallInv /\ MaskInv /\ ContextInv /\ CloseInv
    /\ CountInv /\ SlotInv /\ EventsInOrder
=============================================================================
