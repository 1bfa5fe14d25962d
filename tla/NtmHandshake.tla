---------------------------- MODULE NtmHandshake ----------------------------
(***************************************************************************)
(* Connection set-up and close between two hosts.                          *)
(*                                                                         *)
(* An application calls nts_connect on the client host, another one        *)
(* nts_bind, nts_listen and nts_accept on the server host                  *)
(* (libnts/src/nts_api.c).  Each host runs a monitor (NTM,                 *)
(* monitor/src/ntb_monitor.c) with two threads: nts_shm_recv_thread takes  *)
(* the requests of the applications from the ntm_shm ring, and             *)
(* ntm_sock_recv_thread takes the messages of the other monitor from TCP.  *)
(* The second one asks the host's proxy (NTP, ntb-proxy/src/ntp_func.c)    *)
(* to create a connection and waits for the answer.                        *)
(*                                                                         *)
(* A connection has a socket on each host.  Both are indexed by the client *)
(* c whose SYN made them, the accepted one standing for a fresh socket id. *)
(* A handler that waits inside is split at the wait; the message stays at  *)
(* the head of its queue until the handler returns.                        *)
(***************************************************************************)
EXTENDS Integers, Sequences

CONSTANTS
  Clients,      \* the connecting sockets, each made by nts_socket
  LastPort,     \* the server host has the ports 0 .. LastPort
  LastClientPort, \* and the client host 0 .. LastClientPort
  BindPorts,    \* ports the server application may bind
  BacklogSize,  \* slots the backlog ring can fill
  MaxCalls,     \* bound on the nts_connect calls
  FinIds        \* values the unset msg_id of NTM_MSG_FIN may have

ASSUME HandshakeAssumption ==
  /\ LastPort \in Nat /\ LastClientPort \in 0 .. LastPort /\ BindPorts \subseteq 0 .. LastPort
  /\ BacklogSize \in Nat \ {0} /\ MaxCalls \in Nat \ {0}
  /\ FinIds \subseteq {0, 1}
  /\ Clients \cap {"listener", "peer", "none", "ok", "refused"} = {}

VARIABLES
  app,          \* libnts: where the application is with its socket
  calls,        \* nts_connect calls made so far
  ring,         \* nts_shm ring of each socket: answers of the monitor
  ListenPort,   \* the port the server application binds; never changes
  lisApp,       \* libnts: where the server application is with its listener
  lisRing,      \* nts_shm ring of the listener
  backlog,      \* accepted sockets waiting for nts_accept
  popped,       \* the socket nts_accept took from the backlog, or "none"
  attached,     \* port in the ntp shm names each accepted socket opened
  reqs,         \* ntm_shm ring of each host: requests to the monitor
  dispatching,  \* connect handler: SYN is sent, DISPATCHED is not
  tcp,          \* messages on their way to each monitor
  conn,         \* who opened the TCP connection: a client, the "peer" monitor,
                \* whose connection ntm_listen_thread took, or "none" yet
  step,         \* receive thread of each monitor: idle, ntp, acked, destroy
  found,        \* the socket each receive thread works on, or "none"
  sock,         \* monitor: state of each socket
  port,         \* monitor: local port of each socket, or -1
  peerPort,     \* monitor: peer_sin_port of each socket, or -1
  free,         \* monitor: free_ntport list
  used,         \* monitor: ports whose status is NT_PORT_USED
  portMap,      \* monitor: port_sock_map, the socket of each port, or "none"
  lis,          \* monitor: state of the listening socket
  ntp,          \* proxy: <<src, dst>> connections it created
  fin,          \* NTP_NTS_MSG_FIN packets an application has not read
  down          \* the hosts whose monitor has crashed

libVars == <<app, calls, lisApp, popped, attached>>
shmVars == <<ring, lisRing, backlog, reqs>>
netVars == <<tcp, conn, fin>>
ntmVars == <<dispatching, step, found, sock, port, peerPort, free, used, portMap, lis>>
rest == <<ListenPort, down>>
vars == <<libVars, shmVars, netVars, ntmVars, ntp, rest>>

Nodes == {"client", "server"}
Peer(n) == IF n = "client" THEN "server" ELSE "client"
Ports == 0 .. LastPort

AppStates == {"CLOSED", "dispatch", "establish", "syn_ack", "ESTABLISHED",
              "WAIT_FIN", "done", "failed"}
SockStates == {"FREE", "CLOSED", "WAIT_ESTABLISHED", "ESTABLISHED", "WAIT_CLOSE"}
Answers == {"dispatched", "refused", "establish", "close"}
Requests == [type : {"connect", "accept_ack", "bind", "listen"},
             id : Clients \cup {"listener"}]
              \cup [type : {"fin", "fin_sent"}, id : Clients, msgId : {0, 1}]
SockMsgs == [type : {"SYN", "SYN_ACK", "CLIENT_SYN_ACK", "FIN_ACK", "REFUSED"},
             sport : Ports, dport : Ports, id : Clients]
---------------------------------------------------------------------------
(***************************************************************************)
(* nt_port.c: allocate_port takes the first unused port of the free list   *)
(* and drops the used ones before it; allocate_specified_port marks the    *)
(* port and leaves the list alone; free_port appends it.  With no port     *)
(* left allocate_port uses a null pointer, and the monitor crashes.        *)
(***************************************************************************)
\* Mutant: the status of the port is not tested.
FirstInList(n) == 1

FirstFree(n) ==
  CHOOSE i \in 1 .. Len(free[n]) :
    free[n][i] \notin used[n] /\ \A j \in 1 .. i - 1 : free[n][j] \in used[n]

HasFree(n) == \E i \in 1 .. Len(free[n]) : free[n][i] \notin used[n]

allocate_port(n) ==
  LET i == FirstFree(n) IN
  /\ HasFree(n)
  /\ free' = [free EXCEPT ![n] = SubSeq(@, i + 1, Len(@))]
  /\ used' = [used EXCEPT ![n] = @ \cup {free[n][i]}]

free_port(n, p) ==
  /\ free' = [free EXCEPT ![n] = IF p \in used[n] THEN Append(@, p) ELSE @]
  /\ used' = [used EXCEPT ![n] = @ \ {p}]

Without(f, p) == [f EXCEPT ![p] = "none"]

\* Mutant: the listener is stored in place of the accepted socket.
WithListener(f, p, c) == [f EXCEPT ![p] = "listener"]

With(f, p, c) == [f EXCEPT ![p] = c]
---------------------------------------------------------------------------
Init ==
  /\ app = [n \in Nodes |-> [c \in Clients |-> "CLOSED"]]
  /\ calls = 0
  /\ ring = [n \in Nodes |-> [c \in Clients |-> <<>>]]
  /\ ListenPort \in BindPorts
  /\ lisApp = "CLOSED" /\ lisRing = <<>> /\ backlog = <<>> /\ popped = "none"
  /\ attached = [c \in Clients |-> -1]
  /\ reqs = [n \in Nodes |-> <<>>]
  /\ dispatching = FALSE
  /\ tcp = [n \in Nodes |-> <<>>] /\ conn \in {"none", "peer"}
  /\ step = [n \in Nodes |-> "idle"] /\ found = [n \in Nodes |-> "none"]
  /\ sock = [n \in Nodes |->
               [c \in Clients |-> IF n = "client" THEN "CLOSED" ELSE "FREE"]]
  /\ port = [n \in Nodes |-> [c \in Clients |-> -1]]
  /\ peerPort = [n \in Nodes |-> [c \in Clients |-> -1]]
  /\ free = [n \in Nodes |->
               [i \in 1 .. (IF n = "client" THEN LastClientPort ELSE LastPort) + 1 |-> i - 1]]
  /\ used = [n \in Nodes |-> {}]
  /\ portMap = [n \in Nodes |-> [p \in Ports |-> "none"]]
  /\ lis = "CLOSED"
  /\ ntp = [n \in Nodes |-> {}]
  /\ fin = [n \in Nodes |-> {}]
  /\ down = {}

Request(n, r) == reqs' = [reqs EXCEPT ![n] = Append(@, r)]
TakeRequest(n) == reqs' = [reqs EXCEPT ![n] = Tail(@)]
HasRequest(n, t) == n \notin down /\ reqs[n] # <<>> /\ Head(reqs[n]).type = t
HasMsg(n, t, s) == n \notin down /\ tcp[n] # <<>> /\ Head(tcp[n]).type = t /\ step[n] = s
TakeMsg(n) == tcp' = [tcp EXCEPT ![n] = Tail(@)]
\* The receive thread of n ends its handler by sending m to the other monitor.
AnswerMsg(n, m) == tcp' = [tcp EXCEPT ![n] = Tail(@), ![Peer(n)] = Append(@, m)]
SetSock(n, c, s) == sock' = [sock EXCEPT ![n][c] = s]
SetApp(n, c, s) == app' = [app EXCEPT ![n][c] = s]
SetStep(n, s) == step' = [step EXCEPT ![n] = s]
SetFound(n, c) == found' = [found EXCEPT ![n] = c]
---------------------------------------------------------------------------
(***************************************************************************)
(* The server application binds and listens; each call waits for its answer. *)
(***************************************************************************)
ListenerCall(from, call) ==
  /\ lisApp = from /\ lisApp' = call
  /\ Request("server", [type |-> call, id |-> "listener"])
  /\ UNCHANGED <<app, calls, popped, attached, ring, lisRing, backlog,
                 netVars, ntmVars, ntp, rest>>

nts_bind == ListenerCall("CLOSED", "bind")
nts_listen == ListenerCall("BOUND", "listen")

handle_msg_nts_bind ==
  /\ HasRequest("server", "bind") /\ TakeRequest("server")
  /\ IF lis = "CLOSED" /\ ListenPort \notin used["server"]
     THEN /\ used' = [used EXCEPT !["server"] = @ \cup {ListenPort}]
          /\ lis' = "BOUND"
          /\ lisRing' = Append(lisRing, "ok")
     ELSE lisRing' = Append(lisRing, "refused") /\ UNCHANGED <<used, lis>>
  /\ UNCHANGED <<libVars, ring, backlog, netVars, dispatching, found, step, sock, port,
                 peerPort, free, portMap, ntp, rest>>

handle_msg_nts_listen ==
  /\ HasRequest("server", "listen") /\ TakeRequest("server")
  /\ IF lis = "BOUND"
     THEN lis' = "LISTENING" /\ lisRing' = Append(lisRing, "ok")
     ELSE lisRing' = Append(lisRing, "refused") /\ UNCHANGED lis
  /\ UNCHANGED <<libVars, ring, backlog, netVars, dispatching, found, step, sock, port,
                 peerPort, free, used, portMap, ntp, rest>>

ListenerReturn ==
  /\ lisApp \in {"bind", "listen"} /\ lisRing # <<>>
  /\ lisApp' = IF Head(lisRing) # "ok" THEN "failed"
               ELSE IF lisApp = "bind" THEN "BOUND" ELSE "LISTENING"
  /\ lisRing' = Tail(lisRing)
  /\ UNCHANGED <<app, calls, popped, attached, ring, backlog, reqs, netVars,
                 ntmVars, ntp, rest>>
---------------------------------------------------------------------------
(***************************************************************************)
(* The client.  nts_connect sends NTM_MSG_CONNECT and takes two answers,   *)
(* DISPATCHED and ESTABLISH, failing on any other.  A failed call leaves   *)
(* the libnts socket CLOSED and may be repeated.                           *)
(***************************************************************************)
nts_connect(c) ==
  /\ app["client"][c] \in {"CLOSED", "failed"} /\ calls < MaxCalls
  /\ calls' = calls + 1
  /\ SetApp("client", c, "dispatch")
  /\ Request("client", [type |-> "connect", id |-> c])
  /\ UNCHANGED <<lisApp, popped, attached, ring, lisRing, backlog, netVars,
                 ntmVars, ntp, rest>>

ConnectAnswer(c) ==
  /\ app["client"][c] \in {"dispatch", "establish"} /\ ring["client"][c] # <<>>
  /\ LET m == Head(ring["client"][c]) IN
       SetApp("client", c,
              IF app["client"][c] = "dispatch" /\ m = "dispatched" THEN "establish"
              ELSE IF app["client"][c] = "establish" /\ m = "establish"
              THEN "ESTABLISHED" ELSE "failed")
  /\ ring' = [ring EXCEPT !["client"][c] = Tail(@)]
  /\ UNCHANGED <<calls, lisApp, popped, attached, lisRing, backlog, reqs,
                 netVars, ntmVars, ntp, rest>>

\* handle_msg_nts_connect: the socket is already connected.
ConnectRefused ==
  LET c == Head(reqs["client"]).id IN
  /\ HasRequest("client", "connect") /\ ~dispatching
  /\ sock["client"][c] \notin {"CLOSED", "FREE"}
  /\ TakeRequest("client")
  /\ ring' = [ring EXCEPT !["client"][c] = Append(@, "refused")]
  /\ UNCHANGED <<libVars, lisRing, backlog, netVars, ntmVars, ntp, rest>>

\* No TCP connection to the remote monitor yet, and none can be made.
ConnectNoMonitor ==
  LET c == Head(reqs["client"]).id IN
  /\ HasRequest("client", "connect") /\ ~dispatching
  /\ sock["client"][c] = "CLOSED" /\ conn = "none"
  /\ TakeRequest("client")
  /\ ring' = [ring EXCEPT !["client"][c] = Append(@, "refused")]
  /\ UNCHANGED <<libVars, lisRing, backlog, netVars, ntmVars, ntp, rest>>

\* A port is taken and NT_SYN is sent.
ConnectSyn ==
  LET c == Head(reqs["client"]).id
      p == free["client"][FirstFree("client")]
  IN
  /\ HasRequest("client", "connect") /\ ~dispatching
  /\ sock["client"][c] = "CLOSED"
  /\ conn' = IF conn = "none" THEN c ELSE conn
  /\ allocate_port("client")
  /\ port' = [port EXCEPT !["client"][c] = p]
  /\ portMap' = [portMap EXCEPT !["client"] = With(@, p, c)]
  /\ tcp' = [tcp EXCEPT !["server"] = Append(@,
               [type |-> "SYN", sport |-> p, dport |-> ListenPort, id |-> c])]
  /\ dispatching' = TRUE
  /\ UNCHANGED <<libVars, shmVars, fin, step, found, sock, peerPort, lis, ntp, rest>>

ConnectNoPort ==
  /\ HasRequest("client", "connect") /\ ~dispatching
  /\ sock["client"][Head(reqs["client"]).id] = "CLOSED" /\ ~HasFree("client")
  /\ down' = down \cup {"client"}
  /\ UNCHANGED <<libVars, shmVars, netVars, ntmVars, ntp, ListenPort>>

ConnectDispatched ==
  LET c == Head(reqs["client"]).id IN
  /\ dispatching /\ "client" \notin down
  /\ ring' = [ring EXCEPT !["client"][c] = Append(@, "dispatched")]
  /\ TakeRequest("client")
  /\ dispatching' = FALSE
  /\ UNCHANGED <<libVars, lisRing, backlog, netVars, step, found, sock, port, peerPort,
                 free, used, portMap, lis, ntp, rest>>
---------------------------------------------------------------------------
(***************************************************************************)
(* The server's receive thread.  It refuses a SYN that finds no listening  *)
(* socket or a full backlog; otherwise it makes the accepted socket, asks  *)
(* the proxy for the connection, waits, and answers SYN_ACK.               *)
(***************************************************************************)
SynRefused ==
  LET m == Head(tcp["server"]) IN
  /\ HasMsg("server", "SYN", "idle")
  /\ lis # "LISTENING" \/ Len(backlog) = BacklogSize
  /\ AnswerMsg("server", [m EXCEPT !.type = "REFUSED", !.sport = m.dport,
                                   !.dport = m.sport])
  /\ UNCHANGED <<libVars, shmVars, conn, fin, ntmVars, ntp, rest>>

\* Mutant: the backlog is not tested.
SynBeginUntested ==
  LET m == Head(tcp["server"])
      p == free["server"][FirstFree("server")]
  IN
  /\ HasMsg("server", "SYN", "idle")
  /\ lis = "LISTENING"
  /\ allocate_port("server")
  /\ port' = [port EXCEPT !["server"][m.id] = p]
  /\ portMap' = [portMap EXCEPT !["server"] = With(@, p, m.id)]
  /\ SetSock("server", m.id, "CLOSED")
  /\ SetStep("server", "ntp")
  /\ UNCHANGED <<libVars, shmVars, netVars, dispatching, found, peerPort, lis, ntp, rest>>

SynBegin ==
  LET m == Head(tcp["server"])
      p == free["server"][FirstFree("server")]
  IN
  /\ HasMsg("server", "SYN", "idle")
  /\ lis = "LISTENING" /\ Len(backlog) < BacklogSize
  /\ allocate_port("server")
  /\ port' = [port EXCEPT !["server"][m.id] = p]
  /\ portMap' = [portMap EXCEPT !["server"] = With(@, p, m.id)]
  /\ SetSock("server", m.id, "CLOSED")
  /\ SetStep("server", "ntp")
  /\ UNCHANGED <<libVars, shmVars, netVars, dispatching, found, peerPort, lis, ntp, rest>>

SynNoPort ==
  /\ HasMsg("server", "SYN", "idle")
  /\ lis = "LISTENING" /\ Len(backlog) < BacklogSize /\ ~HasFree("server")
  /\ down' = down \cup {"server"}
  /\ UNCHANGED <<libVars, shmVars, netVars, ntmVars, ntp, ListenPort>>

\* The proxy of host n takes CREATE_CONN and acknowledges it.
ntp_create_conn_handler(n) ==
  /\ step[n] = "ntp"
  /\ ntp' = [ntp EXCEPT ![n] = @ \cup {<<Head(tcp[n]).dport, Head(tcp[n]).sport>>}]
  /\ SetStep(n, "acked")
  /\ UNCHANGED <<libVars, shmVars, netVars, dispatching, found, sock, port, peerPort,
                 free, used, portMap, lis, rest>>

\* The tail of handle_nt_syn_msg: a full backlog here would undo everything,
\* without an answer.
SynFinish ==
  LET m == Head(tcp["server"]) IN
  /\ HasMsg("server", "SYN", "acked")
  /\ SetStep("server", "idle")
  /\ IF Len(backlog) < BacklogSize
     THEN /\ SetSock("server", m.id, "WAIT_ESTABLISHED")
          /\ peerPort' = [peerPort EXCEPT !["server"][m.id] = m.sport]
          /\ backlog' = Append(backlog, m.id)
          /\ AnswerMsg("server", [m EXCEPT !.type = "SYN_ACK", !.sport = m.dport,
                                           !.dport = m.sport])
          /\ UNCHANGED <<free, used, portMap>>
     ELSE /\ SetSock("server", m.id, "FREE")
          /\ portMap' = [portMap EXCEPT !["server"] =
                           Without(@, port["server"][m.id])]
          /\ free_port("server", port["server"][m.id])
          /\ TakeMsg("server")
          /\ UNCHANGED <<peerPort, backlog>>
  /\ UNCHANGED <<libVars, ring, lisRing, reqs, conn, fin, dispatching, found, port,
                 lis, ntp, rest>>

\* Mutant: the answer overtakes the ones that wait in the ring.
ClientSynAckFront ==
  LET m == Head(tcp["server"]) IN
  /\ HasMsg("server", "CLIENT_SYN_ACK", "idle") /\ TakeMsg("server")
  /\ lis = "LISTENING"
  /\ SetSock("server", m.id, "ESTABLISHED")
  /\ lisRing' = <<m.id>> \o lisRing
  /\ UNCHANGED <<libVars, ring, backlog, reqs, conn, fin, dispatching, found, step,
                 port, peerPort, free, used, portMap, lis, ntp, rest>>

\* handle_nt_client_syn_ack_msg: the answer goes to the ring of the listener.
ClientSynAck ==
  LET m == Head(tcp["server"]) IN
  /\ HasMsg("server", "CLIENT_SYN_ACK", "idle") /\ TakeMsg("server")
  /\ lis = "LISTENING"
  /\ SetSock("server", m.id, "ESTABLISHED")
  /\ lisRing' = Append(lisRing, m.id)
  /\ UNCHANGED <<libVars, ring, backlog, reqs, conn, fin, dispatching, found, step,
                 port, peerPort, free, used, portMap, lis, ntp, rest>>
---------------------------------------------------------------------------
(***************************************************************************)
(* The client's receive thread: handle_nt_syn_ack_msg finds the socket by  *)
(* the destination port, before it waits for the proxy; the handlers of    *)
(* the refusals only log them.                                             *)
(***************************************************************************)
SynAckBegin ==
  LET c == portMap["client"][Head(tcp["client"]).dport] IN
  /\ HasMsg("client", "SYN_ACK", "idle")
  /\ IF c # "none"
     THEN SetStep("client", "ntp") /\ SetFound("client", c) /\ UNCHANGED tcp
     ELSE TakeMsg("client") /\ UNCHANGED <<step, found>>
  /\ UNCHANGED <<libVars, shmVars, conn, fin, dispatching, sock, port, peerPort,
                 free, used, portMap, lis, ntp, rest>>

\* Mutant: the connection is reported before the proxy acknowledged it.
SynAckFinishEarly ==
  LET m == Head(tcp["client"]) IN
  /\ HasMsg("client", "SYN_ACK", "ntp")
  /\ AnswerMsg("client", [m EXCEPT !.type = "CLIENT_SYN_ACK", !.sport = m.dport,
                                   !.dport = m.sport])
  /\ IF sock["client"][found["client"]] = "FREE" THEN UNCHANGED <<sock, peerPort, ring>>
     ELSE /\ SetSock("client", found["client"], "ESTABLISHED")
          /\ peerPort' = [peerPort EXCEPT !["client"][found["client"]] = m.sport]
          /\ ring' = [ring EXCEPT !["client"][found["client"]] = Append(@, "establish")]
  /\ SetStep("client", "idle") /\ SetFound("client", "none")
  /\ UNCHANGED <<libVars, lisRing, backlog, reqs, conn, fin, dispatching, port,
                 free, used, portMap, lis, ntp, rest>>

\* Mutant: the application is not told.
SynAckFinishSilent ==
  LET m == Head(tcp["client"]) IN
  /\ HasMsg("client", "SYN_ACK", "acked")
  /\ AnswerMsg("client", [m EXCEPT !.type = "CLIENT_SYN_ACK", !.sport = m.dport,
                                   !.dport = m.sport])
  /\ SetSock("client", found["client"], "ESTABLISHED")
  /\ peerPort' = [peerPort EXCEPT !["client"][found["client"]] = m.sport]
  /\ SetStep("client", "idle") /\ SetFound("client", "none")
  /\ UNCHANGED <<libVars, shmVars, conn, fin, dispatching, port,
                 free, used, portMap, lis, ntp, rest>>

\* The other monitor is answered in any case, the application only when its
\* nts_shm_conn was not destroyed during the wait.
SynAckFinish ==
  LET m == Head(tcp["client"]) IN
  /\ HasMsg("client", "SYN_ACK", "acked")
  /\ AnswerMsg("client", [m EXCEPT !.type = "CLIENT_SYN_ACK", !.sport = m.dport,
                                   !.dport = m.sport])
  /\ IF sock["client"][found["client"]] = "FREE" THEN UNCHANGED <<sock, peerPort, ring>>
     ELSE /\ SetSock("client", found["client"], "ESTABLISHED")
          /\ peerPort' = [peerPort EXCEPT !["client"][found["client"]] = m.sport]
          /\ ring' = [ring EXCEPT !["client"][found["client"]] = Append(@, "establish")]
  /\ SetStep("client", "idle") /\ SetFound("client", "none")
  /\ UNCHANGED <<libVars, lisRing, backlog, reqs, conn, fin, dispatching, port,
                 free, used, portMap, lis, ntp, rest>>

RefusalLogged ==
  /\ HasMsg("client", "REFUSED", "idle") /\ TakeMsg("client")
  /\ UNCHANGED <<libVars, shmVars, conn, fin, ntmVars, ntp, rest>>
---------------------------------------------------------------------------
(***************************************************************************)
(* nts_accept pops a socket, opens the ntp rings named after its port, and *)
(* then takes one message from the ring of the listener.                   *)
(***************************************************************************)
AcceptPop ==
  /\ lisApp = "LISTENING" /\ popped = "none" /\ backlog # <<>>
  /\ popped' = Head(backlog)
  /\ backlog' = Tail(backlog)
  /\ attached' = [attached EXCEPT ![Head(backlog)] = port["server"][Head(backlog)]]
  /\ SetApp("server", Head(backlog), "syn_ack")
  /\ UNCHANGED <<calls, lisApp, ring, lisRing, reqs, netVars, ntmVars, ntp, rest>>

AcceptReturn ==
  /\ popped # "none" /\ lisRing # <<>>
  /\ IF Head(lisRing) = popped
     THEN /\ SetApp("server", popped, "ESTABLISHED")
          /\ Request("server", [type |-> "accept_ack", id |-> popped])
     ELSE SetApp("server", popped, "failed") /\ UNCHANGED reqs
  /\ lisRing' = Tail(lisRing)
  /\ popped' = "none"
  /\ UNCHANGED <<calls, lisApp, attached, ring, backlog, netVars, ntmVars, ntp, rest>>

\* The monitor opens the nts_shm ring of the accepted socket.
handle_msg_nts_accept_ack ==
  /\ HasRequest("server", "accept_ack") /\ TakeRequest("server")
  /\ UNCHANGED <<libVars, ring, lisRing, backlog, netVars, ntmVars, ntp, rest>>
---------------------------------------------------------------------------
(***************************************************************************)
(* Close.  nts_close sends a FIN through the data plane and waits for      *)
(* NTS_MSG_CLOSE.  The application that reads the FIN sends NTM_MSG_FIN,   *)
(* whose msg_id and address it never sets, and forgets its socket.  A FIN  *)
(* lies in the ring named after the listening port and the port by which   *)
(* its sender opened the ring; libnts creates a ring the proxy does not    *)
(* have (shmring_init), and nobody reads what is sent there.               *)
(***************************************************************************)
RingPort(n, c) == IF n = "client" THEN port["client"][c] ELSE attached[c]

RingName(n, c) == IF n = "client" THEN <<RingPort(n, c), ListenPort>>
                  ELSE <<ListenPort, RingPort(n, c)>>

nts_close(n, c) ==
  /\ app[n][c] = "ESTABLISHED"
  /\ SetApp(n, c, "WAIT_FIN")
  /\ fin' = [fin EXCEPT ![Peer(n)] =
              IF RingName(n, c) \in ntp[n] THEN @ \cup {RingPort(n, c)} ELSE @]
  /\ UNCHANGED <<calls, lisApp, popped, attached, shmVars, tcp, conn, ntmVars, ntp, rest>>

CloseReturn(n, c) ==
  /\ app[n][c] = "WAIT_FIN" /\ ring[n][c] # <<>>
  /\ SetApp(n, c, IF Head(ring[n][c]) = "close" THEN "done" ELSE "failed")
  /\ ring' = [ring EXCEPT ![n][c] = Tail(@)]
  /\ UNCHANGED <<calls, lisApp, popped, attached, lisRing, backlog, reqs,
                 netVars, ntmVars, ntp, rest>>

handle_ntp_fin_msg(n, c) ==
  /\ app[n][c] = "ESTABLISHED" /\ RingPort(n, c) \in fin[n]
  /\ fin' = [fin EXCEPT ![n] = @ \ {RingPort(n, c)}]
  /\ \E i \in FinIds : Request(n, [type |-> "fin", id |-> c, msgId |-> i])
  /\ SetApp(n, c, "done")
  /\ UNCHANGED <<calls, lisApp, popped, attached, ring, lisRing, backlog, tcp,
                 conn, ntmVars, ntp, rest>>

FinValid(n) ==
  /\ HasRequest(n, "fin")
  /\ Head(reqs[n]).msgId > 0 /\ sock[n][Head(reqs[n]).id] = "ESTABLISHED"

\* handle_msg_nts_fin drops a request with a bad id or state.
FinDropped(n) ==
  /\ HasRequest(n, "fin") /\ ~FinValid(n) /\ TakeRequest(n)
  /\ UNCHANGED <<libVars, ring, lisRing, backlog, netVars, ntmVars, ntp, rest>>

\* Only the connect that opened the TCP connection recorded it in its
\* nts_shm_conn; for another client the unset address of the request is looked
\* up, and may not be found.
FinNoMonitor(n) ==
  /\ FinValid(n) /\ n = "client" /\ Head(reqs[n]).id # conn
  /\ SetSock(n, Head(reqs[n]).id, "WAIT_CLOSE")
  /\ TakeRequest(n)
  /\ UNCHANGED <<libVars, ring, lisRing, backlog, netVars, dispatching, found, step,
                 port, peerPort, free, used, portMap, lis, ntp, rest>>

\* NT_FIN_ACK is sent; the request stays with the thread as fin_sent.
FinAnswered(n) ==
  LET c == Head(reqs[n]).id IN
  /\ FinValid(n)
  /\ tcp' = [tcp EXCEPT ![Peer(n)] = Append(@,
               [type |-> "FIN_ACK", sport |-> port[n][c], dport |-> peerPort[n][c], id |-> c])]
  /\ SetSock(n, c, "CLOSED")
  /\ reqs' = [reqs EXCEPT ![n][1].type = "fin_sent"]
  /\ UNCHANGED <<libVars, ring, lisRing, backlog, conn, fin, dispatching, found, step,
                 port, peerPort, free, used, portMap, lis, ntp, rest>>

\* Then the socket is destroyed; destroy_client_nt_socket_conn_with_sock skips
\* the port when it is 0.
FinDestroy(n) ==
  LET c == Head(reqs[n]).id
      p == port[n][c]
  IN
  /\ HasRequest(n, "fin_sent") /\ TakeRequest(n)
  /\ SetSock(n, c, "FREE")
  /\ IF p = 0 THEN UNCHANGED <<portMap, free, used>>
     ELSE portMap' = [portMap EXCEPT ![n] = Without(@, p)] /\ free_port(n, p)
  /\ UNCHANGED <<libVars, ring, lisRing, backlog, netVars, dispatching, found, step,
                 port, peerPort, lis, ntp, rest>>

\* The sockets of n with an nts_shm_conn
Kept(n) == {c \in Clients : sock[n][c] # "FREE"}

\* handle_nt_fin_ack_msg finds the socket by the destination port alone; one
\* that was destroyed is no longer kept.
FinAckLost(n) ==
  LET c == portMap[n][Head(tcp[n]).dport] IN
  /\ HasMsg(n, "FIN_ACK", "idle") /\ TakeMsg(n)
  /\ c \notin Kept(n)
  /\ UNCHANGED <<libVars, shmVars, conn, fin, ntmVars, ntp, rest>>

\* The application is told first
FinAckClose(n) ==
  LET c == portMap[n][Head(tcp[n]).dport] IN
  /\ HasMsg(n, "FIN_ACK", "idle") /\ c \in Kept(n)
  /\ SetSock(n, c, "CLOSED")
  /\ ring' = [ring EXCEPT ![n][c] = Append(@, "close")]
  /\ SetStep(n, "destroy") /\ SetFound(n, c)
  /\ UNCHANGED <<libVars, lisRing, backlog, reqs, netVars, dispatching,
                 port, peerPort, free, used, portMap, lis, ntp, rest>>

\* Mutant: the port is taken from the map and not freed.
FinAckKeepsPort(n) ==
  /\ HasMsg(n, "FIN_ACK", "destroy") /\ TakeMsg(n)
  /\ SetSock(n, found[n], "FREE") /\ SetStep(n, "idle") /\ SetFound(n, "none")
  /\ portMap' = [portMap EXCEPT ![n] = Without(@, Head(tcp[n]).dport)]
  /\ UNCHANGED <<libVars, shmVars, conn, fin, dispatching, port, peerPort, free, used,
                 lis, ntp, rest>>

\* and the socket destroyed then.
FinAckDestroy(n) ==
  /\ HasMsg(n, "FIN_ACK", "destroy") /\ TakeMsg(n)
  /\ SetSock(n, found[n], "FREE") /\ SetStep(n, "idle") /\ SetFound(n, "none")
  /\ portMap' = [portMap EXCEPT ![n] = Without(@, Head(tcp[n]).dport)]
  /\ free_port(n, Head(tcp[n]).dport)
  /\ UNCHANGED <<libVars, shmVars, conn, fin, dispatching, port, peerPort, lis, ntp, rest>>
---------------------------------------------------------------------------
\* What the threads of the monitors and the proxies do.
NtmStep ==
  \/ handle_msg_nts_bind \/ handle_msg_nts_listen \/ handle_msg_nts_accept_ack
  \/ ConnectRefused \/ ConnectSyn \/ ConnectNoPort \/ ConnectDispatched
  \/ SynRefused \/ SynBegin \/ SynNoPort \/ SynFinish \/ ClientSynAck
  \/ SynAckBegin \/ SynAckFinish \/ RefusalLogged
  \/ \E n \in Nodes : \/ ntp_create_conn_handler(n)
                      \/ FinDropped(n) \/ FinNoMonitor(n)
                      \/ FinAnswered(n) \/ FinDestroy(n)
                      \/ FinAckLost(n) \/ FinAckClose(n) \/ FinAckDestroy(n)

\* What an application inside a call, or reading its socket, does.
AppStep ==
  \/ ListenerReturn \/ AcceptPop \/ AcceptReturn
  \/ \E c \in Clients : ConnectAnswer(c)
  \/ \E n \in Nodes, c \in Clients : CloseReturn(n, c) \/ handle_ntp_fin_msg(n, c)

\* Calls an application may make or not, and what may fail.
Choice ==
  \/ nts_bind \/ nts_listen \/ ConnectNoMonitor
  \/ \E c \in Clients : nts_connect(c)
  \/ \E n \in Nodes, c \in Clients : nts_close(n, c)

Next == NtmStep \/ AppStep \/ Choice

Spec == Init /\ [][Next]_vars

(***************************************************************************)
(* The threads of the monitors and proxies run until they are stopped, and *)
(* so does an application inside nts_bind, nts_listen, nts_accept or       *)
(* nts_connect, which poll for their answers.  Nobody has to read a FIN.   *)
(***************************************************************************)
FairSpec ==
  /\ Spec
  /\ WF_vars(handle_msg_nts_bind \/ handle_msg_nts_listen
             \/ handle_msg_nts_accept_ack \/ FinDropped("server")
             \/ FinAnswered("server") \/ FinDestroy("server"))
  /\ WF_vars(ConnectRefused \/ ConnectSyn \/ ConnectNoPort \/ ConnectDispatched
             \/ FinDropped("client") \/ FinNoMonitor("client")
             \/ FinAnswered("client") \/ FinDestroy("client"))
  /\ WF_vars(SynRefused \/ SynBegin \/ SynNoPort \/ SynFinish \/ ClientSynAck
             \/ FinAckLost("server") \/ FinAckClose("server") \/ FinAckDestroy("server"))
  /\ WF_vars(SynAckBegin \/ SynAckFinish \/ RefusalLogged
             \/ FinAckLost("client") \/ FinAckClose("client") \/ FinAckDestroy("client"))
  /\ \A n \in Nodes : WF_vars(ntp_create_conn_handler(n))
  /\ WF_vars(ListenerReturn) /\ WF_vars(AcceptPop \/ AcceptReturn)
  /\ \A c \in Clients : WF_vars(ConnectAnswer(c))
---------------------------------------------------------------------------
(***************************************************************************)
(* Properties.                                                             *)
(***************************************************************************)

\* Every queue holds messages of its kind and every table sockets and ports.
TypeOK ==
  /\ app \in [Nodes -> [Clients -> AppStates]]
  /\ calls \in 0 .. MaxCalls
  /\ ring \in [Nodes -> [Clients -> Seq(Answers)]]
  /\ ListenPort \in BindPorts
  /\ lisApp \in {"CLOSED", "bind", "BOUND", "listen", "LISTENING", "failed"}
  /\ lisRing \in Seq(Clients \cup {"ok", "refused"})
  /\ backlog \in Seq(Clients)
  /\ popped \in Clients \cup {"none"}
  /\ attached \in [Clients -> Ports \cup {-1}]
  /\ reqs \in [Nodes -> Seq(Requests)]
  /\ dispatching \in BOOLEAN
  /\ tcp \in [Nodes -> Seq(SockMsgs)]
  /\ conn \in Clients \cup {"none", "peer"}
  /\ step \in [Nodes -> {"idle", "ntp", "acked", "destroy"}]
  /\ found \in [Nodes -> Clients \cup {"none"}]
  /\ sock \in [Nodes -> [Clients -> SockStates]]
  /\ port \in [Nodes -> [Clients -> Ports \cup {-1}]]
  /\ peerPort \in [Nodes -> [Clients -> Ports \cup {-1}]]
  /\ free \in [Nodes -> Seq(Ports)]
  /\ used \in [Nodes -> SUBSET Ports]
  /\ portMap \in [Nodes -> [Ports -> Clients \cup {"none"}]]
  /\ lis \in {"CLOSED", "BOUND", "LISTENING"}
  /\ ntp \in [Nodes -> SUBSET (Ports \X Ports)]
  /\ fin \in [Nodes -> SUBSET Ports]
  /\ down \subseteq Nodes

\* The client's monitor has given no port a second time.  Messages find their
\* socket by its port, and one that was on its way to the former owner of a port
\* reaches the new one; some promises are kept only until then.
FreshPorts ==
  \A c, d \in Clients :
    port["client"][c] = port["client"][d] /\ port["client"][c] # -1 => c = d

\* nts_connect returns success only when both proxies hold the connection and
\* the monitors' sockets exist: data sent at once finds its way
\* (handle_nt_syn_msg and handle_nt_syn_ack_msg wait for the proxies first).
ConnectedBothEnds ==
  \A c \in Clients :
    app["client"][c] = "ESTABLISHED" =>
      /\ <<port["client"][c], ListenPort>> \in ntp["client"]
      /\ FreshPorts => /\ <<ListenPort, port["client"][c]>> \in ntp["server"]
                       /\ peerPort["server"][c] = port["client"][c]

\* nts_accept never takes the CLIENT_SYN_ACK of another socket than the one it
\* popped: the listener's ring and the backlog are filled by two handlers with
\* a round trip to the other host between them, and stay in one order.
AcceptInOrder ==
  FreshPorts => \A c \in Clients : app["server"][c] # "failed"

\* The backlog has room when the accepted socket is pushed, though it was
\* tested before the wait for the proxy (handle_nt_syn_msg).
BacklogHasRoom ==
  HasMsg("server", "SYN", "acked") => Len(backlog) < BacklogSize

\* Socket c of host n has port p, and its monitor finds it there.
Holds(n, c, p) == port[n][c] = p /\ sock[n][c] # "FREE"

\* However ports come back and are given again: a port is held by one socket, the
\* one that port_sock_map leads to; a port on the list of free ports is on it once
\* and held by nobody, the listener's excepted, which allocate_specified_port
\* leaves there and allocate_port has to skip.
PortsExclusive ==
  \A n \in Nodes, p \in Ports :
    /\ \A c \in Clients : Holds(n, c, p) =>
         portMap[n][p] = c /\ ~ (n = "server" /\ lis # "CLOSED" /\ p = ListenPort)
    /\ \A i, j \in 1 .. Len(free[n]) :
         free[n][i] = p =>
           /\ free[n][j] = p => i = j
           /\ ~ \E c \in Clients : Holds(n, c, p)
           /\ p \in used[n] => n = "server" /\ p = ListenPort /\ lis # "CLOSED"

\* Monitor n has taken the port of socket c back; another socket may have it.
GivenBack(n, c) ==
  /\ sock[n][c] = "FREE"
  /\ port[n][c] \in used[n] => portMap[n][port[n][c]] \notin {c, "none"}

\* When the monitor tells nts_close that the connection is closed, the monitors
\* of both hosts go on to destroy its sockets and take the ports back, unless one
\* crashes before or a port was given a second time.  The accepted socket's port
\* is not given back if it is port 0, which
\* destroy_client_nt_socket_conn_with_sock takes for none.
ClosedBothEnds ==
  \A c \in Clients :
    (\E i \in 1 .. Len(ring["client"][c]) : ring["client"][c][i] = "close") ~>
      \/ /\ GivenBack("client", c)
         /\ GivenBack("server", c) \/ (port["server"][c] = 0 /\ sock["server"][c] = "FREE")
      \/ ~FreshPorts \/ down # {}

\* Once the server's monitor has accepted a SYN, the nts_connect call behind it
\* returns, with success or failure, unless a monitor crashes before.
AcceptedConnectReturns ==
  \A c \in Clients :
    sock["server"][c] = "WAIT_ESTABLISHED" ~>
      app["client"][c] \notin {"dispatch", "establish"} \/ down # {}

(***************************************************************************)
(* What a comment of the code says, and the code does not do.              *)
(***************************************************************************)

\* nts_connect takes DISPATCHED, then ESTABLISH: the connect handler sends the
\* SYN before DISPATCHED, and the receive thread may answer ESTABLISH between.
DispatchedFirst ==
  \A c \in Clients :
    app["client"][c] = "dispatch" /\ ring["client"][c] # <<>>
      => Head(ring["client"][c]) # "establish"
===========================================================================
