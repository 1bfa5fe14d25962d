------------------------------- MODULE NtpConn -------------------------------
(***************************************************************************)
(* ntb-proxy: the life of the connections of one partition.  Three threads *)
(* share them without a lock:                                              *)
(*   - the listener (ntm_ntp_receive_thread) creates a connection, puts it *)
(*     in the map port2conn and appends it to the partition's send list;   *)
(*   - the send thread walks the circular send list, forwards each         *)
(*     connection's messages, and removes and frees closed connections;    *)
(*   - the receive thread looks a packet's connection up in the map, or    *)
(*     uses the pointer it has from the packet before if the ports are     *)
(*     the same.                                                           *)
(* A connection object and its list node are one value here: they are      *)
(* allocated and freed together.  conn_id gives the port pair of an        *)
(* object.  What reads freed memory finds anything in it.                  *)
(***************************************************************************)
CONSTANTS Conns,   \* the connection objects
          Ports,   \* the port pairs
          conn_id, \* the port pair of each object
          ring_head, None

ASSUME ConnAssumption ==
    /\ conn_id \in [Conns -> Ports]
    /\ ring_head \notin Conns
    /\ None \notin Conns \cup Ports \cup {ring_head}

VARIABLES
    state,               \* conn->state; "none" and "freed" before and after its life
    port2conn,           \* the map
    next_node, ring_tail,\* the send list
    listener,            \* the listener's step and connection
    pre_node, curr_node, \* the send thread's place in the list
    send_pc,             \* its step
    recv_port, recv_conn,\* the receive thread's last ports and connection
    recv_pc,             \* its step
    acked                \* the connections NTM was told of (CREATE_CONN_ACK)

list == <<next_node, ring_tail>>
sendThread == <<pre_node, curr_node, send_pc>>
recvThread == <<recv_port, recv_conn, recv_pc>>
vars == <<state, port2conn, list, listener, sendThread, recvThread, acked>>

Nodes == Conns \cup {ring_head}
closed == {"ACTIVE_CLOSE", "PASSIVE_CLOSE"}

Init ==
    /\ state = [c \in Conns |-> "none"]
    /\ port2conn = [p \in Ports |-> None]
    /\ next_node = [n \in Nodes |-> ring_head]
    /\ ring_tail = ring_head
    /\ listener = [pc |-> "idle", conn |-> None]
    /\ pre_node = ring_head
    /\ curr_node = ring_head
    /\ send_pc = "walk"
    /\ recv_port = None
    /\ recv_conn = None
    /\ recv_pc = "poll"
    /\ acked = {}

-----------------------------------------------------------------------------
(* The listener: ntp_create_conn_handler.                                  *)

\* Put replaces an entry that is still there for the port pair; when the send
\* thread removes the former connection it removes the entry of the new one.
ntp_create_conn_handler(c) ==
    /\ listener.pc = "idle"
    /\ state[c] = "none"
    /\ state' = [state EXCEPT ![c] = "READY_CONN"]
    /\ port2conn' = [port2conn EXCEPT ![conn_id[c]] = c]
    /\ listener' = [pc |-> "link", conn |-> c]
    /\ UNCHANGED <<list, sendThread, recvThread, acked>>

LinkWithoutHead ==
    /\ listener.pc = "link"
    /\ next_node' = [next_node EXCEPT ![listener.conn] = listener.conn, ![ring_tail] = listener.conn]
    /\ listener' = [listener EXCEPT !.pc = "tail"]
    /\ UNCHANGED <<state, port2conn, ring_tail, sendThread, recvThread, acked>>

\* add_conn_to_ntb_send_list, up to ring_tail->next_node = list_node
Link ==
    /\ listener.pc = "link"
    /\ next_node' = [next_node EXCEPT ![listener.conn] = ring_head, ![ring_tail] = listener.conn]
    /\ listener' = [listener EXCEPT !.pc = "tail"]
    /\ UNCHANGED <<state, port2conn, ring_tail, sendThread, recvThread, acked>>

\* ring_tail = list_node, then ntp_create_conn_ack
SetTail ==
    /\ listener.pc = "tail"
    /\ ring_tail' = listener.conn
    /\ acked' = acked \cup {listener.conn}
    /\ listener' = [pc |-> "idle", conn |-> None]
    /\ UNCHANGED <<state, port2conn, next_node, sendThread, recvThread>>

-----------------------------------------------------------------------------
(* The send thread.                                                        *)

VisitHeadStays ==
    /\ send_pc = "walk"
    /\ next_node[pre_node] = ring_head
    /\ curr_node' = ring_head
    /\ UNCHANGED <<state, port2conn, list, listener, pre_node, send_pc, recvThread, acked>>

\* The head of the list is no connection.
VisitHead ==
    /\ send_pc = "walk"
    /\ next_node[pre_node] = ring_head
    /\ curr_node' = ring_head
    /\ pre_node' = ring_head
    /\ UNCHANGED <<state, port2conn, list, listener, send_pc, recvThread, acked>>

\* ntp_send_buff_data: the messages are data, or the last of them is the
\* application's NTP_FIN.
VisitReady(st) ==
    /\ send_pc = "walk"
    /\ next_node[pre_node] # ring_head
    /\ state[next_node[pre_node]] \notin closed
    /\ curr_node' = next_node[pre_node]
    /\ pre_node' = curr_node'
    /\ state' = [state EXCEPT ![curr_node'] = st]
    /\ UNCHANGED <<port2conn, list, listener, send_pc, recvThread, acked>>

VisitClosedKeepMapped ==
    /\ send_pc = "walk"
    /\ next_node[pre_node] # ring_head
    /\ state[next_node[pre_node]] \in closed
    /\ curr_node' = next_node[pre_node]
    /\ send_pc' = "unlink"
    /\ UNCHANGED <<state, port2conn, list, listener, pre_node, recvThread, acked>>

\* Remove(ntb_link->port2conn, &conn->conn_id)
VisitClosed ==
    /\ send_pc = "walk"
    /\ next_node[pre_node] # ring_head
    /\ state[next_node[pre_node]] \in closed
    /\ curr_node' = next_node[pre_node]
    /\ port2conn' = [port2conn EXCEPT ![conn_id[curr_node']] = None]
    /\ send_pc' = "unlink"
    /\ UNCHANGED <<state, list, listener, pre_node, recvThread, acked>>

UnlinkTwo ==
    /\ send_pc = "unlink"
    /\ next_node' = [next_node EXCEPT ![pre_node] = next_node[next_node[curr_node]]]
    /\ send_pc' = "tail"
    /\ UNCHANGED <<state, port2conn, ring_tail, listener, pre_node, curr_node, recvThread, acked>>

Unlink ==
    /\ send_pc = "unlink"
    /\ next_node' = [next_node EXCEPT ![pre_node] = next_node[curr_node]]
    /\ send_pc' = "tail"
    /\ UNCHANGED <<state, port2conn, ring_tail, listener, pre_node, curr_node, recvThread, acked>>

FixTail ==
    /\ send_pc = "tail"
    /\ ring_tail' = IF curr_node = ring_tail THEN pre_node ELSE ring_tail
    /\ send_pc' = "free"
    /\ UNCHANGED <<state, port2conn, next_node, listener, pre_node, curr_node, recvThread, acked>>

\* Both shared-memory channels are closed and destroyed, the memory freed.
Free ==
    /\ send_pc = "free"
    /\ state' = [state EXCEPT ![curr_node] = "freed"]
    /\ send_pc' = "walk"
    /\ UNCHANGED <<port2conn, list, listener, pre_node, curr_node, recvThread, acked>>

-----------------------------------------------------------------------------
(* The receive thread: the part of ntp_recv_data_to_buf that concerns the  *)
(* connection.  A packet for no connection or a closed one is dropped.     *)

Lookup(p) ==
    /\ recv_pc = "poll"
    /\ recv_port' = p
    /\ recv_conn' = IF recv_port = p THEN recv_conn ELSE port2conn[p]
    /\ recv_pc' \in IF recv_conn' = None THEN {"poll"}
                    ELSE IF state[recv_conn'] = "freed" THEN {"poll", "deliver"}
                    ELSE IF state[recv_conn'] \in closed THEN {"poll"} ELSE {"deliver"}
    /\ UNCHANGED <<state, port2conn, list, listener, sendThread, acked>>

\* The message goes to the connection's receive ring.
DeliverData ==
    /\ recv_pc = "deliver"
    /\ recv_pc' = "poll"
    /\ UNCHANGED <<state, port2conn, list, listener, sendThread, recv_port, recv_conn, acked>>

\* The FIN goes there too, and conn->state becomes PASSIVE_CLOSE.
DeliverFin ==
    /\ recv_pc = "deliver"
    /\ state' = [state EXCEPT ![recv_conn] = IF @ = "freed" THEN @ ELSE "PASSIVE_CLOSE"]
    /\ recv_pc' = "poll"
    /\ UNCHANGED <<port2conn, list, listener, sendThread, recv_port, recv_conn, acked>>

-----------------------------------------------------------------------------

Listener == Link \/ SetTail \/ \E c \in Conns : ntp_create_conn_handler(c)

SendThread ==
    \/ VisitHead \/ VisitClosed \/ Unlink \/ FixTail \/ Free
    \/ \E st \in {"READY_CONN", "ACTIVE_CLOSE"} : VisitReady(st)

RecvThread == DeliverData \/ DeliverFin \/ \E p \in Ports : Lookup(p)

Next == Listener \/ SendThread \/ RecvThread

Spec == Init /\ [][Next]_vars

\* The send thread has a core of its own.  A visit ends as long as the waits of
\* ntpacket_enqueue for the data ring do (NtbDataLink, SenderUnblocked).
FairSpec == Spec /\ WF_vars(SendThread)

-----------------------------------------------------------------------------

\* The pointers are to nodes and connections, the states those of the code.
TypeOK ==
    /\ state \in [Conns -> {"none", "READY_CONN", "freed"} \cup closed]
    /\ port2conn \in [Ports -> Conns \cup {None}]
    /\ next_node \in [Nodes -> Nodes] /\ ring_tail \in Nodes
    /\ listener \in [pc : {"idle", "link", "tail"}, conn : Conns \cup {None}]
    /\ pre_node \in Nodes /\ curr_node \in Nodes
    /\ send_pc \in {"walk", "unlink", "tail", "free"}
    /\ recv_port \in Ports \cup {None} /\ recv_conn \in Conns \cup {None}
    /\ recv_pc \in {"poll", "deliver"}
    /\ acked \subseteq Conns

\* What a walk along the links f comes past on its way round from the head: the
\* least set that holds the head and that f does not lead out of.
WalkOf(f) ==
    {n \in Nodes :
        \A S \in SUBSET Nodes : ring_head \in S /\ (\A m \in S : f[m] \in S) => n \in S}

\* What the send thread comes past.
Walk == WalkOf(next_node)

\* The map holds no freed connection: a lookup finds a live one or none.
MapHoldsLive == \A p \in Ports : port2conn[p] # None => state[port2conn[p]] # "freed"

\* The send thread's walk comes back to the head, whatever the listener appends
\* meanwhile, and never meets a freed node.
WalkIsLive ==
    /\ \E n \in Walk : next_node[n] = ring_head
    /\ \A n \in Walk \ {ring_head} : state[n] # "freed"

\* A connection leaves the send list only after it was closed: removing a
\* neighbour does not take it away.
RemovesOnlyClosed ==
    [][\A c \in Walk \ Walk' : state[c] \in closed]_vars

\* A closed connection that is on the list is removed and freed.
ClosedAreFreed ==
    \A c \in Conns : (c \in Walk /\ state[c] \in closed) ~> state[c] = "freed"

\* The connection that the receive thread delivers a packet to was not freed
\* since the thread looked it up, nor since an earlier packet looked it up.
RecvConnLive == recv_pc = "deliver" => state[recv_conn] # "freed"

-----------------------------------------------------------------------------
(* Why the list works without a lock.                                      *)

\* The map points only to connections that the send thread has not begun to
\* remove.
MapState ==
    /\ \A p \in Ports : port2conn[p] # None =>
           conn_id[port2conn[p]] = p /\ state[port2conn[p]] \notin {"none", "freed"}
    /\ send_pc # "walk" =>
           /\ curr_node \in Conns /\ state[curr_node] # "none"
           /\ send_pc = "unlink" => state[curr_node] \in closed
           /\ port2conn[conn_id[curr_node]] # curr_node

\* The threads hold connections where the code dereferences them.
ThreadState ==
    /\ listener.pc # "idle" => listener.conn \in Conns /\ state[listener.conn] # "none"
    /\ listener.pc = "link" => state[listener.conn] # "freed"
    /\ recv_pc = "deliver" => recv_conn \in Conns

\* Nothing leads to an object before the listener links it.
Unlinked(c) ==
    /\ ring_tail # c
    /\ send_pc # "walk" => curr_node # c
    /\ \A n \in Nodes : next_node[n] # c

\* No two nodes of the walk lead to the same one.
SimpleWalk(f) == \A m, n \in WalkOf(f) : f[m] = f[n] => m = n

\* The node linked last; ring_tail once the listener is done with it.
LastNode == IF listener.pc = "tail" THEN listener.conn ELSE ring_tail

\* The walk is a simple cycle of live connections.  The listener appends at
\* its end, or behind a node that is no longer on it; the send thread stands
\* on it with the node before the one it removes.
ListState ==
    /\ \A n \in Walk \ {ring_head} : state[n] \notin {"none", "freed"}
    /\ SimpleWalk(next_node)
    /\ \E n \in Walk : next_node[n] = ring_head
    /\ \A c \in Conns : state[c] = "none" => Unlinked(c)
    /\ listener.pc = "link" => Unlinked(listener.conn)
    /\ LastNode \in Walk => next_node[LastNode] = ring_head
    /\ pre_node \in Walk
    /\ send_pc = "unlink" => next_node[pre_node] = curr_node
    /\ send_pc \in {"tail", "free"} => curr_node \notin Walk
    /\ send_pc = "tail" /\ LastNode = curr_node => next_node[pre_node] = ring_head

IndInv == TypeOK /\ MapState /\ ThreadState /\ ListState
=============================================================================
