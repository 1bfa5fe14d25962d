--------------------------- MODULE NtpConnProofs ---------------------------
(***************************************************************************)
(* Proofs about NtpConn for every set of connections, port pairs and       *)
(* assignment of port pairs: the map and the send list that three threads  *)
(* share without a lock.                                                   *)
(***************************************************************************)
EXTENDS NtpConn, TLAPS

\* The walk holds the head and follows the links.
LEMMA WalkFollows ==
    ASSUME NEW f \in [Nodes -> Nodes]
    PROVE  /\ ring_head \in WalkOf(f)
           /\ WalkOf(f) \subseteq Nodes
           /\ \A n \in WalkOf(f) : f[n] \in WalkOf(f)
  BY DEF WalkOf, Nodes

\* It is the least such set.
LEMMA WalkLeast ==
    ASSUME NEW f, NEW S \in SUBSET Nodes, ring_head \in S, \A n \in S : f[n] \in S
    PROVE  WalkOf(f) \subseteq S
  BY DEF WalkOf

\* Appending c behind t: the walk gains c if t is its last node, and does not
\* change if t is not on it.
LEMMA WalkAppend ==
    ASSUME NEW f \in [Nodes -> Nodes], NEW c \in Conns, NEW t \in Nodes, t # c,
           \A n \in Nodes : f[n] # c,
           t \in WalkOf(f) => f[t] = ring_head,
           NEW g, g = [f EXCEPT ![c] = ring_head, ![t] = c]
    PROVE  /\ c \notin WalkOf(f)
           /\ WalkOf(g) = IF t \in WalkOf(f) THEN WalkOf(f) \cup {c} ELSE WalkOf(f)
<1> DEFINE V == WalkOf(f)
           W == WalkOf(g)
<1>0. c \in Nodes /\ c # ring_head /\ ring_head \in Nodes
  BY ConnAssumption DEF Nodes
<1>1. /\ g \in [Nodes -> Nodes] /\ g[c] = ring_head /\ g[t] = c
      /\ \A n \in Nodes : n # c /\ n # t => g[n] = f[n]
  BY <1>0
<1>2. ring_head \in V /\ V \subseteq Nodes /\ \A n \in V : f[n] \in V
  BY WalkFollows
<1>3. ring_head \in W /\ W \subseteq Nodes /\ \A n \in W : g[n] \in W
  BY <1>1, WalkFollows
<1>a. \A S \in SUBSET Nodes : ring_head \in S /\ (\A n \in S : f[n] \in S) => V \subseteq S
  BY WalkLeast
<1>b. \A S \in SUBSET Nodes : ring_head \in S /\ (\A n \in S : g[n] \in S) => W \subseteq S
  BY WalkLeast
<1> HIDE DEF V, W
<1>4. c \notin V
  <2>1. ring_head \in V \ {c} /\ V \ {c} \in SUBSET Nodes /\ \A n \in V \ {c} : f[n] \in V \ {c}
    BY <1>0, <1>2
  <2>2. V \subseteq V \ {c}
    BY <2>1, <1>a, Zenon
  <2>3. QED
    BY <2>2
<1>5. CASE t \in V
  <2>1. W \subseteq V \cup {c}
    <3>1. \A n \in V \cup {c} : g[n] \in V \cup {c}
      BY <1>0, <1>1, <1>2
    <3>2. V \cup {c} \in SUBSET Nodes /\ ring_head \in V \cup {c}
      BY <1>0, <1>2
    <3>3. QED
      BY <1>b, <3>1, <3>2, Zenon
  <2>2. t \in W
    <3> SUFFICES ASSUME t \notin W PROVE FALSE
      OBVIOUS
    <3>1. \A n \in W \ {c} : f[n] \in W \ {c}
      BY <1>1, <1>3
    <3>2. W \ {c} \in SUBSET Nodes /\ ring_head \in W \ {c}
      BY <1>0, <1>3
    <3>3. V \subseteq W \ {c}
      BY <1>a, <3>1, <3>2, Zenon
    <3>4. QED
      BY <1>5, <3>3
  <2>3. c \in W
    BY <2>2, <1>1, <1>3
  <2>4. V \subseteq W
    <3>1. \A n \in W \ {c} : f[n] \in W \ {c}
      BY <1>0, <1>1, <1>3, <1>5 DEF V
    <3>2. W \ {c} \in SUBSET Nodes /\ ring_head \in W \ {c}
      BY <1>0, <1>3
    <3>3. V \subseteq W \ {c}
      BY <1>a, <3>1, <3>2, Zenon
    <3>4. QED
      BY <3>3
  <2>5. QED
    BY <1>4, <1>5, <2>1, <2>3, <2>4 DEF V, W
<1>6. CASE t \notin V
  <2>1. W \subseteq V
    <3>1. \A n \in V : g[n] \in V
      BY <1>1, <1>2, <1>4, <1>6
    <3>2. QED
      BY <1>2, <1>b, <3>1
  <2>2. V \subseteq W
    <3>1. \A n \in W : f[n] \in W
      BY <1>1, <1>2, <1>3, <1>4, <1>6, <2>1
    <3>2. QED
      BY <1>3, <1>a, <3>1
  <2>3. QED
    BY <1>4, <1>6, <2>1, <2>2 DEF V, W
<1>7. QED
  BY <1>5, <1>6

\* Removing the node c behind p from a walk that is a simple cycle takes away c
\* and nothing else.
LEMMA WalkRemove ==
    ASSUME NEW f \in [Nodes -> Nodes], NEW p \in Nodes, NEW c \in Nodes,
           p \in WalkOf(f), c = f[p], c # ring_head,
           SimpleWalk(f),
           NEW g \in [Nodes -> Nodes], g[p] = f[c],
           \A n \in Nodes : n # p => g[n] = f[n]
    PROVE  /\ WalkOf(g) = WalkOf(f) \ {c}
           /\ c \in WalkOf(f) /\ p # c /\ f[c] # c
<1> DEFINE V == WalkOf(f)
           W == WalkOf(g)
<1>2. ring_head \in V /\ V \subseteq Nodes /\ \A n \in V : f[n] \in V
  BY WalkFollows
<1>0. c \in V /\ c \in Nodes /\ p \in Nodes /\ f[c] \in V /\ f[c] \in Nodes
  BY <1>2
<1>1. g \in [Nodes -> Nodes] /\ g[p] = f[c] /\ \A n \in Nodes : n # p => g[n] = f[n]
  BY <1>0
<1>3. ring_head \in W /\ W \subseteq Nodes /\ \A n \in W : g[n] \in W
  BY <1>1, WalkFollows
<1>a. \A S \in SUBSET Nodes : ring_head \in S /\ (\A n \in S : f[n] \in S) => V \subseteq S
  BY WalkLeast
<1>b. \A S \in SUBSET Nodes : ring_head \in S /\ (\A n \in S : g[n] \in S) => W \subseteq S
  BY WalkLeast
<1>c. p \in V /\ \A m, n \in V : f[m] = f[n] => m = n
  BY DEF SimpleWalk
<1> HIDE DEF V, W
<1>4. p # c
  <2> SUFFICES ASSUME p = c PROVE FALSE
    OBVIOUS
  <2>1. \A n \in V \ {p} : f[n] \in V \ {p}
    BY <1>2, <1>c
  <2>2. V \ {p} \in SUBSET Nodes /\ ring_head \in V \ {p}
    BY <1>2
  <2>3. V \subseteq V \ {p}
    BY <1>a, <2>1, <2>2, Zenon
  <2>4. QED
    BY <1>c, <2>3
<1>5. f[c] # c
  BY <1>0, <1>4, <1>c
<1>6. W \subseteq V \ {c}
  <2>1. \A n \in V \ {c} : g[n] \in V \ {c}
    BY <1>0, <1>1, <1>2, <1>5, <1>c
  <2>2. V \ {c} \in SUBSET Nodes /\ ring_head \in V \ {c}
    BY <1>2
  <2>3. QED
    BY <1>b, <2>1, <2>2, Zenon
<1>7. p \in W
  <2> SUFFICES ASSUME p \notin W PROVE FALSE
    OBVIOUS
  <2>1. \A n \in W : f[n] \in W
    BY <1>1, <1>3
  <2>2. V \subseteq W
    BY <1>3, <1>a, <2>1
  <2>3. QED
    BY <1>c, <2>2
<1>8. V \subseteq W \cup {c}
  <2>1. \A n \in W \cup {c} : f[n] \in W \cup {c}
    BY <1>1, <1>3, <1>7
  <2>2. W \cup {c} \in SUBSET Nodes /\ ring_head \in W \cup {c}
    BY <1>0, <1>3
  <2>3. QED
    BY <1>a, <2>1, <2>2, Zenon
<1>9. QED
  BY <1>0, <1>4, <1>5, <1>6, <1>8 DEF V, W

-----------------------------------------------------------------------------
(* The inductive invariant, action by action.                              *)

\* It holds when the partition starts with an empty list.
LEMMA InitEstablishes == Init => IndInv
<1> SUFFICES ASSUME Init PROVE IndInv
  OBVIOUS
<1> USE DEF Init
<1>1. TypeOK
  BY DEF TypeOK, Nodes, closed
<1>2. MapState /\ ThreadState
  BY DEF MapState, ThreadState
<1>3. ring_head \in Walk /\ Walk \subseteq {ring_head}
  <2>1. next_node \in [Nodes -> Nodes] /\ ring_head \in Nodes /\ next_node[ring_head] = ring_head
    BY DEF Nodes
  <2>2. {ring_head} \in SUBSET Nodes /\ \A n \in {ring_head} : next_node[n] \in {ring_head}
    BY <2>1
  <2>3. QED
    BY <2>1, <2>2, WalkFollows, WalkLeast DEF Walk
<1>4. ListState
  BY <1>3, ConnAssumption DEF ListState, Unlinked, Nodes, SimpleWalk, Walk
<1>5. QED
  BY <1>1, <1>2, <1>4 DEF IndInv

\* The facts about the walk that every action's proof starts from.
LEMMA WalkFacts ==
    ASSUME TypeOK
    PROVE  /\ next_node \in [Nodes -> Nodes]
           /\ ring_head \in Walk /\ Walk \subseteq Nodes
           /\ \A n \in Walk : next_node[n] \in Walk
           /\ ring_head \notin Conns /\ Nodes = Conns \cup {ring_head}
  BY WalkFollows, ConnAssumption DEF TypeOK, Walk, Nodes

\* What an append does to the list.
LEMMA LinkStep ==
    ASSUME IndInv, Link
    PROVE  /\ listener.conn \notin Walk
           /\ Walk' = IF ring_tail \in Walk THEN Walk \cup {listener.conn} ELSE Walk
<1> DEFINE c == listener.conn
<1>1. c \in Conns /\ Unlinked(c)
  BY DEF Link, IndInv, ThreadState, ListState
<1>2. ring_tail \in Walk => next_node[ring_tail] = ring_head
  BY DEF Link, IndInv, ListState, LastNode
<1>3. /\ next_node \in [Nodes -> Nodes] /\ c \in Conns /\ ring_tail \in Nodes /\ ring_tail # c
      /\ \A n \in Nodes : next_node[n] # c
      /\ ring_tail \in WalkOf(next_node) => next_node[ring_tail] = ring_head
      /\ next_node' = [next_node EXCEPT ![c] = ring_head, ![ring_tail] = c]
  BY <1>1, <1>2 DEF Link, IndInv, TypeOK, Unlinked, Walk
<1> HIDE DEF c
<1>4. /\ c \notin WalkOf(next_node)
      /\ WalkOf(next_node') = IF ring_tail \in WalkOf(next_node)
                              THEN WalkOf(next_node) \cup {c} ELSE WalkOf(next_node)
  BY <1>3, WalkAppend
<1>5. QED
  BY <1>4 DEF Walk, c

\* The listener.
LEMMA ListenerKeepsInvariant == IndInv /\ Listener => IndInv'
<1> SUFFICES ASSUME IndInv, Listener PROVE IndInv'
  OBVIOUS
<1>t. TypeOK /\ MapState /\ ThreadState /\ ListState
  BY DEF IndInv
<1>w. /\ next_node \in [Nodes -> Nodes]
      /\ ring_head \in Walk /\ Walk \subseteq Nodes
      /\ \A n \in Walk : next_node[n] \in Walk
      /\ ring_head \notin Conns /\ Nodes = Conns \cup {ring_head}
  BY <1>t, WalkFacts
<1>1. ASSUME NEW c \in Conns, ntp_create_conn_handler(c)
      PROVE  IndInv'
  <2>1. /\ listener.pc = "idle" /\ state[c] = "none"
        /\ state' = [state EXCEPT ![c] = "READY_CONN"]
        /\ port2conn' = [port2conn EXCEPT ![conn_id[c]] = c]
        /\ listener' = [pc |-> "link", conn |-> c]
        /\ UNCHANGED <<next_node, ring_tail, pre_node, curr_node, send_pc, recv_port, recv_conn,
                       recv_pc, acked>>
    BY <1>1 DEF ntp_create_conn_handler, list, sendThread, recvThread
  <2>2. conn_id[c] \in Ports
    BY ConnAssumption
  <2>3. TypeOK'
    BY <1>t, <2>1, <2>2 DEF TypeOK
  <2>4. MapState'
    <3>1. send_pc # "walk" => curr_node # c
      BY <1>t, <2>1 DEF MapState
    <3>2. \A p \in Ports : port2conn'[p] # None =>
              conn_id[port2conn'[p]] = p /\ state'[port2conn'[p]] \notin {"none", "freed"}
      BY <1>t, <2>1, <2>2 DEF MapState, TypeOK
    <3>3. send_pc # "walk" => /\ curr_node \in Conns /\ state'[curr_node] # "none"
                              /\ send_pc = "unlink" => state'[curr_node] \in closed
                              /\ port2conn'[conn_id[curr_node]] # curr_node
      BY <1>t, <2>1, <3>1, ConnAssumption DEF MapState, TypeOK
    <3>4. curr_node' = curr_node /\ send_pc' = send_pc
      BY <2>1
    <3>5. QED
      BY <3>2, <3>3, <3>4, Zenon DEF MapState
  <2>5. ThreadState'
    BY <1>t, <2>1 DEF ThreadState, TypeOK
  <2>6. Walk' = Walk
    BY <2>1 DEF Walk
  <2>7. \A x \in Conns : Unlinked(x)' = Unlinked(x)
    BY <2>1 DEF Unlinked
  <2>8. c \notin Walk
    BY <1>t, <1>w, <2>1 DEF ListState
  <2>9. ListState'
    BY <1>t, <1>w, <2>1, <2>6, <2>7, <2>8 DEF ListState, TypeOK, LastNode
  <2>10. QED
    BY <2>3, <2>4, <2>5, <2>9 DEF IndInv
<1>2. CASE Link
  <2> DEFINE c == listener.conn
  <2>1. /\ listener.pc = "link"
        /\ next_node' = [next_node EXCEPT ![c] = ring_head, ![ring_tail] = c]
        /\ listener' = [listener EXCEPT !.pc = "tail"]
        /\ UNCHANGED <<state, port2conn, ring_tail, pre_node, curr_node, send_pc, recv_port,
                       recv_conn, recv_pc, acked>>
    BY <1>2 DEF Link, sendThread, recvThread
  <2>2. c \in Conns /\ state[c] \notin {"none", "freed"} /\ Unlinked(c)
    BY <1>t, <2>1 DEF ThreadState, ListState
  <2>3. listener'.pc = "tail" /\ listener'.conn = c
    BY <1>t, <2>1 DEF TypeOK
  <2>4. TypeOK'
    BY <1>t, <1>w, <2>1, <2>2 DEF TypeOK
  <2>5. MapState'
    BY <1>t, <2>1 DEF MapState
  <2>6. ThreadState'
    BY <1>t, <2>1, <2>2, <2>3 DEF ThreadState
  <2>7. ring_tail \in Nodes /\ ring_tail # c /\ \A n \in Nodes : next_node[n] # c
    BY <1>t, <2>2 DEF TypeOK, Unlinked
  <2>8. ring_tail \in Walk => next_node[ring_tail] = ring_head
    BY <1>t, <2>1 DEF ListState, LastNode
  <2>9. /\ c \notin Walk
        /\ Walk' = IF ring_tail \in Walk THEN Walk \cup {c} ELSE Walk
    BY <1>2, LinkStep
  <2>10. /\ next_node'[c] = ring_head /\ next_node'[ring_tail] = c
         /\ \A n \in Nodes : n # c /\ n # ring_tail => next_node'[n] = next_node[n]
    BY <1>w, <2>1, <2>2, <2>7
  <2>11. /\ \A n \in Walk' \ {ring_head} : state[n] \notin {"none", "freed"}
         /\ pre_node \in Walk'
         /\ c \in Walk' => next_node'[c] = ring_head
    BY <1>t, <2>2, <2>9, <2>10 DEF ListState
  <2>12. \A m, n \in Walk' : next_node'[m] = next_node'[n] => m = n
    BY <1>t, <1>w, <2>7, <2>8, <2>9, <2>10 DEF ListState, SimpleWalk, Walk
  <2>13. \E n \in Walk' : next_node'[n] = ring_head
    BY <1>t, <1>w, <2>9, <2>10 DEF ListState
  <2>14. \A x \in Conns : state[x] = "none" => Unlinked(x)'
    BY <1>t, <1>w, <2>1, <2>2, <2>10 DEF ListState, Unlinked
  <2>15. send_pc = "unlink" => next_node'[pre_node] = curr_node
    <3>1. ASSUME send_pc = "unlink" PROVE pre_node # ring_tail /\ pre_node # c
      BY <1>t, <1>w, <2>1, <2>8, <2>9, <3>1 DEF ListState, MapState
    <3>2. QED
      BY <1>t, <1>w, <2>10, <3>1 DEF ListState
  <2>16. send_pc \in {"tail", "free"} => curr_node \notin Walk'
    BY <1>t, <2>2, <2>9 DEF ListState, Unlinked
  <2>17. LastNode' = c /\ (send_pc = "tail" => curr_node # c)
    BY <2>2, <2>3 DEF LastNode, Unlinked
  <2>18. ListState'
    BY <2>1, <2>3, <2>11, <2>12, <2>13, <2>14, <2>15, <2>16, <2>17 DEF ListState, SimpleWalk, Walk
  <2>19. QED
    BY <2>4, <2>5, <2>6, <2>18 DEF IndInv
<1>3. CASE SetTail
  <2>1. /\ listener.pc = "tail" /\ ring_tail' = listener.conn
        /\ acked' = acked \cup {listener.conn}
        /\ listener' = [pc |-> "idle", conn |-> None]
        /\ UNCHANGED <<state, port2conn, next_node, pre_node, curr_node, send_pc, recv_port,
                       recv_conn, recv_pc>>
    BY <1>3 DEF SetTail, sendThread, recvThread
  <2>2. listener.conn \in Conns /\ state[listener.conn] # "none"
    BY <1>t, <2>1 DEF ThreadState
  <2>3. TypeOK'
    BY <1>t, <1>w, <2>1, <2>2 DEF TypeOK
  <2>4. MapState' /\ ThreadState'
    BY <1>t, <2>1 DEF MapState, ThreadState
  <2>5. Walk' = Walk
    BY <2>1 DEF Walk
  <2>6. \A x \in Conns : state[x] = "none" => Unlinked(x)'
    BY <1>t, <2>1, <2>2 DEF ListState, Unlinked
  <2>7. ListState'
    BY <1>t, <2>1, <2>2, <2>5, <2>6 DEF ListState, LastNode
  <2>8. QED
    BY <2>3, <2>4, <2>7 DEF IndInv
<1>4. QED
  BY <1>1, <1>2, <1>3 DEF Listener

\* What a removal does to the list.
LEMMA UnlinkStep ==
    ASSUME IndInv, Unlink
    PROVE  /\ Walk' = Walk \ {curr_node} /\ curr_node \in Walk /\ pre_node # curr_node
           /\ curr_node \in Conns /\ next_node[curr_node] # curr_node
           /\ next_node'[pre_node] = next_node[curr_node]
           /\ \A n \in Nodes : n # pre_node => next_node'[n] = next_node[n]
           /\ next_node' \in [Nodes -> Nodes]
<1>1. /\ next_node \in [Nodes -> Nodes] /\ pre_node \in WalkOf(next_node)
      /\ curr_node = next_node[pre_node] /\ curr_node # ring_head
      /\ SimpleWalk(next_node)
      /\ next_node' \in [Nodes -> Nodes] /\ next_node'[pre_node] = next_node[curr_node]
      /\ \A n \in Nodes : n # pre_node => next_node'[n] = next_node[n]
      /\ curr_node \in Conns
      /\ pre_node \in Nodes /\ curr_node \in Nodes
  BY ConnAssumption DEF IndInv, TypeOK, MapState, ListState, Unlink, Walk
<1>2. /\ WalkOf(next_node') = WalkOf(next_node) \ {curr_node}
      /\ curr_node \in WalkOf(next_node) /\ pre_node # curr_node
      /\ next_node[curr_node] # curr_node
  BY <1>1, WalkRemove
<1>3. QED
  BY <1>1, <1>2 DEF Walk

\* The send thread.
LEMMA SendKeepsInvariant == IndInv /\ SendThread => IndInv'
<1> SUFFICES ASSUME IndInv, SendThread PROVE IndInv'
  OBVIOUS
<1>t. TypeOK /\ MapState /\ ThreadState /\ ListState
  BY DEF IndInv
<1>w. /\ next_node \in [Nodes -> Nodes]
      /\ ring_head \in Walk /\ Walk \subseteq Nodes
      /\ \A n \in Walk : next_node[n] \in Walk
      /\ ring_head \notin Conns /\ Nodes = Conns \cup {ring_head}
  BY <1>t, WalkFacts
<1>1. CASE VisitHead
  <2>1. /\ send_pc = "walk" /\ curr_node' = ring_head /\ pre_node' = ring_head
        /\ UNCHANGED <<state, port2conn, next_node, ring_tail, listener, send_pc, recv_port,
                       recv_conn, recv_pc, acked>>
    BY <1>1 DEF VisitHead, list, recvThread
  <2>2. TypeOK'
    BY <1>t, <1>w, <2>1 DEF TypeOK
  <2>3. MapState' /\ ThreadState'
    BY <1>t, <2>1 DEF MapState, ThreadState
  <2>4. Walk' = Walk /\ LastNode' = LastNode /\ \A x \in Conns : Unlinked(x) => Unlinked(x)'
    BY <2>1 DEF Walk, LastNode, Unlinked
  <2>5. ListState'
    BY <1>t, <1>w, <2>1, <2>4 DEF ListState, ThreadState
  <2>6. QED
    BY <2>2, <2>3, <2>5 DEF IndInv
<1>2. ASSUME NEW st \in {"READY_CONN", "ACTIVE_CLOSE"}, VisitReady(st)
      PROVE  IndInv'
  <2> DEFINE c == next_node[pre_node]
  <2>1. /\ send_pc = "walk" /\ c # ring_head /\ curr_node' = c /\ pre_node' = c
        /\ state' = [state EXCEPT ![c] = st]
        /\ UNCHANGED <<port2conn, next_node, ring_tail, listener, send_pc, recv_port,
                       recv_conn, recv_pc, acked>>
    BY <1>2 DEF VisitReady, list, recvThread
  <2>2. c \in Walk /\ c \in Conns
    BY <1>t, <1>w, <2>1 DEF ListState
  <2>3. TypeOK'
    BY <1>t, <1>w, <2>1, <2>2 DEF TypeOK, closed
  <2>4. MapState'
    BY <1>t, <2>1, <2>2 DEF MapState, TypeOK
  <2>5. ThreadState'
    BY <1>t, <2>1, <2>2 DEF ThreadState, TypeOK
  <2>6. Walk' = Walk /\ LastNode' = LastNode /\ \A x \in Conns : Unlinked(x) => Unlinked(x)'
    BY <2>1 DEF Walk, LastNode, Unlinked
  <2>7. ListState'
    BY <1>t, <1>w, <2>1, <2>2, <2>6 DEF ListState, ThreadState, TypeOK
  <2>8. QED
    BY <2>3, <2>4, <2>5, <2>7 DEF IndInv
<1>3. CASE VisitClosed
  <2> DEFINE c == next_node[pre_node]
  <2>1. /\ send_pc = "walk" /\ send_pc' = "unlink" /\ c # ring_head /\ curr_node' = c
        /\ state[c] \in closed
        /\ port2conn' = [port2conn EXCEPT ![conn_id[c]] = None]
        /\ UNCHANGED <<state, next_node, ring_tail, listener, pre_node, recv_port,
                       recv_conn, recv_pc, acked>>
    BY <1>3 DEF VisitClosed, list, recvThread
  <2>2. c \in Walk /\ c \in Conns /\ conn_id[c] \in Ports /\ c # None
    BY <1>t, <1>w, <2>1, ConnAssumption DEF ListState
  <2>3. TypeOK'
    BY <1>t, <1>w, <2>1, <2>2 DEF TypeOK
  <2>4. MapState'
    BY <1>t, <2>1, <2>2 DEF MapState, TypeOK, closed
  <2>5. ThreadState'
    BY <1>t, <2>1 DEF ThreadState
  <2>6. Walk' = Walk /\ LastNode' = LastNode
    BY <2>1 DEF Walk, LastNode
  <2>7. \A x \in Conns : Unlinked(x) => Unlinked(x)'
    BY <1>t, <2>1, <2>2 DEF Unlinked, TypeOK
  <2>8. ListState'
    BY <1>t, <1>w, <2>1, <2>2, <2>6, <2>7 DEF ListState, ThreadState
  <2>9. QED
    BY <2>3, <2>4, <2>5, <2>8 DEF IndInv
<1>4. CASE Unlink
  <2>1. /\ send_pc = "unlink" /\ send_pc' = "tail"
        /\ UNCHANGED <<state, port2conn, ring_tail, listener, pre_node, curr_node, recv_port,
                       recv_conn, recv_pc, acked>>
    BY <1>4 DEF Unlink, recvThread
  <2>2. /\ Walk' = Walk \ {curr_node} /\ curr_node \in Walk /\ pre_node # curr_node
        /\ curr_node \in Conns /\ next_node[curr_node] # curr_node
        /\ next_node'[pre_node] = next_node[curr_node]
        /\ \A n \in Nodes : n # pre_node => next_node'[n] = next_node[n]
        /\ next_node' \in [Nodes -> Nodes]
    BY <1>4, UnlinkStep
  <2>3. pre_node \in Walk /\ next_node[pre_node] = curr_node
        /\ \A m, n \in Walk : next_node[m] = next_node[n] => m = n
    BY <1>t, <2>1 DEF ListState, SimpleWalk, Walk
  <2>4. TypeOK'
    BY <1>t, <2>1, <2>2 DEF TypeOK
  <2>5. MapState' /\ ThreadState'
    BY <1>t, <2>1 DEF MapState, ThreadState
  <2>6. LastNode' = LastNode
    BY <2>1 DEF LastNode
  <2>7. \A x \in Conns : Unlinked(x) => Unlinked(x)'
    BY <1>w, <2>1, <2>2 DEF Unlinked
  <2>8. /\ \A n \in Walk' \ {ring_head} : state[n] \notin {"none", "freed"}
        /\ pre_node \in Walk'
        /\ LastNode \in Walk' => next_node'[LastNode] = ring_head
        /\ LastNode = curr_node => next_node'[pre_node] = ring_head
    BY <1>t, <1>w, <2>2, <2>3 DEF ListState
  <2>9. \A m, n \in Walk' : next_node'[m] = next_node'[n] => m = n
    BY <1>w, <2>2, <2>3
  <2>10. \E n \in Walk' : next_node'[n] = ring_head
    <3>1. PICK n \in Walk : next_node[n] = ring_head
      BY <1>t DEF ListState
    <3>2. CASE n = curr_node
      BY <2>2, <2>8, <3>1, <3>2
    <3>3. CASE n # curr_node
      BY <1>w, <2>2, <2>3, <3>1, <3>3
    <3>4. QED
      BY <3>2, <3>3
  <2>11. ListState'
    BY <1>t, <2>1, <2>2, <2>6, <2>7, <2>8, <2>9, <2>10 DEF ListState, ThreadState, SimpleWalk, Walk
  <2>12. QED
    BY <2>4, <2>5, <2>11 DEF IndInv
<1>5. CASE FixTail
  <2>1. /\ send_pc = "tail" /\ send_pc' = "free"
        /\ ring_tail' = IF curr_node = ring_tail THEN pre_node ELSE ring_tail
        /\ UNCHANGED <<state, port2conn, next_node, listener, pre_node, curr_node, recv_port,
                       recv_conn, recv_pc, acked>>
    BY <1>5 DEF FixTail, recvThread
  <2>2. TypeOK'
    BY <1>t, <2>1 DEF TypeOK
  <2>3. MapState' /\ ThreadState'
    BY <1>t, <2>1 DEF MapState, ThreadState
  <2>4. Walk' = Walk
    BY <2>1 DEF Walk
  <2>5. ASSUME NEW x \in Conns, Unlinked(x), x \notin Walk
        PROVE  Unlinked(x)'
    BY <1>t, <2>1, <2>5 DEF Unlinked, ListState
  <2>6. \A x \in Conns : Unlinked(x) => x \notin Walk
    <3> SUFFICES ASSUME NEW x \in Conns, Unlinked(x) PROVE x \notin Walk
      OBVIOUS
    <3>1. /\ Nodes \ {x} \in SUBSET Nodes /\ ring_head \in Nodes \ {x}
          /\ \A n \in Nodes \ {x} : next_node[n] \in Nodes \ {x}
      BY <1>w DEF Unlinked
    <3>2. WalkOf(next_node) \subseteq Nodes \ {x}
      BY <3>1, WalkLeast, Zenon
    <3>3. QED
      BY <3>2 DEF Walk
  <2>7. LastNode' \in Walk => next_node[LastNode'] = ring_head
    BY <1>t, <2>1 DEF ListState, LastNode
  <2>8. ListState'
    BY <1>t, <2>1, <2>4, <2>5, <2>6, <2>7 DEF ListState, ThreadState
  <2>9. QED
    BY <2>2, <2>3, <2>8 DEF IndInv
<1>6. CASE Free
  <2>1. /\ send_pc = "free" /\ send_pc' = "walk" /\ state' = [state EXCEPT ![curr_node] = "freed"]
        /\ UNCHANGED <<port2conn, next_node, ring_tail, listener, pre_node, curr_node, recv_port,
                       recv_conn, recv_pc, acked>>
    BY <1>6 DEF Free, list, recvThread
  <2>2. curr_node \in Conns /\ curr_node \notin Walk
        /\ \A p \in Ports : port2conn[p] # None => port2conn[p] # curr_node
    BY <1>t, <2>1 DEF ListState, MapState
  <2>3. TypeOK'
    BY <1>t, <2>1 DEF TypeOK
  <2>4. MapState'
    BY <1>t, <2>1, <2>2 DEF MapState, TypeOK
  <2>5. ThreadState'
    BY <1>t, <2>1, <2>2 DEF ThreadState, ListState, Unlinked, TypeOK
  <2>6. Walk' = Walk /\ LastNode' = LastNode /\ \A x \in Conns : Unlinked(x) => Unlinked(x)'
    BY <2>1 DEF Walk, LastNode, Unlinked
  <2>7. ListState'
    BY <1>t, <1>w, <2>1, <2>2, <2>6 DEF ListState, ThreadState, TypeOK
  <2>8. QED
    BY <2>3, <2>4, <2>5, <2>7 DEF IndInv
<1>7. QED
  BY <1>1, <1>2, <1>3, <1>4, <1>5, <1>6 DEF SendThread

\* The receive thread.
LEMMA RecvKeepsInvariant == IndInv /\ RecvThread => IndInv'
<1> SUFFICES ASSUME IndInv, RecvThread PROVE IndInv'
  OBVIOUS
<1>t. TypeOK /\ MapState /\ ThreadState /\ ListState
  BY DEF IndInv
<1>w. /\ next_node \in [Nodes -> Nodes]
      /\ ring_head \in Walk /\ Walk \subseteq Nodes
      /\ \A n \in Walk : next_node[n] \in Walk
      /\ ring_head \notin Conns /\ Nodes = Conns \cup {ring_head}
  BY <1>t, WalkFacts
<1>1. ASSUME UNCHANGED <<state, port2conn, next_node, ring_tail, listener, pre_node, curr_node,
                        send_pc, acked>>,
             TypeOK', ThreadState'
      PROVE  IndInv'
  BY <1>t, <1>1 DEF IndInv, MapState, ListState, Walk, LastNode, Unlinked
<1>2. ASSUME NEW p \in Ports, Lookup(p)
      PROVE  IndInv'
  <2>1. /\ UNCHANGED <<state, port2conn, next_node, ring_tail, listener, pre_node, curr_node,
                       send_pc, acked>>
        /\ recv_port' = p /\ recv_conn' \in Conns \cup {None}
        /\ recv_pc' \in {"poll", "deliver"} /\ (recv_pc' = "deliver" => recv_conn' # None)
    BY <1>t, <1>2 DEF Lookup, TypeOK, list, sendThread
  <2>2. QED
    BY <1>t, <1>1, <2>1 DEF TypeOK, ThreadState
<1>3. CASE DeliverData
  BY <1>t, <1>1, <1>3 DEF DeliverData, TypeOK, ThreadState, list, sendThread
<1>4. CASE DeliverFin
  <2>1. /\ recv_pc = "deliver" /\ recv_pc' = "poll"
        /\ state' = [state EXCEPT ![recv_conn] = IF @ = "freed" THEN @ ELSE "PASSIVE_CLOSE"]
        /\ UNCHANGED <<port2conn, next_node, ring_tail, listener, pre_node, curr_node,
                       send_pc, recv_port, recv_conn, acked>>
    BY <1>4 DEF DeliverFin, list, sendThread
  <2>2. /\ recv_conn \in Conns
        /\ state'[recv_conn] = IF state[recv_conn] = "freed" THEN "freed" ELSE "PASSIVE_CLOSE"
        /\ \A c \in Conns : c # recv_conn => state'[c] = state[c]
    BY <1>t, <2>1 DEF ThreadState, TypeOK
  <2>3. TypeOK'
    BY <1>t, <2>1, <2>2 DEF TypeOK, closed
  <2>4. MapState'
    BY <1>t, <2>1, <2>2 DEF MapState, TypeOK, closed
  <2>5. ThreadState'
    BY <1>t, <2>1, <2>2 DEF ThreadState
  <2>6. Walk' = Walk /\ LastNode' = LastNode /\ \A x \in Conns : Unlinked(x)' = Unlinked(x)
    BY <2>1 DEF Walk, LastNode, Unlinked
  <2>7. ListState'
    BY <1>t, <1>w, <2>1, <2>2, <2>6 DEF ListState, ThreadState
  <2>8. QED
    BY <2>3, <2>4, <2>5, <2>7 DEF IndInv
<1>5. QED
  BY <1>2, <1>3, <1>4 DEF RecvThread

-----------------------------------------------------------------------------

\* Every reachable state of the three threads satisfies the invariant.
THEOREM ConnInvariant == Spec => []IndInv
<1>1. IndInv /\ UNCHANGED vars => IndInv'
  BY DEF IndInv, vars, list, sendThread, recvThread, TypeOK, MapState, ThreadState, ListState,
         Walk, LastNode, Unlinked
<1>2. IndInv /\ [Next]_vars => IndInv'
  BY <1>1, ListenerKeepsInvariant, SendKeepsInvariant, RecvKeepsInvariant DEF Next
<1>3. QED
  BY <1>2, InitEstablishes, PTL DEF Spec

\* No thread follows a pointer that is none.
THEOREM ConnTypeOK == Spec => []TypeOK
<1>1. IndInv => TypeOK
  BY DEF IndInv
<1>2. QED
  BY <1>1, ConnInvariant, PTL

\* However many connections come and go, the map holds no freed one.
THEOREM ConnMapHoldsLive == Spec => []MapHoldsLive
<1>1. IndInv => MapHoldsLive
  BY DEF IndInv, MapState, MapHoldsLive
<1>2. QED
  BY <1>1, ConnInvariant, PTL

\* The send thread's walk comes back to the head and meets no freed node.
THEOREM ConnWalkIsLive == Spec => []WalkIsLive
<1>1. IndInv => WalkIsLive
  BY DEF IndInv, ListState, WalkIsLive
<1>2. QED
  BY <1>1, ConnInvariant, PTL

\* Nothing but the removal of a closed connection takes a connection off the
\* walk.
THEOREM ConnRemovesOnlyClosed == Spec => RemovesOnlyClosed
<1>1. IndInv /\ [Next]_vars => [\A c \in Walk \ Walk' : state[c] \in closed]_vars
  <2> SUFFICES ASSUME IndInv, [Next]_vars, NEW c \in Walk, c \notin Walk'
               PROVE  state[c] \in closed
    OBVIOUS
  <2>1. CASE Unlink
    BY <2>1, UnlinkStep DEF IndInv, MapState, Unlink
  <2>2. CASE Link
    BY <2>2, LinkStep
  <2>3. ASSUME UNCHANGED next_node
        PROVE  FALSE
    BY <2>3 DEF Walk
  <2>4. QED
    BY <2>1, <2>2, <2>3 DEF Next, Listener, SendThread, RecvThread, vars, list, sendThread,
       recvThread, ntp_create_conn_handler, SetTail, VisitHead, VisitReady, VisitClosed, FixTail,
       Free, Lookup, DeliverData, DeliverFin
<1>2. QED
  BY <1>1, ConnInvariant, PTL DEF Spec, RemovesOnlyClosed
=============================================================================
