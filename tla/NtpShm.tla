------------------------------- MODULE NtpShm -------------------------------
(***************************************************************************)
(* libfdu-utils/ntp2nts_shm.c over shm_mempool.c: a message channel between *)
(* libnts and the proxy.  Messages live in the nodes of a shared pool;     *)
(* the ring carries node indices.  The producer (nts_write, or the proxy's *)
(* receive thread) allocates a node, fills it and sends it.  The consumer  *)
(* (the proxy's send thread, or nts_read) receives a node, reads the       *)
(* message in place and frees the node.                                    *)
(*                                                                         *)
(* No lock protects the free list.  Only the producer touches              *)
(* free_header_idx and only the consumer free_tail_idx, so that            *)
(* shm_mp_malloc and shm_mp_free each make one access to what they share,  *)
(* a next_node_idx, and are atomic here.  The ring is the FIFO that        *)
(* ShmRing implements.                                                     *)
(***************************************************************************)
EXTENDS RingIndex

CONSTANTS RingBound, \* how many indices the ring holds (its capacity less one)
          Messages

\* Capacity is the pool's total_count.  Of its nodes RingBound can be in the
\* ring, one with either process, and one must be left on the free list, since
\* shm_mp_free links the freed node behind it.  ntp_shm_accept asks for 1024 +
\* 32 nodes with a ring of 1024 slots.
ASSUME PoolAssumption == RingBound \in Nat \ {0} /\ Capacity >= RingBound + 3

Nil == -1

VARIABLES
    free_header_idx, free_tail_idx, next_node_idx, \* the free list
    mem,                                           \* the message in each node
    ring,                                          \* the node indices in the ring
    send_node, send_pc, outgoing_msg,              \* the producer: node, step, message
    recv_node, recv_pc,                            \* the consumer: node, step
    out                                            \* the message the consumer read last

pool == <<free_header_idx, free_tail_idx, next_node_idx>>
producer == <<send_node, send_pc, outgoing_msg>>
consumer == <<recv_node, recv_pc, out>>
vars == <<pool, mem, ring, producer, consumer>>

Init ==
    /\ free_header_idx = 0
    /\ free_tail_idx = Capacity - 1
    /\ next_node_idx = [i \in Slots |-> IF i = Capacity - 1 THEN Nil ELSE i + 1]
    /\ mem \in [Slots -> Messages]
    /\ ring = <<>>
    /\ send_node = Nil
    /\ send_pc = "idle"
    /\ recv_node = Nil
    /\ recv_pc = "idle"
    /\ out \in Messages
    /\ outgoing_msg = out

-----------------------------------------------------------------------------
(* The producer.                                                           *)

shm_mp_mallocKeepHeader ==
    /\ send_node' = free_header_idx
    /\ UNCHANGED <<pool>>

shm_mp_malloc ==
    /\ send_node' = free_header_idx
    /\ free_header_idx' = next_node_idx[free_header_idx]
    /\ UNCHANGED <<free_tail_idx, next_node_idx>>

\* ntp_shm_ntpacket_alloc asserts that shm_mp_malloc found a node.
ntpacket_alloc ==
    /\ send_pc = "idle"
    /\ free_header_idx # Nil
    /\ shm_mp_malloc
    /\ send_pc' = "allocated"
    /\ UNCHANGED <<mem, ring, outgoing_msg, consumer>>

FillNodeAhead(m) ==
    /\ send_pc = "allocated"
    /\ outgoing_msg' = m
    /\ mem' = [mem EXCEPT ![increment(send_node)] = m]
    /\ send_pc' = "filled"
    /\ UNCHANGED <<pool, ring, send_node, consumer>>

\* The caller writes header and payload into the node.
Fill(m) ==
    /\ send_pc = "allocated"
    /\ outgoing_msg' = m
    /\ mem' = [mem EXCEPT ![send_node] = m]
    /\ send_pc' = "filled"
    /\ UNCHANGED <<pool, ring, send_node, consumer>>

\* shmring_push is retried until the ring has room.
ntp_shm_send ==
    /\ send_pc = "filled"
    /\ Len(ring) < RingBound
    /\ ring' = Append(ring, send_node)
    /\ send_node' = Nil
    /\ send_pc' = "idle"
    /\ UNCHANGED <<pool, mem, outgoing_msg, consumer>>

-----------------------------------------------------------------------------
(* The consumer.                                                           *)

ntp_shm_recv ==
    /\ recv_pc = "idle"
    /\ ring # <<>>
    /\ recv_node' = Head(ring)
    /\ ring' = Tail(ring)
    /\ recv_pc' = "received"
    /\ UNCHANGED <<pool, mem, producer, out>>

\* nts_read looks at the message, then takes it off the ring.
ntp_shm_front ==
    /\ recv_pc = "idle"
    /\ ring # <<>>
    /\ recv_node' = Head(ring)
    /\ recv_pc' = "front"
    /\ UNCHANGED <<pool, mem, ring, producer, out>>

ntp_shm_pop ==
    /\ recv_pc = "front"
    /\ ring' = Tail(ring)
    /\ recv_pc' = "received"
    /\ UNCHANGED <<pool, mem, producer, recv_node, out>>

\* The payload is used: copied to the application's buffer or to the NTB ring.
Read ==
    /\ recv_pc = "received"
    /\ out' = mem[recv_node]
    /\ recv_pc' = "read"
    /\ UNCHANGED <<pool, mem, ring, producer, recv_node>>

shm_mp_freeNoLink(node) ==
    /\ free_tail_idx' = node
    /\ UNCHANGED <<free_header_idx, next_node_idx>>

\* The node's own next_node_idx is left as it is.  free_tail_idx is Nil only in
\* a pool of no nodes.
shm_mp_free(node) ==
    /\ next_node_idx' = [next_node_idx EXCEPT ![free_tail_idx] = node]
    /\ free_tail_idx' = node
    /\ UNCHANGED free_header_idx

ntpacket_free ==
    /\ recv_pc = "read"
    /\ shm_mp_free(recv_node)
    /\ recv_node' = Nil
    /\ recv_pc' = "idle"
    /\ UNCHANGED <<mem, ring, producer, out>>

-----------------------------------------------------------------------------

Producer == ntpacket_alloc \/ ntp_shm_send \/ \E m \in Messages : Fill(m)

Consumer == ntp_shm_recv \/ ntp_shm_front \/ ntp_shm_pop \/ Read \/ ntpacket_free

Next == Producer \/ Consumer

Spec == Init /\ [][Next]_vars

-----------------------------------------------------------------------------

\* The free list and both processes hold node indices, or nothing.
TypeOK ==
    /\ free_header_idx \in Slots \cup {Nil}
    /\ free_tail_idx \in Slots
    /\ next_node_idx \in [Slots -> Slots \cup {Nil}]
    /\ mem \in [Slots -> Messages]
    /\ ring \in Seq(Slots)
    /\ send_node \in Slots \cup {Nil}
    /\ recv_node \in Slots \cup {Nil}
    /\ recv_pc \in {"idle", "front", "received", "read"}
    /\ out \in Messages
    /\ outgoing_msg \in Messages

\* 1 when the consumer holds a node that is no longer in the ring.
Held == IF recv_pc \in {"received", "read"} THEN 1 ELSE 0

\* 1 when the producer holds a node.
Allocated == IF send_pc = "idle" THEN 0 ELSE 1

\* The nodes that are not on the free list.
Outstanding == Held + Len(ring) + Allocated

\* Nodes are handed out in index order, and the nodes outside the free list are
\* the ones right after free_tail_idx: the consumer's, then those in the ring,
\* then the producer's, and then free_header_idx.  That shm_mp_free leaves the
\* freed node's stale next_node_idx alone is harmless only because of this.
NodesInOrder ==
    /\ Len(ring) <= RingBound
    /\ \A i \in 1 .. Len(ring) : ring[i] = SlotAfter(free_tail_idx, Held + i)
    /\ recv_pc = "front" => ring # <<>> /\ recv_node = ring[1]
    /\ Held = 1 => recv_node = SlotAfter(free_tail_idx, 1)
    /\ Allocated = 1 => send_node = SlotAfter(free_tail_idx, Outstanding)
    /\ free_header_idx = SlotAfter(free_tail_idx, Outstanding + 1)
    /\ \A i \in Slots \ {free_tail_idx} : next_node_idx[i] = increment(i)

\* What every step preserves: besides the order of the nodes, a filled node
\* holds the producer's message, and an idle process holds no node.
IndInv ==
    /\ TypeOK
    /\ NodesInOrder
    /\ send_pc = "idle" <=> send_node = Nil
    /\ recv_pc = "idle" <=> recv_node = Nil
    /\ send_pc = "filled" => mem[send_node] = outgoing_msg

\* The node that the producer is filling is neither in the ring nor with the
\* consumer: shm_mp_malloc never hands out a node that shm_mp_free has not
\* been given back, however far the consumer lags.
NoDoubleAllocation ==
    send_pc # "idle" =>
        /\ send_node # recv_node
        /\ \A i \in 1 .. Len(ring) : ring[i] # send_node

\* The assertion of ntp_shm_ntpacket_alloc: whenever the producer asks for a
\* node there is one.
AllocSucceeds == send_pc = "idle" => free_header_idx # Nil

\* The messages received and not read yet, then those in the ring.
Unread ==
    [i \in 1 .. Len(ring) + (IF recv_pc = "received" THEN 1 ELSE 0) |->
        IF recv_pc # "received" THEN mem[ring[i]]
        ELSE IF i = 1 THEN mem[recv_node] ELSE mem[ring[i - 1]]]

Channel == INSTANCE BoundedFifo WITH Bound <- RingBound + 1, Elements <- Messages,
                                     queue <- Unread, inp <- outgoing_msg

\* Although only node indices travel and the messages are read in place, the
\* channel is a FIFO of messages: what Read finds in the node is what Fill put
\* there for that send.
ImplementsChannel == Channel!FifoSpec
=============================================================================
