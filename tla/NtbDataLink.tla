----------------------------- MODULE NtbDataLink -----------------------------
(***************************************************************************)
(* ntb-proxy: one direction of a partition's data ring.  The ring is in    *)
(* the memory of the receiving host; the sender writes it through the NTB  *)
(* window and never reads it.  A slot is full when the msg_len of its      *)
(* header is not zero.  The sender knows the receiver's index only from    *)
(* shadow, a word in its own memory that the receiver overwrites           *)
(*   - after every IDX_UPDATE_INTERVAL packets, and                        *)
(*   - when a packet arrives that has the PSH bit set, which the sender    *)
(*     sets when it is a multiple of PshInterval ahead of shadow.          *)
(* PCIe keeps the order of the writes in each direction.                   *)
(*                                                                         *)
(* Packets fit in one slot (libnts splits writes at the MTU that the proxy *)
(* is configured with).  The slot that the receive thread has delivered is *)
(* cleared in the same step, since the sender cannot tell the difference.  *)
(*                                                                         *)
(* The receive thread waits at two places for an application: while the    *)
(* receive ring of the packet's connection is full, and while the event    *)
(* queue of its epoll instance is.  How full these are is not modelled:    *)
(* room says whether the one the thread writes next has a free place.      *)
(***************************************************************************)
EXTENDS RingIndex

CONSTANTS Conns,               \* the connections sharing the partition
          Data,                \* payloads
          IDX_UPDATE_INTERVAL, \* 512
          PshInterval          \* 0x3ff + 1

\* The sender of a full ring waits for shadow to move, so the receiver has to
\* update it before it has run through all the packets the ring can hold.
ASSUME IntervalAssumption ==
    /\ IDX_UPDATE_INTERVAL \in 1 .. Capacity - 1
    /\ PshInterval \in Nat \ {0}

Packets == [conn : Conns, data : Data]

VARIABLES
    msg_len,             \* TRUE for the slots whose msg_len is not zero
    header,              \* the packet whose header is in the slot
    payload,             \* the payload in the slot
    psh,                 \* the PSH bit in the slot
    wr,                  \* the sender's cur_index
    shadow,              \* *local_cum_ptr at the sender
    send,                \* the sender's step and its packet
    rd,                  \* the receiver's cur_index
    recv_packet_counter, \* counted modulo IDX_UPDATE_INTERVAL
    recv,                \* the receiver's step
    room,                \* the ring or queue that recv waits for is not full
    out, outPayload,     \* what was last handed to the connection's ring
    closed,              \* the connections closed at the receiver
    dropped              \* history: a packet for a closed connection was dropped

slots == <<msg_len, header, payload, psh>>
vars == <<slots, wr, shadow, send, rd, recv_packet_counter, recv, room, out, outPayload, closed, dropped>>

Init ==
    /\ msg_len = [i \in Slots |-> FALSE]
    /\ psh = [i \in Slots |-> FALSE]
    /\ out \in Packets
    /\ outPayload = out.data
    /\ header = [i \in Slots |-> out]
    /\ payload = [i \in Slots |-> out.data]
    /\ wr = 0 /\ shadow = 0 /\ rd = 0
    /\ send = [pc |-> "idle", packet |-> out]
    /\ recv_packet_counter = 0
    /\ recv = "poll" /\ room = TRUE
    /\ closed = {}
    /\ dropped = FALSE

-----------------------------------------------------------------------------
(* ntpacket_enqueue.                                                       *)

EnqueueBeginNoFullTest(p) ==
    /\ send.pc = "idle"
    /\ send' = [pc |-> "header", packet |-> p]
    /\ UNCHANGED <<slots, wr, shadow, rd, recv_packet_counter, recv, room, out, outPayload, closed, dropped>>

\* The sender spins until the slot after next is not the shadow index.
EnqueueBegin(p) ==
    /\ send.pc = "idle"
    /\ next_index(wr) # shadow
    /\ send' = [pc |-> "header", packet |-> p]
    /\ UNCHANGED <<slots, wr, shadow, rd, recv_packet_counter, recv, room, out, outPayload, closed, dropped>>

\* The header goes first, and with it the PSH bit and a msg_len.
WriteHeader ==
    /\ send.pc = "header"
    /\ msg_len' = [msg_len EXCEPT ![wr] = TRUE]
    /\ header' = [header EXCEPT ![wr] = send.packet]
    /\ psh' = [psh EXCEPT ![wr] = (next_index(wr) - shadow) % PshInterval = 0]
    /\ send' = [send EXCEPT !.pc = "payload"]
    /\ UNCHANGED <<payload, wr, shadow, rd, recv_packet_counter, recv, room, out, outPayload, closed, dropped>>

WritePayload ==
    /\ send.pc = "payload"
    /\ payload' = [payload EXCEPT ![wr] = send.packet.data]
    /\ wr' = next_index(wr)
    /\ send' = [send EXCEPT !.pc = "idle"]
    /\ UNCHANGED <<msg_len, header, psh, shadow, rd, recv_packet_counter, recv, room, out, outPayload, closed, dropped>>

-----------------------------------------------------------------------------
(* ntp_recv_data_to_buf.                                                   *)

\* A full slot is found; trans_data_link_cur_index answers a PSH.
Poll ==
    /\ recv = "poll"
    /\ msg_len[rd]
    /\ recv_packet_counter' = (recv_packet_counter + 1) % IDX_UPDATE_INTERVAL
    /\ shadow' = IF psh[rd] THEN rd ELSE shadow
    /\ recv' = "deliver"
    /\ UNCHANGED <<slots, wr, send, rd, room, out, outPayload, closed, dropped>>

\* The payload is copied to a node for the connection's receive ring, which
\* may be full.
CopyPacket ==
    /\ recv = "deliver"
    /\ header[rd].conn \notin closed
    /\ outPayload' = payload[rd]
    /\ recv' = "send" /\ room' \in BOOLEAN
    /\ UNCHANGED <<slots, wr, shadow, send, rd, recv_packet_counter, out, closed, dropped>>

\* What follows when the packet is dealt with.
AfterPacket == IF recv_packet_counter = 0 THEN "update" ELSE "poll"

DeliverNoClear ==
    /\ recv = "send" /\ room
    /\ out' = header[rd]
    /\ rd' = next_index(rd)
    /\ \/ recv' = "notify" /\ room' \in BOOLEAN
       \/ recv' = AfterPacket /\ room' = room
    /\ UNCHANGED <<slots, wr, shadow, send, recv_packet_counter, outPayload, closed, dropped>>

\* ntp_shm_send spins while the ring is full.  If the connection is watched by
\* an epoll instance its event comes next.
Deliver ==
    /\ recv = "send" /\ room
    /\ out' = header[rd]
    /\ msg_len' = [msg_len EXCEPT ![rd] = FALSE]
    /\ rd' = next_index(rd)
    /\ \/ recv' = "notify" /\ room' \in BOOLEAN
       \/ recv' = AfterPacket /\ room' = room
    /\ UNCHANGED <<header, payload, psh, wr, shadow, send, recv_packet_counter, outPayload, closed, dropped>>

\* ep_event_queue_push waits while the queue is full.
Notify ==
    /\ recv = "notify" /\ room
    /\ recv' = AfterPacket
    /\ UNCHANGED <<slots, wr, shadow, send, rd, recv_packet_counter, room, out, outPayload, closed, dropped>>

trans_data_link_cur_indexAhead ==
    /\ recv = "update"
    /\ shadow' = next_index(rd)
    /\ recv' = "poll"
    /\ UNCHANGED <<slots, wr, send, rd, recv_packet_counter, room, out, outPayload, closed, dropped>>

trans_data_link_cur_index ==
    /\ recv = "update"
    /\ shadow' = rd
    /\ recv' = "poll"
    /\ UNCHANGED <<slots, wr, send, rd, recv_packet_counter, room, out, outPayload, closed, dropped>>

\* The packet is for a connection closed here.  The loop that clears its slots
\* steps to the next slot before it clears one.  The index update is skipped.
DropPacket ==
    /\ recv = "deliver"
    /\ header[rd].conn \in closed
    /\ msg_len' = [msg_len EXCEPT ![next_index(rd)] = FALSE]
    /\ rd' = next_index(next_index(rd))
    /\ recv' = "poll"
    /\ dropped' = TRUE
    /\ UNCHANGED <<header, payload, psh, wr, shadow, send, recv_packet_counter, room, out, outPayload, closed>>

-----------------------------------------------------------------------------
(* ntp_send_buff_data of this host.                                        *)

\* The send thread has sent this side's FIN; the peer may still be sending.
Close(c) ==
    /\ c \notin closed
    /\ closed' = closed \cup {c}
    /\ UNCHANGED <<slots, wr, shadow, send, rd, recv_packet_counter, recv, room, out, outPayload, dropped>>

-----------------------------------------------------------------------------
(* Other threads and processes, at the ring or queue that recv waits for.  *)

Waits == {"send", "notify"}

\* The application reads a message, or takes an event.
AppTakes ==
    /\ recv \in Waits /\ ~ room
    /\ room' = TRUE
    /\ UNCHANGED <<slots, wr, shadow, send, rd, recv_packet_counter, recv, out, outPayload, closed, dropped>>

\* Another thread puts its event in the last free place of the queue; a receive
\* ring has no other producer.
OtherEvent ==
    /\ recv = "notify" /\ room
    /\ room' = FALSE
    /\ UNCHANGED <<slots, wr, shadow, send, rd, recv_packet_counter, recv, out, outPayload, closed, dropped>>

-----------------------------------------------------------------------------

Sender == WriteHeader \/ WritePayload \/ \E p \in Packets : EnqueueBegin(p)

Receiver ==
    Poll \/ CopyPacket \/ Deliver \/ Notify \/ DropPacket \/ trans_data_link_cur_index

Next == Sender \/ Receiver \/ AppTakes \/ OtherEvent \/ \E c \in Conns : Close(c)

Spec == Init /\ [][Next]_vars

\* The threads run on cores of their own.  Nothing obliges an application to read
\* or to take events, so AppTakes is not fair.
FairSpec == Spec /\ WF_vars(WriteHeader) /\ WF_vars(WritePayload) /\ WF_vars(Receiver)

-----------------------------------------------------------------------------

\* The indices are slot numbers, and the steps those of the code.
TypeOK ==
    /\ msg_len \in [Slots -> BOOLEAN]
    /\ psh \in [Slots -> BOOLEAN]
    /\ header \in [Slots -> Packets]
    /\ payload \in [Slots -> Data]
    /\ wr \in Slots /\ shadow \in Slots /\ rd \in Slots
    /\ send \in [pc : {"idle", "header", "payload"}, packet : Packets]
    /\ recv \in {"poll", "deliver", "send", "notify", "update"}
    /\ room \in BOOLEAN
    /\ recv_packet_counter \in 0 .. IDX_UPDATE_INTERVAL - 1
    /\ out \in Packets /\ outPayload \in Data
    /\ closed \subseteq Conns
    /\ dropped \in BOOLEAN

\* The first slot without a packet: wr, or the next one once the header is in.
Front == IF send.pc = "payload" THEN increment(wr) ELSE wr

\* How many slots hold a packet that was not delivered.
InFlight == Distance(rd, Front)

\* Around the ring the indices come in the order shadow, rd, Front.
InOrder == Distance(shadow, rd) + InFlight = Distance(shadow, Front)

\* Until ntp_recv_data_to_buf drops its first packet of a closed connection, the
\* shadow index lags the receiver's index, never leads it, and the receiver
\* stays behind the sender.
IndexOrder == ~ dropped => InOrder

\* Until then the sender is about to write only where there is no packet: a
\* stale shadow index makes ntpacket_enqueue wait too long, never too short.
NoOverwrite == ~ dropped /\ send.pc = "header" => ~ msg_len[wr]

\* A slot is marked full exactly when it holds a packet that was not delivered.
FullSlots == \A i \in Slots : msg_len[i] <=> Distance(rd, i) < InFlight

\* Sender and receiver are in step.
InStep ==
    /\ InOrder
    /\ FullSlots
    /\ send.pc = "header" => increment(wr) # shadow
    /\ recv \in {"deliver", "send"} => rd # Front

\* What every step preserves.
IndInv ==
    /\ TypeOK
    /\ ~ dropped => InStep

PacketFifo == INSTANCE BoundedFifo WITH Bound <- Capacity - 1, Elements <- Packets,
    queue <- Window(header, rd, InFlight), inp <- send.packet

\* Packet headers are delivered in the order they were sent, each one once, and
\* nothing else is: the link is a FIFO of at most Capacity - 1 packets although
\* the sender sees neither the slots nor the receiver's index.  The drop of a
\* packet for a closed connection is the one step that ends this, since it skips
\* a slot and clears the wrong one.
ImplementsPacketFifo ==
    PacketFifo!FifoInit /\ [][~ dropped' => PacketFifo!FifoNext]_(PacketFifo!fifoVars)

\* While the receive thread comes back from each wait for an application, a
\* sender that waits for room in the data ring gets it unless a packet was
\* dropped: the two ways of updating the shadow index never leave both sides
\* waiting for each other.
SenderUnblocked ==
    []<>(recv \notin Waits) =>
        ((next_index(wr) = shadow) ~> (next_index(wr) # shadow \/ dropped))

\* The receive thread hands on the payload that was sent with the header.
PayloadIntact == ~ dropped /\ recv # "send" => outPayload = out.data
=============================================================================
