---------------------------- MODULE NtpShmProofs ----------------------------
(***************************************************************************)
(* Proofs about NtpShm for every pool of at least RingBound + 3 nodes.     *)
(***************************************************************************)
EXTENDS NtpShm, RingIndexProofs

\* At most all but one of the nodes are outstanding before an allocation, and
\* the slots that the order of the nodes names are slots.
LEMMA OutstandingBounds ==
    ASSUME TypeOK, NodesInOrder
    PROVE  /\ Len(ring) \in 0 .. RingBound
           /\ Held \in 0 .. 1 /\ Allocated \in 0 .. 1
           /\ Outstanding \in 0 .. Capacity - 1
           /\ Allocated = 0 => Outstanding \in 0 .. Capacity - 2
<1>1. Len(ring) \in 0 .. RingBound
  BY PoolAssumption DEF TypeOK, NodesInOrder
<1>2. Held \in 0 .. 1 /\ Allocated \in 0 .. 1
  BY DEF Held, Allocated
<1>3. QED
  BY <1>1, <1>2, PoolAssumption, CapacityAssumption DEF Outstanding

\* Every reachable state of the channel satisfies the inductive invariant.
THEOREM ChannelInvariant == Spec => []IndInv
<1>1. Init => IndInv
  <2> SUFFICES ASSUME Init PROVE IndInv
    OBVIOUS
  <2>1. TypeOK
    BY CapacityAssumption DEF Init, TypeOK, Slots, Nil
  <2>2. Held = 0 /\ Allocated = 0 /\ Outstanding = 0
    BY DEF Init, Held, Allocated, Outstanding
  <2>3. \A i \in Slots \ {free_tail_idx} : next_node_idx[i] = increment(i)
    <3> SUFFICES ASSUME NEW i \in Slots \ {Capacity - 1} PROVE i + 1 = increment(i)
      BY DEF Init
    <3>1. increment(i) = IF i + 1 = Capacity THEN 0 ELSE i + 1
      BY IncrementWraps
    <3>2. QED
      BY <3>1, CapacityAssumption DEF Slots
  <2>4. free_header_idx = SlotAfter(free_tail_idx, 1)
    BY CapacityAssumption DEF Init, SlotAfter
  <2>5. QED
    BY <2>1, <2>2, <2>3, <2>4, PoolAssumption DEF Init, IndInv, NodesInOrder
<1>2. IndInv /\ [Next]_vars => IndInv'
  <2> SUFFICES ASSUME IndInv, [Next]_vars
               PROVE  IndInv'
    OBVIOUS
  <2>0. TypeOK /\ NodesInOrder /\ free_tail_idx \in Slots /\ ring \in Seq(Slots)
    BY DEF IndInv, TypeOK
  <2>b. /\ Len(ring) \in 0 .. RingBound
        /\ Held \in 0 .. 1 /\ Allocated \in 0 .. 1
        /\ Outstanding \in 0 .. Capacity - 1
        /\ Allocated = 0 => Outstanding \in 0 .. Capacity - 2
    BY <2>0, OutstandingBounds
  <2>1. CASE ntpacket_alloc
    <3>1. Allocated = 0 /\ Allocated' = 1 /\ Held' = Held /\ UNCHANGED <<ring, free_tail_idx, next_node_idx, recv_node, recv_pc>>
      BY <2>1 DEF ntpacket_alloc, shm_mp_malloc, Allocated, Held, consumer
    <3>2. Outstanding' = Outstanding + 1
      BY <3>1, <2>b DEF Outstanding
    <3>3. send_node' = SlotAfter(free_tail_idx, Outstanding + 1)
      BY <2>1, <2>0 DEF ntpacket_alloc, shm_mp_malloc, NodesInOrder
    <3>4. Outstanding + 1 \in 0 .. Capacity - 1 /\ Outstanding + 1 \in 1 .. Capacity
      BY <2>b, <3>1, CapacityAssumption
    <3>5. /\ send_node' \in Slots
          /\ increment(send_node') = SlotAfter(free_tail_idx, Outstanding + 1 + 1)
          /\ SlotAfter(free_tail_idx, Outstanding + 1 + 1) \in Slots
      BY <2>0, <3>3, <3>4, SlotAfterStep, Zenon
    <3>6. send_node' # free_tail_idx
      <4>1. SlotAfter(free_tail_idx, Capacity) = free_tail_idx
        BY <2>0, CapacityAssumption DEF SlotAfter, Slots
      <4>2. Capacity \in 1 .. Capacity /\ Outstanding + 1 # Capacity
        BY <2>b, <3>1, CapacityAssumption
      <4>3. QED
        BY <2>0, <3>3, <3>4, <4>1, <4>2, SlotAfterInjective, Zenon
    <3>7. free_header_idx' = SlotAfter(free_tail_idx, Outstanding + 1 + 1)
      BY <2>1, <2>0, <3>5, <3>6 DEF ntpacket_alloc, shm_mp_malloc, NodesInOrder
    <3>8. NodesInOrder'
      BY <2>0, <2>b, <3>1, <3>2, <3>3, <3>7 DEF NodesInOrder
    <3>9. TypeOK'
      BY <2>1, <2>0, <3>5, <3>7 DEF TypeOK, ntpacket_alloc, shm_mp_malloc, consumer
    <3>10. QED
      BY <2>1, <3>5, <3>8, <3>9, CapacityAssumption
         DEF IndInv, ntpacket_alloc, Slots, Nil, consumer
  <2>2. ASSUME NEW m \in Messages, Fill(m)
        PROVE  IndInv'
    <3>1. Allocated' = Allocated /\ Held' = Held /\ UNCHANGED <<pool, ring, send_node, recv_node, recv_pc>>
      BY <2>2 DEF Fill, Allocated, Held, pool, consumer
    <3>2. Outstanding' = Outstanding
      BY <3>1 DEF Outstanding
    <3>3. NodesInOrder'
      BY <2>0, <3>1, <3>2 DEF NodesInOrder, pool
    <3>4. TypeOK'
      BY <2>2, <2>0 DEF TypeOK, Fill, pool, consumer
    <3>5. send_node \in Slots /\ mem \in [Slots -> Messages]
      BY <2>2, <2>0 DEF IndInv, TypeOK, Fill
    <3>6. QED
      BY <2>2, <3>1, <3>3, <3>4, <3>5 DEF IndInv, Fill, pool, consumer
  <2>3. CASE ntp_shm_send
    <3>1. Allocated = 1 /\ Allocated' = 0 /\ Held' = Held /\ UNCHANGED <<pool, recv_node, recv_pc>>
      BY <2>3 DEF ntp_shm_send, Allocated, Held, pool, consumer
    <3>2. send_node \in Slots
      BY <2>3, <2>0 DEF IndInv, TypeOK, ntp_shm_send
    <3>3. /\ ring' \in Seq(Slots) /\ Len(ring') = Len(ring) + 1 /\ Len(ring) < RingBound
          /\ \A i \in 1 .. Len(ring) : ring'[i] = ring[i]
          /\ ring'[Len(ring) + 1] = send_node
      BY <2>3, <2>0, <3>2 DEF ntp_shm_send
    <3>4. Outstanding' = Outstanding /\ Outstanding = Held + Len(ring) + 1
      BY <3>1, <3>3, <2>b DEF Outstanding
    <3>5. \A i \in 1 .. Len(ring') : ring'[i] = SlotAfter(free_tail_idx, Held + i)
      <4>1. \A i \in 1 .. Len(ring) : ring'[i] = SlotAfter(free_tail_idx, Held + i)
        BY <2>0, <3>3 DEF NodesInOrder
      <4>2. ring'[Len(ring) + 1] = SlotAfter(free_tail_idx, Held + (Len(ring) + 1))
        BY <2>0, <2>b, <3>1, <3>3, <3>4 DEF NodesInOrder
      <4>3. QED
        BY <3>3, <4>1, <4>2, <2>b
    <3>6. recv_pc = "front" => ring' # <<>> /\ recv_node = ring'[1]
      BY <2>0, <2>b, <3>3 DEF NodesInOrder
    <3>7. NodesInOrder'
      BY <2>0, <2>b, <3>1, <3>3, <3>4, <3>5, <3>6, PoolAssumption DEF NodesInOrder, pool
    <3>8. TypeOK'
      BY <2>3, <2>0, <3>3 DEF TypeOK, ntp_shm_send, pool, consumer
    <3>9. QED
      BY <2>3, <3>1, <3>7, <3>8 DEF IndInv, ntp_shm_send
  <2>4. CASE ntp_shm_recv
    <3>1. Held = 0 /\ Held' = 1 /\ Allocated' = Allocated /\ UNCHANGED <<pool, mem, producer>>
      BY <2>4 DEF ntp_shm_recv, Allocated, Held, producer
    <3>2. /\ Len(ring) >= 1 /\ recv_node' = ring[1] /\ ring[1] \in Slots
          /\ ring' \in Seq(Slots) /\ Len(ring') = Len(ring) - 1
          /\ \A i \in 1 .. Len(ring') : ring'[i] = ring[i + 1]
      BY <2>4, <2>0 DEF ntp_shm_recv
    <3>3. Outstanding' = Outstanding
      BY <3>1, <3>2, <2>b DEF Outstanding
    <3>4. \A i \in 1 .. Len(ring') : ring'[i] = SlotAfter(free_tail_idx, 1 + i)
      <4> SUFFICES ASSUME NEW i \in 1 .. Len(ring')
                   PROVE  ring'[i] = SlotAfter(free_tail_idx, 1 + i)
        OBVIOUS
      <4>1. ring[i + 1] = SlotAfter(free_tail_idx, 0 + (i + 1))
        BY <2>0, <3>1, <3>2 DEF NodesInOrder
      <4>2. 0 + (i + 1) = 1 + i
        BY <3>2
      <4>3. QED
        BY <3>2, <4>1, <4>2
    <3>5. recv_node' = SlotAfter(free_tail_idx, 1)
      BY <2>0, <3>1, <3>2 DEF NodesInOrder
    <3>6. recv_pc' = "received" /\ Len(ring') <= RingBound
      BY <2>4, <2>b, <3>2, PoolAssumption DEF ntp_shm_recv
    <3>7. NodesInOrder'
      BY <2>0, <2>b, <3>1, <3>3, <3>4, <3>5, <3>6 DEF NodesInOrder, pool, producer
    <3>8. TypeOK'
      BY <2>4, <2>0, <3>2 DEF TypeOK, ntp_shm_recv, pool, producer
    <3>9. QED
      BY <2>4, <3>2, <3>7, <3>8, CapacityAssumption
         DEF IndInv, ntp_shm_recv, Slots, Nil, producer
  <2>5. CASE ntp_shm_front
    <3>1. Held' = Held /\ Allocated' = Allocated /\ UNCHANGED <<pool, mem, ring, producer>>
      BY <2>5 DEF ntp_shm_front, Allocated, Held, producer
    <3>2. Outstanding' = Outstanding
      BY <3>1 DEF Outstanding
    <3>3. Len(ring) >= 1 /\ recv_node' = ring[1] /\ ring[1] \in Slots
      BY <2>5, <2>0 DEF ntp_shm_front
    <3>4. Held = 0
      BY <2>5 DEF Held, ntp_shm_front
    <3>5. NodesInOrder'
      BY <2>0, <2>5, <2>b, <3>1, <3>2, <3>3, <3>4 DEF NodesInOrder, pool, producer, ntp_shm_front
    <3>6. TypeOK'
      BY <2>5, <2>0, <3>3 DEF TypeOK, ntp_shm_front, pool, producer
    <3>7. QED
      BY <2>5, <3>3, <3>5, <3>6, CapacityAssumption
         DEF IndInv, ntp_shm_front, Slots, Nil, producer
  <2>6. CASE ntp_shm_pop
    <3>1. Held = 0 /\ Held' = 1 /\ Allocated' = Allocated /\ UNCHANGED <<pool, mem, producer, recv_node>>
      BY <2>6 DEF ntp_shm_pop, Allocated, Held, producer
    <3>2. /\ Len(ring) >= 1 /\ recv_node = ring[1] /\ ring[1] \in Slots
          /\ ring' \in Seq(Slots) /\ Len(ring') = Len(ring) - 1
          /\ \A i \in 1 .. Len(ring') : ring'[i] = ring[i + 1]
      BY <2>6, <2>0 DEF ntp_shm_pop, NodesInOrder
    <3>3. Outstanding' = Outstanding
      BY <3>1, <3>2, <2>b DEF Outstanding
    <3>4. \A i \in 1 .. Len(ring') : ring'[i] = SlotAfter(free_tail_idx, 1 + i)
      <4> SUFFICES ASSUME NEW i \in 1 .. Len(ring')
                   PROVE  ring'[i] = SlotAfter(free_tail_idx, 1 + i)
        OBVIOUS
      <4>1. ring[i + 1] = SlotAfter(free_tail_idx, 0 + (i + 1))
        BY <2>0, <3>1, <3>2 DEF NodesInOrder
      <4>2. 0 + (i + 1) = 1 + i
        BY <3>2
      <4>3. QED
        BY <3>2, <4>1, <4>2
    <3>5. recv_node = SlotAfter(free_tail_idx, 1)
      BY <2>0, <3>1, <3>2 DEF NodesInOrder
    <3>6. recv_pc' = "received" /\ Len(ring') <= RingBound
      BY <2>6, <2>b, <3>2, PoolAssumption DEF ntp_shm_pop
    <3>7. NodesInOrder'
      BY <2>0, <2>b, <3>1, <3>3, <3>4, <3>5, <3>6 DEF NodesInOrder, pool, producer
    <3>8. TypeOK'
      BY <2>6, <2>0, <3>2 DEF TypeOK, ntp_shm_pop, pool, producer
    <3>9. QED
      BY <2>6, <3>2, <3>7, <3>8, CapacityAssumption
         DEF IndInv, ntp_shm_pop, Slots, Nil, producer
  <2>7. CASE Read
    <3>1. Held' = Held /\ Allocated' = Allocated /\ UNCHANGED <<pool, mem, ring, producer, recv_node>>
      BY <2>7 DEF Read, Allocated, Held, producer
    <3>2. Outstanding' = Outstanding
      BY <3>1 DEF Outstanding
    <3>3. NodesInOrder'
      BY <2>0, <2>7, <3>1, <3>2 DEF NodesInOrder, pool, producer, Read
    <3>4. recv_node \in Slots
      BY <2>7 DEF IndInv, TypeOK, Read
    <3>5. TypeOK'
      BY <2>7, <2>0, <3>4 DEF TypeOK, Read, pool, producer
    <3>6. QED
      BY <2>7, <3>3, <3>5 DEF IndInv, Read, producer
  <2>8. CASE ntpacket_free
    <3>1. Held = 1 /\ Held' = 0 /\ Allocated' = Allocated /\ UNCHANGED <<free_header_idx, mem, ring, producer>>
      BY <2>8 DEF ntpacket_free, shm_mp_free, Allocated, Held, producer
    <3>2. Outstanding' = Outstanding - 1 /\ Outstanding \in 1 .. Capacity - 1
      BY <3>1, <2>b DEF Outstanding
    <3>3. /\ free_tail_idx' = recv_node
          /\ next_node_idx' = [next_node_idx EXCEPT ![free_tail_idx] = recv_node]
          /\ recv_node = increment(free_tail_idx) /\ recv_node \in Slots
      <4>1. recv_node = SlotAfter(free_tail_idx, 1)
        BY <2>0, <3>1 DEF NodesInOrder
      <4>2. 0 \in 0 .. Capacity - 1
        BY CapacityAssumption
      <4>3. increment(SlotAfter(free_tail_idx, 0)) = SlotAfter(free_tail_idx, 0 + 1)
            /\ SlotAfter(free_tail_idx, 0 + 1) \in Slots
        BY <2>0, <4>2, SlotAfterStep, Zenon
      <4>4. SlotAfter(free_tail_idx, 0) = free_tail_idx
        BY <2>0, CapacityAssumption DEF SlotAfter, Slots
      <4>5. QED
        BY <2>8, <4>1, <4>3, <4>4 DEF ntpacket_free, shm_mp_free
    <3>4. \A n \in 0 .. Capacity - 1 : SlotAfter(free_tail_idx', n) = SlotAfter(free_tail_idx, n + 1)
      BY <2>0, <3>3, SlotAfterStep, Zenon
    <3>5. next_node_idx \in [Slots -> Slots \cup {Nil}]
      BY <2>0 DEF TypeOK
    <3>6. \A i \in Slots \ {free_tail_idx'} : next_node_idx'[i] = increment(i)
      BY <2>0, <3>3, <3>5 DEF NodesInOrder
    <3>7. free_header_idx = SlotAfter(free_tail_idx', Outstanding' + 1)
      <4>1. Outstanding \in 0 .. Capacity - 1 /\ Outstanding' + 1 = Outstanding
        BY <2>b, <3>2
      <4>2. QED
        BY <2>0, <3>4, <4>1 DEF NodesInOrder
    <3>8. \A i \in 1 .. Len(ring) : ring[i] = SlotAfter(free_tail_idx', 0 + i)
      <4> SUFFICES ASSUME NEW i \in 1 .. Len(ring)
                   PROVE  ring[i] = SlotAfter(free_tail_idx', 0 + i)
        OBVIOUS
      <4>1. 0 + i \in 0 .. Capacity - 1 /\ (0 + i) + 1 = Held + i
        BY <2>b, <3>1, PoolAssumption, CapacityAssumption
      <4>2. SlotAfter(free_tail_idx', 0 + i) = SlotAfter(free_tail_idx, Held + i)
        BY <3>4, <4>1, Zenon
      <4>3. QED
        BY <2>0, <4>2 DEF NodesInOrder
    <3>9. Allocated = 1 => send_node = SlotAfter(free_tail_idx', Outstanding')
      <4>1. Outstanding' \in 0 .. Capacity - 1 /\ Outstanding' + 1 = Outstanding
        BY <2>b, <3>2, CapacityAssumption
      <4>2. SlotAfter(free_tail_idx', Outstanding') = SlotAfter(free_tail_idx, Outstanding)
        BY <3>4, <4>1, Zenon
      <4>3. QED
        BY <2>0, <4>2 DEF NodesInOrder
    <3>10. NodesInOrder'
      BY <2>8, <2>0, <2>b, <3>1, <3>6, <3>7, <3>8, <3>9 DEF NodesInOrder, ntpacket_free, producer
    <3>11. TypeOK'
      BY <2>8, <2>0, <3>1, <3>3, <3>5 DEF TypeOK, ntpacket_free, producer
    <3>12. QED
      BY <2>8, <3>10, <3>11 DEF IndInv, ntpacket_free, producer
  <2>9. CASE UNCHANGED vars
    <3>1. Held' = Held /\ Allocated' = Allocated /\ UNCHANGED <<pool, mem, ring, producer, consumer>>
      BY <2>9 DEF vars, Held, Allocated, producer, consumer
    <3>2. NodesInOrder'
      BY <2>0, <3>1 DEF NodesInOrder, Outstanding, pool, producer, consumer
    <3>3. TypeOK'
      BY <2>0, <3>1 DEF TypeOK, pool, producer, consumer
    <3>4. QED
      BY <3>1, <3>2, <3>3 DEF IndInv, producer, consumer
  <2>10. QED
    BY <2>1, <2>2, <2>3, <2>4, <2>5, <2>6, <2>7, <2>8, <2>9 DEF Next, Producer, Consumer
<1>3. QED
  BY <1>1, <1>2, PTL DEF Spec

-----------------------------------------------------------------------------
(* What follows from the order of the nodes.                               *)

\* The nodes and indices of the channel stay in range.
THEOREM ChannelTypeOK == Spec => []TypeOK
<1>1. IndInv => TypeOK
  BY DEF IndInv
<1>2. QED
  BY <1>1, ChannelInvariant, PTL

\* Free list, ring and the nodes in hand divide the pool in the order of the
\* nodes, through every shm_mp_malloc and shm_mp_free.
THEOREM ChannelNodesInOrder == Spec => []NodesInOrder
<1>1. IndInv => NodesInOrder
  BY DEF IndInv
<1>2. QED
  BY <1>1, ChannelInvariant, PTL

\* shm_mp_malloc never hands out a node that is in use.
THEOREM ChannelNoDoubleAllocation == Spec => []NoDoubleAllocation
<1>1. IndInv => NoDoubleAllocation
  <2> SUFFICES ASSUME IndInv, send_pc # "idle"
               PROVE  /\ send_node # recv_node
                      /\ \A i \in 1 .. Len(ring) : ring[i] # send_node
    BY DEF NoDoubleAllocation
  <2>0. TypeOK /\ NodesInOrder /\ free_tail_idx \in Slots
    BY DEF IndInv, TypeOK
  <2>b. /\ Len(ring) \in 0 .. RingBound /\ Held \in 0 .. 1
        /\ Outstanding \in 0 .. Capacity - 1
    BY <2>0, OutstandingBounds
  <2>1. Allocated = 1 /\ Outstanding = Held + Len(ring) + 1 /\ Outstanding \in 1 .. Capacity
    BY <2>b, CapacityAssumption DEF Allocated, Outstanding
  <2>2. send_node = SlotAfter(free_tail_idx, Outstanding)
    BY <2>0, <2>1 DEF NodesInOrder
  <2>3. ASSUME NEW i \in 1 .. Len(ring)
        PROVE  ring[i] # send_node
    <3>1. Held + i \in 1 .. Capacity /\ Held + i # Outstanding
      BY <2>b, <2>1, CapacityAssumption
    <3>2. ring[i] = SlotAfter(free_tail_idx, Held + i)
      BY <2>0 DEF NodesInOrder
    <3>3. QED
      BY <2>0, <2>1, <2>2, <3>1, <3>2, SlotAfterInjective, Zenon
  <2>4. send_node # recv_node
    <3>1. CASE Held = 1
      <4>1. 1 \in 1 .. Capacity /\ 1 # Outstanding
        BY <3>1, <2>b, <2>1, CapacityAssumption
      <4>2. recv_node = SlotAfter(free_tail_idx, 1)
        BY <2>0, <3>1 DEF NodesInOrder
      <4>3. QED
        BY <2>0, <2>1, <2>2, <4>1, <4>2, SlotAfterInjective, Zenon
    <3>2. CASE recv_pc = "front"
      BY <2>0, <2>3, <3>2 DEF NodesInOrder, TypeOK
    <3>3. CASE recv_pc = "idle"
      BY <3>3 DEF IndInv
    <3>4. QED
      BY <2>0, <3>1, <3>2, <3>3 DEF TypeOK, Held
  <2>5. QED
    BY <2>3, <2>4
<1>2. QED
  BY <1>1, ChannelInvariant, PTL

\* The assertion in ntp_shm_ntpacket_alloc never fails.
THEOREM ChannelAllocSucceeds == Spec => []AllocSucceeds
<1>1. IndInv => AllocSucceeds
  <2> SUFFICES ASSUME IndInv
               PROVE  free_header_idx # Nil
    BY DEF AllocSucceeds
  <2>0. TypeOK /\ NodesInOrder /\ free_tail_idx \in Slots
    BY DEF IndInv, TypeOK
  <2>1. Outstanding \in 0 .. Capacity - 1
    BY <2>0, OutstandingBounds
  <2>2. SlotAfter(free_tail_idx, Outstanding + 1) \in Slots
    BY <2>0, <2>1, SlotAfterStep, Zenon
  <2>3. QED
    BY <2>0, <2>2, CapacityAssumption DEF NodesInOrder, Slots, Nil
<1>2. QED
  BY <1>1, ChannelInvariant, PTL

-----------------------------------------------------------------------------
(* The channel implements the FIFO of messages.  The unread messages are   *)
(* the contents of a window of the pool.                                   *)

\* The first unread node comes right after free_tail_idx, or one further on
\* while the consumer still holds a node that it has read.
Skip == IF recv_pc = "read" THEN 1 ELSE 0

\* How many messages are unread.
Pending == Len(ring) + (IF recv_pc = "received" THEN 1 ELSE 0)

\* The unread messages lie in consecutive nodes.
UnreadWindow == Unread = Window(mem, SlotAfter(free_tail_idx, Skip + 1), Pending)

\* They do so in every state of the invariant.
LEMMA UnreadIsWindow ==
    ASSUME IndInv
    PROVE  /\ Pending \in 0 .. Capacity - 2
           /\ Skip \in 0 .. 1 /\ Skip + Pending = Held + Len(ring)
           /\ Skip + Pending \in 0 .. Capacity - 2
           /\ SlotAfter(free_tail_idx, Skip + 1) \in Slots
           /\ Unread = Window(mem, SlotAfter(free_tail_idx, Skip + 1), Pending)
           /\ \A k \in 0 .. Pending : SlotAfter(SlotAfter(free_tail_idx, Skip + 1), k)
                                          = SlotAfter(free_tail_idx, Skip + 1 + k)
<1>0. TypeOK /\ NodesInOrder /\ free_tail_idx \in Slots /\ ring \in Seq(Slots)
      /\ mem \in [Slots -> Messages]
  BY DEF IndInv, TypeOK
<1>b. Len(ring) \in 0 .. RingBound /\ Held \in 0 .. 1
  BY <1>0, OutstandingBounds
<1>1. /\ Pending \in 0 .. Capacity - 2
      /\ Skip \in 0 .. 1 /\ Skip + Pending = Held + Len(ring)
      /\ Skip + Pending \in 0 .. Capacity - 2
  <2>1. /\ Skip \in 0 .. 1 /\ Pending - Len(ring) \in 0 .. 1
        /\ Skip + Pending = Held + Len(ring) /\ Pending \in Nat
    <3>1. CASE recv_pc = "received"
      BY <1>b, <3>1, PoolAssumption DEF Pending, Skip, Held
    <3>2. CASE recv_pc = "read"
      BY <1>b, <3>2, PoolAssumption DEF Pending, Skip, Held
    <3>3. CASE recv_pc # "received" /\ recv_pc # "read"
      <4>1. Skip = 0 /\ Held = 0 /\ Pending = Len(ring) + 0
        BY <3>3 DEF Pending, Skip, Held
      <4>2. QED
        BY <1>b, <4>1, PoolAssumption
    <3>4. QED
      BY <3>1, <3>2, <3>3
  <2>2. QED
    BY <1>b, <2>1, PoolAssumption, CapacityAssumption
<1>2. /\ SlotAfter(free_tail_idx, Skip + 1) \in Slots
      /\ \A k \in 0 .. Pending : SlotAfter(SlotAfter(free_tail_idx, Skip + 1), k)
                                     = SlotAfter(free_tail_idx, Skip + 1 + k)
  BY <1>0, <1>1, CapacityAssumption DEF Slots, SlotAfter
<1>3. Unread = Window(mem, SlotAfter(free_tail_idx, Skip + 1), Pending)
  <2>1. \A k \in 1 .. Pending :
            Unread[k] = mem[SlotAfter(SlotAfter(free_tail_idx, Skip + 1), k - 1)]
    <3> SUFFICES ASSUME NEW k \in 1 .. Pending
                 PROVE  Unread[k] = mem[SlotAfter(SlotAfter(free_tail_idx, Skip + 1), k - 1)]
      OBVIOUS
    <3>0. SlotAfter(SlotAfter(free_tail_idx, Skip + 1), k - 1) = SlotAfter(free_tail_idx, Skip + k)
      <4>1. k - 1 \in 0 .. Pending /\ Skip + 1 + (k - 1) = Skip + k
        BY <1>1
      <4>2. QED
        BY <1>2, <4>1
    <3>1. CASE recv_pc = "received"
      <4>1. Held = 1 /\ Skip = 0 /\ Pending = Len(ring) + 1
        BY <3>1 DEF Held, Skip, Pending
      <4>2. CASE k = 1
        BY <1>0, <3>0, <3>1, <4>1, <4>2 DEF Unread, Pending, NodesInOrder
      <4>3. CASE k # 1
        <5>1. k - 1 \in 1 .. Len(ring) /\ 1 + (k - 1) = k
          BY <4>1, <4>3, <1>b
        <5>2. ring[k - 1] = SlotAfter(free_tail_idx, k)
          BY <1>0, <4>1, <5>1 DEF NodesInOrder
        <5>3. QED
          BY <3>0, <3>1, <4>1, <4>3, <5>2 DEF Unread, Pending
      <4>4. QED
        BY <4>2, <4>3
    <3>2. CASE recv_pc # "received"
      <4>1. Held = Skip /\ Pending = Len(ring)
        BY <1>0, <1>b, <3>2 DEF Held, Skip, Pending, TypeOK
      <4>2. ring[k] = SlotAfter(free_tail_idx, Held + k)
        BY <1>0, <4>1 DEF NodesInOrder
      <4>3. QED
        BY <3>0, <3>2, <4>1, <4>2 DEF Unread, Pending
    <3>3. QED
      BY <3>1, <3>2
  <2>2. Unread = [k \in 1 .. Pending |-> Unread[k]]
    BY DEF Unread, Pending
  <2>3. QED
    BY <2>1, <2>2 DEF Window
<1>4. QED
  BY <1>1, <1>2, <1>3

\* ntp2nts_shm.c over shm_mempool.c implements the FIFO of messages.
THEOREM ChannelImplementsFifo == Spec => ImplementsChannel
<1> USE DEF Channel!FifoInit, Channel!FifoNext, Channel!fifoVars, Channel!Offer, Channel!Put,
            Channel!Take, Channel!Peek, Channel!Drop
<1>1. Init => Channel!FifoInit
  BY DEF Init, Unread
<1>1a. IndInv => UnreadWindow
  BY UnreadIsWindow DEF UnreadWindow
<1>2. (IndInv => UnreadWindow)'
  BY <1>1a, PTL
<1>3. IndInv /\ IndInv' /\ [Next]_vars => [Channel!FifoNext]_(Channel!fifoVars)
  <2> SUFFICES ASSUME IndInv, IndInv', [Next]_vars
               PROVE  Channel!FifoNext \/ UNCHANGED <<Unread, outgoing_msg, out>>
    OBVIOUS
  <2> DEFINE start == SlotAfter(free_tail_idx, Skip + 1)
  <2>0. /\ mem \in [Slots -> Messages] /\ free_tail_idx \in Slots /\ ring \in Seq(Slots)
        /\ send_pc # "idle" => send_node \in Slots
    BY DEF IndInv, TypeOK
  <2>u. /\ Unread = Window(mem, start, Pending) /\ start \in Slots
        /\ Pending \in 0 .. Capacity - 2 /\ Skip \in 0 .. 1
        /\ Skip + Pending = Held + Len(ring) /\ Skip + Pending \in 0 .. Capacity - 2
        /\ \A k \in 0 .. Pending : SlotAfter(start, k) = SlotAfter(free_tail_idx, Skip + 1 + k)
    BY UnreadIsWindow
  <2>v. Unread' = Window(mem', start', Pending')
    BY <1>2 DEF UnreadWindow
  <2>1. CASE ntpacket_alloc
    BY <2>1 DEF ntpacket_alloc, Unread, consumer
  <2>2. ASSUME NEW m \in Messages, Fill(m)
        PROVE  Channel!Offer(m)
    <3>1. UNCHANGED <<start, Pending, out>> /\ outgoing_msg' = m
      BY <2>2 DEF Fill, pool, consumer, Skip, Pending
    <3>2. mem' = [mem EXCEPT ![send_node] = m] /\ send_node \in Slots
      BY <2>2, <2>0 DEF Fill
    <3>3. send_node = SlotAfter(start, Pending)
      <4>1. Allocated = 1
        BY <2>2 DEF Fill, Allocated
      <4>2. Outstanding = Skip + 1 + Pending
        BY <4>1, <2>0, <2>u DEF Outstanding, Held
      <4>3. send_node = SlotAfter(free_tail_idx, Outstanding)
        BY <4>1 DEF IndInv, NodesInOrder
      <4>4. Pending \in 0 .. Pending
        BY <2>u
      <4>5. QED
        BY <4>2, <4>3, <4>4, <2>u
    <3>4. Pending \in 0 .. Capacity - 1 /\ Pending \in Pending .. Capacity - 1
      BY <2>u, CapacityAssumption
    <3>5. \A k \in 1 .. Pending : SlotAfter(start, k - 1) \in Slots \ {send_node}
      <4> HIDE DEF start
      <4>1. QED
        BY <2>u, <3>3, <3>4, SlotOutsideWindow
    <3>6. Window(mem', start, Pending) = Window(mem, start, Pending)
      <4> HIDE DEF start
      <4>1. QED
        BY <2>0, <3>2, <3>5 DEF Window
    <3>7. QED
      BY <2>u, <2>v, <3>1, <3>6
  <2>3. CASE ntp_shm_send
    <3>1. UNCHANGED <<start, mem, out, outgoing_msg>> /\ mem[send_node] = outgoing_msg
      BY <2>3 DEF ntp_shm_send, pool, consumer, Skip, IndInv
    <3>2. Pending' = Pending + 1 /\ Pending < RingBound + 1 /\ Len(ring') = Len(ring) + 1
      <4>1. send_node \in Slots
        BY <2>3, <2>0 DEF ntp_shm_send
      <4>2. Len(ring') = Len(ring) + 1 /\ Len(ring) < RingBound /\ Len(ring) \in Nat
        BY <2>3, <2>0, <4>1 DEF ntp_shm_send
      <4>3. QED
        BY <2>3, <4>2, PoolAssumption DEF ntp_shm_send, consumer, Pending
    <3>3. send_node = SlotAfter(start, Pending)
      <4>1. Allocated = 1
        BY <2>3 DEF ntp_shm_send, Allocated
      <4>2. Outstanding = Skip + 1 + Pending
        BY <4>1, <2>0, <2>u DEF Outstanding, Held
      <4>3. send_node = SlotAfter(free_tail_idx, Outstanding)
        BY <4>1 DEF IndInv, NodesInOrder
      <4>4. Pending \in 0 .. Pending
        BY <2>u
      <4>5. QED
        BY <4>2, <4>3, <4>4, <2>u
    <3>4. Pending \in 0 .. Capacity - 1 /\ Pending \in 0 .. Capacity
      BY <2>u, CapacityAssumption
    <3>5. Unread' = Append(Unread, outgoing_msg) /\ Len(Unread) = Pending
      <4> HIDE DEF start
      <4>1. Window(mem, start, Pending + 1) = Append(Window(mem, start, Pending), mem[SlotAfter(start, Pending)])
        BY <2>0, <2>u, <3>4, WindowAppend, Zenon
      <4>2. Len(Window(mem, start, Pending)) = Pending
        BY <2>0, <2>u, <3>4, WindowIsSequence, Zenon
      <4>3. QED
        BY <2>u, <2>v, <3>1, <3>2, <3>3, <4>1, <4>2
    <3>6. QED
      BY <3>1, <3>2, <3>5
  <2>4. CASE ntp_shm_recv
    <3>1. UNCHANGED <<start, Pending, mem, out, outgoing_msg>>
      BY <2>4, <2>0 DEF ntp_shm_recv, pool, producer, Skip, Pending
    <3>2. QED
      BY <2>u, <2>v, <3>1
  <2>5. CASE ntp_shm_front
    <3>1. UNCHANGED <<start, Pending, mem, out, outgoing_msg>>
      BY <2>5 DEF ntp_shm_front, pool, producer, Skip, Pending
    <3>2. QED
      BY <2>u, <2>v, <3>1
  <2>6. CASE ntp_shm_pop
    <3>1. ring # <<>>
      BY <2>6 DEF ntp_shm_pop, IndInv, NodesInOrder
    <3>2. UNCHANGED <<start, Pending, mem, out, outgoing_msg>>
      BY <2>6, <2>0, <3>1 DEF ntp_shm_pop, pool, producer, Skip, Pending
    <3>3. QED
      BY <2>u, <2>v, <3>2
  <2>7. CASE Read
    <3>1. UNCHANGED <<mem, outgoing_msg>> /\ out' = mem[recv_node]
      BY <2>7 DEF Read, producer
    <3>2. Skip = 0 /\ Skip' = 1 /\ Pending' = Pending - 1 /\ Pending \in 1 .. Capacity - 1
      BY <2>7, <2>0, <2>u, CapacityAssumption DEF Read, Skip, Pending
    <3>3. recv_node = start
      BY <2>7, <3>2 DEF Read, IndInv, NodesInOrder, Held
    <3>4. start' = increment(start)
      <4>1. 1 \in 0 .. Capacity - 1
        BY CapacityAssumption
      <4>2. increment(SlotAfter(free_tail_idx, 1)) = SlotAfter(free_tail_idx, 1 + 1)
        BY <2>0, <4>1, SlotAfterStep, Zenon
      <4>3. QED
        BY <2>7, <3>2, <4>2 DEF Read, pool
    <3>5. Unread # <<>> /\ out' = Head(Unread) /\ Unread' = Tail(Unread)
      <4> HIDE DEF start
      <4>1. /\ Window(mem, start, Pending) # <<>>
            /\ Head(Window(mem, start, Pending)) = mem[start]
            /\ Window(mem, increment(start), Pending - 1) = Tail(Window(mem, start, Pending))
        <5>1. Pending \in 1 .. Capacity
          BY <3>2, CapacityAssumption
        <5>2. QED
          BY <2>0, <2>u, <5>1, WindowTail, Zenon
      <4>2. QED
        BY <2>u, <2>v, <3>1, <3>2, <3>3, <3>4, <4>1
    <3>6. QED
      BY <3>1, <3>5
  <2>8. CASE ntpacket_free
    <3>1. UNCHANGED <<mem, ring, out, outgoing_msg>> /\ recv_pc = "read" /\ recv_pc' = "idle"
      BY <2>8 DEF ntpacket_free, producer
    <3>2. QED
      BY <3>1 DEF Unread
  <2>9. CASE UNCHANGED vars
    BY <2>9 DEF vars, Unread, producer, consumer
  <2>10. QED
    BY <2>1, <2>2, <2>3, <2>4, <2>5, <2>6, <2>7, <2>8, <2>9 DEF Next, Producer, Consumer
<1>4. QED
  BY <1>1, <1>3, ChannelInvariant, PTL DEF Spec, ImplementsChannel, Channel!FifoSpec
=============================================================================
