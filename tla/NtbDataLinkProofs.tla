------------------------- MODULE NtbDataLinkProofs -------------------------
(***************************************************************************)
(* Proofs about NtbDataLink for every ring and both update intervals.      *)
(***************************************************************************)
EXTENDS NtbDataLink, RingIndexProofs

\* The front may advance as far as the shadow index allows.
LEMMA OrderOfFront ==
    ASSUME NEW s \in Slots, NEW r \in Slots, NEW f \in Slots,
           Distance(s, r) + Distance(r, f) = Distance(s, f), increment(f) # s
    PROVE  /\ Distance(s, r) + Distance(r, increment(f)) = Distance(s, increment(f))
           /\ Distance(r, increment(f)) = Distance(r, f) + 1
           /\ Distance(r, f) < Capacity - 1
           /\ increment(f) # r
           /\ \A i \in Slots : Distance(r, i) < Distance(r, f) + 1
                                   <=> i = f \/ Distance(r, i) < Distance(r, f)
<1>1. increment(f) = IF f + 1 = Capacity THEN 0 ELSE f + 1
  BY IncrementWraps
<1>2. QED
  BY <1>1, CapacityAssumption DEF Slots, Distance

\* The read index may advance up to the front.
LEMMA OrderOfRead ==
    ASSUME NEW s \in Slots, NEW r \in Slots, NEW f \in Slots,
           Distance(s, r) + Distance(r, f) = Distance(s, f), r # f
    PROVE  /\ Distance(s, increment(r)) + Distance(increment(r), f) = Distance(s, f)
           /\ \A i \in Slots : Distance(increment(r), i) < Distance(increment(r), f)
                                   <=> i # r /\ Distance(r, i) < Distance(r, f)
<1>1. increment(r) = IF r + 1 = Capacity THEN 0 ELSE r + 1
  BY IncrementWraps
<1>2. QED
  BY <1>1, CapacityAssumption DEF Slots, Distance

\* The shadow index may jump to the read index.
LEMMA OrderOfShadow ==
    ASSUME NEW s \in Slots, NEW r \in Slots, NEW f \in Slots,
           Distance(s, r) + Distance(r, f) = Distance(s, f)
    PROVE  /\ Distance(r, r) + Distance(r, f) = Distance(r, f)
           /\ increment(f) # s => increment(f) # r
<1>1. increment(f) = IF f + 1 = Capacity THEN 0 ELSE f + 1
  BY IncrementWraps
<1>2. QED
  BY <1>1, CapacityAssumption DEF Slots, Distance

-----------------------------------------------------------------------------

\* Every step keeps the types, a step that drops a packet included.
LEMMA StepTypeOK ==
    ASSUME TypeOK, [Next]_vars
    PROVE  TypeOK'
<1>1. \A i \in Slots : next_index(i) \in Slots
  BY IncrementWraps
<1>2. ASSUME NEW p \in Packets, EnqueueBegin(p)
      PROVE  TypeOK'
  BY <1>2 DEF EnqueueBegin, TypeOK, slots
<1>3. CASE WriteHeader
  BY <1>3 DEF WriteHeader, TypeOK
<1>4. CASE WritePayload
  <2>1. send.packet.data \in Data
    BY DEF TypeOK, Packets
  <2>2. QED
    BY <1>1, <1>4, <2>1 DEF WritePayload, TypeOK
<1>5. CASE Poll
  <2>1. recv_packet_counter' \in 0 .. IDX_UPDATE_INTERVAL - 1
    BY <1>5, IntervalAssumption, CapacityAssumption DEF Poll, TypeOK
  <2>2. QED
    BY <1>5, <2>1 DEF Poll, TypeOK, slots
<1>6. CASE Deliver
  BY <1>1, <1>6 DEF Deliver, AfterPacket, TypeOK
<1>c. CASE CopyPacket
  BY <1>c DEF CopyPacket, TypeOK, slots
<1>n. CASE Notify
  BY <1>n DEF Notify, AfterPacket, TypeOK, slots
<1>a. CASE AppTakes \/ OtherEvent
  BY <1>a DEF AppTakes, OtherEvent, TypeOK, slots
<1>7. CASE DropPacket
  BY <1>1, <1>7 DEF DropPacket, TypeOK
<1>8. CASE trans_data_link_cur_index
  BY <1>8 DEF trans_data_link_cur_index, TypeOK, slots
<1>9. ASSUME NEW c \in Conns, Close(c)
      PROVE  TypeOK'
  BY <1>9 DEF Close, TypeOK, slots
<1>10. CASE UNCHANGED vars
  BY <1>10 DEF vars, slots, TypeOK
<1>11. QED
  BY <1>2, <1>3, <1>4, <1>5, <1>6, <1>c, <1>n, <1>a, <1>7, <1>8, <1>9, <1>10 DEF Next, Sender, Receiver

\* A step that drops no packet keeps sender and receiver in step.
LEMMA StepInStep ==
    ASSUME TypeOK, InStep, [Next]_vars, ~ DropPacket
    PROVE  InStep'
<1>0. /\ TypeOK /\ wr \in Slots /\ rd \in Slots /\ shadow \in Slots
      /\ FullSlots
      /\ msg_len \in [Slots -> BOOLEAN]
  BY DEF InStep, TypeOK
<1>w. increment(wr) \in Slots /\ next_index(wr) = increment(wr)
      /\ increment(rd) \in Slots /\ next_index(rd) = increment(rd)
  BY <1>0, IncrementWraps
<1>f. Front \in Slots /\ Distance(shadow, rd) + Distance(rd, Front) = Distance(shadow, Front)
  BY <1>0, <1>w DEF InStep, InOrder, InFlight, Front
<1>1. ASSUME NEW p \in Packets, EnqueueBegin(p)
      PROVE  InStep'
  <2>1. UNCHANGED <<slots, wr, shadow, rd, recv_packet_counter, recv, room, out, outPayload, Front>>
    BY <1>1 DEF EnqueueBegin, Front
  <2>2. increment(wr) # shadow
    BY <1>1, <1>w DEF EnqueueBegin
  <2>3. QED
    BY <2>1, <2>2 DEF InStep, InOrder, FullSlots, InFlight, slots
<1>2. CASE WriteHeader
  <2>1. Front = wr /\ Front' = increment(wr) /\ increment(wr) # shadow
    BY <1>2 DEF WriteHeader, Front, InStep
  <2>2. /\ Distance(shadow, rd) + Distance(rd, increment(wr)) = Distance(shadow, increment(wr))
        /\ Distance(rd, increment(wr)) = Distance(rd, wr) + 1
        /\ increment(wr) # rd
        /\ \A i \in Slots : Distance(rd, i) < Distance(rd, wr) + 1
                                 <=> i = wr \/ Distance(rd, i) < Distance(rd, wr)
    BY <1>0, <1>f, <2>1, OrderOfFront
  <2>3. UNCHANGED <<wr, shadow, rd, recv>>
    BY <1>2 DEF WriteHeader
  <2>4. InOrder' /\ FullSlots'
    <3>1. InOrder'
      BY <2>1, <2>2, <2>3 DEF InOrder, InFlight
    <3>2. \A i \in Slots : msg_len'[i] <=> i = wr \/ msg_len[i]
      BY <1>2, <1>0 DEF WriteHeader
    <3>3. \A i \in Slots : msg_len[i] <=> Distance(rd, i) < Distance(rd, wr)
      BY <1>0, <2>1 DEF FullSlots, InFlight
    <3>4. \A i \in Slots : msg_len'[i] <=> Distance(rd, i) < Distance(rd, increment(wr))
      BY <2>2, <3>2, <3>3
    <3>5. QED
      BY <2>1, <2>3, <3>1, <3>4 DEF FullSlots, InFlight
  <2>5. QED
    BY <1>2, <1>0, <2>1, <2>2, <2>3, <2>4 DEF WriteHeader, InStep
<1>3. CASE WritePayload
  <2>1. Front = increment(wr) /\ Front' = increment(wr)
    BY <1>3, <1>w DEF WritePayload, Front
  <2>2. UNCHANGED <<msg_len, shadow, rd, recv>>
    BY <1>3 DEF WritePayload
  <2>3. InOrder' /\ FullSlots'
    BY <2>1, <2>2 DEF InStep, InOrder, FullSlots, InFlight
  <2>4. QED
    BY <1>3, <2>1, <2>2, <2>3 DEF WritePayload, InStep
<1>4. CASE Poll
  <2>1. UNCHANGED <<slots, wr, send, rd, out, outPayload, Front>>
    BY <1>4 DEF Poll, Front
  <2>2. /\ Distance(rd, rd) + Distance(rd, Front) = Distance(rd, Front)
        /\ increment(Front) # shadow => increment(Front) # rd
    BY <1>0, <1>f, OrderOfShadow
  <2>3. shadow' \in {rd, shadow}
    BY <1>4 DEF Poll
  <2>4. InOrder'
    BY <2>1, <2>2, <2>3, <1>f DEF InOrder, InFlight
  <2>5. send.pc = "header" => increment(wr) # shadow'
    BY <2>2, <2>3 DEF InStep, Front
  <2>6. rd # Front
    <3>1. Distance(rd, rd) < Distance(rd, Front)
      BY <1>4, <1>0 DEF Poll, FullSlots, InFlight
    <3>2. QED
      BY <3>1, <1>0, <1>f DEF Distance, Slots
  <2>7. QED
    BY <2>1, <2>4, <2>5, <2>6 DEF InStep, FullSlots, InFlight, slots
<1>5. CASE Deliver
  <2>1. rd # Front /\ rd' = increment(rd) /\ UNCHANGED <<shadow, Front, send, wr>>
    BY <1>5, <1>w DEF Deliver, Front, InStep
  <2>2. /\ Distance(shadow, increment(rd)) + Distance(increment(rd), Front) = Distance(shadow, Front)
        /\ \A i \in Slots : Distance(increment(rd), i) < Distance(increment(rd), Front)
                                 <=> i # rd /\ Distance(rd, i) < Distance(rd, Front)
    BY <1>0, <1>f, <2>1, OrderOfRead
  <2>3. InOrder'
    BY <2>1, <2>2 DEF InOrder, InFlight
  <2>4. FullSlots'
    <3>1. \A i \in Slots : msg_len'[i] <=> i # rd /\ msg_len[i]
      BY <1>5, <1>0 DEF Deliver
    <3>2. \A i \in Slots : msg_len[i] <=> Distance(rd, i) < Distance(rd, Front)
      BY <1>0 DEF FullSlots, InFlight
    <3>3. QED
      BY <2>1, <2>2, <3>1, <3>2 DEF FullSlots, InFlight
  <2>5. recv' \notin {"deliver", "send"}
    BY <1>5 DEF Deliver, AfterPacket
  <2>6. QED
    BY <2>1, <2>3, <2>4, <2>5 DEF InStep
<1>c. CASE CopyPacket \/ Notify \/ AppTakes \/ OtherEvent
  <2>1. UNCHANGED <<slots, wr, shadow, send, rd, Front>>
    BY <1>c DEF CopyPacket, Notify, AppTakes, OtherEvent, Front
  <2>2. recv' \in {"deliver", "send"} => recv \in {"deliver", "send"}
    BY <1>c DEF CopyPacket, Notify, AfterPacket, AppTakes, OtherEvent
  <2>3. QED
    BY <2>1, <2>2 DEF InStep, InOrder, FullSlots, InFlight, slots
<1>6. CASE trans_data_link_cur_index
  <2>1. UNCHANGED <<slots, wr, send, rd, Front>> /\ shadow' = rd /\ recv' = "poll"
    BY <1>6 DEF trans_data_link_cur_index, Front
  <2>2. /\ Distance(rd, rd) + Distance(rd, Front) = Distance(rd, Front)
        /\ increment(Front) # shadow => increment(Front) # rd
    BY <1>0, <1>f, OrderOfShadow
  <2>3. send.pc = "header" => increment(wr) # rd
    BY <2>2 DEF InStep, Front
  <2>4. QED
    BY <2>1, <2>2, <2>3 DEF InStep, InOrder, FullSlots, InFlight, slots
<1>7. CASE UNCHANGED vars
  BY <1>7 DEF vars, slots, InStep, InOrder, FullSlots, InFlight, Front
<1>8. ASSUME NEW c \in Conns, Close(c)
      PROVE  InStep'
  BY <1>8 DEF Close, slots, InStep, InOrder, FullSlots, InFlight, Front
<1>9. QED
  BY <1>1, <1>2, <1>3, <1>4, <1>5, <1>c, <1>6, <1>7, <1>8 DEF Next, Sender, Receiver

\* Every reachable state of the link satisfies the inductive invariant.
THEOREM LinkInvariant == Spec => []IndInv
<1>1. Init => IndInv
  <2> SUFFICES ASSUME Init PROVE IndInv
    OBVIOUS
  <2>1. TypeOK
    <3>1. out \in Packets /\ out.data \in Data
      BY DEF Init, Packets
    <3>2. 0 \in Slots
      BY CapacityAssumption DEF Slots
    <3>3. dropped \in BOOLEAN
      BY Zenon DEF Init
    <3>4. QED
      BY <3>1, <3>2, <3>3, IntervalAssumption DEF Init, TypeOK
  <2>2. Front = 0 /\ InFlight = 0
    BY DEF Init, Front, InFlight, Distance
  <2>3. InOrder /\ \A i \in Slots : ~ (Distance(rd, i) < InFlight)
    BY <2>2, CapacityAssumption DEF Init, InOrder, Distance, Slots
  <2>4. QED
    BY <2>1, <2>2, <2>3 DEF Init, IndInv, InStep, FullSlots
<1>2. IndInv /\ [Next]_vars => IndInv'
  <2> SUFFICES ASSUME IndInv, [Next]_vars
               PROVE  IndInv'
    OBVIOUS
  <2>1. CASE ~ dropped /\ ~ DropPacket
    <3>1. TypeOK /\ InStep
      BY <2>1 DEF IndInv
    <3>2. InStep' /\ TypeOK'
      BY <2>1, <3>1, StepInStep, StepTypeOK
    <3>3. QED
      BY <3>2 DEF IndInv
  <2>2. CASE dropped \/ DropPacket
    <3>1. dropped'
      BY <2>2 DEF IndInv, TypeOK, Next, Sender, Receiver, EnqueueBegin, WriteHeader, WritePayload, Poll,
          CopyPacket, Deliver, Notify, AppTakes, OtherEvent, DropPacket, trans_data_link_cur_index, Close, vars
    <3>2. TypeOK'
      BY StepTypeOK DEF IndInv
    <3>3. QED
      BY <3>1, <3>2 DEF IndInv
  <2>3. QED
    BY <2>1, <2>2
<1>3. QED
  BY <1>1, <1>2, PTL DEF Spec

-----------------------------------------------------------------------------

\* The indices and packets of the link stay in range.
THEOREM LinkTypeOK == Spec => []TypeOK
<1>1. IndInv => TypeOK
  BY DEF IndInv
<1>2. QED
  BY <1>1, LinkInvariant, PTL

\* Until a packet is dropped, the shadow index never passes the receiver, nor the
\* receiver the sender.
THEOREM LinkIndexOrder == Spec => []IndexOrder
<1>1. IndInv => IndexOrder
  BY DEF IndInv, IndexOrder, InStep
<1>2. QED
  BY <1>1, LinkInvariant, PTL

\* Until ntp_recv_data_to_buf drops a packet of a closed connection,
\* ntpacket_enqueue never overwrites one that is not delivered.
THEOREM LinkNoOverwrite == Spec => []NoOverwrite
<1>1. IndInv => NoOverwrite
  <2> SUFFICES ASSUME IndInv, ~ dropped, send.pc = "header"
               PROVE  ~ msg_len[wr]
    BY DEF NoOverwrite
  <2>1. wr \in Slots /\ rd \in Slots /\ Front = wr
    BY DEF IndInv, TypeOK, Front
  <2>2. msg_len[wr] <=> Distance(rd, wr) < Distance(rd, wr)
    BY <2>1 DEF IndInv, InStep, FullSlots, InFlight
  <2>3. QED
    BY <2>1, <2>2, DistanceProperties, CapacityAssumption
<1>2. QED
  BY <1>1, LinkInvariant, PTL

\* The data ring and its shadow index implement a FIFO of packet headers until
\* a packet of a closed connection is dropped.
THEOREM LinkImplementsFifo == Spec => ImplementsPacketFifo
<1> USE DEF PacketFifo!FifoInit, PacketFifo!FifoNext, PacketFifo!fifoVars, PacketFifo!Offer,
            PacketFifo!Put, PacketFifo!Take, PacketFifo!Peek, PacketFifo!Drop
<1>1. Init => PacketFifo!FifoInit
  <2> SUFFICES ASSUME Init PROVE PacketFifo!FifoInit
    OBVIOUS
  <2>1. InFlight = 0
    BY DEF Init, InFlight, Front, Distance
  <2>2. Window(header, rd, 0) = <<>>
    BY DEF Window
  <2>3. QED
    BY <2>1, <2>2 DEF Init
<1>2. IndInv /\ [Next]_vars => [~ dropped' => PacketFifo!FifoNext]_(PacketFifo!fifoVars)
  <2> DEFINE queue == Window(header, rd, InFlight)
  <2> SUFFICES ASSUME IndInv, [Next]_vars, ~ dropped'
               PROVE  PacketFifo!FifoNext \/ UNCHANGED <<queue, send.packet, out>>
    OBVIOUS
  <2>d. InStep /\ ~ DropPacket
    BY DEF IndInv, TypeOK, Next, Sender, Receiver, EnqueueBegin, WriteHeader, WritePayload, Poll, CopyPacket,
        Deliver, Notify, AppTakes, OtherEvent, DropPacket, trans_data_link_cur_index, Close, vars
  <2>0. /\ wr \in Slots /\ rd \in Slots /\ shadow \in Slots
        /\ header \in [Slots -> Packets] /\ send.packet \in Packets
        /\ send \in [pc : {"idle", "header", "payload"}, packet : Packets]
    BY DEF IndInv, TypeOK
  <2>w. increment(wr) \in Slots /\ next_index(wr) = increment(wr)
        /\ increment(rd) \in Slots /\ next_index(rd) = increment(rd)
    BY <2>0, IncrementWraps
  <2>f. Front \in Slots /\ Distance(shadow, rd) + Distance(rd, Front) = Distance(shadow, Front)
    BY <2>0, <2>w, <2>d DEF InStep, InOrder, InFlight, Front
  <2>n. InFlight \in 0 .. Capacity - 1 /\ SlotAfter(rd, InFlight) = Front
    BY <2>0, <2>f, DistanceProperties DEF InFlight
  <2>1. ASSUME NEW p \in Packets, EnqueueBegin(p)
        PROVE  PacketFifo!Offer(p)
    <3>1. UNCHANGED <<header, rd, Front, out>> /\ send'.packet = p
      BY <2>1, <2>0 DEF EnqueueBegin, Front, slots
    <3>2. QED
      BY <3>1 DEF InFlight
  <2>2. CASE WriteHeader
    <3>1. /\ Front = wr /\ Front' = increment(wr) /\ increment(wr) # shadow
          /\ UNCHANGED <<rd, out>> /\ send'.packet = send.packet
          /\ header' = [header EXCEPT ![wr] = send.packet]
      BY <2>2, <2>0, <2>d DEF WriteHeader, Front, InStep
    <3>2. /\ Distance(rd, increment(wr)) = Distance(rd, wr) + 1
          /\ Distance(rd, wr) < Capacity - 1
      BY <2>0, <2>f, <3>1, OrderOfFront
    <3>3. InFlight' = InFlight + 1 /\ InFlight < Capacity - 1 /\ InFlight + 1 \in 0 .. Capacity
          /\ InFlight \in 0 .. Capacity /\ InFlight \in InFlight .. Capacity - 1
      BY <2>n, <3>1, <3>2, CapacityAssumption DEF InFlight
    <3>4. header' \in [Slots -> Packets] /\ header'[SlotAfter(rd, InFlight)] = send.packet
      BY <2>0, <2>n, <3>1
    <3>5. \A k \in 1 .. InFlight : SlotAfter(rd, k - 1) \in Slots \ {wr}
      BY <2>0, <2>n, <3>1, <3>3, SlotOutsideWindow
    <3>6. Window(header', rd, InFlight) = Window(header, rd, InFlight)
      <4>1. \A k \in 1 .. InFlight : header'[SlotAfter(rd, k - 1)] = header[SlotAfter(rd, k - 1)]
        BY <2>0, <3>1, <3>5
      <4>2. QED
        BY <4>1 DEF Window
    <3>7. Window(header', rd, InFlight + 1) = Append(Window(header', rd, InFlight), header'[SlotAfter(rd, InFlight)])
      BY <2>0, <2>n, <3>4, WindowAppend, Zenon
    <3>8. Len(Window(header, rd, InFlight)) = InFlight
      <4>1. header \in [Slots -> Packets] /\ rd \in Slots /\ InFlight \in 0 .. Capacity
        BY <2>0, <3>3
      <4>2. QED
        BY <4>1, WindowIsSequence, ZenonT(30)
    <3>9. queue' = Append(queue, send.packet) /\ Len(queue) < Capacity - 1
      BY <3>1, <3>3, <3>4, <3>6, <3>7, <3>8
    <3>10. QED
      BY <3>1, <3>9
  <2>3. CASE WritePayload
    <3>1. UNCHANGED <<header, rd, Front, out>> /\ send'.packet = send.packet
      BY <2>3, <2>0, <2>w DEF WritePayload, Front
    <3>2. QED
      BY <3>1 DEF InFlight
  <2>4. CASE Poll
    <3>1. UNCHANGED <<header, rd, Front, out, send>>
      BY <2>4 DEF Poll, Front, slots
    <3>2. QED
      BY <3>1 DEF InFlight
  <2>5. CASE Deliver
    <3>1. /\ rd # Front /\ rd' = increment(rd) /\ out' = header[rd]
          /\ UNCHANGED <<header, Front, send>>
      BY <2>5, <2>w, <2>d DEF Deliver, Front, InStep
    <3>2. InFlight \in 1 .. Capacity /\ InFlight' = InFlight - 1
      BY <2>0, <2>f, <3>1, DistanceOfRead, CapacityAssumption DEF InFlight
    <3>3. /\ queue # <<>> /\ Head(queue) = header[rd]
          /\ Window(header, increment(rd), InFlight - 1) = Tail(queue)
      BY <2>0, <3>2, WindowTail, Zenon
    <3>4. QED
      BY <3>1, <3>2, <3>3
  <2>6. CASE trans_data_link_cur_index
    <3>1. UNCHANGED <<header, rd, Front, out, send>>
      BY <2>6 DEF trans_data_link_cur_index, Front, slots
    <3>2. QED
      BY <3>1 DEF InFlight
  <2>c. CASE CopyPacket \/ Notify \/ AppTakes \/ OtherEvent
    <3>1. UNCHANGED <<header, rd, Front, out, send>>
      BY <2>c DEF CopyPacket, Notify, AppTakes, OtherEvent, Front, slots
    <3>2. QED
      BY <3>1 DEF InFlight
  <2>7. CASE UNCHANGED vars
    BY <2>7 DEF vars, slots, InFlight, Front
  <2>8. ASSUME NEW c \in Conns, Close(c)
        PROVE  UNCHANGED <<queue, send.packet, out>>
    BY <2>8 DEF Close, slots, InFlight, Front
  <2>9. QED
    BY <2>d, <2>1, <2>2, <2>3, <2>4, <2>5, <2>c, <2>6, <2>7, <2>8 DEF Next, Sender, Receiver
<1>3. QED
  BY <1>1, <1>2, LinkInvariant, PTL DEF Spec, ImplementsPacketFifo
=============================================================================
