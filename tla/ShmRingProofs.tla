--------------------------- MODULE ShmRingProofs ---------------------------
(***************************************************************************)
(* Proofs about ShmRing for every capacity and every set of elements.      *)
(***************************************************************************)
EXTENDS ShmRing, RingIndexProofs

\* Every reachable state of the ring satisfies the inductive invariant.
THEOREM RingInvariant == Spec => []IndInv
<1>1. Init => IndInv
  BY CapacityAssumption DEF Init, IndInv, TypeOK, Slots
<1>2. IndInv /\ [Next]_vars => IndInv'
  <2> SUFFICES ASSUME IndInv, [Next]_vars
               PROVE  IndInv'
    OBVIOUS
  <2> USE DEF IndInv, TypeOK
  <2>1. ASSUME NEW e \in Elements, PushBegin(e)
        PROVE  IndInv'
    BY <2>1 DEF PushBegin, increment
  <2>2. CASE PushCopy
    BY <2>2 DEF PushCopy, increment
  <2>3. CASE PushPublish
    BY <2>3, IncrementWraps, CapacityAssumption DEF PushPublish, Slots
  <2>4. CASE PopBegin
    BY <2>4 DEF PopBegin, ConsumerBegins, empty, increment
  <2>5. CASE PopCopy
    BY <2>5 DEF PopCopy, increment
  <2>6. CASE PopPublish
    BY <2>6, IncrementWraps, CapacityAssumption DEF PopPublish, Slots
  <2>7. CASE FrontBegin
    BY <2>7 DEF FrontBegin, ConsumerBegins, empty, increment
  <2>8. CASE FrontCopy
    BY <2>8 DEF FrontCopy, increment
  <2>9. CASE PlainPop
    <3>1. read_idx' = increment(read_idx) /\ write_idx # read_idx
      BY <2>9, IncrementWraps DEF PlainPop, empty
    <3>2. read_idx' \in Slots
      BY <3>1, IncrementWraps
    <3>3. increment(write_idx) # read_idx'
      BY <3>1, IncrementInjective
    <3>4. QED
      BY <2>9, <3>2, <3>3 DEF PlainPop, increment
  <2>10. CASE UNCHANGED vars
    BY <2>10 DEF vars, increment
  <2>11. QED
    BY <2>1, <2>2, <2>3, <2>4, <2>5, <2>6, <2>7, <2>8, <2>9, <2>10
       DEF Next, Producer, Consumer
<1>3. QED
  BY <1>1, <1>2, PTL DEF Spec

\* The indices stay on the ring, across every wrap of increment.
THEOREM RingTypeOK == Spec => []TypeOK
<1>1. IndInv => TypeOK
  BY DEF IndInv
<1>2. QED
  BY <1>1, RingInvariant, PTL

\* The copies of shmring_push and of shmring_pop or shmring_front never meet on
\* a slot.
THEOREM RingSlotExclusive == Spec => []SlotExclusive
<1>1. IndInv => SlotExclusive
  BY DEF IndInv, TypeOK, SlotExclusive
<1>2. QED
  BY <1>1, RingInvariant, PTL

\* The element that a pop is about to release is the oldest one.
THEOREM RingPopTakesOldest == Spec => []PopTakesOldest
<1>1. IndInv => PopTakesOldest
  <2> SUFFICES ASSUME IndInv, cons.pc = "publish"
               PROVE  Size > 0 /\ cons.buf = Contents[1]
    BY DEF PopTakesOldest
  <2>1. read_idx \in Slots /\ write_idx \in Slots /\ read_idx # write_idx
        /\ data \in [Slots -> Elements] /\ cons.buf = data[read_idx]
    BY DEF IndInv, TypeOK
  <2>2. Size \in 1 .. Capacity - 1
    BY <2>1, DistanceOfRead DEF Size
  <2>3. Contents[1] = data[SlotAfter(read_idx, 0)]
    BY <2>2 DEF Contents, Window
  <2>4. SlotAfter(read_idx, 0) = read_idx
    BY <2>1, CapacityAssumption DEF SlotAfter, Slots
  <2>5. QED
    BY <2>1, <2>2, <2>3, <2>4
<1>2. QED
  BY <1>1, RingInvariant, PTL

-----------------------------------------------------------------------------
(* The ring implements the bounded FIFO.                                   *)

\* Releasing the oldest slot takes the head off the contents.
LEMMA ReleaseIsTail ==
    ASSUME TypeOK, write_idx # read_idx,
           read_idx' = increment(read_idx), UNCHANGED <<write_idx, data>>
    PROVE  /\ Contents # <<>>
           /\ Head(Contents) = data[read_idx]
           /\ Contents' = Tail(Contents)
<1>1. Size \in 1 .. Capacity - 1 /\ Size' = Size - 1
  BY DistanceOfRead DEF TypeOK, Size
<1>2. Contents' = Window(data, increment(read_idx), Size - 1)
  BY <1>1 DEF Contents
<1>3. QED
  <2>1. Size \in 1 .. Capacity
    BY <1>1, CapacityAssumption
  <2>2. QED
    BY <1>1, <1>2, <2>1, WindowTail DEF TypeOK, Contents

\* Publishing a filled slot appends its element to the contents.
LEMMA PublishIsAppend ==
    ASSUME TypeOK, increment(write_idx) # read_idx,
           write_idx' = increment(write_idx), UNCHANGED <<read_idx, data>>
    PROVE  /\ Len(Contents) < Capacity - 1
           /\ Contents' = Append(Contents, data[write_idx])
<1>0. data \in [Slots -> Elements] /\ read_idx \in Slots /\ write_idx \in Slots
  BY DEF TypeOK
<1>1. Size \in 0 .. Capacity - 2 /\ Size' = Size + 1
  BY DistanceOfWrite DEF TypeOK, Size
<1>2. SlotAfter(read_idx, Size) = write_idx
  BY DistanceProperties DEF TypeOK, Size
<1>3. Size \in 0 .. Capacity - 1 /\ Size \in 0 .. Capacity
  BY <1>1, CapacityAssumption
<1>4. Contents' = Window(data, read_idx, Size + 1)
  BY <1>1 DEF Contents
<1>5. Window(data, read_idx, Size + 1) = Append(Contents, data[write_idx])
  BY <1>0, <1>2, <1>3, WindowAppend DEF Contents
<1>6. Len(Contents) = Size
  BY <1>0, <1>3, WindowIsSequence DEF Contents
<1>7. QED
  BY <1>1, <1>4, <1>5, <1>6, CapacityAssumption

\* Filling the slot at write_idx leaves the contents alone.
LEMMA FillLeavesContents ==
    ASSUME TypeOK, NEW e \in Elements, data' = [data EXCEPT ![write_idx] = e],
           UNCHANGED <<read_idx, write_idx>>
    PROVE  Contents' = Contents
<1>0. data \in [Slots -> Elements] /\ read_idx \in Slots /\ write_idx \in Slots
  BY DEF TypeOK
<1>1. Size \in 0 .. Capacity - 1 /\ Size' = Size /\ SlotAfter(read_idx, Size) = write_idx
  BY DistanceProperties DEF TypeOK, Size
<1>2. Size \in Size .. Capacity - 1
  BY <1>1
<1>3. \A k \in 1 .. Size : SlotAfter(read_idx, k - 1) \in Slots \ {write_idx}
  BY <1>0, <1>1, <1>2, SlotOutsideWindow
<1>4. Window(data', read_idx, Size) = Window(data, read_idx, Size)
  BY <1>0, <1>3 DEF Window
<1>5. QED
  BY <1>1, <1>4 DEF Contents

\* shmring.c implements the bounded FIFO.
THEOREM RingImplementsFifo == Spec => ImplementsFifo
<1> USE DEF Fifo!FifoInit, Fifo!FifoNext, Fifo!fifoVars, Fifo!Offer, Fifo!Put, Fifo!Take, Fifo!Peek, Fifo!Drop
<1>1. Init => Fifo!FifoInit
  <2> SUFFICES ASSUME Init PROVE Contents = <<>> /\ prod.element \in Elements /\ out \in Elements
    OBVIOUS
  <2>1. Size = 0
    BY CapacityAssumption DEF Init, Size, Distance
  <2>2. QED
    BY <2>1 DEF Init, Contents, Window
<1>2. IndInv /\ [Next]_vars => [Fifo!FifoNext]_(Fifo!fifoVars)
  <2> SUFFICES ASSUME IndInv, [Next]_vars
               PROVE  Fifo!FifoNext \/ UNCHANGED <<Contents, prod.element, out>>
    OBVIOUS
  <2>0. TypeOK
    BY DEF IndInv
  <2>1. ASSUME NEW e \in Elements, PushBegin(e)
        PROVE  Fifo!Offer(e)
    BY <2>1 DEF PushBegin, Contents, Size
  <2>2. CASE PushCopy
    <3>1. prod.w_idx = write_idx /\ prod.element \in Elements
      BY <2>2 DEF IndInv, TypeOK, PushCopy
    <3>2. Contents' = Contents
      BY <2>0, <2>2, <3>1, FillLeavesContents DEF PushCopy
    <3>3. QED
      BY <2>0, <2>2, <3>2 DEF PushCopy, TypeOK
  <2>3. CASE PushPublish
    <3>1. /\ prod.w_idx = write_idx /\ increment(write_idx) # read_idx
          /\ data[write_idx] = prod.element /\ prod.element \in Elements
      BY <2>3 DEF IndInv, TypeOK, PushPublish
    <3>2. /\ Len(Contents) < Capacity - 1
          /\ Contents' = Append(Contents, prod.element)
          /\ UNCHANGED <<prod.element, out>>
      BY <2>0, <2>3, <3>1, PublishIsAppend DEF PushPublish, TypeOK
    <3>3. QED
      BY <3>1, <3>2
  <2>4. CASE PopBegin
    BY <2>4 DEF PopBegin, ConsumerBegins, Contents, Size
  <2>5. CASE PopCopy
    BY <2>5 DEF PopCopy, Contents, Size
  <2>6. CASE PopPublish
    <3>1. cons.r_idx = read_idx /\ write_idx # read_idx /\ cons.buf = data[read_idx]
      BY <2>6 DEF IndInv, PopPublish
    <3>2. /\ Contents # <<>> /\ Contents' = Tail(Contents)
          /\ out' = Head(Contents) /\ prod' = prod
      BY <2>0, <2>6, <3>1, ReleaseIsTail DEF PopPublish
    <3>3. QED
      BY <3>2
  <2>7. CASE FrontBegin
    BY <2>7 DEF FrontBegin, ConsumerBegins, Contents, Size
  <2>8. CASE FrontCopy
    <3>1. cons.r_idx = read_idx /\ write_idx # read_idx
      BY <2>8 DEF IndInv, FrontCopy
    <3>2. Size \in 1 .. Capacity
      BY <2>0, <3>1, DistanceOfRead, CapacityAssumption DEF TypeOK, Size
    <3>3. Contents # <<>> /\ Head(Contents) = data[read_idx]
      BY <2>0, <3>2, WindowTail DEF TypeOK, Contents
    <3>4. Contents' = Contents /\ out' = data[read_idx] /\ prod' = prod
      BY <2>8, <3>1 DEF FrontCopy, Contents, Size
    <3>5. QED
      BY <3>3, <3>4
  <2>9. CASE PlainPop
    <3>1. read_idx' = increment(read_idx) /\ write_idx # read_idx
      BY <2>0, <2>9, IncrementWraps DEF PlainPop, empty, TypeOK
    <3>2. Contents # <<>> /\ Contents' = Tail(Contents) /\ UNCHANGED <<prod, out>>
      BY <2>0, <2>9, <3>1, ReleaseIsTail DEF PlainPop
    <3>3. QED
      BY <3>2
  <2>10. CASE UNCHANGED vars
    BY <2>10 DEF vars, Contents, Size
  <2>11. QED
    BY <2>1, <2>2, <2>3, <2>4, <2>5, <2>6, <2>7, <2>8, <2>9, <2>10
       DEF Next, Producer, Consumer
<1>3. QED
  BY <1>1, <1>2, RingInvariant, PTL DEF Spec, ImplementsFifo, Fifo!FifoSpec
=============================================================================
