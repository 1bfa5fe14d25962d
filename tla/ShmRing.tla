------------------------------ MODULE ShmRing ------------------------------
(***************************************************************************)
(* libfdu-utils/shmring.c: the single-producer single-consumer ring in     *)
(* POSIX shared memory between two processes.  One slot is kept empty, so  *)
(* that write_idx = read_idx means "empty".                                *)
(*                                                                         *)
(* A call is split where the other process can get in between: the loads   *)
(* and the test, the memcpy of the element, and the store that publishes   *)
(* the new index.  The element memcpy is not atomic; SlotExclusive says    *)
(* that it need not be.  The acquire/release accesses to the two indices   *)
(* make this interleaving the memory model of the code.                    *)
(***************************************************************************)
EXTENDS RingIndex

CONSTANT Elements \* the element values (node indices in ntp2nts_shm.c)

VARIABLES
    write_idx, read_idx, \* the two shared indices
    data,                \* the slots
    prod,                \* the producer's call: pc, w_idx, element
    cons,                \* the consumer's call: pc, r_idx, buf
    out                  \* the caller's buffer of the last successful call

vars == <<write_idx, read_idx, data, prod, cons, out>>

empty(w, r) == w = r

Init ==
    /\ write_idx = 0
    /\ read_idx = 0
    /\ data \in [Slots -> Elements]
    /\ out \in Elements
    /\ prod = [pc |-> "idle", w_idx |-> 0, element |-> out]
    /\ cons = [pc |-> "idle", r_idx |-> 0, buf |-> out]

-----------------------------------------------------------------------------
(* shmring_push.  On a full ring the call returns FAILED and has changed   *)
(* nothing: a stuttering step.                                             *)

PushBeginNoFullTest(e) ==
    /\ prod.pc = "idle"
    /\ prod' = [pc |-> "copy", w_idx |-> write_idx, element |-> e]
    /\ UNCHANGED <<write_idx, read_idx, data, cons, out>>

\* Load both indices and find a free slot.
PushBegin(e) ==
    /\ prod.pc = "idle"
    /\ increment(write_idx) # read_idx
    /\ prod' = [pc |-> "copy", w_idx |-> write_idx, element |-> e]
    /\ UNCHANGED <<write_idx, read_idx, data, cons, out>>

PushCopyToNextSlot ==
    /\ prod.pc = "copy"
    /\ data' = [data EXCEPT ![increment(prod.w_idx)] = prod.element]
    /\ prod' = [prod EXCEPT !.pc = "publish"]
    /\ UNCHANGED <<write_idx, read_idx, cons, out>>

\* memcpy(self->data[w_idx], element, ele_len)
PushCopy ==
    /\ prod.pc = "copy"
    /\ data' = [data EXCEPT ![prod.w_idx] = prod.element]
    /\ prod' = [prod EXCEPT !.pc = "publish"]
    /\ UNCHANGED <<write_idx, read_idx, cons, out>>

PushPublish ==
    /\ prod.pc = "publish"
    /\ write_idx' = increment(prod.w_idx)
    /\ prod' = [prod EXCEPT !.pc = "idle"]
    /\ UNCHANGED <<read_idx, data, cons, out>>

-----------------------------------------------------------------------------
(* shmring_pop, shmring_front, shmring_plain_pop.  On an empty ring they   *)
(* return FAILED and have changed nothing.                                 *)

ConsumerBegins(pc) ==
    /\ cons.pc = "idle"
    /\ ~empty(write_idx, read_idx)
    /\ cons' = [cons EXCEPT !.pc = pc, !.r_idx = read_idx]
    /\ UNCHANGED <<write_idx, read_idx, data, prod, out>>

PopBegin == ConsumerBegins("copy")

\* memcpy(element, self->data[r_idx], ele_len)
PopCopy ==
    /\ cons.pc = "copy"
    /\ cons' = [cons EXCEPT !.pc = "publish", !.buf = data[cons.r_idx]]
    /\ UNCHANGED <<write_idx, read_idx, data, prod, out>>

PopPublishNoStore ==
    /\ cons.pc = "publish"
    /\ out' = cons.buf
    /\ cons' = [cons EXCEPT !.pc = "idle"]
    /\ UNCHANGED <<read_idx, write_idx, data, prod>>

PopPublish ==
    /\ cons.pc = "publish"
    /\ read_idx' = increment(cons.r_idx)
    /\ out' = cons.buf
    /\ cons' = [cons EXCEPT !.pc = "idle"]
    /\ UNCHANGED <<write_idx, data, prod>>

FrontBegin == ConsumerBegins("peek")

FrontCopy ==
    /\ cons.pc = "peek"
    /\ cons' = [cons EXCEPT !.pc = "idle", !.buf = data[cons.r_idx]]
    /\ out' = data[cons.r_idx]
    /\ UNCHANGED <<write_idx, read_idx, data, prod>>

PlainPop ==
    /\ cons.pc = "idle"
    /\ ~empty(write_idx, read_idx)
    /\ read_idx' = next_index(read_idx)
    /\ UNCHANGED <<write_idx, data, prod, cons, out>>

-----------------------------------------------------------------------------

Producer == PushCopy \/ PushPublish \/ \E e \in Elements : PushBegin(e)

Consumer == PopBegin \/ PopCopy \/ PopPublish \/ FrontBegin \/ FrontCopy \/ PlainPop

Next == Producer \/ Consumer

Spec == Init /\ [][Next]_vars

\* A push that has begun goes on to its end, and the consumer keeps popping
\* (the receive loops of ntp2nts_shm.c retry until the ring has an element).
FairSpec ==
    /\ Spec
    /\ WF_vars(PushCopy) /\ WF_vars(PushPublish)
    /\ WF_vars(PopCopy) /\ WF_vars(PopPublish) /\ WF_vars(FrontCopy)
    /\ SF_vars(PopBegin)

-----------------------------------------------------------------------------
(* What the ring holds: the slots from read_idx up to write_idx.           *)

Size == Distance(read_idx, write_idx)

Contents == Window(data, read_idx, Size)

\* The state of both processes has the shape the code gives it; an index is
\* always a slot number.
TypeOK ==
    /\ write_idx \in Slots
    /\ read_idx \in Slots
    /\ data \in [Slots -> Elements]
    /\ out \in Elements
    /\ prod \in [pc : {"idle", "copy", "publish"}, w_idx : Slots, element : Elements]
    /\ cons \in [pc : {"idle", "copy", "publish", "peek"}, r_idx : Slots, buf : Elements]

\* The memcpy of shmring_push into slot w_idx and the memcpy of shmring_pop or
\* shmring_front out of slot r_idx never overlap on one slot: the index test of
\* either side, made before the copy, still protects the slot during it.
SlotExclusive ==
    ~ /\ prod.pc = "copy"
      /\ cons.pc \in {"copy", "peek"}
      /\ prod.w_idx = cons.r_idx

\* What a pop copied out of its slot is still the oldest element when the pop
\* stores read_idx: nothing that shmring_push did in between replaced it.
PopTakesOldest ==
    cons.pc = "publish" => Size > 0 /\ cons.buf = Contents[1]

\* Why the ring works: during a call the caller's own index has not moved, and
\* the test it passed (not full, not empty) still holds, since the other side
\* can only make it more true.
IndInv ==
    /\ TypeOK
    /\ prod.pc # "idle" => prod.w_idx = write_idx /\ increment(write_idx) # read_idx
    /\ prod.pc = "publish" => data[write_idx] = prod.element
    /\ cons.pc # "idle" => cons.r_idx = read_idx /\ write_idx # read_idx
    /\ cons.pc = "publish" => cons.buf = data[read_idx]

Fifo == INSTANCE BoundedFifo WITH Bound <- Capacity - 1, queue <- Contents,
                                  inp <- prod.element

\* shmring_push, shmring_pop, shmring_front and shmring_plain_pop, interleaved
\* step by step, implement the bounded FIFO of the elements that the callers of
\* shmring_push passed: none is lost, duplicated,
\* reordered or torn, and the ring never holds more than Capacity - 1.
ImplementsFifo == Fifo!FifoSpec

\* A ring that is full is not full for ever while its consumer pops: a
\* retrying shmring_push (ntp_shm_send) gets its slot.
FullRingDrains == (Size = Capacity - 1) ~> (Size < Capacity - 1)
=============================================================================
