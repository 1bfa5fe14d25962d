---------------------------- MODULE BoundedFifo ----------------------------
(***************************************************************************)
(* What a ring of the shared-memory libraries promises to its users, be    *)
(* there one producer or several: a FIFO of at most Bound elements.  inp   *)
(* is the element the producer last offered, out the element the consumer  *)
(* was last given.                                                         *)
(***************************************************************************)
EXTENDS Naturals, Sequences

CONSTANTS Bound,   \* the number of elements the ring can hold
          Elements \* what is transferred

VARIABLES queue,   \* the elements published and not yet released
          inp,     \* the element the producer offers
          out      \* the element last copied out to the consumer

fifoVars == <<queue, inp, out>>

FifoInit == queue = <<>> /\ inp \in Elements /\ out \in Elements

\* The producer calls push with an element.
Offer(e) ==
    /\ inp' = e
    /\ UNCHANGED <<queue, out>>

\* The producer publishes the element it offered.
Put ==
    /\ Len(queue) < Bound
    /\ queue' = Append(queue, inp)
    /\ UNCHANGED <<inp, out>>

\* The consumer is given the oldest element and releases its slot.
Take ==
    /\ queue # <<>>
    /\ out' = Head(queue)
    /\ queue' = Tail(queue)
    /\ inp' = inp

\* The consumer is given the oldest element, which stays in the queue.
Peek ==
    /\ queue # <<>>
    /\ out' = Head(queue)
    /\ UNCHANGED <<queue, inp>>

\* The consumer releases the oldest element without looking at it.
Drop ==
    /\ queue # <<>>
    /\ queue' = Tail(queue)
    /\ UNCHANGED <<inp, out>>

FifoNext ==
    \/ \E e \in Elements : Offer(e)
    \/ Put
    \/ Take
    \/ Peek
    \/ Drop

FifoSpec == FifoInit /\ [][FifoNext]_fifoVars
=============================================================================
