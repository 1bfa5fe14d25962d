---------------------------- MODULE SemShmRing -----------------------------
(***************************************************************************)
(* The ring on three POSIX semaphores through which the applications send  *)
(* their requests to the monitor (monitor/src/ntm_shmring.c, of which      *)
(* libnts has a copy) and the monitor and the proxy their epoll messages   *)
(* (libfdu-utils/sem_shmring.c): several producers, one consumer.          *)
(*                                                                         *)
(* A call is split at its semaphore operations.  A wait that blocks can be *)
(* interrupted by a signal that the application handles; sem_wait then     *)
(* fails and the call returns without undoing what it has done.  A         *)
(* producer can be killed between any two steps.                           *)
(***************************************************************************)
EXTENDS RingIndex, FiniteSets

CONSTANTS Producers, \* the threads of the applications
          Elements   \* the messages

ASSUME ProducersAssumption == IsFiniteSet(Producers)

VARIABLES
    mutex_sem, buf_count_sem, spool_signal_sem, \* the semaphores' values
    write_index, read_index, buf,               \* the shared segment
    prod,  \* each producer's call: pc and element
    cons,  \* where the consumer's call is
    out,   \* the consumer's buffer
    dead,  \* the producers that were killed
    size,  \* history: the messages copied in and not yet copied out
    lost   \* history: the waits on mutex_sem that were interrupted

sems == <<mutex_sem, buf_count_sem, spool_signal_sem>>
segment == <<write_index, read_index, buf>>
vars == <<sems, segment, prod, cons, out, dead, size, lost>>

\* The segment is there, and the semaphores have their initial values; they
\* were not left over from an earlier monitor.
Init ==
    /\ mutex_sem = 0 /\ buf_count_sem = Capacity /\ spool_signal_sem = 0
    /\ write_index = 0 /\ read_index = 0
    /\ buf \in [Slots -> Elements]
    /\ out \in Elements
    /\ prod = [p \in Producers |-> [pc |-> "idle", element |-> out]]
    /\ cons = "init"
    /\ dead = {} /\ size = 0 /\ lost = 0

\* Where a call of push is.
Places == {"idle", "wait", "mutex", "copy", "unlock", "signal"}

Goto(p, pc) == prod' = [prod EXCEPT ![p].pc = pc]

At(p, pc) == p \notin dead /\ prod[p].pc = pc

\* "init complete; now set mutex semaphore as 1": an application that attached
\* earlier waits for this.
ntm_shmring_init ==
    /\ cons = "init"
    /\ write_index' = 0 /\ read_index' = 0
    /\ mutex_sem' = mutex_sem + 1
    /\ cons' = "idle"
    /\ UNCHANGED <<buf_count_sem, spool_signal_sem, buf, prod, out, dead, size, lost>>

-----------------------------------------------------------------------------
(* ntm_shmring_push, sem_shmring_push                                      *)

Push(p, e) ==
    /\ At(p, "idle")
    /\ prod' = [prod EXCEPT ![p] = [pc |-> "wait", element |-> e]]
    /\ UNCHANGED <<sems, segment, cons, out, dead, size, lost>>

\* P(buf_count_sem)
GetBuffer(p) ==
    /\ At(p, "wait") /\ buf_count_sem > 0
    /\ buf_count_sem' = buf_count_sem - 1
    /\ Goto(p, "mutex")
    /\ UNCHANGED <<mutex_sem, spool_signal_sem, segment, cons, out, dead, size, lost>>

\* P(mutex_sem)
Lock(p) ==
    /\ At(p, "mutex") /\ mutex_sem > 0
    /\ mutex_sem' = mutex_sem - 1
    /\ Goto(p, "copy")
    /\ UNCHANGED <<buf_count_sem, spool_signal_sem, segment, cons, out, dead, size, lost>>

\* The critical section.
CopyIn(p) ==
    /\ At(p, "copy")
    /\ buf' = [buf EXCEPT ![write_index] = prod[p].element]
    /\ write_index' = next_index(write_index)
    /\ size' = size + 1
    /\ Goto(p, "unlock")
    /\ UNCHANGED <<sems, read_index, cons, out, dead, lost>>

\* V(mutex_sem)
Unlock(p) ==
    /\ At(p, "unlock")
    /\ mutex_sem' = mutex_sem + 1
    /\ Goto(p, "signal")
    /\ UNCHANGED <<buf_count_sem, spool_signal_sem, segment, cons, out, dead, size, lost>>

\* V(spool_signal_sem)
Signal(p) ==
    /\ At(p, "signal")
    /\ spool_signal_sem' = spool_signal_sem + 1
    /\ Goto(p, "idle")
    /\ UNCHANGED <<mutex_sem, buf_count_sem, segment, cons, out, dead, size, lost>>

WaitInterruptedReturnsBuffer(p) ==
    /\ At(p, "wait") /\ buf_count_sem = 0
    /\ buf_count_sem' = buf_count_sem + 1
    /\ Goto(p, "idle")
    /\ UNCHANGED <<mutex_sem, spool_signal_sem, segment, cons, out, dead, size, lost>>

\* The wait for a buffer is interrupted: FAIL, and the push returns false.
WaitInterrupted(p) ==
    /\ At(p, "wait") /\ buf_count_sem = 0
    /\ Goto(p, "idle")
    /\ UNCHANGED <<sems, segment, cons, out, dead, size, lost>>

LockInterruptedUnlocks(p) ==
    /\ At(p, "mutex") /\ mutex_sem = 0
    /\ mutex_sem' = mutex_sem + 1
    /\ lost' = lost + 1
    /\ Goto(p, "idle")
    /\ UNCHANGED <<buf_count_sem, spool_signal_sem, segment, cons, out, dead, size>>

\* The wait for the mutex is interrupted: FAIL, and the buffer that the first
\* wait took is not given back.
LockInterrupted(p) ==
    /\ At(p, "mutex") /\ mutex_sem = 0
    /\ lost' = lost + 1
    /\ Goto(p, "idle")
    /\ UNCHANGED <<sems, segment, cons, out, dead, size>>

\* The producer's process is killed.  Its semaphore operations are not undone.
Kill(p) ==
    /\ p \notin dead
    /\ dead' = dead \cup {p}
    /\ UNCHANGED <<sems, segment, prod, cons, out, size, lost>>

-----------------------------------------------------------------------------
(* ntm_shmring_pop, sem_shmring_pop                                        *)

\* P(spool_signal_sem)
AwaitSignal ==
    /\ cons = "idle" /\ spool_signal_sem > 0
    /\ spool_signal_sem' = spool_signal_sem - 1
    /\ cons' = "copy"
    /\ UNCHANGED <<mutex_sem, buf_count_sem, segment, prod, out, dead, size, lost>>

CopyOutOfNextSlot ==
    /\ cons = "copy"
    /\ out' = buf[increment(read_index)]
    /\ read_index' = increment(read_index)
    /\ size' = size - 1
    /\ cons' = "release"
    /\ UNCHANGED <<sems, write_index, buf, prod, dead, lost>>

\* read_index is the consumer's own: no mutex.
CopyOut ==
    /\ cons = "copy"
    /\ out' = buf[read_index]
    /\ read_index' = increment(read_index)
    /\ size' = size - 1
    /\ cons' = "release"
    /\ UNCHANGED <<sems, write_index, buf, prod, dead, lost>>

ReleaseNoPost ==
    /\ cons = "release"
    /\ cons' = "idle"
    /\ UNCHANGED <<sems, segment, prod, out, dead, size, lost>>

\* V(buf_count_sem)
Release ==
    /\ cons = "release"
    /\ buf_count_sem' = buf_count_sem + 1
    /\ cons' = "idle"
    /\ UNCHANGED <<mutex_sem, spool_signal_sem, segment, prod, out, dead, size, lost>>

-----------------------------------------------------------------------------

PushStep(p) == GetBuffer(p) \/ Lock(p) \/ CopyIn(p) \/ Unlock(p) \/ Signal(p)

Fault(p) == WaitInterrupted(p) \/ LockInterrupted(p) \/ Kill(p)

Producer(p) == PushStep(p) \/ Fault(p) \/ \E e \in Elements : Push(p, e)

Consumer == ntm_shmring_init \/ AwaitSignal \/ CopyOut \/ Release

Next == Consumer \/ \E p \in Producers : Producer(p)

Spec == Init /\ [][Next]_vars

\* The monitor's thread and a push that is past its first wait are never idle
\* while a semaphore lets them on.  Which of the waiting producers a semaphore
\* lets on is left open: sem_wait keeps no order.
FairSpec ==
    /\ Spec
    /\ WF_vars(Consumer)
    /\ WF_vars(\E p \in Producers : Lock(p) \/ CopyIn(p) \/ Unlock(p) \/ Signal(p))

-----------------------------------------------------------------------------

\* The values that the semaphores, the segment and the calls take.
TypeOK ==
    /\ mutex_sem \in {0, 1}
    /\ buf_count_sem \in 0 .. Capacity
    /\ spool_signal_sem \in 0 .. Capacity
    /\ write_index \in Slots /\ read_index \in Slots
    /\ buf \in [Slots -> Elements]
    /\ prod \in [Producers -> [pc : Places, element : Elements]]
    /\ cons \in {"init", "idle", "copy", "release"}
    /\ out \in Elements
    /\ dead \subseteq Producers
    /\ size \in 0 .. Capacity
    /\ lost \in 0 .. Capacity

Holds(p) == prod[p].pc \in {"copy", "unlock"}

Reserved == {p \in Producers : prod[p].pc \in {"mutex", "copy"}}

Unsignalled == {p \in Producers : prod[p].pc \in {"unlock", "signal"}}

One(b) == IF b THEN 1 ELSE 0

\* "We must ensure that only one producer uses write_index at a time": two
\* producers are never between the mutex operations of ntm_shmring_push, also
\* when waits are interrupted, and none gets there before ntm_shmring_init has
\* set the indices.
WriteExclusive ==
    \A p \in Producers :
        Holds(p) => cons # "init" /\ \A q \in Producers : Holds(q) => q = p

\* The copy of ntm_shmring_push into buf[write_index] and the copy of
\* ntm_shmring_pop, which takes no mutex, out of buf[read_index] are never on
\* the same slot, although both indices may be equal on a full ring.
SlotExclusive ==
    cons = "copy" /\ (\E p \in Producers : prod[p].pc = "copy")
        => write_index # read_index

\* No two of the copies of ntm_shmring_push and ntm_shmring_pop ever meet.
PushPopExclusive == WriteExclusive /\ SlotExclusive

\* Every slot is accounted for: free, reserved by a push, filled, or being
\* released by the pop, except one for each interrupted wait on the mutex.
\* Every filled slot was or will be signalled by its push, unless that push
\* died.
SlotsAccounted ==
    /\ buf_count_sem + Cardinality(Reserved) + size + One(cons = "release") + lost
          = Capacity
    /\ spool_signal_sem + Cardinality(Unsignalled) + One(cons = "copy") = size

\* Why the ring works: the mutex is with one producer or free, the slots are
\* accounted for, and the filled ones are those from read_index to write_index.
IndInv ==
    /\ TypeOK
    /\ WriteExclusive
    /\ mutex_sem = 1 => cons # "init" /\ \A p \in Producers : ~Holds(p)
    /\ SlotsAccounted
    /\ write_index = SlotAfter(read_index, size)
    /\ cons = "init" => write_index = 0 /\ read_index = 0

Contents == Window(buf, read_index, size)

\* The message of the push that holds the mutex.
Offered ==
    IF \E p \in Producers : Holds(p) THEN prod[CHOOSE p \in Producers : Holds(p)].element
                                     ELSE CHOOSE e \in Elements : TRUE

Fifo == INSTANCE BoundedFifo WITH Bound <- Capacity, queue <- Contents, inp <- Offered

\* Whatever the interleaving of the applications, the waits that are
\* interrupted and the producers that are killed, the monitor pops the
\* messages in the order in which their pushes held the mutex, each one once
\* and whole; and all Capacity slots can be filled.
ImplementsFifo == Fifo!FifoSpec

\* A producer that died inside ntm_shmring_push keeps what it held.
DiedInside == \E p \in dead : prod[p].pc \in {"mutex", "copy", "unlock", "signal"}

\* A push that finds no free slot does not find it so for ever: the monitor
\* pops and posts buf_count_sem, unless a producer died inside its push or
\* interrupted waits have used up all the slots.
RingDrains == (buf_count_sem = 0) ~> (buf_count_sem > 0 \/ DiedInside \/ lost = Capacity)
=============================================================================
