----------------------------- MODULE EpollQueue -----------------------------
(***************************************************************************)
(* libfdu-utils/epoll_event_queue.c: the ready I/O queue of an epoll       *)
(* socket, in shared memory, as its users drive it.  The proxy's receive   *)
(* thread and the monitor's TCP thread push (ep_event_queue_push, under    *)
(* mutex_sem); nts_epoll_wait takes the events out itself, without the     *)
(* mutex.  An event is the socket it is for: NTS_EPOLLIN is the only event *)
(* ever pushed.                                                            *)
(*                                                                         *)
(* num_events++ and num_events-- run in different processes, and only the  *)
(* first is under the mutex: each is a load and a store here.              *)
(***************************************************************************)
EXTENDS RingIndex

CONSTANTS Sockets,   \* the sockets an event can be for
          Producers, \* the processes that push
          None

VARIABLES
    start, end, num_events, \* the shared header
    events,                 \* the shared slots
    mutex_sem, empty_sem, full_sem,
    push,                   \* a producer's step, event and loaded num_events
    take,                   \* the consumer's loaded num_events, None between events
    lost,                   \* history: a store to num_events undid another
    pending                 \* history: the events in the queue, until lost

header == <<start, end, num_events, events>>
queue == <<header, mutex_sem, empty_sem, full_sem, pending, lost>>
queueVars == <<queue, push, take>>

NotPushing == [pc |-> "idle", sock |-> None, num |-> 0]

\* The queue as its owner creates it, and nobody at it.
QueueInit ==
    /\ start = 0
    /\ end = 0
    /\ num_events = 0
    /\ events = [i \in Slots |-> None]
    /\ mutex_sem = 1
    /\ empty_sem = Capacity
    /\ full_sem = 0
    /\ push = [p \in Producers |-> NotPushing]
    /\ take = None
    /\ pending = <<>>
    /\ lost = FALSE

\* ep_event_queue_create: the owner opens the three semaphores and clears the
\* header.
ep_event_queue_create ==
    /\ start' = 0
    /\ end' = 0
    /\ num_events' = 0
    /\ events' = [i \in Slots |-> None]
    /\ mutex_sem' = 1
    /\ empty_sem' = Capacity
    /\ full_sem' = 0
    /\ pending' = <<>>
    /\ lost' = FALSE

-----------------------------------------------------------------------------
(* ep_event_queue_push, by producer p.                                     *)

PushWithoutRoom(p) ==
    /\ push[p].pc = "called"
    /\ push' = [push EXCEPT ![p].pc = "room"]
    /\ empty_sem' = IF empty_sem > 0 THEN empty_sem - 1 ELSE 0
    /\ UNCHANGED <<header, mutex_sem, full_sem, take, pending, lost>>

\* sem_wait(empty_sem).
PushWait(p) ==
    /\ push[p].pc = "called"
    /\ empty_sem > 0
    /\ empty_sem' = empty_sem - 1
    /\ push' = [push EXCEPT ![p].pc = "room"]
    /\ UNCHANGED <<header, mutex_sem, full_sem, take, pending, lost>>

\* sem_wait(mutex_sem), the copy, the new end, and the load of num_events++.
PushCopy(p) ==
    /\ push[p].pc = "room"
    /\ mutex_sem > 0
    /\ mutex_sem' = mutex_sem - 1
    /\ events' = [events EXCEPT ![end] = push[p].sock]
    /\ end' = next_index(end)
    /\ pending' = IF lost THEN <<>> ELSE Append(pending, push[p].sock)
    /\ push' = [push EXCEPT ![p].pc = "copied", ![p].num = num_events]
    /\ UNCHANGED <<start, num_events, empty_sem, full_sem, take, lost>>

PushUncounted(p) ==
    /\ push[p].pc = "copied"
    /\ mutex_sem' = mutex_sem + 1
    /\ push' = [push EXCEPT ![p].pc = "counted", ![p].num = 0]
    /\ UNCHANGED <<header, empty_sem, full_sem, take, pending, lost>>

\* The store of num_events++, and sem_post(mutex_sem).
PushCount(p) ==
    /\ push[p].pc = "copied"
    /\ num_events' = push[p].num + 1
    /\ lost' = (lost \/ num_events # push[p].num)
    /\ pending' = IF lost' THEN <<>> ELSE pending
    /\ mutex_sem' = mutex_sem + 1
    /\ push' = [push EXCEPT ![p].pc = "counted", ![p].num = 0]
    /\ UNCHANGED <<start, end, events, empty_sem, full_sem, take>>

PushDoneSilent(p) ==
    /\ push[p].pc = "counted"
    /\ push' = [push EXCEPT ![p] = NotPushing]
    /\ UNCHANGED <<header, mutex_sem, empty_sem, full_sem, take, pending, lost>>

\* sem_post(full_sem), and the return.
PushDone(p) ==
    /\ push[p].pc = "counted"
    /\ full_sem' = full_sem + 1
    /\ push' = [push EXCEPT ![p] = NotPushing]
    /\ UNCHANGED <<header, mutex_sem, empty_sem, take, pending, lost>>

Push(p) == PushWait(p) \/ PushCopy(p) \/ PushCount(p) \/ PushDone(p)

-----------------------------------------------------------------------------
(* The two halves of taking the event at start, in nts_epoll_wait.         *)

\* The load of num_events--, after the event was looked at.
TakeEvent ==
    /\ take = None
    /\ take' = num_events
    /\ UNCHANGED <<queue, push>>

TakeDoneNoPost ==
    /\ take # None
    /\ start' = next_index(start)
    /\ num_events' = take - 1
    /\ lost' = (lost \/ num_events # take)
    /\ pending' = IF lost' THEN <<>> ELSE Tail(pending)
    /\ take' = None
    /\ UNCHANGED <<end, events, mutex_sem, empty_sem, full_sem, push>>

\* The new start, the store of num_events--, and sem_post(empty_sem).
TakeDone ==
    /\ take # None
    /\ start' = next_index(start)
    /\ num_events' = take - 1
    /\ lost' = (lost \/ num_events # take)
    /\ pending' = IF lost' THEN <<>> ELSE Tail(pending)
    /\ empty_sem' = empty_sem + 1
    /\ take' = None
    /\ UNCHANGED <<end, events, mutex_sem, full_sem, push>>

-----------------------------------------------------------------------------
PushPlaces == {"idle", "checked", "called", "room", "copied", "counted", "freed"}

PushTypeOK == push \in [Producers -> [pc : PushPlaces, sock : Sockets \cup {None}, num : Nat]]

\* Types of the queue; in particular the indices are slots, and nts_epoll_wait
\* never takes an event when none is counted.
QueueTypeOK ==
    /\ start \in Slots /\ end \in Slots
    /\ num_events \in Nat /\ empty_sem \in Nat /\ full_sem \in Nat
    /\ events \in [Slots -> Sockets \cup {None}]
    /\ mutex_sem \in 0 .. 1
    /\ take = None \/ take \in Nat \ {0}
    /\ pending \in Seq(Sockets)
    /\ lost \in BOOLEAN
=============================================================================
