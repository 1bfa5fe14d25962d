# A TLA+ model of NTSocks

NTSocks gives applications the POSIX socket interface over a PCIe
non-transparent bridge (NTB): a write to the bridge is a write into the memory
of the other host.  This directory models its control and data planes, checks
them with TLC on small instances and proves the central facts with TLAPS for
every value of the constants.

## The system

Four kinds of processes take part, on each of two hosts.

| part | source | state | operations |
|---|---|---|---|
| shared libraries | `libfdu-utils/` | rings, pools, semaphores in POSIX shared memory; hash map | push/pop/front (single and bulk), malloc/free, semaphore push/pop, event queue push/pop |
| libnts, linked into the application | `libnts/src/` | socket contexts, backlog, ready queue, epoll contexts | socket, bind, listen, accept, connect, read, write, close, epoll_create/ctl/wait |
| NTM, the monitor (control plane) | `monitor/src/` | socket table, port table, listener and connection maps, TCP connections to remote monitors | one handler for each message of libnts, of NTP and of a remote monitor |
| NTP, the proxy (data plane) | `ntb-proxy/src/` | connection lists per partition, the NTB data and control rings with their shadow indices | create/close connection, send thread, receive thread, control thread, epoll thread |

libnts and NTM exchange control messages over shared-memory rings, as do NTM and
NTP.  Data goes from libnts to NTP through a ring of buffer indices with a
buffer pool beside it (`ntp2nts_shm.c`), from NTP to the remote NTP through the
NTB data ring (`ntb_mw.c`), and from there up to the remote libnts.  The
monitors of the two hosts run the SYN / SYN_ACK / CLIENT_SYN_ACK handshake and
the FIN / FIN_ACK exchange over TCP.

What makes the system hard to test is that almost nothing is locked.  Two
processes share each ring and each pool; three threads of the proxy share the
connections; the sender of the NTB ring knows the receiver's progress only from
a word that is updated now and then; a connection is set up by six threads on
two hosts that wait for each other; and an epoll call changes a mask in three
processes one after the other while events arrive.  The hazards of each part
are in `PROJECT.json`, at the line where they bite.

## Modules

| module | models | extends |
|---|---|---|
| `RingIndex` | index arithmetic of every ring: increment, distance, window | |
| `BoundedFifo` | the abstract specification of the rings: a queue with `Put`, `Take`, `Peek` | |
| `ByteStream` | the abstract specification of a connection: bytes in order, each once, then the end | |
| `ShmRing` | `shmring.c` | `RingIndex` |
| `NtpShm` | `ntp2nts_shm.c` over `shm_mempool.c` | `RingIndex` |
| `NtbDataLink` | one direction of a partition's data ring (`ntb_mw.c`, receive loop of `ntp_func.c`) | `RingIndex` |
| `NtpConn` | the proxy's connections and the three threads that share them | |
| `NtmHandshake` | set-up and close of connections: two hosts with libnts, monitor and proxy | |
| `EpollQueue`, `Epoll` | the event queue; epoll across application, monitor and proxy | `RingIndex` |
| `NtsStream` | `nts_write`, `nts_read` and the FIN of `nts_close` over the channels and the link | |
| `SemShmRing` | the ring with three semaphores: `ntm_shmring.c`, `sem_shmring.c` | `RingIndex` |
| `HashMap` | `hash_map.c`: chains, growing and shrinking | |
| `RingIndexProofs`, `ShmRingProofs`, `NtpShmProofs`, `NtbDataLinkProofs`, `NtpConnProofs`, `NtsStreamProofs`, `SemShmRingProofs`, `EpollProofs` | theorems | the module of that name |
| `MC...` | the instances for TLC | the module of that name |

The layers meet through the abstract specifications.  `ShmRing` is shown to
implement `BoundedFifo`; `NtpShm` takes the ring under it to be that FIFO (a
sequence of node indices), and is shown to be a FIFO of messages in turn.
`NtbDataLink` implements the same specification for packet headers, up to the
first packet that is dropped, and `SemShmRing` for control messages of several
producers.  `NtsStream` puts two channels and a link, taken to be three FIFOs of
intact messages, between two applications, and implements `ByteStream`.  For the
link this is an assumption: `NtbDataLink` gives it neither after a drop nor for
payloads, which run `ntb_data_link_torn` shows torn.  `ImplementsStream` is a
statement about the code of libnts, not about the path from end to end.
The control message rings in `NtmHandshake` and `Epoll` are sequences:
`ShmRing` justifies that for those without a lock (`nts_shmring.c` and the rings
between monitor and proxy have its algorithm with another element type), and
`SemShmRing` for those with semaphores, while nobody is killed in a push.

### ShmRing

`write_idx`, `read_idx` and `data` are the shared memory; `prod` and `cons` are
the local variables of the call either process is in.  A push is three steps
(load and test, copy, store of the index), a pop likewise, so that each access
that the other process can observe is a step.  The copies are not atomic in the
code; `SlotExclusive` shows that they never meet, which is why one step is
enough for a copy.  A call that fails changes nothing and is a stuttering step.

### NtpShm

The free list of the pool is `free_header_idx`, `free_tail_idx` and
`next_node_idx`; `mem` is the content of the nodes.  The producer allocates,
fills and sends; the consumer receives (or peeks and pops), reads in place and
frees.  `shm_mp_free` sets the link of the old tail and leaves the freed node's
own link alone, so the list's tail carries a stale link.  The model keeps that
link, and the question whether it can ever be followed is `NodesInOrder`.

### NtbDataLink

`msg_len`, `header`, `payload` and `psh` are the slots in the receiver's memory,
written by the sender through the bridge, header first; `shadow` is
`*local_cum_ptr` in the sender's memory, written by the receiver.  The receive
thread copies a packet, hands it to the application and, if the connection is
watched by epoll, pushes an event.  The last two wait while the application's
ring or event queue is full (`ntp2nts_shm.c:264`, `ntp_func.c:477`): `room` says
whether there is room, the application makes some in `AppTakes`, and other
threads use up the event queue in `OtherEvent`.  Connections
close at any time, and `DropPacket` is the branch that discards a packet for a
closed one.  It clears and skips the wrong slot, after which sender and receiver
are out of step.  The history variable `dropped` records that this has happened,
and the properties speak of the time before it.

### NtpConn

`port2conn` is the map, `next_node` and `ring_tail` the circular send list.  The
append of the listener (two stores) and the removal by the send thread (unlink,
tail, free) are separate steps, as are the receive thread's look-up and its use
of the connection.  An object has a life of its own (`none`, `READY_CONN`,
closed, `freed`), so that two objects with the same ports can be told apart.
`Put` overwrites: a connection may be created under ports whose former one has
not been removed yet, and its entry then goes with the former one's removal.

### NtmHandshake

Each host has a request ring from libnts, answer rings per socket, a TCP channel
from the other monitor, a port table (`free`, `used`) and a proxy (`ntp`).  A
monitor handler that waits for its proxy is split at the wait; its message stays
at the head of the queue, which is what the single-threaded receive loop does.
The application's calls are split where they wait for an answer.  The fields
that `handle_ntp_fin_msg` sends without setting them are a choice over `FinIds`.
Both close handlers tell the other side first and destroy the socket then, and
are split in between; `found` is the socket pointer that a receive thread keeps
from one part of a handler to the next.  The handler for a refused SYN only logs,
so the connect that caused it never returns, in the model as in the code.  A
monitor without a free port uses a null pointer (`nt_port.c:62`); `down` records
that.

The client host has fewer ports than sockets, so ports are freed and given
again.  Messages find their socket by its port, so that one sent to the former
owner of a port can reach the new one.  `FreshPorts` says that no client port was
given a second time, and is a premise where a property needs it.  `attached`
holds the port that `nts_accept` names its rings after.  It is the one the
server's monitor allocated, where the proxy takes the client's; the two differ
after a refused connect, after a port was used again, or when the listener's port
is skipped.  No property says that they agree.

### EpollQueue and Epoll

The queue has its three semaphores and two producers, the monitor's TCP thread
and the proxy's receive thread.  `num_events++` and `num_events--` are a load
and a store each, because only the first is under the mutex.  `lost` records that
one of them undid the other, `pending` what the queue should hold; they
decide nothing but each other's next value.  The calls, the monitor's and the
proxy's handlers are one action per handler, split where a handler waits.  A use
of a context that is freed or not yet set puts the process in `down`.
`nts_epoll_wait` may store one event more than `maxevents` (`nts_epoll.c:773`);
the model counts them as the code does and forbids nothing.  The producers'
semaphore waits are not interrupted: monitor and proxy handle signals by exiting
(`monitor/src/main.c:80`, `ntb-proxy/src/main.c:442`).
`NtmForget` and `NtpForget` stand for the end of a connection, which
`NtmHandshake` and `NtpConn` model.

### NtsStream

A byte is its position in the stream, so a payload is a first position and a
length, and order, loss and duplication can all be seen.  `nts_write` appends one
message per step, as far as the ring has room.  `nts_read` is split where it
looks at the ring (`PopMessage`, `FrontFin`) and by the branches of its loop:
a payload shorter than `max_payloadsize` or a full one, a buffer with more or
less room.  `cache` is `ntp_buf`, `held` the packets taken and not freed.
`copied` counts the bytes put into buffers, `returned` those that a return value
told the application of.

### SemShmRing

A push is split at its semaphore operations: `buf_count_sem`, `mutex_sem`, the
copy, the release, `spool_signal_sem`.  A blocked `sem_wait` can be interrupted
by a signal; the code then returns without giving back what it took
(`LockInterrupted`, counted in `lost`).  A producer can be killed anywhere
(`Kill`).  An application that attaches before `ntm_shmring_init` has finished
finds the mutex at 0 and waits.

### HashMap

`list` holds the chains, `text` what the bytes of a key read as: the default hash
and equality treat every key as a C string, so the socket ids 256 and 512 are one
key.  `resetHashMap` is split where it empties the table and at each entry it
stores again.  `stored` is the map as its callers think of it.  `misplaced`
records that a `Put` met its key further down a chain, where the code writes the
value into the chain's first entry.  Lookups are made between the changes;
nothing is said of those that other threads make during one, which the code does
not protect.

## Runs

Every passing run ends within three minutes and is large enough for the cases
named here to happen.

| run | bounds | what it shows |
|---|---|---|
| `shmring` | 4 slots, 2 values | The ring refines `BoundedFifo`, copies never meet on a slot, a full ring drains.  Four slots let the ring be full, wrap, and be full again at another offset; two values tell a stale slot from a fresh one. |
| `ntp_shm` | ring of 3, pool of 6 | The least pool that `PoolAssumption` allows, so the free list does run down to the single node that must stay.  No node is handed out twice, allocation never fails, messages arrive as a FIFO. |
| `ntb_data_link` | 4 slots, updates every 3 packets, PSH every 2, 2 connections that close | Both ways of updating the shadow index happen, and the sender meets a full ring.  Applications may stop reading or taking events at any time.  No overwriting, FIFO of packet headers, and, if the receive thread comes back from each wait for an application, a waiting sender gets room, up to the first drop.  The constraint `UntilDropped` ends the exploration there, where the properties end too. |
| `ntp_conn` | 3 objects on 2 port pairs | A port pair is used again by a new object while the old one is on the list or being removed; appending meets removal at the tail and in the middle.  The map holds no freed object, the walk of the send thread stays on live nodes and comes back to the head, only closed connections leave it, and those on it are freed. |
| `ntm_handshake` | 3 sockets on 2 client ports, 3 connect calls, 3 server ports, listener on the last of them, backlog of 1 | SYNs race for the last place in the backlog, connects are refused and tried again, closes cross set-ups, freed ports are given again, the listener's port is skipped, and a host runs out of ports.  Connect succeeds only over proxies that hold the connection, accepts are not mixed up, the backlog has room after the wait, a port has one owner however ports come back, both ends of a close that was reported are freed, and a connect that was accepted returns.  The sockets are alike: `UsedInOrder` keeps the behaviours in which they are first used in one order. |
| `epoll` | listener and connection, queue of 2, 3 calls, 3 events, `maxevents` 1 | A producer of either kind meets a full queue, the application waits, registers, changes and removes while events arrive, and closes the epoll socket.  Events come in order, `nts_epoll_wait` finds an event in every slot that it looks at, slots and masks are accounted for, a waiter is woken and calls return. |
| `nts_stream` | payloads of 3 bytes, calls of 1 to 7, a stream of 8, channels of 2, link of 1 | Reads that end inside, at and beyond a payload, with and without a cached rest, and a close at any time.  The bytes arrive in order, each packet is freed once, only the call that meets the FIN loses bytes, and a short message or the FIN ends a read. |
| `sem_shmring` | 2 slots, 3 producers, 2 values | More producers than slots, so that both semaphore waits block, with interruptions and kills in every place.  Copies never meet, every slot is accounted for, messages come out as from a FIFO, and a full ring drains unless a producer died inside its push or interrupted waits have used up all slots. |
| `hash_map` | 6 keys, 2 of them the same text, tables of 2, 4 and 8 | Keys collide in different ways at each size, and the table grows and shrinks.  Between calls the map holds the keys that were put, and a lookup is right until a value is misplaced; a rebuilding loses no entry and starts no other. |

`CHECK_DEADLOCK FALSE` is set where the system really stops: an application may
make no further call, and calls are bounded.  The other passing runs check
deadlock.

Fairness is weak fairness of the threads that run in a loop on their own: the
steps of a call that has begun, the monitors' and proxies' threads, and the
polling loops of libnts.  In `SemShmRing` it is that of the consumer and of the
producers together, since nothing orders those that wait for the mutex.  An
application is never obliged to begin a call, nor to read or to take events, so
in `NtbDataLink` the receive thread may wait for it for ever, and
`SenderUnblocked` has the opposite as its premise.  The fairness of the send
thread in `NtpConn` supposes in turn that its waits for the data ring
(`ntb_mw.c:485`) end.  The one strong fairness, of `PopBegin` in `ShmRing`, says that the consumer keeps
popping: peeks in between disable `PopBegin` for a moment, and the receive loops
never go on peeking without taking the element.  Semaphore waits in `Epoll`
are fair only while they are enabled.

### Where code and comments disagree

Three runs end in a counterexample, each for one statement that a comment or a
test of the repository makes:

| run | statement | what happens |
|---|---|---|
| `ntb_data_link_torn` | the receiver hands on the payload that was sent | the header, which marks a slot full, is written before the payload (`ntb_mw.c:506`) |
| `ntp_conn_freed` | a closed connection can be freed | the receive thread may still use it (`ntp_func.c:387`, `main.c:156`) |
| `ntm_connect_order` | DISPATCHED comes before ESTABLISH | SYN is sent first, DISPATCHED last, and another thread answers (`ntb_monitor.c:1800`) |

Elsewhere the code keeps a promise only for a time, and the properties name the
step that ends it.  The premise is part of the property; after that step nothing
is claimed.

| property | holds until | source |
|---|---|---|
| `NoOverwrite`, `ImplementsPacketFifo`, `SenderUnblocked` | a packet of a closed connection is dropped: the loop clears and skips the packet after it | `ntp_func.c:410` |
| `AcceptInOrder`, `ClosedBothEnds`, the server's half of `ConnectedBothEnds` | a client port is given a second time: messages are matched by port, and one for the former owner can reach the new one | `ntb_monitor.c:1070` |
| `NumEventsExact`, and those of `epoll` about the queue | `num_events` loses an update, being changed in two processes, in one of them without the mutex | `nts_epoll.c:822` |
| the values of `GetRight` | a `Put` under a key further down its chain | `hash_map.c:150` |
| `RingDrains` | a producer dies inside its push, or interrupted waits use up all slots | `ntm_shmring.c:333` |

`ClosedBothEnds` and `AcceptedConnectReturns` also end when a monitor without a
free port crashes.  `ClosedBothEnds` excepts port 0 of an accepted socket, which
is never given back (`ntb_monitor.c:3103`), and speaks of closes that were
reported: where the unset id of the request is below 1, or the connect that opened
the TCP connection was another one, the socket and its port stay.

`OnlyLastCallLost` is exact: the call that meets the FIN behind a full message
returns -1 and the bytes it copied are not reported.  `ntp_conn` does not claim
that every open connection is on the send list: an append that falls between the
unlinking of the tail and the correction of `ring_tail` hangs the new connection
behind the removed node, and the send thread never serves it (`ntp_func.c:63`);
the model has that behaviour, and `ClosedAreFreed` speaks of the connections on
the list.  `CallReturns` lists what keeps a call from returning: the connection
gone in the monitor, the proxy's epoll thread ended, or a fault.

## Proofs

TLAPS checks the following for every value of the constants that the named
assumptions allow.

| module | assumptions | theorems |
|---|---|---|
| `ShmRingProofs` | `CapacityAssumption`: at least 2 slots | `RingInvariant`, `RingSlotExclusive`, `RingPopTakesOldest`, `RingImplementsFifo`: the safety properties of run `shmring`, that a pop stores `read_idx` while what it copied is still the oldest element, and the refinement of `BoundedFifo` |
| `NtpShmProofs` | `PoolAssumption`: three nodes more than the ring holds | `ChannelInvariant`, `ChannelNodesInOrder`, `ChannelNoDoubleAllocation`, `ChannelAllocSucceeds`, `ChannelImplementsFifo` |
| `NtbDataLinkProofs` | `IntervalAssumption`: the index is updated before a whole ring has been received | `LinkInvariant`, `LinkIndexOrder`, `LinkNoOverwrite`, `LinkImplementsFifo`, with connections closing and packets dropped |
| `NtpConnProofs` | `ConnAssumption`: the head is no connection, every connection has ports | `ConnInvariant`, `ConnMapHoldsLive`, `ConnWalkIsLive`, `ConnRemovesOnlyClosed`, for any set of connections and ports |
| `NtsStreamProofs` | `SizeAssumption`: payloads of at least a byte, channels of at least a message | `StreamInvariant`, `StreamPacketsFreed`, `StreamOnlyLastCallLost`, `StreamImplementsByteStream` |
| `EpollProofs` | `CapacityAssumption`; `EpollAssumption`: the monitor and the proxy push, `None` is no socket and no number | `EpollInvariant`, `EventsKeepOrder`, `EpollSlotsConserved`, `EpollNumEvents`, `EpollMasksAgree`, `EpollPushFindsContext`, `EpollScanFinds`, for any sockets, capacity and number of calls |
| `SemShmRingProofs` | `CapacityAssumption`; `ProducersAssumption`: finitely many producers | `SemRingInvariant`, `SemRingPushPopExclusive`, `SemRingSlotsAccounted`, `SemRingImplementsFifo`, with interruptions and kills |

Each module also proves its `TypeOK`, which TLC therefore checks only for the
modules without proofs.  `RingIndexProofs` holds the
arithmetic of indices that five of them share.  Each argument has one inductive invariant, `IndInv` in the
component's module.

*Ring.*  `SlotExclusive` is not inductive: it says nothing of a call between its
test and its copy.  `IndInv` adds that during a call the caller's own index is
the shared one and the test it passed still holds.  The other side can only make
the test more true, which is the whole reason why no lock is needed.  The
refinement maps the FIFO to the window of slots from `read_idx` to `write_idx`;
`WindowTail` and `WindowAppend` of `RingIndexProofs` say what moving either end
does to a window.

*Channel.*  That a node is not handed out twice follows from nothing local to
`shm_mp_malloc`.  `NodesInOrder` is the strengthening: nodes circulate in index
order, so that the nodes outside the free list are an interval right behind its
tail, and every link but the tail's points to the next index.  A freed node is
then always the one that its predecessor's link names already, the stale link is
never followed, and counting the interval gives `AllocSucceeds`.

*Link.*  The sender tests `shadow`, not the receiver's index.  `InOrder` says
that around the ring `shadow`, the receiver and the sender come in this order,
and `FullSlots` that the slots marked full are those between the last two.
Together they turn "not equal to `shadow`" into "the slot is free".  A drop
breaks both, so the invariant holds them only while `dropped` is false.

*Connections.*  What the send thread reaches from the head must never be freed
memory, while the listener is half way through an append and the send thread
half way through a removal.  `ListState` says that the walk is a simple cycle of
live objects, that the last node linked leads to the head if it is on the walk
at all, and that the node being freed is off it.  The walk is the least set closed
under `next_node`, defined without recursion, so that a change of one link can be
followed by giving the closed set that results.

*Stream.*  `Chain` says that the messages in flight follow one another without
gap, from the bytes copied and in hand to the bytes written, and that a FIN is
the last.  `CacheState` keeps the cached rest shorter than a full payload, so
that the branch for a full payload is never taken with a cached one.  That branch
tests and frees `incoming_data` (`nts_api.c:1418`), which is uninitialised until
the call has popped a message.

*Semaphore ring.*  `SlotsAccounted` relates the semaphores to the number of
producers at each step, as sums of cardinalities.  From it a producer about to
copy knows that there is room, and the consumer that there is a message, though
neither looks at the other's index.

*Epoll.*  The seven properties speak of three processes, and none is inductive.
`IndInv` says where everything is while a call is under way.  `CallInv`: the
request is in one place, on its way to the monitor, in the monitor's hand, or with
the proxy, and the answers are empty meanwhile.  `MaskInv`: outside of its own
call a socket has one mask in all three processes; during the call the copies
change in the order libnts, monitor, proxy.  `ContextInv`: until the epoll socket
is closed, a connection with a mask in the proxy has its context, also between
the steps that set them, which gives `PushFindsContext`.  `CloseInv`: a close
sends both producers away from the queue before the application is answered, so
that the queue is created anew with nobody at it.  `CountInv`: the mutex admits one
producer to `num_events++`, only the application lowers the count, and so whoever
has loaded it saw no less than there is now; the application never takes an event
that is not there, even when an update is lost.  `SlotInv`: while the queue is
mapped, `empty_sem`, the slots claimed by a producer and the events make up the
capacity, and `num_events` with the producer that is counting is the number of
events; a producer that the close cut off leaves its slot behind, and the
equations become bounds until the next creation.  All of this is stated until the
first lost update, except for the first five parts, which hold throughout.

TLC alone stands for: every liveness property (`FullRingDrains`,
`SenderUnblocked`, `ClosedAreFreed`, `ClosedBothEnds`, `AcceptedConnectReturns`,
`WaitWakes`, `CallReturns`, `ShortMessageEndsRead`, `RingDrains`), since the prover
does not reason about fairness; and `NtmHandshake` and `HashMap`.  The first is a
long protocol whose invariants hold because of what is in every queue at once; for
the second one would need an induction over chains.

## Not modelled

- The control ring of the bridge and DETECT packets.  The send window
  (`ntp_func.c:235`) is a difference of unsigned numbers, either 1023 or close to
  2^64, so it never falls below the threshold, no DETECT is sent, and the control
  ring stays empty.  For the same reason, as `libnts` cuts its writes at the MTU,
  packets of several slots are not reached.
- The monitor's socket table, and the closing of a listener with its backlog;
  `NtmHandshake` gives sockets fresh ids, and its state space leaves no room for
  the latter beside three sockets that connect and close.
- Two threads that change one hash map at once: the proxy's listener puts
  (`ntp_func.c:146`) and its send thread removes (`main.c:142`) without a lock.
  `HashMap` has one writer; a second would make nearly every statement about the
  map void.  The loops that remove from a map while they iterate over it
  (`libnts/src/nts.c:190`, `nts_epoll.c:220`) run at the end of a process.
- A receive thread that waits for room in one connection's channel holds up the
  others of its partition; `NtsStream` has one connection.
- A monitor that restarts: it finds the semaphores of its predecessor with their
  old counts, since they are not unlinked.
- Creation, attaching and unlinking of shared memory, configuration files, start
  and stop of the daemons, signal handlers: sequential code around system calls.
- The NTB driver and the TCP wrappers; the models have what they provide, memory
  written in order and an ordered channel.
- Weak memory effects beyond the order that acquire and release give.  The plain
  accesses of the pool, the send list and the event queue interleave as written.
- The bulk operations of ring and pool, which only test programs call.
- Loss of a TCP connection, and the death of a monitor or proxy: the code has no
  recovery.  The death of an application is in `SemShmRing`.
- Benchmarks, samples, `ntkv` and the vendored DPDK.  The last is nearly the whole
  tree by lines, which is why the mapped lines are a small share of it; the
  share of `libnts`, `monitor`, `ntb-proxy` and `libfdu-utils` is what the list of
  components in `PROJECT.json` describes.
