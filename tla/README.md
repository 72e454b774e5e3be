# OmniStack: a TLA+ verification project

OmniStack is a user-space network stack on DPDK. A *stack* configuration names
network interfaces, routes and *graphs*; for every cpu of a graph the engine
starts a worker thread that polls the modules of its graph and passes packets
along the links. This directory models the parts of the program that keep
state, checks them with TLC on small instances and proves their safety properties with
TLAPS. All paths below are relative to `omnistack-core/src/` unless they say
otherwise. The repository has no prose documentation and no tests; the claims
the code makes about itself are its comments, assertions and error texts.

## 1. The system

| Part | State | Operations | Talks to |
|------|-------|------------|----------|
| Worker loop (`engine.rs`, `Worker`) | `nodes_to_poll`, `task_queue`, `index` | init, poll, process, destroy | modules, packet pool, service |
| Packets (`packet.rs`) | `refcnt`, offsets, the pool | `allocate`, `allocate_many`, `deallocate` | every worker of a socket, the driver's free callback |
| Memory pool (`memory.rs`) | a memory zone, one cache per thread id | `get_or_create`, `create_cache`, `allocate`, `deallocate` | packets, thread ids |
| IoNode (`nio.rs`) | `flush_queue`, `flush_flag`, the adapters | process, poll, destroy | adapters |
| DPDK adapter (`modules/dpdk.rs`) | `tx_bufs`, `tx_idx`, ports, mbuf pools | init, send, flush, recv | the driver, `packet_free_callback` |
| Service (`service.rs`) | `THREAD_ID_USED`, `NEXT_THREAD_ID`, `STOP_FLAG`, `SERVER_UP_FLAG` | the server loop, `send_request` | workers and user programs, over a Unix socket |
| Engine (`engine.rs`, `omnistack-cli`) | threads, lcores | `run`, ctrl-c handler | everything |
| Protocol modules (`modules/udp.rs`, `ipv4.rs`, `eth.rs`, `protocol.rs`) | headers and offsets of a packet | process of six modules | the next module |
| Routing (`modules/ipv4.rs`, `protocol.rs`) | `route_table` | `Route::new`, `matches`, lookup | configuration |
| Configuration (`config.rs`, `module.rs`) | `ConfigManager`, module factory | `load_dir`, `Graph::new` | engine |

What is hard about it:

* *Concurrency.* Workers share the packet pool, the queue counter, the one-time
  port initialisation and the server. ctrl-c sets `STOP_FLAG` at any moment.
* *Asynchronous completion.* A frame is sent from the packet's own memory; the
  packet is freed by a callback from a later transmit burst, in any order with
  the other users of the packet.
* *Unchecked access.* `task_queue`, `flush_queue` and `tx_bufs` are written
  without bounds checks; that they suffice is an invariant over many steps.
* *Timeouts.* `send_request` writes its request again when no answer comes,
  while the server may be answering the first.
* *Reuse.* Thread ids, caches, packet slots and mbufs are used again and again,
  and what an earlier user left in them (`refcnt`, `buf_ty`, `thread_id`, header
  bits) is still there.
* *Failure.* Most errors end the process; until then, what is half done must
  not be used.

`PROJECT.json` lists the hazards one by one, each at its line, with the
properties that cover it.

## 2. The modules

| Module | Models | Uses | Implements |
|--------|--------|------|------------|
| `Worker` | the worker loop and the reference counts | | |
| `Datapath` | a worker with its adapters and packet buffers | `Worker`, `TxFifo` | `Worker` (proved) |
| `IoNode` | a node with its DPDK adapters | | `TxFifo` (`FifoSpec`, proved) |
| `MemoryPool` | the packet pool with its caches | `ThreadIds` | `SlotPool` (`SlotSpec`, proved) |
| `Service` | the server and its clients | | `ThreadIds` (`IdSpec`, proved) |
| `Startup` | the life of the process | | |
| `Frames`, `Routes`, `Config` | packets, routing, configuration | | |
| `TxFifo`, `ThreadIds`, `SlotPool` | what a component promises those that use it | | |
| `*Proofs` | the theorems about the module of that name (section 5); those about `Worker` are in `DatapathProofs` | that module | |

A component that uses another one uses what that one promises: `Datapath` sees the
adapters as `TxFifo`, which `IoNode` implements, and `MemoryPool` gets its ids from
`ThreadIds`, which `Service` implements; that they stay within these promises is proved,
too (`PathUsesFifo`, `PoolUsesIds`). `MC*` modules give
values to their constants. An operator whose comment begins with "Mutation of"
is a faulty variant of the definition that follows it; it is used by nothing in
the specification and serves to show that the properties can fail.

### Worker (`engine.rs`, `packet.rs`, `user.rs`)

One worker thread. `pc` is its place in `Worker::run`, `queue` is
`task_queue[0 .. index)`, `refcnt` the counts of all packets, `pool` how often a
slot is in the pool, `foreign` what the other workers of the socket have taken
from it, and `held` the references of the network adapters. Modules are told
apart by what they do with a packet: a *user* node polls and frees, an *io* node
polls and hands to an adapter, a *forward* node forwards, a *filter* node
forwards or frees (`Ipv4Receiver`). One action per step: `Enter`, `InitNode`,
`LoopHead`, `PollUser`, `PollIo`, `Recv`, `Forward`, `Drop`, `ProcessIo`,
`TxDone` (the driver's callback, while the worker is inside a flush or send),
`Destroy`, and the error exits. The tasks are processed last in first out, as in
the code. `OtherAllocates`/`OtherFrees` are the other workers, `Shutdown` is
ctrl-c.

The module states as ASSUMEs what the reference counts and the queue need from a
configuration and the code does not check:

* `LinkAssumption`: a node that is polled has exactly one link (the poll path
  queues one task per link without counting references), a node that forwards
  has at least one (`links_to.len() - 1`);
* `AcyclicAssumption`: forwarding nodes form no cycle;
* `CapacityAssumption`: the bursts of all pollers and the growth by forwarding
  fit the queue. With the limits of the code this always holds:
  `8 * 64 + 3 * 31 <= 2048`.

The graphs in the repository satisfy all three.

### Datapath (`engine.rs`, `nio.rs`, `modules/dpdk.rs`, `packet.rs`, `user.rs`)

`Worker` with a transmit queue per interface in place of the bare count `held`, and
with the buffers of the packets: `mbufTy` is the set of slots whose `buf_ty` is
`Mbuf`, `lent` the number of mbufs under received packets. Each action is an action
of `Worker` joined with what it does to queues and buffers: `UserNode::poll` and
`Dpdk::recv` set `buf_ty` (`FillUser`, `FillRecv`), `deallocate` frees the mbuf with
the last reference (`FreeMbuf`), and the driver gives packets back in the order in
which their frames have left (`PathTxDone`). A slot keeps its `buf_ty` when it is
freed; other workers leave there what they like.

The worker waits for its interfaces in one place, the loop of `Dpdk::flush`, which
neither gives up nor looks at `STOP_FLAG`. `buffered` is `tx_idx` of each adapter,
`flushing` the adapter whose flush is running, `RingSize` the descriptors of the
transmit rings. A flush begins in `poll` and `destroy` (`FlushBegins`) and in `send`
when the buffer is full (`PathSend`); it moves mbufs to the ring as long as there is
room (`FlushTakes`), gets back those that were sent, and ends when the buffer is empty
(`FlushReturns`, `PathFlushFails`). Until then the worker does nothing else: `RecvNop`,
`Recv`, `SendDone` and `Destroy` of `Worker`, which knows no rings, wait here for
`Flushed`. The order in which adapters are flushed is left open; `IoNode` has the list.
A graph has at most one io node, since nodes are named after their modules.

### IoNode and TxFifo (`nio.rs`, `modules/dpdk.rs`)

`IoNode` is one node with its adapters, in full: the flush list with its flags,
`tx_bufs`, the loop of `flush`, the refill of the buffer, `recv`, `destroy`.
`off` is how far `flush` has advanced its slice. The driver is external: a
transmit burst first gives back any number of the mbufs whose frames have left,
which runs `packet_free_callback`, and then accepts any number of the rest that
the ring has room for, none included; ports send, and receive, at any moment. An
mbuf is in exactly one place: the pool, `tx_bufs`, the ring, the receive queue or
under a packet in the stack.

`TxFifo` is the abstract specification: the packets handed to an interface leave
it in that order, each once, and a packet is released only after its frame has
left. `IoNode` implements it with `fifo` the unsent part of the ring followed by
the buffer, and `flight` the sent part of the ring.

### Service (`service.rs`)

The server loop and any number of threads that call `send_request`. Every call
is a connection; `link` is the server's end of it, `copies` the requests the
server has not read, `answer` what lies in the client's receive buffer. The
server handles a request (`ServerRead`) and answers it (`ServerWrite`) in two
steps, so that timeouts, retries and shutdown fall between them. `grants` and `told`
are history: the ids given out, and the calls that ended in an error. `Found`
and `Free` are `ThreadId::new` and `free`, a scan from `NEXT_THREAD_ID`. A repeated
request that is read together with the first does not parse.

`ThreadIds` is the abstract specification: an id goes to a thread when nobody has
it, and is freed when nobody has it any more; it may get lost. `Service` implements
it with `ids` the ids a client has or will find in its answer.

### MemoryPool and SlotPool (`memory.rs`, `packet.rs`, `modules/dpdk.rs`)

The packet pool of a socket. A thread gets an id (`Enter`), then, under `GUARD`, finds
the memory zone or reserves it and creates the pool (`Lock` to `CreatePool`, either of
which may fail and abort the process), creates the cache of its id (`CreateCache`,
which overwrites the pointer to the cache a previous user of the id has left, slots
and all, and which may store null), and allocates and frees through that cache. A packet that
is sent carries the id of its sender, and `TxDone`, the driver's callback, frees it into
that id's cache. `ThreadExit` is in the protocol of the service, though no worker
makes the request so far; with it ids, and their caches, are used again. `Get` and `Put` are
DPDK's `rte_mempool_generic_get` and `_put`: first the cache, then the common ring, with
a refill of the cache; a cache above one and a half times its size is emptied.

`SlotPool` is the abstract specification: a set of free slots, of which a thread takes
some and gives them back, and from which some may get lost.

### Startup (`engine.rs`, `nio.rs`, `modules/dpdk.rs`, `service.rs`)

The life of the process: the server thread, the wait for it, the launch of
one worker per lcore (a launch on a busy lcore fails, and the code does not look), the
claim of a queue, `INIT_ONCE`/`INIT_DONE_FLAG` around `port_init`, the assertion
that the port's mbuf pool exists, the loop, and the way down. A panic in a
worker aborts the process, because it unwinds into C. The inside of the loop is
module `Worker`, the inside of the server is module `Service`.

### Frames (`user.rs`, `modules/udp.rs`, `ipv4.rs`, `eth.rs`, `protocol.rs`, `packet.rs`)

One packet buffer, used again and again: the offsets and lengths each module
computes, and the header fields that others read. `version_ihl` is modelled bit
by bit, since the setters OR into it and nothing clears it. `PeerFrame` (external) is
the arrival of a frame of another host, with any header length, padding and time to
live; `Recv` is `Dpdk::recv`, for such a frame and for one of the stack's own.
Frames whose `tot_len` is not their length are left out (section 6).

### Routes (`modules/ipv4.rs`, `protocol.rs`, `config.rs`)

From the address and prefix length in the file, through `Ipv4Addr::from_str` and
`Route::new`, to the mask, the table and the lookup. The text of an address is the
list of its parts; a part may be missing, one too many, or no number. The numbers of
the file are cut as by the casts in `Route::from`, the length to 8 bits and the
interface to 16. Words are sets of bits, `to_u32_be` is the little-endian reading the
code does, and the shift `1 << cidr` has the two meanings it has in debug and release
builds (`OverflowChecks`). The lookup starts from `max_cidr` 0 and asks for more, so
that a default route (length 0) is accepted, matches, and is never selected.

### Config (`config.rs`, `engine.rs`, `module.rs`)

`load_dir` reads the files in an order that is not specified; of two with one
name the first wins; the stack's entries become workers through `Graph::new`.
Capacities, missing names and unknown modules panic.

## 3. The runs

| Run | Checks | Shows |
|-----|--------|-------|
| `datapath` | `TypeOK` `RefcntExact` `PooledClean` `QueueBound` `CleanStop` `MbufBalance` `SendsOwnBuffer` `DrainEnds` `StopEnds` | no packet and no mbuf is leaked or freed twice, the queue does not overflow, adapters send from memory that is theirs; if the interfaces keep sending, a round ends and the worker stops |
| `io` | `TypeOK` `MbufOwnership` `Attached` `NoneStranded` `FifoSpec` `BufferDrains` `FramesReceived` | each mbuf has one owner, each packet is freed once, an adapter is a FIFO, the flush list is right, what is buffered leaves, what is received is polled |
| `memory` | `OneHome` `PoolReady` `ExhaustedForCause` `CachePrivacy` `SlotSpec` `SetupEnds` | no slot is in two places, no thread touches another's cache, a pool is used only when it is ready, losses are bounded |
| `service` | `TypeOK` `UniqueIds` `OneGrantPerCall` `NoSilentLeak` `IdSpec` `CallReturns` | no two threads share an id, and none is lost without an error, whatever is retried, late or shut down |
| `startup` | `TypeOK` `ServerFirst` `PortReady` `OwnQueue` `StopReturns` `WorkersRun` | start-up order, one queue per worker, ctrl-c ends the program unless the server could not start |
| `frames` | `HeadersContiguous` `PayloadIntact` | headers lie side by side, exactly the payload of a well-formed frame is delivered |
| `routes` | `TypeOK` `LongestPrefixElseNicZero` | with prefixes of whole octets the lookup is a longest prefix match among those longer than 0; without one it gives interface 0 |
| `config` | `RunsConfigured` `PanicsForCause` | what runs is what is configured |
| `service_invalid` | `OnlyInvalidRejected` (violated) | a retried valid request is refused |
| `startup_two_ports` | `PortReady` (violated) | a second port is never initialised |
| `frames_version` | `VersionReadBack` (violated) | version and header length are swapped |
| `routes_host` | `AcceptedRouteMatchesPrefix` (violated) | a /32 route matches everything |

Bounds, and why they are enough:

* `datapath`: three packets, bursts of 1 (user) and 2 (receive), two pollers, two
  interfaces, and a graph of six nodes with fan-out up to 3, two paths to the same
  node and a filter. A packet thus has up to three users at once, on both sides of
  the adapter, it can be sent twice, on the same interface or on both, and the pool
  runs dry in the middle of a burst. The rings have one and two descriptors: a flush
  has to wait for a frame to leave, in `poll`, `send` and `destroy`. The queue has 8
  places, the least that `CapacityAssumption` allows for this graph. 66,590 states.
* `io`: two adapters with a buffer of 2 and three mbufs each, rings of 2 and of 1, two
  packets for the first and one for the second interface. A burst can be taken in
  two parts, order can be seen, `flush` must wait for the port, and the refill can
  fail. No symmetry, as it checks liveness. 405,396 states.
* `memory`: three threads and two ids, so that an id is used again while the other is
  in use; three slots, caches of size 1, bursts of 1 and 2: a cache is filled,
  overflows and is bypassed, and the pool can sit in caches and callbacks entirely.
  307,706 states.
* `service`: two threads, one with three calls (enter, exit, enter again) and one
  with two; two ids; two turns of the retry loop, so that a call can be repeated
  once and given up. Two ids are enough for the scan to wrap around.
  406,033 states.
* `startup`: three workers of one entry, two on the same lcore, one port.
  `OwnQueue` is claimed for stacks with one graph entry, like the ones of the
  repository: the number of queues is that of the cpus of *one* entry.
* `frames`: payloads around the padding limit of 18 bytes and the two extremes; header
  lengths 4, 5, 6, 15 words; times to live 0, 1, 255.
* `routes`: every table of up to three of 18 routes; tables of up to two with default
  routes and numbers that are cut, before and behind others; a length or an address
  that is refused, alone or behind a good one; and more routes than fit. 63,306 states.
* `config`: every directory with any of eleven files, in every order of reading.

Fairness:

* `Datapath`: weak fairness of the worker's own steps and of each interface. The
  worker runs alone on its lcore; a driver does not refuse for ever a burst that its
  ring has room for; and the interfaces keep sending what is in their rings. The last
  is needed: without it TLC finds the worker in the flush of `send`, with a full ring,
  for ever, neither `DrainEnds` nor `StopEnds` holding. That is hazard `dpdk.rs:388`,
  and nothing in the code bounds that wait. Nothing is assumed of ctrl-c and of other
  workers.
* `IoNode`: the worker keeps running; the driver takes an mbuf some time when
  it has room; the ports keep sending. Strong fairness of "poll or destroy"
  is what `DrainEnds` of the worker shows: the node is called again and again.
  `FramesReceived` is claimed of an adapter when those before it fall silent: `poll`
  returns with the first adapter that has frames, so a busy one starves the others.
* `Service`: only the calling threads are fair, because their reads time out
  after a second. The server may hang; `CallReturns` holds all the same.
* `MemoryPool`: a thread in `get_or_create` or `create_cache` keeps running; nothing is
  assumed of threads that use the pool.
* `Startup`: every thread has a core, and a worker that sees ctrl-c gets out of its
  loop, which is `StopEnds` and supposes that the interfaces keep sending. ctrl-c may
  never come. When the server cannot start, `main` spins for ever, ctrl-c or not:
  `StopReturns` leaves that case out, and `Over` has it as an end of the program.

Deadlock is checked in every run; the ends of the program are explicit stuttering
actions (`Terminated`, `Finished`, `Over`).

## 4. Findings

1. `service.rs:165`: `send_request` repeats its request on the same stream. If the
   server was slow and reads both copies at once, they do not parse and a valid
   request is answered with "invalid request" (run `service_invalid`).
2. `modules/dpdk.rs:246`: `INIT_ONCE` and `INIT_DONE_FLAG` are one per process, so
   only the first port is initialised, and the loop with the comment "wait until
   port is initialized" does not wait for the second (run `startup_two_ports`).
3. `protocol.rs:180`: the field is commented "version:4 | ihl:4" and read that way;
   the setters write the halves the other way round (run `frames_version`).
4. `protocol.rs:206`: a prefix length of 32 passes the assertion and becomes an empty
   mask in a release build; a debug build panics. Run `routes_host` has only the route
   192.168.10.9/32, which matches 192.168.10.2. Lengths that are no multiple of eight
   break the property, too, for another reason (the mask takes the low bits of an octet
   instead of the high ones); they are not part of that run.

An observation beside these: a default route is accepted, but `modules/ipv4.rs:41` asks
for a length above 0, so that its interface is never used and the packet goes to
interface 0 (`LongestPrefixElseNicZero`). The repository does not say what a default
route should do.

Conditions on the configuration that nothing checks are recorded as ASSUMEs
(`LinkAssumption`, `AcyclicAssumption`) and among the hazards.

## 5. The proofs

Every module with state has its theorems. A theorem holds for every
value of the constants that satisfies the module's ASSUMEs; TLC evaluates these on
every run. Each proof has the same shape: an inductive invariant `IInv`, one lemma per
conjunct with one case per action, `Spec => []IInv`, and the properties from it. The
invariants were checked by TLC on the instances of section 3 before they were proved.

### Worker and Datapath

The first part of `DatapathProofs` is about `Worker`, for every graph, pool, burst and
queue size:

| Theorem | States |
|---------|--------|
| `Invariance` | `Spec => []IInv` |
| `TypeCorrect` | `Spec => []TypeOK`; the counts are natural numbers, so none underflows |
| `RefcountsExact` | `Spec => []RefcntExact` |
| `PoolClean` | `Spec => []PooledClean` |
| `QueueBounded` | `Spec => []QueueBound` |
| `StopsClean` | `Spec => []CleanStop` |

The inductive invariant is `IInv == TypeOK /\ QueueInv /\ RefcntExact /\ PooledClean`.
None of the parts is inductive alone:

* `TypeOK` needs `RefcntExact` and `PooledClean`: that `deallocate` does not take
  `refcnt` below zero follows from somebody using the packet.
* `RefcntExact` needs `PooledClean`: a packet that is allocated has count 1 and no
  users. `PooledClean` needs `RefcntExact`: the one who finds count 1 is the last
  user. `LinkAssumption` makes a poll add one task per packet.
* `QueueBound` is not inductive: forwarding from a full queue would overflow it.
  `QueueInv` says that the task at position *i* leaves room for
  `(MaxLinks - 1) * Height` more; forwarding takes one task off, adds at most
  `MaxLinks`, and each of these has less height (`HeightDrop`). While polling,
  the queue holds at most a burst per node polled (`BurstRoom`); and the queue is
  empty at the head of the loop, which is also what `CleanStop` needs.

The counting is done by three lemmas about sequences of tasks, `PopCount`,
`CopiesCount` and `DistinctCount`: how taking a task off, adding one per link and
adding one per polled packet change the number of tasks of a packet.

The second part is about `Datapath`, for any number of interfaces:

| Theorem | States |
|---------|--------|
| `PathInvariance` | `PathSpec => [](IInv /\ FifoType)` |
| `PathImplementsWorker` | `PathSpec => Spec`: the composition implements `Worker` |
| `PathUsesFifo` | `PathSpec => Fifo!Spec`: it uses the adapters as `TxFifo` allows |
| `PathSafe` | `PathSpec => [](RefcntExact /\ PooledClean /\ QueueBound /\ CleanStop)` |
| `MbufsBalance` | `PathSpec => []MbufBalance` |
| `BuffersOwn` | `SendsNothingReceived => (PathSpec => []SendsOwnBuffer)` |
| `RingsBounded` | `PathSpec => []TxInv`: no ring above its size, no write behind `tx_bufs` |

* `FifoType` (the adapters have packets of the pool) is what makes the free callback
  of the composition one of `Worker`; it holds because only `process` adds to a
  queue, and a task names a packet (`TypeOK`).
* `MbufBalance` is inductive together with `PathInv`: a poll sets the type of exactly
  the slots it allocates (`PollAllocates`), and a packet is freed by its last user,
  which `RefcntExact` says it is (`FreeLoaded`). Other workers change the type only
  of slots that are in the pool.
* `SendsOwnBuffer` is two invariants. `HeldInv`: `held` counts the places of a packet
  in the transmit queues (`PlacesAppend`, `PlacesTail`). `OwnInv(R)`: tasks of received
  packets are for nodes of *R*, and adapters hold none of them. *R* is a set of
  nodes without adapters that holds what io nodes link to and is closed under the
  links of its forwarding nodes; that there is one is the hypothesis
  `SendsNothingReceived`. It is true of the repository's graphs and of the graph of
  run `datapath` (`R = {2, 4, 5}`); in a graph that sends on what it has received
  `Packet::iova` would meet an mbuf, and the code asserts that it does not.
* `TxInv` is inductive with `PathInv`: a burst takes what the ring has room for, a
  frame that leaves keeps its descriptor until a burst gives it back, and a buffer that
  is full is being flushed, so that `send` is not called again before it is empty.

### IoNode

`IoNodeProofs`, for any number of adapters, mbufs and packets, and any size of the
buffer and of the rings:

| Theorem | States |
|---------|--------|
| `Invariance`, `TypeCorrect` | `Spec => []IInv`, `Spec => []TypeOK` |
| `MbufsOwned` | `Spec => []MbufOwnership` |
| `PacketsAttached` | `Spec => []Attached` |
| `NothingStranded` | `Spec => []NoneStranded` |
| `AdaptersImplementFifo` | `Spec => FifoSpec` |

`IInv == TypeOK /\ CtlInv /\ ListInv /\ OwnInv /\ CarryInv`. A step changes one adapter
at most, and what it does there is one of eight things: `Buffers`, `Drains`, `Refills`,
`GivesUp`, `Transmits`, `Receives`, `Arrives`, `GetsBack`. So the ownership of the
mbufs (`OwnInv`) and of the packets (`CarryInv`) is proved once for each of the eight,
as a statement about the lists of one adapter and apart from the node's control.

* `CtlInv` relates the slice of `flush` to the buffer (`off + tx_idx <= Burst`): it is
  why the refill after a partial burst takes as many mbufs as were sent.
* `ListInv` says at every moment what `NoneStranded` says outside the node: an adapter
  with packets is on the list or the one that is being flushed.
* `MbufOwnership` uses sets; the invariant says the same of positions (`Apart`, `Once`),
  which is what a step changes.

For the refinement, the queue of an interface is described by its elements (`IsLine`:
the *i*-th packet is that of the *i*-th mbuf of ring and buffer; `IsGone`: the part that
has left). Each of the eight steps then appends a packet, moves one from `fifo` to
`flight`, releases the oldest of `flight`, or changes nothing that `TxFifo` sees: a
burst moves mbufs from the buffer to the ring, and the line stays what it is. That the mbufs are distinct (`OwnInv`) is needed here, too: what
`Buffers` attaches to one mbuf would otherwise change another place of the line.

### MemoryPool

`MemoryPoolProofs`, for any number of threads, ids and slots:

| Theorem | States |
|---------|--------|
| `Invariance`, `TypeCorrect` | `Spec => []IInv`, `Spec => []TypeOK` |
| `SlotsOneHome` | `Spec => []OneHome` |
| `PoolIsReady` | `Spec => []PoolReady` |
| `ExhaustionExplained` | `Spec => []ExhaustedForCause` |
| `LossIsBounded` | `Spec => []LossBounded`, the second part of `ExhaustedForCause` |
| `CachesPrivate` | `Spec => CachePrivacy`, an action property |
| `PoolImplementsSlots` | `Spec => SlotSpec` |
| `PoolUsesIds` | `Spec => Id!Spec`: threads use their ids as `ThreadIds` allows |

`IInv == TypeOK /\ IdsInv /\ GuardInv /\ OwnInv /\ SlotInv /\ BoundInv /\ CachedInv`. `OneHome` is not
inductive: two threads with one id would take the same slot out of one cache. `IdsInv`
excludes that, from what `ThreadIds` promises. `GuardInv` says that the pool is created
once, by the one thread inside `GUARD`; without it `CreatePool` could fill the ring
again. `OwnInv` ties a packet that is being sent to the id of its sender, so that the
callback frees it into the cache of the thread it runs in, which is also the point of
`CachePrivacy`. `BoundInv` bounds a cache and what threads that left have wasted;
`CachedInv` says that an id without a cache has nothing in it.

For `ExhaustedForCause` the slots outside a thread's reach are counted: those threads
and adapters have, those that are lost, and those in the caches of other ids. The caches
are any number of sets of at most `FlushThreshold` slots. That their union has at most
`FlushThreshold` slots for each of them would be an induction; `UnionBound` has it from
an injection into the pairs of a cache and a number up to `FlushThreshold` instead
(`Numbering`).

### Service

`ServiceProofs`, for any number of clients, calls, retries and ids:

| Theorem | States |
|---------|--------|
| `Invariance`, `TypeCorrect` | `Spec => []IInv`, `Spec => []TypeOK` |
| `IdsUnique` | `Spec => []UniqueIds` |
| `OneGrant` | `Spec => []OneGrantPerCall` |
| `LeaksReported` | `Spec => []NoSilentLeak` |
| `ServiceImplementsIds` | `Spec => IdSpec` |

`IInv == TypeOK /\ CallInv /\ ConnInv /\ UniqueIds /\ PendingInv /\ GrantInv /\ LeakInv`.
The danger to `UniqueIds` is a request to free an id that the server reads when its
sender has long given up: it must not free an id that somebody else has by then.
`PendingInv` is the reason that it cannot: while such a request may still be read, its id
is marked as used, nobody has it, and no second request frees it. So nobody can be
granted the id before. `ConnInv` says that a connection is answered once and then
closed, which makes `OneGrantPerCall` inductive (`GrantInv`). `LeakInv` strengthens
`NoSilentLeak` by the case of a client that has not read yet that its id was freed.

### Startup

`StartupProofs`, for any number of workers, lcores, graph entries and interfaces, none
included:

| Theorem | States |
|---------|--------|
| `Invariance`, `TypeCorrect` | `Spec => []IInv`, `Spec => []TypeOK` |
| `ServerIsFirst` | `Spec => []ServerFirst` |
| `PortIsReady` | `Spec => [](SamePort => PortReady)` |
| `QueuesApart` | two running workers have different queues, in any stack |
| `QueuesConfigured` | `Spec => [](SamePort /\ SameEntry => OwnQueue)` |
| `ReturnsLast` | one worker per lcore; `Engine::run` returns after the last of them |

`IInv == TypeOK /\ ServerInv /\ LcoreInv /\ QueueInv /\ OnceInv /\ PortInv`. The hypotheses
are those the code needs: `SamePort`, as finding 2 shows, since `INIT_ONCE` lets the
first interface of the first worker in and nobody else; `SameEntry`, since the number of
queues is that of one entry while `QUEUE_ID` counts all workers. The configurations in
the repository satisfy both. `OnceInv` is the heart: whoever has passed `INIT_ONCE` finds
`port_init` done, and a worker at its second interface passed it before.

### Frames and Routes

`FramesProofs`, for any sets of payload sizes, header lengths and times to live that
frames can have:

| Theorem | States |
|---------|--------|
| `Invariance`, `TypeCorrect` | `Spec => []IInv`, `Spec => []TypeOK` |
| `HeadersInFront` | `Spec => []HeadersContiguous` |
| `PayloadDelivered` | `Spec => []PayloadIntact` |

`IInv == TypeOK /\ SendInv /\ RecvInv` gives the offset and length behind each module.
`SendInv` also says which bits `version_ihl` may have, whatever the buffer held before:
because the setters swap the halves, a frame of this stack reads as one with a header of
four words and `Ipv4Receiver` drops it (finding 3), so every frame that is delivered
is a peer's.

`RoutesProofs`, for tables of any length:

| Theorem | States |
|---------|--------|
| `Invariance`, `TypeCorrect` | `Spec => []IInv`, `Spec => []TypeOK` |
| `LookupIsLongest` | `WholeOctets => (Spec => []LongestPrefixElseNicZero)` |

`IInv == TypeOK /\ LoadInv /\ LoopInv /\ DoneInv`; `LoopInv` is the loop's invariant: the
first of the longest matches among the routes looked at. The rest is about words: over
whole octets, comparing under the mask and comparing prefixes look at the same bits.
`WholeOctets` (accepted routes have a length of 0, 8, 16 or 24) is needed: finding 4
is about the others. Default routes are among the candidates of the property; that the
lookup never selects one, and that the packet then has interface 0, is part of it.

### Config

`ConfigProofs`, for any set of files, any name and any capacities:

| Theorem | States |
|---------|--------|
| `Invariance`, `TypeCorrect` | `Spec => []IInv`, `Spec => []TypeOK` |
| `ConfiguredWorkers` | `Spec => []RunsConfigured` |
| `PanicsExplained` | `Spec => []PanicsForCause` |

`IInv == TypeOK /\ LoadInv /\ PanicsForCause /\ BuildInv`. `LoadInv` says that what is
loaded is from the directory and that, of every file that was read, there is a
configuration with its name: so a name that is not found after loading is in no file,
which is what `PanicsForCause` needs. `BuildInv` ties the workers to the two loops of
`Engine::run`: `Done` is the set of the cpus they have gone through, there are as many
workers as that, each is the worker of one of them and each of them has one, and the
graph of each could be built. At the end `Done` is all the cpus of all entries. The
ids of the workers are in order because none is above `entry`.

That the graph of a worker has exactly the links of its file is `GraphHasLinks`, a fact
about `LinksOf`. Two steps would take an induction over the lists and are done otherwise:
`find` returns the first element because the order of the numbers is well-founded
(`SmallestElement`), and the links of a node are numbered without a gap, each once,
because an injection between finite sets of one size is onto (`NthElement`).

### Only model-checked

* All liveness (`DrainEnds`, `StopEnds`, `BufferDrains`, `FramesReceived`, `SetupEnds`,
  `CallReturns`, `StopReturns`, `WorkersRun`): out of this prover's reach.
* The four runs that expect a violation show a counterexample; there is nothing to prove.

## 6. What is not modelled

* `channel.rs`: a wrapper of `rte_ring` that nothing calls, so that there is no use to
  model it from. (Its `recv` returns the first word of the object that it has
  dequeued, not the object.)
* The user library (`omnistack/`): its functions are `todo!()`. With it go several
  processes on one memory zone, which `--proc-type auto` allows.
* `rust-dpdk-sys` (a build script and generated code) and DPDK itself; offload flags
  and checksums.
* What a driver makes of `MBUF_FAST_FREE`, which promises mbufs without external
  buffers while `send` attaches one to each (`modules/dpdk.rs:96`): the models let
  every mbuf that comes back run its callback.
* The derive macros, which only generate code; `MacAddr`; and the perf counters.
* `FdCreate`/`FdClose`: the server refuses them and changes nothing.
* Received frames that are not what their headers say (a `tot_len` below the header or
  above the frame): `Ipv4Receiver` and `UdpReceiver` take the lengths as they are, and
  no property is claimed of what they make of them.
* What modules that share a packet after a fan-out see of each other's headers: no
  graph of the repository fans out.

## 7. Plan

Done: the components above with their runs, the three abstract specifications, the
composition `Datapath`, and the proofs of all safety properties of the passing runs, the
refinements included.

Next, the model: in `Startup`, stacks with several graph entries, once the code counts
queues for all of them; a poll from a node with several links in `Worker`, once the code
counts their references.
