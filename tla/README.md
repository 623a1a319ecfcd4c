# TLA+ models of the GPU packet processing application

This directory holds TLA+ specifications of the program under `src/`: a DOCA
GPUNetIO application (`src/gpu_packet_processing`) in which CUDA kernels receive,
filter and answer packets while CPU threads keep TCP connections and statistics,
and a small double-buffered CUDA program beside it (`src/mini_trader`). TLC
checks the models on small instances; TLAPS proves the theorems for every value
of the constants.

    tlc -workers 2 -config TcpSession.cfg MCTcpSession
    tlapm TcpSessionProofs.tla

Below, `P` stands for `src/gpu_packet_processing`. `PROJECT.json` maps each
definition to the lines it stands for.

## The system

| Component | Source | State | Operations | Module |
|---|---|---|---|---|
| TCP connection tracking | `P/tcp_cpu/tcp_cpu_rss_func.c`, `tcp_session_table.*`, the GPU offload of `P/config_queues/flow.c` | session table (`rte_hash`), heap entries, hardware flows, ACK buffer pools, bursts in the callback | receive, receive error, transmit completion, create and destroy a session, make and send ACKs | `TcpSession`, `TcpRouting` |
| Filter statistics | `P/gpu_kernels/receive_udp.cu`, `receive_tcp.cu`, `stats_core` in `P/gpu_packet_processing.c` | per queue a semaphore ring, `stats_sh`, the two indices | count, publish, poll, add, free | `StatsRing`, `StatsLedger` |
| HTTP server on the GPU | `P/gpu_kernels/receive_tcp.cu`, `http_server.cu` | per queue an HTTP semaphore, ticket counter, lanes, response buffers, Eth Txq | take a ticket, describe a GET, serve it, transmit | `HttpServer` |
| Application life cycle | `P/gpu_packet_processing.c` `main` | `force_quit`, `exit_cond`, streams, threads | warm-up, launch, create, wait, stop, join, tear down | `AppLifecycle` |
| Mini trader | `src/mini_trader/src/*`, `include/*` | two pinned and two device buffers, two counters, two streams | generate, copy in, decide, copy out, add | `MiniTrader` |
| Mini trader, single shot | `src/mini_trader/mini_trader.cu` | one buffer, one counter | copy and launch, decide, fetch | `MiniTraderOnce` |
| Queue construction and destruction | `P/config_queues/{tcp,udp,icmp}_queues.c`, `http_txbuf.c`, second half of `tcp_cpu_rss_func.c` | DOCA objects of each queue, of the device, the GPU and DOCA Flow | create step by step, undo, destroy | `QueueResources` |
| Flow pipes and packet routing | `P/config_queues/flow.c` | root entries with priorities, match tables | create pipes, root control | `FlowRouting`, `TcpRouting`; the offload entries come from `TcpSession` |
| ICMP echo kernel | `P/gpu_kernels/receive_icmp.cu` | run of packets, lanes, receive slots, Eth Txq | receive, reply in place, send | `IcmpEcho`, `IcmpQueue` |
| Packet filters | `P/gpu_kernels/filters.cuh` | none | byte comparisons | an arbitrary choice in `StatsRing` |
| Command line and device selection | `P/config_queues/args.c`, `device.c` | configuration | parse, open | opening the device is a call in `QueueResources`; parsing is not modelled |

**How they interact.** `main` sets the devices, queues and pipes up, launches one
CUDA kernel per protocol on a stream of its own and one thread per CPU job. RSS
and the flow pipes decide where a packet goes: SYN, FIN and RST to a CPU RSS
queue (`TcpSession`), the rest of a *known* connection to the GPU's TCP queues,
UDP and ICMP to theirs. A receive kernel reports to `stats_core` through a
semaphore ring (`StatsRing`) and, for GETs, to the server kernel through another
(`HttpServer`). Two flags stop everything: `force_quit` for `main` and the
threads, `exit_cond` for the kernels (`AppLifecycle`).

**What is hard.** The table of sessions has no lock but several threads; every
`doca_*` call may fail and most failures are ignored or only partly undone; the
semaphore rings have no flow control; the NIC transmits a buffer some time after
it was handed over; two exit flags must reach everybody; two CUDA streams
advance independently. `PROJECT.json` lists each hazard at its line.

**What makes each component correct.** Connection tracking: no buffer, session
or flow is lost, the table never points to freed memory, the GPU pipe forwards
known connections only, the thread can be stopped. Statistics: each burst is
counted once, whole and in order. HTTP server: each request is answered once,
with its page, by one lane. Life cycle: nothing is torn down under a running
kernel, no kernel stops unasked, a request to quit ends the program. Queues: no
memory is released under a running queue, nothing is released twice or forgotten,
whichever call fails, and the device and the GPU go last. Routing: the packets
that open or close a connection reach the threads that track it, its data the
GPU exactly while it is known. ICMP: each ping is answered once, with its own
reply. Mini trader: the total does not depend on the interleaving of the streams.

## The modules

* **`TcpSession`**: one process per CPU RSS queue. `poll`, `progress` are the
  loop of `tcp_cpu_rss_func`; `scan` to `send` are the places in
  `rxq_success_cb` where the callback can be interleaved with another thread.
  Each call that can fail has a disjunct or an action for the failure with what
  the code then does (`Abort` is the label `error`, `DropBatch` the two paths
  that give ACK buffers back, `DisableFails` the ignored result). A flow that was
  added is `installed` once it is in the hardware: `EnableUnprocessed` is the ignored
  failure of `doca_flow_entries_process` after which that is open, and `FlowSettles`
  lets the flow get there at any later time. `rte_hash`
  is external: an insertion finds the slot (`PickSlot`) and writes it
  (`WriteSlot`), because the table is created without the multi-writer flag.
  A repeated SYN writes the slot of its key again. Heap cells, flows and slots
  are reused after release, so nothing counts packets. `excused` is a
  history of the connections that an ignored failure or a repeated SYN touched:
  what the properties say of the others is exact. Which connection a packet
  belongs to and its kind are all that is kept of it; a packet that has both FIN
  and SYN is of kind FIN, as the code tests FIN and RST first.
* **`MCTcpSession`**: the RSS assignments and symmetry sets of its runs.
* **`FlowRouting`**: the entries of the root pipe with their priorities, what each
  pipe behind it takes, and from both where a packet goes (`Destinations`, a set:
  entries of equal priority that overlap would leave a choice). Operators only.
* **`TcpRouting`**: `TcpSession` and `FlowRouting` put together; the entries of the
  GPU's TCP pipe are the installed flows of `TcpSession`. It adds no action: the NIC
  routes by what has reached the hardware.
* **`StatsRing`**: per receive queue the CUDA block, warp by warp
  (`WarpAdd` is the `atomicAdd_block` of a warp's first lane) and field by field
  (`WriteField`), and the thread `stats_core`, also field by field. UDP and TCP
  queues differ in their classes, and in that the threads of a TCP kernel with the HTTP
  server (`HttpRings`) may fail to get the HTTP item: they break out of their packets
  (`WarpBreaks`), and the block reports classes that add up to less than the total,
  which stays `out_pkt_num`. `lapped` records that a block began to
  write an item that was not FREE.
* **`StatsLedger`**: the promise. Bursts are reported and counted once, whole and in
  order, until a report finds `Capacity` others waiting. Only an error that stops the
  kernels cuts or drops a burst (`Cut`, `Drop`), and then no other is taken: so at most
  one burst a queue is cut.
  `StatsRing!ImplementsLedger` is the refinement.
* **`HttpServer`**: the receive threads that meet a GET, the lanes of the server
  warp of each queue, the response buffers and the NIC. `lapped` and
  `reused` record that an item or a response buffer was taken while in use.
* **`MiniTrader`**: host and GPU of `src/mini_trader/src`. The operations on a
  stream are done in order, each of them element by element; prices are
  reduced to which moves exceed the threshold.
* **`MiniTraderOnce`**: the same computation without buffers and streams, as
  `src/mini_trader/mini_trader.cu` does it. `MiniTrader!ImplementsOnce` is the
  refinement: when one batch takes all events, the first stream's copy and launch,
  its threads, its fetch of the counter and the addition are the steps of the
  single-shot program. With several batches the mapping is not defined
  (the single-shot program has no counterpart of an intermediate count) and the
  refinement claims nothing; `TotalRight` covers those.
* **`AppLifecycle`**: `main` phase by phase; kernels and threads are reduced to
  running, ending, failing or hanging.
* **`QueueResources`**: the queues before and after their use. A `create_*` or
  `destroy_*` function is a sequence of calls (`make`, `set`, `start`, `stop`,
  `release`; `nest` is a helper that undoes itself); beside each call stands what
  the code does when it fails: the calls of its error path (`undo`) and who goes
  on (`otherwise`). `obj` is what DOCA holds, `ptr` what the application's
  structs say; the two drift apart because most error paths and destructions do not
  reset pointers. `plan` is the code still to run. `dangling` and
  `abandoned` are histories of the objects with which two error paths of the code go
  wrong (see below); the properties are exact for all others. `AppLifecycle`
  takes all this as one step of `main` at either end.
  `main`'s own calls around the queues (device, GPU, DOCA Flow, progress engine)
  belong to the owner `App`.
* **`IcmpEcho`**: the ICMP kernel. The warp receives a run of packets
  (`Receive`), each lane looks at every `WarpSize`th of them (`Ignore`, `Reply`,
  `Submit`) and the lanes meet again (`SyncWarp`). `Reply` changes the slot of the
  receive buffer, `Submit` hands the slot, not a copy, to the Eth Txq; meanwhile
  the NIC may write the next packet there (`Arrive`), which `overrun` records.
  `icmp_checksum` sums 40 bytes beyond the message: `extent` keeps how far a slot may
  hold anything but zeros, and `ChecksumSure` says when the sum is right all the
  same: an even number of bytes, zeros behind the message, and 40 bytes left in the slot
  (`Beyond`, `SlotSize`), as otherwise the sum runs into the next slot or past the
  buffer.
* **`IcmpQueue`**: `QueueResources` with the ICMP kernel at work while the queues
  are up. The kernel must have ended before they are destroyed; the replies it
  queued need not have left.
* **`TcpSessionProofs`, `TcpRoutingProofs`, `StatsRingProofs`, `HttpServerProofs`,
  `QueueResourcesProofs`, `IcmpEchoProofs`, `AppLifecycleProofs`,
  `MiniTraderProofs`**: the theorems, see [The proofs](#the-proofs).
  `TcpRoutingProofs` builds on `TcpSessionProofs`.

Operators whose comment begins with `Mutant:` are not part of a model. Each is a
plausible wrong version of the definition after it; putting it in the place of
that definition makes the run find the named property violated, which shows that
the property does depend on the code.

## The runs

| Run | Bounds | Shows |
|---|---|---|
| `TcpSession` | 1 thread, 3 connections, 3 heap cells, 2 flows, 2 slots, 1 ACK buffer, bursts of 2 | buffers, sessions and flows are accounted for on every failing path; the table is sound; a teardown leaves nothing behind; each packet of a connection goes where its session says |
| `TcpSessionTwo` | 2 threads with one connection each, 2 heap cells, 1 flow, 2 slots | the unlocked table still never points to a wrong session; a thread told to quit returns or is caught in the option walk |
| `TcpSessionRace` | 2 threads, 2 flows | violation: two insertions take the same slot, a session is lost |
| `TcpKnownFlows` | as `TcpSession`, with 2 ACK buffers | violation: a flow survives its session |
| `TcpGracefulExit` | 1 thread, 1 connection | violation: a thread in the option walk never ends |
| `StatsRing` | 2 queues, the second of TCP, 2 items each, 1 warp, 1 class, bursts of 1; at most one ring lapped (`SomeRingSound`) | the handshake works until a ring is lapped, and implements the ledger; `stats_core` starves no queue |
| `HttpServer` | 1 queue, 2 receive threads, 2 lanes with 2 items and 1 buffer a page each, 3 requests | each request is answered once and with its page; lanes go on to their next item and keep apart; every READY request is answered |
| `HttpSharedBuffers` | 2 queues, 2 requests | violation: two warps fill one buffer |
| `MiniTrader` | up to 5 events, batch arguments 0 to 3, every pattern of moves | the total is right under every interleaving of the streams; with one batch the program implements the single-shot one |
| `AppLifecycle` | 4 kernels, stats thread, 2 TCP threads, with and without the server | nothing is torn down under a running kernel; quitting ends the program |
| `QueueResources` (module `IcmpQueue`) | 2 queues per protocol, with and without the server, up to 4 failing calls (`MaxFailures`; calls on a NULL pointer not counted); ICMP: 2 lanes, 3 slots, runs of up to 3, 4 packets, requests of 98 and 474 bytes and other packets of 99, slots of 512 | memory outlives the queues that use it; devices go last; nothing is released twice; destructions are complete; the kernels and threads start on usable queues only; each ping is answered once and with its own reply |
| `AppKernelError` | 1 TCP thread | violation: after a kernel's error `main` waits on |

**Why the bounds are enough.** In `TcpSession` there are more connections and heap
cells than slots and flows, so the table and the pipe overflow, cells and flows
are recycled for another connection, and a burst holds two packets of the
same or of different connections. A pool of one ACK buffer is full, held
or in flight, and runs dry within a burst; that larger pools and bursts conserve their
buffers is a theorem. With two rings `stats_core` takes turns
(`NextRing`), and a kernel may publish on one without end while the other waits; a ring
of two items distinguishes full, empty and in between and wraps at once. A packet is
enough to tear a report (its total, its class) and to cut a burst. TLC cannot have two
rings and reports of more kinds at a time (with bursts of two packets there are more
than 5 million states); that the ledger is implemented with several warps,
several classes and bursts of any size is a theorem. The run does not go on from
states in which both rings were lapped (`SomeRingSound`): nothing is promised of
these but the visits of `stats_core`, which do not depend on what a ring holds.
Of three requests on a ring of four items the third is the second item of lane 0, and is
READY before the first when the thread with the first ticket is slow; with one buffer a
lane it finds the buffer in use, or not. An item is not taken twice in this run;
`RightAnswers` covers it for rings of every size.
Five events with batches of two or three
give full, short and single batches, and buffers are used three times. Four
failing calls are one in the creation, which may be survived, one or two in its
error path, and one in the destruction that follows. Three packets for two lanes
make a lane take a second one, and the fourth packet is written into the slot of
the first. Of the two requests one ends well within its slot and one less than 40
bytes before its end; a packet of 99 bytes leaves a byte behind one of 98. Requests of odd
length are in the theorem only. The ICMP kernel is followed with the HTTP server and after a
creation without failures only (`Followed`): neither makes a difference to it.
The hardware limits (4096 sessions, 1024 items, 128 packets) are sizes only: nothing
in the code depends on them beyond full and empty.

**Fairness.** A CPU RSS thread that has entered its callback goes on and looks at
`force_quit` again (`WF(Callback \/ Idle \/ Stop)`): it is an operating system
thread in a polling loop; the NIC need neither deliver nor complete anything.
`stats_core` polls without blocking (`WF(Stats)`); kernels owe nothing there.
The lanes of the server warp spin on the GPU, a thread of the receive kernel that has
taken packets goes through them (there is no barrier inside the packet loop, and the GPU
lets each thread of a resident block go on), and the NIC works off what it was handed
(`WF` of each lane, of each `RxStep` and of `Transmit`). In `MiniTrader` the host and
each stream make progress. In `AppLifecycle` `main`, each launched kernel
and each thread that does not hang run. No strong fairness is used.

**Deadlock** is not checked where the program may really stop: after both flags are
set, or after `main` returned, no step is left; each cfg says so.

## What the violations say

* `TcpSessionRace`: `tcp_session_table.c:36` asks to make the table thread-safe if
  more than one core is used; `main` starts one thread per queue. With two queues
  two insertions pick the same slot and one session and its flow are lost.
* `TcpKnownFlows`: `flow.c:354` says that the GPU pipe forwards known flows only;
  `destroy_tcp_session` ignores a failed removal.
* `TcpGracefulExit`: `gpu_packet_processing.c:411` promises a graceful
  termination; the option walk of `create_ack_packet` need not terminate.
* `HttpSharedBuffers`: `defines.h:88` says each thread of the server kernel has
  its own subset of buffers; this holds within a warp only (`LanesDisjoint`).
* `AppKernelError`: the comments at a receive error say that the whole execution
  stops; only the kernels do.

One more comment disagrees with the code and with another comment: `flow.c:228-230`
says that the CPU's TCP pipe forwards "unrecognized flows" to the CPU, "any TCP packets
not recognized by the GPU TCP pipe". But the root pipe sends only SYN, FIN and RST there;
data of a connection without an entry goes to the GPU pipe and is dropped
(`flow.c:391`), as `flow.c:354` says. No run is spent on it, as it shows in the first state:
`DataFollowsSession` says what the code does, that such data does not go to the GPU, and
`RoutedRight` says nothing of it.

`QueueResources` has no violation run, as no text of the repository promises what is
wrong; its properties name two exceptions instead. `create_cpu_mmap` and
`create_txq_cpu_rss_buf_pool` release what they made and leave the caller's pointer
set, so that `destroy_tcp_queues` releases it again (`dangling`). The error
path of `create_txq_cpu_rss` destroys a Txq that may be started, ignores the result
and frees its memory (`abandoned`). Besides, `receive_icmp.cu` answers from the
memory of the receive queue, which `destroy_icmp_queues` frees before it stops the
Txq; this is not covered by `MemoryOutlivesQueues`. `DevicesLast` does not speak of
runs in which a call of a destruction failed: `destroy_flow_queue` drops these results
and `main` closes the device all the same. `EchoAnswers` excuses a slot that was
overrun, and the checksum where `icmp_checksum` cannot be right for sure
(`ChecksumOpen`).

## The proofs

All theorems hold for every value of the constants under the named assumptions of
the module they are about. None of the properties is inductive as it stands; each
module defines the invariant that is, as named parts, and proves `Init => Inv` and
`Inv /\ [Next]_vars => Inv'`, with one step per action.

| Module | Theorem | States | Invariant |
|---|---|---|---|
| `TcpSessionProofs` | `TypeCorrect` | `[]TypeOK` | `StateInv /\ BufferInv` |
| | `BuffersAreConserved` | `[]BuffersConserved` | |
| | `TableIsSound` | `[]TableSound` | `TableInv` |
| | `FlowsAreTracked` | `[]FlowsTracked` | `FlowInv` |
| | `SessionsAreTracked` | `[]SessionsTracked`, one thread | `AloneInv` |
| | `TeardownIsClean` | `CleanTeardown`, one thread | `AloneInv` |
| `TcpRoutingProofs` | `RoutedAlwaysRight` | `[]RoutedRight` | none needed |
| | `DataFollowsTheSession` | `[]DataFollowsSession`, one thread | `LiveInv` |
| `StatsRingProofs` | `ReadyItemsInOrder` | `[]ReadyInOrder` | `RingInv` |
| | `TornAccessExcluded` | `[]NoTornAccess` | `RingInv` |
| | `TypeCorrect` | `[]TypeOK` | `CountInv` |
| | `RingsImplementLedger` | `ImplementsLedger` | `RingInv /\ CountInv` |
| `HttpServerProofs` | `TypeCorrect` | `[]TypeOK` | `TypeInv` |
| | `LanesAreDisjoint` | `[]LanesDisjoint` | `TypeInv` |
| | `RightAnswers` | `[]AnswersRight` | `ServerInv` |
| `QueueResourcesProofs` | `TypeCorrect` | `[]TypeOK` | `ResourceInv` |
| | `MemoryIsKept` | `[]MemoryOutlivesQueues` | `ResourceInv` |
| | `NothingReleasedTwice` | `[]ReleasedOnce` | `ResourceInv` |
| | `DevicesGoLast` | `[]DevicesLast` | `ResourceInv` |
| | `AllIsReleased` | `[]NothingLeft` | `ResourceInv` |
| | `KernelsFindTheirObjects` | `[]UpMeansUsable` | `ResourceInv` |
| `IcmpEchoProofs` | `EchoTypeCorrect` | `[]EchoTypeOK` | `EchoInv` |
| | `RepliesAreRight` | `[]EchoAnswers` | `EchoInv` |
| | `RequestsAreAnswered` | `[]EchoComplete` | `EchoInv` |
| `AppLifecycleProofs` | `TypeCorrect` | `[]TypeOK` | `LifeInv` |
| | `TeardownIsQuiet` | `[]TeardownQuiet` | `LifeInv` |
| | `FlagAlwaysFits` | `[]FlagFits` | `LifeInv` |
| | `KernelsStopOnlyWhenAsked` | `StopsOnlyWhenAsked` | `LifeInv` |
| `MiniTraderProofs` | `TypeCorrect` | `[]TypeOK` | `TraderInv` |
| | `BuffersAreIdle` | `[]BufferIdle` | `TraderInv` |
| | `TotalIsRight` | `[]TotalRight` | `TraderInv` |
| | `OneBatchImplementsOnce` | `ImplementsOnce` | `TraderInv /\ OnceInv` |

**`TcpSessionProofs`.** `StateInv` gives the variables their types without the upper
bound of the counters, and adds that a thread past `scan` has a packet at hand
(`PacketPending`), which the steps that look at `Head(burst[q])` need. `BufferInv`
gives, per queue, that free, held and submitted buffers never exceed the pool (and
make it up exactly until the application quits), that what the callback holds and
has still to handle fits a burst, and where `pkt_array` is held. The upper bounds of
`TypeOK` follow from the sum. Two lemmas (`NoBufferMoved`, `OtherThreads`) dispose of
the actions and queues that do not touch a buffer.

The second half of the module is about the table. `TableSound` must survive a second thread between the look-up
and the deletion, or between the choice of a slot and the writing of it. What saves it
is RSS: a thread only sees packets of its own connections (`OwnPackets`), so the
session it holds is one no other thread frees or recycles (`Hands`), and the slot it
writes is the only one that may hold its key. So `TableIsSound` and `FlowsAreTracked`
hold for any number of threads. A session is not always kept, though: the run
`TcpSessionRace` shows two threads pick the same empty slot. `SessionsAreTracked` and
`TeardownIsClean` therefore have the hypothesis `OneThread` (at most one queue), which
is how the program runs with `--queue 1`; under it the slot chosen is still empty
when it is written (`Alone`). `FlowInv` adds that free cells and sessions being set up
have no flow, and that a session about to be freed has lost its flow or is `excused`.

**`TcpRoutingProofs`.** `RoutedRight` holds for every set of known connections and is
proved from the entries of the root pipe: of those that match a packet, one has the
lowest number (`PipeDecided`). `DataFollowsSession` relates what is in the hardware to
the table; `LiveInv` adds that no two sessions share a flow and that a session's flow
forwards its own connection until a thread has removed it. That a flow is installed is
no part of the invariant: one that was added and not processed stays with its session
and may get into the hardware, or not, until the session goes.

**`StatsRingProofs`.** `RingInv` has the types of the handshake's variables, the item
being written FREE (`WritesFree`), the one being read READY (`ReadsReady`), and
the READY items as the segment from the reader's index to the writer's
(`ReadyInOrder`). Publishing lengthens the segment by its last item
(`SegmentGrows`, which needs the item FREE, hence the segment shorter than the
ring), freeing shortens it by its first (`SegmentShrinks`). Arithmetic modulo the
ring size is kept to the lemmas `ModNext`, `ModWrap` and `ItemSuccessor`. `CountInv`
follows a burst: the shared counters hold what the warps that have added theirs have
(`SumsOK`), the fields written so far are those of the burst (`FilledOK`), the fields
read so far those of the item (`CopiedOK`). The counts are cardinalities of sets of
packets, because the prover can add a warp's packets to a set and cannot unfold a sum
over all warps. For the refinement each step of a block or of `stats_core` is shown to
be a step of the ledger or a stutter; a warp that breaks out of its packets cuts the ledger's
burst (`LedgerCut`, with `BreakUncounted` and `BreakCounts` for the sums); the ledger's queue of reports is the segment
as a sequence (`WaitingIsQueue`, `WaitingGrows`, `WaitingShrinks`), and a block that
meets an item that is not FREE meets a full ring (`FullRing`), which is when the ledger
may give up.

**`HttpServerProofs`.** Lanes go on by the size of the warp; as it divides the number of
items and of buffers (`LaneAssumption`), an item's lane is its number modulo that size
for good (`LanesOK`, `NextOfLane`). For `AnswersRight` the invariant follows each
request: it is at one place at most (`OnePlace`) of those where an unanswered request
can be (`At`: not yet received, in the burst of a thread, in an item, in a buffer on its
way out), and where it is its page is with it (`RightPage`). All this holds while
nothing was taken while in use, so `ServerInv` has it under `~lapped /\ ~reused`; both
histories only grow.

**`QueueResourcesProofs`.** The state is as much the code still to run (`plan`) as the
objects, and `plan` starts as the concatenation of all `create_*` functions over any
number of queues. The argument therefore has two halves.

The first is about the code alone. `CreateOrder` and `DestroyOrder` say of two calls,
of which one is made before the other, what must not happen: an object made after it
was started, memory released before its user, a second release, a device released
before a queue. `CreateFunction` and `DestroyFunction` say it of all pairs of calls of a
function and of each error path, `CreatePlan` and `DestroyPlan` of a sequence of
functions. That the functions of the code are in order is proved from the parts
they are put together of (`PlainPart`, `CpuPart`, `HalvesOK`, `PartsEach`, `PartsCat`;
`OneOwner`, `DestroyCat`, `DestroyEach`) up to `CreateCode`, `DestroyCode` and
`DestroyAllCode`; for the loops over the queues `ForEachOK` says which call stands
where. That what is left of an ordered plan is ordered, and that an error path may take
the place of the function it leaves, is `CreateHead`, `CreatePut`, `DestroyRest`,
`DestroyLeave`. No induction over the plan is needed: order is a property of pairs.

The second half relates the objects to the pending calls (`ResourceInv`): what is still
to be made is not there and what is to be started has not been (`MakingOK`), the
protocols are created one after the other (`StagesOK`), what is not yet usable will be
or belongs to a CPU RSS queue that was given up (`ReadyOK`); in a destruction the users
of memory stand before its release in the same function (`StopsFirst`), whatever is not
released or stopped yet is to be, unless a call failed (`SettleOK`), and what is
gone has no pointer that will be released again but for `dangling` (`GoneOK`).
Each property follows from `ResourceInv` when the plan is empty or at the call that
could break it. TLC checked `ResourceInv` with two queues and up to three failing
calls (121736 states) before it was proved. `QueueAssumption` (finitely many queues, at
least one) is what `args.c` lets pass besides negative numbers. The
run checks these properties of `IcmpSpec`, whose steps on the variables of
`QueueResources` are steps of its `Next` by definition (`QueueStep`, `KernelStep`).

**`IcmpEchoProofs`.** The theorems are about `IcmpSpec`, the kernel over the life of its
queues, creation and destruction included. `EchoInv` has that the NIC is at most one
buffer ahead of the run (`WindowOK`), so that a packet in use shares its slot with at
most one later packet; then both are marked (`LapsMarked`). A packet is worked on,
queued or sent once (`Apart`), its slot is a reply from the moment its lane has
made it one (`Untouched`) and stays the right one (`ReadyToSend`), and no request is
dropped in between (`NoneForgotten`). `DirtyTo` bounds what lies behind the message in
a slot, which decides the checksum.

**`AppLifecycleProofs`.** `LifeInv` says phase by phase what is on the streams
(`StreamsOK`), what the exit flag is and who may have set it (`FlagOK`) and which
threads exist (`ThreadsOK`). `StopsOnlyWhenAsked` follows step by step from `FlagOK`: a
flag other than 0 means that the application quits or a kernel has failed.

**`MiniTraderProofs`.** `TraderInv` describes where the host stands (`HostOK`) and, for
each batch in flight, how far it has come: the operations left on its stream and the
effect of those behind (`Reset`, `CopyingIn`, `Deciding`, `CopyingOut`, `Fetched`). The
total is the events that fire in the batches behind, `Fires`; a batch adds its `Hits`.
For the refinement `OnceInv` adds that with one batch the second buffer is never
used, and that event 0 is in the GPU's memory exactly when the copy is behind
(`EventAssumption` makes an unwritten cell differ from an event).

**Model-checked only.** The liveness properties `EventuallyCounted`, `ReadyIsAnswered`,
`Terminates`, `QuitEndsApp` and `QuitStopsOrSpins`: the prover has neither fairness nor
ENABLED. Every safety invariant and action property of the passing runs is a theorem.
The models themselves are as much an abstraction for the theorems as for the runs: a
theorem says nothing of what [is not modelled](#not-modelled-and-why).

## Assumptions of the models

* The stores of one GPU thread to a semaphore item reach the other side in program
  order, the status last; the order of the fields is fixed. What
  `doca_gpu_dev_semaphore_set_status` guarantees is not in this repository.
* `sem_http_idx` is kept modulo the ring size; in the code it is an `int` that only
  grows.
* A kernel's look at `exit_cond` and the receive that follows are one step.
* `force_quit` is accessed through `DOCA_GPUNETIO_VOLATILE`, that is, read anew and in
  program order.
* Any DOCA call may fail, and then leaves its object as it was; stopping or releasing
  NULL always fails, releasing a started object may succeed. File descriptors of
  DMABufs are left out: the code never closes them.
* A flow is added with `DOCA_FLOW_NO_WAIT`: one that was added and not processed may
  reach the hardware at any later time, or never.
* `pthread_join` of a joinable thread returns without an error once the thread has
  ended. Before the signal handlers are installed a signal ends the process.
* In the root pipe the entry with the lowest priority number wins; what it has no entry
  for goes to the kernel, as DOCA Flow is initialised in isolated mode.
* A receive gives the slots of the run before it back to the NIC; the Eth Txq
  reads a slot when it transmits it, in the order of the sends. The memory of the
  slots is zero when it is allocated (`Leftover = 0` in the run; nothing in the
  code asks for it, and otherwise no checksum would be certain).
* A CUDA stream finishes its operations in order; within one operation the
  elements are done in any order.

## Not modelled, and why

* The wording of logs, the bytes of headers and pages, the fields of an ACK (its
  option walk is modelled as to whether it ends), the byte comparisons of the
  packet filters, timers for the printout of statistics: no state, or none that a
  property speaks of.
* The parser of the command line (`args.c`) and the search for the device by its
  PCI address: they fill the configuration record once. What they fill in is a
  constant or an initial choice of the models. `args.c:110` lets a negative number
  of queues pass.
* What a block-wide receive or barrier does after some threads of the block have left
  the loop (`exit_cond` is read thread by thread) is the DOCA device library's and
  the GPU's; `StatsRing` takes the look and the receive as one step.
* That `sem_http_idx` overflows after 2^31 requests, and that the user data of a CPU
  RSS queue may silently be missing (`tcp_cpu_rss_func.c:974`): the models start from
  indices in range and from queues that know their number.
* Whether a `doca_buf_arr` minds that `destroy_tx_buf` (`http_txbuf.c:305-329`) stops and
  destroys its mapping before it stops the array: `QueueResources` has the calls in this
  order, no property speaks of it.
* The ICMP queue on the exit path that is taken while kernels run (a thread could not be
  created): `IcmpQueue` begins the destruction when the kernel has ended. `AppLifecycle`
  has this path.

## Plan

The safety properties of all modules are proved. What could be added: in `StatsRing`
the threads of a block that read `exit_cond` one by one, once it is known what the DOCA
device library does with a partial block; and a mapping that takes the one-step set-up
and teardown of `AppLifecycle` to the runs of `QueueResources`.
