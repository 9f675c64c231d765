# SchedraNIC: specification and verification

SchedraNIC is a multi-queue network card (FPGA gateware in Verilog, a Linux
driver in C, a driver in Python for the core test bench) derived from Corundum.
What it adds is a scheduler: the host rings a doorbell with a rank for a batch of
descriptors, and a push-in first-out queue in hardware decides which transmit
queue is served next. This directory holds TLA+ specifications of the parts that
carry its behaviour, the configurations with which TLC checks them, and TLAPS
proofs.

## The system

    driver (C, Python) --registers--> tx_queue_manager --tokens--> PIFO
       ^        ^                       ^   |      ^                 |
       |  completions, events     dequeue   |      '---completion----+
       |        |                   |       |                        v
       |        |              desc_fetch <------ requests -----  tx_engine
       |   cpl_queue_manager <------ completions ------------------'
       |
    packets in host memory, or in the simulated DMA RAM of the core test benches

| part | state it keeps | operations | what is hard | what makes it correct |
|---|---|---|---|---|
| transmit queue manager, doorbell half (`rtl/tx_queue_manager_change.v`) | per queue a ring of doorbells and two tags; pipeline; three fifos and an arbiter | register write of a doorbell; completion from the scheduler | pipelined read-modify-write of the tags; a queue is kept going only by a token that circulates through six buffers | one token per nonempty ring, no doorbell lost, doubled or reordered |
| transmit queue manager, pointer half (same file) | producer and consumer pointers, enable bit, operation table | register writes, dequeue request, commit recorded, commit finished | several dequeues under way, slots shared by all queues and found again through an index stored in the queue | descriptors handed out once, in order, given back in order |
| PIFO (`rtl/Pifo_Sram/*`) | an SRAM per level, pipeline stages, response register | push, pop | operations run down the levels as waves with no handshake; the empty flag is a cycle old | it is a priority queue |
| PIFO in the interface (`rtl/mqnic_interface_change.v`) | `global_ts`, `pifo_empty_d` | stamping of words | wrap and restart of the stamp | rank first, then order of entry |
| Python driver, transmit (`tb/mqnic_core_pcie_us_*/mqnic.py`: `Txq`, `Cq`, `Eq`, `start_xmit`) | software ring, pool of buffers, consumer copies, `clean_event`, posted register writes | `start_xmit`, `tx_transmit`, `process_tx_cq`, `process_eq`, arming | senders, interrupt task and hardware interleave at every await; register writes are late; only a phase bit tells new records from old ones | no slot or buffer used twice, nobody left asleep, no completion left unread |
| Python driver, receive (`Rxq`, `recv`, `wait`) | receive ring, descriptors, pool, queue of packets, `pkt_rx_sync` | refill, `process_rx_cq`, `recv`, `recv_nowait` | descriptors are refilled while others are still being filled; one event wakes all receivers | packets once and in order, ring never starves |
| Python driver, queue lifecycle (`Interface`, `Resource`, `open`, `close`) | free lists, `cq_table`, links between queues, enable bits of the hardware | init, open, close of interface and rings | events of queues that are being closed; the hardware ignores configuration of an enabled queue | every index has one owner, a running queue belongs to the ring that owns it |
| Python driver, probing (`RegBlockList`, `Driver.init_common`, `Interface.init`) | lists of register blocks | enumerate, find, go on to the next interface or port | lists come from the device and may be of any shape | lists are read exactly, all ports found, or an error |
| simulated DMA RAM (`tb/*/dma_psdp_ram.py`) | a memory in segments; queues, handshakes and a read pipeline per segment | write, read, reset, pause | segments run at their own pace with several transfers under way | bytes land where they were sent; reads see what was written |
| completion queue manager (`rtl/cpl_queue_manager.v`, `cpl_write.v`) | queue pointers, arm bits, operation table, event register | enqueue, commit, register writes | arming against committing | no event lost |
| descriptor fetch, transmit engine (`rtl/desc_fetch.v`, `tx_engine.v`) | tables of descriptors and packets, counters | requests, responses, DMA completions | completions out of order, counters by descriptors or by requests | counters return to zero |
| kernel driver (`modules/mqnic/*.c`) | as the Python driver | as the Python driver, with NAPI | as the Python driver | as the Python driver |
| packet data path, MAC, PTP, statistics, PCIe and AXI libraries, board wrappers | - | - | - | not modelled, see the end |

`PROJECT.json` lists every component with its status and the hazards with the
line where each bites.

## The modules

| module | models | remarks |
|---|---|---|
| `DoorbellQueue` | abstract: a bounded fifo of doorbells per queue | what the doorbell half promises |
| `DoorbellRing` | doorbell half of the transmit queue manager with its fifos, `axis_arb_mux`, and the way through the PIFO and back | implements `DoorbellQueue` |
| `DoorbellRing_proofs` | bounded rings, heads, exactly one token; implements `DoorbellQueue` | TLAPS |
| `Pifo` | abstract: a bounded bag from which a word of least rank is taken | what the scheduler promises |
| `PifoTree` | `PIFO_SRAM_Top`, `_Level_1`, `_Level_other`, and the request side of `tx_engine` | implements `Pifo` |
| `PifoTree_proofs` | waves, empty flag, heap and counters of `PifoTree` | TLAPS |
| `PifoTieBreak` | the time stamp `mqnic_interface_change.v` adds to the rank | runs on the cycles of `PifoTree` |
| `DescriptorRow` | abstract: descriptors handed out and given back in order | what the pointer half promises |
| `DequeueTable` | pointers, enable bit and operation table of the transmit queue manager, the table of `desc_fetch`, and the kernel driver's register writes | implements `DescriptorRow` |
| `DequeueTable_proofs` | the operation table and the commits that reach it; the pointers of each queue implement `DescriptorRow` | TLAPS |
| `PacketRing` | abstract: buffers are submitted, sent in order, reclaimed after that | what a transmit ring promises its senders |
| `MqnicTx` | transmit side of the Python driver with completion and event queues, interrupt task and what it sees of the hardware | implements `PacketRing` |
| `MqnicTx_proofs` | arithmetic of rings; types, assertions, wake-ups, completions and descriptors of `MqnicTx`; its doorbells and its pool of buffers; it implements `PacketRing` | TLAPS |
| `MqnicRx` | receive side of the Python driver | |
| `MqnicRx_proofs` | packets in order, buffers, wake-ups of `MqnicRx`, and what a completion queue as large as the ring gives | TLAPS |
| `MqnicLifecycle` | opening, closing and reopening of interface and queues | |
| `MqnicLifecycle_proofs` | owners of indices and registers, and what the interrupt handler finds, in `MqnicLifecycle` | TLAPS |
| `MqnicProbe` | enumeration of register blocks, interfaces and ports | |
| `MqnicProbe_proofs` | lists and ports of `MqnicProbe` | TLAPS |
| `PsdpBus`, `PsdpWrite`, `PsdpRead`, `PsdpMemory` | simulated DMA RAM: cutting of transfers, write half, read half, both on one clock | `PsdpMemory` composes the others |
| `PsdpMemory_proofs` | writes to the RAM arrive in order; reads see them; no read answer is overwritten | TLAPS |
| `MC...` | finite values for the constants | one per specification that is run |

Operators named `Wrong...` stand before the definition they distort. They are
what a plausible mistake would make of the code, and are not used by any
specification: replacing the definition by the distorted one makes TLC report
the property that `PROJECT.json` pairs with it.

The two versions of the Python driver
(`tb/mqnic_core_pcie_us_schedule/mqnic.py` and `..._change/mqnic.py`) differ in
`MQNIC_MAX_RXQ` (line 22) and in `write_prod_ptr` (lines 838-843) only, so what is
mapped to one holds of the other, with the order of the two writes a parameter
(`PointerFirst`). The copies of `dma_psdp_ram.py` in `rx_core` and `rxtx_core` are the
same; the one in `tx_core` differs in how the buses are bundled.

### DoorbellRing

State: `doorbellRam`, `prodTag`, `consTag` are the three RAMs. A tag is an index
and a wrap bit, a number below `2 * DOORBELL_DEPTH`. `pipe` is the pipeline: an
operation reads the RAMs when it is accepted (stage 0) and writes them in the
last stage, so acceptance and performance are separate actions and an operation
carries what it read. `queueFifo`, `doorbellFifo` and `compFifo` are
`queue_fifo`, `doorbell_fifo` and `pifo_comp_fifo`, whose ready outputs the code
does not look at: a word offered to a full fifo is dropped (`Put`). A fifo's depth
includes its output pipeline registers. `axis_arb_mux` has an input register per
fifo and two output registers; its arbiter prefers `doorbell_fifo` and keeps a grant
until the word has been sent (`grant`), so a grant given to `queue_fifo` stands
although a word of `doorbell_fifo` has come in since. The PIFO is a bag here:
any token may leave (`PopPifo(i)`), which includes whatever `PifoTree` decides.

Actions: `AcceptDoorbell` and `AcceptComp` are the two branches of stage 0 that
concern doorbells, with their hazard checks. `AcceptComp` has the lowest
priority in the code; priorities only delay, and leaving them out allows more
behaviours, not fewer. `PerformDoorbell` is AXI-Lite register 5, `PerformComp`
the completion. The remaining actions are the handshakes of the loop.
Operations on pointers share the pipeline and delay these, but touch none of
their state.

### PifoTree

One step is one clock cycle, because the correctness of the tree is a matter of
cycles. `popStage0`, `popStage1` and `pushStage` are the pipeline registers of
each level; a level reads its node in the cycle an operation is in its stage
(the SRAM has one cycle of latency) and writes it in the next (pop) or the same
(push) cycle. `rootRead` is the root's read port, from which `Pifo_Empty` is
computed one cycle late. `ClockPop`, `ClockPush` and `ClockIdle` are the cycles in which
the root accepts a pop, a push, or nothing; `ready` is `tx_engine`'s readiness for
the response. `Ways` is 4 in the code and a parameter here; the counters are not
given a width (15 bits hold far more than the words the tree has room for).

The abstract bag (`Held`) counts the words in the ways, except the one a level has
just given up and will overwrite in the next cycle, and the words on their way
down. A word enters the bag when the root accepts it and leaves it when the
response register is loaded.

### PifoTieBreak

Adds `global_ts` and `pifo_empty_d` to every cycle. The word pushed carries
`rank * TsMod + globalTs` as its rank. `waiting` is a history variable: who is in
the PIFO, in order of entry, and between which two of them the stamp wrapped or
restarted (`last`; a word that leaves hands the mark to the one before it). A queue
has one token in the PIFO at a time (`OneToken` of `DoorbellRing`), so metadata
tell words apart.

### DequeueTable

Pipeline as in `DoorbellRing`. The operation table is `opActive`, `opCommit`,
`opQueue`, `opPtr` with `startPtr` and `finishPtr`; a queue remembers in `opIndex` the slot
of its latest dequeue. `AcceptCommit` frees the slot at once and writes the
consumer pointer at the end of the pipeline. `fetch` is the table of
`desc_fetch`, one entry per descriptor, read in order; each entry read commits
its operation, so a dequeue of `n` descriptors is committed `n` times. `rung`
holds, per queue, the descriptors whose doorbell has not become a request: a
request never asks for more than the host has published, because the host
rings for what it publishes.

The host's part is the kernel driver's: publish while the ring has room, disable
at any time, and after stopping the port rewind both pointers and enable again.
`Settled` is the assumption behind `msleep(20)` in `mqnic_stop_port`: by then no
operation of the queue is left. The initial contents of `op_table_queue` are
not reset by the code and are arbitrary in `Init`.

`DescriptorRow` keeps of a queue two pointers, where the next hand-out starts
(`next`), and the set of hand-outs not given back, each by where it ends and
whether it has been read. The mapping reads `next` off the newest operation of the
queue, wherever that is (`NextPtr`), and collects the hand-outs from the table
and, once they have left it as a commit, from the pipeline (`TakenOps`).

### MqnicTx

A coroutine runs from one await to the next without interruption, so that is a
step. Awaiting a register write is where others run, and the write itself is
only posted: it arrives later (`posted`, in order, `DeliverWrite`). `start_xmit` is
`StartXmit`, `ResumeXmit` and `FinishPublish`: `TryXmit` tests for space and either does all
of `tx_transmit` up to the first of the two writes of `write_prod_ptr`, or clears
`clean_event` and waits. The second write of `write_prod_ptr` takes the pointer as it
is then, when other senders may have moved it (`FinishPublish`). The interrupt task
is `TakeInterrupt`, `ScanEvent` (`process_tx_cq` as far as its write of the consumer
pointer), `AdvanceRing` (the rest of it and `cq.arm()`), `FinishEq` and `ArmEq`. `process_eq`
scans with a copy of the pointer (`handler.ptr`) and stores it at the end.

Records are in memory with their phase bit (`IsNew`), in buffers that are reused
round after round; the hardware writes a record and commits it in separate
steps, and raises an event or an interrupt on a commit or on arming. Doorbells
are counted by the hardware and served one descriptor each, which is what
`DoorbellRing` and `DequeueTable` promise. Pointers are not reduced modulo 2^16: a
ring spans at most half of its size, and the code compares differences.

Assumptions it makes of the system, each named in the module: `CommitsFirst` (a
commit inside the hardware is done before the driver's answer to the record comes
back as a register write); `CqSize >= TxSize` (in the code 1024 and 512: nothing
in the driver compares them); an event queue that does not overflow in the runs
(the proofs do not need this one); `None` is not a number.

### MqnicRx

How completions reach the handler is the subject of `MqnicTx`; here the handler
runs when there is a record. What is left is the way of a buffer: pool,
descriptor (`desc`, memory the hardware reads when it fetches), packet data
(`data`), copy into `pkt_rx_queue`, pool. `ReadCompletions` and `Replenish` are
`process_rx_cq` before and after its await; `Replenish` includes `refill_buffers` with its
batching. `Recv`, `Wait` and their resumptions are the receivers. A completion that
finds the completion queue full (`CqFull`, by the consumer pointer the hardware knows)
is lost and nobody is told: the driver opens a queue of 1024 records for a ring of
8192 descriptors. `completed` is a history variable, the packet of each record written;
the packets that are in none and no longer being written are `Lost`. Receive queue
manager, `rx_engine` and completion path are reduced to what they do to the ring:
`FetchDesc` takes the next descriptor, and `FinishPacket` is in one step the packet's data,
the test for room and the record. Assumption: one receiver, as in the tests.

### MqnicLifecycle

The test's coroutine is a program of steps, each ending in one register write;
the handler, the writes on their way and the hardware interleave with it. A
queue in hardware has an enable bit and a configuration that is ignored while
it is enabled; the hardware may be found with every queue still enabled from an
earlier run (`Stale`). `Interface.close` is modelled as it runs: the coroutines
`q.disable()` returns are never awaited, hence never started, and `await
q.free_buf()` raises TypeError, because `free_buf` is no coroutine, after the first
ring has been emptied. Assumption: a ring is closed by hand only when it is
quiet (`Quiet`); the code does not check that, and an event that came later would
find the handler `None`. A transmit ring has packets only once the writes that set it
up have arrived, because its doorbell comes after them on the same link (`Sendable`).
`Interface.init` ends with a read, as it does in the code when the ports read their
registers; the read is answered when the writes before it have arrived.

### MqnicProbe

`Enumerate` is one turn of the loop of `enumerate_reg_blocks` with its assertions on
alignment and loops; the other actions are what `init_common`, `Interface.init` and
`Port.init` do with a list once it has been read. The device is data and chosen in
`Init`: lists of any shape, those with loops, unaligned pointers and missing blocks
included. An outcome other than "probed" is an assertion or an access to a
register of `None`, both of which end the program.

### Psdp

All coroutines of master and RAM run on the clock and sample the bus as it was
before the edge, so one action is one edge (`Edge`), with a choice for each pause
generator. Calls of `write` and `read` cut a transfer into pieces for the segments
(`PsdpBus`). Byte `i` of write `w` is the pair `<<w, i>>`, so a byte found anywhere says
where it came from. Within an edge the RAM may read before or after it writes:
the two coroutines have no order. `ResetEdge` may come at any time while no read
is under way.

## The runs

| run | bounds | what it shows |
|---|---|---|
| `doorbell_ring` | 2 queues, 2 doorbell words, rings of 2, fifos of 2, pipeline of 2; the host writes both words to one queue, one to the other; 200,484 states | one token per nonempty ring, tokens are heads, no overwrite; implements `DoorbellQueue`; every ring drains once the host stops |
| `pifo_tree` | 2 ways, 2 levels, 2 ranks, 2 metadata, filled to its capacity of 6; 200,605 states | no collision of waves and no response overrun (`NothingOverrun`), exact empty flag, heap order and exact counters (`HeapExact`); implements `Pifo` |
| `pifo_overflow` | 2 ways, 2 levels, 7 words | violation: the seventh word is lost |
| `tie_break` | 2 ranks, stamps modulo 4, 3 words; 234,707 states | `RankThenEntry`: rank decides; equal ranks in order of entry unless the stamp wrapped or restarted between the two entries |
| `dequeue_table` | 2 queues, batches of 2, rings of 4, pointers modulo 8, 2 operations, pipeline of 2; one queue is closed and opened again at will; 320,700 states | the table is a queue and the newest operation of a queue is remembered (`TableIsQueue`), commits stay home; implements `DescriptorRow`; operations leave the table |
| `python_tx` | 1 ring of 4 slots, 2 senders, 6 calls; 87,609 states | buffers conserved, descriptors in flight intact, nobody sleeps while there is space, completions announced up to the interrupt, no assertion fails, no completion lost, every doorbell finds its descriptor and none is dropped (`DoorbellsMatch`); implements `PacketRing`; senders return and buffers come back |
| `tx_bell_first` | as above, doorbell first | violation: a packet stays in the ring |
| `python_rx` | ring of 4 refilled in batches of 2 or more, completion queue of 3, 12 packets; 57,421 states | with completions lost on the way: the other packets once and in order, descriptors and pool exact, `recv` returns a packet, the ring is refilled until it comes round to the descriptor of a lost packet, whatever is completed is received |
| `rx_overflow` | ring of 8, completion queue of 4, 8 packets | violation: a packet whose completion finds the queue full is never returned by `recv` |
| `lifecycle` | 1 receive and 2 transmit rings, 3 packets, 3 closings; 102,324 states | indices and queues have one owner (`QueuesOwned`), the handler never meets an unknown queue, completions are handled |
| `psdp_memory` | 2 segments of 2 bytes and 2 words, 3 calls; 155,416 states | bytes land where they were sent, reads see them, no answer is overwritten, calls return |
| `probe` | 1 interface, up to 4 blocks a list, all shapes; 12,416 states | lists exact, ports complete |

Why these bounds are enough. Two queues are the least with which state shared
between queues can be confused, and no action names more than two. Rings of two
doorbells and tags of two bits wrap within a few steps and reach empty, partly
filled and full at every position. A pipeline of two holds the two operations a
hazard is between (the code's is longer, but the hazard check compares with every
stage and an operation in the middle does nothing). The tree of two
levels is filled completely in every order, and a pop, its refill and a push
follow each other down both levels. Pointers wrap after two batches. Stamps modulo 4
wrap with three words in the tree. A transmit ring of four slots holds two
packets, so that two senders fill it and a third packet waits; six calls take
it once round and into the second, where the phase bit of the records has
changed. Rings of the driver share the pool, the posted writes and the event queue;
how they get on with each other is left to the theorems about `MqnicTx`, which hold
for any number of rings and cover each safety property of its run. Four slots of a
receive ring and twelve packets take it round three times, and its completion queue
is smaller than the ring, as the driver opens the two, so that records are lost at
any place of a round and the ring then stops at their slots; one record less than
descriptors is enough for that. In `rx_overflow` the queue is half as large as the
ring and loses packets in the first round. In the DMA
RAM two words of two bytes in two segments give transfers that start and end
anywhere in a word and wrap round the segments, and three calls overlap.

Two MC modules restrict the host and leave the hardware as it is
(`MCNext` of `MCDoorbellRing` and of `MCDequeueTable`). With two words on one ring and
one on the other a word that reaches the wrong slot or the wrong queue can be
told, and with one queue closed and opened while the other's traffic goes on each
case of the shared table occurs; letting the host do everything to both queues
multiplies the states by six and adds only mirror images and pairs of those cases.
The theorems below do without either restriction.

No run uses symmetry, since most check liveness. The runs of the hardware check for deadlock: it is never without a
step, because the host may always ring or publish again, and the tree's clock
always ticks. The runs of the Python driver have `CHECK_DEADLOCK FALSE`: their
calls are bounded, and when the last has returned the system really stops.

### Fairness

Assumed: weak fairness of each hardware step (pipeline, fifos, arbiter, PIFO
handshakes; commits, responses, fetches), because they happen at the next
clock edge at which they are possible. Weak fairness of `AcceptComp` and
`AcceptCommit` is sound only while operations of higher priority do not hold them
off for good, so those liveness properties are stated for a host that stops
writing. In the Python driver, weak fairness of every coroutine that is ready
(cocotb's scheduler runs them all before time goes on) and of the delivery of
posted writes. In `MqnicLifecycle` the test and the handler share the link,
of which a step needs a free place: the simulator serves both in turn, hence
strong fairness of each. In `PsdpMemory`, weak fairness of the clock edge at which no
side pauses. That is more than that no pause lasts for ever, since pauses could take
turns; the repository sets no pause generator on these classes, and pausing is what their
interface offers. Masters and RAM are connected to each other there, while
`test_rxtx_core.py` has the design under test between them.
Not assumed: anything about the host's calls, about which token the PIFO prefers, or
about requests of the scheduler. Starvation of a queue of high rank is possible,
by design, while better ones keep arriving.

## Where the code and its description part

* The scheduler has room for 1364 words and 8192 queues may each have one in it
  (run `pifo_overflow`). A push into a full tree is accepted and the word is lost.
* The `change` version of `write_prod_ptr` rings the doorbell before it writes the
  producer pointer, which the `schedule` version's comment warns of (run
  `tx_bell_first`): a doorbell served between the two writes is wasted, and the last
  last packet of a burst stays in the ring.
* `Interface.open` opens a completion queue of 1024 records for a receive ring of 8192
  descriptors, and nothing bounds the completions not yet read (run `rx_overflow`). One that
  finds the queue full is dropped: its packet is never returned, though the tests ask
  for every packet sent, and its descriptor stays in the ring, which stops when it comes
  round to it (`RingRefilled` says when, and holds). The kernel driver opens the two with the
  same size (`mqnic_netdev.c:39` and `68`), and then nothing is lost (theorem
  `SizedQueueLosesNothing`).

Noticed, and not shown by a run of their own:

* `global_ts` is reset when the PIFO becomes empty, one cycle too late to exclude
  a push accepted in that cycle: that word keeps a stamp of the time before, and one of
  its rank that enters later may overtake it. `RankThenEntry` says nothing of two words between
  whose entries the stamp restarts.
* A doorbell written to a full ring is dropped without notice; the fifos of the
  queue manager (256 entries) drop tokens when more queues than that are rung at
  once; reset does not clear the tag RAMs.
* The event queue's consumer pointer is written only when a scan finds it empty;
  under continuous traffic the hardware may see it full and drop an event, whose
  completion queue is never armed again (`CompletionsAnnounced` fails when there are
  more calls than `EqSize`; see `CompletionsNeverForgotten`).
* With two receivers a wake-up meant for both returns `None` to one.
* `Interface.close` disables nothing and stops with TypeError (see `MqnicLifecycle`).
* `desc_fetch` and `tx_engine` count requests by descriptors and refusals by one
  (`desc_fetch.v:490`, `tx_engine.v:580`); a response of several descriptors is entered
  when only its first slot is known to be free (`desc_fetch.v:495`);
  `cpl_queue_manager.v:372` raises an event for arming without looking at one a commit
  has raised; the PIFO takes a word of rank all ones for an empty way
  (`PIFO_SRAM_Level_1.sv:340`). These parts are not modelled to that depth.

## What is proved

Each for every value of the constants, under the assumptions the modules name.

| module | theorem | says |
|---|---|---|
| `DoorbellRing_proofs` | `TypeCorrect` | `Spec => []TypeOK` |
| | `RingBounded` | `Spec => []RingWithinDepth` |
| | `TokensAreHeads` | `Spec => []TokenIsHead` |
| | `ExactlyOneToken` | `Capacity => (Spec => []OneToken)` |
| | `KeepsDoorbells` | `Capacity => (Spec => ImplementsDoorbellQueue)` |
| `MqnicTx_proofs` | `TypeCorrect` | `Spec => []TypeOK` |
| | `AssertsNeverFail` | `Spec => []AssertsHold` |
| | `NoLostWakeUp` | `Spec => []NobodySleepsWithSpace` |
| | `NoCompletionLost` | `Spec => []CompletionsKept` |
| | `DescriptorsIntact` | `Spec => []InFlightIntact` |
| | `DoorbellsServed` | `PointerFirst /\ FullSize <= BellDepth => (Spec => []DoorbellsMatch)` |
| | `BuffersNeverLost` | `Spec => []BuffersConserved` |
| | `KeepsPromise` | `Spec => ImplementsPacketRing` |
| | `NothingForgotten` | `Spec /\ []EventRoom => []CompletionsAnnounced` |
| | `CompletionsNeverForgotten` | `MaxXmit <= EqSize => (Spec => []CompletionsAnnounced)` |
| `MqnicRx_proofs` | `PacketsDelivered` | `Spec => []PacketsInOrder` |
| | `BuffersNeverLost` | `Spec => []BuffersConserved` |
| | `SizedQueueLosesNothing` | `CqSize >= RxSize => (Spec => []NothingLost)` |
| | `RecvNeverEmpty` | `(\A u, v \in Receiver : u = v) => (Spec => []RecvReturnsPacket)` |
| `MqnicLifecycle_proofs` | `QueuesStayOwned` | `Spec => []QueuesOwned` |
| | `HandlerNeverRaises` | `Spec => []NoCrash` |
| `DequeueTable_proofs` | `TableStaysQueue` | `Spec => []TableIsQueue` |
| | `CommitsReachTheirOwn` | `Spec => []CommitsStayHome` |
| | `KeepsDescriptorRow` | `Spec => ImplementsDescriptorRow` |
| `MqnicProbe_proofs` | `ListsReadExactly` | `Spec => []ListsExact` |
| | `PortsFound` | `Spec => []PortsComplete` |
| `PifoTree_proofs` | `WavesNeverCollide` | `Spec => []NothingOverrun` |
| | `EmptyFlagTrue` | `Fits => (Spec => []EmptyFlagExact)` |
| | `TreeIsHeap` | `Fits => (Spec => []HeapExact)` |
| `PsdpMemory_proofs` | `AnswersSafe` | `Spec => []NoAnswerOverrun` |
| | `WritesArrive` | `Spec => []WritesLand` |
| | `ReadsAreCurrent` | `Spec => []ReadsSeeWrites` |

### The token of DoorbellRing

`Capacity` says that there are no more queues than a fifo has entries, 256 in the code. As
with `Fits` below it is the driver that meets it, which opens 32 queues, and not the
gateware, which is configured for up to 2^13. The other
theorems do not need it: a fifo that drops a token leaves a queue stuck, but
neither doubles a token nor overwrites a doorbell.

None of the three properties of the token is inductive alone. `RingWithinDepth`
needs that a completion never arrives for an idle ring (`OnlyNonempty`);
`TokenIsHead` needs that the consumer tag does not move under a token, hence that
a queue's tokens are in one place only (`Apart`, `AllDistinct`), and that what an
operation read when it entered the pipeline still holds when it leaves it
(`PipeFresh`), which is what the hazard check is for. Together with `TypeOK` they
are the invariant `IInv`. Its proof goes by places: `Holds(p, q)` says that place
`p` has a token of `q`, and each step that moves a token is shown to change
`Holds` in the one way `Relocates` describes, from which `Apart` follows for all of
them at once. The arithmetic of tags is done in lemmas that replace the modulus
by cases (`NextTagValue`, `SlotValue`, `BetweenValue`), so that `Produce` and
`Consume`, which say what a doorbell and a completion do to a ring, are linear.
`ExactlyOneToken` adds `AllServed`, that a queue with doorbells has a token
somewhere, and `HasRoom`: a fifo that does not hold a token of `q` has at most one
token of every other queue, so it has a free entry.

`KeepsDoorbells` shows each step to be one of `DoorbellQueue` or a stutter. The
abstract fifo of a queue is a window of its ring: from the consumer tag, or the slot
after it once the scheduler has taken the head, as far as the producer tag
(`PendingSeen`). A doorbell that finds room appends to the window (`RingGrows`,
`WindowAppend`), the handshake out of the PIFO takes its head (`WindowTail`), and a
completion, which moves the consumer tag past a head already taken, leaves it alone
(`WindowNext`). It needs `Capacity`: when the scheduler takes a head and the completion fifo drops
it, the ring still holds a doorbell that has been handed out (`HasRoom` excludes it).

### The transmit ring of the driver

The invariant `IInv` of `MqnicTx_proofs` has eight parts. `PointersInOrder`: freed,
completed, sent and published follow each other in each ring, at most half a ring
apart. `WritesInOrder`: posted writes arrive in the order they were made, so the
producer pointer the hardware knows is never ahead of the consumer pointer that
made room for it; this is why the late report of the consumer pointer loses no
completion. `RecordsExact`: exactly the records between the driver's pointer and
the hardware's look new by their phase bit (`Marked`), and record `p` names slot
`p`; it needs that a queue is never more than full. `EventsExact`: the same of the
event queue, which may drop events but never shows an old one as new. `SlotsExact`:
slots of packets not yet completed hold buffers, the others none; without it
neither assertion is safe. `AssertsHold`, `NobodySleepsWithSpace` and the types are
the rest. The scan loops are CHOOSE expressions in the model; lemmas first say
what they choose (`ReadsAll` for the records of `process_tx_cq`, and the like for the
advance of the consumer pointer), and each step is then a plain assignment.

`Pool` adds that free list and slots partition the buffers, from which
`BuffersConserved` follows by counting slots. The refinement adds `BuffersCounted`
(no more buffers than calls) and treats what a ring has queued and sent as runs
of slots (`Run`): `tx_transmit` appends to one run, a served doorbell moves an
element from one to the other, `process_tx_cq` empties one. Each step of the driver
is a step of `PacketRing` or a stutter.

`DoorbellsMatch` needs a count: each packet published owes the hardware one doorbell,
which a sender between its two register writes has yet to write, which is on its way, or
which has arrived (`Owed`). And it needs an order: whatever part of the posted writes has
arrived, the hardware knows a producer pointer that covers the doorbells among them
(`BellsFit`; a step appends one write or delivers the first). Its hypotheses are the ones of the code: the pointer is written
first, which only one of the two drivers does, and `FullSize <= BellDepth` (256 each).

`CompletionsAnnounced` is about a notice per queue: its arm bit, an event of it in the
hardware's fifo or in memory, the handler that has it in hand, or the arming on its way.
`Announced` says that there is one, and that an armed queue has nothing unread; the
delicate step is arming, which must raise at once if a completion was committed since the
driver looked (`ArmRaises`). The one step that loses a notice is an event dropped because
the event queue is full, so `NothingForgotten` has the hypothesis `EventRoom`: it is a
condition on the behaviour, because nothing in the code ensures it. The hardware learns
of `eqCons` only when `process_eq` ends, and while it runs queues are armed and raise
again. `CompletionsNeverForgotten` replaces the hypothesis by a bound on the calls of
`start_xmit`. It needs that a notice is in one place only (`OnePlace`), that the consumer
pointer reaches the hardware before the arming does (`ReadTold`), hence that each event
stands for a packet no earlier event stood for (`Claimed`, `EventsCounted`), and that
there are no more packets than calls (`SendsCounted`). The bound is the best there is:
with `EqSize = 3` TLC violates the property as soon as four calls are allowed.

### The receive ring of the driver

`PacketsDelivered` and `BuffersNeverLost` hold for any sizes, completions lost included. A lost
packet leaves a hole: its slot is filled, its descriptor has been used, and no record will
free it. So record `n` is not of packet `n`, and pointers alone do not say which slots are
filled. The invariant has the set of positions filled and not read (`Out`, from the
history `completed`): their slots are the ones in use (`RingOf`) and none is behind the consumer
pointer (`Ahead`), hence all are within one ring (`Ring`) and in different slots. The records
are of increasing packets, all of which are no longer being written (`RecordsOf`, `Begun`), so
what the handler reads are the packets in their buffers (`Written`, `UnreadFacts`). The
consumer pointer stops at the least position of `Out` (`Advances`, from `Least`), and passes no
more positions than were read, since each it passes was (`NotMoreThanRead`). A refill therefore finds
in the free list a buffer for every slot it fills (`FreeCounted`, `RingFilled`): slots of lost
packets need none, and `alloc_pkt` never makes one.

`SizedQueueLosesNothing` has a hypothesis, the one the kernel driver meets and the Python
driver does not. `WritesOf` says that a consumer pointer is written before the producer pointer
that makes room for it, so the descriptors the hardware knows are never a ring ahead of the
consumer pointer it knows (`NeverFull`), and every packet is in a record or being written
(`AllRecorded`). `RecvNeverEmpty` needs none of this: its invariant `Woke` says that
whoever was woken has a packet to take.

### The life of the queues

`QueuesOwned` speaks of the hardware when no write is on its way, `NoCrash` of events
that were raised some writes ago. Neither says anything in between, so the invariant
judges each register by what it will be: `OffIn(ps, on, r, n)` says that register `r`
is disabled after the first `n` of the posted writes `ps`, `CfgIn` which configuration
it has after all of them, and `LandsIn` that no configuration arrives at a queue that
is still enabled, where the hardware would ignore it. For these two facts
suffice: what appending a write does to them (`OffAppend` and the lemmas after it) and that
delivering the oldest write changes nothing but `LandsIn`, which only gets easier.

`Orderly` describes the program: one ring is opened or closed at a time, its steps
follow each other as `Chain` says, and no ring is opened twice. Hence the step at the
head decides which queues of its ring are open (`StageOf`) and what their registers will be
(`RingWillBe`, `CqWillBe`: configured from the write on, disabled before the enabling and
after the disabling); every other open ring is configured, and a register
that nobody owns will be disabled or the program has yet to disable it (`SpareRings`,
`SpareCqs`). `CqsOwned` and `IndicesOwned` are about free lists and tables: sorted,
duplicate-free, and just the indices nobody owns (`Taken`, `PutBack`). When nothing is posted
and nothing is to be disabled, `RegistersOK` is `EnabledConfigured`.

`NoCrash` follows from `EventsKnown`: a completion queue with an event or an unread
completion belongs to a linked ring that is not being closed. A completion can only be new where
a ring is enabled (`CompletesKnown`): a transmit ring by its doorbell (`Sendable`),
a receive ring because its register names only the completion queue of a linked ring
(`RxServed`) and receive rings are never closed. That a ring is only closed when it is quiet
is used in one place, `CloseRingKeeps`, and cannot be done without.

`InitProgram` shows that the program the test starts with is orderly for any number
of rings and disables every register there is, whatever an earlier run left.

### The operation table

`TableIsQueue` says that the active slots are a window from `finishPtr` to
`startPtr` and that a queue's index names its newest slot. It is inductive with
`RequestFits` only: the one dequeue under way in the pipeline was let in because its
slot was free and there was room for its answer. `CommitsStayHome` is about an index that
outlives its operation, and holds by a count: entry `i` of `desc_fetch`'s table is
for a slot that lies no further behind `startPtr` than there are entries after it
(`FetchNear`), so that with fewer entries than slots the window cannot come
round to it. `GrantFresh` says the same of an answer not yet entered, `FirstsApart` that
no operation is committed twice. Distances are modulo the size of the table;
lemmas replace them by cases first.

`KeepsDescriptorRow` adds the pointers (`RowsInv`). The order of the hand-outs is
nowhere in the state: a slot holds where its operation ends, and a commit writes just
that. So all pointers of a queue are compared by their distance from its consumer
pointer (`Offset`), and `Row` says that the slots end at increasing distances, in the order of
their age, up to `NextPtr`; that the descriptors rung for lie between there and
the producer pointer; and that this one is within the ring while the queue is enabled.
That holds because of the pipeline: `Apart` says that no two operations of a
queue are in it together, which is what the hazard check is for, and hence an
operation still carries what its queue holds (`Current`), and what made it
acceptable when it entered is true when it is performed (`Justified`). A
commit moves the origin of all distances of its queue, and each is shown to shrink
by the same amount. With a distorted hazard check the run finds the
refinement violated, and `Apart` is what goes first.

### Probing

`ReadableAssumption` says that what the driver reads is there: any device may be
described by any memory, but a window holds a word at every aligned address. The lists
need not end. `Chain` is said without following pointers, so that `ListsExact`
is no restatement of the loop; `Follows` carries the two halves of the argument:
each block is where the pointer of the one before leads, and every set closed
under the pointers holds all the blocks so far. That a port has a block of its own
rests on `find` counting the blocks of a type (`FindDiffers`) in a list without
repetition.

### The PIFO

`Fits` says that the tree has room for `MaxLoad` words: a way of the last level holds
one, a way above it one more than the ways below it together. Five levels of four ways
have room for 1364, and each queue has one token. The gateware does not justify `Fits`: the
test benches build 2^8 transmit queues (`TX_QUEUE_INDEX_WIDTH` in their Makefiles) but
`fpga_AU50/config.tcl:83` 2^13. The Python driver does: it opens at most 32
(`MQNIC_MAX_TXQ`). The run `pifo_overflow` is what happens otherwise.

`NothingOverrun` does not need it. `Waves` has two parts. A level is in one stage at a time
(`OneStage`). And neighbours are in step (`Behind`): the first stage of a pop is
always below the second stage of the same pop, and an operation in a later stage has left a free
level above it. What arrives at a level then finds it free (`ArrivesAlone`).

The tree is a heap with exact counters only when it is quiet. `TreeOk` says what holds
while waves run, for each way and the node below it (`EdgeOk`): a counter that is
not zero is one more than what the node below counts, one more again if a word is on its
way into that node, and one less if that node has just given up a word it has not yet removed; and
no word is less than the word above it, nor is a word on its way. At the root the same holds
between its counters and `load` (`RootOk`), and the copy the flag is computed from is
old only in the cycle after an operation. The proof of a step (`EdgeStep`) has few cases because
of `Waves`: when the lower node changes, the upper level is free. A push finds room
(`RoomForPush`) because it follows the least counter: that the node above counted it
already leaves the ways below one short of full. `PopRaises`: what replaces a word that
leaves is no less, so the way above may keep its word.

### The DMA RAM

`WritesLand` speaks of whole calls, but each segment is written at a pace of its own, so
`WriteInv` numbers the pieces of each segment as they are queued: there is a count
`upTo[s][v]` of the pieces of segment `s` in the calls up to `v` (`Numbered`) such that what a
segment offers and has queued are the last numbers in order (`InLine`), the tokens that
let a call return are numbers taken (`Answered`), and the pieces that later calls have for
a byte are all still to be taken (`InPlace`). A byte of a call that returned is then not
older than that call, because each byte of a transfer is reached by one of its pieces
(`CoversTouches`) and a piece brings the bytes that belong there (`PieceCarries`).
These two are arithmetic: piece `k` is block `k` of the transfer (`PieceIsBlock`),
which rests on lemmas about quotients (`DivModUnique`, `DivDiv`). Hence `PiecesIn`
gives the pieces of a segment by index and not by running the loop. The assumptions
are `BusAssumption`, transfers inside the RAM, and `PieceAssumption` and `ReadAssumption`,
`None` is neither a piece nor a word nor what a segment answers.

`ReadsSeeWrites` speaks of what a call returned, put together from answers that each
segment gave at its own pace. `ReadInv` numbers the questions of each segment in the same
way (`ReadsNumbered`): what has been answered and not used, in the queue, on the bus and
in the pipeline behind it, are the next numbers in order, and after them what is still
to be asked (`ReadsInLine`). An answer is `Fresh` for the call it belongs to: each of its
bytes is one that the RAM may have held since that call. It is so when the RAM reads
(`AnswerFresh`), because the memory is (`WritesLand`, before and after the edge, as the
RAM may read before or after it writes), and stays so, because a later write only adds to
what a byte may be (`StillCurrent`). That no answer is lost or overtaken is
`NoAnswerOverrun` again. A call that returns takes the next answers of each segment
(`AnswersTaken`), of which piece `k` is the one with number `k \div SegCount`
(`PieceNumber`), and puts their bytes in the order of pieces and lanes. That this is the
order of the addresses is `PlacesInOrder`: as many lanes of pieces come before one as
there are addresses before its own. `Assembled` therefore ranks lanes of pieces
by counting those before them and does not run the loop, which would be recursive.

`NoAnswerOverrun` is not inductive: the edge that takes a command relies on the
`cmd_ready` of the edge before. `ReadyMeansRoom` says what that promised.

### Only model-checked

Liveness, everywhere: the prover does not handle fairness and `ENABLED`.
That the PIFO implements `Pifo` (its bag counts words in all nodes at once) and
everything about the time stamps: they order the words of the whole tree, and
`TreeOk` speaks of a node and its children.

## Plan

1. `DescFetch` and `TxEngine`: tables, counters, completions out of order.
2. `CplQueueManager`: enqueue table, arm and event at the level of its pipeline.
3. `TxPath`: both halves of the queue manager with reset and the full doorbell ring.
4. Receive queue manager and engine, of which `MqnicRx` has what the driver sees.

Prove: that `PifoTree` implements `Pifo`, from `TreeOk` and a map of the places of words before a cycle to those after it.

## What is not modelled

Data transformation (checksums, hashing, packet framing), the MAC and its
transceivers, PTP arithmetic, statistics, address maps, board support and the
PCIe, AXI and Ethernet libraries: none has control state that the queues depend
on, or it is third-party code used as it is. AXI-Lite reads change nothing. Reset
of the running gateware. The register blocks of the Python driver that are single
reads and writes (clock information, I2C, PTP, port control). The kernel driver's
NAPI budget and interrupt affinity; its rings have the structure modelled in
`MqnicTx`. Reset of the DMA RAM while it is being read, which loses answers and from
which nothing recovers. The old queue manager and the old PIFO are not
instantiated.

## Running

    tlc -workers 2 -config MCDoorbellRing.cfg MCDoorbellRing
    tlapm MqnicTx_proofs.tla
