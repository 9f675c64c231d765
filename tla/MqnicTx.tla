------------------------------ MODULE MqnicTx -------------------------------
(***************************************************************************)
(* The transmit side of the Python driver of the core test bench           *)
(* (tb/mqnic_core_pcie_us_schedule/mqnic.py): start_xmit coroutines, the   *)
(* transmit rings (Txq), their completion queues (Cq), the event queue     *)
(* (Eq) and the interrupt handler that reads them.                         *)
(*                                                                         *)
(* A coroutine runs without interruption from one await of a register      *)
(* write to the next, and that is one step here.  Register writes are      *)
(* posted: the coroutine goes on while the write is still on its way.      *)
(* Packet contents and descriptor fields are left out.                     *)
(*                                                                         *)
(* The hardware is modelled by what the driver sees of it                  *)
(* (rtl/cpl_queue_manager.v and rtl/cpl_write.v): it writes a record with  *)
(* a phase bit to memory, commits it, and on a commit or on arming raises  *)
(* an event, or for the event queue an interrupt.                          *)
(*                                                                         *)
(* Two versions of the driver differ in the order of the two writes that   *)
(* publish a packet: tb/mqnic_core_pcie_us_schedule/mqnic.py writes the    *)
(* producer pointer first, tb/mqnic_core_pcie_us_change/mqnic.py the       *)
(* doorbell.  A doorbell waits in the ring of doorbells of the queue       *)
(* manager until the scheduler serves it; then one descriptor is fetched   *)
(* if the pointers say that there is one, and none otherwise.              *)
(***************************************************************************)
EXTENDS Integers, Sequences, FiniteSets, SequencesExt

CONSTANTS
    Ring,           \* indices of the transmit rings; ring r uses CQ r
    Sender,         \* coroutines that call start_xmit
    TxSize,         \* Txq.size, a power of two (512)
    CqSize,         \* Cq.size, a power of two (1024)
    EqSize,         \* Eq.size, a power of two (1024)
    BellDepth,      \* DOORBELL_DEPTH of tx_queue_manager_change.v (256)
    PointerFirst,   \* the order of the writes of write_prod_ptr
    PostedDepth,    \* register writes that may be on their way at once
    MaxXmit,        \* bound: calls of start_xmit
    None            \* Python's None

ASSUME SizeAssumption ==
    /\ TxSize \in Nat \ {0, 1} /\ CqSize \in Nat \ {0} /\ EqSize \in Nat \ {0}
    /\ CqSize >= TxSize /\ BellDepth \in Nat \ {0} /\ PointerFirst \in BOOLEAN
ASSUME NoneAssumption == None \notin Nat
ASSUME BoundAssumption == PostedDepth \in Nat \ {0} /\ MaxXmit \in Nat

VARIABLES
    xmit,           \* what each start_xmit coroutine is doing
    calls,          \* calls of start_xmit so far
    txProd,         \* Txq.prod_ptr
    txCons,         \* Txq.cons_ptr
    txInfo,         \* Txq.tx_info
    cleanEvent,     \* Txq.clean_event
    allocated,      \* Driver.allocated_packets: how many; buffers are numbers
    freePackets,    \* Driver.free_packets
    cqCons,         \* Cq.cons_ptr
    eqCons,         \* Eq.cons_ptr
    handler,        \* the interrupt handler coroutine
    irqQueue,       \* Interrupt.queue
    failed,         \* an assert of the driver has failed
    cqBuf,          \* Cq.buf
    eqBuf,          \* Eq.buf
    posted,         \* register writes on their way, oldest first
    nicTx,          \* hardware: producer pointer, doorbells, packets sent
    nicCq,          \* hardware: CQ pointers and arm bit
    events,         \* hardware: event_fifo
    nicEq           \* hardware: EQ pointers and arm bit

ringVars == <<txProd, txCons, txInfo, cleanEvent>>
poolVars == <<allocated, freePackets>>
driverVars == <<xmit, calls, ringVars, poolVars, cqCons, eqCons, handler, failed>>
nicVars == <<nicTx, nicCq, events, nicEq, cqBuf, eqBuf, irqQueue>>
vars == <<driverVars, posted, nicVars>>

-----------------------------------------------------------------------------
FullSize == TxSize \div 2
TxSlot(ptr) == ptr % TxSize
CqSlot(ptr) == ptr % CqSize
EqSlot(ptr) == ptr % EqSize

(* bool(ptr & size): which round of the buffer ptr is in *)
Round(ptr, size) == (ptr \div size) % 2 = 1

(* A record is new if its phase bit differs from the round of the reader:  *)
(* the buffer starts as zeros, and the hardware writes 1 in even rounds.   *)
WrongIsNew(record, ptr, size) == record.phase
IsNew(record, ptr, size) == record.phase # Round(ptr, size)
PhaseOf(ptr, size) == ~Round(ptr, size)

Buffers == 1 .. allocated
Held == {b \in Buffers : \E r \in Ring, i \in 0 .. TxSize - 1 : txInfo[r][i] = b}

Write(reg, r, val) == [reg |-> reg, ring |-> r, val |-> val]
CanPost == Len(posted) < PostedDepth
Post(w) == CanPost /\ posted' = Append(posted, w)

Init ==
    /\ xmit = [s \in Sender |-> [pc |-> "idle", ring |-> None]]
    /\ calls = 0
    /\ txProd = [r \in Ring |-> 0]
    /\ txCons = [r \in Ring |-> 0]
    /\ txInfo = [r \in Ring |-> [i \in 0 .. TxSize - 1 |-> None]]
    /\ cleanEvent = [r \in Ring |-> FALSE]
    /\ allocated = 0
    /\ freePackets = <<>>
    /\ cqCons = [r \in Ring |-> 0]
    /\ eqCons = 0
    /\ handler = [pc |-> "idle", ring |-> None, ptr |-> 0]
    /\ irqQueue = 0
    /\ failed = FALSE
    /\ cqBuf = [r \in Ring |-> [i \in 0 .. CqSize - 1 |-> [index |-> 0, phase |-> FALSE]]]
    /\ eqBuf = [i \in 0 .. EqSize - 1 |-> [source |-> None, phase |-> FALSE]]
    /\ posted = <<>>
    /\ nicTx = [r \in Ring |-> [prod |-> 0, bells |-> 0, sent |-> 0]]
    /\ nicCq = [r \in Ring |-> [written |-> 0, prod |-> 0, cons |-> 0, armed |-> TRUE]]
    /\ events = <<>>
    /\ nicEq = [written |-> 0, prod |-> 0, cons |-> 0, armed |-> TRUE]

-----------------------------------------------------------------------------
(* Coroutines that send                                                    *)

WrongHasSpace(r) == txProd[r] - txCons[r] <= TxSize
HasSpace(r) == txProd[r] - txCons[r] < FullSize

(* The two writes of write_prod_ptr; prod is prod_ptr when each is made *)
PointerThenBell(r, prod) == <<Write("prod", r, prod), Write("bell", r, 0)>>
BellThenPointer(r, prod) == <<Write("bell", r, 0), Write("prod", r, prod)>>
WrongPublication(r, prod) == BellThenPointer(r, prod)
Publication(r, prod) ==
    IF PointerFirst THEN PointerThenBell(r, prod) ELSE BellThenPointer(r, prod)

(* tx_transmit up to its first await, in write_prod_ptr: take a buffer     *)
(* (alloc_pkt), fill the slot, advance the producer pointer, publish it    *)
AllocPkt ==
    IF freePackets # <<>> THEN Head(freePackets) ELSE allocated + 1

TxTransmit(s, r) ==
    LET slot == TxSlot(txProd[r]) IN
    /\ failed' = (failed \/ txInfo[r][slot] # None)
    /\ IF freePackets # <<>>
       THEN freePackets' = Tail(freePackets) /\ UNCHANGED allocated
       ELSE allocated' = allocated + 1 /\ UNCHANGED freePackets
    /\ txInfo' = [txInfo EXCEPT ![r][slot] = AllocPkt]
    /\ txProd' = [txProd EXCEPT ![r] = @ + 1]
    /\ Post(Publication(r, txProd[r] + 1)[1])
    /\ xmit' = [xmit EXCEPT ![s] = [pc |-> "publish", ring |-> r]]
    /\ UNCHANGED <<txCons, cleanEvent>>

WaitForSpace(s, r) ==
    /\ cleanEvent' = [cleanEvent EXCEPT ![r] = FALSE]
    /\ xmit' = [xmit EXCEPT ![s] = [pc |-> "wait", ring |-> r]]
    /\ UNCHANGED <<txProd, txCons, txInfo, poolVars, failed, posted>>

(* The loop of start_xmit from its test to its next await *)
TryXmit(s, r) == IF HasSpace(r) THEN TxTransmit(s, r) ELSE WaitForSpace(s, r)

StartXmit(s, r) ==
    /\ xmit[s].pc = "idle"
    /\ calls < MaxXmit
    /\ calls' = calls + 1
    /\ TryXmit(s, r)
    /\ UNCHANGED <<cqCons, eqCons, handler, nicVars>>

ResumeXmit(s) ==
    /\ xmit[s].pc = "woken"
    /\ TryXmit(s, xmit[s].ring)
    /\ UNCHANGED <<calls, cqCons, eqCons, handler, nicVars>>

(* By the second write other senders may have moved prod_ptr on *)
FinishPublish(s) ==
    /\ xmit[s].pc = "publish"
    /\ Post(Publication(xmit[s].ring, txProd[xmit[s].ring])[2])
    /\ xmit' = [xmit EXCEPT ![s] = [pc |-> "idle", ring |-> None]]
    /\ UNCHANGED <<calls, ringVars, poolVars, cqCons, eqCons, handler, failed, nicVars>>

-----------------------------------------------------------------------------
(* The interrupt handler                                                   *)

(* Interrupt._run takes the next interrupt, interrupt_handler starts       *)
(* process_eq with its own copy of the consumer pointer                    *)
TakeInterrupt ==
    /\ handler.pc = "idle"
    /\ irqQueue > 0
    /\ irqQueue' = irqQueue - 1
    /\ handler' = [handler EXCEPT !.pc = "scan", !.ptr = eqCons]
    /\ UNCHANGED <<xmit, calls, ringVars, poolVars, cqCons, eqCons, failed, posted>>
    /\ UNCHANGED <<nicTx, nicCq, events, nicEq, cqBuf, eqBuf>>

EventHere == eqBuf[EqSlot(handler.ptr)]
EventIsNew == IsNew(EventHere, handler.ptr, EqSize)

(* New records of CQ r, as many as the loop of process_tx_cq reads *)
NewRecords(r) ==
    LET ready(n) == \A j \in 0 .. n - 1 :
            IsNew(cqBuf[r][CqSlot(cqCons[r] + j)], cqCons[r] + j, CqSize)
    IN  CHOOSE n \in 0 .. CqSize : ready(n) /\ (n = CqSize \/ ~ready(n + 1))

CompletedSlots(r) ==
    [j \in 1 .. NewRecords(r) |-> TxSlot(cqBuf[r][CqSlot(cqCons[r] + j - 1)].index)]

(* process_tx_cq up to its await: free_desc of every completed slot, in    *)
(* order, then the new consumer pointer.  free_pkt asserts a buffer.       *)
WrongCleared(slots) == {}
Cleared(slots) == ToSet(slots)

ProcessTxCq(r) ==
    LET slots == CompletedSlots(r)
        freed == [j \in DOMAIN slots |-> txInfo[r][slots[j]]]
    IN  /\ failed' = (failed \/ None \in ToSet(freed) \/ ~IsInjective(slots))
        /\ freePackets' = freePackets \o freed
        /\ txInfo' = [txInfo EXCEPT ![r] =
                [i \in DOMAIN @ |-> IF i \in Cleared(slots) THEN None ELSE @[i]]]
        /\ cqCons' = [cqCons EXCEPT ![r] = @ + Len(slots)]
        /\ Post(Write("cqCons", r, cqCons[r] + Len(slots)))

ScanEvent ==
    /\ handler.pc = "scan"
    /\ EventIsNew
    /\ ProcessTxCq(EventHere.source)
    /\ handler' = [handler EXCEPT !.pc = "advance", !.ring = EventHere.source]
    /\ UNCHANGED <<xmit, calls, txProd, txCons, cleanEvent, allocated, eqCons, nicVars>>

(* The rest of process_tx_cq and the await of cq.arm(): the ring's         *)
(* consumer pointer skips what has been freed, and everyone who waits for  *)
(* space is woken.                                                         *)
WrongAdvanced(r) == txCons[r]
Advanced(r) ==
    CHOOSE c \in txCons[r] .. txProd[r] :
        /\ \A p \in txCons[r] .. c - 1 : txInfo[r][TxSlot(p)] = None
        /\ c = txProd[r] \/ txInfo[r][TxSlot(c)] # None

WrongWoken(r) ==
    LET waiting == {s \in Sender : xmit[s].pc = "wait" /\ xmit[s].ring = r}
    IN  IF waiting = {} THEN {} ELSE {CHOOSE s \in waiting : TRUE}
Woken(r) == {s \in Sender : xmit[s].pc = "wait" /\ xmit[s].ring = r}

AdvanceRing ==
    LET r == handler.ring IN
    /\ handler.pc = "advance"
    /\ txCons' = [txCons EXCEPT ![r] = Advanced(r)]
    /\ cleanEvent' = [cleanEvent EXCEPT ![r] = TRUE]
    /\ xmit' = [s \in Sender |->
            IF s \in Woken(r) THEN [xmit[s] EXCEPT !.pc = "woken"] ELSE xmit[s]]
    /\ Post(Write("cqArm", r, 0))
    /\ handler' = [pc |-> "scan", ring |-> None, ptr |-> handler.ptr + 1]
    /\ UNCHANGED <<calls, txProd, txInfo, poolVars, cqCons, eqCons, failed, nicVars>>

(* The end of process_eq: no new event, the consumer pointer is written *)
FinishEq ==
    /\ handler.pc = "scan"
    /\ ~EventIsNew
    /\ eqCons' = handler.ptr
    /\ Post(Write("eqCons", None, handler.ptr))
    /\ handler' = [handler EXCEPT !.pc = "arm"]
    /\ UNCHANGED <<xmit, calls, ringVars, poolVars, cqCons, failed, nicVars>>

(* eq.arm() in interrupt_handler *)
ArmEq ==
    /\ handler.pc = "arm"
    /\ Post(Write("eqArm", None, 0))
    /\ handler' = [handler EXCEPT !.pc = "idle"]
    /\ UNCHANGED <<xmit, calls, ringVars, poolVars, cqCons, eqCons, failed, nicVars>>

-----------------------------------------------------------------------------
(* The hardware                                                            *)

(* A register write arrives.  Arming raises at once if the queue is not    *)
(* empty, and only otherwise leaves the queue armed.                       *)
WrongArmRaises(q) == FALSE
ArmRaises(q) == q.prod # q.cons

DeliverTx(w) ==
    /\ w.reg \in {"prod", "bell"}
    /\ nicTx' = IF w.reg = "prod" THEN [nicTx EXCEPT ![w.ring].prod = w.val]
                ELSE IF nicTx[w.ring].bells < BellDepth
                THEN [nicTx EXCEPT ![w.ring].bells = @ + 1]
                ELSE nicTx
    /\ UNCHANGED <<nicCq, nicEq, events, irqQueue>>

DeliverCq(w) ==
    /\ \/ /\ w.reg = "cqCons"
          /\ nicCq' = [nicCq EXCEPT ![w.ring].cons = w.val]
          /\ UNCHANGED events
       \/ /\ w.reg = "cqArm"
          /\ nicCq' = [nicCq EXCEPT ![w.ring].armed = ~ArmRaises(nicCq[w.ring])]
          /\ events' = IF ArmRaises(nicCq[w.ring]) THEN Append(events, w.ring) ELSE events
    /\ UNCHANGED <<nicTx, nicEq, irqQueue>>

DeliverEq(w) ==
    /\ \/ /\ w.reg = "eqCons"
          /\ nicEq' = [nicEq EXCEPT !.cons = w.val]
          /\ UNCHANGED irqQueue
       \/ /\ w.reg = "eqArm"
          /\ nicEq' = [nicEq EXCEPT !.armed = ~ArmRaises(nicEq)]
          /\ irqQueue' = IF ArmRaises(nicEq) THEN irqQueue + 1 ELSE irqQueue
    /\ UNCHANGED <<nicTx, nicCq, events>>

(* Timing assumption: a commit inside the hardware is done before the      *)
(* driver's answer to the record has come back as a register write.        *)
CommitsFirst(w) ==
    /\ w.reg = "cqCons" => w.val <= nicCq[w.ring].prod
    /\ w.reg = "eqCons" => w.val <= nicEq.prod

DeliverWrite ==
    /\ posted # <<>>
    /\ CommitsFirst(Head(posted))
    /\ posted' = Tail(posted)
    /\ DeliverTx(Head(posted)) \/ DeliverCq(Head(posted)) \/ DeliverEq(Head(posted))
    /\ UNCHANGED <<driverVars, cqBuf, eqBuf>>

QueueFull(q, size) == q.written - q.cons >= size

(* A doorbell is served.  The packet leaves, if the pointers show one, and *)
(* its completion is written to memory; with the completion queue full it  *)
(* is lost.                                                                *)
Published(r) == nicTx[r].sent < nicTx[r].prod

ServeBell(r) ==
    LET q == nicCq[r] IN
    /\ nicTx[r].bells > 0
    /\ nicTx' = [nicTx EXCEPT ![r].bells = @ - 1,
                    ![r].sent = IF Published(r) THEN @ + 1 ELSE @]
    /\ IF ~Published(r) \/ QueueFull(q, CqSize)
       THEN UNCHANGED <<cqBuf, nicCq>>
       ELSE /\ cqBuf' = [cqBuf EXCEPT ![r][CqSlot(q.written)] =
                    [index |-> nicTx[r].sent, phase |-> PhaseOf(q.written, CqSize)]]
            /\ nicCq' = [nicCq EXCEPT ![r].written = @ + 1]
    /\ UNCHANGED <<driverVars, posted, events, nicEq, eqBuf, irqQueue>>

(* The completion is committed, which raises an event if the CQ is armed *)
CommitCompletion(r) ==
    /\ nicCq[r].prod < nicCq[r].written
    /\ nicCq' = [nicCq EXCEPT ![r].prod = @ + 1, ![r].armed = FALSE]
    /\ events' = IF nicCq[r].armed THEN Append(events, r) ELSE events
    /\ UNCHANGED <<driverVars, posted, nicTx, nicEq, cqBuf, eqBuf, irqQueue>>

(* An event is written to memory; with the event queue full it is lost *)
WriteEvent ==
    /\ events # <<>>
    /\ events' = Tail(events)
    /\ IF QueueFull(nicEq, EqSize)
       THEN UNCHANGED <<eqBuf, nicEq>>
       ELSE /\ eqBuf' = [eqBuf EXCEPT ![EqSlot(nicEq.written)] =
                    [source |-> Head(events), phase |-> PhaseOf(nicEq.written, EqSize)]]
            /\ nicEq' = [nicEq EXCEPT !.written = @ + 1]
    /\ UNCHANGED <<driverVars, posted, nicTx, nicCq, cqBuf, irqQueue>>

(* The event is committed, which raises an interrupt if the EQ is armed *)
CommitEvent ==
    /\ nicEq.prod < nicEq.written
    /\ nicEq' = [nicEq EXCEPT !.prod = @ + 1, !.armed = FALSE]
    /\ irqQueue' = IF nicEq.armed THEN irqQueue + 1 ELSE irqQueue
    /\ UNCHANGED <<driverVars, posted, nicTx, nicCq, events, cqBuf, eqBuf>>

-----------------------------------------------------------------------------
Handler == TakeInterrupt \/ ScanEvent \/ AdvanceRing \/ FinishEq \/ ArmEq
Nic ==
    \/ DeliverWrite \/ WriteEvent \/ CommitEvent
    \/ \E r \in Ring : ServeBell(r) \/ CommitCompletion(r)

Next ==
    \/ \E s \in Sender, r \in Ring : StartXmit(s, r)
    \/ \E s \in Sender : ResumeXmit(s) \/ FinishPublish(s)
    \/ Handler
    \/ Nic

Spec == Init /\ [][Next]_vars

(* The event loop runs every coroutine that is ready, and the simulated    *)
(* hardware never stops its clock.  Nobody is forced to call start_xmit.   *)
Fairness ==
    /\ \A s \in Sender : WF_vars(ResumeXmit(s)) /\ WF_vars(FinishPublish(s))
    /\ WF_vars(Handler)
    /\ WF_vars(DeliverWrite) /\ WF_vars(WriteEvent) /\ WF_vars(CommitEvent)
    /\ \A r \in Ring : WF_vars(ServeBell(r)) /\ WF_vars(CommitCompletion(r))

FairSpec == Spec /\ Fairness

-----------------------------------------------------------------------------
(* Properties                                                              *)

TypeOK ==
    /\ xmit \in [Sender -> [pc : {"idle", "publish", "wait", "woken"}, ring : Ring \union {None}]]
    /\ calls \in 0 .. MaxXmit
    /\ txProd \in [Ring -> Nat] /\ txCons \in [Ring -> Nat]
    /\ txInfo \in [Ring -> [0 .. TxSize - 1 -> Buffers \union {None}]]
    /\ cleanEvent \in [Ring -> BOOLEAN]
    /\ freePackets \in Seq(Buffers)
    /\ cqCons \in [Ring -> Nat] /\ eqCons \in Nat
    /\ handler \in [pc : {"idle", "scan", "advance", "arm"}, ring : Ring \union {None}, ptr : Nat]
    /\ irqQueue \in Nat /\ failed \in BOOLEAN
    /\ cqBuf \in [Ring -> [0 .. CqSize - 1 -> [index : Nat, phase : BOOLEAN]]]
    /\ eqBuf \in [0 .. EqSize - 1 -> [source : Ring \union {None}, phase : BOOLEAN]]
    /\ Len(posted) <= PostedDepth
    /\ events \in Seq(Ring)
    /\ nicTx \in [Ring -> [prod : Nat, bells : Nat, sent : Nat]]
    /\ nicCq \in [Ring -> [written : Nat, prod : Nat, cons : Nat, armed : BOOLEAN]]
    /\ nicEq \in [written : Nat, prod : Nat, cons : Nat, armed : BOOLEAN]

(* The asserts at mqnic.py:804 (the slot a packet goes into is free) and   *)
(* mqnic.py:1819 (what a completion gives back is a buffer) never fail,    *)
(* however senders, handler and hardware interleave.                       *)
AssertsHold == ~failed

(* Every buffer the driver ever allocated is either on the free list, once,*)
(* or in one slot of one ring: no buffer leaks, is freed twice, or carries *)
(* two packets (alloc_pkt, free_desc, mqnic.py:1810-1821).                 *)
BuffersConserved ==
    /\ IsInjective(freePackets)
    /\ ToSet(freePackets) \intersect Held = {}
    /\ ToSet(freePackets) \union Held = Buffers
    /\ Cardinality(Held) = Cardinality({c \in Ring \X (0 .. TxSize - 1) : txInfo[c[1]][c[2]] # None})

(* A descriptor the hardware may still read keeps its buffer: whatever is  *)
(* between the last packet sent and the producer pointer has a buffer in   *)
(* its slot, and the pointers never span more than the ring.               *)
InFlightIntact ==
    \A r \in Ring :
        /\ txProd[r] - txCons[r] <= FullSize
        /\ \A p \in nicTx[r].sent .. txProd[r] - 1 : txInfo[r][TxSlot(p)] # None

(* Every doorbell that is served finds its descriptor: the comment in      *)
(* write_prod_ptr of the schedule version (mqnic.py:839-841).  And the     *)
(* space test of start_xmit also keeps the ring of doorbells from          *)
(* overflowing, with the doorbells on their way counted (256 doorbells,    *)
(* 512 slots of which half are used), though the driver never looks at it. *)
BellsPosted(r) == {i \in DOMAIN posted : posted[i].reg = "bell" /\ posted[i].ring = r}

DoorbellsMatch ==
    \A r \in Ring :
        /\ nicTx[r].bells <= nicTx[r].prod - nicTx[r].sent
        /\ nicTx[r].bells + Cardinality(BellsPosted(r)) <= BellDepth

(* No completion is lost or overwritten before the driver has read it: the *)
(* driver tells the hardware its consumer pointer late, but early enough.  *)
CompletionsKept ==
    \A r \in Ring :
        /\ nicCq[r].written = nicTx[r].sent
        /\ nicCq[r].written - cqCons[r] <= CqSize

(* Nobody sleeps in start_xmit while the ring has space: the test and the  *)
(* clear of clean_event are one step, and process_tx_cq sets the event     *)
(* only after it has moved the consumer pointer.                           *)
NobodySleepsWithSpace ==
    \A s \in Sender : xmit[s].pc = "wait" => ~HasSpace(xmit[s].ring)

(* A committed completion the driver has not read is announced: its event  *)
(* is on its way, the handler is working on that queue, or the write that  *)
(* arms the queue, and will raise the event, has not arrived.  The same    *)
(* one level up: an event in memory that the handler has not read is about *)
(* to raise an interrupt, or the handler will still see it.                *)
EventOnItsWay(r) ==
    \/ r \in ToSet(events)
    \/ \E p \in (IF handler.pc = "scan" THEN handler.ptr
                 ELSE IF handler.pc = "advance" THEN handler.ptr + 1
                 ELSE eqCons) .. nicEq.written - 1 :
            eqBuf[EqSlot(p)].source = r
    \/ handler.pc = "advance" /\ handler.ring = r
    \/ Write("cqArm", r, 0) \in ToSet(posted)

InterruptOnItsWay ==
    irqQueue > 0 \/ handler.pc # "idle" \/ Write("eqArm", None, 0) \in ToSet(posted)

CompletionsAnnounced ==
    /\ \A r \in Ring : nicCq[r].prod > cqCons[r] => EventOnItsWay(r)
    /\ nicEq.prod > eqCons => InterruptOnItsWay

(* Every call of start_xmit returns: a sender that waits for space gets it *)
SendersReturn == \A s \in Sender : xmit[s].pc = "wait" ~> xmit[s].pc = "idle"

(* Every packet handed to a ring leaves and its buffer comes back: in the  *)
(* end nothing is held although nobody polls, events alone drive it.       *)
BuffersReturn == (Held # {}) ~> (Held = {})

(* The ring is what PacketRing promises: queued are the packets between    *)
(* the hardware's position and the producer pointer, sent those whose      *)
(* completion the driver has not read.                                     *)
Slots(r, from, to) == [j \in 1 .. to - from |-> txInfo[r][TxSlot(from + j - 1)]]

Abstract == INSTANCE PacketRing WITH
    Capacity <- FullSize,
    Buffer <- 1 .. MaxXmit,
    queued <- [r \in Ring |-> Slots(r, nicTx[r].sent, txProd[r])],
    sent <- [r \in Ring |-> Slots(r, cqCons[r], nicTx[r].sent)]

ImplementsPacketRing == Abstract!Spec
=============================================================================
