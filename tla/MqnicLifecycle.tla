-------------------------- MODULE MqnicLifecycle ----------------------------
(***************************************************************************)
(* How the Python driver of the core test bench                            *)
(* (tb/mqnic_core_pcie_us_schedule/mqnic.py) starts an interface, opens,   *)
(* closes and reopens its queues, and shuts it down, while packets come    *)
(* and go and the interrupt handler runs.                                  *)
(*                                                                         *)
(* One coroutine (the test) calls the driver.  What it has still to do is  *)
(* a program: a sequence of steps, each of which ends in the await of one  *)
(* register write, so that interrupts, the hardware and the writes on      *)
(* their way interleave with it.  There is one event queue                 *)
(* (MQNIC_MAX_EQ).  The addresses, size and target of a queue are one      *)
(* register here, "config", which the hardware ignores while the queue is  *)
(* enabled (rtl/cpl_queue_manager.v, rtl/tx_queue_manager_change.v).       *)
(***************************************************************************)
EXTENDS Naturals, Sequences, FiniteSets, SequencesExt

CONSTANTS
    NRx, NTx,       \* queues of the hardware, and completion queues for all
    PostedDepth,    \* register writes on their way at once
    MaxPackets,     \* bound: packets sent and received
    MaxCloses,      \* bound: transmit rings closed by hand
    None            \* Python's None

ASSUME LifecycleAssumption ==
    /\ NRx \in Nat /\ NTx \in Nat \ {0} /\ PostedDepth \in Nat \ {0}
    /\ MaxPackets \in Nat /\ MaxCloses \in Nat
ASSUME NoneAssumption == None \notin Nat

Ring == 1 .. NRx + NTx              \* the Rxq and Txq objects, in order of opening
Kind(k) == IF k <= NRx THEN "rx" ELSE "tx"
TxRing == {k \in Ring : Kind(k) = "tx"}
HwRing == {<<"rx", i>> : i \in 0 .. NRx - 1} \union {<<"tx", i>> : i \in 0 .. NTx - 1}
HwCq == 0 .. NRx + NTx - 1
Count(q) == IF q = "rx" THEN NRx ELSE NTx
CqReg(c) == <<"cq", c>>
EqReg == <<"eq", 0>>

VARIABLES
    program,        \* what the test's coroutine has still to do
    portUp,         \* Interface.port_up
    freeIndex,      \* free_list of rxq_res and txq_res
    freeCq,         \* free_list of cq_res
    index,          \* Txq.index and Rxq.index
    cqn,            \* Cq.cqn of the ring's completion queue
    eqOpen,         \* Eq.hw_regs is set
    cqTable,        \* Eq.cq_table: the ring of each completion queue
    linked,         \* rings whose Cq has src_ring and handler
    emptied,        \* rings free_buf has been called for
    closes,         \* rings closed by hand so far
    crashed,        \* an exception in the interrupt handler
    handler,        \* the interrupt handler
    posted,         \* register writes on their way, oldest first
    hwRing,         \* hardware: transmit and receive queues
    hwCq,           \* hardware: completion queues
    hwEq,           \* hardware: the event queue
    events,         \* event records not yet read
    irqs,           \* Interrupt.queue
    packets         \* packets so far

objectVars == <<freeIndex, freeCq, index, cqn, cqTable, linked>>
testVars == <<program, portUp, objectVars, eqOpen, emptied, closes>>
hwVars == <<hwRing, hwCq, hwEq, events, irqs, packets>>
vars == <<testVars, crashed, handler, posted, hwVars>>

-----------------------------------------------------------------------------
(* Programs                                                                *)

Step(op, k) == [op |-> op, ring |-> k, reg |-> None]
WriteStep(reg, k) == [op |-> "write", ring |-> k, reg |-> reg]

(* Cq.open and Cq.arm, then Txq.open or Rxq.open and enable *)
WrongOpenRing(k) ==
    <<Step("openCq", k), WriteStep("cqConfig", k), WriteStep("cqEnable", k),
      WriteStep("cqArm", k),
      Step("openRing", k), WriteStep("enable", k), WriteStep("config", k)>>
OpenRing(k) ==
    <<Step("openCq", k), WriteStep("cqConfig", k), WriteStep("cqEnable", k),
      WriteStep("cqArm", k),
      Step("openRing", k), WriteStep("config", k), WriteStep("enable", k)>>

(* Txq.close, then Cq.close *)
CloseRing(k) == <<WriteStep("disable", k), Step("unlinkRing", k), Step("closeCq", k)>>

(* Interface.init: disable every queue there is, then open and arm the EQ, *)
(* and wait for these writes                                               *)
Disable(reg) == [op |-> "disable", ring |-> None, reg |-> reg]
DisableAll ==
    <<Disable(EqReg)>>
    \o [i \in 1 .. NRx + NTx |-> Disable(CqReg(i - 1))]
    \o [i \in 1 .. NTx |-> Disable(<<"tx", i - 1>>)]
    \o [i \in 1 .. NRx |-> Disable(<<"rx", i - 1>>)]

InitInterface ==
    DisableAll \o <<Step("openEq", None), WriteStep("eqConfig", None),
                    WriteStep("eqEnable", None), WriteStep("eqArm", None),
                    Step("drain", None)>>

(* Interface.open: the seven steps of each ring in turn *)
OpenInterface ==
    [i \in 1 .. 7 * (NRx + NTx) |-> OpenRing((i - 1) \div 7 + 1)[((i - 1) % 7) + 1]]
    \o <<Step("drain", None), Step("up", None)>>

(* Interface.close as it runs: the coroutines q.disable() returns are never*)
(* awaited and so never started, and the await of free_buf(), which is no  *)
(* coroutine, raises TypeError once the first ring has been emptied.       *)
CloseInterface == <<Step("down", None), Step("drain", None), Step("freeBuf", NRx + 1)>>

-----------------------------------------------------------------------------
(* The hardware may come from an earlier run with any queue still enabled  *)
Off == [on |-> FALSE, cfg |-> None, cq |-> None]
Stale == {Off, [Off EXCEPT !.on = TRUE]}

Init ==
    /\ program = InitInterface \o OpenInterface
    /\ portUp = FALSE
    /\ freeIndex = [q \in {"rx", "tx"} |-> [i \in 1 .. Count(q) |-> i - 1]]
    /\ freeCq = [i \in 1 .. NRx + NTx |-> i - 1]
    /\ index = [k \in Ring |-> None]
    /\ cqn = [k \in Ring |-> None]
    /\ eqOpen = FALSE
    /\ cqTable = [c \in HwCq |-> None]
    /\ linked = {}
    /\ emptied = {}
    /\ closes = 0
    /\ crashed = FALSE
    /\ handler = [pc |-> "idle", cq |-> None]
    /\ posted = <<>>
    /\ \E on \in Stale :
        /\ hwRing = [h \in HwRing |-> on]
        /\ hwCq = [c \in HwCq |->
                [on |-> on.on, cfg |-> None, armed |-> FALSE, unread |-> 0]]
        /\ hwEq = [on |-> on.on, cfg |-> None, armed |-> FALSE]
    /\ events = <<>>
    /\ irqs = 0
    /\ packets = 0

-----------------------------------------------------------------------------
(* The test's coroutine                                                    *)

CanPost == Len(posted) < PostedDepth
Post(reg, do, cfg, cq) ==
    /\ CanPost
    /\ posted' = Append(posted, [reg |-> reg, do |-> do, cfg |-> cfg, cq |-> cq])

RingReg(k) == <<Kind(k), index[k]>>

(* A program step that is at the head of the program, and its rest; while  *)
(* a register is being read the coroutine waits                            *)
Reading == \E j \in DOMAIN posted : posted[j].do = "read"
Doing(op) == program # <<>> /\ Head(program).op = op /\ ~Reading
ThisRing == Head(program).ring
Proceed == program' = Tail(program)

(* A register write with no other effect *)
PostWrite ==
    /\ Doing("write")
    /\ Proceed
    /\ LET k == ThisRing
           reg == Head(program).reg IN
       \/ reg = "cqConfig" /\ Post(CqReg(cqn[k]), "config", k, None)
       \/ reg = "cqEnable" /\ Post(CqReg(cqn[k]), "enable", None, None)
       \/ reg = "cqArm" /\ Post(CqReg(cqn[k]), "arm", None, None)
       \/ reg = "config" /\ Post(RingReg(k), "config", k, cqn[k])
       \/ reg \in {"enable", "disable"} /\ Post(RingReg(k), reg, None, None)
       \/ reg = "eqConfig" /\ Post(EqReg, "config", 0, None)
       \/ reg = "eqEnable" /\ Post(EqReg, "enable", None, None)
       \/ reg = "eqArm" /\ Post(EqReg, "arm", None, None)
    /\ UNCHANGED <<portUp, objectVars, eqOpen, emptied, closes, crashed, handler, hwVars>>

DisableQueue ==
    /\ Doing("disable")
    /\ Proceed
    /\ Post(Head(program).reg, "disable", None, None)
    /\ UNCHANGED <<portUp, objectVars, eqOpen, emptied, closes, crashed, handler, hwVars>>

(* Each open ends its part without awaits with the write that disables *)
OpenEq ==
    /\ Doing("openEq")
    /\ Proceed
    /\ eqOpen' = TRUE
    /\ Post(EqReg, "disable", None, None)
    /\ UNCHANGED <<portUp, objectVars, emptied, closes, crashed, handler, hwVars>>

(* Resource.alloc *)
Allocated(list) == Head(list)

OpenCq ==
    LET k == ThisRing
        c == Allocated(freeCq) IN
    /\ Doing("openCq")
    /\ Proceed
    /\ freeCq' = Tail(freeCq)
    /\ cqn' = [cqn EXCEPT ![k] = c]
    /\ cqTable' = [cqTable EXCEPT ![c] = k]
    /\ Post(CqReg(c), "disable", None, None)
    /\ UNCHANGED <<portUp, freeIndex, index, linked, eqOpen, emptied, closes>>
    /\ UNCHANGED <<crashed, handler, hwVars>>

(* The ring becomes src_ring of its completion queue, and sets its handler *)
WrongLinked(k) == linked
Linked(k) == linked \union {k}

OpenTxqOrRxq ==
    LET k == ThisRing
        i == Allocated(freeIndex[Kind(k)]) IN
    /\ Doing("openRing")
    /\ Proceed
    /\ freeIndex' = [freeIndex EXCEPT ![Kind(k)] = Tail(@)]
    /\ index' = [index EXCEPT ![k] = i]
    /\ linked' = Linked(k)
    /\ Post(<<Kind(k), i>>, "disable", None, None)
    /\ UNCHANGED <<portUp, freeCq, cqn, cqTable, eqOpen, emptied, closes>>
    /\ UNCHANGED <<crashed, handler, hwVars>>

(* Reading a register takes until the writes before it have arrived *)
Drain ==
    /\ Doing("drain")
    /\ Proceed
    /\ Post(EqReg, "read", None, None)
    /\ UNCHANGED <<portUp, objectVars, eqOpen, emptied, closes, crashed, handler, hwVars>>

PortUp ==
    /\ Doing("up")
    /\ Proceed
    /\ portUp' = TRUE
    /\ UNCHANGED <<objectVars, eqOpen, emptied, closes, crashed, handler, posted, hwVars>>

(* Resource.free: what appending to the sorted list and sorting it makes *)
WrongFreed(list, i) == Append(list, i)
Freed(list, i) ==
    [j \in 1 .. Len(list) + 1 |->
        IF j <= Len(list) /\ list[j] < i THEN list[j]
        ELSE IF j = 1 \/ list[j - 1] < i THEN i
        ELSE list[j - 1]]

(* Txq.close after its write, and Cq.close up to its own *)
UnlinkRing ==
    LET k == ThisRing IN
    /\ Doing("unlinkRing")
    /\ Proceed
    /\ linked' = linked \ {k}
    /\ freeIndex' = [freeIndex EXCEPT ![Kind(k)] = Freed(@, index[k])]
    /\ index' = [index EXCEPT ![k] = None]
    /\ Post(CqReg(cqn[k]), "disable", None, None)
    /\ UNCHANGED <<portUp, freeCq, cqn, cqTable, eqOpen, emptied, closes>>
    /\ UNCHANGED <<crashed, handler, hwVars>>

CloseCq ==
    LET k == ThisRing IN
    /\ Doing("closeCq")
    /\ Proceed
    /\ cqTable' = [cqTable EXCEPT ![cqn[k]] = None]
    /\ freeCq' = Freed(freeCq, cqn[k])
    /\ cqn' = [cqn EXCEPT ![k] = None]
    /\ UNCHANGED <<portUp, freeIndex, index, linked, eqOpen, emptied, closes>>
    /\ UNCHANGED <<crashed, handler, posted, hwVars>>

(* Interface.close: its first part, and its end *)
PortDown ==
    /\ Doing("down")
    /\ Proceed
    /\ portUp' = FALSE
    /\ UNCHANGED <<objectVars, eqOpen, emptied, closes, crashed, handler, posted, hwVars>>

FreeBuf ==
    /\ Doing("freeBuf")
    /\ Proceed
    /\ emptied' = emptied \union {ThisRing}
    /\ UNCHANGED <<portUp, objectVars, eqOpen, closes, crashed, handler, posted, hwVars>>

(* The test closes or opens a transmit ring by hand.  It closes only a     *)
(* ring whose packets have all come back.                                  *)
Quiet(k) ==
    /\ hwCq[cqn[k]].unread = 0
    /\ cqn[k] \notin ToSet(events)
    /\ ~(handler.pc # "idle" /\ handler.cq = cqn[k])

CallCloseRing(k) ==
    /\ program = <<>> /\ portUp
    /\ k \in linked /\ Quiet(k)
    /\ closes < MaxCloses
    /\ closes' = closes + 1
    /\ program' = CloseRing(k)
    /\ UNCHANGED <<portUp, objectVars, eqOpen, emptied, crashed, handler, posted, hwVars>>

CallOpenRing(k) ==
    /\ program = <<>> /\ portUp
    /\ index[k] = None
    /\ program' = OpenRing(k)
    /\ UNCHANGED <<portUp, objectVars, eqOpen, emptied, closes, crashed, handler, posted, hwVars>>

CallClose ==
    /\ program = <<>> /\ portUp
    /\ index[NRx + 1] # None
    /\ program' = CloseInterface
    /\ UNCHANGED <<portUp, objectVars, eqOpen, emptied, closes, crashed, handler, posted, hwVars>>

Test ==
    \/ PostWrite \/ DisableQueue \/ OpenEq \/ OpenCq \/ OpenTxqOrRxq \/ Drain \/ PortUp
    \/ UnlinkRing \/ CloseCq \/ PortDown \/ FreeBuf

-----------------------------------------------------------------------------
(* The interrupt handler: process_eq and arm.  While the port is down      *)
(* process_eq returns at once and the events stay.                         *)

TakeInterrupt ==
    /\ handler.pc = "idle" /\ irqs > 0 /\ ~crashed
    /\ irqs' = irqs - 1
    /\ handler' = [handler EXCEPT !.pc = IF eqOpen /\ portUp THEN "scan" ELSE "arm"]
    /\ UNCHANGED <<testVars, crashed, posted, hwRing, hwCq, hwEq, events, packets>>

(* cq_table has to have the queue, and the queue its handler and ring;     *)
(* process_tx_cq and process_rx_cq return at once while the port is down   *)
ScanEvent ==
    LET c == Head(events)
        k == cqTable[c] IN
    /\ handler.pc = "scan" /\ events # <<>>
    /\ events' = Tail(events)
    /\ IF k # None /\ k \in linked
       THEN /\ hwCq' = IF portUp THEN [hwCq EXCEPT ![c].unread = 0] ELSE hwCq
            /\ handler' = [pc |-> "cqArm", cq |-> c]
            /\ UNCHANGED crashed
       ELSE /\ crashed' = TRUE
            /\ handler' = [pc |-> "idle", cq |-> None]
            /\ UNCHANGED hwCq
    /\ UNCHANGED <<testVars, posted, hwRing, hwEq, irqs, packets>>

(* Cq.arm writes nothing when the queue has been closed meanwhile *)
RearmCq ==
    /\ handler.pc = "cqArm"
    /\ IF cqTable[handler.cq] # None THEN Post(CqReg(handler.cq), "arm", None, None)
                                     ELSE UNCHANGED posted
    /\ handler' = [pc |-> "scan", cq |-> None]
    /\ UNCHANGED <<testVars, crashed, hwVars>>

EndScan ==
    /\ handler.pc = "scan" /\ events = <<>>
    /\ handler' = [handler EXCEPT !.pc = "arm"]
    /\ UNCHANGED <<testVars, crashed, posted, hwVars>>

RearmEq ==
    /\ handler.pc = "arm"
    /\ Post(EqReg, "arm", None, None)
    /\ handler' = [handler EXCEPT !.pc = "idle"]
    /\ UNCHANGED <<testVars, crashed, hwVars>>

Handler == TakeInterrupt \/ ScanEvent \/ RearmCq \/ EndScan \/ RearmEq

-----------------------------------------------------------------------------
(* The hardware                                                            *)

(* An event for queue c: a record in the event queue, and an interrupt if  *)
(* that queue is armed                                                     *)
RaiseEvent(c) ==
    IF hwEq.on
    THEN /\ events' = Append(events, c)
         /\ irqs' = IF hwEq.armed THEN irqs + 1 ELSE irqs
         /\ hwEq' = [hwEq EXCEPT !.armed = FALSE]
    ELSE UNCHANGED <<events, irqs, hwEq>>

(* Configuration is read-only while the queue is enabled *)
Configured(q, w) == IF q.on THEN q ELSE [q EXCEPT !.cfg = w.cfg]

RingWrite(w) ==
    /\ w.reg \in HwRing
    /\ hwRing' = [hwRing EXCEPT ![w.reg] =
            CASE w.do = "enable" -> [@ EXCEPT !.on = TRUE]
              [] w.do = "disable" -> [@ EXCEPT !.on = FALSE]
              [] w.do = "config" ->
                    [Configured(@, w) EXCEPT !.cq = IF hwRing[w.reg].on THEN @ ELSE w.cq]]
    /\ UNCHANGED <<hwCq, hwEq, events, irqs>>

CqWrite(w) ==
    LET c == w.reg[2]
        q == hwCq[c]
        raises == q.on /\ q.unread > 0 IN
    /\ w.reg[1] = "cq"
    /\ hwCq' = [hwCq EXCEPT ![c] =
            CASE w.do = "enable" -> [q EXCEPT !.on = TRUE]
              [] w.do = "disable" -> [q EXCEPT !.on = FALSE]
              [] w.do = "config" -> [Configured(q, w) EXCEPT !.unread = IF q.on THEN @ ELSE 0]
              [] w.do = "arm" -> [q EXCEPT !.armed = ~raises]]
    /\ IF w.do = "arm" /\ raises THEN RaiseEvent(c) ELSE UNCHANGED <<events, irqs, hwEq>>
    /\ UNCHANGED hwRing

WrongEqRaises == FALSE
EqRaises == hwEq.on /\ events # <<>>

EqWrite(w) ==
    /\ w.reg = EqReg
    /\ hwEq' = CASE w.do = "enable" -> [hwEq EXCEPT !.on = TRUE]
                 [] w.do = "disable" -> [hwEq EXCEPT !.on = FALSE]
                 [] w.do = "config" -> Configured(hwEq, w)
                 [] w.do = "arm" -> [hwEq EXCEPT !.armed = ~EqRaises]
                 [] w.do = "read" -> hwEq
    /\ irqs' = IF w.do = "arm" /\ EqRaises THEN irqs + 1 ELSE irqs
    /\ UNCHANGED <<hwRing, hwCq, events>>

DeliverWrite ==
    /\ posted # <<>>
    /\ posted' = Tail(posted)
    /\ RingWrite(Head(posted)) \/ CqWrite(Head(posted)) \/ EqWrite(Head(posted))
    /\ UNCHANGED <<testVars, crashed, handler, packets>>

(* A packet passes through an enabled ring and its completion is queued.   *)
(* A transmit ring has packets only if the test has sent some, which it    *)
(* may do while the port is up and the ring is not being closed; its       *)
(* doorbell arrives after the writes that have set the ring up.            *)
Sendable(h) ==
    \/ h[1] = "rx"
    \/ /\ portUp /\ program = <<>> /\ \E k \in linked : RingReg(k) = h
       /\ ~\E j \in DOMAIN posted : posted[j].reg = h

Complete(h) ==
    LET q == hwRing[h]
        c == q.cq IN
    /\ q.on /\ c # None /\ Sendable(h)
    /\ packets < MaxPackets
    /\ packets' = packets + 1
    /\ hwCq[c].on
    /\ hwCq' = [hwCq EXCEPT ![c].unread = @ + 1, ![c].armed = FALSE]
    /\ IF hwCq[c].armed THEN RaiseEvent(c) ELSE UNCHANGED <<events, irqs, hwEq>>
    /\ UNCHANGED <<testVars, crashed, handler, posted, hwRing>>

-----------------------------------------------------------------------------
Next ==
    \/ Test
    \/ \E k \in TxRing : CallCloseRing(k) \/ CallOpenRing(k)
    \/ CallClose
    \/ Handler
    \/ DeliverWrite
    \/ \E h \in HwRing : Complete(h)

Spec == Init /\ [][Next]_vars

(* Calls that have begun go on, interrupts are taken, writes arrive.  The  *)
(* test and the handler share the link; it serves both (SF).               *)
Fairness == SF_vars(Test) /\ SF_vars(Handler) /\ WF_vars(DeliverWrite)

FairSpec == Spec /\ Fairness

-----------------------------------------------------------------------------
(* Properties                                                              *)

(* Every index is on the free list of its resource or owned by one object, *)
(* the table of the event queue is the inverse of cqn, and a new object    *)
(* gets the lowest index (Resource and its users, however rings are closed *)
(* and opened).                                                            *)
(* After initialisation the hardware never runs a ring with the memory or  *)
(* the completion queue of another: an enabled ring was configured by the  *)
(* ring object that now owns its index, and its completion queue is        *)
(* enabled, configured for the same ring and in the table, although        *)
(* configuration written to an enabled queue is silently ignored.          *)
Sorted(list) == \A i, j \in DOMAIN list : i < j => list[i] < list[j]

IndicesConserved ==
    /\ Sorted(freeCq) /\ \A q \in {"rx", "tx"} : Sorted(freeIndex[q])
    /\ \A c \in HwCq :
        /\ (c \in ToSet(freeCq)) # (\E k \in Ring : cqn[k] = c)
        /\ \A k \in Ring : cqn[k] = c <=> cqTable[c] = k
    /\ \A h \in HwRing :
        (h[2] \in ToSet(freeIndex[h[1]])) # (\E k \in Ring : RingReg(k) = h)
    /\ \A k, l \in Ring : k # l /\ index[k] # None => RingReg(k) # RingReg(l)

Settled == ~\E j \in DOMAIN program : program[j].op \in {"disable", "openEq"}

EnabledConfigured ==
    Settled /\ posted = <<>> =>
        \A h \in HwRing : hwRing[h].on =>
            \E k \in Ring :
                /\ hwRing[h].cfg = k /\ RingReg(k) = h
                /\ hwRing[h].cq = cqn[k]
                /\ hwCq[cqn[k]].on /\ hwCq[cqn[k]].cfg = k

QueuesOwned == IndicesConserved /\ EnabledConfigured

(* The interrupt handler never meets an event of a queue it does not know  *)
(* or that has no ring: no KeyError in cq_table, no call of None, although *)
(* completion queues are armed before their ring is opened.                *)
NoCrash == ~crashed

(* Completions that arrive before the port is up are not lost: the handler *)
(* that ignores them arms the event queue, which raises again.             *)
CompletionsHandled ==
    \A c \in HwCq : (hwCq[c].unread > 0 /\ hwEq.cfg = 0)
                        ~> (hwCq[c].unread = 0 \/ emptied # {} \/ Doing("down"))
=============================================================================
