------------------------------ MODULE MqnicRx -------------------------------
(***************************************************************************)
(* The receive side of the Python driver of the core test bench            *)
(* (tb/mqnic_core_pcie_us_change/mqnic.py): a receive ring (Rxq), its    *)
(* completion handler process_rx_cq, and the coroutines that take packets  *)
(* with recv, wait and recv_nowait.  As in MqnicTx a step runs from one    *)
(* await to the next, and register writes are posted.                      *)
(*                                                                         *)
(* How completions reach the handler (phase bits, events, interrupts) is   *)
(* the subject of MqnicTx; here the handler runs when there is something   *)
(* to read.  What matters is the way of a buffer: pool, descriptor, packet *)
(* data, copy, pool.  Packets are numbers in order of arrival; the         *)
(* hardware writes a packet into whatever buffer the descriptor in memory  *)
(* names at the moment it is fetched, and one whose completion record finds*)
(* the completion queue full is lost: its record is never written.         *)
(***************************************************************************)
EXTENDS Naturals, Sequences, FiniteSets, SequencesExt

CONSTANTS
    Receiver,       \* coroutines that receive
    RxSize,         \* Rxq.size, a power of two (8192)
    RefillMin,      \* fewer missing buffers than this are not refilled (8)
    CqSize,         \* Cq.size (1024, an eighth of the ring it serves)
    MaxPackets,     \* bound: packets that arrive
    None            \* Python's None

ASSUME RxAssumption ==
    /\ RxSize \in Nat \ {0} /\ CqSize \in Nat \ {0}
    /\ RefillMin \in 1 .. RxSize /\ MaxPackets \in Nat
ASSUME NoneAssumption == None \notin Nat

VARIABLES
    rxProd,         \* Rxq.prod_ptr
    rxCons,         \* Rxq.cons_ptr
    rxInfo,         \* Rxq.rx_info
    desc,           \* Rxq.buf: the buffer each descriptor points to
    allocated,      \* Driver.allocated_packets: how many
    freePackets,    \* Driver.free_packets
    cqCons,         \* Cq.cons_ptr
    handler,        \* process_rx_cq
    pktQueue,       \* Interface.pkt_rx_queue
    syncSet,        \* Interface.pkt_rx_sync
    recv,           \* what each receiver is doing
    taken,          \* what recv and recv_nowait have returned, in order
    cameEmpty,      \* recv has returned None
    posted,         \* register writes on their way
    data,           \* contents of the buffers
    nicProd,        \* producer pointer of the receive queue manager
    fetching,       \* descriptors fetched, packet not yet written
    fetched,        \* consumer pointer of the receive queue manager
    arrived,        \* packets that have arrived
    completions,    \* completion records in memory: slots, all since the start
    nicCqCons,      \* consumer pointer of the completion queue manager
    completed       \* history: the packet of each completion record

ringVars == <<rxProd, rxCons, rxInfo, desc>>
poolVars == <<allocated, freePackets>>
recvVars == <<pktQueue, syncSet, recv, taken, cameEmpty>>
nicVars == <<data, nicProd, fetching, fetched, arrived, completions, nicCqCons, completed>>
vars == <<ringVars, poolVars, cqCons, handler, recvVars, posted, nicVars>>

-----------------------------------------------------------------------------
Slot(ptr) == ptr % RxSize
Buffers == 1 .. allocated
SlotRange == 0 .. RxSize - 1
Held == {b \in Buffers : \E i \in SlotRange : rxInfo[i] = b}

(* The ring as Rxq.open leaves it: refill_buffers has filled every slot *)
Init ==
    /\ rxProd = RxSize /\ rxCons = 0
    /\ rxInfo = [i \in SlotRange |-> i + 1]
    /\ desc = rxInfo
    /\ allocated = RxSize /\ freePackets = <<>>
    /\ cqCons = 0 /\ handler = "idle"
    /\ pktQueue = <<>> /\ syncSet = FALSE
    /\ recv = [v \in Receiver |-> "idle"]
    /\ taken = <<>> /\ cameEmpty = FALSE
    /\ posted = <<>>
    /\ data = [b \in 1 .. RxSize |-> 0]
    /\ nicProd = RxSize /\ fetching = <<>> /\ fetched = 0 /\ arrived = 0
    /\ completions = <<>> /\ nicCqCons = 0 /\ completed = <<>>

-----------------------------------------------------------------------------
(* The completion handler                                                  *)

Unread == SubSeq(completions, cqCons + 1, Len(completions))
WrongPackets == [j \in DOMAIN Unread |-> data[rxInfo[Slot(rxCons + j)]]]
Packets == [j \in DOMAIN Unread |-> data[rxInfo[Unread[j]]]]

(* pkt_rx_sync.set(): what becomes of a receiver *)
WrongWoken(state) == IF state = "wait" THEN "waitWoken" ELSE state
Woken(state) ==
    CASE state = "recv" -> "recvWoken"
      [] state = "wait" -> "waitWoken"
      [] OTHER -> state

(* process_rx_cq up to its first await: copy every completed packet into   *)
(* the queue of the interface, wake whoever waits, free the buffers, and   *)
(* write the consumer pointer.                                             *)
CqConsWritten == Len(completions)

WrongFreed == ToSet(Unread) \ {Slot(cqCons)}
Freed == ToSet(Unread)

ReadCompletions ==
    /\ handler = "idle"
    /\ Unread # <<>>
    /\ pktQueue' = pktQueue \o Packets
    /\ syncSet' = TRUE
    /\ recv' = [v \in Receiver |-> Woken(recv[v])]
    /\ freePackets' = freePackets \o [j \in DOMAIN Unread |-> rxInfo[Unread[j]]]
    /\ rxInfo' = [i \in SlotRange |-> IF i \in Freed THEN None ELSE rxInfo[i]]
    /\ cqCons' = Len(completions)
    /\ posted' = Append(posted, [reg |-> "cqCons", val |-> CqConsWritten])
    /\ handler' = "replenish"
    /\ UNCHANGED <<rxProd, rxCons, desc, allocated, taken, cameEmpty, nicVars>>

(* The rest: skip freed slots, then refill_buffers.  The buffers come from *)
(* the free list first and are new after that (alloc_pkt).                 *)
Advanced ==
    CHOOSE c \in rxCons .. rxProd :
        /\ \A p \in rxCons .. c - 1 : rxInfo[Slot(p)] = None
        /\ c = rxProd \/ rxInfo[Slot(c)] # None

Missing(cons) == RxSize - (rxProd - cons)
Refilled(cons) == IF Missing(cons) < RefillMin THEN 0 ELSE Missing(cons)

Smaller(a, b) == IF a < b THEN a ELSE b
AllocPkts(n) ==
    LET old == Smaller(n, Len(freePackets)) IN
    SubSeq(freePackets, 1, old) \o [j \in 1 .. n - old |-> allocated + j]

Replenish ==
    LET n == Refilled(Advanced)
        pkts == AllocPkts(n)
        refill(f) == [i \in SlotRange |->
            IF \E j \in 1 .. n : Slot(rxProd + j - 1) = i
            THEN pkts[CHOOSE j \in 1 .. n : Slot(rxProd + j - 1) = i] ELSE f[i]]
    IN  /\ handler = "replenish"
        /\ rxCons' = Advanced
        /\ rxProd' = rxProd + n
        /\ rxInfo' = refill(rxInfo)
        /\ desc' = refill(desc)
        /\ freePackets' = SubSeq(freePackets, n + 1, Len(freePackets))
        /\ allocated' = allocated + (n - Smaller(n, Len(freePackets)))
        /\ data' = [b \in 1 .. allocated' |-> IF b \in DOMAIN data THEN data[b] ELSE 0]
        /\ posted' = IF n = 0 THEN posted
                     ELSE Append(posted, [reg |-> "prod", val |-> rxProd + n])
        /\ handler' = "idle"
        /\ UNCHANGED <<cqCons, recvVars, nicProd, fetching, fetched>>
        /\ UNCHANGED <<arrived, completions, nicCqCons, completed>>

-----------------------------------------------------------------------------
(* Receivers                                                               *)

TakePacket ==
    /\ pktQueue' = Tail(pktQueue)
    /\ taken' = Append(taken, Head(pktQueue))

(* recv and wait: clear the event and sleep only if there is no packet *)
WrongCleared == syncSet
Cleared == FALSE

Recv(v) ==
    /\ recv[v] = "idle"
    /\ \/ /\ pktQueue # <<>>
          /\ TakePacket
          /\ UNCHANGED <<recv, syncSet>>
       \/ /\ pktQueue = <<>>
          /\ syncSet' = Cleared
          /\ recv' = [recv EXCEPT ![v] = IF Cleared THEN "recvWoken" ELSE "recv"]
          /\ UNCHANGED <<pktQueue, taken>>
    /\ UNCHANGED <<cameEmpty, ringVars, poolVars, cqCons, handler, posted, nicVars>>

(* recv after its await: recv_nowait, which returns None if there is none *)
ResumeRecv(v) ==
    /\ recv[v] = "recvWoken"
    /\ recv' = [recv EXCEPT ![v] = "idle"]
    /\ IF pktQueue # <<>> THEN TakePacket /\ UNCHANGED cameEmpty
                          ELSE cameEmpty' = TRUE /\ UNCHANGED <<pktQueue, taken>>
    /\ UNCHANGED <<syncSet, ringVars, poolVars, cqCons, handler, posted, nicVars>>

Wait(v) ==
    /\ recv[v] = "idle"
    /\ pktQueue = <<>>
    /\ syncSet' = Cleared
    /\ recv' = [recv EXCEPT ![v] = IF Cleared THEN "waitWoken" ELSE "wait"]
    /\ UNCHANGED <<pktQueue, taken, cameEmpty>>
    /\ UNCHANGED <<ringVars, poolVars, cqCons, handler, posted, nicVars>>

ResumeWait(v) ==
    /\ recv[v] = "waitWoken"
    /\ recv' = [recv EXCEPT ![v] = "idle"]
    /\ UNCHANGED <<pktQueue, syncSet, taken, cameEmpty>>
    /\ UNCHANGED <<ringVars, poolVars, cqCons, handler, posted, nicVars>>

-----------------------------------------------------------------------------
(* The hardware                                                            *)

DeliverWrite ==
    /\ posted # <<>>
    /\ posted' = Tail(posted)
    /\ \/ Head(posted).reg = "prod" /\ nicProd' = Head(posted).val /\ UNCHANGED nicCqCons
       \/ Head(posted).reg = "cqCons" /\ nicCqCons' = Head(posted).val /\ UNCHANGED nicProd
    /\ UNCHANGED <<ringVars, poolVars, cqCons, handler, recvVars>>
    /\ UNCHANGED <<data, fetching, fetched, arrived, completions, completed>>

(* A packet arrives and the next descriptor is fetched for it.  With no    *)
(* descriptor the packet is not received, which is not a step here.        *)
FetchDesc ==
    /\ arrived < MaxPackets
    /\ fetched < nicProd
    /\ arrived' = arrived + 1
    /\ fetched' = fetched + 1
    /\ fetching' = Append(fetching,
            [slot |-> Slot(fetched), buffer |-> desc[Slot(fetched)], packet |-> arrived + 1])
    /\ UNCHANGED <<ringVars, poolVars, cqCons, handler, recvVars, posted>>
    /\ UNCHANGED <<data, nicProd, completions, nicCqCons, completed>>

(* The packet is in its buffer, and its completion record is written unless*)
(* the completion queue is full.  Nobody is told when it is: rx_engine ends*)
(* the packet on either status, and the descriptor stays in the ring.      *)
CqFull == Len(completions) - nicCqCons >= CqSize

FinishPacket ==
    LET p == Head(fetching) IN
    /\ fetching # <<>>
    /\ fetching' = Tail(fetching)
    /\ data' = [data EXCEPT ![p.buffer] = p.packet]
    /\ \/ /\ ~CqFull
          /\ completions' = Append(completions, p.slot)
          /\ completed' = Append(completed, p.packet)
       \/ CqFull /\ UNCHANGED <<completions, completed>>
    /\ UNCHANGED <<ringVars, poolVars, cqCons, handler, recvVars, posted>>
    /\ UNCHANGED <<nicProd, fetched, arrived, nicCqCons>>

-----------------------------------------------------------------------------
Next ==
    \/ ReadCompletions \/ Replenish
    \/ \E v \in Receiver : Recv(v) \/ ResumeRecv(v) \/ Wait(v) \/ ResumeWait(v)
    \/ DeliverWrite \/ FetchDesc \/ FinishPacket

Spec == Init /\ [][Next]_vars

(* The event loop, the interrupts and the clock; packets need not arrive,  *)
(* but a receiver that asks for packets goes on asking.                    *)
Fairness ==
    /\ WF_vars(ReadCompletions) /\ WF_vars(Replenish)
    /\ WF_vars(DeliverWrite) /\ WF_vars(FinishPacket)
    /\ \A v \in Receiver : WF_vars(Recv(v)) /\ WF_vars(ResumeRecv(v)) /\ WF_vars(ResumeWait(v))

FairSpec == Spec /\ Fairness

-----------------------------------------------------------------------------
(* Properties                                                              *)

Underway ==
    taken \o pktQueue \o [j \in DOMAIN Unread |-> data[rxInfo[Unread[j]]]]
          \o [j \in DOMAIN fetching |-> fetching[j].packet]

(* The packets whose completion found the queue full.                      *)
Lost == (1 .. arrived) \ (ToSet(completed)
                            \union {fetching[j].packet : j \in DOMAIN fetching})

(* Every packet that has arrived, but for those whose completion was lost, *)
(* is where it should be, once and in order: returned to a receiver, in    *)
(* the queue, in the buffer of a completion not yet read, or in a          *)
(* descriptor being filled.  No buffer is overwritten before process_rx_cq *)
(* has copied it, although it is back in the pool and refilled while other *)
(* completions are still unread, and although the slots of lost packets are*)
(* never freed (mqnic.py:1070-1133).                                       *)
PacketsInOrder ==
    /\ \A i, j \in DOMAIN Underway : i < j => Underway[i] < Underway[j]
    /\ ToSet(Underway) = 1 .. arrived \ Lost

(* Every buffer is on the free list, once, or in one slot of the ring.     *)
(* prepare_desc overwrites rx_info without looking (mqnic.py:1043): a slot *)
(* refilled too early would lose its buffer for good.  The hardware only   *)
(* fetches descriptors the driver has filled for it and still remembers,   *)
(* and a refill never asks for more buffers than the completions before it *)
(* have given back, so that the pool does not grow.                        *)
BuffersConserved ==
    /\ IsInjective(freePackets)
    /\ ToSet(freePackets) \intersect Held = {}
    /\ ToSet(freePackets) \union Held = Buffers
    /\ Cardinality(Held) = Cardinality({i \in SlotRange : rxInfo[i] # None})
    /\ \A p \in fetched .. nicProd - 1 : rxInfo[Slot(p)] = desc[Slot(p)]
    /\ \A j \in DOMAIN fetching : rxInfo[fetching[j].slot] = fetching[j].buffer
    /\ allocated = RxSize

(* recv returns a packet, never None, when it is the only one to take      *)
(* packets: the event is cleared before each sleep, so that a wake-up      *)
(* means a packet has been queued since.                                   *)
RecvReturnsPacket == ~cameEmpty

(* A ring without descriptors gets some: completions of the last ones are  *)
(* enough to refill it although small refills are put off.  It starves only*)
(* when it has come round to the descriptor of a lost packet, which is     *)
(* never freed: cons_ptr stays there (mqnic.py:1119-1130).                 *)
RingRefilled ==
    (fetched = nicProd) ~>
        (fetched < nicProd \/ \E p \in Lost : fetched > p - 1 + RxSize - RefillMin)

(* Whatever arrives is returned to a receiver, or its completion was lost. *)
PacketsReceived ==
    (Len(taken) + Cardinality(Lost) < arrived) ~>
        (Len(taken) + Cardinality(Lost) = arrived)

(* What the tests ask for: recv returns every packet that has reached the  *)
(* ring (test_mqnic_core_pcie_us.py:624-626).                              *)
EveryPacketReceived == (Len(taken) < arrived) ~> (Len(taken) = arrived)
=============================================================================
