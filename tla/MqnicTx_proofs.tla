--------------------------- MODULE MqnicTx_proofs ---------------------------
(***************************************************************************)
(* The transmit side of the driver for any number of rings and senders and *)
(* any sizes.  First no assertion fails, no completion is lost, no         *)
(* descriptor in flight is overwritten, and nobody sleeps while there is   *)
(* space.  Then what driver and hardware keep together: each packet        *)
(* published owes the hardware a doorbell, which a sender still has to     *)
(* write, is on its way, or has arrived, and which never arrives before    *)
(* the pointer that shows the packet; and the rings neither lose nor share *)
(* a buffer and keep the promise of PacketRing that packets leave in the   *)
(* order they were submitted and a buffer comes back only after its packet *)
(* has left.                                                               *)
(***************************************************************************)
EXTENDS MqnicTx, SequenceTheorems, FiniteSetTheorems, FunctionTheorems, TLAPS

-----------------------------------------------------------------------------
(* Ring buffers of any size that are read by phase bits, as the completion *)
(* and event queues of mqnic.py are: positions count on for ever, the slot *)
(* is the position modulo the size, and a record is new if its phase bit   *)
(* is not that of the reader's round.                                      *)

(* A position is a number of full rounds and a slot.                       *)
LEMMA DivMod ==
    ASSUME NEW S \in Nat \ {0}, NEW p \in Nat
    PROVE  /\ p \div S \in Nat
           /\ p % S \in 0 .. S - 1
           /\ p = S * (p \div S) + (p % S)
OBVIOUS

(* One round further is at least a whole buffer further.                   *)
LEMMA Multiples ==
    ASSUME NEW S \in Nat \ {0}, NEW k \in Nat, NEW m \in Nat, k < m
    PROVE  S * m >= S * k + S
<1>1. PICK d \in Nat : m = k + 1 + d
  <2>1. m - k - 1 \in Nat /\ m = k + 1 + (m - k - 1)
    OBVIOUS
  <2> QED  BY <2>1
<1>2. S * m = S * k + S + S * d
  BY <1>1
<1>3. S * d \in Nat /\ S * k \in Nat
  OBVIOUS
<1> QED  BY <1>2, <1>3

(* Two positions less than a buffer apart have different slots.            *)
LEMMA ModUnique ==
    ASSUME NEW S \in Nat \ {0}, NEW p \in Nat, NEW q \in Nat, p < q, q < p + S
    PROVE  p % S # q % S
<1> DEFINE a == p \div S
           b == q \div S
           r == p % S
           t == q % S
<1>1. a \in Nat /\ r \in 0 .. S - 1 /\ p = (S * a) + r
  BY DivMod
<1>2. b \in Nat /\ t \in 0 .. S - 1 /\ q = S * b + t
  BY DivMod
<1>3. SUFFICES ASSUME r = t PROVE FALSE
  OBVIOUS
<1> HIDE DEF a, b, r, t
<1>4. S * a \in Int /\ S * b \in Int
  BY <1>1, <1>2
<1>5. CASE a < b
  <2>1. S * b >= S * a + S
    BY <1>1, <1>2, <1>5, Multiples
  <2> QED  BY <1>1, <1>2, <1>3, <1>4, <2>1
<1>6. CASE b < a
  <2>1. S * a >= S * b + S
    BY <1>1, <1>2, <1>6, Multiples
  <2> QED  BY <1>1, <1>2, <1>3, <1>4, <2>1
<1>7. CASE a = b
  BY <1>1, <1>2, <1>3, <1>4, <1>7
<1> QED  BY <1>1, <1>2, <1>5, <1>6, <1>7

(* The same slot in the next round has the other phase.                    *)
LEMMA NextRound ==
    ASSUME NEW S \in Nat \ {0}, NEW p \in Nat
    PROVE  /\ (p + S) % S = p % S
           /\ Round(p + S, S) = ~Round(p, S)
<1> DEFINE a == p \div S
           b == (p + S) \div S
           r == p % S
           t == (p + S) % S
<1>1. a \in Nat /\ r \in 0 .. S - 1 /\ p = (S * a) + r
  BY DivMod
<1>2. b \in Nat /\ t \in 0 .. S - 1 /\ p + S = S * b + t
  <2>1. p + S \in Nat
    OBVIOUS
  <2> QED  BY <2>1, DivMod
<1>3. b = a + 1 /\ t = r
  <2> HIDE DEF a, b, r, t
  <2>1. S * a \in Int /\ S * b \in Int /\ S * (a + 1) = S * a + S
    BY <1>1, <1>2
  <2>2. CASE a + 1 < b
    <3>1. S * b >= S * (a + 1) + S
      BY <1>1, <1>2, <2>2, Multiples
    <3> QED  BY <1>1, <1>2, <2>1, <3>1
  <2>3. CASE b < a + 1
    <3>1. S * (a + 1) >= S * b + S
      BY <1>1, <1>2, <2>3, Multiples
    <3> QED  BY <1>1, <1>2, <2>1, <3>1
  <2>4. CASE b = a + 1
    BY <1>1, <1>2, <2>1, <2>4
  <2> QED  BY <1>1, <1>2, <2>2, <2>3, <2>4
<1>4. ((a + 1) % 2 = 1) = ~(a % 2 = 1)
  <2> HIDE DEF a
  <2> QED  BY <1>1
<1>5. Round(p + S, S) = ((a + 1) % 2 = 1) /\ Round(p, S) = (a % 2 = 1)
  BY <1>3 DEF Round
<1> QED  BY <1>3, <1>4, <1>5

-----------------------------------------------------------------------------
(* A buffer of records with phase bits: the records from .. to - 1 look    *)
(* new to a reader that comes to them, and whatever lies beyond does not.  *)
Marked(buf, size, from, to) ==
    /\ from <= to /\ to <= from + size
    /\ \A p \in from .. to - 1 : IsNew(buf[p % size], p, size)
    /\ \A p \in to .. from + size - 1 : ~IsNew(buf[p % size], p, size)

Phased(buf, size) == \A i \in 0 .. size - 1 : buf[i].phase \in BOOLEAN

(* The hardware writes the record at to.                                   *)
LEMMA MarkedAppend ==
    ASSUME NEW S \in Nat \ {0}, NEW from \in Nat, NEW to \in Nat, NEW buf, NEW rec,
           DOMAIN buf = 0 .. S - 1,
           Marked(buf, S, from, to), to < from + S, rec.phase = PhaseOf(to, S)
    PROVE  Marked([buf EXCEPT ![to % S] = rec], S, from, to + 1)
<1> DEFINE new == [buf EXCEPT ![to % S] = rec]
<1>1. \A p \in Nat : p % S \in 0 .. S - 1
  BY DivMod
<1>2. ASSUME NEW p \in from .. from + S - 1, p # to
      PROVE  new[p % S] = buf[p % S]
  <2>1. p % S # to % S
    <3>1. p \in Nat /\ p < to + S /\ to < p + S
      BY DEF Marked
    <3>2. CASE p < to
      BY <3>1, <3>2, ModUnique
    <3>3. CASE to < p
      BY <3>1, <3>3, ModUnique
    <3> QED  BY <1>2, <3>1, <3>2, <3>3
  <2> QED  BY <2>1, <1>1
<1>3. IsNew(new[to % S], to, S)
  BY <1>1 DEF IsNew, PhaseOf, Round
<1>4. \A p \in from .. to : IsNew(new[p % S], p, S)
  BY <1>2, <1>3 DEF Marked
<1>5. \A p \in to + 1 .. from + S - 1 : ~IsNew(new[p % S], p, S)
  BY <1>2 DEF Marked
<1> QED  BY <1>4, <1>5 DEF Marked

(* What a reader has gone past looks old to it when it comes round again.  *)
LEMMA LooksOld ==
    ASSUME NEW S \in Nat \ {0}, NEW p \in Nat, NEW buf, Phased(buf, S),
           IsNew(buf[p % S], p, S)
    PROVE  ~IsNew(buf[(p + S) % S], p + S, S)
<1>1. (p + S) % S = p % S /\ Round(p + S, S) = ~Round(p, S)
  BY NextRound
<1>2. buf[p % S].phase \in BOOLEAN
  BY DivMod DEF Phased
<1>3. Round(p, S) \in BOOLEAN
  BY DEF Round
<1> QED  BY <1>1, <1>2, <1>3 DEF IsNew

(* The reader goes on to mid.                                              *)
LEMMA MarkedAdvance ==
    ASSUME NEW S \in Nat \ {0}, NEW from \in Nat, NEW to \in Nat, NEW buf,
           Phased(buf, S), Marked(buf, S, from, to), NEW mid \in from .. to
    PROVE  Marked(buf, S, mid, to)
<1>1. ASSUME NEW p \in to .. mid + S - 1
      PROVE  ~IsNew(buf[p % S], p, S)
  <2>1. CASE p < from + S
    BY <2>1 DEF Marked
  <2>2. CASE ~(p < from + S)
    <3>1. p - S \in from .. to - 1 /\ p - S \in Nat /\ p = (p - S) + S
      BY <2>2 DEF Marked
    <3>2. IsNew(buf[(p - S) % S], p - S, S)
      BY <3>1 DEF Marked
    <3> QED  BY <3>1, <3>2, LooksOld
  <2> QED  BY <2>1, <2>2
<1>2. \A p \in mid .. to - 1 : IsNew(buf[p % S], p, S)
  BY DEF Marked
<1> QED  BY <1>1, <1>2 DEF Marked

(* A reader that follows the phase bits finds every record and stops.      *)
LEMMA ReaderStops ==
    ASSUME NEW S \in Nat \ {0}, NEW from \in Nat, NEW to \in Nat, NEW buf,
           Phased(buf, S), Marked(buf, S, from, to), NEW p \in from .. to
    PROVE  IsNew(buf[p % S], p, S) <=> p < to
<1>1. CASE p < to
  BY <1>1 DEF Marked
<1>2. CASE p = to /\ to < from + S
  BY <1>2 DEF Marked
<1>3. CASE p = to /\ to = from + S
  <2>1. IsNew(buf[from % S], from, S)
    BY <1>3 DEF Marked
  <2> QED  BY <1>3, <2>1, LooksOld
<1> QED  BY <1>1, <1>2, <1>3 DEF Marked

-----------------------------------------------------------------------------
(* The inductive invariant.                                                *)

RegWrite ==
    [reg : {"prod", "bell", "cqCons", "cqArm"}, ring : Ring, val : Nat]
      \union [reg : {"eqCons", "eqArm"}, ring : {None}, val : Nat]

Typing ==
    /\ TypeOK
    /\ allocated \in Nat
    /\ posted \in Seq(RegWrite)
    /\ \A s \in Sender : xmit[s].pc # "idle" => xmit[s].ring \in Ring
    /\ handler.pc = "advance" => handler.ring \in Ring

(* Freed, completed, sent, published: in this order, and not too far apart. *)
PointersOf(r) ==
    /\ txCons[r] <= cqCons[r]
    /\ cqCons[r] <= nicCq[r].written
    /\ nicCq[r].written = nicTx[r].sent
    /\ nicTx[r].sent <= txProd[r]
    /\ txProd[r] <= txCons[r] + FullSize
PointersInOrder == \A r \in Ring : PointersOf(r)

(* When write i of ps arrives, the consumer pointer the hardware knows of  *)
(* CQ r makes v packets safe: it does already, or an earlier write brings  *)
(* it.                                                                     *)
IsWrite(w, reg, r) == w.reg = reg /\ w.ring = r
Covered(ps, r, known, i, v) ==
    \/ v <= known + FullSize
    \/ \E j \in DOMAIN ps :
        j < i /\ IsWrite(ps[j], "cqCons", r) /\ v <= ps[j].val + FullSize

(* Posted writes ps arrive late but in order, so a producer pointer is     *)
(* known to the hardware (known, nicProd) only after the consumer pointer  *)
(* that made room for it; cons and prod are what the driver has.           *)
WritesFit(ps, r, known, nicProd, cons, prod) ==
    /\ nicProd <= prod
    /\ nicProd <= known + FullSize
    /\ known <= cons
    /\ Covered(ps, r, known, Len(ps) + 1, cons + FullSize)
    /\ \A i \in DOMAIN ps :
        /\ IsWrite(ps[i], "prod", r) => ps[i].val <= prod /\ Covered(ps, r, known, i, ps[i].val)
        /\ IsWrite(ps[i], "cqCons", r) =>
            /\ known <= ps[i].val
            /\ ps[i].val <= cons
            /\ \A j \in DOMAIN ps :
                i < j /\ IsWrite(ps[j], "cqCons", r) => ps[i].val <= ps[j].val
WritesOf(r) ==
    WritesFit(posted, r, nicCq[r].cons, nicTx[r].prod, cqCons[r], txProd[r])
WritesInOrder == \A r \in Ring : WritesOf(r)

(* The records the driver has not read are those of the packets sent.      *)
RecordsOf(r) ==
    /\ Marked(cqBuf[r], CqSize, cqCons[r], nicCq[r].written)
    /\ \A p \in cqCons[r] .. nicCq[r].written - 1 : cqBuf[r][p % CqSize].index = p
RecordsExact == \A r \in Ring : RecordsOf(r)

EventsExact ==
    /\ Marked(eqBuf, EqSize, eqCons, nicEq.written)
    /\ \A p \in eqCons .. nicEq.written - 1 : eqBuf[p % EqSize].source \in Ring
    /\ nicEq.cons <= eqCons
    /\ \A i \in DOMAIN posted : posted[i].reg = "eqCons" => posted[i].val <= eqCons
    /\ handler.pc \in {"scan", "advance"} => handler.ptr \in eqCons .. nicEq.written
    /\ handler.pc = "advance" => handler.ptr < nicEq.written

(* The slots of the packets not completed hold buffers, and no others do.  *)
SlotsOf(r) ==
    /\ \A p \in cqCons[r] .. txProd[r] - 1 : txInfo[r][p % TxSize] # None
    /\ \A p \in txProd[r] .. cqCons[r] + TxSize - 1 : txInfo[r][p % TxSize] = None
SlotsExact == \A r \in Ring : SlotsOf(r)

IInv ==
    /\ Typing
    /\ PointersInOrder
    /\ WritesInOrder
    /\ RecordsExact
    /\ EventsExact
    /\ SlotsExact
    /\ AssertsHold
    /\ NobodySleepsWithSpace

-----------------------------------------------------------------------------
(* What the sizes are: the ring uses half of its slots.                    *)
LEMMA Sizes ==
    /\ TxSize \in Nat \ {0} /\ CqSize \in Nat \ {0} /\ EqSize \in Nat \ {0}
    /\ FullSize \in Nat /\ FullSize < TxSize /\ FullSize <= CqSize
BY SizeAssumption DEF FullSize

(* The type invariant in groups. *)
SenderTypes ==
    /\ xmit \in [Sender -> [pc : {"idle", "publish", "wait", "woken"}, ring : Ring \union {None}]]
    /\ calls \in 0 .. MaxXmit
    /\ cleanEvent \in [Ring -> BOOLEAN]
SlotTypes ==
    /\ txProd \in [Ring -> Nat] /\ txCons \in [Ring -> Nat]
    /\ txInfo \in [Ring -> [0 .. TxSize - 1 -> Buffers \union {None}]]
    /\ freePackets \in Seq(Buffers)
    /\ failed \in BOOLEAN
HandlerTypes ==
    /\ cqCons \in [Ring -> Nat] /\ eqCons \in Nat
    /\ handler \in [pc : {"idle", "scan", "advance", "arm"}, ring : Ring \union {None}, ptr : Nat]
    /\ irqQueue \in Nat
BufferTypes ==
    /\ cqBuf \in [Ring -> [0 .. CqSize - 1 -> [index : Nat, phase : BOOLEAN]]]
    /\ eqBuf \in [0 .. EqSize - 1 -> [source : Ring \union {None}, phase : BOOLEAN]]
NicTxType == [prod : Nat, bells : Nat, sent : Nat]
NicQueueType == [written : Nat, prod : Nat, cons : Nat, armed : BOOLEAN]
NicTypes ==
    /\ nicTx \in [Ring -> NicTxType]
    /\ nicCq \in [Ring -> NicQueueType]
    /\ nicEq \in NicQueueType
    /\ events \in Seq(Ring)
    /\ Len(posted) <= PostedDepth

(* The groups are the type invariant.                                      *)
LEMMA TypeGroups ==
    TypeOK <=> SenderTypes /\ SlotTypes /\ HandlerTypes /\ BufferTypes /\ NicTypes
BY DEF TypeOK, SenderTypes, SlotTypes, HandlerTypes, BufferTypes, NicTypes,
       NicTxType, NicQueueType

(* The types of one ring's part of the state.                              *)
LEMMA RingTypes ==
    ASSUME Typing, NEW r \in Ring
    PROVE  /\ txProd[r] \in Nat /\ txCons[r] \in Nat /\ cqCons[r] \in Nat
           /\ nicTx[r] \in [prod : Nat, bells : Nat, sent : Nat]
           /\ nicCq[r] \in [written : Nat, prod : Nat, cons : Nat, armed : BOOLEAN]
           /\ txInfo[r] \in [0 .. TxSize - 1 -> Buffers \union {None}]
           /\ cqBuf[r] \in [0 .. CqSize - 1 -> [index : Nat, phase : BOOLEAN]]
BY DEF Typing, TypeOK

(* The numbers arithmetic is about.                                        *)
LEMMA RingNumbers ==
    ASSUME Typing, NEW r \in Ring
    PROVE  /\ txProd[r] \in Nat /\ txCons[r] \in Nat /\ cqCons[r] \in Nat
           /\ nicTx[r].prod \in Nat /\ nicTx[r].sent \in Nat
           /\ nicCq[r].written \in Nat /\ nicCq[r].cons \in Nat
           /\ Phased(cqBuf[r], CqSize)
<1>1. cqBuf[r] \in [0 .. CqSize - 1 -> [index : Nat, phase : BOOLEAN]]
  BY RingTypes
<1>2. Phased(cqBuf[r], CqSize)
  BY <1>1 DEF Phased
<1> QED  BY <1>2, RingTypes

(* Everything starts empty, and no record looks new.                       *)
LEMMA InitInv == Init => IInv
<1> SUFFICES ASSUME Init PROVE IInv
  OBVIOUS
<1>1. Typing
  <2>1. <<>> \in Seq(RegWrite) /\ <<>> \in Seq(Ring) /\ Len(<<>>) = 0 /\ <<>> \in Seq(Buffers)
    OBVIOUS
  <2>2. SenderTypes
    BY BoundAssumption DEF Init, SenderTypes
  <2>3. SlotTypes
    BY <2>1 DEF Init, SlotTypes
  <2>4. HandlerTypes
    BY DEF Init, HandlerTypes
  <2>5. BufferTypes
    BY DEF Init, BufferTypes
  <2>6. NicTypes
    BY <2>1, BoundAssumption DEF Init, NicTypes, NicTxType, NicQueueType
  <2> QED  BY <2>1, <2>2, <2>3, <2>4, <2>5, <2>6, TypeGroups DEF Init, Typing
<1>2. PointersInOrder
  BY Sizes DEF Init, PointersInOrder, PointersOf
<1>3. WritesInOrder
  BY Sizes DEF Init, WritesInOrder, WritesOf, WritesFit, Covered
<1>4. \A S \in Nat \ {0} : \A p \in 0 .. S - 1 : p % S \in 0 .. S - 1 /\ Round(p, S) = FALSE
  <2> SUFFICES ASSUME NEW S \in Nat \ {0}, NEW p \in 0 .. S - 1
               PROVE  p % S \in 0 .. S - 1 /\ Round(p, S) = FALSE
    OBVIOUS
  <2>1. p % S = p /\ p \div S = 0
    <3>1. p \in Nat
      OBVIOUS
    <3>2. p \div S \in Nat /\ p % S \in 0 .. S - 1 /\ p = S * (p \div S) + (p % S)
      BY <3>1, DivMod
    <3>3. 0 < p \div S => S * (p \div S) >= S * 0 + S
      BY <3>2, Multiples
    <3> HIDE DEF Round
    <3> QED  BY <3>2, <3>3
  <2> QED  BY <2>1 DEF Round
<1>5. ASSUME NEW S \in Nat \ {0}, NEW buf, \A i \in 0 .. S - 1 : buf[i].phase = FALSE
      PROVE  Marked(buf, S, 0, 0)
  <2>1. \A p \in 0 .. S - 1 : ~IsNew(buf[p % S], p, S)
    BY <1>4, <1>5 DEF IsNew
  <2> QED  BY <2>1 DEF Marked
<1>6. RecordsExact
  <2> SUFFICES ASSUME NEW r \in Ring
               PROVE  Marked(cqBuf[r], CqSize, 0, 0)
    <3>1. \A r \in Ring : cqCons[r] = 0 /\ nicCq[r].written = 0
      BY DEF Init
    <3> QED  BY <3>1 DEF RecordsExact, RecordsOf
  <2>1. \A i \in 0 .. CqSize - 1 : cqBuf[r][i].phase = FALSE
    BY DEF Init
  <2> QED  BY <2>1, <1>5, Sizes
<1>7. EventsExact
  <2>1. \A i \in 0 .. EqSize - 1 : eqBuf[i].phase = FALSE
    BY DEF Init
  <2>2. Marked(eqBuf, EqSize, 0, 0)
    BY <2>1, <1>5, Sizes
  <2> QED  BY <2>2 DEF Init, EventsExact
<1>8. SlotsExact
  BY <1>4, Sizes DEF Init, SlotsExact, SlotsOf
<1>9. AssertsHold /\ NobodySleepsWithSpace
  BY DEF Init, AssertsHold, NobodySleepsWithSpace
<1> QED  BY <1>1, <1>2, <1>3, <1>6, <1>7, <1>8, <1>9 DEF IInv

-----------------------------------------------------------------------------
(* What each step does, with the CHOOSEs of the scan worked out.           *)

(* start_xmit, at its call or when it is woken: it sends, or it waits.     *)
Transmits(s, r) ==
    /\ xmit[s].pc \in {"idle", "woken"}
    /\ HasSpace(r) /\ TxTransmit(s, r) /\ calls' \in 0 .. MaxXmit
    /\ UNCHANGED <<cqCons, eqCons, handler, nicVars>>
Waits(s, r) ==
    /\ xmit[s].pc \in {"idle", "woken"}
    /\ ~HasSpace(r) /\ WaitForSpace(s, r) /\ calls' \in 0 .. MaxXmit
    /\ UNCHANGED <<cqCons, eqCons, handler, nicVars>>

(* A call of start_xmit, or its return from a wait, sends or waits. *)
LEMMA SenderSteps ==
    ASSUME Typing, NEW s \in Sender, NEW q \in Ring, StartXmit(s, q) \/ ResumeXmit(s)
    PROVE  \E r \in Ring : Transmits(s, r) \/ Waits(s, r)
<1>1. CASE StartXmit(s, q)
  <2>1. calls' \in 0 .. MaxXmit
    BY <1>1, BoundAssumption DEF StartXmit, Typing, TypeOK
  <2> QED  BY <1>1, <2>1 DEF StartXmit, TryXmit, Transmits, Waits
<1>2. CASE ResumeXmit(s)
  <2>1. xmit[s].ring \in Ring
    BY <1>2 DEF ResumeXmit, Typing
  <2>2. calls' \in 0 .. MaxXmit
    BY <1>2 DEF ResumeXmit, Typing, TypeOK
  <2> QED  BY <1>2, <2>1, <2>2 DEF ResumeXmit, TryXmit, Transmits, Waits
<1> QED  BY <1>1, <1>2

(* process_tx_cq reads the records of exactly the packets sent.            *)
LEMMA ReadsAll ==
    ASSUME IInv, NEW r \in Ring
    PROVE  /\ NewRecords(r) = nicCq[r].written - cqCons[r]
           /\ CompletedSlots(r) = [j \in 1 .. nicCq[r].written - cqCons[r] |->
                                     TxSlot(cqCons[r] + j - 1)]
<1> DEFINE c == cqCons[r]
           n == nicCq[r].written - c
           new(k) == IsNew(cqBuf[r][CqSlot(c + k)], c + k, CqSize)
           ready(k) == \A j \in 0 .. k - 1 : new(j)
<1>1. c \in Nat /\ nicCq[r].written \in Nat /\ n \in Nat /\ n <= CqSize
  <2>1. cqCons[r] \in Nat /\ nicCq[r].written \in Nat
    BY RingNumbers DEF IInv
  <2>2. cqCons[r] <= nicCq[r].written /\ nicCq[r].written <= cqCons[r] + CqSize
    BY DEF IInv, RecordsExact, RecordsOf, Marked
  <2> QED  BY <2>1, <2>2, Sizes
<1>2. Phased(cqBuf[r], CqSize)
  BY RingNumbers DEF IInv
<1>3. \A k \in 0 .. n : new(k) <=> k < n
  <2> SUFFICES ASSUME NEW k \in 0 .. n PROVE new(k) <=> k < n
    OBVIOUS
  <2>1. c + k \in c .. nicCq[r].written /\ nicCq[r].written \in Nat
    BY <1>1
  <2>2. Marked(cqBuf[r], CqSize, c, nicCq[r].written)
    BY DEF IInv, RecordsExact, RecordsOf
  <2>3. new(k) <=> c + k < nicCq[r].written
    BY <1>1, <1>2, <2>1, <2>2, Sizes, ReaderStops DEF CqSlot
  <2> QED  BY <1>1, <2>1, <2>3
<1>4. NewRecords(r) = CHOOSE k \in 0 .. CqSize : ready(k) /\ (k = CqSize \/ ~ready(k + 1))
  BY DEF NewRecords
<1> HIDE DEF n, new
<1>5. ready(n) /\ (n = CqSize \/ ~ready(n + 1)) /\ n \in 0 .. CqSize
  BY <1>1, <1>3, Sizes
<1>6. \A k \in 0 .. CqSize : ready(k) /\ (k = CqSize \/ ~ready(k + 1)) => k = n
  BY <1>1, <1>3, Sizes
<1>7. NewRecords(r) = n
  BY <1>4, <1>5, <1>6
<1>8. \A j \in 1 .. n : cqBuf[r][CqSlot(c + j - 1)].index = c + j - 1
  <2>1. \A p \in c .. nicCq[r].written - 1 : cqBuf[r][p % CqSize].index = p
    BY DEF IInv, RecordsExact, RecordsOf
  <2>2. \A j \in 1 .. n : c + j - 1 \in c .. nicCq[r].written - 1
    BY <1>1 DEF n
  <2> QED  BY <2>1, <2>2 DEF CqSlot
<1>9. CompletedSlots(r) = [j \in 1 .. n |-> TxSlot(c + j - 1)]
  BY <1>7, <1>8 DEF CompletedSlots
<1> QED  BY <1>7, <1>9 DEF n

(* The ring's consumer pointer catches up with the completion queue's.     *)
LEMMA CatchesUp ==
    ASSUME IInv, NEW r \in Ring
    PROVE  Advanced(r) = cqCons[r]
<1> DEFINE c == cqCons[r]
           t == txCons[r]
           P == txProd[r]
           free(p) == txInfo[r][TxSlot(p)] = None
<1>1. c \in Nat /\ t \in Nat /\ P \in Nat /\ t <= c /\ c <= P /\ P <= t + FullSize
  BY RingNumbers DEF IInv, PointersInOrder, PointersOf
<1>2. \A p \in c .. P - 1 : ~free(p)
  BY DEF IInv, SlotsExact, SlotsOf, TxSlot
<1>3. \A p \in t .. c - 1 : free(p)
  <2> SUFFICES ASSUME NEW p \in t .. c - 1 PROVE free(p)
    OBVIOUS
  <2>1. p \in Nat /\ p + TxSize \in P .. c + TxSize - 1
    BY <1>1, Sizes
  <2>2. (p + TxSize) % TxSize = p % TxSize
    BY <2>1, Sizes, NextRound
  <2> QED  BY <2>1, <2>2 DEF IInv, SlotsExact, SlotsOf, TxSlot
<1>4. Advanced(r) = CHOOSE k \in t .. P : (\A p \in t .. k - 1 : free(p)) /\ (k = P \/ ~free(k))
  BY DEF Advanced
<1> HIDE DEF c, t, P, free
<1> QED  BY <1>1, <1>2, <1>3, <1>4 DEF c

(* process_tx_cq gives back the slots of exactly the packets sent, and the *)
(* asserts of free_pkt hold.                                               *)
Completes(r) ==
    /\ handler.pc = "scan" /\ handler.ptr < nicEq.written /\ EventHere.source = r
    /\ Post(Write("cqCons", r, nicCq[r].written))
    /\ cqCons' = [cqCons EXCEPT ![r] = nicCq[r].written]
    /\ freePackets' = freePackets \o
            [j \in 1 .. nicCq[r].written - cqCons[r] |-> txInfo[r][TxSlot(cqCons[r] + j - 1)]]
    /\ txInfo' = [txInfo EXCEPT ![r] =
            [i \in 0 .. TxSize - 1 |->
                IF \E p \in cqCons[r] .. nicCq[r].written - 1 : i = TxSlot(p)
                THEN None ELSE txInfo[r][i]]]
    /\ handler' = [handler EXCEPT !.pc = "advance", !.ring = r]
    /\ UNCHANGED <<xmit, calls, txProd, txCons, cleanEvent, allocated, eqCons, failed, nicVars>>

(* process_eq stops exactly at the last event written, and what it reads names a ring. *)
LEMMA EventHereIsExact ==
    ASSUME IInv, handler.pc = "scan"
    PROVE  /\ EventIsNew <=> handler.ptr < nicEq.written
           /\ EventIsNew => EventHere.source \in Ring
<1>1. eqCons \in Nat /\ nicEq.written \in Nat
  BY DEF IInv, Typing, TypeOK
<1>2. Phased(eqBuf, EqSize)
  BY DEF IInv, Typing, TypeOK, Phased
<1>3. /\ Marked(eqBuf, EqSize, eqCons, nicEq.written)
      /\ handler.ptr \in eqCons .. nicEq.written
      /\ \A p \in eqCons .. nicEq.written - 1 : eqBuf[p % EqSize].source \in Ring
  BY DEF IInv, EventsExact
<1>4. EventIsNew <=> handler.ptr < nicEq.written
  BY <1>1, <1>2, <1>3, Sizes, ReaderStops DEF EventIsNew, EventHere, EqSlot
<1> QED  BY <1>1, <1>3, <1>4 DEF EventHere, EqSlot

(* The packets sent and not completed lie in different slots, with buffers. *)
LEMMA SentSlots ==
    ASSUME IInv, NEW r \in Ring,
           NEW p \in cqCons[r] .. nicCq[r].written - 1
    PROVE  /\ p \in Nat /\ TxSlot(p) \in 0 .. TxSize - 1
           /\ txInfo[r][TxSlot(p)] # None
           /\ txInfo[r][TxSlot(p)] \in Buffers
           /\ \A q \in cqCons[r] .. nicCq[r].written - 1 : TxSlot(p) = TxSlot(q) => p = q
<1>1. cqCons[r] \in Nat /\ nicCq[r].written \in Nat /\ txProd[r] \in Nat /\ txCons[r] \in Nat
  BY RingNumbers DEF IInv
<1>2. nicCq[r].written <= txProd[r] /\ txProd[r] <= cqCons[r] + FullSize
  BY <1>1, Sizes DEF IInv, PointersInOrder, PointersOf
<1>3. p \in Nat /\ p \in cqCons[r] .. txProd[r] - 1
  BY <1>1, <1>2
<1>4. TxSlot(p) \in 0 .. TxSize - 1
  BY <1>3, Sizes, DivMod DEF TxSlot
<1>5. txInfo[r][TxSlot(p)] # None
  BY <1>3 DEF IInv, SlotsExact, SlotsOf, TxSlot
<1>6. txInfo[r][TxSlot(p)] \in Buffers
  BY <1>4, <1>5, RingTypes DEF IInv
<1>7. ASSUME NEW q \in cqCons[r] .. nicCq[r].written - 1, p # q
      PROVE  TxSlot(p) # TxSlot(q)
  <2>1. q \in Nat /\ q < p + TxSize /\ p < q + TxSize
    BY <1>1, <1>2, Sizes
  <2>2. CASE p < q
    BY <1>3, <2>1, <2>2, Sizes, ModUnique DEF TxSlot
  <2>3. CASE q < p
    BY <1>3, <2>1, <2>3, Sizes, ModUnique DEF TxSlot
  <2> QED  BY <1>3, <1>7, <2>1, <2>2, <2>3
<1> QED  BY <1>3, <1>4, <1>5, <1>6, <1>7

(* An event makes the handler complete exactly the packets sent. *)
LEMMA ScanStep ==
    ASSUME IInv, ScanEvent
    PROVE  \E r \in Ring : Completes(r)
<1> DEFINE r == EventHere.source
           c == cqCons[r]
           n == nicCq[r].written - c
           slots == [j \in 1 .. n |-> TxSlot(c + j - 1)]
           freed == [j \in 1 .. n |-> txInfo[r][TxSlot(c + j - 1)]]
<1>1. handler.pc = "scan" /\ EventIsNew /\ ProcessTxCq(r)
  BY DEF ScanEvent
<1>2. r \in Ring /\ handler.ptr < nicEq.written
  BY <1>1, EventHereIsExact
<1> HIDE DEF r
<1>3. c \in Nat /\ n \in Nat /\ nicCq[r].written = c + n
  <2>1. cqCons[r] \in Nat /\ nicCq[r].written \in Nat /\ cqCons[r] <= nicCq[r].written
    BY <1>2, RingNumbers DEF IInv, PointersInOrder, PointersOf
  <2> QED  BY <2>1
<1>4. CompletedSlots(r) = slots
  BY <1>2, ReadsAll
<1>5. slots \in Seq(Nat) /\ Len(slots) = n /\ DOMAIN slots = 1 .. n
  <2>1. \A j \in 1 .. n : slots[j] \in Nat
    <3>1. \A j \in 1 .. n : c + j - 1 \in Nat
      BY <1>3
    <3> QED  BY <3>1, Sizes, DivMod DEF TxSlot
  <2> HIDE DEF n
  <2> QED  BY <2>1, <1>3
<1>6. \A j \in 1 .. n : c + j - 1 \in c .. nicCq[r].written - 1
  BY <1>3
<1>7. \A j \in DOMAIN freed : freed[j] # None
  BY <1>2, <1>6, SentSlots
<1>8. IsInjective(slots)
  <2> SUFFICES ASSUME NEW i \in 1 .. n, NEW j \in 1 .. n, slots[i] = slots[j]
               PROVE  i = j
    BY <1>5 DEF IsInjective
  <2>1. TxSlot(c + i - 1) = TxSlot(c + j - 1)
    OBVIOUS
  <2>2. c + i - 1 = c + j - 1
    BY <1>2, <1>6, <2>1, SentSlots
  <2> QED  BY <1>3, <2>2
<1>9. freed = [j \in DOMAIN slots |-> txInfo[r][slots[j]]]
  BY <1>5
<1>10. ToSet(slots) = {TxSlot(p) : p \in c .. nicCq[r].written - 1}
  <2>1. \A p \in c .. nicCq[r].written - 1 : p - c + 1 \in 1 .. n /\ c + (p - c + 1) - 1 = p
    BY <1>3
  <2> QED  BY <1>5, <1>6, <2>1 DEF ToSet
<1>11. failed' = failed
  <2>1. failed' = (failed \/ None \in ToSet(freed) \/ ~IsInjective(slots))
    BY <1>1, <1>4, <1>9 DEF ProcessTxCq
  <2>2. None \notin ToSet(freed)
    BY <1>7 DEF ToSet
  <2>3. failed \in BOOLEAN
    BY DEF IInv, Typing, TypeOK
  <2> HIDE DEF freed, slots
  <2> QED  BY <1>8, <2>1, <2>2, <2>3
<1>12. txInfo' = [txInfo EXCEPT ![r] =
            [i \in 0 .. TxSize - 1 |->
                IF \E p \in c .. nicCq[r].written - 1 : i = TxSlot(p)
                THEN None ELSE txInfo[r][i]]]
  <2>1. DOMAIN txInfo[r] = 0 .. TxSize - 1
    BY <1>2, RingTypes DEF IInv
  <2>2. txInfo' = [txInfo EXCEPT ![r] =
                [i \in DOMAIN txInfo[r] |-> IF i \in ToSet(slots) THEN None ELSE txInfo[r][i]]]
    BY <1>1, <1>4 DEF ProcessTxCq, Cleared
  <2> HIDE DEF c, slots
  <2> QED  BY <1>10, <2>1, <2>2
<1>13. cqCons' = [cqCons EXCEPT ![r] = nicCq[r].written]
  BY <1>1, <1>3, <1>4, <1>5 DEF ProcessTxCq
<1>14. Post(Write("cqCons", r, nicCq[r].written))
  BY <1>1, <1>3, <1>4, <1>5 DEF ProcessTxCq
<1>15. freePackets' = freePackets \o freed
  BY <1>1, <1>4, <1>9 DEF ProcessTxCq
<1>16. /\ handler' = [handler EXCEPT !.pc = "advance", !.ring = r]
       /\ UNCHANGED <<xmit, calls, txProd, txCons, cleanEvent, allocated, eqCons, nicVars>>
  BY DEF ScanEvent, r
<1>17. EventHere.source = r
  BY DEF r
<1> QED  BY <1>1, <1>2, <1>11, <1>12, <1>13, <1>14, <1>15, <1>16, <1>17 DEF Completes

(* The rest of process_tx_cq, with the consumer pointer caught up.         *)
Advances(r) ==
    /\ handler.pc = "advance" /\ handler.ring = r
    /\ txCons' = [txCons EXCEPT ![r] = cqCons[r]]
    /\ cleanEvent' = [cleanEvent EXCEPT ![r] = TRUE]
    /\ xmit' = [s \in Sender |->
            IF s \in Woken(r) THEN [xmit[s] EXCEPT !.pc = "woken"] ELSE xmit[s]]
    /\ Post(Write("cqArm", r, 0))
    /\ handler' = [pc |-> "scan", ring |-> None, ptr |-> handler.ptr + 1]
    /\ UNCHANGED <<calls, txProd, txInfo, poolVars, cqCons, eqCons, failed, nicVars>>

(* After it, the consumer pointer of the ring is that of the CQ. *)
LEMMA AdvanceStep ==
    ASSUME IInv, AdvanceRing
    PROVE  \E r \in Ring : Advances(r)
<1>1. handler.ring \in Ring
  BY DEF AdvanceRing, IInv, Typing
<1>2. Advanced(handler.ring) = cqCons[handler.ring]
  BY <1>1, CatchesUp
<1> QED  BY <1>1, <1>2 DEF AdvanceRing, Advances

(* Every step of the system, with what it does to the driver spelled out.  *)
SenderStep ==
    \/ \E s \in Sender, r \in Ring : Transmits(s, r) \/ Waits(s, r)
    \/ \E s \in Sender : FinishPublish(s)
HandlerStep ==
    \/ TakeInterrupt \/ FinishEq \/ ArmEq
    \/ \E r \in Ring : Completes(r) \/ Advances(r)
NicStep ==
    \/ DeliverWrite \/ WriteEvent \/ CommitEvent
    \/ \E r \in Ring : ServeBell(r) \/ CommitCompletion(r)

(* Under the invariant there are no other steps. *)
LEMMA Steps ==
    ASSUME IInv, [Next]_vars
    PROVE  SenderStep \/ HandlerStep \/ NicStep \/ UNCHANGED vars
<1>1. ASSUME NEW s \in Sender, NEW q \in Ring, StartXmit(s, q) \/ ResumeXmit(s)
      PROVE  SenderStep
  <2>1. \E r \in Ring : Transmits(s, r) \/ Waits(s, r)
    BY <1>1, SenderSteps DEF IInv
  <2> QED  BY <2>1 DEF SenderStep
<1>2. ASSUME NEW s \in Sender, ResumeXmit(s)
      PROVE  SenderStep
  <2>1. xmit[s].ring \in Ring
    BY <1>2 DEF ResumeXmit, IInv, Typing
  <2> QED  BY <1>1, <1>2, <2>1
<1>3. ASSUME Handler PROVE HandlerStep
  BY <1>3, ScanStep, AdvanceStep DEF Handler, HandlerStep
<1>4. ASSUME Nic PROVE NicStep
  BY <1>4 DEF Nic, NicStep
<1>5. ASSUME NEW s \in Sender, FinishPublish(s) PROVE SenderStep
  BY <1>5 DEF SenderStep
<1> QED  BY <1>1, <1>2, <1>3, <1>4, <1>5 DEF Next

-----------------------------------------------------------------------------
(* Posted register writes.                                                 *)

(* A posted write goes to the end. *)
LEMMA PostTyped ==
    ASSUME posted \in Seq(RegWrite), NEW w \in RegWrite, Post(w)
    PROVE  /\ posted' \in Seq(RegWrite) /\ Len(posted') <= PostedDepth
           /\ Len(posted') = Len(posted) + 1
           /\ DOMAIN posted = 1 .. Len(posted)
           /\ DOMAIN posted' = 1 .. Len(posted) + 1
           /\ \A i \in 1 .. Len(posted) : posted'[i] = posted[i]
           /\ posted'[Len(posted) + 1] = w
<1>1. posted' = Append(posted, w) /\ Len(posted) < PostedDepth
  BY DEF Post, CanPost
<1>2. Len(posted) \in Nat /\ PostedDepth \in Nat
  BY BoundAssumption
<1> QED  BY <1>1, <1>2

(* The oldest write arrives, the others move up. *)
LEMMA ArriveTyped ==
    ASSUME posted \in Seq(RegWrite), Len(posted) <= PostedDepth, DeliverWrite
    PROVE  /\ posted' \in Seq(RegWrite) /\ Len(posted') <= PostedDepth
           /\ Head(posted) \in RegWrite /\ Head(posted) = posted[1]
           /\ Len(posted) = Len(posted') + 1
           /\ DOMAIN posted = 1 .. Len(posted') + 1
           /\ DOMAIN posted' = 1 .. Len(posted')
           /\ \A i \in 1 .. Len(posted') : posted'[i] = posted[i + 1]
<1>1. posted # <<>> /\ posted' = Tail(posted)
  BY DEF DeliverWrite
<1>2. PostedDepth \in Nat
  BY BoundAssumption
<1> QED  BY <1>1, <1>2

(* The register writes of the driver. *)
LEMMA WritesTyped ==
    /\ \A r \in Ring, v \in Nat : Write("prod", r, v) \in RegWrite /\ Write("cqCons", r, v) \in RegWrite
    /\ \A r \in Ring : Write("bell", r, 0) \in RegWrite /\ Write("cqArm", r, 0) \in RegWrite
    /\ \A v \in Nat : Write("eqCons", None, v) \in RegWrite /\ Write("eqArm", None, v) \in RegWrite
BY DEF Write, RegWrite

(* Both writes of a publication, whichever comes first.                    *)
LEMMA PublicationTyped ==
    ASSUME NEW r \in Ring, NEW v \in Nat, NEW k \in {1, 2}
    PROVE  /\ Publication(r, v)[k] \in RegWrite
           /\ Publication(r, v)[k] \in {Write("prod", r, v), Write("bell", r, 0)}
BY WritesTyped DEF Publication, PointerThenBell, BellThenPointer

-----------------------------------------------------------------------------
(* The type invariant.                                                     *)

(* What the hardware and the driver share, as far as a step leaves it.     *)
LEMMA TypingParts ==
    ASSUME SenderTypes', SlotTypes', HandlerTypes', BufferTypes', NicTypes',
           allocated' \in Nat, posted' \in Seq(RegWrite),
           \A s \in Sender : xmit'[s].pc # "idle" => xmit'[s].ring \in Ring,
           handler'.pc = "advance" => handler'.ring \in Ring
    PROVE  Typing'
BY TypeGroups DEF Typing, TypeOK, SenderTypes, SlotTypes, HandlerTypes, BufferTypes, NicTypes,
       NicTxType, NicQueueType

(* alloc_pkt returns a buffer, old or new. *)
LEMMA AllocIsBuffer ==
    ASSUME IInv, NEW s \in Sender, NEW r \in Ring, Transmits(s, r)
    PROVE  /\ allocated' \in Nat /\ Buffers \subseteq Buffers'
           /\ AllocPkt \in Buffers' /\ AllocPkt # None
           /\ freePackets' \in Seq(Buffers')
<1>1. allocated \in Nat /\ freePackets \in Seq(Buffers)
  BY DEF IInv, Typing, TypeOK
<1>2. ASSUME freePackets # <<>>
      PROVE  allocated' \in Nat /\ Buffers \subseteq Buffers' /\ AllocPkt \in Buffers'
             /\ freePackets' \in Seq(Buffers')
  <2>1. Head(freePackets) \in Buffers /\ Tail(freePackets) \in Seq(Buffers)
    BY <1>1, <1>2
  <2>2. allocated' = allocated /\ freePackets' = Tail(freePackets) /\ AllocPkt = Head(freePackets)
    BY <1>2 DEF Transmits, TxTransmit, AllocPkt
  <2> QED  BY <1>1, <2>1, <2>2 DEF Buffers
<1>3. ASSUME freePackets = <<>>
      PROVE  allocated' \in Nat /\ Buffers \subseteq Buffers' /\ AllocPkt \in Buffers'
             /\ freePackets' \in Seq(Buffers')
  <2>1. allocated' = allocated + 1 /\ freePackets' = freePackets /\ AllocPkt = allocated + 1
    BY <1>3 DEF Transmits, TxTransmit, AllocPkt
  <2> QED  BY <1>1, <1>3, <2>1 DEF Buffers
<1>4. allocated' \in Nat /\ Buffers \subseteq Buffers' /\ AllocPkt \in Buffers'
      /\ freePackets' \in Seq(Buffers')
  BY <1>2, <1>3
<1>5. AllocPkt \in Nat
  BY <1>4 DEF Buffers
<1> QED  BY <1>4, <1>5, NoneAssumption

(* Sending keeps the types: a slot gets a buffer. *)
LEMMA TypingTransmits ==
    ASSUME IInv, NEW s \in Sender, NEW r \in Ring, Transmits(s, r)
    PROVE  Typing'
<1>1. Typing /\ SenderTypes /\ SlotTypes /\ HandlerTypes /\ BufferTypes /\ NicTypes
  BY TypeGroups DEF IInv, Typing
<1>2. allocated \in Nat /\ posted \in Seq(RegWrite)
  BY <1>1 DEF Typing
<1>3. allocated' \in Nat /\ Buffers \subseteq Buffers' /\ AllocPkt \in Buffers'
      /\ freePackets' \in Seq(Buffers')
  BY AllocIsBuffer
<1>4. SenderTypes'
  BY <1>1 DEF SenderTypes, Transmits, TxTransmit
<1>5. SlotTypes'
  <2>1. txProd' \in [Ring -> Nat] /\ txCons' \in [Ring -> Nat]
    BY <1>1 DEF SlotTypes, Transmits, TxTransmit
  <2>2. txInfo' \in [Ring -> [0 .. TxSize - 1 -> Buffers' \union {None}]]
    <3>1. txInfo' = [txInfo EXCEPT ![r][TxSlot(txProd[r])] = AllocPkt]
      BY DEF Transmits, TxTransmit
    <3>2. txInfo \in [Ring -> [0 .. TxSize - 1 -> Buffers' \union {None}]]
      BY <1>1, <1>3 DEF SlotTypes
    <3> QED  BY <1>3, <3>1, <3>2
  <2>3. failed' \in BOOLEAN
    BY <1>1 DEF SlotTypes, Transmits, TxTransmit
  <2> QED  BY <1>3, <2>1, <2>2, <2>3 DEF SlotTypes
<1>6. HandlerTypes' /\ BufferTypes'
  BY <1>1 DEF HandlerTypes, BufferTypes, Transmits, nicVars
<1>7. posted' \in Seq(RegWrite) /\ Len(posted') <= PostedDepth
  <2>1. txProd[r] + 1 \in Nat
    BY <1>1, RingNumbers
  <2>2. Publication(r, txProd[r] + 1)[1] \in RegWrite
    BY <2>1, PublicationTyped
  <2> QED  BY <1>2, <2>2, PostTyped DEF Transmits, TxTransmit
<1>8. NicTypes'
  BY <1>1, <1>7 DEF NicTypes, Transmits, nicVars
<1>9. \A t \in Sender : xmit'[t].pc # "idle" => xmit'[t].ring \in Ring
  BY <1>1 DEF Typing, SenderTypes, Transmits, TxTransmit
<1>10. handler'.pc = "advance" => handler'.ring \in Ring
  BY <1>1 DEF Typing, Transmits
<1> QED  BY <1>3, <1>4, <1>5, <1>6, <1>7, <1>8, <1>9, <1>10, TypingParts

(* So do all steps of start_xmit. *)
LEMMA TypingSender ==
    ASSUME IInv, SenderStep
    PROVE  Typing'
<1>1. Typing /\ SenderTypes /\ SlotTypes /\ HandlerTypes /\ BufferTypes /\ NicTypes
  BY TypeGroups DEF IInv, Typing
<1>2. allocated \in Nat /\ posted \in Seq(RegWrite)
  BY <1>1 DEF Typing
<1>3. ASSUME NEW s \in Sender, NEW r \in Ring, Waits(s, r)
      PROVE  Typing'
  <2>1. SenderTypes'
    BY <1>1, <1>3 DEF SenderTypes, Waits, WaitForSpace
  <2>2. SlotTypes' /\ HandlerTypes' /\ BufferTypes'
    BY <1>1, <1>3 DEF SlotTypes, HandlerTypes, BufferTypes, Buffers, Waits, WaitForSpace,
                      poolVars, nicVars
  <2>3. NicTypes' /\ allocated' \in Nat /\ posted' \in Seq(RegWrite)
    BY <1>1, <1>2, <1>3 DEF NicTypes, Waits, WaitForSpace, poolVars, nicVars
  <2>4. \A t \in Sender : xmit'[t].pc # "idle" => xmit'[t].ring \in Ring
    BY <1>1, <1>3 DEF Typing, SenderTypes, Waits, WaitForSpace
  <2>5. handler'.pc = "advance" => handler'.ring \in Ring
    BY <1>1, <1>3 DEF Typing, Waits
  <2> QED  BY <2>1, <2>2, <2>3, <2>4, <2>5, TypingParts
<1>4. ASSUME NEW s \in Sender, FinishPublish(s)
      PROVE  Typing'
  <2>1. SenderTypes'
    BY <1>1, <1>4 DEF SenderTypes, FinishPublish, ringVars
  <2>2. SlotTypes' /\ HandlerTypes' /\ BufferTypes' /\ allocated' \in Nat
    BY <1>1, <1>2, <1>4 DEF SlotTypes, HandlerTypes, BufferTypes, Buffers, FinishPublish,
                            ringVars, poolVars, nicVars
  <2>3. xmit[s].ring \in Ring
    BY <1>1, <1>4 DEF Typing, FinishPublish
  <2>4. Publication(xmit[s].ring, txProd[xmit[s].ring])[2] \in RegWrite
    BY <1>1, <2>3, RingNumbers, PublicationTyped
  <2>5. posted' \in Seq(RegWrite) /\ Len(posted') <= PostedDepth
    BY <1>2, <1>4, <2>4, PostTyped DEF FinishPublish
  <2>6. NicTypes'
    BY <1>1, <1>4, <2>5 DEF NicTypes, FinishPublish, nicVars
  <2>7. \A t \in Sender : xmit'[t].pc # "idle" => xmit'[t].ring \in Ring
    BY <1>1, <1>4 DEF Typing, SenderTypes, FinishPublish
  <2>8. handler'.pc = "advance" => handler'.ring \in Ring
    BY <1>1, <1>4 DEF Typing, FinishPublish
  <2> QED  BY <2>1, <2>2, <2>5, <2>6, <2>7, <2>8, TypingParts
<1> QED  BY <1>3, <1>4, TypingTransmits DEF SenderStep

(* Completing gives buffers back and empties their slots. *)
LEMMA TypingCompletes ==
    ASSUME IInv, NEW r \in Ring, Completes(r)
    PROVE  Typing'
<1>1. Typing /\ SenderTypes /\ SlotTypes /\ HandlerTypes /\ BufferTypes /\ NicTypes
  BY TypeGroups DEF IInv, Typing
<1>2. allocated \in Nat /\ posted \in Seq(RegWrite) /\ nicCq[r].written \in Nat
      /\ cqCons[r] \in Nat
  BY <1>1, RingNumbers DEF Typing
<1>3. SenderTypes' /\ allocated' \in Nat
  BY <1>1, <1>2 DEF SenderTypes, Completes
<1>4. SlotTypes'
  <2> DEFINE freed == [j \in 1 .. nicCq[r].written - cqCons[r] |->
                          txInfo[r][TxSlot(cqCons[r] + j - 1)]]
  <2>1. freed \in Seq(Buffers)
    <3>1. \A j \in 1 .. nicCq[r].written - cqCons[r] :
            cqCons[r] + j - 1 \in cqCons[r] .. nicCq[r].written - 1
      BY <1>2
    <3>2. \A j \in 1 .. nicCq[r].written - cqCons[r] : freed[j] \in Buffers
      BY <3>1, SentSlots
    <3>3. nicCq[r].written - cqCons[r] \in Nat
      BY <1>2 DEF IInv, PointersInOrder, PointersOf
    <3> QED  BY <3>2, <3>3
  <2>2. freePackets' \in Seq(Buffers)
    BY <1>1, <2>1 DEF SlotTypes, Completes
  <2>3. txInfo' \in [Ring -> [0 .. TxSize - 1 -> Buffers \union {None}]]
    <3> DEFINE f == [i \in 0 .. TxSize - 1 |->
                        IF \E p \in cqCons[r] .. nicCq[r].written - 1 : i = TxSlot(p)
                        THEN None ELSE txInfo[r][i]]
    <3>1. txInfo[r] \in [0 .. TxSize - 1 -> Buffers \union {None}]
      BY <1>1 DEF SlotTypes
    <3>2. f \in [0 .. TxSize - 1 -> Buffers \union {None}]
      BY <3>1
    <3>3. txInfo' = [txInfo EXCEPT ![r] = f]
      BY DEF Completes
    <3> HIDE DEF f
    <3> QED  BY <1>1, <3>2, <3>3 DEF SlotTypes
  <2> QED  BY <1>1, <2>2, <2>3 DEF SlotTypes, Buffers, Completes
<1>5. HandlerTypes' /\ BufferTypes'
  BY <1>1, <1>2 DEF HandlerTypes, BufferTypes, Completes, nicVars
<1>6. posted' \in Seq(RegWrite) /\ Len(posted') <= PostedDepth
  BY <1>2, WritesTyped, PostTyped DEF Completes
<1>7. NicTypes'
  BY <1>1, <1>6 DEF NicTypes, Completes, nicVars
<1>8. \A t \in Sender : xmit'[t].pc # "idle" => xmit'[t].ring \in Ring
  BY <1>1 DEF Typing, Completes
<1>9. handler'.pc = "advance" => handler'.ring \in Ring
  BY <1>1 DEF HandlerTypes, Completes
<1> QED  BY <1>3, <1>4, <1>5, <1>6, <1>7, <1>8, <1>9, TypingParts

(* So do all steps of the interrupt handler. *)
LEMMA TypingHandler ==
    ASSUME IInv, HandlerStep
    PROVE  Typing'
<1>1. Typing /\ SenderTypes /\ SlotTypes /\ HandlerTypes /\ BufferTypes /\ NicTypes
  BY TypeGroups DEF IInv, Typing
<1>2. allocated \in Nat /\ posted \in Seq(RegWrite)
  BY <1>1 DEF Typing
<1>3. ASSUME NEW r \in Ring, Advances(r)
      PROVE  Typing'
  <2>1. SenderTypes'
    <3>1. \A t \in Sender : [xmit[t] EXCEPT !.pc = "woken"]
            \in [pc : {"idle", "publish", "wait", "woken"}, ring : Ring \union {None}]
      BY <1>1 DEF SenderTypes
    <3> QED  BY <1>1, <1>3, <3>1 DEF SenderTypes, Advances
  <2>2. SlotTypes' /\ BufferTypes' /\ allocated' \in Nat
    BY <1>1, <1>2, <1>3, RingNumbers DEF SlotTypes, BufferTypes, Buffers, Advances, poolVars, nicVars
  <2>3. HandlerTypes'
    BY <1>1, <1>3 DEF HandlerTypes, Advances, nicVars
  <2>4. posted' \in Seq(RegWrite) /\ Len(posted') <= PostedDepth
    BY <1>2, <1>3, WritesTyped, PostTyped DEF Advances
  <2>5. NicTypes'
    BY <1>1, <1>3, <2>4 DEF NicTypes, Advances, nicVars
  <2>6. \A t \in Sender : xmit'[t].pc # "idle" => xmit'[t].ring \in Ring
    BY <1>1, <1>3 DEF Typing, SenderTypes, Advances, Woken
  <2>7. handler'.pc = "advance" => handler'.ring \in Ring
    BY <1>3 DEF Advances
  <2> QED  BY <2>1, <2>2, <2>3, <2>4, <2>5, <2>6, <2>7, TypingParts
<1>4. CASE TakeInterrupt
  <2>1. SenderTypes' /\ SlotTypes' /\ BufferTypes' /\ allocated' \in Nat
    BY <1>1, <1>2, <1>4 DEF SenderTypes, SlotTypes, BufferTypes, Buffers, TakeInterrupt,
                            ringVars, poolVars
  <2>2. HandlerTypes'
    <3>1. handler' = [pc |-> "scan", ring |-> handler.ring, ptr |-> eqCons]
      BY <1>1, <1>4 DEF HandlerTypes, TakeInterrupt
    <3>2. irqQueue' \in Nat
      BY <1>1, <1>4 DEF HandlerTypes, TakeInterrupt
    <3> QED  BY <1>1, <1>4, <3>1, <3>2 DEF HandlerTypes, TakeInterrupt
  <2>3. NicTypes' /\ posted' \in Seq(RegWrite)
    BY <1>1, <1>2, <1>4 DEF NicTypes, TakeInterrupt
  <2>4. \A t \in Sender : xmit'[t].pc # "idle" => xmit'[t].ring \in Ring
    BY <1>1, <1>4 DEF Typing, TakeInterrupt
  <2>5. handler'.pc = "advance" => handler'.ring \in Ring
    BY <1>1, <1>4 DEF HandlerTypes, TakeInterrupt
  <2> QED  BY <2>1, <2>2, <2>3, <2>4, <2>5, TypingParts
<1>5. CASE FinishEq \/ ArmEq
  <2>1. SenderTypes' /\ SlotTypes' /\ BufferTypes' /\ allocated' \in Nat
    BY <1>1, <1>2, <1>5 DEF SenderTypes, SlotTypes, BufferTypes, Buffers, FinishEq, ArmEq,
                            ringVars, poolVars, nicVars
  <2>2. HandlerTypes'
    BY <1>1, <1>5 DEF HandlerTypes, FinishEq, ArmEq, nicVars
  <2>3. posted' \in Seq(RegWrite) /\ Len(posted') <= PostedDepth
    <3>1. handler.ptr \in Nat
      BY <1>1 DEF HandlerTypes
    <3>2. Post(Write("eqCons", None, handler.ptr)) \/ Post(Write("eqArm", None, 0))
      BY <1>5 DEF FinishEq, ArmEq
    <3> QED  BY <1>2, <3>1, <3>2, WritesTyped, PostTyped
  <2>4. NicTypes'
    BY <1>1, <1>5, <2>3 DEF NicTypes, FinishEq, ArmEq, nicVars
  <2>5. \A t \in Sender : xmit'[t].pc # "idle" => xmit'[t].ring \in Ring
    BY <1>1, <1>5 DEF Typing, FinishEq, ArmEq
  <2>6. handler'.pc = "advance" => handler'.ring \in Ring
    BY <1>1, <1>5 DEF HandlerTypes, FinishEq, ArmEq
  <2> QED  BY <2>1, <2>2, <2>3, <2>4, <2>5, <2>6, TypingParts
<1> QED  BY <1>3, <1>4, <1>5, TypingCompletes DEF HandlerStep

(* Nothing the hardware does touches what the driver keeps.                *)
LEMMA NicLeavesDriver ==
    ASSUME NicStep
    PROVE  UNCHANGED driverVars /\ (~DeliverWrite => UNCHANGED posted)
BY DEF NicStep, DeliverWrite, WriteEvent, CommitEvent, ServeBell, CommitCompletion

(* The registers of a ring and of a queue stay records of numbers.         *)
LEMMA Update ==
    ASSUME NEW A, NEW B, NEW f \in [A -> B], NEW x \in A, NEW y \in B
    PROVE  [f EXCEPT ![x] = y] \in [A -> B]
OBVIOUS

(* The same for the registers of a ring. *)
LEMMA TxUpdates ==
    ASSUME NEW q \in NicTxType, NEW v \in Nat, NEW u \in Nat
    PROVE  /\ [q EXCEPT !.prod = v] \in NicTxType
           /\ [q EXCEPT !.bells = v] \in NicTxType
           /\ [q EXCEPT !.bells = v, !.sent = u] \in NicTxType
BY DEF NicTxType

(* The same for the registers of a queue. *)
LEMMA QueueUpdates ==
    ASSUME NEW q \in NicQueueType, NEW v \in Nat, NEW b \in BOOLEAN
    PROVE  /\ [q EXCEPT !.cons = v] \in NicQueueType
           /\ [q EXCEPT !.written = v] \in NicQueueType
           /\ [q EXCEPT !.armed = b] \in NicQueueType
           /\ [q EXCEPT !.prod = v, !.armed = b] \in NicQueueType
BY DEF NicQueueType

(* The steps of the hardware keep the types. *)
LEMMA TypingNic ==
    ASSUME IInv, NicStep
    PROVE  Typing'
<1>1. Typing /\ SenderTypes /\ SlotTypes /\ HandlerTypes /\ BufferTypes /\ NicTypes
  BY TypeGroups DEF IInv, Typing
<1>2. allocated \in Nat /\ posted \in Seq(RegWrite) /\ Len(posted) <= PostedDepth
  BY <1>1 DEF Typing, NicTypes
<1>3. UNCHANGED driverVars
  BY NicLeavesDriver
<1>4. SenderTypes' /\ SlotTypes' /\ allocated' \in Nat
      /\ (\A t \in Sender : xmit'[t].pc # "idle" => xmit'[t].ring \in Ring)
      /\ (handler'.pc = "advance" => handler'.ring \in Ring)
  BY <1>1, <1>2, <1>3 DEF SenderTypes, SlotTypes, Buffers, Typing, driverVars, ringVars, poolVars
<1>5. posted' \in Seq(RegWrite) /\ Len(posted') <= PostedDepth
  <2>1. CASE DeliverWrite
    BY <1>2, <2>1, ArriveTyped
  <2>2. CASE ~DeliverWrite
    BY <1>2, <2>2, NicLeavesDriver
  <2> QED  BY <2>1, <2>2
<1>6. HandlerTypes' <=> irqQueue' \in Nat
  BY <1>1, <1>3 DEF HandlerTypes, driverVars
<1>7. CASE DeliverWrite
  <2> DEFINE w == Head(posted)
             r == w.ring
  <2>1. w \in RegWrite
    BY <1>2, <1>7, ArriveTyped
  <2>2. BufferTypes'
    BY <1>1, <1>7 DEF BufferTypes, DeliverWrite
  <2>3. DeliverTx(w) \/ DeliverCq(w) \/ DeliverEq(w)
    BY <1>7 DEF DeliverWrite
  <2> HIDE DEF w
  <2>4. w.val \in Nat /\ (w.reg \in {"prod", "bell", "cqCons", "cqArm"} => w.ring \in Ring)
    BY <2>1 DEF RegWrite
  <2>5. CASE DeliverTx(w)
    <3>1. r \in Ring
      BY <2>4, <2>5 DEF DeliverTx
    <3>2. nicTx[r] \in NicTxType /\ nicTx[r].bells + 1 \in Nat
      BY <1>1, <3>1 DEF NicTypes, NicTxType
    <3>3. \/ nicTx' = [nicTx EXCEPT ![r] = [nicTx[r] EXCEPT !.prod = w.val]]
          \/ nicTx' = [nicTx EXCEPT ![r] = [nicTx[r] EXCEPT !.bells = nicTx[r].bells + 1]]
          \/ nicTx' = nicTx
      BY <2>5 DEF DeliverTx
    <3>4. /\ [nicTx[r] EXCEPT !.prod = w.val] \in NicTxType
          /\ [nicTx[r] EXCEPT !.bells = nicTx[r].bells + 1] \in NicTxType
      BY <2>4, <3>2, TxUpdates
    <3>5. nicTx' \in [Ring -> NicTxType]
      BY <1>1, <3>1, <3>3, <3>4, Update DEF NicTypes
    <3> QED  BY <1>1, <1>4, <1>5, <1>6, <2>2, <2>5, <3>5, TypingParts
             DEF NicTypes, HandlerTypes, DeliverTx
  <2>6. CASE DeliverCq(w)
    <3>1. r \in Ring
      BY <2>4, <2>6 DEF DeliverCq
    <3>2. nicCq[r] \in NicQueueType /\ ArmRaises(nicCq[r]) \in BOOLEAN
      BY <1>1, <3>1 DEF NicTypes, ArmRaises
    <3>3. \/ nicCq' = [nicCq EXCEPT ![r] = [nicCq[r] EXCEPT !.cons = w.val]]
          \/ nicCq' = [nicCq EXCEPT ![r] = [nicCq[r] EXCEPT !.armed = ~ArmRaises(nicCq[r])]]
      BY <2>6 DEF DeliverCq
    <3>4. /\ [nicCq[r] EXCEPT !.cons = w.val] \in NicQueueType
          /\ [nicCq[r] EXCEPT !.armed = ~ArmRaises(nicCq[r])] \in NicQueueType
      BY <2>4, <3>2, QueueUpdates
    <3>5. nicCq' \in [Ring -> NicQueueType]
      BY <1>1, <3>1, <3>3, <3>4, Update DEF NicTypes
    <3>6. events' \in Seq(Ring)
      <4>1. events' = events \/ events' = Append(events, r)
        BY <2>6 DEF DeliverCq
      <4> HIDE DEF r
      <4> QED  BY <1>1, <3>1, <4>1 DEF NicTypes
    <3> QED  BY <1>1, <1>4, <1>5, <1>6, <2>2, <2>6, <3>5, <3>6, TypingParts
             DEF NicTypes, HandlerTypes, DeliverCq
  <2>7. CASE DeliverEq(w)
    <3>1. nicEq' \in NicQueueType
      <4>1. nicEq \in NicQueueType /\ ArmRaises(nicEq) \in BOOLEAN
        BY <1>1 DEF NicTypes, ArmRaises
      <4>2. /\ [nicEq EXCEPT !.cons = w.val] \in NicQueueType
            /\ [nicEq EXCEPT !.armed = ~ArmRaises(nicEq)] \in NicQueueType
        BY <2>4, <4>1, QueueUpdates
      <4> QED  BY <2>7, <4>2 DEF DeliverEq
    <3>2. irqQueue' \in Nat
      BY <1>1, <2>7 DEF HandlerTypes, DeliverEq
    <3> QED  BY <1>1, <1>4, <1>5, <1>6, <2>2, <2>7, <3>1, <3>2, TypingParts
             DEF NicTypes, DeliverEq
  <2> QED  BY <2>3, <2>5, <2>6, <2>7
<1>8. ASSUME NEW r \in Ring, ServeBell(r)
      PROVE  Typing'
  <2>1. nicTx' \in [Ring -> NicTxType]
    <3>1. \/ nicTx' = [nicTx EXCEPT ![r] = [nicTx[r] EXCEPT !.bells = nicTx[r].bells - 1,
                                                           !.sent = nicTx[r].sent + 1]]
          \/ nicTx' = [nicTx EXCEPT ![r] = [nicTx[r] EXCEPT !.bells = nicTx[r].bells - 1,
                                                           !.sent = nicTx[r].sent]]
      BY <1>8 DEF ServeBell
    <3>2. nicTx[r] \in NicTxType /\ nicTx[r].bells - 1 \in Nat
          /\ nicTx[r].sent \in Nat /\ nicTx[r].sent + 1 \in Nat
      BY <1>1, <1>8 DEF NicTypes, NicTxType, ServeBell
    <3>3. /\ [nicTx[r] EXCEPT !.bells = nicTx[r].bells - 1, !.sent = nicTx[r].sent + 1] \in NicTxType
          /\ [nicTx[r] EXCEPT !.bells = nicTx[r].bells - 1, !.sent = nicTx[r].sent] \in NicTxType
      BY <3>2, TxUpdates
    <3> QED  BY <1>1, <3>1, <3>3, Update DEF NicTypes
  <2>2. nicCq' \in [Ring -> NicQueueType]
    <3>1. \/ nicCq' = [nicCq EXCEPT ![r] = [nicCq[r] EXCEPT !.written = nicCq[r].written + 1]]
          \/ nicCq' = nicCq
      BY <1>8 DEF ServeBell
    <3>2. nicCq[r] \in NicQueueType /\ nicCq[r].written + 1 \in Nat
      BY <1>1 DEF NicTypes, NicQueueType
    <3>3. [nicCq[r] EXCEPT !.written = nicCq[r].written + 1] \in NicQueueType
      BY <3>2, QueueUpdates
    <3> QED  BY <1>1, <3>1, <3>3, Update DEF NicTypes
  <2>3. BufferTypes'
    <3> DEFINE rec == [index |-> nicTx[r].sent, phase |-> PhaseOf(nicCq[r].written, CqSize)]
    <3>1. rec \in [index : Nat, phase : BOOLEAN]
      BY <1>1, RingNumbers DEF PhaseOf, Round
    <3>2. \/ cqBuf' = [cqBuf EXCEPT ![r] = [cqBuf[r] EXCEPT ![CqSlot(nicCq[r].written)] = rec]]
          \/ cqBuf' = cqBuf
      BY <1>8 DEF ServeBell
    <3> HIDE DEF rec
    <3>3. cqBuf' \in [Ring -> [0 .. CqSize - 1 -> [index : Nat, phase : BOOLEAN]]]
      <4>1. cqBuf[r] \in [0 .. CqSize - 1 -> [index : Nat, phase : BOOLEAN]]
        BY <1>1, RingTypes
      <4>2. CqSlot(nicCq[r].written) \in 0 .. CqSize - 1
        BY <1>1, RingNumbers, Sizes, DivMod DEF CqSlot
      <4>3. [cqBuf[r] EXCEPT ![CqSlot(nicCq[r].written)] = rec]
              \in [0 .. CqSize - 1 -> [index : Nat, phase : BOOLEAN]]
        BY <3>1, <4>1, <4>2, Update
      <4> QED  BY <1>1, <3>2, <4>3, Update DEF BufferTypes
    <3> QED  BY <1>1, <1>8, <3>3 DEF BufferTypes, ServeBell
  <2> QED  BY <1>1, <1>4, <1>5, <1>6, <1>8, <2>1, <2>2, <2>3, TypingParts
           DEF NicTypes, HandlerTypes, ServeBell
<1>9. ASSUME NEW r \in Ring, CommitCompletion(r)
      PROVE  Typing'
  <2>1. nicCq' \in [Ring -> NicQueueType]
    <3>1. nicCq' = [nicCq EXCEPT ![r] = [nicCq[r] EXCEPT !.prod = nicCq[r].prod + 1,
                                                         !.armed = FALSE]]
      BY <1>9 DEF CommitCompletion
    <3>2. nicCq[r] \in NicQueueType /\ nicCq[r].prod + 1 \in Nat
      BY <1>1 DEF NicTypes, NicQueueType
    <3>3. [nicCq[r] EXCEPT !.prod = nicCq[r].prod + 1, !.armed = FALSE] \in NicQueueType
      BY <3>2, QueueUpdates
    <3> QED  BY <1>1, <3>1, <3>3, Update DEF NicTypes
  <2>2. events' \in Seq(Ring)
    BY <1>1, <1>9 DEF NicTypes, CommitCompletion
  <2> QED  BY <1>1, <1>4, <1>5, <1>6, <1>9, <2>1, <2>2, TypingParts
           DEF NicTypes, HandlerTypes, BufferTypes, CommitCompletion
<1>10. CASE WriteEvent
  <2>1. nicEq' \in NicQueueType
    <3>1. nicEq \in NicQueueType /\ nicEq.written + 1 \in Nat
      BY <1>1 DEF NicTypes, NicQueueType
    <3>2. [nicEq EXCEPT !.written = nicEq.written + 1] \in NicQueueType
      BY <3>1, QueueUpdates
    <3> QED  BY <1>10, <3>1, <3>2 DEF WriteEvent
  <2>2. events' \in Seq(Ring) /\ Head(events) \in Ring
    BY <1>1, <1>10 DEF NicTypes, WriteEvent
  <2>3. BufferTypes'
    <3>1. [source |-> Head(events), phase |-> PhaseOf(nicEq.written, EqSize)]
            \in [source : Ring \union {None}, phase : BOOLEAN]
      BY <2>2 DEF PhaseOf, Round
    <3> QED  BY <1>1, <1>10, <3>1 DEF BufferTypes, WriteEvent
  <2> QED  BY <1>1, <1>4, <1>5, <1>6, <1>10, <2>1, <2>2, <2>3, TypingParts
           DEF NicTypes, HandlerTypes, WriteEvent
<1>11. CASE CommitEvent
  <2>1. nicEq' \in NicQueueType
    <3>1. nicEq \in NicQueueType /\ nicEq.prod + 1 \in Nat
      BY <1>1 DEF NicTypes, NicQueueType
    <3>2. [nicEq EXCEPT !.prod = nicEq.prod + 1, !.armed = FALSE] \in NicQueueType
      BY <3>1, QueueUpdates
    <3> QED  BY <1>11, <3>2 DEF CommitEvent
  <2>2. irqQueue' \in Nat
    BY <1>1, <1>11 DEF HandlerTypes, CommitEvent
  <2> QED  BY <1>1, <1>4, <1>5, <1>6, <1>11, <2>1, <2>2, TypingParts
           DEF NicTypes, BufferTypes, CommitEvent
<1> QED  BY <1>7, <1>8, <1>9, <1>10, <1>11 DEF NicStep

(* Every step keeps the types. *)
LEMMA TypingKept ==
    ASSUME IInv, [Next]_vars
    PROVE  Typing'
<1>1. CASE UNCHANGED vars
  BY <1>1 DEF IInv, Typing, TypeOK, Buffers, vars, driverVars, ringVars, poolVars, nicVars
<1> QED  BY <1>1, Steps, TypingSender, TypingHandler, TypingNic

-----------------------------------------------------------------------------
(* Where the pointers of a ring stand.                                     *)

(* Arriving writes and commits move neither what has been sent nor what    *)
(* has been recorded.                                                      *)
LEMMA SentKept ==
    ASSUME IInv, DeliverWrite \/ \E r \in Ring : CommitCompletion(r),
           NEW q \in Ring
    PROVE  nicTx'[q].sent = nicTx[q].sent /\ nicCq'[q].written = nicCq[q].written
<1>1. nicTx \in [Ring -> NicTxType] /\ nicCq \in [Ring -> NicQueueType]
  BY TypeGroups DEF IInv, Typing, NicTypes
<1>2. CASE DeliverWrite
  <2> DEFINE w == Head(posted)
  <2>1. DeliverTx(w) \/ DeliverCq(w) \/ DeliverEq(w)
    BY <1>2 DEF DeliverWrite
  <2> HIDE DEF w
  <2>2. CASE DeliverTx(w)
    <3>1. nicTx'[q].sent = nicTx[q].sent
      BY <1>1, <2>2 DEF DeliverTx, NicTxType
    <3> QED  BY <2>2, <3>1 DEF DeliverTx
  <2>3. CASE DeliverCq(w)
    <3>1. nicCq'[q].written = nicCq[q].written
      <4>1. CASE nicCq' = [nicCq EXCEPT ![w.ring].cons = w.val]
        BY <1>1, <4>1 DEF NicQueueType
      <4>2. ASSUME NEW b, nicCq' = [nicCq EXCEPT ![w.ring].armed = b]
            PROVE  nicCq'[q].written = nicCq[q].written
        BY <1>1, <4>2 DEF NicQueueType
      <4> QED  BY <2>3, <4>1, <4>2 DEF DeliverCq
    <3> QED  BY <2>3, <3>1 DEF DeliverCq
  <2>4. CASE DeliverEq(w)
    BY <2>4 DEF DeliverEq
  <2> QED  BY <2>1, <2>2, <2>3, <2>4
<1>3. ASSUME NEW r \in Ring, CommitCompletion(r)
      PROVE  nicTx'[q].sent = nicTx[q].sent /\ nicCq'[q].written = nicCq[q].written
  BY <1>1, <1>3 DEF CommitCompletion, NicQueueType
<1> QED  BY <1>2, <1>3

(* A doorbell that finds a descriptor also finds room for its completion.  *)
Sends(r) ==
    /\ nicTx[r].sent < nicTx[r].prod
    /\ nicTx'[r].sent = nicTx[r].sent + 1
    /\ nicCq'[r].written = nicCq[r].written + 1
    /\ cqBuf' = [cqBuf EXCEPT ![r] = [cqBuf[r] EXCEPT ![CqSlot(nicCq[r].written)] =
                    [index |-> nicTx[r].sent, phase |-> PhaseOf(nicCq[r].written, CqSize)]]]
    /\ \A q \in Ring : q # r => nicTx'[q].sent = nicTx[q].sent
                             /\ nicCq'[q].written = nicCq[q].written
Wasted ==
    /\ UNCHANGED <<cqBuf, nicCq>>
    /\ \A q \in Ring : nicTx'[q].sent = nicTx[q].sent

(* A doorbell served: a packet leaves and is recorded, or nothing does. *)
LEMMA BellStep ==
    ASSUME IInv, NEW r \in Ring, ServeBell(r)
    PROVE  /\ Sends(r) \/ Wasted
           /\ UNCHANGED <<driverVars, posted, events, nicEq, eqBuf, irqQueue>>
           /\ \A q \in Ring : nicTx'[q].prod = nicTx[q].prod /\ nicCq'[q].cons = nicCq[q].cons
<1>1. nicTx \in [Ring -> NicTxType] /\ nicCq \in [Ring -> NicQueueType]
  BY TypeGroups DEF IInv, Typing, NicTypes
<1>2. \A q \in Ring : nicTx'[q].prod = nicTx[q].prod /\ nicCq'[q].cons = nicCq[q].cons
  BY <1>1 DEF ServeBell, NicTxType, NicQueueType
<1>3. CASE Published(r)
  <2>1. /\ nicTx[r].prod \in Nat /\ nicTx[r].sent \in Nat /\ nicCq[r].written \in Nat
        /\ nicCq[r].cons \in Nat /\ nicCq[r].written = nicTx[r].sent
        /\ nicTx[r].prod <= nicCq[r].cons + FullSize
    BY RingNumbers DEF IInv, PointersInOrder, PointersOf, WritesInOrder, WritesOf, WritesFit
  <2>2. ~QueueFull(nicCq[r], CqSize)
    BY <1>3, <2>1, Sizes DEF QueueFull, Published
  <2>3. nicTx' = [nicTx EXCEPT ![r].bells = @ - 1, ![r].sent = @ + 1]
    BY <1>3 DEF ServeBell
  <2>4. nicCq' = [nicCq EXCEPT ![r].written = @ + 1]
    BY <1>3, <2>2 DEF ServeBell
  <2>5. cqBuf' = [cqBuf EXCEPT ![r] = [cqBuf[r] EXCEPT ![CqSlot(nicCq[r].written)] =
                    [index |-> nicTx[r].sent, phase |-> PhaseOf(nicCq[r].written, CqSize)]]]
    BY <1>3, <2>2 DEF ServeBell
  <2>6. nicTx'[r].sent = nicTx[r].sent + 1 /\ \A q \in Ring : q # r => nicTx'[q].sent = nicTx[q].sent
    BY <1>1, <2>3 DEF NicTxType
  <2>7. nicCq'[r].written = nicCq[r].written + 1
        /\ \A q \in Ring : q # r => nicCq'[q].written = nicCq[q].written
    BY <1>1, <2>4 DEF NicQueueType
  <2>8. Sends(r)
    BY <1>3, <2>5, <2>6, <2>7 DEF Sends, Published
  <2> QED  BY <1>2, <2>8 DEF ServeBell
<1>4. CASE ~Published(r)
  <2>1. nicTx' = [nicTx EXCEPT ![r].bells = @ - 1, ![r].sent = @]
    BY <1>4 DEF ServeBell
  <2>2. \A q \in Ring : nicTx'[q].sent = nicTx[q].sent
    BY <1>1, <2>1 DEF NicTxType
  <2> QED  BY <1>2, <1>4, <2>2 DEF ServeBell, Wasted
<1> QED  BY <1>3, <1>4

(* Every step keeps the pointers of a ring in order. *)
LEMMA PointersKept ==
    ASSUME IInv, [Next]_vars
    PROVE  PointersInOrder'
<1> SUFFICES ASSUME NEW q \in Ring
             PROVE  PointersOf(q)'
  BY DEF PointersInOrder
<1>1. \A r \in Ring :
        /\ txProd[r] \in Nat /\ txCons[r] \in Nat /\ cqCons[r] \in Nat
        /\ nicTx[r].prod \in Nat /\ nicTx[r].sent \in Nat /\ nicCq[r].written \in Nat
  BY RingNumbers DEF IInv
<1>2. \A r \in Ring : PointersOf(r) /\ nicTx[r].prod <= txProd[r]
  BY DEF IInv, PointersInOrder, WritesInOrder, WritesOf, WritesFit
<1>3. txProd \in [Ring -> Nat] /\ txCons \in [Ring -> Nat] /\ cqCons \in [Ring -> Nat]
  BY DEF IInv, Typing, TypeOK
<1>4. ASSUME NEW s \in Sender, NEW r \in Ring, Transmits(s, r)
      PROVE  PointersOf(q)'
  <2>1. txProd' = [txProd EXCEPT ![r] = @ + 1] /\ UNCHANGED <<txCons, cqCons, nicCq, nicTx>>
    BY <1>4 DEF Transmits, TxTransmit, nicVars
  <2>2. txProd[r] - txCons[r] < FullSize
    BY <1>4 DEF Transmits, HasSpace
  <2>3. txProd'[q] = IF q = r THEN txProd[q] + 1 ELSE txProd[q]
    BY <1>3, <2>1
  <2> QED  BY <1>1, <1>2, <2>1, <2>2, <2>3, Sizes DEF PointersOf
<1>5. ASSUME NEW r \in Ring, Completes(r)
      PROVE  PointersOf(q)'
  <2>1. /\ cqCons' = [cqCons EXCEPT ![r] = nicCq[r].written]
        /\ UNCHANGED <<txProd, txCons, nicCq, nicTx>>
    BY <1>5 DEF Completes, nicVars
  <2>2. cqCons'[q] = IF q = r THEN nicCq[q].written ELSE cqCons[q]
    BY <1>3, <2>1
  <2> QED  BY <1>1, <1>2, <2>1, <2>2 DEF PointersOf
<1>6. ASSUME NEW r \in Ring, Advances(r)
      PROVE  PointersOf(q)'
  <2>1. /\ txCons' = [txCons EXCEPT ![r] = cqCons[r]]
        /\ UNCHANGED <<txProd, cqCons, nicCq, nicTx>>
    BY <1>6 DEF Advances, nicVars
  <2>2. txCons'[q] = IF q = r THEN cqCons[q] ELSE txCons[q]
    BY <1>3, <2>1
  <2> QED  BY <1>1, <1>2, <2>1, <2>2, Sizes DEF PointersOf
<1>7. ASSUME NEW r \in Ring, ServeBell(r)
      PROVE  PointersOf(q)'
  <2>1. UNCHANGED <<txProd, txCons, cqCons>>
    BY <1>7, BellStep DEF driverVars, ringVars
  <2>2. Sends(r) \/ Wasted
    BY <1>7, BellStep
  <2>3. CASE Sends(r)
    BY <1>1, <1>2, <2>1, <2>3 DEF Sends, PointersOf
  <2>4. CASE Wasted
    BY <1>1, <1>2, <2>1, <2>4 DEF Wasted, PointersOf
  <2> QED  BY <2>2, <2>3, <2>4
<1>8. CASE DeliverWrite \/ \E r \in Ring : CommitCompletion(r)
  <2>1. UNCHANGED <<txProd, txCons, cqCons>>
    BY <1>8 DEF DeliverWrite, CommitCompletion, driverVars, ringVars
  <2> QED  BY <1>2, <1>8, <2>1, SentKept DEF PointersOf
<1>9. CASE UNCHANGED <<txProd, txCons, cqCons, nicCq, nicTx>>
  BY <1>2, <1>9 DEF PointersOf
<1>10. ASSUME \/ \E s \in Sender, r \in Ring : Waits(s, r)
              \/ \E s \in Sender : FinishPublish(s)
              \/ TakeInterrupt \/ FinishEq \/ ArmEq \/ WriteEvent \/ CommitEvent
              \/ UNCHANGED vars
       PROVE  UNCHANGED <<txProd, txCons, cqCons, nicCq, nicTx>>
  BY <1>10 DEF Waits, WaitForSpace, FinishPublish, TakeInterrupt, FinishEq, ArmEq, WriteEvent,
               CommitEvent, vars, driverVars, ringVars, nicVars
<1> QED  BY <1>4, <1>5, <1>6, <1>7, <1>8, <1>9, <1>10, Steps DEF SenderStep, HandlerStep, NicStep

-----------------------------------------------------------------------------
(* Records and slots.                                                      *)

(* Every step keeps the unread completions exact. *)
LEMMA RecordsKept ==
    ASSUME IInv, [Next]_vars
    PROVE  RecordsExact'
<1> SUFFICES ASSUME NEW q \in Ring
             PROVE  RecordsOf(q)'
  BY DEF RecordsExact
<1> DEFINE c == cqCons[q]
           w == nicCq[q].written
<1>1. /\ c \in Nat /\ w \in Nat /\ c <= w /\ w = nicTx[q].sent /\ Phased(cqBuf[q], CqSize)
      /\ nicTx[q].prod \in Nat /\ nicTx[q].sent \in Nat /\ nicCq[q].cons \in Nat
  BY RingNumbers DEF IInv, PointersInOrder, PointersOf
<1>2. cqCons \in [Ring -> Nat]
  BY DEF IInv, Typing, TypeOK
<1>3. cqBuf[q] \in [0 .. CqSize - 1 -> [index : Nat, phase : BOOLEAN]]
  BY RingTypes DEF IInv
<1>4. Marked(cqBuf[q], CqSize, c, w) /\ \A p \in c .. w - 1 : cqBuf[q][p % CqSize].index = p
  BY DEF IInv, RecordsExact, RecordsOf
<1>5. ASSUME NEW r \in Ring, Completes(r)
      PROVE  RecordsOf(q)'
  <2>1. /\ cqCons' = [cqCons EXCEPT ![r] = nicCq[r].written]
        /\ UNCHANGED <<nicCq, cqBuf>>
    BY <1>5 DEF Completes, nicVars
  <2>2. CASE q = r
    <3>1. cqCons'[q] = w
      BY <1>2, <2>1, <2>2
    <3>2. Marked(cqBuf[q], CqSize, w, w)
      BY <1>1, <1>4, Sizes, MarkedAdvance
    <3> QED  BY <1>1, <2>1, <3>1, <3>2 DEF RecordsOf
  <2>3. CASE q # r
    <3>1. cqCons'[q] = c
      BY <1>2, <2>1, <2>3
    <3> QED  BY <1>4, <2>1, <3>1 DEF RecordsOf
  <2> QED  BY <2>2, <2>3
<1>6. ASSUME NEW r \in Ring, ServeBell(r)
      PROVE  RecordsOf(q)'
  <2>1. UNCHANGED cqCons /\ (Sends(r) \/ Wasted)
    BY <1>6, BellStep DEF driverVars
  <2>2. CASE Wasted
    BY <1>4, <2>1, <2>2 DEF Wasted, RecordsOf
  <2>3. CASE Sends(r) /\ q # r
    <3>1. cqBuf'[q] = cqBuf[q] /\ nicCq'[q].written = w
      BY <2>3 DEF Sends
    <3> QED  BY <1>4, <2>1, <3>1 DEF RecordsOf
  <2>4. CASE Sends(r) /\ q = r
    <3> DEFINE rec == [index |-> nicTx[q].sent, phase |-> PhaseOf(w, CqSize)]
    <3>1. w < c + CqSize
      <4>1. /\ nicTx[q].sent < nicTx[q].prod /\ nicTx[q].prod <= nicCq[q].cons + FullSize
            /\ nicCq[q].cons <= c
        BY <2>4 DEF Sends, IInv, WritesInOrder, WritesOf, WritesFit
      <4> QED  BY <1>1, <4>1, Sizes
    <3>2. cqBuf'[q] = [cqBuf[q] EXCEPT ![w % CqSize] = rec] /\ nicCq'[q].written = w + 1
      <4>1. cqBuf \in [Ring -> [0 .. CqSize - 1 -> [index : Nat, phase : BOOLEAN]]]
        BY DEF IInv, Typing, TypeOK
      <4>2. cqBuf' = [cqBuf EXCEPT ![q] = [cqBuf[q] EXCEPT ![w % CqSize] = rec]]
            /\ nicCq'[q].written = w + 1
        BY <2>4 DEF Sends, CqSlot
      <4> HIDE DEF rec, w
      <4> QED  BY <4>1, <4>2
    <3>3. Marked(cqBuf'[q], CqSize, c, w + 1)
      <4>1. rec.phase = PhaseOf(w, CqSize) /\ DOMAIN cqBuf[q] = 0 .. CqSize - 1
        BY <1>3
      <4> HIDE DEF rec, c, w
      <4>2. /\ CqSize \in Nat \ {0} /\ c \in Nat /\ w \in Nat
            /\ Marked(cqBuf[q], CqSize, c, w)
        BY <1>1, <1>4, Sizes
      <4>3. Marked([cqBuf[q] EXCEPT ![w % CqSize] = rec], CqSize, c, w + 1)
        BY <3>1, <4>1, <4>2, MarkedAppend
      <4> QED  BY <3>2, <4>3
    <3>4. ASSUME NEW p \in c .. w
          PROVE  cqBuf'[q][p % CqSize].index = p
      <4>1. p \in Nat /\ w < p + CqSize
        BY <1>1, <3>1, Sizes
      <4>2. p % CqSize \in 0 .. CqSize - 1 /\ w % CqSize \in 0 .. CqSize - 1
        BY <1>1, <4>1, Sizes, DivMod
      <4>3. CASE p = w
        <5>1. rec.index = w
          BY <1>1
        <5> HIDE DEF rec, w
        <5>2. cqBuf'[q][w % CqSize] = rec
          BY <1>3, <3>2, <4>2
        <5> QED  BY <4>3, <5>1, <5>2
      <4>4. CASE p < w
        <5>1. p % CqSize # w % CqSize
          BY <1>1, <4>1, <4>4, Sizes, ModUnique
        <5>2. cqBuf'[q][p % CqSize] = cqBuf[q][p % CqSize]
          BY <1>3, <3>2, <4>2, <5>1
        <5> QED  BY <1>1, <1>4, <4>4, <5>2
      <4> QED  BY <1>1, <4>3, <4>4
    <3> QED  BY <1>1, <2>1, <3>2, <3>3, <3>4 DEF RecordsOf
  <2> QED  BY <2>1, <2>2, <2>3, <2>4
<1>7. CASE DeliverWrite \/ \E r \in Ring : CommitCompletion(r)
  <2>1. UNCHANGED <<cqCons, cqBuf>>
    BY <1>7 DEF DeliverWrite, CommitCompletion, driverVars
  <2>2. nicCq'[q].written = w
    BY <1>7, SentKept
  <2> QED  BY <1>4, <2>1, <2>2 DEF RecordsOf
<1>8. CASE UNCHANGED <<cqCons, cqBuf, nicCq>>
  BY <1>4, <1>8 DEF RecordsOf
<1>9. ASSUME \/ SenderStep \/ TakeInterrupt \/ FinishEq \/ ArmEq
             \/ \E r \in Ring : Advances(r)
             \/ WriteEvent \/ CommitEvent \/ UNCHANGED vars
      PROVE  UNCHANGED <<cqCons, cqBuf, nicCq>>
  BY <1>9 DEF SenderStep, Transmits, Waits, FinishPublish, TakeInterrupt, FinishEq, ArmEq,
              Advances, WriteEvent, CommitEvent, vars, driverVars, nicVars
<1> QED  BY <1>5, <1>6, <1>7, <1>8, <1>9, Steps DEF HandlerStep, NicStep

(* Every step keeps buffers in exactly the slots of packets not completed. *)
LEMMA SlotsKept ==
    ASSUME IInv, [Next]_vars
    PROVE  SlotsExact'
<1> SUFFICES ASSUME NEW q \in Ring
             PROVE  SlotsOf(q)'
  BY DEF SlotsExact
<1> DEFINE c == cqCons[q]
           P == txProd[q]
           w == nicCq[q].written
           info == txInfo[q]
<1>1. /\ c \in Nat /\ P \in Nat /\ w \in Nat
      /\ c <= w /\ w <= P /\ P <= c + FullSize
  <2>1. txCons[q] \in Nat /\ txProd[q] \in Nat /\ cqCons[q] \in Nat /\ nicCq[q].written \in Nat
    BY RingNumbers DEF IInv
  <2>2. PointersOf(q)
    BY DEF IInv, PointersInOrder
  <2> QED  BY <2>1, <2>2, Sizes DEF PointersOf
<1>2. /\ txProd \in [Ring -> Nat] /\ cqCons \in [Ring -> Nat]
      /\ txInfo \in [Ring -> [0 .. TxSize - 1 -> Buffers \union {None}]]
  BY DEF IInv, Typing, TypeOK
<1>3. /\ \A p \in c .. P - 1 : info[p % TxSize] # None
      /\ \A p \in P .. c + TxSize - 1 : info[p % TxSize] = None
  BY DEF IInv, SlotsExact, SlotsOf
<1>4. \A p \in Nat : p % TxSize \in 0 .. TxSize - 1
  BY Sizes, DivMod
<1>5. ASSUME NEW s \in Sender, NEW r \in Ring, Transmits(s, r)
      PROVE  SlotsOf(q)'
  <2>1. /\ txProd' = [txProd EXCEPT ![r] = @ + 1] /\ UNCHANGED cqCons
        /\ txInfo' = [txInfo EXCEPT ![r] = [txInfo[r] EXCEPT ![TxSlot(txProd[r])] = AllocPkt]]
    BY <1>5 DEF Transmits, TxTransmit
  <2>2. CASE q # r
    <3>1. txProd'[q] = P /\ txInfo'[q] = info
      BY <1>2, <2>1, <2>2
    <3> QED  BY <1>3, <2>1, <3>1 DEF SlotsOf
  <2>3. CASE q = r
    <3>1. txProd'[q] = P + 1
      BY <1>2, <2>1, <2>3
    <3>2. txInfo'[q] = [info EXCEPT ![P % TxSize] = AllocPkt]
      BY <1>2, <2>1, <2>3 DEF TxSlot
    <3>3. AllocPkt # None
      BY <1>5, AllocIsBuffer
    <3>4. P < c + TxSize
      BY <1>1, Sizes
    <3>5. ASSUME NEW p \in c .. c + TxSize - 1, p # P
          PROVE  txInfo'[q][p % TxSize] = info[p % TxSize]
      <4>1. p \in Nat /\ p < P + TxSize /\ P < p + TxSize
        BY <1>1, <3>4, Sizes
      <4>2. p % TxSize # P % TxSize
        <5>1. CASE p < P
          BY <1>1, <4>1, <5>1, Sizes, ModUnique
        <5>2. CASE P < p
          BY <1>1, <4>1, <5>2, Sizes, ModUnique
        <5> QED  BY <1>1, <3>5, <4>1, <5>1, <5>2
      <4> QED  BY <1>2, <1>4, <3>2, <4>1, <4>2
    <3>6. txInfo'[q][P % TxSize] = AllocPkt
      BY <1>1, <1>2, <1>4, <3>2
    <3>7. ASSUME NEW p \in c .. P
          PROVE  txInfo'[q][p % TxSize] # None
      <4>1. CASE p = P
        BY <3>3, <3>6, <4>1
      <4>2. CASE p # P
        <5>1. p \in c .. P - 1 /\ p \in c .. c + TxSize - 1
          BY <1>1, <3>4, <4>2, Sizes
        <5> QED  BY <1>3, <3>5, <4>2, <5>1
      <4> QED  BY <4>1, <4>2
    <3>8. \A p \in P + 1 .. c + TxSize - 1 : txInfo'[q][p % TxSize] = None
      BY <1>1, <1>3, <3>5, Sizes
    <3> QED  BY <1>1, <2>1, <3>1, <3>7, <3>8 DEF SlotsOf
  <2> QED  BY <2>2, <2>3
<1>6. ASSUME NEW r \in Ring, Completes(r)
      PROVE  SlotsOf(q)'
  <2> DEFINE gone(i) == \E k \in c .. w - 1 : i = k % TxSize
  <2>1. UNCHANGED txProd /\ cqCons' = [cqCons EXCEPT ![r] = nicCq[r].written]
    BY <1>6 DEF Completes
  <2>2. txInfo' = [txInfo EXCEPT ![r] = [i \in 0 .. TxSize - 1 |->
                IF \E k \in cqCons[r] .. nicCq[r].written - 1 : i = k % TxSize
                THEN None ELSE txInfo[r][i]]]
    BY <1>6 DEF Completes, TxSlot
  <2>3. CASE q # r
    <3>1. cqCons'[q] = c /\ txInfo'[q] = info
      BY <1>2, <2>1, <2>2, <2>3
    <3> QED  BY <1>3, <2>1, <3>1 DEF SlotsOf
  <2>4. CASE q = r
    <3>1. cqCons'[q] = w
      BY <1>2, <2>1, <2>4
    <3>2. txInfo'[q] = [i \in 0 .. TxSize - 1 |-> IF gone(i) THEN None ELSE info[i]]
      BY <1>2, <2>2, <2>4
    <3> HIDE DEF gone
    <3>3. \A i \in 0 .. TxSize - 1 : txInfo'[q][i] = IF gone(i) THEN None ELSE info[i]
      BY <3>2
    <3>4. ASSUME NEW p \in w .. P - 1
          PROVE  txInfo'[q][p % TxSize] # None
      <4>1. p \in Nat /\ p \in c .. P - 1
        BY <1>1
      <4>2. ASSUME NEW k \in c .. w - 1
            PROVE  p % TxSize # k % TxSize
        <5>1. k \in Nat /\ k < p /\ p < k + TxSize
          BY <1>1, Sizes
        <5> QED  BY <4>1, <5>1, Sizes, ModUnique
      <4>3. ~gone(p % TxSize)
        BY <4>2 DEF gone
      <4> QED  BY <1>3, <1>4, <3>3, <4>1, <4>3
    <3>5. ASSUME NEW p \in P .. w + TxSize - 1
          PROVE  txInfo'[q][p % TxSize] = None
      <4>1. CASE p < c + TxSize
        <5>1. p \in Nat /\ p \in P .. c + TxSize - 1
          BY <1>1, <4>1, Sizes
        <5> QED  BY <1>3, <1>4, <3>3, <5>1
      <4>2. CASE ~(p < c + TxSize)
        <5>1. p - TxSize \in c .. w - 1 /\ p - TxSize \in Nat /\ p = (p - TxSize) + TxSize /\ p \in Nat
          BY <1>1, <4>2, Sizes
        <5>2. p % TxSize = (p - TxSize) % TxSize
          BY <5>1, Sizes, NextRound
        <5>3. gone(p % TxSize)
          BY <5>1, <5>2 DEF gone
        <5> QED  BY <1>4, <3>3, <5>1, <5>3
      <4> QED  BY <4>1, <4>2
    <3> QED  BY <2>1, <3>1, <3>4, <3>5 DEF SlotsOf
  <2> QED  BY <2>3, <2>4
<1>7. CASE UNCHANGED <<txInfo, txProd, cqCons>>
  BY <1>3, <1>7 DEF SlotsOf
<1>8. ASSUME \/ \E s \in Sender, r \in Ring : Waits(s, r)
             \/ \E s \in Sender : FinishPublish(s)
             \/ TakeInterrupt \/ FinishEq \/ ArmEq
             \/ \E r \in Ring : Advances(r)
             \/ NicStep \/ UNCHANGED vars
      PROVE  UNCHANGED <<txInfo, txProd, cqCons>>
  BY <1>8, NicLeavesDriver DEF Waits, WaitForSpace, FinishPublish, TakeInterrupt, FinishEq, ArmEq,
              Advances, vars, driverVars, ringVars
<1> QED  BY <1>5, <1>6, <1>7, <1>8, Steps DEF SenderStep, HandlerStep

(* The slot a packet goes into is free, and no completed slot is. *)
LEMMA AssertsKept ==
    ASSUME IInv, [Next]_vars
    PROVE  AssertsHold'
<1>1. failed = FALSE
  BY DEF IInv, AssertsHold, Typing, TypeOK
<1>2. ASSUME NEW s \in Sender, NEW r \in Ring, Transmits(s, r)
      PROVE  failed' = FALSE
  <2>1. /\ txProd[r] \in Nat /\ txCons[r] \in Nat /\ cqCons[r] \in Nat
        /\ txCons[r] <= cqCons[r]
    BY RingNumbers DEF IInv, PointersInOrder, PointersOf
  <2>2. txProd[r] - txCons[r] < FullSize
    BY <1>2 DEF Transmits, HasSpace
  <2>3. txProd[r] \in txProd[r] .. cqCons[r] + TxSize - 1
    BY <2>1, <2>2, Sizes
  <2>4. txInfo[r][TxSlot(txProd[r])] = None
    BY <2>3 DEF IInv, SlotsExact, SlotsOf, TxSlot
  <2> QED  BY <1>1, <1>2, <2>4 DEF Transmits, TxTransmit
<1>3. CASE UNCHANGED failed
  BY <1>1, <1>3 DEF AssertsHold
<1>4. ASSUME \/ \E s \in Sender, r \in Ring : Waits(s, r)
             \/ \E s \in Sender : FinishPublish(s)
             \/ HandlerStep \/ NicStep \/ UNCHANGED vars
      PROVE  UNCHANGED failed
  BY <1>4, NicLeavesDriver DEF Waits, WaitForSpace, FinishPublish, HandlerStep, TakeInterrupt,
              FinishEq, ArmEq, Completes, Advances, vars, driverVars
<1> QED  BY <1>2, <1>3, <1>4, Steps DEF AssertsHold, SenderStep

(* Only the end of process_tx_cq makes space, and it wakes everyone. *)
LEMMA SleepersKept ==
    ASSUME IInv, [Next]_vars
    PROVE  NobodySleepsWithSpace'
<1> SUFFICES ASSUME NEW t \in Sender, xmit'[t].pc = "wait"
             PROVE  ~HasSpace(xmit[t].ring)'
  BY DEF NobodySleepsWithSpace
<1>1. /\ xmit \in [Sender -> [pc : {"idle", "publish", "wait", "woken"}, ring : Ring \union {None}]]
      /\ txProd \in [Ring -> Nat] /\ txCons \in [Ring -> Nat]
  BY DEF IInv, Typing, TypeOK
<1>2. xmit[t].pc = "wait" => xmit[t].ring \in Ring /\ ~HasSpace(xmit[t].ring)
  BY DEF IInv, Typing, NobodySleepsWithSpace
<1>3. ASSUME NEW s \in Sender, NEW r \in Ring, Transmits(s, r)
      PROVE  ~HasSpace(xmit[t].ring)'
  <2>1. /\ xmit' = [xmit EXCEPT ![s] = [pc |-> "publish", ring |-> r]]
        /\ txProd' = [txProd EXCEPT ![r] = @ + 1] /\ UNCHANGED txCons
    BY <1>3 DEF Transmits, TxTransmit
  <2>2. xmit'[t] = xmit[t]
    BY <1>1, <2>1
  <2>3. txProd'[xmit[t].ring] >= txProd[xmit[t].ring]
    BY <1>1, <1>2, <2>1, <2>2
  <2> QED  BY <1>1, <1>2, <2>1, <2>2, <2>3, Sizes DEF HasSpace
<1>4. ASSUME NEW s \in Sender, NEW r \in Ring, Waits(s, r)
      PROVE  ~HasSpace(xmit[t].ring)'
  <2>1. /\ xmit' = [xmit EXCEPT ![s] = [pc |-> "wait", ring |-> r]]
        /\ UNCHANGED <<txProd, txCons>> /\ ~HasSpace(r)
    BY <1>4 DEF Waits, WaitForSpace
  <2> QED  BY <1>1, <1>2, <2>1 DEF HasSpace
<1>5. ASSUME NEW r \in Ring, Advances(r)
      PROVE  ~HasSpace(xmit[t].ring)'
  <2>1. /\ xmit' = [s \in Sender |->
              IF s \in Woken(r) THEN [xmit[s] EXCEPT !.pc = "woken"] ELSE xmit[s]]
        /\ txCons' = [txCons EXCEPT ![r] = cqCons[r]] /\ UNCHANGED txProd
    BY <1>5 DEF Advances
  <2>2. t \notin Woken(r)
    <3>1. t \in Woken(r) => xmit'[t].pc = "woken"
      BY <1>1, <2>1
    <3> QED  BY <3>1
  <2>3. xmit'[t] = xmit[t]
    BY <2>1, <2>2
  <2>4. xmit[t].ring # r
    BY <2>2, <2>3 DEF Woken
  <2> QED  BY <1>1, <1>2, <2>1, <2>3, <2>4 DEF HasSpace
<1>6. CASE UNCHANGED <<txProd, txCons>> /\ (xmit'[t] = xmit[t] \/ xmit'[t].pc # "wait")
  BY <1>2, <1>6 DEF HasSpace
<1>7. ASSUME NEW s \in Sender, FinishPublish(s)
      PROVE  UNCHANGED <<txProd, txCons>> /\ (xmit'[t] = xmit[t] \/ xmit'[t].pc # "wait")
  BY <1>1, <1>7 DEF FinishPublish, ringVars
<1>8. ASSUME \/ TakeInterrupt \/ FinishEq \/ ArmEq
             \/ \E r \in Ring : Completes(r)
             \/ NicStep \/ UNCHANGED vars
      PROVE  UNCHANGED <<txProd, txCons>> /\ xmit'[t] = xmit[t]
  BY <1>8, NicLeavesDriver DEF TakeInterrupt, FinishEq, ArmEq, Completes, vars, driverVars, ringVars
<1> QED  BY <1>3, <1>4, <1>5, <1>6, <1>7, <1>8, Steps DEF SenderStep, HandlerStep

-----------------------------------------------------------------------------
(* Posted writes and events.                                               *)

(* A write is posted behind ps: it may bring the consumer pointer the      *)
(* driver now has, or a producer pointer for which there is room.          *)
LEMMA AppendFits ==
    ASSUME NEW ps \in Seq(RegWrite), NEW w \in RegWrite, NEW q \in Ring,
           NEW known \in Nat, NEW nicProd \in Nat, NEW cons \in Nat, NEW prod \in Nat,
           NEW cons2 \in Nat, NEW prod2 \in Nat,
           WritesFit(ps, q, known, nicProd, cons, prod),
           cons <= cons2, prod <= prod2,
           cons2 = cons \/ w = Write("cqCons", q, cons2),
           IsWrite(w, "cqCons", q) => w.val = cons2,
           IsWrite(w, "prod", q) => w.val <= prod2 /\ w.val <= cons + FullSize
    PROVE  WritesFit(Append(ps, w), q, known, nicProd, cons2, prod2)
<1>0. PICK n \in Nat : n = Len(ps)
  OBVIOUS
<1>1. PICK p2 : p2 = Append(ps, w)
  OBVIOUS
<1>2. /\ Len(p2) = n + 1 /\ DOMAIN ps = 1 .. n /\ DOMAIN p2 = 1 .. n + 1
      /\ \A i \in 1 .. n : p2[i] = ps[i]
      /\ p2[n + 1] = w
  BY <1>0, <1>1
<1>3. w.val \in Nat /\ \A i \in 1 .. n : ps[i].val \in Nat
  BY <1>2 DEF RegWrite
<1>4. FullSize \in Nat
  BY Sizes
<1>5. ASSUME NEW i \in Nat, NEW v \in Nat, NEW u \in Nat, u <= v, Covered(ps, q, known, i, v)
      PROVE  Covered(p2, q, known, i, u)
  <2>1. CASE v <= known + FullSize
    BY <1>4, <1>5, <2>1 DEF Covered
  <2>2. ASSUME NEW j \in 1 .. n, j < i, IsWrite(ps[j], "cqCons", q), v <= ps[j].val + FullSize
        PROVE  Covered(p2, q, known, i, u)
    <3>1. IsWrite(p2[j], "cqCons", q) /\ u <= p2[j].val + FullSize /\ j \in 1 .. n + 1
      BY <1>2, <1>3, <1>4, <1>5, <2>2
    <3> QED  BY <1>2, <2>2, <3>1 DEF Covered
  <2> QED  BY <1>2, <1>5, <2>1, <2>2 DEF Covered
<1>6. Covered(ps, q, known, n + 1, cons + FullSize) /\ cons + FullSize \in Nat
  BY <1>0, <1>4 DEF WritesFit
<1>7. Covered(p2, q, known, n + 2, cons2 + FullSize)
  <2>1. CASE cons2 = cons
    <3>1. Covered(p2, q, known, n + 1, cons2 + FullSize)
      BY <1>5, <1>6, <2>1
    <3> QED  BY <1>2, <3>1 DEF Covered
  <2>2. CASE w = Write("cqCons", q, cons2)
    <3>1. IsWrite(p2[n + 1], "cqCons", q) /\ p2[n + 1].val = cons2
      BY <1>2, <2>2 DEF IsWrite, Write
    <3>2. n + 1 \in DOMAIN p2 /\ n + 1 < n + 2 /\ cons2 + FullSize <= p2[n + 1].val + FullSize
      BY <1>2, <1>4, <3>1
    <3> QED  BY <3>1, <3>2 DEF Covered
  <2> QED  BY <2>1, <2>2
<1>8. ASSUME NEW i \in 1 .. n + 1, IsWrite(p2[i], "prod", q)
      PROVE  p2[i].val <= prod2 /\ Covered(p2, q, known, i, p2[i].val)
  <2>1. CASE i \in 1 .. n
    <3>1. ps[i].val <= prod /\ Covered(ps, q, known, i, ps[i].val)
      BY <1>2, <1>8, <2>1 DEF WritesFit
    <3> QED  BY <1>2, <1>3, <1>5, <2>1, <3>1
  <2>2. CASE i = n + 1
    <3>1. w.val <= prod2 /\ w.val <= cons + FullSize
      BY <1>2, <1>8, <2>2
    <3> QED  BY <1>2, <1>3, <1>5, <1>6, <2>2, <3>1
  <2> QED  BY <2>1, <2>2
<1>9. ASSUME NEW i \in 1 .. n + 1, IsWrite(p2[i], "cqCons", q)
      PROVE  /\ known <= p2[i].val
             /\ p2[i].val <= cons2
             /\ \A j \in 1 .. n + 1 :
                    i < j /\ IsWrite(p2[j], "cqCons", q) => p2[i].val <= p2[j].val
  <2>1. CASE i \in 1 .. n
    <3>1. /\ known <= ps[i].val /\ ps[i].val <= cons
          /\ \A j \in 1 .. n : i < j /\ IsWrite(ps[j], "cqCons", q) => ps[i].val <= ps[j].val
      BY <1>2, <1>9, <2>1 DEF WritesFit
    <3>2. ps[i].val <= cons2 /\ p2[i] = ps[i]
      BY <1>2, <1>3, <2>1, <3>1
    <3>3. ASSUME NEW j \in 1 .. n + 1, i < j, IsWrite(p2[j], "cqCons", q)
          PROVE  ps[i].val <= p2[j].val
      <4>1. CASE j \in 1 .. n
        BY <1>2, <3>1, <3>3, <4>1
      <4>2. CASE j = n + 1
        BY <1>2, <3>2, <3>3, <4>2
      <4> QED  BY <4>1, <4>2
    <3> QED  BY <3>1, <3>2, <3>3
  <2>2. CASE i = n + 1
    <3>1. p2[i].val = cons2
      BY <1>2, <1>9, <2>2
    <3>2. known <= cons2
      BY DEF WritesFit
    <3> QED  BY <2>2, <3>1, <3>2
  <2> QED  BY <2>1, <2>2
<1>10. nicProd <= prod2 /\ nicProd <= known + FullSize /\ known <= cons2
  BY DEF WritesFit
<1>11. WritesFit(p2, q, known, nicProd, cons2, prod2)
  BY <1>2, <1>7, <1>8, <1>9, <1>10 DEF WritesFit
<1> QED  BY <1>1, <1>11

(* An index of a sequence that is not the first, in its tail. *)
LEMMA EarlierIndex ==
    ASSUME NEW n \in Nat, NEW i \in Nat, NEW j \in 1 .. n + 1, j < i + 1, j # 1
    PROVE  j - 1 \in 1 .. n /\ j - 1 < i /\ (j - 1) + 1 = j
OBVIOUS

(* The oldest write arrives.                                               *)
LEMMA TailFits ==
    ASSUME NEW ps \in Seq(RegWrite), ps # <<>>, NEW q \in Ring,
           NEW known \in Nat, NEW nicProd \in Nat, NEW cons \in Nat, NEW prod \in Nat,
           WritesFit(ps, q, known, nicProd, cons, prod),
           NEW known2 \in Nat, NEW nicProd2 \in Nat,
           known2 = IF IsWrite(ps[1], "cqCons", q) THEN ps[1].val ELSE known,
           nicProd2 = IF IsWrite(ps[1], "prod", q) THEN ps[1].val ELSE nicProd
    PROVE  WritesFit(Tail(ps), q, known2, nicProd2, cons, prod)
<1>0. PICK n \in Nat : Len(ps) = n + 1
  <2>1. Len(ps) \in Nat \ {0} /\ Len(ps) - 1 \in Nat /\ Len(ps) = (Len(ps) - 1) + 1
    OBVIOUS
  <2> QED  BY <2>1
<1>1. PICK p2 : p2 = Tail(ps)
  OBVIOUS
<1>2. /\ Len(p2) = n /\ DOMAIN ps = 1 .. n + 1 /\ DOMAIN p2 = 1 .. n
      /\ \A i \in 1 .. n : p2[i] = ps[i + 1]
  BY <1>0, <1>1
<1>3. \A i \in 1 .. n + 1 : ps[i].val \in Nat
  BY <1>2 DEF RegWrite
<1>4. FullSize \in Nat
  BY Sizes
<1>5. known <= known2 /\ known2 <= cons
  BY <1>2 DEF WritesFit
<1>6. ASSUME NEW i \in Nat, NEW v \in Nat, Covered(ps, q, known, i + 1, v)
      PROVE  Covered(p2, q, known2, i, v)
  <2>1. CASE v <= known + FullSize
    BY <1>4, <1>5, <2>1 DEF Covered
  <2>2. ASSUME NEW j \in 1 .. n + 1, j < i + 1, IsWrite(ps[j], "cqCons", q),
               v <= ps[j].val + FullSize
        PROVE  Covered(p2, q, known2, i, v)
    <3>1. CASE j = 1
      BY <2>2, <3>1 DEF Covered
    <3>2. CASE j # 1
      <4>1. j - 1 \in 1 .. n /\ j - 1 < i /\ p2[j - 1] = ps[j]
        <5>1. j - 1 \in 1 .. n /\ j - 1 < i /\ (j - 1) + 1 = j
          BY <2>2, <3>2, EarlierIndex
        <5> QED  BY <1>2, <5>1
      <4> QED  BY <1>2, <2>2, <4>1 DEF Covered
    <3> QED  BY <3>1, <3>2
  <2> QED  BY <1>2, <1>6, <2>1, <2>2 DEF Covered
<1>7. Covered(p2, q, known2, n + 1, cons + FullSize)
  BY <1>0, <1>4, <1>6 DEF WritesFit
<1>8. nicProd2 <= prod /\ nicProd2 <= known2 + FullSize
  <2>1. CASE IsWrite(ps[1], "prod", q)
    <3>1. ps[1].val <= prod /\ Covered(ps, q, known, 1, ps[1].val)
      BY <1>2, <2>1 DEF WritesFit
    <3>2. ps[1].val <= known + FullSize
      BY <1>2, <3>1 DEF Covered
    <3> QED  BY <1>2, <1>3, <1>4, <1>5, <2>1, <3>1, <3>2
  <2>2. CASE ~IsWrite(ps[1], "prod", q)
    BY <1>4, <1>5, <2>2 DEF WritesFit
  <2> QED  BY <2>1, <2>2
<1>9. ASSUME NEW i \in 1 .. n, IsWrite(p2[i], "prod", q)
      PROVE  p2[i].val <= prod /\ Covered(p2, q, known2, i, p2[i].val)
  <2>1. i + 1 \in 1 .. n + 1 /\ p2[i] = ps[i + 1]
    BY <1>2
  <2>2. ps[i + 1].val <= prod /\ Covered(ps, q, known, i + 1, ps[i + 1].val)
    BY <1>2, <1>9, <2>1 DEF WritesFit
  <2> QED  BY <1>3, <1>6, <2>1, <2>2
<1>10. ASSUME NEW i \in 1 .. n, IsWrite(p2[i], "cqCons", q)
       PROVE  /\ known2 <= p2[i].val
              /\ p2[i].val <= cons
              /\ \A j \in 1 .. n :
                    i < j /\ IsWrite(p2[j], "cqCons", q) => p2[i].val <= p2[j].val
  <2>1. i + 1 \in 1 .. n + 1 /\ p2[i] = ps[i + 1] /\ 1 < i + 1 /\ 1 \in 1 .. n + 1
    BY <1>2
  <2>2. /\ known <= ps[i + 1].val /\ ps[i + 1].val <= cons
        /\ \A j \in 1 .. n + 1 :
              i + 1 < j /\ IsWrite(ps[j], "cqCons", q) => ps[i + 1].val <= ps[j].val
    BY <1>2, <1>10, <2>1 DEF WritesFit
  <2>3. IsWrite(ps[1], "cqCons", q) => ps[1].val <= ps[i + 1].val
    BY <1>2, <1>10, <2>1 DEF WritesFit
  <2>4. known2 <= ps[i + 1].val
    BY <2>2, <2>3
  <2>5. ASSUME NEW j \in 1 .. n, i < j, IsWrite(p2[j], "cqCons", q)
        PROVE  p2[i].val <= p2[j].val
    <3>1. j + 1 \in 1 .. n + 1 /\ i + 1 < j + 1 /\ p2[j] = ps[j + 1]
      BY <1>2, <2>5
    <3> QED  BY <2>1, <2>2, <2>5, <3>1
  <2> QED  BY <2>1, <2>2, <2>4, <2>5
<1>11. WritesFit(p2, q, known2, nicProd2, cons, prod)
  BY <1>2, <1>5, <1>7, <1>8, <1>9, <1>10 DEF WritesFit
<1> QED  BY <1>1, <1>11

(* What an arriving write tells the hardware of ring q.                    *)
LEMMA ArriveStep ==
    ASSUME IInv, DeliverWrite, NEW q \in Ring
    PROVE  /\ posted # <<>> /\ posted' = Tail(posted) /\ posted[1] \in RegWrite
           /\ nicCq'[q].cons = IF IsWrite(posted[1], "cqCons", q) THEN posted[1].val ELSE nicCq[q].cons
           /\ nicTx'[q].prod = IF IsWrite(posted[1], "prod", q) THEN posted[1].val ELSE nicTx[q].prod
<1>1. nicTx \in [Ring -> NicTxType] /\ nicCq \in [Ring -> NicQueueType] /\ nicEq \in NicQueueType
  BY TypeGroups DEF IInv, Typing, NicTypes
<1>2. posted # <<>> /\ posted' = Tail(posted)
  BY DEF DeliverWrite
<1>3. PICK w \in RegWrite : w = posted[1] /\ w = Head(posted)
  BY ArriveTyped DEF IInv, Typing, TypeOK
<1>4. DeliverTx(w) \/ DeliverCq(w) \/ DeliverEq(w)
  BY <1>3 DEF DeliverWrite
<1>5. w.reg \in {"prod", "bell", "cqCons", "cqArm"} => w.ring \in Ring
  BY DEF RegWrite
<1>6. CASE DeliverTx(w)
  <2>1. nicCq' = nicCq /\ w.reg \in {"prod", "bell"} /\ w.ring \in Ring
    BY <1>5, <1>6 DEF DeliverTx
  <2>2. nicTx'[q].prod = IF IsWrite(w, "prod", q) THEN w.val ELSE nicTx[q].prod
    <3>1. CASE w.reg = "prod"
      <4>1. nicTx' = [nicTx EXCEPT ![w.ring].prod = w.val]
        BY <1>6, <3>1 DEF DeliverTx
      <4> QED  BY <1>1, <2>1, <3>1, <4>1 DEF IsWrite, NicTxType
    <3>2. CASE w.reg = "bell"
      <4>1. \/ nicTx' = [nicTx EXCEPT ![w.ring].bells = @ + 1]
            \/ nicTx' = nicTx
        BY <1>6, <3>2 DEF DeliverTx
      <4>2. nicTx'[q].prod = nicTx[q].prod
        BY <1>1, <2>1, <4>1 DEF NicTxType
      <4> QED  BY <3>2, <4>2 DEF IsWrite
    <3> QED  BY <2>1, <3>1, <3>2
  <2> QED  BY <1>2, <1>3, <2>1, <2>2 DEF IsWrite
<1>7. CASE DeliverCq(w)
  <2>1. nicTx' = nicTx /\ w.reg \in {"cqCons", "cqArm"} /\ w.ring \in Ring
    BY <1>5, <1>7 DEF DeliverCq
  <2>2. nicCq'[q].cons = IF IsWrite(w, "cqCons", q) THEN w.val ELSE nicCq[q].cons
    <3>1. CASE w.reg = "cqCons"
      <4>1. nicCq' = [nicCq EXCEPT ![w.ring].cons = w.val]
        BY <1>7, <3>1 DEF DeliverCq
      <4> QED  BY <1>1, <2>1, <3>1, <4>1 DEF IsWrite, NicQueueType
    <3>2. CASE w.reg = "cqArm"
      <4>1. nicCq' = [nicCq EXCEPT ![w.ring].armed = ~ArmRaises(nicCq[w.ring])]
        BY <1>7, <3>2 DEF DeliverCq
      <4>2. nicCq'[q].cons = nicCq[q].cons
        BY <1>1, <2>1, <4>1 DEF NicQueueType
      <4> QED  BY <3>2, <4>2 DEF IsWrite
    <3> QED  BY <2>1, <3>1, <3>2
  <2> QED  BY <1>2, <1>3, <2>1, <2>2 DEF IsWrite
<1>8. CASE DeliverEq(w)
  BY <1>2, <1>3, <1>8 DEF DeliverEq, IsWrite
<1> QED  BY <1>4, <1>6, <1>7, <1>8

(* Every step keeps the writes on their way in order. *)
LEMMA WritesKept ==
    ASSUME IInv, [Next]_vars
    PROVE  WritesInOrder'
<1> SUFFICES ASSUME NEW q \in Ring
             PROVE  WritesOf(q)'
  BY DEF WritesInOrder
<1>1. posted \in Seq(RegWrite) /\ WritesOf(q)
  BY DEF IInv, Typing, WritesInOrder
<1>2. /\ txProd[q] \in Nat /\ txCons[q] \in Nat /\ cqCons[q] \in Nat
      /\ nicTx[q].prod \in Nat /\ nicCq[q].cons \in Nat /\ nicCq[q].written \in Nat
  BY RingNumbers DEF IInv
<1>3. PointersOf(q)
  BY DEF IInv, PointersInOrder
<1>4. txProd \in [Ring -> Nat] /\ cqCons \in [Ring -> Nat]
  BY DEF IInv, Typing, TypeOK
<1>5. ASSUME NEW w \in RegWrite, Post(w), UNCHANGED <<nicTx, nicCq>>,
             cqCons'[q] \in Nat, txProd'[q] \in Nat,
             cqCons[q] <= cqCons'[q], txProd[q] <= txProd'[q],
             cqCons'[q] = cqCons[q] \/ w = Write("cqCons", q, cqCons'[q]),
             IsWrite(w, "cqCons", q) => w.val = cqCons'[q],
             IsWrite(w, "prod", q) => w.val <= txProd'[q] /\ w.val <= cqCons[q] + FullSize
      PROVE  WritesOf(q)'
  <2>1. posted' = Append(posted, w) /\ nicTx' = nicTx /\ nicCq' = nicCq
    BY <1>5 DEF Post
  <2>2. WritesFit(Append(posted, w), q, nicCq[q].cons, nicTx[q].prod, cqCons'[q], txProd'[q])
    BY <1>1, <1>2, <1>5, AppendFits DEF WritesOf
  <2> QED  BY <2>1, <2>2 DEF WritesOf
<1>6. ASSUME NEW w \in RegWrite, Post(w), UNCHANGED <<nicTx, nicCq, cqCons, txProd>>,
             w.reg # "cqCons", IsWrite(w, "prod", q) => w.val = txProd[q]
      PROVE  WritesOf(q)'
  <2>1. txProd[q] <= cqCons[q] + FullSize
    BY <1>2, <1>3, Sizes DEF PointersOf
  <2>2. ~IsWrite(w, "cqCons", q)
    BY <1>6 DEF IsWrite
  <2> QED  BY <1>2, <1>5, <1>6, <2>1, <2>2
<1>7. ASSUME NEW s \in Sender, NEW r \in Ring, Transmits(s, r)
      PROVE  WritesOf(q)'
  <2>1. /\ txProd' = [txProd EXCEPT ![r] = @ + 1]
        /\ UNCHANGED <<cqCons, nicCq, nicTx, txCons>>
        /\ Post(Publication(r, txProd[r] + 1)[1]) /\ txProd[r] - txCons[r] < FullSize
    BY <1>7 DEF Transmits, TxTransmit, nicVars, HasSpace
  <2>2. txProd'[q] = IF q = r THEN txProd[q] + 1 ELSE txProd[q]
    BY <1>4, <2>1
  <2>3. txProd[r] \in Nat
    BY <1>4
  <2>4. PICK w \in RegWrite : /\ w = Publication(r, txProd[r] + 1)[1]
                              /\ w \in {Write("prod", r, txProd[r] + 1), Write("bell", r, 0)}
    BY <2>3, PublicationTyped
  <2>5. Post(w)
    BY <2>1, <2>4
  <2>6. w.reg # "cqCons" /\ w.ring = r /\ (w.reg = "prod" => w.val = txProd[r] + 1)
    BY <2>4 DEF Write
  <2>7. q = r => txProd[q] + 1 <= cqCons[q] + FullSize
    BY <1>2, <1>3, <2>1, Sizes DEF PointersOf
  <2>8. IsWrite(w, "prod", q) => w.val <= txProd'[q] /\ w.val <= cqCons[q] + FullSize
    BY <1>2, <2>2, <2>6, <2>7 DEF IsWrite
  <2>9. ~IsWrite(w, "cqCons", q)
    BY <2>6 DEF IsWrite
  <2> QED  BY <1>2, <1>5, <2>1, <2>2, <2>5, <2>8, <2>9
<1>8. ASSUME NEW s \in Sender, FinishPublish(s)
      PROVE  WritesOf(q)'
  <2> DEFINE r == xmit[s].ring
  <2>1. UNCHANGED <<txProd, cqCons, nicCq, nicTx>> /\ Post(Publication(r, txProd[r])[2])
    BY <1>8 DEF FinishPublish, ringVars, nicVars
  <2>2. r \in Ring
    BY <1>8 DEF FinishPublish, IInv, Typing
  <2> HIDE DEF r
  <2>3. txProd[r] \in Nat
    BY <1>4, <2>2
  <2>4. PICK w \in RegWrite : /\ w = Publication(r, txProd[r])[2]
                              /\ w \in {Write("prod", r, txProd[r]), Write("bell", r, 0)}
    BY <2>2, <2>3, PublicationTyped
  <2>5. Post(w)
    BY <2>1, <2>4
  <2>6. w.reg # "cqCons" /\ w.ring = r /\ (w.reg = "prod" => w.val = txProd[r])
    BY <2>4 DEF Write
  <2>7. IsWrite(w, "prod", q) => w.val = txProd[q]
    BY <2>6 DEF IsWrite
  <2> QED  BY <1>6, <2>1, <2>5, <2>6, <2>7
<1>9. ASSUME NEW r \in Ring, Completes(r)
      PROVE  WritesOf(q)'
  <2>1. /\ cqCons' = [cqCons EXCEPT ![r] = nicCq[r].written]
        /\ UNCHANGED <<txProd, nicCq, nicTx>> /\ Post(Write("cqCons", r, nicCq[r].written))
    BY <1>9 DEF Completes, nicVars
  <2>2. nicCq[r].written \in Nat /\ cqCons[r] <= nicCq[r].written
    BY RingNumbers DEF IInv, PointersInOrder, PointersOf
  <2>3. PICK w \in RegWrite : w = Write("cqCons", r, nicCq[r].written)
    BY <2>2, WritesTyped
  <2>4. Post(w) /\ w.reg = "cqCons" /\ w.ring = r /\ w.val = nicCq[r].written
    BY <2>1, <2>3 DEF Write
  <2>5. cqCons'[q] = IF q = r THEN nicCq[q].written ELSE cqCons[q]
    BY <1>4, <2>1
  <2>6. cqCons'[q] \in Nat /\ cqCons[q] <= cqCons'[q]
    BY <1>2, <2>2, <2>5
  <2>7. cqCons'[q] = cqCons[q] \/ w = Write("cqCons", q, cqCons'[q])
    BY <2>3, <2>5
  <2>8. (IsWrite(w, "cqCons", q) => w.val = cqCons'[q]) /\ ~IsWrite(w, "prod", q)
    BY <2>4, <2>5 DEF IsWrite
  <2> QED  BY <1>2, <1>5, <2>1, <2>4, <2>6, <2>7, <2>8
<1>10. ASSUME \/ \E r \in Ring : Advances(r)
              \/ FinishEq \/ ArmEq
       PROVE  WritesOf(q)'
  <2>1. UNCHANGED <<txProd, cqCons, nicCq, nicTx>>
    BY <1>10 DEF Advances, FinishEq, ArmEq, ringVars, nicVars
  <2>2. handler.ptr \in Nat
    BY DEF IInv, Typing, TypeOK
  <2>3. PICK w \in RegWrite : Post(w) /\ w.reg \notin {"cqCons", "prod"}
    <3>1. ASSUME NEW r \in Ring, Advances(r)
          PROVE  \E w \in RegWrite : Post(w) /\ w.reg \notin {"cqCons", "prod"}
      <4>1. Post(Write("cqArm", r, 0)) /\ Write("cqArm", r, 0) \in RegWrite
        BY <3>1, WritesTyped DEF Advances
      <4>2. Write("cqArm", r, 0).reg = "cqArm"
        BY DEF Write
      <4> QED  BY <4>1, <4>2
    <3>2. CASE FinishEq
      <4>1. Post(Write("eqCons", None, handler.ptr)) /\ Write("eqCons", None, handler.ptr) \in RegWrite
        BY <2>2, <3>2, WritesTyped DEF FinishEq
      <4>2. Write("eqCons", None, handler.ptr).reg = "eqCons"
        BY DEF Write
      <4> QED  BY <4>1, <4>2
    <3>3. CASE ArmEq
      <4>1. Post(Write("eqArm", None, 0)) /\ Write("eqArm", None, 0) \in RegWrite
        BY <3>3, WritesTyped DEF ArmEq
      <4>2. Write("eqArm", None, 0).reg = "eqArm"
        BY DEF Write
      <4> QED  BY <4>1, <4>2
    <3> QED  BY <1>10, <3>1, <3>2, <3>3
  <2>4. ~IsWrite(w, "prod", q)
    BY <2>3 DEF IsWrite
  <2> QED  BY <1>6, <2>1, <2>3, <2>4
<1>11. CASE DeliverWrite
  <2>1. UNCHANGED <<txProd, cqCons>>
    BY <1>11 DEF DeliverWrite, driverVars, ringVars
  <2>2. /\ posted # <<>> /\ posted' = Tail(posted) /\ posted[1] \in RegWrite
        /\ nicCq'[q].cons = IF IsWrite(posted[1], "cqCons", q) THEN posted[1].val ELSE nicCq[q].cons
        /\ nicTx'[q].prod = IF IsWrite(posted[1], "prod", q) THEN posted[1].val ELSE nicTx[q].prod
    BY <1>11, ArriveStep
  <2>3. posted[1].val \in Nat
    BY <2>2 DEF RegWrite
  <2>4. WritesFit(Tail(posted), q, nicCq'[q].cons, nicTx'[q].prod, cqCons[q], txProd[q])
    BY <1>1, <1>2, <2>2, <2>3, TailFits DEF WritesOf
  <2> QED  BY <2>1, <2>2, <2>4 DEF WritesOf
<1>12. CASE /\ UNCHANGED <<posted, txProd, cqCons>>
            /\ nicCq'[q].cons = nicCq[q].cons /\ nicTx'[q].prod = nicTx[q].prod
  BY <1>1, <1>12 DEF WritesOf
<1>13. ASSUME NEW r \in Ring, ServeBell(r)
       PROVE  /\ UNCHANGED <<posted, txProd, cqCons>>
              /\ nicCq'[q].cons = nicCq[q].cons /\ nicTx'[q].prod = nicTx[q].prod
  BY <1>13, BellStep DEF driverVars, ringVars
<1>14. ASSUME NEW r \in Ring, CommitCompletion(r)
       PROVE  /\ UNCHANGED <<posted, txProd, cqCons>>
              /\ nicCq'[q].cons = nicCq[q].cons /\ nicTx'[q].prod = nicTx[q].prod
  <2>1. nicCq \in [Ring -> NicQueueType]
    BY TypeGroups DEF IInv, Typing, NicTypes
  <2> QED  BY <1>14, <2>1 DEF CommitCompletion, driverVars, ringVars, NicQueueType
<1>15. ASSUME \/ \E s \in Sender, r \in Ring : Waits(s, r)
              \/ TakeInterrupt \/ WriteEvent \/ CommitEvent \/ UNCHANGED vars
       PROVE  UNCHANGED <<posted, txProd, cqCons, nicCq, nicTx>>
  BY <1>15 DEF Waits, WaitForSpace, TakeInterrupt, WriteEvent, CommitEvent,
               vars, driverVars, ringVars, nicVars
<1> QED  BY <1>7, <1>8, <1>9, <1>10, <1>11, <1>12, <1>13, <1>14, <1>15, Steps
         DEF SenderStep, HandlerStep, NicStep

(* The driver's consumer pointer of the event queue and its writes.        *)
EventWrites == \A i \in DOMAIN posted : posted[i].reg = "eqCons" => posted[i].val <= eqCons

(* A write behind them may bring the pointer the driver now has. *)
LEMMA EventWritesPosted ==
    ASSUME IInv, NEW w \in RegWrite, Post(w), eqCons' \in Nat, eqCons <= eqCons',
           w.reg = "eqCons" => w.val = eqCons'
    PROVE  EventWrites'
<1>1. posted \in Seq(RegWrite) /\ EventWrites /\ eqCons \in Nat
  BY DEF IInv, Typing, TypeOK, EventsExact, EventWrites
<1>2. PICK n \in Nat : n = Len(posted)
  BY <1>1
<1>3. /\ DOMAIN posted = 1 .. n /\ DOMAIN posted' = 1 .. n + 1
      /\ \A i \in 1 .. n : posted'[i] = posted[i]
      /\ posted'[n + 1] = w
  BY <1>1, <1>2, PostTyped
<1>4. \A i \in 1 .. n : posted[i].val \in Nat
  BY <1>1, <1>3 DEF RegWrite
<1>5. ASSUME NEW i \in 1 .. n + 1, posted'[i].reg = "eqCons"
      PROVE  posted'[i].val <= eqCons'
  <2>1. CASE i \in 1 .. n
    <3>1. posted[i].val <= eqCons
      BY <1>1, <1>3, <1>5, <2>1 DEF EventWrites
    <3> QED  BY <1>1, <1>3, <1>4, <2>1, <3>1
  <2>2. CASE i = n + 1
    BY <1>3, <1>5, <2>2
  <2> QED  BY <2>1, <2>2
<1> QED  BY <1>3, <1>5 DEF EventWrites

(* Every step keeps the unread events exact. *)
LEMMA EventsKept ==
    ASSUME IInv, [Next]_vars
    PROVE  EventsExact'
<1>1. /\ eqCons \in Nat /\ handler.ptr \in Nat
      /\ eqBuf \in [0 .. EqSize - 1 -> [source : Ring \union {None}, phase : BOOLEAN]]
      /\ nicEq \in NicQueueType /\ events \in Seq(Ring)
      /\ handler \in [pc : {"idle", "scan", "advance", "arm"}, ring : Ring \union {None}, ptr : Nat]
      /\ posted \in Seq(RegWrite)
  BY DEF IInv, Typing, TypeOK, NicQueueType
<1>2. nicEq.written \in Nat /\ nicEq.cons \in Nat
  BY <1>1 DEF NicQueueType
<1>3. EventsExact /\ EventWrites
  BY DEF IInv, EventsExact, EventWrites
<1>4. CASE TakeInterrupt
  <2>1. UNCHANGED <<eqCons, posted, nicEq, eqBuf>> /\ handler'.pc = "scan" /\ handler'.ptr = eqCons
    BY <1>1, <1>4 DEF TakeInterrupt
  <2>2. eqCons \in eqCons .. nicEq.written
    BY <1>1, <1>2, <1>3 DEF EventsExact, Marked
  <2> QED  BY <1>3, <2>1, <2>2 DEF EventsExact
<1>5. ASSUME NEW r \in Ring, Completes(r)
      PROVE  EventsExact'
  <2>1. /\ UNCHANGED <<eqCons, nicEq, eqBuf>> /\ handler'.pc = "advance" /\ handler'.ptr = handler.ptr
        /\ handler.pc = "scan" /\ handler.ptr < nicEq.written
        /\ Post(Write("cqCons", r, nicCq[r].written))
    BY <1>1, <1>5 DEF Completes, nicVars
  <2>2. nicCq[r].written \in Nat
    BY RingNumbers DEF IInv
  <2>3. Write("cqCons", r, nicCq[r].written).reg = "cqCons"
        /\ Write("cqCons", r, nicCq[r].written) \in RegWrite
    BY <2>2, WritesTyped DEF Write
  <2>4. EventWrites'
    BY <1>1, <2>1, <2>3, EventWritesPosted
  <2> QED  BY <1>3, <2>1, <2>4 DEF EventsExact, EventWrites
<1>6. ASSUME NEW r \in Ring, Advances(r)
      PROVE  EventsExact'
  <2>1. /\ UNCHANGED <<eqCons, nicEq, eqBuf>> /\ handler'.pc = "scan" /\ handler'.ptr = handler.ptr + 1
        /\ handler.pc = "advance" /\ Post(Write("cqArm", r, 0))
    BY <1>6 DEF Advances, nicVars
  <2>2. Write("cqArm", r, 0).reg = "cqArm" /\ Write("cqArm", r, 0) \in RegWrite
    BY WritesTyped DEF Write
  <2>3. EventWrites'
    BY <1>1, <2>1, <2>2, EventWritesPosted
  <2>4. handler.ptr + 1 \in eqCons .. nicEq.written
    BY <1>1, <1>2, <1>3, <2>1 DEF EventsExact
  <2> QED  BY <1>3, <2>1, <2>3, <2>4 DEF EventsExact, EventWrites
<1>7. CASE FinishEq
  <2>1. /\ UNCHANGED <<nicEq, eqBuf>> /\ handler'.pc = "arm" /\ eqCons' = handler.ptr
        /\ handler.pc = "scan" /\ Post(Write("eqCons", None, handler.ptr))
    BY <1>1, <1>7 DEF FinishEq, nicVars
  <2>2. handler.ptr \in eqCons .. nicEq.written
    BY <1>3, <2>1 DEF EventsExact
  <2>3. /\ Write("eqCons", None, handler.ptr).val = handler.ptr
        /\ Write("eqCons", None, handler.ptr) \in RegWrite
    BY <1>1, WritesTyped DEF Write
  <2>4. EventWrites'
    BY <1>1, <2>1, <2>2, <2>3, EventWritesPosted
  <2>5. Marked(eqBuf, EqSize, handler.ptr, nicEq.written)
    <3>1. Phased(eqBuf, EqSize)
      BY <1>1 DEF Phased
    <3>2. Marked(eqBuf, EqSize, eqCons, nicEq.written)
      BY <1>3 DEF EventsExact
    <3> QED  BY <1>1, <1>2, <2>2, <3>1, <3>2, Sizes, MarkedAdvance
  <2>6. /\ \A p \in handler.ptr .. nicEq.written - 1 : eqBuf[p % EqSize].source \in Ring
        /\ nicEq.cons <= handler.ptr
    BY <1>1, <1>2, <1>3, <2>2 DEF EventsExact
  <2> QED  BY <2>1, <2>4, <2>5, <2>6 DEF EventsExact, EventWrites
<1>8. CASE ArmEq
  <2>1. /\ UNCHANGED <<eqCons, nicEq, eqBuf>> /\ handler'.pc = "idle" /\ Post(Write("eqArm", None, 0))
    BY <1>1, <1>8 DEF ArmEq, nicVars
  <2>2. Write("eqArm", None, 0).reg = "eqArm" /\ Write("eqArm", None, 0) \in RegWrite
    BY WritesTyped DEF Write
  <2>3. EventWrites'
    BY <1>1, <2>1, <2>2, EventWritesPosted
  <2> QED  BY <1>3, <2>1, <2>3 DEF EventsExact, EventWrites
<1>9. ASSUME NEW s \in Sender, NEW r \in Ring, Transmits(s, r)
      PROVE  EventsExact'
  <2>1. /\ UNCHANGED <<eqCons, nicEq, eqBuf, handler>> /\ Post(Publication(r, txProd[r] + 1)[1])
    BY <1>9 DEF Transmits, TxTransmit, nicVars
  <2>2. txProd[r] + 1 \in Nat
    BY RingNumbers DEF IInv
  <2>3. Publication(r, txProd[r] + 1)[1].reg # "eqCons" /\ Publication(r, txProd[r] + 1)[1] \in RegWrite
    BY <2>2, PublicationTyped DEF Write
  <2>4. EventWrites'
    BY <1>1, <2>1, <2>3, EventWritesPosted
  <2> QED  BY <1>3, <2>1, <2>4 DEF EventsExact, EventWrites
<1>10. ASSUME NEW s \in Sender, FinishPublish(s)
       PROVE  EventsExact'
  <2> DEFINE r == xmit[s].ring
  <2>1. /\ UNCHANGED <<eqCons, nicEq, eqBuf, handler>> /\ Post(Publication(r, txProd[r])[2])
    BY <1>10 DEF FinishPublish, nicVars
  <2>2. r \in Ring
    BY <1>10 DEF FinishPublish, IInv, Typing
  <2>3. txProd[r] \in Nat
    BY <2>2, RingNumbers DEF IInv
  <2>4. Publication(r, txProd[r])[2].reg # "eqCons" /\ Publication(r, txProd[r])[2] \in RegWrite
    BY <2>2, <2>3, PublicationTyped DEF Write
  <2>5. EventWrites'
    BY <1>1, <2>1, <2>4, EventWritesPosted
  <2> QED  BY <1>3, <2>1, <2>5 DEF EventsExact, EventWrites
<1>11. CASE DeliverWrite
  <2>1. UNCHANGED <<eqCons, handler, eqBuf>>
    BY <1>11 DEF DeliverWrite, driverVars
  <2>2. PICK n \in Nat : n = Len(posted')
    <3>1. posted' \in Seq(RegWrite)
      BY <1>1, <1>11, ArriveTyped DEF IInv, Typing, TypeOK
    <3>2. Len(posted') \in Nat
      BY <3>1
    <3> QED  BY <3>2
  <2>3. /\ posted[1] = Head(posted) /\ DOMAIN posted = 1 .. n + 1 /\ DOMAIN posted' = 1 .. n
        /\ \A i \in 1 .. n : posted'[i] = posted[i + 1]
    BY <1>1, <1>11, <2>2, ArriveTyped DEF IInv, Typing, TypeOK
  <2>4. EventWrites'
    <3> SUFFICES ASSUME NEW i \in 1 .. n, posted'[i].reg = "eqCons"
                 PROVE  posted'[i].val <= eqCons
      BY <2>1, <2>3 DEF EventWrites
    <3>1. i + 1 \in 1 .. n + 1
      OBVIOUS
    <3> QED  BY <1>3, <2>3, <3>1 DEF EventWrites
  <2>5. nicEq'.written = nicEq.written /\ nicEq'.cons <= eqCons
    <3>1. nicEq.cons <= eqCons
      BY <1>3 DEF EventsExact
    <3>2. PICK w : w = Head(posted)
      OBVIOUS
    <3>3. DeliverTx(w) \/ DeliverCq(w) \/ DeliverEq(w)
      BY <1>11, <3>2 DEF DeliverWrite
    <3>4. CASE w.reg = "eqCons" /\ nicEq' = [nicEq EXCEPT !.cons = w.val]
      <4>1. w.val <= eqCons
        BY <1>3, <2>3, <3>2, <3>4 DEF EventWrites
      <4> QED  BY <1>1, <3>4, <4>1 DEF NicQueueType
    <3>5. CASE nicEq' = [nicEq EXCEPT !.armed = ~ArmRaises(nicEq)]
      BY <1>1, <3>1, <3>5 DEF NicQueueType
    <3>6. CASE nicEq' = nicEq
      BY <3>1, <3>6
    <3> QED  BY <3>3, <3>4, <3>5, <3>6 DEF DeliverTx, DeliverCq, DeliverEq
  <2> QED  BY <1>3, <2>1, <2>4, <2>5 DEF EventsExact, EventWrites
<1>12. CASE WriteEvent
  <2>1. UNCHANGED <<eqCons, handler, posted>> /\ events # <<>>
    BY <1>12 DEF WriteEvent, driverVars
  <2>2. CASE QueueFull(nicEq, EqSize)
    <3>1. UNCHANGED <<eqBuf, nicEq>>
      BY <1>12, <2>2 DEF WriteEvent
    <3> QED  BY <1>3, <2>1, <3>1 DEF EventsExact
  <2>3. CASE ~QueueFull(nicEq, EqSize)
    <3> DEFINE w == nicEq.written
               rec == [source |-> Head(events), phase |-> PhaseOf(w, EqSize)]
    <3>1. /\ eqBuf' = [eqBuf EXCEPT ![w % EqSize] = rec]
          /\ nicEq' = [nicEq EXCEPT !.written = @ + 1]
      BY <1>12, <2>3 DEF WriteEvent, EqSlot
    <3>2. nicEq'.written = w + 1 /\ nicEq'.cons = nicEq.cons
      BY <1>1, <3>1 DEF NicQueueType
    <3>3. Head(events) \in Ring /\ rec.source = Head(events) /\ rec.phase = PhaseOf(w, EqSize)
      BY <1>1, <2>1
    <3>4. w \in Nat /\ w < eqCons + EqSize /\ eqCons <= w
      BY <1>1, <1>2, <1>3, <2>3, Sizes DEF EventsExact, QueueFull, Marked
    <3> HIDE DEF rec, w
    <3>5. Marked(eqBuf', EqSize, eqCons, w + 1)
      <4>1. Marked(eqBuf, EqSize, eqCons, w) /\ DOMAIN eqBuf = 0 .. EqSize - 1
        BY <1>1, <1>3 DEF EventsExact, w
      <4> QED  BY <1>1, <3>1, <3>3, <3>4, <4>1, Sizes, MarkedAppend
    <3>6. ASSUME NEW p \in eqCons .. w
          PROVE  eqBuf'[p % EqSize].source \in Ring
      <4>1. p \in Nat /\ p % EqSize \in 0 .. EqSize - 1 /\ w % EqSize \in 0 .. EqSize - 1
        BY <1>1, <3>4, Sizes, DivMod
      <4>2. CASE p % EqSize = w % EqSize
        <5>1. eqBuf'[p % EqSize] = rec
          BY <1>1, <3>1, <4>1, <4>2
        <5> QED  BY <3>3, <5>1
      <4>3. CASE p % EqSize # w % EqSize
        <5>1. eqBuf'[p % EqSize] = eqBuf[p % EqSize]
          BY <1>1, <3>1, <4>1, <4>3
        <5>2. p \in eqCons .. w - 1
          BY <1>1, <3>4, <4>3
        <5> QED  BY <1>3, <5>1, <5>2 DEF EventsExact, w
      <4> QED  BY <4>2, <4>3
    <3>7. handler.pc \in {"scan", "advance"} => handler.ptr \in eqCons .. w + 1
      BY <1>1, <1>3, <3>4 DEF EventsExact, w
    <3>8. handler.pc = "advance" => handler.ptr < w + 1
      BY <1>1, <1>3, <3>4 DEF EventsExact, w
    <3>9. nicEq'.cons <= eqCons /\ \A p \in eqCons .. (w + 1) - 1 : eqBuf'[p % EqSize].source \in Ring
      BY <1>3, <3>2, <3>4, <3>6 DEF EventsExact
    <3> QED  BY <1>3, <2>1, <3>2, <3>5, <3>7, <3>8, <3>9 DEF EventsExact
  <2> QED  BY <2>2, <2>3
<1>13. CASE CommitEvent
  <2>1. UNCHANGED <<eqCons, handler, posted, eqBuf>>
        /\ nicEq' = [nicEq EXCEPT !.prod = @ + 1, !.armed = FALSE]
    BY <1>13 DEF CommitEvent, driverVars
  <2>2. nicEq'.written = nicEq.written /\ nicEq'.cons = nicEq.cons
    BY <1>1, <2>1 DEF NicQueueType
  <2> QED  BY <1>3, <2>1, <2>2 DEF EventsExact
<1>14. CASE UNCHANGED <<eqCons, handler, posted, eqBuf, nicEq>>
  BY <1>3, <1>14 DEF EventsExact
<1>15. ASSUME \/ \E s \in Sender, r \in Ring : Waits(s, r)
              \/ \E r \in Ring : ServeBell(r) \/ CommitCompletion(r)
              \/ UNCHANGED vars
       PROVE  UNCHANGED <<eqCons, handler, posted, eqBuf, nicEq>>
  BY <1>15 DEF Waits, WaitForSpace, ServeBell, CommitCompletion, vars, driverVars, nicVars
<1> QED  BY <1>4, <1>5, <1>6, <1>7, <1>8, <1>9, <1>10, <1>11, <1>12, <1>13, <1>14, <1>15, Steps
         DEF SenderStep, HandlerStep, NicStep

-----------------------------------------------------------------------------
(* The invariant is inductive. *)
LEMMA InvKept == IInv /\ [Next]_vars => IInv'
BY TypingKept, PointersKept, WritesKept, RecordsKept, EventsKept, SlotsKept, AssertsKept,
   SleepersKept DEF IInv

(* The invariant holds in every behaviour. *)
LEMMA Invariance == Spec => []IInv
BY InitInv, InvKept, PTL DEF Spec

(* The pointers, lists, records and registers of the driver and of the     *)
(* hardware keep their types (Txq, Cq and Eq of mqnic.py).                 *)
THEOREM TypeCorrect == Spec => []TypeOK
<1>1. IInv => TypeOK
  BY DEF IInv, Typing
<1> QED  BY <1>1, Invariance, PTL

(* No assert of the transmit path fails, with any number of rings, senders *)
(* and packets (mqnic.py:804 and :1819).                                   *)
THEOREM AssertsNeverFail == Spec => []AssertsHold
<1>1. IInv => AssertsHold
  BY DEF IInv
<1> QED  BY <1>1, Invariance, PTL

(* The wake-up that clean_event gives a sender is never lost (start_xmit,  *)
(* process_tx_cq).                                                         *)
THEOREM NoLostWakeUp == Spec => []NobodySleepsWithSpace
<1>1. IInv => NobodySleepsWithSpace
  BY DEF IInv
<1> QED  BY <1>1, Invariance, PTL

(* The late report of the completion queue's consumer pointer loses no     *)
(* completion: a packet is published only behind the write that makes room *)
(* for its completion (process_tx_cq, write_cons_ptr, write_prod_ptr).     *)
THEOREM NoCompletionLost == Spec => []CompletionsKept
<1>1. IInv => CompletionsKept
  <2> SUFFICES ASSUME IInv, NEW r \in Ring
               PROVE  nicCq[r].written = nicTx[r].sent /\ nicCq[r].written - cqCons[r] <= CqSize
    BY DEF CompletionsKept
  <2>1. /\ cqCons[r] \in Nat /\ nicCq[r].written \in Nat
        /\ nicCq[r].written = nicTx[r].sent
        /\ nicCq[r].written <= cqCons[r] + CqSize
    BY RingNumbers DEF IInv, PointersInOrder, PointersOf, RecordsExact, RecordsOf, Marked
  <2> QED  BY <2>1, Sizes
<1> QED  BY <1>1, Invariance, PTL

(* A descriptor the hardware may still read keeps its packet (start_xmit's *)
(* test for space, free_desc).                                             *)
THEOREM DescriptorsIntact == Spec => []InFlightIntact
<1>1. IInv => InFlightIntact
  <2> SUFFICES ASSUME IInv, NEW r \in Ring
               PROVE  /\ txProd[r] - txCons[r] <= FullSize
                      /\ \A p \in nicTx[r].sent .. txProd[r] - 1 : txInfo[r][TxSlot(p)] # None
    BY DEF InFlightIntact
  <2>1. /\ txProd[r] \in Nat /\ txCons[r] \in Nat /\ cqCons[r] \in Nat /\ nicTx[r].sent \in Nat
        /\ cqCons[r] <= nicTx[r].sent /\ txProd[r] <= txCons[r] + FullSize
    BY RingNumbers DEF IInv, PointersInOrder, PointersOf
  <2>2. \A p \in cqCons[r] .. txProd[r] - 1 : txInfo[r][TxSlot(p)] # None
    BY DEF IInv, SlotsExact, SlotsOf, TxSlot
  <2> QED  BY <2>1, <2>2, Sizes
<1> QED  BY <1>1, Invariance, PTL

-----------------------------------------------------------------------------
(* Doorbells and pointers of one ring.  Of the writes ps on their way, the *)
(* doorbells among the first i; and that the hardware knows a producer     *)
(* pointer of v or more once the first i have arrived.                     *)
BellsUpTo(ps, r, i) == {j \in DOMAIN ps : j <= i /\ IsWrite(ps[j], "bell", r)}
Told(ps, r, nicProd, i, v) ==
    \/ v <= nicProd
    \/ \E j \in DOMAIN ps : j <= i /\ IsWrite(ps[j], "prod", r) /\ v <= ps[j].val

(* Each doorbell arrives after the pointer that shows its packet, and the  *)
(* pointers arrive in order.  Packets sent and doorbells already there are *)
(* rung.                                                                   *)
BellsFit(ps, r, nicProd, prod, rung) ==
    /\ nicProd <= prod
    /\ \A i \in DOMAIN ps : IsWrite(ps[i], "prod", r) =>
        /\ nicProd <= ps[i].val
        /\ ps[i].val <= prod
        /\ \A j \in DOMAIN ps : i < j /\ IsWrite(ps[j], "prod", r) => ps[i].val <= ps[j].val
    /\ Told(ps, r, nicProd, Len(ps), prod)
    /\ \A i \in 0 .. Len(ps) :
        Told(ps, r, nicProd, i, rung + Cardinality(BellsUpTo(ps, r, i)))

(* A packet's doorbell is served or waits, or is on its way, or a sender   *)
(* owes it.                                                                *)
Owed(ps, r, nicProd, prod, rung, owing) ==
    /\ BellsFit(ps, r, nicProd, prod, rung)
    /\ IsFiniteSet(owing)
    /\ rung + Cardinality(BellsUpTo(ps, r, Len(ps))) + Cardinality(owing) = prod

(* Senders between the two writes of write_prod_ptr: each owes a doorbell. *)
Publishing(r) == {s \in Sender : xmit[s].pc = "publish" /\ xmit[s].ring = r}
Rung(r) == nicTx[r].sent + nicTx[r].bells
BellsOf(r) == Owed(posted, r, nicTx[r].prod, txProd[r], Rung(r), Publishing(r))
BellsOwed == \A r \in Ring : BellsOf(r)

-----------------------------------------------------------------------------
(* The doorbells among the writes can be counted.                          *)
LEMMA BellsFinite ==
    ASSUME NEW ps \in Seq(RegWrite), NEW q, NEW i \in Nat
    PROVE  IsFiniteSet(BellsUpTo(ps, q, i)) /\ Cardinality(BellsUpTo(ps, q, i)) \in Nat
<1>1. DOMAIN ps = 1 .. Len(ps) /\ Len(ps) \in Nat
  OBVIOUS
<1>2. IsFiniteSet(1 .. Len(ps))
  BY <1>1, FS_Interval
<1>3. BellsUpTo(ps, q, i) \subseteq 1 .. Len(ps)
  BY <1>1 DEF BellsUpTo
<1> QED  BY <1>2, <1>3, FS_Subset, FS_CardinalityType

(* A write behind them.                                                    *)
LEMMA AppendSame ==
    ASSUME NEW ps \in Seq(RegWrite), NEW w \in RegWrite, NEW q, NEW i \in 0 .. Len(ps)
    PROVE  BellsUpTo(Append(ps, w), q, i) = BellsUpTo(ps, q, i)
<1>1. PICK n \in Nat : n = Len(ps)
  OBVIOUS
<1>2. PICK p2 : p2 = Append(ps, w)
  OBVIOUS
<1>3. /\ DOMAIN ps = 1 .. n /\ DOMAIN p2 = 1 .. n + 1
      /\ \A j \in 1 .. n : p2[j] = ps[j]
  BY <1>1, <1>2
<1>4. BellsUpTo(p2, q, i) = BellsUpTo(ps, q, i)
  BY <1>1, <1>3 DEF BellsUpTo
<1> QED  BY <1>2, <1>4

(* It is one doorbell more, or none.                                       *)
LEMMA AppendCount ==
    ASSUME NEW ps \in Seq(RegWrite), NEW w \in RegWrite, NEW q, NEW n \in Nat, n = Len(ps)
    PROVE  /\ IsWrite(w, "bell", q) =>
                Cardinality(BellsUpTo(Append(ps, w), q, n + 1))
                  = Cardinality(BellsUpTo(ps, q, n)) + 1
           /\ ~IsWrite(w, "bell", q) =>
                BellsUpTo(Append(ps, w), q, n + 1) = BellsUpTo(ps, q, n)
<1>1. PICK p2 : p2 = Append(ps, w)
  OBVIOUS
<1>2. /\ DOMAIN ps = 1 .. n /\ DOMAIN p2 = 1 .. n + 1
      /\ \A i \in 1 .. n : p2[i] = ps[i]
      /\ p2[n + 1] = w
  BY <1>1
<1>3. PICK c \in Nat : c = Cardinality(BellsUpTo(ps, q, n)) /\ IsFiniteSet(BellsUpTo(ps, q, n))
  BY BellsFinite
<1>4. CASE IsWrite(w, "bell", q)
  <2>1. BellsUpTo(p2, q, n + 1) = BellsUpTo(ps, q, n) \union {n + 1}
    BY <1>2, <1>4 DEF BellsUpTo
  <2>2. n + 1 \notin BellsUpTo(ps, q, n)
    BY <1>2 DEF BellsUpTo
  <2> QED  BY <1>1, <1>3, <1>4, <2>1, <2>2, FS_AddElement
<1>5. CASE ~IsWrite(w, "bell", q)
  <2>1. BellsUpTo(p2, q, n + 1) = BellsUpTo(ps, q, n)
    BY <1>2, <1>5 DEF BellsUpTo
  <2> QED  BY <1>1, <1>5, <2>1
<1> QED  BY <1>4, <1>5

(* The first write gone, the others one place further up.                  *)
LEMMA TailCount ==
    ASSUME NEW ps \in Seq(RegWrite), NEW n \in Nat, Len(ps) = n + 1, NEW q,
           NEW i \in 0 .. n
    PROVE  /\ IsWrite(ps[1], "bell", q) =>
                Cardinality(BellsUpTo(ps, q, i + 1)) = Cardinality(BellsUpTo(Tail(ps), q, i)) + 1
           /\ ~IsWrite(ps[1], "bell", q) =>
                Cardinality(BellsUpTo(ps, q, i + 1)) = Cardinality(BellsUpTo(Tail(ps), q, i))
<1>0. PICK p2 : p2 = Tail(ps)
  OBVIOUS
<1>1. /\ Len(p2) = n /\ DOMAIN ps = 1 .. n + 1 /\ DOMAIN p2 = 1 .. n
      /\ \A j \in 1 .. n : p2[j] = ps[j + 1]
      /\ p2 \in Seq(RegWrite) /\ i \in Nat
  BY <1>0
<1> DEFINE rest == BellsUpTo(ps, q, i + 1) \ {1}
           here == BellsUpTo(p2, q, i)
           up == [j \in here |-> j + 1]
<1>2. PICK c \in Nat : c = Cardinality(here) /\ IsFiniteSet(here)
  BY <1>1, BellsFinite
<1>3. up \in Bijection(here, rest)
  <2>1. \A j \in here : j \in 1 .. n /\ j <= i /\ IsWrite(ps[j + 1], "bell", q)
    BY <1>1 DEF BellsUpTo
  <2>2. \A j \in here : up[j] \in rest
    BY <1>1, <2>1 DEF BellsUpTo
  <2>3. \A j \in here, k \in here : up[j] = up[k] => j = k
    BY <2>1
  <2>4. ASSUME NEW k \in rest PROVE \E j \in here : up[j] = k
    <3>1. k \in 1 .. n + 1 /\ k <= i + 1 /\ k # 1 /\ IsWrite(ps[k], "bell", q)
      BY <1>1 DEF BellsUpTo
    <3>2. k - 1 \in 1 .. n /\ k - 1 <= i /\ (k - 1) + 1 = k
      BY <3>1
    <3>3. k - 1 \in here
      BY <1>1, <3>1, <3>2 DEF BellsUpTo
    <3> QED  BY <3>2, <3>3
  <2> HIDE DEF here, rest
  <2> QED  BY <2>2, <2>3, <2>4, Fun_IsBij
<1>4. IsFiniteSet(rest) /\ Cardinality(rest) = c
  BY <1>2, <1>3, FS_Bijection DEF ExistsBijection
<1>5. CASE IsWrite(ps[1], "bell", q)
  <2>1. BellsUpTo(ps, q, i + 1) = rest \union {1}
    BY <1>1, <1>5 DEF BellsUpTo
  <2>2. Cardinality(rest \union {1}) = c + 1
    BY <1>4, FS_AddElement
  <2> QED  BY <1>0, <1>2, <1>4, <1>5, <2>1, <2>2
<1>6. CASE ~IsWrite(ps[1], "bell", q)
  <2>1. BellsUpTo(ps, q, i + 1) = rest
    BY <1>1, <1>6 DEF BellsUpTo
  <2> QED  BY <1>0, <1>2, <1>4, <1>6, <2>1
<1> QED  BY <1>5, <1>6

(* What the hardware is told after a write behind the others.              *)
LEMMA AppendTold ==
    ASSUME NEW ps \in Seq(RegWrite), NEW w \in RegWrite, NEW q, NEW nicProd \in Nat,
           NEW i \in Nat, NEW k \in Nat, i <= k, NEW v \in Nat, NEW u \in Nat, u <= v,
           Told(ps, q, nicProd, i, v)
    PROVE  Told(Append(ps, w), q, nicProd, k, u)
<1>1. PICK p2 : p2 = Append(ps, w)
  OBVIOUS
<1>2. PICK n \in Nat : n = Len(ps)
  OBVIOUS
<1>3. /\ DOMAIN ps = 1 .. n /\ DOMAIN p2 = 1 .. n + 1 /\ \A j \in 1 .. n : p2[j] = ps[j]
      /\ \A j \in 1 .. n : ps[j].val \in Nat
  BY <1>1, <1>2 DEF RegWrite
<1>4. CASE v <= nicProd
  BY <1>4 DEF Told
<1>5. ASSUME NEW j \in 1 .. n, j <= i, IsWrite(ps[j], "prod", q), v <= ps[j].val
      PROVE  Told(p2, q, nicProd, k, u)
  <2>1. j \in 1 .. n + 1 /\ j <= k /\ IsWrite(p2[j], "prod", q) /\ u <= p2[j].val
    BY <1>3, <1>5
  <2> QED  BY <1>3, <2>1 DEF Told
<1> QED  BY <1>1, <1>3, <1>4, <1>5 DEF Told

(* A write behind them: a new pointer, or a doorbell the pointer allows.   *)
LEMMA AppendBells ==
    ASSUME NEW ps \in Seq(RegWrite), NEW w \in RegWrite, NEW q, NEW n \in Nat, n = Len(ps),
           NEW nicProd \in Nat, NEW prod \in Nat, NEW prod2 \in Nat, NEW rung \in Nat,
           BellsFit(ps, q, nicProd, prod, rung),
           prod <= prod2,
           prod2 = prod \/ w = Write("prod", q, prod2),
           IsWrite(w, "prod", q) => w.val = prod2,
           IsWrite(w, "bell", q) => rung + Cardinality(BellsUpTo(ps, q, n)) + 1 <= prod
    PROVE  BellsFit(Append(ps, w), q, nicProd, prod2, rung)
<1>1. PICK p2 : p2 = Append(ps, w)
  OBVIOUS
<1>2. /\ Len(p2) = n + 1 /\ DOMAIN ps = 1 .. n /\ DOMAIN p2 = 1 .. n + 1
      /\ \A i \in 1 .. n : p2[i] = ps[i]
      /\ p2[n + 1] = w
  BY <1>1
<1>3. w.val \in Nat /\ \A i \in 1 .. n : ps[i].val \in Nat
  BY <1>2 DEF RegWrite
<1>4. nicProd <= prod2
  BY DEF BellsFit
<1>5. ASSUME NEW i \in 1 .. n + 1, IsWrite(p2[i], "prod", q)
      PROVE  /\ nicProd <= p2[i].val /\ p2[i].val <= prod2
             /\ \A j \in 1 .. n + 1 : i < j /\ IsWrite(p2[j], "prod", q) => p2[i].val <= p2[j].val
  <2>1. CASE i \in 1 .. n
    <3>1. /\ nicProd <= ps[i].val /\ ps[i].val <= prod
          /\ \A j \in 1 .. n : i < j /\ IsWrite(ps[j], "prod", q) => ps[i].val <= ps[j].val
      BY <1>2, <1>5, <2>1 DEF BellsFit
    <3>2. p2[i] = ps[i] /\ ps[i].val <= prod2
      BY <1>2, <1>3, <2>1, <3>1
    <3>3. ASSUME NEW j \in 1 .. n + 1, i < j, IsWrite(p2[j], "prod", q)
          PROVE  ps[i].val <= p2[j].val
      <4>1. CASE j \in 1 .. n
        BY <1>2, <3>1, <3>3, <4>1
      <4>2. CASE j = n + 1
        BY <1>2, <3>2, <3>3, <4>2
      <4> QED  BY <4>1, <4>2
    <3> QED  BY <3>1, <3>2, <3>3
  <2>2. CASE i = n + 1
    BY <1>2, <1>4, <1>5, <2>2
  <2> QED  BY <2>1, <2>2
<1>6. Told(p2, q, nicProd, n + 1, prod2)
  <2>1. CASE prod2 = prod
    <3>1. Told(ps, q, nicProd, n, prod)
      BY DEF BellsFit
    <3> QED  BY <1>1, <2>1, <3>1, AppendTold
  <2>2. CASE w = Write("prod", q, prod2)
    <3>1. IsWrite(p2[n + 1], "prod", q) /\ p2[n + 1].val = prod2
      BY <1>2, <2>2 DEF IsWrite, Write
    <3>2. n + 1 \in DOMAIN p2 /\ n + 1 <= n + 1 /\ prod2 <= p2[n + 1].val
      BY <1>2, <3>1
    <3> QED  BY <3>1, <3>2 DEF Told
  <2> QED  BY <2>1, <2>2
<1>7. ASSUME NEW i \in 0 .. n
      PROVE  Told(p2, q, nicProd, i, rung + Cardinality(BellsUpTo(p2, q, i)))
  <2>1. BellsUpTo(p2, q, i) = BellsUpTo(ps, q, i)
    BY <1>1, AppendSame
  <2>2. PICK v \in Nat : v = rung + Cardinality(BellsUpTo(ps, q, i))
    BY BellsFinite
  <2>3. Told(ps, q, nicProd, i, v)
    BY <2>2 DEF BellsFit
  <2> QED  BY <1>1, <2>1, <2>2, <2>3, AppendTold
<1>8. Told(p2, q, nicProd, n + 1, rung + Cardinality(BellsUpTo(p2, q, n + 1)))
  <2>1. PICK c \in Nat : c = Cardinality(BellsUpTo(ps, q, n))
    BY BellsFinite
  <2>2. /\ IsWrite(w, "bell", q) => Cardinality(BellsUpTo(p2, q, n + 1)) = c + 1
        /\ ~IsWrite(w, "bell", q) => Cardinality(BellsUpTo(p2, q, n + 1)) = c
    BY <1>1, <2>1, AppendCount
  <2>3. CASE IsWrite(w, "bell", q)
    <3>1. Told(ps, q, nicProd, n, prod) /\ rung + c + 1 <= prod
      BY <2>1, <2>3 DEF BellsFit
    <3>2. Told(p2, q, nicProd, n + 1, rung + c + 1)
      BY <1>1, <3>1, AppendTold
    <3>3. rung + (c + 1) = rung + c + 1
      OBVIOUS
    <3> QED  BY <2>2, <2>3, <3>2, <3>3
  <2>4. CASE ~IsWrite(w, "bell", q)
    <3>1. Told(ps, q, nicProd, n, rung + c) /\ n \in 0 .. n
      BY <2>1 DEF BellsFit
    <3>2. Told(p2, q, nicProd, n + 1, rung + c)
      BY <1>1, <3>1, AppendTold
    <3> QED  BY <2>2, <2>4, <3>2
  <2> QED  BY <2>3, <2>4
<1>9. ASSUME NEW i \in 0 .. n + 1
      PROVE  Told(p2, q, nicProd, i, rung + Cardinality(BellsUpTo(p2, q, i)))
  <2>1. i \in 0 .. n \/ i = n + 1
    OBVIOUS
  <2> QED  BY <1>7, <1>8, <2>1
<1>10. BellsFit(p2, q, nicProd, prod2, rung)
  BY <1>2, <1>4, <1>5, <1>6, <1>9 DEF BellsFit
<1> QED  BY <1>1, <1>10

(* The oldest write arrives: a pointer is known, or a doorbell is rung.    *)
LEMMA TailBells ==
    ASSUME NEW ps \in Seq(RegWrite), NEW n \in Nat, Len(ps) = n + 1, NEW q,
           NEW nicProd \in Nat, NEW prod \in Nat, NEW rung \in Nat,
           BellsFit(ps, q, nicProd, prod, rung),
           NEW nicProd2 \in Nat, NEW rung2 \in Nat,
           nicProd2 = IF IsWrite(ps[1], "prod", q) THEN ps[1].val ELSE nicProd,
           rung2 = IF IsWrite(ps[1], "bell", q) THEN rung + 1 ELSE rung
    PROVE  BellsFit(Tail(ps), q, nicProd2, prod, rung2)
<1>1. PICK p2 : p2 = Tail(ps)
  OBVIOUS
<1>2. /\ Len(p2) = n /\ DOMAIN ps = 1 .. n + 1 /\ DOMAIN p2 = 1 .. n
      /\ \A i \in 1 .. n : p2[i] = ps[i + 1]
      /\ p2 \in Seq(RegWrite)
  BY <1>1
<1>3. 1 \in 1 .. n + 1 /\ \A i \in 1 .. n + 1 : ps[i].val \in Nat
  BY <1>2 DEF RegWrite
<1>4. nicProd <= nicProd2 /\ nicProd2 <= prod
  BY <1>2, <1>3 DEF BellsFit
<1>5. ASSUME NEW i \in Nat, NEW v \in Nat, Told(ps, q, nicProd, i + 1, v)
      PROVE  Told(p2, q, nicProd2, i, v)
  <2>1. CASE v <= nicProd
    BY <1>4, <2>1 DEF Told
  <2>2. ASSUME NEW j \in 1 .. n + 1, j <= i + 1, IsWrite(ps[j], "prod", q), v <= ps[j].val
        PROVE  Told(p2, q, nicProd2, i, v)
    <3>1. CASE j = 1
      BY <2>2, <3>1 DEF Told
    <3>2. CASE j # 1
      <4>1. j - 1 \in 1 .. n /\ j - 1 <= i /\ (j - 1) + 1 = j
        BY <2>2, <3>2
      <4>2. p2[j - 1] = ps[j]
        BY <1>2, <4>1
      <4> QED  BY <1>2, <2>2, <4>1, <4>2 DEF Told
    <3> QED  BY <3>1, <3>2
  <2> QED  BY <1>2, <1>5, <2>1, <2>2 DEF Told
<1>6. ASSUME NEW i \in 1 .. n, IsWrite(p2[i], "prod", q)
      PROVE  /\ nicProd2 <= p2[i].val /\ p2[i].val <= prod
             /\ \A j \in 1 .. n : i < j /\ IsWrite(p2[j], "prod", q) => p2[i].val <= p2[j].val
  <2>1. i + 1 \in 1 .. n + 1 /\ p2[i] = ps[i + 1] /\ 1 < i + 1
    BY <1>2
  <2>2. /\ nicProd <= ps[i + 1].val /\ ps[i + 1].val <= prod
        /\ \A j \in 1 .. n + 1 :
              i + 1 < j /\ IsWrite(ps[j], "prod", q) => ps[i + 1].val <= ps[j].val
    BY <1>2, <1>6, <2>1 DEF BellsFit
  <2>3. IsWrite(ps[1], "prod", q) => ps[1].val <= ps[i + 1].val
    BY <1>2, <1>3, <1>6, <2>1 DEF BellsFit
  <2>4. nicProd2 <= ps[i + 1].val
    BY <2>2, <2>3
  <2>5. ASSUME NEW j \in 1 .. n, i < j, IsWrite(p2[j], "prod", q)
        PROVE  p2[i].val <= p2[j].val
    <3>1. j + 1 \in 1 .. n + 1 /\ i + 1 < j + 1 /\ p2[j] = ps[j + 1]
      BY <1>2, <2>5
    <3> QED  BY <2>1, <2>2, <2>5, <3>1
  <2> QED  BY <2>1, <2>2, <2>4, <2>5
<1>7. Told(p2, q, nicProd2, n, prod)
  <2>1. Told(ps, q, nicProd, n + 1, prod)
    BY DEF BellsFit
  <2> QED  BY <1>5, <2>1
<1>8. ASSUME NEW i \in 0 .. n
      PROVE  Told(p2, q, nicProd2, i, rung2 + Cardinality(BellsUpTo(p2, q, i)))
  <2>0. i \in Nat /\ i + 1 \in 0 .. n + 1
    OBVIOUS
  <2>1. PICK c \in Nat : c = Cardinality(BellsUpTo(p2, q, i))
    BY <1>2, <2>0, BellsFinite
  <2>2. /\ IsWrite(ps[1], "bell", q) => Cardinality(BellsUpTo(ps, q, i + 1)) = c + 1
        /\ ~IsWrite(ps[1], "bell", q) => Cardinality(BellsUpTo(ps, q, i + 1)) = c
    BY <1>1, <2>1, TailCount
  <2>3. rung2 + c = rung + Cardinality(BellsUpTo(ps, q, i + 1))
    BY <2>2
  <2>4. Told(ps, q, nicProd, i + 1, rung + Cardinality(BellsUpTo(ps, q, i + 1)))
    BY <2>0 DEF BellsFit
  <2>5. Told(ps, q, nicProd, i + 1, rung2 + c) /\ rung2 + c \in Nat
    BY <2>3, <2>4
  <2> QED  BY <1>5, <2>0, <2>1, <2>5
<1>9. BellsFit(p2, q, nicProd2, prod, rung2)
  BY <1>2, <1>4, <1>6, <1>7, <1>8 DEF BellsFit
<1> QED  BY <1>1, <1>9
-----------------------------------------------------------------------------
(* The doorbells already rung do not exceed the pointer.                   *)
LEMMA OwedNow ==
    ASSUME NEW ps \in Seq(RegWrite), NEW q, NEW nicProd \in Nat, NEW prod, NEW rung \in Nat,
           BellsFit(ps, q, nicProd, prod, rung)
    PROVE  rung <= nicProd
<1>1. DOMAIN ps = 1 .. Len(ps) /\ Len(ps) \in Nat /\ 0 \in 0 .. Len(ps)
  OBVIOUS
<1>2. BellsUpTo(ps, q, 0) = {}
  BY <1>1 DEF BellsUpTo
<1>3. Cardinality(BellsUpTo(ps, q, 0)) = 0
  BY <1>2, FS_EmptySet
<1>4. Told(ps, q, nicProd, 0, rung)
  BY <1>1, <1>3 DEF BellsFit
<1> QED  BY <1>1, <1>4 DEF Told

(* A write is posted: of another kind, a pointer by a sender that owes the *)
(* doorbell from now on, or the doorbell a sender owes.                    *)
LEMMA OwedAppend ==
    ASSUME NEW ps \in Seq(RegWrite), NEW w \in RegWrite, NEW q,
           NEW nicProd \in Nat, NEW prod \in Nat, NEW prod2 \in Nat, NEW rung \in Nat,
           NEW owing, NEW owing2, Owed(ps, q, nicProd, prod, rung, owing),
           \/ ~IsWrite(w, "prod", q) /\ ~IsWrite(w, "bell", q) /\ prod2 = prod /\ owing2 = owing
           \/ /\ w = Write("prod", q, prod2) /\ prod2 = prod + 1
              /\ \E s : s \notin owing /\ owing2 = owing \union {s}
           \/ /\ w = Write("bell", q, 0) /\ prod2 = prod
              /\ \E s \in owing : owing2 = owing \ {s}
    PROVE  Owed(Append(ps, w), q, nicProd, prod2, rung, owing2)
<1>0. PICK n \in Nat : n = Len(ps)
  OBVIOUS
<1>1. PICK p2 : p2 = Append(ps, w) /\ Len(p2) = n + 1
  <2>1. Len(Append(ps, w)) = n + 1
    BY <1>0
  <2> QED  BY <2>1
<1>2. PICK c \in Nat : c = Cardinality(BellsUpTo(ps, q, n))
  BY <1>0, BellsFinite
<1>3. IsFiniteSet(owing) /\ BellsFit(ps, q, nicProd, prod, rung)
  BY DEF Owed
<1>4. PICK k \in Nat : k = Cardinality(owing)
  BY <1>3, FS_CardinalityType
<1>5. rung + c + k = prod
  BY <1>0, <1>2, <1>4 DEF Owed
<1>6. /\ IsWrite(w, "bell", q) => Cardinality(BellsUpTo(p2, q, n + 1)) = c + 1
      /\ ~IsWrite(w, "bell", q) => Cardinality(BellsUpTo(p2, q, n + 1)) = c
  BY <1>0, <1>1, <1>2, AppendCount
<1>7. CASE ~IsWrite(w, "prod", q) /\ ~IsWrite(w, "bell", q) /\ prod2 = prod /\ owing2 = owing
  <2>0. prod <= prod2
    BY <1>7
  <2>1. BellsFit(p2, q, nicProd, prod2, rung)
    BY <1>0, <1>1, <1>3, <1>7, <2>0, AppendBells
  <2> QED  BY <1>1, <1>3, <1>4, <1>5, <1>6, <1>7, <2>1 DEF Owed
<1>8. ASSUME w = Write("prod", q, prod2), prod2 = prod + 1,
             NEW s, s \notin owing, owing2 = owing \union {s}
      PROVE  Owed(p2, q, nicProd, prod2, rung, owing2)
  <2>1. ~IsWrite(w, "bell", q) /\ w.val = prod2 /\ prod <= prod2
    BY <1>8 DEF IsWrite, Write
  <2>2. BellsFit(p2, q, nicProd, prod2, rung)
    BY <1>0, <1>1, <1>3, <1>8, <2>1, AppendBells
  <2>3. IsFiniteSet(owing2) /\ Cardinality(owing2) = k + 1
    BY <1>3, <1>4, <1>8, FS_AddElement
  <2>4. Cardinality(BellsUpTo(p2, q, Len(p2))) = c
    BY <1>1, <1>6, <2>1
  <2>5. rung + c + (k + 1) = prod2
    BY <1>0, <1>5, <1>8
  <2> QED  BY <2>2, <2>3, <2>4, <2>5 DEF Owed
<1>9. ASSUME w = Write("bell", q, 0), prod2 = prod, NEW s \in owing, owing2 = owing \ {s}
      PROVE  Owed(p2, q, nicProd, prod2, rung, owing2)
  <2>1. IsWrite(w, "bell", q) /\ ~IsWrite(w, "prod", q)
    BY <1>9 DEF IsWrite, Write
  <2>2. IsFiniteSet(owing2) /\ Cardinality(owing2) = k - 1
    BY <1>3, <1>4, <1>9, FS_RemoveElement
  <2>3. k - 1 \in Nat
    BY <2>2, FS_CardinalityType
  <2>4. rung + Cardinality(BellsUpTo(ps, q, n)) + 1 <= prod /\ prod <= prod2
    BY <1>2, <1>5, <1>9, <2>3
  <2>5. BellsFit(p2, q, nicProd, prod2, rung)
    BY <1>0, <1>1, <1>2, <1>3, <1>9, <2>1, <2>4, AppendBells
  <2>6. Cardinality(BellsUpTo(p2, q, Len(p2))) = c + 1
    BY <1>1, <1>6, <2>1
  <2>7. rung + (c + 1) + (k - 1) = prod2
    BY <1>0, <1>5, <1>9
  <2> QED  BY <2>2, <2>5, <2>6, <2>7 DEF Owed
<1> QED  BY <1>1, <1>7, <1>8, <1>9

(* A write arrives; a doorbell among them is rung.                         *)
LEMMA OwedTail ==
    ASSUME NEW ps \in Seq(RegWrite), NEW n \in Nat, Len(ps) = n + 1, NEW q,
           NEW nicProd \in Nat, NEW prod \in Nat, NEW rung \in Nat, NEW owing,
           Owed(ps, q, nicProd, prod, rung, owing),
           NEW nicProd2 \in Nat, NEW rung2 \in Nat,
           nicProd2 = IF IsWrite(ps[1], "prod", q) THEN ps[1].val ELSE nicProd,
           rung2 = IF IsWrite(ps[1], "bell", q) THEN rung + 1 ELSE rung
    PROVE  Owed(Tail(ps), q, nicProd2, prod, rung2, owing)
<1>1. PICK p2 : p2 = Tail(ps) /\ Len(p2) = n /\ p2 \in Seq(RegWrite)
  <2>1. Len(Tail(ps)) = n /\ Tail(ps) \in Seq(RegWrite)
    OBVIOUS
  <2> QED  BY <2>1
<1>2. PICK c \in Nat : c = Cardinality(BellsUpTo(p2, q, n))
  BY <1>1, BellsFinite
<1>3. IsFiniteSet(owing) /\ BellsFit(ps, q, nicProd, prod, rung)
  BY DEF Owed
<1>4. PICK k \in Nat : k = Cardinality(owing)
  BY <1>3, FS_CardinalityType
<1>5. /\ IsWrite(ps[1], "bell", q) => Cardinality(BellsUpTo(ps, q, n + 1)) = c + 1
      /\ ~IsWrite(ps[1], "bell", q) => Cardinality(BellsUpTo(ps, q, n + 1)) = c
  <2>1. n \in 0 .. n
    OBVIOUS
  <2> QED  BY <1>1, <1>2, <2>1, TailCount
<1>6. rung + Cardinality(BellsUpTo(ps, q, n + 1)) + k = prod
  BY <1>4 DEF Owed
<1>7. rung2 + c + k = prod
  BY <1>5, <1>6
<1>8. BellsFit(p2, q, nicProd2, prod, rung2)
  BY <1>1, <1>3, TailBells
<1> QED  BY <1>1, <1>2, <1>3, <1>4, <1>7, <1>8 DEF Owed

(* What the doorbells and the packets come to.                             *)
LEMMA OwedNumbers ==
    ASSUME IInv, BellsOwed, NEW q \in Ring
    PROVE  \E c \in Nat :
              /\ c = Cardinality(BellsUpTo(posted, q, Len(posted)))
              /\ nicTx[q].sent \in Nat /\ nicTx[q].bells \in Nat /\ nicTx[q].prod \in Nat
              /\ nicTx[q].sent + nicTx[q].bells <= nicTx[q].prod
              /\ nicTx[q].bells + c <= FullSize
<1>1. /\ nicTx[q].sent \in Nat /\ nicTx[q].bells \in Nat /\ nicTx[q].prod \in Nat
      /\ txProd[q] \in Nat /\ txCons[q] \in Nat /\ cqCons[q] \in Nat /\ nicCq[q].written \in Nat
  BY RingTypes DEF IInv
<1>2. posted \in Seq(RegWrite) /\ Len(posted) \in Nat
  BY DEF IInv, Typing
<1>3. PICK c \in Nat : c = Cardinality(BellsUpTo(posted, q, Len(posted)))
  BY <1>2, BellsFinite
<1>4. PICK k \in Nat : k = Cardinality(Publishing(q))
  BY FS_CardinalityType DEF BellsOwed, BellsOf, Owed
<1>5. nicTx[q].sent + nicTx[q].bells + c + k = txProd[q]
  BY <1>3, <1>4 DEF BellsOwed, BellsOf, Owed, Rung
<1>6. PICK rung \in Nat : rung = Rung(q) /\ rung = nicTx[q].sent + nicTx[q].bells
  BY <1>1 DEF Rung
<1>7. rung <= nicTx[q].prod
  BY <1>1, <1>2, <1>6, OwedNow DEF BellsOwed, BellsOf, Owed
<1>8. /\ txCons[q] <= cqCons[q] /\ cqCons[q] <= nicCq[q].written
      /\ nicCq[q].written = nicTx[q].sent
      /\ txProd[q] <= txCons[q] + FullSize
  BY DEF IInv, PointersInOrder, PointersOf
<1>9. nicTx[q].bells + c <= FullSize
  <2>1. txProd[q] <= nicTx[q].sent + FullSize
    BY <1>1, <1>8, Sizes
  <2> QED  BY <1>1, <1>5, <2>1, Sizes
<1> QED  BY <1>1, <1>3, <1>6, <1>7, <1>9
-----------------------------------------------------------------------------
(* The steps.                                                              *)

(* A step that posts a write.                                              *)
LEMMA PostOwed ==
    ASSUME IInv, BellsOwed, NEW q \in Ring, NEW w \in RegWrite, Post(w), nicTx' = nicTx,
           txProd'[q] \in Nat,
           \/ /\ ~IsWrite(w, "prod", q) /\ ~IsWrite(w, "bell", q)
              /\ txProd'[q] = txProd[q] /\ Publishing(q)' = Publishing(q)
           \/ /\ w = Write("prod", q, txProd'[q]) /\ txProd'[q] = txProd[q] + 1
              /\ \E s : s \notin Publishing(q) /\ Publishing(q)' = Publishing(q) \union {s}
           \/ /\ w = Write("bell", q, 0) /\ txProd'[q] = txProd[q]
              /\ \E s \in Publishing(q) : Publishing(q)' = Publishing(q) \ {s}
    PROVE  BellsOf(q)'
<1>1. posted \in Seq(RegWrite) /\ posted' = Append(posted, w)
  BY DEF IInv, Typing, Post
<1>2. PICK nicProd \in Nat : nicProd = nicTx[q].prod
  BY RingNumbers DEF IInv
<1>3. PICK rung \in Nat : rung = Rung(q)
  BY RingTypes DEF IInv, Rung
<1>4. PICK prod \in Nat : prod = txProd[q]
  BY RingNumbers DEF IInv
<1>5. PICK prod2 \in Nat : prod2 = txProd'[q]
  OBVIOUS
<1>6. PICK owing, owing2 : owing = Publishing(q) /\ owing2 = Publishing(q)'
  OBVIOUS
<1>7. Owed(posted, q, nicProd, prod, rung, owing)
  BY <1>2, <1>3, <1>4, <1>6 DEF BellsOwed, BellsOf
<1>8. \/ ~IsWrite(w, "prod", q) /\ ~IsWrite(w, "bell", q) /\ prod2 = prod /\ owing2 = owing
      \/ /\ w = Write("prod", q, prod2) /\ prod2 = prod + 1
         /\ \E s : s \notin owing /\ owing2 = owing \union {s}
      \/ /\ w = Write("bell", q, 0) /\ prod2 = prod
         /\ \E s \in owing : owing2 = owing \ {s}
  BY <1>4, <1>5, <1>6
<1>9. Owed(Append(posted, w), q, nicProd, prod2, rung, owing2)
  BY <1>1, <1>7, <1>8, OwedAppend
<1>10. Rung(q)' = rung /\ nicTx'[q].prod = nicProd
  BY <1>2, <1>3 DEF Rung
<1> QED  BY <1>1, <1>5, <1>6, <1>9, <1>10 DEF BellsOf

(* A step that does not concern the doorbells.                             *)
LEMMA SameOwed ==
    ASSUME BellsOwed, NEW q \in Ring, UNCHANGED <<posted, nicTx>>, txProd'[q] = txProd[q],
           Publishing(q)' = Publishing(q)
    PROVE  BellsOf(q)'
BY DEF BellsOwed, BellsOf, Rung

(* start_xmit sends: it owes the doorbell from now on.                     *)
LEMMA TransmitsOwed ==
    ASSUME PointerFirst, IInv, BellsOwed, NEW s \in Sender, NEW r \in Ring, Transmits(s, r),
           NEW q \in Ring
    PROVE  BellsOf(q)'
<1>1. /\ txProd \in [Ring -> Nat]
      /\ xmit \in [Sender -> [pc : {"idle", "publish", "wait", "woken"}, ring : Ring \union {None}]]
  BY DEF IInv, Typing, TypeOK
<1>2. /\ xmit[s].pc # "publish" /\ nicTx' = nicTx
      /\ txProd' = [txProd EXCEPT ![r] = @ + 1]
      /\ xmit' = [xmit EXCEPT ![s] = [pc |-> "publish", ring |-> r]]
      /\ Post(Publication(r, txProd[r] + 1)[1])
  BY DEF Transmits, TxTransmit, nicVars
<1>3. Publication(r, txProd[r] + 1)[1] = Write("prod", r, txProd'[r]) /\ txProd'[r] = txProd[r] + 1
  BY <1>1, <1>2 DEF Publication, PointerThenBell
<1>4. txProd'[q] \in Nat /\ Write("prod", r, txProd'[r]) \in RegWrite
  BY <1>1, <1>2, WritesTyped
<1>5. CASE q = r
  <2>1. s \notin Publishing(q) /\ Publishing(q)' = Publishing(q) \union {s}
    BY <1>1, <1>2, <1>5 DEF Publishing
  <2> QED  BY <1>2, <1>3, <1>4, <1>5, <2>1, PostOwed
<1>6. CASE q # r
  <2>1. Publishing(q)' = Publishing(q)
    BY <1>1, <1>2, <1>6 DEF Publishing
  <2>2. txProd'[q] = txProd[q]
    BY <1>1, <1>2, <1>6
  <2>3. /\ ~IsWrite(Write("prod", r, txProd'[r]), "prod", q)
        /\ ~IsWrite(Write("prod", r, txProd'[r]), "bell", q)
    BY <1>6 DEF IsWrite, Write
  <2> QED  BY <1>2, <1>3, <1>4, <2>1, <2>2, <2>3, PostOwed
<1> QED  BY <1>5, <1>6

(* The second write of write_prod_ptr: the doorbell.                       *)
LEMMA FinishOwed ==
    ASSUME PointerFirst, IInv, BellsOwed, NEW s \in Sender, FinishPublish(s), NEW q \in Ring
    PROVE  BellsOf(q)'
<1>1. PICK r \in Ring : r = xmit[s].ring
  BY DEF FinishPublish, IInv, Typing
<1>2. /\ txProd \in [Ring -> Nat]
      /\ xmit \in [Sender -> [pc : {"idle", "publish", "wait", "woken"}, ring : Ring \union {None}]]
  BY DEF IInv, Typing, TypeOK
<1>3. /\ xmit[s].pc = "publish" /\ nicTx' = nicTx /\ txProd' = txProd
      /\ xmit' = [xmit EXCEPT ![s] = [pc |-> "idle", ring |-> None]]
      /\ Post(Write("bell", r, 0))
  BY <1>1 DEF FinishPublish, nicVars, ringVars, Publication, PointerThenBell
<1>4. txProd'[q] \in Nat /\ Write("bell", r, 0) \in RegWrite
  BY <1>2, <1>3, WritesTyped
<1>5. CASE q = r
  <2>1. s \in Publishing(q) /\ Publishing(q)' = Publishing(q) \ {s}
    BY <1>1, <1>2, <1>3, <1>5 DEF Publishing
  <2> QED  BY <1>3, <1>4, <1>5, <2>1, PostOwed
<1>6. CASE q # r
  <2>1. Publishing(q)' = Publishing(q)
    BY <1>1, <1>2, <1>3, <1>6 DEF Publishing
  <2>2. ~IsWrite(Write("bell", r, 0), "prod", q) /\ ~IsWrite(Write("bell", r, 0), "bell", q)
    BY <1>6 DEF IsWrite, Write
  <2> QED  BY <1>3, <1>4, <2>1, <2>2, PostOwed
<1> QED  BY <1>5, <1>6

(* The steps of the interrupt handler.                                     *)
LEMMA HandlerOwed ==
    ASSUME IInv, BellsOwed, HandlerStep, NEW q \in Ring
    PROVE  BellsOf(q)'
<1>1. nicTx' = nicTx /\ txProd' = txProd /\ txProd[q] \in Nat
  BY RingNumbers
  DEF HandlerStep, TakeInterrupt, FinishEq, ArmEq, Completes, Advances, nicVars, ringVars, IInv
<1>2. Publishing(q)' = Publishing(q)
  <2>1. CASE xmit' = xmit
    BY <2>1 DEF Publishing
  <2>2. ASSUME NEW r \in Ring, Advances(r) PROVE Publishing(q)' = Publishing(q)
    <3>1. xmit \in [Sender -> [pc : {"idle", "publish", "wait", "woken"}, ring : Ring \union {None}]]
      BY DEF IInv, Typing, TypeOK
    <3>2. xmit' = [t \in Sender |->
              IF t \in Woken(r) THEN [xmit[t] EXCEPT !.pc = "woken"] ELSE xmit[t]]
      BY <2>2 DEF Advances
    <3>3. \A t \in Woken(r) : xmit[t].pc = "wait"
      BY DEF Woken
    <3>4. \A t \in Sender : t \in Publishing(q)' <=> t \in Publishing(q)
      BY <3>1, <3>2, <3>3 DEF Publishing
    <3> QED  BY <3>4 DEF Publishing
  <2> QED  BY <2>1, <2>2 DEF HandlerStep, TakeInterrupt, FinishEq, ArmEq, Completes
<1>3. CASE posted' = posted
  BY <1>1, <1>2, <1>3, SameOwed
<1>4. ASSUME NEW w \in RegWrite, Post(w), w.reg # "prod", w.reg # "bell"
      PROVE  BellsOf(q)'
  <2>1. ~IsWrite(w, "prod", q) /\ ~IsWrite(w, "bell", q)
    BY <1>4 DEF IsWrite
  <2> QED  BY <1>1, <1>2, <1>4, <2>1, PostOwed
<1>5. ASSUME NEW r \in Ring, Completes(r) \/ Advances(r)
      PROVE  \E w \in RegWrite : Post(w) /\ w.reg # "prod" /\ w.reg # "bell"
  <2>1. /\ Write("cqCons", r, nicCq[r].written) \in RegWrite /\ Write("cqArm", r, 0) \in RegWrite
        /\ Write("cqCons", r, nicCq[r].written).reg = "cqCons" /\ Write("cqArm", r, 0).reg = "cqArm"
    BY RingNumbers, WritesTyped DEF Write, IInv
  <2> QED  BY <1>5, <2>1 DEF Completes, Advances
<1>6. ASSUME FinishEq \/ ArmEq
      PROVE  \E w \in RegWrite : Post(w) /\ w.reg # "prod" /\ w.reg # "bell"
  <2>1. handler.ptr \in Nat
    BY DEF IInv, Typing, TypeOK
  <2>2. /\ Write("eqCons", None, handler.ptr) \in RegWrite /\ Write("eqArm", None, 0) \in RegWrite
        /\ Write("eqCons", None, handler.ptr).reg = "eqCons" /\ Write("eqArm", None, 0).reg = "eqArm"
    BY <2>1, WritesTyped DEF Write
  <2> QED  BY <1>6, <2>2 DEF FinishEq, ArmEq
<1> QED  BY <1>3, <1>4, <1>5, <1>6 DEF HandlerStep, TakeInterrupt
(* What an arriving write does to the doorbells: with half a ring of them  *)
(* at most, the hardware's ring of doorbells takes every one.              *)
LEMMA ArriveRung ==
    ASSUME FullSize <= BellDepth, IInv, BellsOwed, DeliverWrite, NEW q \in Ring
    PROVE  Rung(q)' = IF IsWrite(posted[1], "bell", q) THEN Rung(q) + 1 ELSE Rung(q)
<1>1. nicTx \in [Ring -> NicTxType]
  BY TypeGroups DEF IInv, Typing, NicTypes
<1>2. PICK w \in RegWrite : w = posted[1] /\ w = Head(posted)
  BY ArriveTyped DEF IInv, Typing, TypeOK
<1>3. DeliverTx(w) \/ DeliverCq(w) \/ DeliverEq(w)
  BY <1>2 DEF DeliverWrite
<1>4. w.reg \in {"prod", "bell", "cqCons", "cqArm"} => w.ring \in Ring
  BY DEF RegWrite
<1>5. CASE DeliverCq(w) \/ DeliverEq(w)
  <2>1. nicTx' = nicTx /\ w.reg # "bell"
    BY <1>5 DEF DeliverCq, DeliverEq
  <2> QED  BY <1>2, <2>1 DEF Rung, IsWrite
<1>6. CASE w.reg = "prod" /\ DeliverTx(w)
  <2>1. nicTx' = [nicTx EXCEPT ![w.ring].prod = w.val]
    BY <1>6 DEF DeliverTx
  <2>2. nicTx'[q].sent = nicTx[q].sent /\ nicTx'[q].bells = nicTx[q].bells
    BY <1>1, <2>1 DEF NicTxType
  <2> QED  BY <1>2, <1>6, <2>2 DEF Rung, IsWrite
<1>7. CASE w.reg = "bell" /\ DeliverTx(w)
  <2>1. CASE w.ring # q
    <3>1. nicTx' = [nicTx EXCEPT ![w.ring].bells = @ + 1] \/ nicTx' = nicTx
      BY <1>7 DEF DeliverTx
    <3>2. nicTx'[q] = nicTx[q]
      BY <1>1, <2>1, <3>1
    <3> QED  BY <1>2, <2>1, <3>2 DEF Rung, IsWrite
  <2>2. CASE w.ring = q
    <3>1. PICK c \in Nat :
            /\ c = Cardinality(BellsUpTo(posted, q, Len(posted)))
            /\ nicTx[q].sent \in Nat /\ nicTx[q].bells \in Nat
            /\ nicTx[q].bells + c <= FullSize
      BY OwedNumbers
    <3>2. c # 0
      <4>1. posted \in Seq(RegWrite) /\ posted # <<>>
        BY DEF IInv, Typing, DeliverWrite
      <4>2. 1 \in DOMAIN posted /\ 1 <= Len(posted) /\ Len(posted) \in Nat
        BY <4>1
      <4>3. 1 \in BellsUpTo(posted, q, Len(posted))
        BY <1>2, <1>7, <2>2, <4>2 DEF BellsUpTo, IsWrite
      <4>4. IsFiniteSet(BellsUpTo(posted, q, Len(posted)))
        BY <4>1, <4>2, BellsFinite
      <4> QED  BY <3>1, <4>3, <4>4, FS_EmptySet
    <3>3. nicTx[q].bells < BellDepth
      BY <3>1, <3>2, Sizes, SizeAssumption
    <3>4. nicTx' = [nicTx EXCEPT ![q].bells = @ + 1]
      BY <1>7, <2>2, <3>3 DEF DeliverTx
    <3>5. nicTx'[q].sent = nicTx[q].sent /\ nicTx'[q].bells = nicTx[q].bells + 1
      BY <1>1, <3>4 DEF NicTxType
    <3>6. Rung(q)' = Rung(q) + 1
      <4>1. PICK a \in Nat, b \in Nat : nicTx[q].sent = a /\ nicTx[q].bells = b
        BY <3>1
      <4>2. Rung(q) = a + b /\ Rung(q)' = a + (b + 1)
        BY <3>5, <4>1 DEF Rung
      <4> QED  BY <4>1, <4>2
    <3>7. IsWrite(posted[1], "bell", q)
      BY <1>2, <1>7, <2>2 DEF IsWrite
    <3> QED  BY <3>6, <3>7
  <2> QED  BY <2>1, <2>2
<1> QED  BY <1>3, <1>5, <1>6, <1>7 DEF DeliverTx

(* A posted write arrives.                                                 *)
LEMMA ArriveOwed ==
    ASSUME FullSize <= BellDepth, IInv, BellsOwed, DeliverWrite, NEW q \in Ring
    PROVE  BellsOf(q)'
<1>1. /\ posted \in Seq(RegWrite) /\ posted # <<>> /\ posted' = Tail(posted)
      /\ UNCHANGED <<txProd, xmit>>
  BY DEF IInv, Typing, DeliverWrite, driverVars, ringVars
<1>2. PICK n \in Nat : Len(posted) = n + 1
  <2>1. Len(posted) \in Nat \ {0} /\ Len(posted) - 1 \in Nat /\ Len(posted) = (Len(posted) - 1) + 1
    BY <1>1
  <2> QED  BY <2>1
<1>3. PICK nicProd \in Nat : nicProd = nicTx[q].prod
  BY RingNumbers DEF IInv
<1>4. PICK rung \in Nat : rung = Rung(q)
  BY RingTypes DEF IInv, Rung
<1>5. PICK prod \in Nat : prod = txProd[q]
  BY RingNumbers DEF IInv
<1>6. PICK owing : owing = Publishing(q)
  OBVIOUS
<1>7. Owed(posted, q, nicProd, prod, rung, owing)
  BY <1>3, <1>4, <1>5, <1>6 DEF BellsOwed, BellsOf
<1>8. PICK rung2 \in Nat :
        rung2 = Rung(q)' /\ rung2 = IF IsWrite(posted[1], "bell", q) THEN rung + 1 ELSE rung
  BY <1>4, ArriveRung
<1>9. PICK nicProd2 \in Nat :
        /\ nicProd2 = nicTx'[q].prod
        /\ nicProd2 = IF IsWrite(posted[1], "prod", q) THEN posted[1].val ELSE nicProd
  <2>1. posted[1].val \in Nat
    BY <1>1 DEF RegWrite
  <2> QED  BY <1>3, <2>1, ArriveStep
<1>10. Owed(Tail(posted), q, nicProd2, prod, rung2, owing)
  BY <1>1, <1>2, <1>7, <1>8, <1>9, OwedTail
<1>11. Publishing(q)' = owing /\ txProd'[q] = prod
  BY <1>1, <1>5, <1>6 DEF Publishing
<1> QED  BY <1>1, <1>8, <1>9, <1>10, <1>11 DEF BellsOf

(* A doorbell served finds its packet.                                     *)
LEMMA ServeOwed ==
    ASSUME IInv, BellsOwed, NEW r \in Ring, ServeBell(r), NEW q \in Ring
    PROVE  BellsOf(q)'
<1>1. nicTx \in [Ring -> NicTxType]
  BY TypeGroups DEF IInv, Typing, NicTypes
<1>2. /\ UNCHANGED <<posted, txProd, xmit>> /\ nicTx[r].bells > 0
      /\ nicTx' = [nicTx EXCEPT ![r].bells = @ - 1,
                      ![r].sent = IF Published(r) THEN @ + 1 ELSE @]
  BY DEF ServeBell, driverVars, ringVars
<1>3. /\ nicTx[r].sent \in Nat /\ nicTx[r].bells \in Nat /\ nicTx[r].prod \in Nat
      /\ nicTx[r].sent + nicTx[r].bells <= nicTx[r].prod
  BY OwedNumbers
<1>4. Published(r)
  BY <1>2, <1>3 DEF Published
<1>5. nicTx' = [nicTx EXCEPT ![r].bells = @ - 1, ![r].sent = @ + 1]
  BY <1>2, <1>4
<1>6. Rung(q)' = Rung(q) /\ nicTx'[q].prod = nicTx[q].prod
  <2>1. CASE q = r
    <3>1. /\ nicTx'[q].bells = nicTx[q].bells - 1 /\ nicTx'[q].sent = nicTx[q].sent + 1
          /\ nicTx'[q].prod = nicTx[q].prod
      BY <1>1, <1>5, <2>1 DEF NicTxType
    <3> QED  BY <1>3, <2>1, <3>1 DEF Rung
  <2>2. CASE q # r
    <3>1. nicTx'[q] = nicTx[q]
      BY <1>1, <1>5, <2>2
    <3> QED  BY <3>1 DEF Rung
  <2> QED  BY <2>1, <2>2
<1>7. Publishing(q)' = Publishing(q)
  BY <1>2 DEF Publishing
<1> QED  BY <1>2, <1>6, <1>7 DEF BellsOwed, BellsOf

(* Nothing is owed at first.                                               *)
LEMMA OwedInit == Init => BellsOwed
<1> SUFFICES ASSUME Init, NEW r \in Ring PROVE BellsOf(r)
  BY DEF BellsOwed
<1>1. posted = <<>> /\ nicTx[r].prod = 0 /\ nicTx[r].bells = 0 /\ nicTx[r].sent = 0 /\ txProd[r] = 0
  BY DEF Init
<1>2. Publishing(r) = {}
  BY DEF Init, Publishing
<1>3. \A i \in 0 .. 0 : BellsUpTo(<<>>, r, i) = {}
  BY DEF BellsUpTo
<1>4. Len(<<>>) = 0 /\ Rung(r) = 0
  BY <1>1 DEF Rung
<1>5. Told(<<>>, r, 0, 0, 0)
  BY DEF Told
<1>6. Cardinality({}) = 0 /\ IsFiniteSet({})
  BY FS_EmptySet
<1>7. BellsFit(<<>>, r, 0, 0, 0)
  BY <1>3, <1>5, <1>6 DEF BellsFit
<1>8. BellsUpTo(<<>>, r, Len(<<>>)) = {}
  BY <1>3, <1>4
<1>9. Owed(<<>>, r, 0, 0, 0, {})
  BY <1>6, <1>7, <1>8 DEF Owed
<1> QED  BY <1>1, <1>2, <1>4, <1>9 DEF BellsOf

(* Every step keeps the account.                                           *)
LEMMA OwedKept ==
    PointerFirst /\ FullSize <= BellDepth /\ IInv /\ BellsOwed /\ [Next]_vars => BellsOwed'
<1> SUFFICES ASSUME PointerFirst, FullSize <= BellDepth, IInv, BellsOwed, [Next]_vars, NEW q \in Ring
             PROVE  BellsOf(q)'
  BY DEF BellsOwed
<1>1. ASSUME NEW s \in Sender, NEW r \in Ring, Waits(s, r)
      PROVE  BellsOf(q)'
  <2>1. /\ xmit \in [Sender -> [pc : {"idle", "publish", "wait", "woken"}, ring : Ring \union {None}]]
        /\ xmit[s].pc # "publish" /\ xmit' = [xmit EXCEPT ![s] = [pc |-> "wait", ring |-> r]]
        /\ UNCHANGED <<posted, nicTx, txProd>>
    BY <1>1 DEF IInv, Typing, TypeOK, Waits, WaitForSpace, nicVars
  <2>2. Publishing(q)' = Publishing(q)
    BY <2>1 DEF Publishing
  <2> QED  BY <2>1, <2>2, SameOwed
<1>2. CASE SenderStep
  BY <1>1, <1>2, TransmitsOwed, FinishOwed DEF SenderStep
<1>3. CASE UNCHANGED <<posted, nicTx, txProd, xmit>>
  <2>1. Publishing(q)' = Publishing(q)
    BY <1>3 DEF Publishing
  <2> QED  BY <1>3, <2>1, SameOwed
<1>4. ASSUME \/ WriteEvent \/ CommitEvent \/ UNCHANGED vars
             \/ \E r \in Ring : CommitCompletion(r)
      PROVE  UNCHANGED <<posted, nicTx, txProd, xmit>>
  BY <1>4 DEF WriteEvent, CommitEvent, CommitCompletion, vars, driverVars, ringVars, nicVars
<1> QED  BY <1>2, <1>3, <1>4, HandlerOwed, ArriveOwed, ServeOwed, Steps DEF NicStep

(* Every doorbell that is served finds its descriptor, and none is dropped *)
(* on a full ring of doorbells, if the pointer is written first and half a *)
(* ring is no more than the hardware's ring of doorbells takes             *)
(* (write_prod_ptr of the schedule version, mqnic.py:838-843; there 256 of *)
(* each).                                                                  *)
THEOREM DoorbellsServed == PointerFirst /\ FullSize <= BellDepth => (Spec => []DoorbellsMatch)
<1> SUFFICES ASSUME PointerFirst, FullSize <= BellDepth PROVE Spec => []DoorbellsMatch
  OBVIOUS
<1>1. ASSUME IInv, BellsOwed PROVE DoorbellsMatch
  <2> SUFFICES ASSUME NEW r \in Ring
               PROVE  /\ nicTx[r].bells <= nicTx[r].prod - nicTx[r].sent
                      /\ nicTx[r].bells + Cardinality(BellsPosted(r)) <= BellDepth
    BY DEF DoorbellsMatch
  <2>1. PICK c \in Nat :
          /\ c = Cardinality(BellsUpTo(posted, r, Len(posted)))
          /\ nicTx[r].sent \in Nat /\ nicTx[r].bells \in Nat /\ nicTx[r].prod \in Nat
          /\ nicTx[r].sent + nicTx[r].bells <= nicTx[r].prod
          /\ nicTx[r].bells + c <= FullSize
    BY <1>1, OwedNumbers
  <2>2. BellsPosted(r) = BellsUpTo(posted, r, Len(posted))
    <3>1. posted \in Seq(RegWrite)
      BY <1>1 DEF IInv, Typing
    <3>2. \A i \in DOMAIN posted : i <= Len(posted)
      BY <3>1
    <3> QED  BY <3>2 DEF BellsPosted, BellsUpTo, IsWrite
  <2> QED  BY <2>1, <2>2, Sizes, SizeAssumption
<1>2. Init => BellsOwed
  BY OwedInit
<1>3. IInv /\ BellsOwed /\ [Next]_vars => BellsOwed'
  BY OwedKept
<1> QED  BY <1>1, <1>2, <1>3, Invariance, PTL DEF Spec

-----------------------------------------------------------------------------
(* The pool of packet buffers is a list of free buffers and the slots of   *)
(* all rings.  Taking a buffer into an empty slot and giving back a run of *)
(* full slots keep it whole: none leaks, none is freed twice, none carries *)
(* two packets.                                                            *)
Slot == 0 .. TxSize - 1
HeldIn(info) == {b \in Nat : \E r \in Ring, i \in Slot : info[r][i] = b}

OnePlaceEach(info) ==
    \A q, r \in Ring, i, j \in Slot :
        info[q][i] # None /\ info[q][i] = info[r][j] => q = r /\ i = j

PoolOf(free, info, n) ==
    /\ n \in Nat
    /\ free \in Seq(1 .. n)
    /\ info \in [Ring -> [Slot -> (1 .. n) \union {None}]]
    /\ \A j, k \in DOMAIN free : free[j] = free[k] => j = k
    /\ \A k \in DOMAIN free : free[k] \notin HeldIn(info)
    /\ \A b \in 1 .. n : b \in HeldIn(info) \/ \E k \in DOMAIN free : free[k] = b
    /\ OnePlaceEach(info)

Put(info, r, s, b) == [info EXCEPT ![r][s] = b]
Given(info, r, slots, k) == [j \in 1 .. k |-> info[r][slots[j]]]
Emptied(info, r, slots, k) ==
    [info EXCEPT ![r] =
        [i \in Slot |-> IF \E j \in 1 .. k : i = slots[j] THEN None ELSE info[r][i]]]

Pool == PoolOf(freePackets, txInfo, allocated)

-----------------------------------------------------------------------------
(* A buffer nobody has goes into an empty slot.                            *)
LEMMA HeldGrows ==
    ASSUME NEW n \in Nat, NEW info \in [Ring -> [Slot -> (1 .. n) \union {None}]],
           NEW r \in Ring, NEW s \in Slot, info[r][s] = None, NEW b \in Nat,
           NEW new, new = Put(info, r, s, b), NEW c
    PROVE  c \in HeldIn(new) <=> c \in HeldIn(info) \/ c = b
<1>1. /\ new[r][s] = b
      /\ \A q \in Ring, i \in Slot : q # r \/ i # s => new[q][i] = info[q][i]
  BY DEF Put
<1>2. ASSUME c \in Nat
      PROVE  c \in HeldIn(new) <=> c \in HeldIn(info) \/ c = b
  <2>1. c # None
    BY <1>2, NoneAssumption
  <2>2. ASSUME NEW q \in Ring, NEW i \in Slot, info[q][i] = c
        PROVE  c \in HeldIn(new)
    <3>1. q # r \/ i # s
      BY <2>1, <2>2
    <3> QED  BY <1>1, <1>2, <2>2, <3>1 DEF HeldIn
  <2>3. ASSUME NEW q \in Ring, NEW i \in Slot, new[q][i] = c
        PROVE  c \in HeldIn(info) \/ c = b
    BY <1>1, <1>2, <2>3 DEF HeldIn
  <2>4. b \in HeldIn(new)
    BY <1>1 DEF HeldIn
  <2> QED  BY <1>2, <2>2, <2>3, <2>4 DEF HeldIn
<1>3. HeldIn(new) \subseteq Nat /\ HeldIn(info) \subseteq Nat
  BY DEF HeldIn
<1> QED  BY <1>2, <1>3

(* It then has no second place. *)
LEMMA OnePlaceKept ==
    ASSUME NEW n \in Nat, NEW info \in [Ring -> [Slot -> (1 .. n) \union {None}]],
           NEW r \in Ring, NEW s \in Slot, info[r][s] = None,
           NEW b \in Nat, b \notin HeldIn(info), OnePlaceEach(info),
           NEW new, new = Put(info, r, s, b)
    PROVE  OnePlaceEach(new)
<1>1. /\ new[r][s] = b
      /\ \A p \in Ring, k \in Slot : p # r \/ k # s => new[p][k] = info[p][k]
  BY DEF Put
<1>2. \A p \in Ring, k \in Slot : info[p][k] # b
  BY DEF HeldIn
<1> SUFFICES ASSUME NEW q \in Ring, NEW t \in Ring, NEW i \in Slot, NEW j \in Slot,
                    new[q][i] # None, new[q][i] = new[t][j]
             PROVE  q = t /\ i = j
  BY DEF OnePlaceEach
<1>3. CASE (q = r /\ i = s) \/ (t = r /\ j = s)
  BY <1>1, <1>2, <1>3
<1>4. CASE ~((q = r /\ i = s) \/ (t = r /\ j = s))
  BY <1>1, <1>4 DEF OnePlaceEach
<1> QED  BY <1>3, <1>4

(* alloc_pkt takes the oldest free buffer. *)
LEMMA TakeFree ==
    ASSUME NEW free, NEW info, NEW n, PoolOf(free, info, n),
           free # <<>>, NEW r \in Ring, NEW s \in Slot, info[r][s] = None
    PROVE  PoolOf(Tail(free), [info EXCEPT ![r][s] = Head(free)], n)
<1> DEFINE new == [info EXCEPT ![r][s] = Head(free)]
<1>1. /\ n \in Nat /\ free \in Seq(1 .. n)
      /\ info \in [Ring -> [Slot -> (1 .. n) \union {None}]]
  BY DEF PoolOf
<1>2. PICK m \in Nat : Len(free) = m + 1
  <2>1. Len(free) \in Nat \ {0} /\ Len(free) - 1 \in Nat /\ Len(free) = (Len(free) - 1) + 1
    BY <1>1
  <2> QED  BY <2>1
<1>3. PICK b \in 1 .. n : b = Head(free) /\ b = free[1]
  BY <1>1
<1>4. PICK rest \in Seq(1 .. n) : rest = Tail(free)
  <2>1. Tail(free) \in Seq(1 .. n)
    BY <1>1
  <2> QED  BY <2>1
<1>5. /\ DOMAIN free = 1 .. m + 1 /\ DOMAIN rest = 1 .. m
      /\ \A k \in 1 .. m : rest[k] = free[k + 1]
  BY <1>1, <1>2, <1>4
<1>6. new \in [Ring -> [Slot -> (1 .. n) \union {None}]] /\ new = Put(info, r, s, b)
  BY <1>1, <1>3 DEF Put
<1> HIDE DEF new
<1>7. b \in Nat /\ b \notin HeldIn(info)
  <2>1. 1 \in DOMAIN free
    BY <1>2, <1>5
  <2> QED  BY <1>3, <2>1 DEF PoolOf
<1>8. \A c : c \in HeldIn(new) <=> c \in HeldIn(info) \/ c = b
  BY <1>1, <1>6, <1>7, HeldGrows
<1>9. \A k \in 1 .. m : k + 1 \in 1 .. m + 1 /\ 1 \in 1 .. m + 1 /\ k + 1 # 1
  OBVIOUS
<1>10. \A j, k \in 1 .. m : rest[j] = rest[k] => j = k
  <2> SUFFICES ASSUME NEW j \in 1 .. m, NEW k \in 1 .. m, rest[j] = rest[k] PROVE j = k
    OBVIOUS
  <2>1. free[j + 1] = free[k + 1]
    BY <1>5
  <2>2. j + 1 = k + 1
    BY <1>5, <1>9, <2>1 DEF PoolOf
  <2> QED  BY <2>2
<1>11. \A k \in 1 .. m : rest[k] \notin HeldIn(new)
  <2> SUFFICES ASSUME NEW k \in 1 .. m PROVE rest[k] \notin HeldIn(new)
    OBVIOUS
  <2>1. free[k + 1] \notin HeldIn(info) /\ free[k + 1] # free[1]
    BY <1>5, <1>9 DEF PoolOf
  <2> QED  BY <1>3, <1>5, <1>8, <2>1
<1>12. ASSUME NEW c \in 1 .. n, c \notin HeldIn(new)
       PROVE  \E k \in 1 .. m : rest[k] = c
  <2>1. c \notin HeldIn(info) /\ c # b
    BY <1>8, <1>12
  <2>2. PICK k \in 1 .. m + 1 : free[k] = c
    BY <1>5, <2>1 DEF PoolOf
  <2>3. k # 1
    BY <1>3, <2>1, <2>2
  <2>4. k - 1 \in 1 .. m /\ (k - 1) + 1 = k
    BY <2>3
  <2> QED  BY <1>5, <2>2, <2>4
<1>13. OnePlaceEach(new)
  BY <1>1, <1>6, <1>7, OnePlaceKept DEF PoolOf
<1>14. PoolOf(rest, new, n)
  BY <1>1, <1>5, <1>6, <1>10, <1>11, <1>12, <1>13 DEF PoolOf
<1> QED  BY <1>4, <1>14 DEF new

(* alloc_pkt makes a new buffer. *)
LEMMA TakeNew ==
    ASSUME NEW free, NEW info, NEW n, PoolOf(free, info, n),
           NEW r \in Ring, NEW s \in Slot, info[r][s] = None
    PROVE  PoolOf(free, [info EXCEPT ![r][s] = n + 1], n + 1)
<1> DEFINE new == [info EXCEPT ![r][s] = n + 1]
<1>1. /\ n \in Nat /\ free \in Seq(1 .. n)
      /\ info \in [Ring -> [Slot -> (1 .. n) \union {None}]]
  BY DEF PoolOf
<1>2. PICK m \in Nat : m = n + 1
  BY <1>1
<1>3. m \in 1 .. m /\ 1 .. n \subseteq 1 .. m /\ m \notin 1 .. n /\ 1 .. m = (1 .. n) \union {m}
  BY <1>1, <1>2
<1>4. free \in Seq(1 .. m) /\ \A k \in DOMAIN free : free[k] \in 1 .. n
  BY <1>1, <1>3
<1>5. new \in [Ring -> [Slot -> (1 .. m) \union {None}]] /\ new = Put(info, r, s, m)
  BY <1>1, <1>2, <1>3 DEF Put
<1> HIDE DEF new
<1>6. m \notin HeldIn(info)
  <2>1. m # None
    BY <1>2, NoneAssumption
  <2> QED  BY <1>1, <1>3, <2>1 DEF HeldIn
<1>7. \A c : c \in HeldIn(new) <=> c \in HeldIn(info) \/ c = m
  BY <1>1, <1>2, <1>5, HeldGrows
<1>8. \A k \in DOMAIN free : free[k] \notin HeldIn(new)
  BY <1>3, <1>4, <1>7 DEF PoolOf
<1>9. \A b \in 1 .. m : b \in HeldIn(new) \/ \E k \in DOMAIN free : free[k] = b
  BY <1>3, <1>7 DEF PoolOf
<1>10. OnePlaceEach(new)
  BY <1>1, <1>2, <1>5, <1>6, OnePlaceKept DEF PoolOf
<1>11. PoolOf(free, new, m)
  BY <1>4, <1>5, <1>8, <1>9, <1>10 DEF PoolOf
<1> QED  BY <1>2, <1>11 DEF new

(* A run of full slots of one ring is given back, one after the other.     *)
LEMMA GiveBack ==
    ASSUME NEW free, NEW info, NEW n, PoolOf(free, info, n),
           NEW r \in Ring, NEW k \in Nat, NEW slots \in [1 .. k -> Slot],
           \A i, j \in 1 .. k : slots[i] = slots[j] => i = j,
           \A j \in 1 .. k : info[r][slots[j]] # None
    PROVE  PoolOf(free \o Given(info, r, slots, k), Emptied(info, r, slots, k), n)
<1> DEFINE given == [j \in 1 .. k |-> info[r][slots[j]]]
           kept == [i \in Slot |-> IF \E j \in 1 .. k : i = slots[j] THEN None ELSE info[r][i]]
           new == [info EXCEPT ![r] = kept]
           gone(i) == \E j \in 1 .. k : i = slots[j]
<1>1. /\ n \in Nat /\ free \in Seq(1 .. n)
      /\ info \in [Ring -> [Slot -> (1 .. n) \union {None}]]
  BY DEF PoolOf
<1>2. given \in Seq(1 .. n) /\ Len(given) = k
  <2>1. \A j \in 1 .. k : info[r][slots[j]] \in 1 .. n
    BY <1>1
  <2>2. given \in [1 .. k -> 1 .. n]
    BY <2>1
  <2> QED  BY <2>2
<1>3. PICK m \in Nat : m = Len(free)
  BY <1>1
<1>4. PICK all \in Seq(1 .. n) : all = free \o given
  <2> HIDE DEF given
  <2>1. free \o given \in Seq(1 .. n)
    BY <1>1, <1>2
  <2> QED  BY <2>1
<1>5. /\ DOMAIN free = 1 .. m /\ DOMAIN all = 1 .. m + k
      /\ \A j \in 1 .. m : all[j] = free[j]
      /\ \A j \in 1 .. k : all[m + j] = info[r][slots[j]]
  <2>1. /\ DOMAIN free = 1 .. m /\ DOMAIN all = 1 .. m + k
        /\ \A j \in 1 .. m : all[j] = free[j]
    BY <1>1, <1>2, <1>3, <1>4
  <2>2. ASSUME NEW j \in 1 .. k PROVE all[m + j] = given[j]
    <3> HIDE DEF given
    <3> QED  BY <1>1, <1>2, <1>3, <1>4
  <2> QED  BY <2>1, <2>2
<1>6. /\ new \in [Ring -> [Slot -> (1 .. n) \union {None}]]
      /\ \A q \in Ring, i \in Slot : q # r => new[q][i] = info[q][i]
      /\ \A i \in Slot : new[r][i] = IF gone(i) THEN None ELSE info[r][i]
  BY <1>1
<1> HIDE DEF given, kept, new
<1>0. OnePlaceEach(info) /\ \A i, j \in 1 .. m : free[i] = free[j] => i = j
  BY <1>5 DEF PoolOf
<1>7. \A i \in 1 .. m + k : i \in 1 .. m \/ (i - m \in 1 .. k /\ i = m + (i - m))
  OBVIOUS
<1>8. \A j \in 1 .. k : info[r][slots[j]] \in HeldIn(info) /\ info[r][slots[j]] \in 1 .. n
  BY <1>1 DEF HeldIn
<1>9. HeldIn(new) \subseteq HeldIn(info)
  <2> SUFFICES ASSUME NEW b \in Nat, NEW q \in Ring, NEW i \in Slot, new[q][i] = b
               PROVE  b \in HeldIn(info)
    BY DEF HeldIn
  <2>1. b # None
    BY NoneAssumption
  <2>2. info[q][i] = b
    BY <1>6, <2>1
  <2> QED  BY <2>2 DEF HeldIn
<1>10. \A j \in 1 .. k : info[r][slots[j]] \notin HeldIn(new)
  <2> SUFFICES ASSUME NEW j \in 1 .. k, NEW q \in Ring, NEW i \in Slot,
                      new[q][i] = info[r][slots[j]]
               PROVE  FALSE
    BY DEF HeldIn
  <2>1. slots[j] \in Slot /\ info[r][slots[j]] # None /\ gone(slots[j])
    OBVIOUS
  <2>2. new[q][i] = info[q][i]
    BY <1>6, <2>1
  <2>3. q = r /\ i = slots[j]
    BY <1>0, <2>1, <2>2 DEF OnePlaceEach
  <2>4. new[r][slots[j]] = None
    BY <1>6, <2>1
  <2> QED  BY <2>1, <2>3, <2>4
<1>11. \A j \in 1 .. k, i \in 1 .. m : free[i] # info[r][slots[j]]
  BY <1>5, <1>8 DEF PoolOf
<1>12. \A i, j \in 1 .. k : info[r][slots[i]] = info[r][slots[j]] => i = j
  <2> SUFFICES ASSUME NEW i \in 1 .. k, NEW j \in 1 .. k, info[r][slots[i]] = info[r][slots[j]]
               PROVE  i = j
    OBVIOUS
  <2>1. slots[i] \in Slot /\ slots[j] \in Slot /\ info[r][slots[i]] # None
    OBVIOUS
  <2>2. slots[i] = slots[j]
    BY <1>0, <2>1 DEF OnePlaceEach
  <2> QED  BY <2>2
<1>13. \A i, j \in 1 .. m + k : all[i] = all[j] => i = j
  <2> SUFFICES ASSUME NEW i \in 1 .. m + k, NEW j \in 1 .. m + k, all[i] = all[j]
               PROVE  i = j
    OBVIOUS
  <2>1. CASE i \in 1 .. m /\ j \in 1 .. m
    BY <1>0, <1>5, <2>1
  <2>2. CASE i \in 1 .. m /\ j - m \in 1 .. k
    <3>1. all[i] = free[i] /\ all[j] = info[r][slots[j - m]]
      BY <1>5, <1>7, <2>2
    <3> QED  BY <1>11, <2>2, <3>1
  <2>3. CASE j \in 1 .. m /\ i - m \in 1 .. k
    <3>1. all[j] = free[j] /\ all[i] = info[r][slots[i - m]]
      BY <1>5, <1>7, <2>3
    <3> QED  BY <1>11, <2>3, <3>1
  <2>4. CASE i - m \in 1 .. k /\ j - m \in 1 .. k
    <3>1. all[i] = info[r][slots[i - m]] /\ all[j] = info[r][slots[j - m]]
      BY <1>5, <1>7, <2>4
    <3>2. i - m = j - m
      BY <1>12, <2>4, <3>1
    <3> QED  BY <3>2
  <2> QED  BY <1>7, <2>1, <2>2, <2>3, <2>4
<1>14. \A j \in 1 .. m + k : all[j] \notin HeldIn(new)
  <2> SUFFICES ASSUME NEW j \in 1 .. m + k PROVE all[j] \notin HeldIn(new)
    OBVIOUS
  <2>1. CASE j \in 1 .. m
    BY <1>5, <1>9, <2>1 DEF PoolOf
  <2>2. CASE j - m \in 1 .. k
    <3>1. all[j] = info[r][slots[j - m]]
      BY <1>5, <1>7, <2>2
    <3> QED  BY <1>10, <2>2, <3>1
  <2> QED  BY <1>7, <2>1, <2>2
<1>15. ASSUME NEW b \in 1 .. n, b \notin HeldIn(new)
       PROVE  \E j \in 1 .. m + k : all[j] = b
  <2>1. CASE b \in HeldIn(info)
    <3>1. PICK q \in Ring, i \in Slot : info[q][i] = b
      BY <2>1 DEF HeldIn
    <3>2. b \in Nat /\ new[q][i] # info[q][i]
      BY <1>1, <1>15, <3>1 DEF HeldIn
    <3>3. q = r /\ gone(i)
      BY <1>6, <3>2
    <3>4. PICK j \in 1 .. k : i = slots[j]
      BY <3>3
    <3>5. m + j \in 1 .. m + k /\ all[m + j] = b
      BY <1>5, <3>1, <3>3, <3>4
    <3> QED  BY <3>5
  <2>2. CASE b \notin HeldIn(info)
    <3>1. PICK j \in 1 .. m : free[j] = b
      BY <1>5, <2>2 DEF PoolOf
    <3>2. j \in 1 .. m + k
      OBVIOUS
    <3> QED  BY <1>5, <3>1, <3>2
  <2> QED  BY <2>1, <2>2
<1>16. ASSUME NEW q \in Ring, NEW t \in Ring, NEW i \in Slot, NEW j \in Slot,
              new[q][i] # None, new[q][i] = new[t][j]
       PROVE  q = t /\ i = j
  <2>1. new[q][i] = info[q][i] /\ new[t][j] = info[t][j]
    BY <1>6, <1>16
  <2>2. info[q][i] # None /\ info[q][i] = info[t][j]
    BY <1>16, <2>1
  <2> QED  BY <1>0, <2>2 DEF OnePlaceEach
<1>17. OnePlaceEach(new)
  BY <1>16 DEF OnePlaceEach
<1>18. \A b \in 1 .. n : b \in HeldIn(new) \/ \E j \in DOMAIN all : all[j] = b
  BY <1>5, <1>15
<1>19. PoolOf(all, new, n)
  BY <1>1, <1>5, <1>6, <1>13, <1>14, <1>17, <1>18 DEF PoolOf
<1> QED  BY <1>4, <1>19 DEF given, kept, new, Given, Emptied

-----------------------------------------------------------------------------
(* The steps that move buffers.                                            *)
LEMMA PoolInit == Init => Pool
<1> SUFFICES ASSUME Init PROVE Pool
  OBVIOUS
<1>1. /\ allocated = 0 /\ freePackets = <<>>
      /\ txInfo = [r \in Ring |-> [i \in Slot |-> None]]
  BY DEF Init, Slot
<1>2. freePackets \in Seq(1 .. 0) /\ DOMAIN freePackets = {} /\ 1 .. 0 = {}
  BY <1>1
<1>3. txInfo \in [Ring -> [Slot -> (1 .. 0) \union {None}]] /\ OnePlaceEach(txInfo)
  BY <1>1 DEF OnePlaceEach
<1> QED  BY <1>1, <1>2, <1>3 DEF Pool, PoolOf

(* tx_transmit takes a buffer into a free slot. *)
LEMMA PoolTransmits ==
    ASSUME IInv, Pool, NEW s \in Sender, NEW r \in Ring, Transmits(s, r)
    PROVE  Pool'
<1>1. PICK slot \in Slot : slot = TxSlot(txProd[r]) /\ txInfo[r][slot] = None
  <2>1. /\ txProd[r] \in Nat /\ txCons[r] \in Nat /\ cqCons[r] \in Nat
        /\ txCons[r] <= cqCons[r] /\ txProd[r] - txCons[r] < FullSize
    BY RingNumbers DEF IInv, PointersInOrder, PointersOf, Transmits, HasSpace
  <2>2. txProd[r] \in txProd[r] .. cqCons[r] + TxSize - 1
    BY <2>1, Sizes
  <2>3. txInfo[r][TxSlot(txProd[r])] = None
    BY <2>2 DEF IInv, SlotsExact, SlotsOf, TxSlot
  <2>4. TxSlot(txProd[r]) \in Slot
    BY <2>1, Sizes, DivMod DEF TxSlot, Slot
  <2> QED  BY <2>3, <2>4
<1>2. txInfo' = [txInfo EXCEPT ![r][slot] = AllocPkt]
  BY <1>1 DEF Transmits, TxTransmit
<1>3. CASE freePackets # <<>>
  <2>1. /\ freePackets' = Tail(freePackets) /\ allocated' = allocated
        /\ AllocPkt = Head(freePackets)
    BY <1>3 DEF Transmits, TxTransmit, AllocPkt
  <2>2. PoolOf(Tail(freePackets), [txInfo EXCEPT ![r][slot] = Head(freePackets)], allocated)
    BY <1>1, <1>3, TakeFree DEF Pool
  <2> QED  BY <1>2, <2>1, <2>2 DEF Pool
<1>4. CASE freePackets = <<>>
  <2>1. /\ freePackets' = freePackets /\ allocated' = allocated + 1
        /\ AllocPkt = allocated + 1
    BY <1>4 DEF Transmits, TxTransmit, AllocPkt
  <2>2. PoolOf(freePackets, [txInfo EXCEPT ![r][slot] = allocated + 1], allocated + 1)
    BY <1>1, TakeNew DEF Pool
  <2> QED  BY <1>2, <2>1, <2>2 DEF Pool
<1> QED  BY <1>3, <1>4

(* process_tx_cq gives back the buffers of the packets sent. *)
LEMMA PoolCompletes ==
    ASSUME IInv, Pool, NEW r \in Ring, Completes(r)
    PROVE  Pool'
<1> DEFINE c == cqCons[r]
           k == nicCq[r].written - cqCons[r]
           slots == [j \in 1 .. k |-> TxSlot(c + j - 1)]
<1>1. c \in Nat /\ k \in Nat /\ \A j \in 1 .. k : c + j - 1 \in c .. nicCq[r].written - 1
  BY RingNumbers DEF IInv, PointersInOrder, PointersOf
<1>2. \A p \in c .. nicCq[r].written - 1 : p - c + 1 \in 1 .. k /\ c + (p - c + 1) - 1 = p
  BY <1>1, RingNumbers DEF IInv
<1>3. \A j \in 1 .. k : TxSlot(c + j - 1) \in Slot /\ txInfo[r][TxSlot(c + j - 1)] # None
  BY <1>1, SentSlots DEF Slot
<1>4. slots \in [1 .. k -> Slot] /\ \A j \in 1 .. k : slots[j] = TxSlot(c + j - 1)
  BY <1>3
<1>5. \A i, j \in 1 .. k : slots[i] = slots[j] => i = j
  <2> SUFFICES ASSUME NEW i \in 1 .. k, NEW j \in 1 .. k, slots[i] = slots[j]
               PROVE  i = j
    OBVIOUS
  <2>1. TxSlot(c + i - 1) = TxSlot(c + j - 1)
    BY <1>4
  <2>2. c + i - 1 = c + j - 1
    BY <1>1, <2>1, SentSlots
  <2> QED  BY <1>1, <2>2
<1>6. freePackets' = freePackets \o Given(txInfo, r, slots, k)
  <2>1. freePackets' = freePackets \o [j \in 1 .. k |-> txInfo[r][TxSlot(c + j - 1)]]
    BY DEF Completes
  <2>2. [j \in 1 .. k |-> txInfo[r][TxSlot(c + j - 1)]] = Given(txInfo, r, slots, k)
    BY <1>4 DEF Given
  <2> QED  BY <2>1, <2>2
<1>7. txInfo' = Emptied(txInfo, r, slots, k)
  <2>1. txInfo' = [txInfo EXCEPT ![r] = [i \in Slot |->
                    IF \E p \in c .. nicCq[r].written - 1 : i = TxSlot(p)
                    THEN None ELSE txInfo[r][i]]]
    BY DEF Completes, Slot
  <2>2. \A i : (\E p \in c .. nicCq[r].written - 1 : i = TxSlot(p)) <=> \E j \in 1 .. k : i = slots[j]
    <3> SUFFICES ASSUME NEW i
                 PROVE  (\E p \in c .. nicCq[r].written - 1 : i = TxSlot(p))
                            <=> \E j \in 1 .. k : i = slots[j]
      OBVIOUS
    <3>1. ASSUME NEW p \in c .. nicCq[r].written - 1, i = TxSlot(p)
          PROVE  \E j \in 1 .. k : i = slots[j]
      <4>1. slots[p - c + 1] = TxSlot(p)
        BY <1>2, <1>4
      <4> QED  BY <1>2, <3>1, <4>1
    <3>2. ASSUME NEW j \in 1 .. k, i = slots[j]
          PROVE  \E p \in c .. nicCq[r].written - 1 : i = TxSlot(p)
      BY <1>1, <1>4, <3>2
    <3> QED  BY <3>1, <3>2
  <2> HIDE DEF slots, k
  <2>3. [i \in Slot |-> IF \E p \in c .. nicCq[r].written - 1 : i = TxSlot(p)
                       THEN None ELSE txInfo[r][i]]
        = [i \in Slot |-> IF \E j \in 1 .. k : i = slots[j] THEN None ELSE txInfo[r][i]]
    BY <2>2
  <2> QED  BY <2>1, <2>3 DEF Emptied
<1>8. \A j \in 1 .. k : txInfo[r][slots[j]] # None
  BY <1>3, <1>4
<1>9. allocated' = allocated
  BY DEF Completes
<1> HIDE DEF slots, k, c
<1>10. PoolOf(freePackets \o Given(txInfo, r, slots, k), Emptied(txInfo, r, slots, k), allocated)
  BY <1>1, <1>4, <1>5, <1>8, GiveBack DEF Pool
<1> QED  BY <1>6, <1>7, <1>9, <1>10 DEF Pool

(* No other step touches the pool. *)
LEMMA PoolKept == IInv /\ Pool /\ [Next]_vars => Pool'
<1> SUFFICES ASSUME IInv, Pool, [Next]_vars PROVE Pool'
  OBVIOUS
<1>1. CASE UNCHANGED <<txInfo, freePackets, allocated>>
  BY <1>1 DEF Pool
<1>2. ASSUME \/ \E s \in Sender, r \in Ring : Waits(s, r)
             \/ \E s \in Sender : FinishPublish(s)
             \/ TakeInterrupt \/ FinishEq \/ ArmEq
             \/ \E r \in Ring : Advances(r)
             \/ NicStep \/ UNCHANGED vars
      PROVE  UNCHANGED <<txInfo, freePackets, allocated>>
  BY <1>2, NicLeavesDriver DEF Waits, WaitForSpace, FinishPublish, TakeInterrupt, FinishEq, ArmEq,
              Advances, vars, driverVars, ringVars, poolVars
<1> QED  BY <1>1, <1>2, PoolTransmits, PoolCompletes, Steps DEF SenderStep, HandlerStep

(* Every buffer is free, once, or in one slot of one ring: none leaks, is  *)
(* freed twice or carries two packets (alloc_pkt, free_desc, free_pkt).    *)
THEOREM BuffersNeverLost == Spec => []BuffersConserved
<1>1. Pool => BuffersConserved
  <2> SUFFICES ASSUME Pool PROVE BuffersConserved
    OBVIOUS
  <2>1. /\ allocated \in Nat /\ freePackets \in Seq(1 .. allocated)
        /\ txInfo \in [Ring -> [Slot -> (1 .. allocated) \union {None}]]
        /\ OnePlaceEach(txInfo)
    BY DEF Pool, PoolOf
  <2>2. Held = HeldIn(txInfo)
    <3>1. \A b \in Nat, q \in Ring, i \in Slot : txInfo[q][i] = b => b \in 1 .. allocated
      BY <2>1, NoneAssumption
    <3> QED  BY <2>1, <3>1 DEF Held, Buffers, HeldIn, Slot
  <2>3. IsInjective(freePackets)
    BY DEF Pool, PoolOf, IsInjective
  <2>4. ToSet(freePackets) \intersect Held = {}
    BY <2>2 DEF Pool, PoolOf, ToSet
  <2>5. ToSet(freePackets) \union Held = Buffers
    <3>1. \A b \in 1 .. allocated : b \in Held \/ b \in ToSet(freePackets)
      BY <2>2 DEF Pool, PoolOf, ToSet
    <3>2. ToSet(freePackets) \subseteq 1 .. allocated
      BY <2>1 DEF ToSet
    <3> QED  BY <3>1, <3>2 DEF Held, Buffers
  <2> DEFINE Cells == {c \in Ring \X (0 .. TxSize - 1) : txInfo[c[1]][c[2]] # None}
             f == [c \in Cells |-> txInfo[c[1]][c[2]]]
  <2>6. Cardinality(Held) = Cardinality(Cells)
    <3>1. IsFiniteSet(Held)
      <4>1. IsFiniteSet(1 .. allocated)
        BY <2>1, FS_Interval
      <4> QED  BY <4>1, FS_Subset DEF Held, Buffers
    <3>2. f \in [Cells -> Held]
      <4> SUFFICES ASSUME NEW c \in Cells PROVE txInfo[c[1]][c[2]] \in Held
        OBVIOUS
      <4>1. c[1] \in Ring /\ c[2] \in Slot /\ txInfo[c[1]][c[2]] # None
        BY DEF Slot
      <4>2. txInfo[c[1]][c[2]] \in 1 .. allocated
        BY <2>1, <4>1
      <4> HIDE DEF Cells
      <4> QED  BY <4>1, <4>2 DEF Held, Buffers, Slot
    <3>3. \A c, d \in Cells : f[c] = f[d] => c = d
      <4> SUFFICES ASSUME NEW c \in Cells, NEW d \in Cells, f[c] = f[d] PROVE c = d
        OBVIOUS
      <4>1. /\ c \in Ring \X Slot /\ d \in Ring \X Slot
            /\ txInfo[c[1]][c[2]] # None /\ txInfo[c[1]][c[2]] = txInfo[d[1]][d[2]]
        BY DEF Slot
      <4> HIDE DEF Cells, f
      <4>2. c[1] = d[1] /\ c[2] = d[2]
        BY <2>1, <4>1 DEF OnePlaceEach
      <4> QED  BY <4>1, <4>2
    <3>4. \A b \in Held : \E c \in Cells : f[c] = b
      <4> SUFFICES ASSUME NEW b \in Held PROVE \E c \in Cells : f[c] = b
        OBVIOUS
      <4>1. PICK q \in Ring, i \in 0 .. TxSize - 1 : txInfo[q][i] = b
        BY DEF Held
      <4>2. b # None
        BY <2>1, NoneAssumption DEF Held, Buffers
      <4>3. <<q, i>> \in Cells
        BY <4>1, <4>2
      <4>4. f[<<q, i>>] = b
        BY <4>1, <4>3
      <4> QED  BY <4>3, <4>4
    <3> HIDE DEF f, Cells
    <3>5. f \in Bijection(Cells, Held)
      <4>1. f \in Injection(Cells, Held)
        BY <3>2, <3>3 DEF Injection, IsInjective
      <4>2. f \in Surjection(Cells, Held)
        BY <3>2, <3>4 DEF Surjection
      <4> QED  BY <4>1, <4>2 DEF Bijection
    <3>6. ExistsBijection(Held, Cells)
      BY <3>5, Fun_ExistsBijSymmetric DEF ExistsBijection
    <3> QED  BY <3>1, <3>6, FS_Bijection
  <2> QED  BY <2>3, <2>4, <2>5, <2>6 DEF BuffersConserved
<1>2. Spec => [](IInv /\ Pool)
  BY InitInv, InvKept, PoolInit, PoolKept, PTL DEF Spec
<1> QED  BY <1>1, <1>2, PTL

-----------------------------------------------------------------------------
(* No more buffers are ever made than there were calls of start_xmit.      *)
Pending == {s \in Sender : xmit[s].pc \in {"wait", "woken"}}
BuffersCounted ==
    /\ IsFiniteSet(Pending)
    /\ allocated + Cardinality(Pending) <= calls

(* At the start nothing has been made and nobody waits.                    *)
LEMMA CountInit == Init => BuffersCounted
<1> SUFFICES ASSUME Init PROVE BuffersCounted
  OBVIOUS
<1>1. Pending = {} /\ allocated = 0 /\ calls = 0
  BY DEF Init, Pending
<1> QED  BY <1>1, FS_EmptySet DEF BuffersCounted

(* A call makes at most one buffer: at once, or when the sender that       *)
(* had to wait is woken; until then the sender counts in Pending.          *)
LEMMA CountKept == IInv /\ BuffersCounted /\ [Next]_vars => BuffersCounted'
<1> SUFFICES ASSUME IInv, BuffersCounted, [Next]_vars PROVE BuffersCounted'
  OBVIOUS
<1>1. /\ allocated \in Nat /\ calls \in Nat
      /\ xmit \in [Sender -> [pc : {"idle", "publish", "wait", "woken"}, ring : Ring \union {None}]]
      /\ IsFiniteSet(Pending) /\ Cardinality(Pending) \in Nat
      /\ allocated + Cardinality(Pending) <= calls
  <2>1. IsFiniteSet(Pending) /\ Cardinality(Pending) \in Nat
    BY FS_CardinalityType DEF BuffersCounted
  <2> QED  BY <2>1, BoundAssumption DEF IInv, Typing, TypeOK, BuffersCounted
<1>0. /\ allocated \in Nat /\ calls \in Nat /\ Cardinality(Pending) \in Nat
      /\ allocated + Cardinality(Pending) <= calls
  BY <1>1
<1>2. ASSUME Pending' = Pending, NEW a \in Nat, NEW n \in Nat, allocated' = a, calls' = n,
             a - allocated <= n - calls
      PROVE  BuffersCounted'
  <2>1. IsFiniteSet(Pending') /\ Cardinality(Pending') = Cardinality(Pending)
    BY <1>1, <1>2
  <2>2. a + Cardinality(Pending') <= n
    BY <1>0, <1>2, <2>1
  <2> QED  BY <1>2, <2>1, <2>2 DEF BuffersCounted
<1>3. ASSUME NEW s \in Sender, NEW r \in Ring, StartXmit(s, r)
      PROVE  BuffersCounted'
  <2>1. xmit[s].pc = "idle" /\ calls' = calls + 1 /\ s \notin Pending
    BY <1>3 DEF StartXmit, Pending
  <2>2. CASE HasSpace(r)
    <3>1. /\ allocated' \in {allocated, allocated + 1}
          /\ xmit' = [xmit EXCEPT ![s] = [pc |-> "publish", ring |-> r]]
      BY <1>3, <2>2 DEF StartXmit, TryXmit, TxTransmit
    <3>2. Pending' = Pending
      BY <1>1, <2>1, <3>1 DEF Pending
    <3>3. PICK a \in Nat : allocated' = a /\ a <= allocated + 1
      BY <1>0, <3>1
    <3>4. PICK n \in Nat : calls' = n /\ n = calls + 1
      BY <1>0, <2>1
    <3>5. a - allocated <= n - calls
      BY <1>0, <3>3, <3>4
    <3> QED  BY <1>2, <3>2, <3>3, <3>4, <3>5
  <2>3. CASE ~HasSpace(r)
    <3>1. allocated' = allocated /\ xmit' = [xmit EXCEPT ![s] = [pc |-> "wait", ring |-> r]]
      BY <1>3, <2>3 DEF StartXmit, TryXmit, WaitForSpace, poolVars
    <3>2. Pending' = Pending \union {s}
      BY <1>1, <2>1, <3>1 DEF Pending
    <3>3. IsFiniteSet(Pending') /\ Cardinality(Pending') = Cardinality(Pending) + 1
      BY <1>1, <2>1, <3>2, FS_AddElement
    <3> QED  BY <1>1, <2>1, <3>1, <3>3 DEF BuffersCounted
  <2> QED  BY <2>2, <2>3
<1>4. ASSUME NEW s \in Sender, ResumeXmit(s)
      PROVE  BuffersCounted'
  <2>1. xmit[s].pc = "woken" /\ calls' = calls /\ s \in Pending
    BY <1>4 DEF ResumeXmit, Pending
  <2>2. CASE HasSpace(xmit[s].ring)
    <3>1. /\ allocated' \in {allocated, allocated + 1}
          /\ xmit' = [xmit EXCEPT ![s] = [pc |-> "publish", ring |-> xmit[s].ring]]
      BY <1>4, <2>2 DEF ResumeXmit, TryXmit, TxTransmit
    <3>2. Pending' = Pending \ {s}
      BY <1>1, <2>1, <3>1 DEF Pending
    <3>3. IsFiniteSet(Pending') /\ Cardinality(Pending') = Cardinality(Pending) - 1
      BY <1>1, <2>1, <3>2, FS_RemoveElement
    <3> QED  BY <1>1, <2>1, <3>1, <3>3 DEF BuffersCounted
  <2>3. CASE ~HasSpace(xmit[s].ring)
    <3>1. allocated' = allocated /\ xmit' = [xmit EXCEPT ![s] = [pc |-> "wait", ring |-> xmit[s].ring]]
      BY <1>4, <2>3 DEF ResumeXmit, TryXmit, WaitForSpace, poolVars
    <3>2. Pending' = Pending
      BY <1>1, <2>1, <3>1 DEF Pending
    <3> QED  BY <1>1, <1>2, <2>1, <3>1, <3>2
  <2> QED  BY <2>2, <2>3
<1>5. ASSUME NEW s \in Sender, FinishPublish(s)
      PROVE  BuffersCounted'
  <2>1. /\ xmit[s].pc = "publish" /\ UNCHANGED <<calls, allocated>>
        /\ xmit' = [xmit EXCEPT ![s] = [pc |-> "idle", ring |-> None]]
    BY <1>5 DEF FinishPublish, poolVars
  <2>2. Pending' = Pending
    BY <1>1, <2>1 DEF Pending
  <2> QED  BY <1>1, <1>2, <2>1, <2>2
<1>6. CASE AdvanceRing
  <2>1. /\ UNCHANGED <<calls, allocated>>
        /\ xmit' = [s \in Sender |->
              IF s \in Woken(handler.ring) THEN [xmit[s] EXCEPT !.pc = "woken"] ELSE xmit[s]]
    BY <1>6 DEF AdvanceRing, poolVars
  <2>2. \A s \in Sender : xmit'[s].pc \in {"wait", "woken"} <=> xmit[s].pc \in {"wait", "woken"}
    BY <1>1, <2>1 DEF Woken
  <2>3. Pending' = Pending
    BY <2>2 DEF Pending
  <2> QED  BY <1>1, <1>2, <2>1, <2>3
<1>7. CASE UNCHANGED <<xmit, calls, allocated>>
  BY <1>1, <1>2, <1>7 DEF Pending
<1>8. ASSUME TakeInterrupt \/ ScanEvent \/ FinishEq \/ ArmEq \/ Nic \/ UNCHANGED vars
      PROVE  UNCHANGED <<xmit, calls, allocated>>
  <2>1. ASSUME Nic PROVE UNCHANGED driverVars
    BY <2>1, NicLeavesDriver DEF Nic, NicStep
  <2> QED  BY <1>8, <2>1 DEF TakeInterrupt, ScanEvent, FinishEq, ArmEq, vars, driverVars, poolVars
<1> QED  BY <1>3, <1>4, <1>5, <1>6, <1>7, <1>8 DEF Next, Handler

-----------------------------------------------------------------------------
(* The buffers in a run of slots of one ring.                              *)
Run(info, from, to) == [j \in 1 .. to - from |-> info[TxSlot(from + j - 1)]]

(* A run of slots is a sequence of what the slots hold.                    *)
LEMMA RunIsSeq ==
    ASSUME NEW T, NEW info \in [Slot -> T], NEW from \in Nat, NEW to \in Nat, from <= to
    PROVE  /\ Run(info, from, to) \in Seq(T)
           /\ Len(Run(info, from, to)) = to - from
           /\ \A j \in 1 .. to - from : Run(info, from, to)[j] = info[TxSlot(from + j - 1)]
<1>1. to - from \in Nat
  OBVIOUS
<1>2. ASSUME NEW j \in 1 .. to - from PROVE TxSlot(from + j - 1) \in Slot
  <2>1. from + j - 1 \in Nat
    OBVIOUS
  <2> QED  BY <2>1, Sizes, DivMod DEF TxSlot, Slot
<1>3. Run(info, from, to) \in [1 .. to - from -> T]
  BY <1>2 DEF Run
<1>4. \A j \in 1 .. to - from : Run(info, from, to)[j] = info[TxSlot(from + j - 1)]
  BY DEF Run
<1> HIDE DEF Run
<1> QED  BY <1>1, <1>3, <1>4

(* It is as long as the run.                                               *)
LEMMA RunLen ==
    ASSUME NEW T, NEW info \in [Slot -> T], NEW from \in Nat, NEW to \in Nat, from <= to
    PROVE  Len(Run(info, from, to)) = to - from
BY RunIsSeq

(* Only what is in its slots matters.                                      *)
LEMMA RunSame ==
    ASSUME NEW info, NEW info2, NEW from \in Nat, NEW to \in Nat,
           \A p \in from .. to - 1 : info2[TxSlot(p)] = info[TxSlot(p)]
    PROVE  Run(info2, from, to) = Run(info, from, to)
<1>1. \A j \in 1 .. to - from : from + j - 1 \in from .. to - 1
  OBVIOUS
<1>2. \A j \in 1 .. to - from : info2[TxSlot(from + j - 1)] = info[TxSlot(from + j - 1)]
  BY <1>1
<1> QED  BY <1>2 DEF Run

(* A packet more.                                                          *)
LEMMA RunAppend ==
    ASSUME NEW T, NEW info \in [Slot -> T], NEW from \in Nat, NEW to \in Nat, from <= to
    PROVE  Run(info, from, to + 1) = Append(Run(info, from, to), info[TxSlot(to)])
<1> DEFINE long == Run(info, from, to + 1)
           short == Run(info, from, to)
           b == info[TxSlot(to)]
           app == Append(short, b)
<1>1. /\ long \in Seq(T) /\ Len(long) = to + 1 - from
      /\ \A j \in 1 .. to + 1 - from : long[j] = info[TxSlot(from + j - 1)]
  <2>1. PICK u \in Nat : u = to + 1 /\ from <= u
    OBVIOUS
  <2>2. Run(info, from, u) \in Seq(T)
    BY <2>1, RunIsSeq
  <2>3. Len(Run(info, from, u)) = u - from
    <3>1. from <= u
      BY <2>1
    <3> QED  BY <3>1, RunLen
  <2>4. \A j \in 1 .. u - from : Run(info, from, u)[j] = info[TxSlot(from + j - 1)]
    BY DEF Run
  <2>5. long = Run(info, from, u)
    BY <2>1
  <2> HIDE DEF long
  <2>6. long \in Seq(T) /\ Len(long) = to + 1 - from
    BY <2>1, <2>2, <2>3, <2>5
  <2>7. \A j \in 1 .. to + 1 - from : long[j] = info[TxSlot(from + j - 1)]
    BY <2>1, <2>4, <2>5
  <2> QED  BY <2>6, <2>7
<1>2. /\ short \in Seq(T) /\ Len(short) = to - from
      /\ \A j \in 1 .. to - from : short[j] = info[TxSlot(from + j - 1)]
  <2>1. short \in Seq(T)
    BY RunIsSeq
  <2>2. Len(short) = to - from
    BY RunLen
  <2>3. \A j \in 1 .. to - from : short[j] = info[TxSlot(from + j - 1)]
    BY DEF Run
  <2> QED  BY <2>1, <2>2, <2>3
<1>3. b \in T
  BY Sizes, DivMod DEF TxSlot, Slot
<1> HIDE DEF long, short, b
<1>4. /\ app \in Seq(T) /\ Len(app) = to - from + 1
      /\ \A i \in 1 .. to - from : app[i] = short[i]
      /\ app[to - from + 1] = b
  BY <1>2, <1>3, AppendProperties
<1> HIDE DEF app
<1>5. ASSUME NEW j \in 1 .. Len(long) PROVE long[j] = app[j]
  <2>1. CASE j \in 1 .. to - from
    BY <1>1, <1>2, <1>4, <2>1
  <2>2. CASE j = to - from + 1
    <3>1. from + j - 1 = to /\ j \in 1 .. to + 1 - from
      BY <2>2
    <3>2. long[j] = info[TxSlot(to)]
      BY <1>1, <3>1
    <3> QED  BY <1>4, <2>2, <3>2 DEF b
  <2> QED  BY <1>1, <2>1, <2>2
<1>6. Len(long) = Len(app)
  BY <1>1, <1>4
<1>7. long = app
  BY <1>1, <1>4, <1>5, <1>6, SeqEqual
<1> QED  BY <1>7 DEF long, app, short, b

(* The oldest packet less.                                                 *)
LEMMA RunTail ==
    ASSUME NEW T, NEW info \in [Slot -> T], NEW from \in Nat, NEW to \in Nat, from < to
    PROVE  /\ Run(info, from, to) # <<>>
           /\ Head(Run(info, from, to)) = info[TxSlot(from)]
           /\ Tail(Run(info, from, to)) = Run(info, from + 1, to)
<1> DEFINE long == Run(info, from, to)
           short == Run(info, from + 1, to)
<1>1. /\ long \in Seq(T) /\ Len(long) = to - from
      /\ \A j \in 1 .. to - from : long[j] = info[TxSlot(from + j - 1)]
  <2>1. from <= to
    OBVIOUS
  <2>2. long \in Seq(T)
    BY <2>1, RunIsSeq
  <2>3. Len(long) = to - from
    BY <2>1, RunLen
  <2>4. \A j \in 1 .. to - from : long[j] = info[TxSlot(from + j - 1)]
    BY DEF Run
  <2> QED  BY <2>2, <2>3, <2>4
<1>2. /\ short \in Seq(T) /\ Len(short) = to - (from + 1)
      /\ \A j \in 1 .. to - (from + 1) : short[j] = info[TxSlot(from + 1 + j - 1)]
  <2>1. PICK u \in Nat : u = from + 1 /\ u <= to
    OBVIOUS
  <2>2. Run(info, u, to) \in Seq(T)
    BY <2>1, RunIsSeq
  <2>3. Len(Run(info, u, to)) = to - u
    <3>1. u <= to
      BY <2>1
    <3> QED  BY <3>1, RunLen
  <2>4. \A j \in 1 .. to - u : Run(info, u, to)[j] = info[TxSlot(u + j - 1)]
    BY DEF Run
  <2>5. short = Run(info, u, to)
    BY <2>1
  <2> HIDE DEF short
  <2>6. short \in Seq(T) /\ Len(short) = to - (from + 1)
    BY <2>1, <2>2, <2>3, <2>5
  <2>7. \A j \in 1 .. to - (from + 1) : short[j] = info[TxSlot(from + 1 + j - 1)]
    BY <2>1, <2>4, <2>5
  <2> QED  BY <2>6, <2>7
<1> HIDE DEF long, short
<1>3. long # <<>>
  BY <1>1
<1>4. Head(long) = info[TxSlot(from)]
  <2>1. Head(long) = long[1] /\ 1 \in 1 .. to - from /\ from + 1 - 1 = from
    BY <1>1, <1>3
  <2>2. long[1] = info[TxSlot(from + 1 - 1)]
    BY <1>1, <2>1
  <2> QED  BY <2>1, <2>2
<1>5. /\ Tail(long) \in Seq(T) /\ Len(Tail(long)) = Len(long) - 1
      /\ \A i \in 1 .. Len(Tail(long)) : Tail(long)[i] = long[i + 1]
  BY <1>1, <1>3, HeadTailProperties
<1>6. ASSUME NEW j \in 1 .. Len(short) PROVE short[j] = Tail(long)[j]
  <2>1. /\ j \in 1 .. to - (from + 1) /\ j + 1 \in 1 .. to - from
        /\ from + (j + 1) - 1 = from + 1 + j - 1 /\ j \in 1 .. Len(Tail(long))
    BY <1>1, <1>2, <1>5
  <2>2. long[j + 1] = info[TxSlot(from + (j + 1) - 1)]
    BY <1>1, <2>1
  <2> QED  BY <1>2, <1>5, <2>1, <2>2
<1>7. Len(short) = Len(Tail(long))
  BY <1>1, <1>2, <1>5
<1>8. Tail(long) = short
  BY <1>2, <1>5, <1>6, <1>7, SeqEqual
<1> QED  BY <1>3, <1>4, <1>8 DEF long, short

(* A run from a pointer to itself is empty.                                *)
LEMMA RunEmpty ==
    ASSUME NEW info, NEW to \in Nat
    PROVE  Run(info, to, to) = <<>>
<1>1. 1 .. to - to = {}
  OBVIOUS
<1> QED  BY <1>1 DEF Run

-----------------------------------------------------------------------------
(* What PacketRing sees of ring r.                                         *)
QueuedOf(r) == Run(txInfo[r], nicTx[r].sent, txProd[r])
SentOf(r) == Run(txInfo[r], cqCons[r], nicTx[r].sent)
Queued == [r \in Ring |-> QueuedOf(r)]
SentYet == [r \in Ring |-> SentOf(r)]

(* This is what the refinement mapping of MqnicTx computes, so the         *)
(* steps of PacketRing can be read in terms of runs.                       *)
LEMMA Seen ==
    /\ Queued = [r \in Ring |-> Slots(r, nicTx[r].sent, txProd[r])]
    /\ SentYet = [r \in Ring |-> Slots(r, cqCons[r], nicTx[r].sent)]
BY DEF Queued, SentYet, QueuedOf, SentOf, Run, Slots

(* The same of the next state.                                             *)
LEMMA SeenNext ==
    /\ Queued' = [r \in Ring |-> Slots(r, nicTx[r].sent, txProd[r])]'
    /\ SentYet' = [r \in Ring |-> Slots(r, cqCons[r], nicTx[r].sent)]'
BY DEF Queued, SentYet, QueuedOf, SentOf, Run, Slots

(* The four things a step may look like to PacketRing.                     *)
LEMMA LooksLikeSubmit ==
    ASSUME NEW r \in Ring, NEW b \in 1 .. MaxXmit,
           Len(QueuedOf(r)) + Len(SentOf(r)) < FullSize,
           \A q \in Ring : b \notin ToSet(QueuedOf(q)) /\ b \notin ToSet(SentOf(q)),
           QueuedOf(r)' = Append(QueuedOf(r), b),
           \A q \in Ring : q # r => QueuedOf(q)' = QueuedOf(q),
           \A q \in Ring : SentOf(q)' = SentOf(q)
    PROVE  Abstract!Next
<1>1. Queued' = [Queued EXCEPT ![r] = Append(@, b)] /\ SentYet' = SentYet
  BY DEF Queued, SentYet
<1>2. Len(Queued[r]) + Len(SentYet[r]) < FullSize
  BY DEF Queued, SentYet
<1>3. b \notin Abstract!InUse
  <2>1. \A q \in Ring : /\ QueuedOf(q) = Slots(q, nicTx[q].sent, txProd[q])
                         /\ SentOf(q) = Slots(q, cqCons[q], nicTx[q].sent)
    BY DEF QueuedOf, SentOf, Run, Slots
  <2>2. \A q \in Ring : /\ b \notin ToSet(Slots(q, nicTx[q].sent, txProd[q]))
                         /\ b \notin ToSet(Slots(q, cqCons[q], nicTx[q].sent))
    BY <2>1
  <2>3. ASSUME b \in Abstract!InUse PROVE FALSE
    <3>1. PICK q \in Ring :
            b \in Abstract!ToSet([p \in Ring |-> Slots(p, nicTx[p].sent, txProd[p])][q])
                  \union Abstract!ToSet([p \in Ring |-> Slots(p, cqCons[p], nicTx[p].sent)][q])
      BY <2>3 DEF Abstract!InUse
    <3>2. b \in Abstract!ToSet(Slots(q, nicTx[q].sent, txProd[q]))
                \union Abstract!ToSet(Slots(q, cqCons[q], nicTx[q].sent))
      BY <3>1
    <3> QED  BY <2>2, <3>2 DEF Abstract!ToSet, ToSet
  <2> QED  BY <2>3
<1>4. Abstract!Submit(r, b)
  BY <1>1, <1>2, <1>3, Seen, SeenNext DEF Abstract!Submit
<1> QED  BY <1>4 DEF Abstract!Next

(* The hardware sends the oldest packet queued on ring r.                  *)
LEMMA LooksLikeSend ==
    ASSUME NEW r \in Ring, QueuedOf(r) # <<>>,
           QueuedOf(r)' = Tail(QueuedOf(r)),
           SentOf(r)' = Append(SentOf(r), Head(QueuedOf(r))),
           \A q \in Ring : q # r => QueuedOf(q)' = QueuedOf(q) /\ SentOf(q)' = SentOf(q)
    PROVE  Abstract!Next
<1>1. /\ Queued' = [Queued EXCEPT ![r] = Tail(@)]
      /\ SentYet' = [SentYet EXCEPT ![r] = Append(@, Head(Queued[r]))]
      /\ Queued[r] # <<>>
  BY DEF Queued, SentYet
<1>2. Abstract!Send(r)
  BY <1>1, Seen, SeenNext DEF Abstract!Send
<1> QED  BY <1>2 DEF Abstract!Next

(* The interrupt task takes back all that has been sent on ring r.         *)
LEMMA LooksLikeReclaim ==
    ASSUME NEW r \in Ring, NEW n \in Nat \ {0}, Len(SentOf(r)) = n, SentOf(r)' = <<>>,
           \A q \in Ring : QueuedOf(q)' = QueuedOf(q),
           \A q \in Ring : q # r => SentOf(q)' = SentOf(q)
    PROVE  Abstract!Next
<1>1. SubSeq(SentYet[r], n + 1, Len(SentYet[r])) = <<>>
  <2>1. Len(SentYet[r]) = n /\ n + 1 \in Int /\ n \in Int /\ n < n + 1
    BY DEF SentYet
  <2> QED  BY <2>1, SubSeqEmpty
<1>2. /\ SentYet' = [SentYet EXCEPT ![r] = SubSeq(@, n + 1, Len(@))]
      /\ Queued' = Queued /\ n \in 1 .. Len(SentYet[r])
  <2>1. SentYet' = [SentYet EXCEPT ![r] = <<>>] /\ Queued' = Queued
    BY DEF Queued, SentYet
  <2>2. n \in 1 .. Len(SentYet[r])
    BY DEF SentYet
  <2> QED  BY <1>1, <2>1, <2>2
<1>3. Abstract!Reclaim(r)
  BY <1>2, Seen, SeenNext DEF Abstract!Reclaim
<1> QED  BY <1>3 DEF Abstract!Next

(* A step that leaves every run as it is, is a stutter of PacketRing.      *)
LEMMA LooksLikeNothing ==
    ASSUME \A q \in Ring : QueuedOf(q)' = QueuedOf(q) /\ SentOf(q)' = SentOf(q)
    PROVE  UNCHANGED Abstract!vars
<1>1. Queued' = Queued /\ SentYet' = SentYet
  BY DEF Queued, SentYet
<1> QED  BY <1>1, Seen, SeenNext DEF Abstract!vars

-----------------------------------------------------------------------------
(* Numbers and slots of one ring, as the simulation needs them.            *)
LEMMA RingFacts ==
    ASSUME IInv, Pool, NEW r \in Ring
    PROVE  /\ txProd[r] \in Nat /\ txCons[r] \in Nat /\ cqCons[r] \in Nat /\ nicTx[r].sent \in Nat
           /\ nicCq[r].written = nicTx[r].sent
           /\ txCons[r] <= cqCons[r] /\ cqCons[r] <= nicTx[r].sent /\ nicTx[r].sent <= txProd[r]
           /\ txInfo[r] \in [Slot -> Nat \union {None}]
           /\ \A p \in cqCons[r] .. txProd[r] - 1 : txInfo[r][TxSlot(p)] # None
<1>1. txInfo[r] \in [Slot -> Nat \union {None}]
  <2>1. txInfo[r] \in [Slot -> (1 .. allocated) \union {None}] /\ allocated \in Nat
    BY DEF Pool, PoolOf
  <2> QED  BY <2>1
<1>2. /\ txProd[r] \in Nat /\ txCons[r] \in Nat /\ cqCons[r] \in Nat /\ nicTx[r].sent \in Nat
      /\ PointersOf(r)
  BY RingNumbers DEF IInv, PointersInOrder
<1>3. \A p \in cqCons[r] .. txProd[r] - 1 : txInfo[r][TxSlot(p)] # None
  BY DEF IInv, SlotsExact, SlotsOf, TxSlot
<1> QED  BY <1>1, <1>2, <1>3 DEF PointersOf

(* A buffer that is in no slot is in no run of slots.                      *)
LEMMA RunElements ==
    ASSUME NEW info \in [Slot -> Nat \union {None}], NEW from \in Nat, NEW to \in Nat, from <= to,
           NEW b, \A i \in Slot : info[i] # b
    PROVE  b \notin ToSet(Run(info, from, to))
<1>1. \A j \in 1 .. to - from : TxSlot(from + j - 1) \in Slot
  <2> SUFFICES ASSUME NEW j \in 1 .. to - from PROVE TxSlot(from + j - 1) \in Slot
    OBVIOUS
  <2>1. from + j - 1 \in Nat
    OBVIOUS
  <2> QED  BY <2>1, Sizes, DivMod DEF TxSlot, Slot
<1>2. \A j \in 1 .. to - from : Run(info, from, to)[j] # b
  BY <1>1 DEF Run
<1>3. DOMAIN Run(info, from, to) = 1 .. to - from
  BY DEF Run
<1> QED  BY <1>2, <1>3 DEF ToSet

(* tx_transmit is Submit: the run of queued packets grows by a buffer      *)
(* that is in no other slot, and there is room for it.                     *)
LEMMA SimulateTransmits ==
    ASSUME IInv, Pool, BuffersCounted, BuffersCounted', Typing', Pool',
           NEW s \in Sender, NEW r \in Ring, Transmits(s, r)
    PROVE  Abstract!Next
<1> DEFINE P == txProd[r]
           c == cqCons[r]
           S == nicTx[r].sent
           new == txInfo'[r]
<1>1. /\ P \in Nat /\ c \in Nat /\ S \in Nat /\ c <= S /\ S <= P
      /\ txInfo[r] \in [Slot -> Nat \union {None}]
      /\ \A p \in c .. P - 1 : txInfo[r][TxSlot(p)] # None
  BY RingFacts
<1>2. P - c < FullSize
  <2>1. txProd[r] - txCons[r] < FullSize
    BY DEF Transmits, HasSpace
  <2> QED  BY <2>1, RingFacts, Sizes
<1>3. PICK slot \in Slot : slot = TxSlot(P) /\ txInfo[r][slot] = None
  <2>1. /\ txProd[r] \in Nat /\ cqCons[r] \in Nat /\ txProd[r] - cqCons[r] < FullSize
    BY <1>1, <1>2
  <2>2. txProd[r] \in txProd[r] .. cqCons[r] + TxSize - 1
    BY <2>1, Sizes
  <2>3. txInfo[r][TxSlot(txProd[r])] = None
    BY <2>2 DEF IInv, SlotsExact, SlotsOf, TxSlot
  <2>4. TxSlot(txProd[r]) \in Slot
    BY <2>1, Sizes, DivMod DEF TxSlot, Slot
  <2> QED  BY <2>3, <2>4
<1>4. txInfo' = [txInfo EXCEPT ![r][slot] = AllocPkt]
  BY <1>3 DEF Transmits, TxTransmit
<1>5. /\ UNCHANGED <<cqCons, nicTx>>
      /\ txProd' = [txProd EXCEPT ![r] = @ + 1]
  BY DEF Transmits, TxTransmit, nicVars
<1>6. txInfo \in [Ring -> [Slot -> (1 .. allocated) \union {None}]] /\ txProd \in [Ring -> Nat]
  BY DEF Pool, PoolOf, IInv, Typing, TypeOK
<1>7. PICK b : b = AllocPkt
  OBVIOUS
<1>8. b \in 1 .. MaxXmit
  <2>1. b \in Buffers' /\ allocated' \in Nat
    BY <1>7, AllocIsBuffer
  <2>2. PICK a \in Nat : allocated' = a
    BY <2>1
  <2>3. PICK n \in 0 .. MaxXmit : calls' = n
    BY DEF Typing, TypeOK
  <2>4. Cardinality(Pending') \in Nat /\ a + Cardinality(Pending') <= n
    BY <2>2, <2>3, FS_CardinalityType DEF BuffersCounted
  <2>5. b \in 1 .. a
    BY <2>1, <2>2 DEF Buffers
  <2> QED  BY <2>3, <2>4, <2>5, BoundAssumption
<1>9. \A q \in Ring, i \in Slot : txInfo[q][i] # b
  <2>1. CASE freePackets # <<>>
    <3>1. b = Head(freePackets)
      BY <1>7, <2>1 DEF AllocPkt
    <3>2. freePackets \in Seq(1 .. allocated) /\ \A k \in DOMAIN freePackets : freePackets[k] \notin HeldIn(txInfo)
      BY DEF Pool, PoolOf
    <3>3. 1 \in DOMAIN freePackets /\ b = freePackets[1] /\ b \in Nat
      BY <1>8, <2>1, <3>1, <3>2
    <3>4. b \notin HeldIn(txInfo)
      BY <3>2, <3>3
    <3> QED  BY <3>3, <3>4 DEF HeldIn
  <2>2. CASE freePackets = <<>>
    <3>1. b = allocated + 1 /\ allocated \in Nat
      BY <1>7, <2>2 DEF AllocPkt, Pool, PoolOf
    <3>2. b \notin 1 .. allocated /\ b # None
      BY <3>1, NoneAssumption
    <3> QED  BY <1>6, <3>2
  <2> QED  BY <2>1, <2>2
<1>10. /\ new \in [Slot -> Nat \union {None}] /\ new[slot] = b
       /\ \A i \in Slot : i # slot => new[i] = txInfo[r][i]
       /\ \A q \in Ring : q # r => txInfo'[q] = txInfo[q]
  BY <1>1, <1>4, <1>6, <1>7, <1>8
<1>11. /\ txProd'[r] = P + 1
       /\ \A q \in Ring : q # r => txProd'[q] = txProd[q]
  BY <1>5, <1>6
<1>12. \A p \in c .. P - 1 : new[TxSlot(p)] = txInfo[r][TxSlot(p)]
  <2> SUFFICES ASSUME NEW p \in c .. P - 1 PROVE new[TxSlot(p)] = txInfo[r][TxSlot(p)]
    OBVIOUS
  <2>1. p \in Nat
    BY <1>1
  <2>2. TxSlot(p) \in Slot
    BY <2>1, Sizes, DivMod DEF TxSlot, Slot
  <2>3. TxSlot(p) # slot
    BY <1>1, <1>3
  <2> QED  BY <1>10, <2>2, <2>3
<1> HIDE DEF new, P, c, S
<1>13. Run(new, S, P) = Run(txInfo[r], S, P) /\ Run(new, c, S) = Run(txInfo[r], c, S)
  <2>1. \A p \in S .. P - 1 : new[TxSlot(p)] = txInfo[r][TxSlot(p)]
    BY <1>1, <1>12
  <2>2. \A p \in c .. S - 1 : new[TxSlot(p)] = txInfo[r][TxSlot(p)]
    BY <1>1, <1>12
  <2> QED  BY <1>1, <2>1, <2>2, RunSame
<1>14. Run(new, S, P + 1) = Append(Run(new, S, P), b)
  BY <1>1, <1>3, <1>10, RunAppend
<1>15. QueuedOf(r)' = Append(QueuedOf(r), b)
  BY <1>5, <1>11, <1>13, <1>14 DEF QueuedOf, new, P, S
<1>16. \A q \in Ring : q # r => QueuedOf(q)' = QueuedOf(q)
  BY <1>5, <1>10, <1>11 DEF QueuedOf
<1>17. \A q \in Ring : SentOf(q)' = SentOf(q)
  BY <1>5, <1>10, <1>13 DEF SentOf, new, c, S
<1>18. Len(QueuedOf(r)) + Len(SentOf(r)) < FullSize
  <2>1. Len(QueuedOf(r)) = P - S
    BY <1>1, RunLen DEF QueuedOf, P, S
  <2>2. Len(SentOf(r)) = S - c
    BY <1>1, RunLen DEF SentOf, c, S
  <2> QED  BY <1>1, <1>2, <2>1, <2>2, Sizes
<1>19. \A q \in Ring : b \notin ToSet(QueuedOf(q)) /\ b \notin ToSet(SentOf(q))
  <2> SUFFICES ASSUME NEW q \in Ring
               PROVE  b \notin ToSet(QueuedOf(q)) /\ b \notin ToSet(SentOf(q))
    OBVIOUS
  <2>1. /\ txProd[q] \in Nat /\ cqCons[q] \in Nat /\ nicTx[q].sent \in Nat
        /\ cqCons[q] <= nicTx[q].sent /\ nicTx[q].sent <= txProd[q]
        /\ txInfo[q] \in [Slot -> Nat \union {None}] /\ \A i \in Slot : txInfo[q][i] # b
    BY <1>9, RingFacts
  <2> QED  BY <2>1, RunElements DEF QueuedOf, SentOf
<1> QED  BY <1>8, <1>15, <1>16, <1>17, <1>18, <1>19, LooksLikeSubmit

(* A doorbell served is Send when the hardware finds a descriptor, and     *)
(* a stutter when it finds none.                                           *)
LEMMA SimulateBell ==
    ASSUME IInv, Pool, NEW r \in Ring, ServeBell(r)
    PROVE  [Abstract!Next]_(Abstract!vars)
<1>1. UNCHANGED <<txInfo, txProd, cqCons>> /\ (Sends(r) \/ Wasted)
  BY BellStep DEF driverVars, ringVars
<1>2. CASE Wasted
  <2>1. \A q \in Ring : QueuedOf(q)' = QueuedOf(q) /\ SentOf(q)' = SentOf(q)
    BY <1>1, <1>2 DEF Wasted, QueuedOf, SentOf
  <2> QED  BY <2>1, LooksLikeNothing
<1>3. CASE Sends(r)
  <2> DEFINE P == txProd[r]
             c == cqCons[r]
             S == nicTx[r].sent
             info == txInfo[r]
  <2>1. /\ P \in Nat /\ c \in Nat /\ S \in Nat /\ c <= S /\ S <= P
        /\ info \in [Slot -> Nat \union {None}]
    BY RingFacts
  <2>2. nicTx[r].prod \in Nat /\ nicTx[r].prod <= P
    BY RingNumbers DEF IInv, WritesInOrder, WritesOf, WritesFit
  <2>3. S < P
    BY <1>3, <2>1, <2>2 DEF Sends
  <2>4. nicTx'[r].sent = S + 1 /\ \A q \in Ring : q # r => nicTx'[q].sent = nicTx[q].sent
    BY <1>3 DEF Sends
  <2> HIDE DEF P, c, S, info
  <2>5. /\ Run(info, S, P) # <<>> /\ Head(Run(info, S, P)) = info[TxSlot(S)]
        /\ Tail(Run(info, S, P)) = Run(info, S + 1, P)
    BY <2>1, <2>3, RunTail
  <2>6. Run(info, c, S + 1) = Append(Run(info, c, S), info[TxSlot(S)])
    BY <2>1, RunAppend
  <2>7. /\ QueuedOf(r) = Run(info, S, P) /\ QueuedOf(r)' = Run(info, S + 1, P)
        /\ SentOf(r) = Run(info, c, S) /\ SentOf(r)' = Run(info, c, S + 1)
    BY <1>1, <2>4 DEF QueuedOf, SentOf, P, c, S, info
  <2>8. \A q \in Ring : q # r => QueuedOf(q)' = QueuedOf(q) /\ SentOf(q)' = SentOf(q)
    BY <1>1, <2>4 DEF QueuedOf, SentOf
  <2> QED  BY <2>5, <2>6, <2>7, <2>8, LooksLikeSend
<1> QED  BY <1>1, <1>2, <1>3

(* process_tx_cq is Reclaim: it empties the slots up to what the           *)
(* hardware has written, and leaves the slots of queued packets alone.     *)
LEMMA SimulateCompletes ==
    ASSUME IInv, Pool, NEW r \in Ring, Completes(r)
    PROVE  [Abstract!Next]_(Abstract!vars)
<1> DEFINE P == txProd[r]
           c == cqCons[r]
           S == nicTx[r].sent
           new == txInfo'[r]
<1>1. /\ P \in Nat /\ c \in Nat /\ S \in Nat /\ c <= S /\ S <= P /\ nicCq[r].written = S
      /\ P <= c + FullSize
      /\ txInfo[r] \in [Slot -> Nat \union {None}]
  <2>1. txProd[r] <= txCons[r] + FullSize
    BY DEF IInv, PointersInOrder, PointersOf
  <2> QED  BY <2>1, RingFacts, Sizes
<1>2. /\ UNCHANGED <<txProd, nicTx>>
      /\ cqCons' = [cqCons EXCEPT ![r] = nicCq[r].written]
      /\ txInfo' = [txInfo EXCEPT ![r] =
            [i \in 0 .. TxSize - 1 |->
                IF \E p \in cqCons[r] .. nicCq[r].written - 1 : i = TxSlot(p)
                THEN None ELSE txInfo[r][i]]]
  BY DEF Completes, nicVars
<1>3. cqCons \in [Ring -> Nat] /\ txInfo \in [Ring -> [Slot -> (1 .. allocated) \union {None}]]
  BY DEF IInv, Typing, TypeOK, Pool, PoolOf
<1>4. /\ cqCons'[r] = S /\ \A q \in Ring : q # r => cqCons'[q] = cqCons[q]
      /\ \A q \in Ring : q # r => txInfo'[q] = txInfo[q]
      /\ \A i \in Slot : (\A p \in c .. S - 1 : i # TxSlot(p)) => new[i] = txInfo[r][i]
  BY <1>1, <1>2, <1>3 DEF Slot
<1>5. \A p \in S .. P - 1 : new[TxSlot(p)] = txInfo[r][TxSlot(p)]
  <2> SUFFICES ASSUME NEW p \in S .. P - 1 PROVE new[TxSlot(p)] = txInfo[r][TxSlot(p)]
    OBVIOUS
  <2>1. p \in Nat
    BY <1>1
  <2>2. TxSlot(p) \in Slot
    BY <2>1, Sizes, DivMod DEF TxSlot, Slot
  <2>3. ASSUME NEW q \in c .. S - 1 PROVE TxSlot(p) # TxSlot(q)
    <3>1. q \in Nat /\ q < p /\ p < q + TxSize
      BY <1>1, Sizes
    <3> QED  BY <2>1, <3>1, Sizes, ModUnique DEF TxSlot
  <2> QED  BY <1>4, <2>2, <2>3
<1> HIDE DEF new, P, c, S
<1>6. Run(new, S, P) = Run(txInfo[r], S, P)
  <2>1. S \in Nat /\ P \in Nat
    BY <1>1
  <2>2. \A j \in 1 .. P - S : new[TxSlot(S + j - 1)] = txInfo[r][TxSlot(S + j - 1)]
    <3>1. \A j \in 1 .. P - S : S + j - 1 \in S .. P - 1
      BY <2>1
    <3> QED  BY <3>1, <1>5
  <2> QED  BY <2>2 DEF Run
<1>7. \A q \in Ring : QueuedOf(q)' = QueuedOf(q)
  BY <1>2, <1>4, <1>6 DEF QueuedOf, new, P, S
<1>8. \A q \in Ring : q # r => SentOf(q)' = SentOf(q)
  BY <1>2, <1>4 DEF SentOf
<1>9. SentOf(r)' = <<>>
  <2>1. Run(new, S, S) = <<>>
    BY <1>1, RunEmpty
  <2> QED  BY <1>2, <1>4, <2>1 DEF SentOf, new, S
<1>10. Len(SentOf(r)) = S - c
  BY <1>1, RunLen DEF SentOf, c, S
<1>11. CASE c < S
  <2>1. S - c \in Nat \ {0}
    BY <1>1, <1>11
  <2> QED  BY <1>7, <1>8, <1>9, <1>10, <2>1, LooksLikeReclaim
<1>12. CASE c = S
  <2>1. SentOf(r) = <<>>
    BY <1>1, <1>12, RunEmpty DEF SentOf, c, S
  <2>2. \A q \in Ring : QueuedOf(q)' = QueuedOf(q) /\ SentOf(q)' = SentOf(q)
    BY <1>7, <1>8, <1>9, <2>1
  <2> QED  BY <2>2, LooksLikeNothing
<1> QED  BY <1>1, <1>11, <1>12

(* Every step of the driver and the hardware is a step of PacketRing,      *)
(* or a stutter of it.                                                     *)
LEMMA Simulates ==
    IInv /\ Pool /\ BuffersCounted /\ IInv' /\ Pool' /\ BuffersCounted' /\ [Next]_vars
        => [Abstract!Next]_(Abstract!vars)
<1> SUFFICES ASSUME IInv, Pool, BuffersCounted, IInv', Pool', BuffersCounted', [Next]_vars
             PROVE  [Abstract!Next]_(Abstract!vars)
  OBVIOUS
<1>1. Typing'
  BY DEF IInv
<1>2. ASSUME NEW s \in Sender, NEW r \in Ring, Transmits(s, r)
      PROVE  Abstract!Next
  BY <1>1, <1>2, SimulateTransmits
<1>3. ASSUME UNCHANGED <<txInfo, txProd, cqCons>>, \A q \in Ring : nicTx'[q].sent = nicTx[q].sent
      PROVE  [Abstract!Next]_(Abstract!vars)
  <2>1. \A q \in Ring : QueuedOf(q)' = QueuedOf(q) /\ SentOf(q)' = SentOf(q)
    BY <1>3 DEF QueuedOf, SentOf
  <2> QED  BY <2>1, LooksLikeNothing
<1>4. ASSUME DeliverWrite \/ \E r \in Ring : CommitCompletion(r)
      PROVE  UNCHANGED <<txInfo, txProd, cqCons>> /\ \A q \in Ring : nicTx'[q].sent = nicTx[q].sent
  BY <1>4, SentKept DEF DeliverWrite, CommitCompletion, driverVars, ringVars
<1>5. ASSUME \/ \E s \in Sender, r \in Ring : Waits(s, r)
             \/ \E s \in Sender : FinishPublish(s)
             \/ TakeInterrupt \/ FinishEq \/ ArmEq
             \/ \E r \in Ring : Advances(r)
             \/ WriteEvent \/ CommitEvent \/ UNCHANGED vars
      PROVE  UNCHANGED <<txInfo, txProd, cqCons, nicTx>>
  BY <1>5 DEF Waits, WaitForSpace, FinishPublish, TakeInterrupt, FinishEq, ArmEq,
              Advances, WriteEvent, CommitEvent, vars, driverVars, ringVars, nicVars
<1> QED  BY <1>2, <1>3, <1>4, <1>5, SimulateBell, SimulateCompletes, Steps
         DEF SenderStep, HandlerStep, NicStep

(* Every ring starts empty.                                                *)
LEMMA SimulatesInit == Init => Abstract!Init
<1> SUFFICES ASSUME Init PROVE Abstract!Init
  OBVIOUS
<1>1. \A r \in Ring : nicTx[r].sent = 0 /\ txProd[r] = 0 /\ cqCons[r] = 0
  BY DEF Init
<1>2. \A r \in Ring : Slots(r, 0, 0) = <<>>
  BY DEF Slots
<1> QED  BY <1>1, <1>2 DEF Abstract!Init

(* Packets leave each ring in the order in which start_xmit put them there,*)
(* and no buffer is given back, or given to another packet, before its     *)
(* packet has left.                                                        *)
THEOREM KeepsPromise == Spec => ImplementsPacketRing
<1>1. Spec => [](IInv /\ Pool /\ BuffersCounted)
  BY InitInv, InvKept, PoolInit, PoolKept, CountInit, CountKept, PTL DEF Spec
<1> QED  BY <1>1, SimulatesInit, Simulates, PTL DEF Spec, ImplementsPacketRing, Abstract!Spec

-----------------------------------------------------------------------------
(* Completions and events are announced as long as none is dropped because *)
(* the event queue is full.                                                *)
EventRoom == events # <<>> => ~QueueFull(nicEq, EqSize)

(* Where an event of queue r may be.                                       *)
UnreadFrom == IF handler.pc = "scan" THEN handler.ptr
              ELSE IF handler.pc = "advance" THEN handler.ptr + 1
              ELSE eqCons
Unread(r) == \E p \in UnreadFrom .. nicEq.written - 1 : eqBuf[EqSlot(p)].source = r
Raised(r) == r \in ToSet(events)
InHand(r) == handler.pc = "advance" /\ handler.ring = r
Arming(r) == Write("cqArm", r, 0) \in ToSet(posted)
ArmingEq == Write("eqArm", None, 0) \in ToSet(posted)

(* A queue that is not armed has one; one that is armed has nothing to be  *)
(* read.  The same of the event queue and its interrupts.                  *)
AnnouncedOf(r) ==
    /\ nicCq[r].armed \/ Raised(r) \/ Unread(r) \/ InHand(r) \/ Arming(r)
    /\ nicCq[r].armed => nicCq[r].prod <= cqCons[r]
EqAnnounced ==
    /\ nicEq.armed \/ irqQueue > 0 \/ handler.pc # "idle" \/ ArmingEq
    /\ nicEq.armed => nicEq.prod <= eqCons
Announced == (\A r \in Ring : AnnouncedOf(r)) /\ EqAnnounced

(* It is what CompletionsAnnounced says.                                   *)
LEMMA AnnouncedMeans == IInv /\ Announced => CompletionsAnnounced
<1> SUFFICES ASSUME IInv, Announced PROVE CompletionsAnnounced
  OBVIOUS
<1>1. ASSUME NEW r \in Ring, nicCq[r].prod > cqCons[r] PROVE EventOnItsWay(r)
  <2>1. cqCons[r] \in Nat /\ nicCq[r].prod \in Nat
    BY RingTypes DEF IInv
  <2>2. ~nicCq[r].armed
    BY <1>1, <2>1 DEF Announced, AnnouncedOf
  <2>3. Raised(r) \/ Unread(r) \/ InHand(r) \/ Arming(r)
    BY <2>2 DEF Announced, AnnouncedOf
  <2> QED  BY <2>3 DEF EventOnItsWay, Raised, Unread, UnreadFrom, InHand, Arming
<1>2. ASSUME nicEq.prod > eqCons PROVE InterruptOnItsWay
  <2>1. nicEq.prod \in Nat /\ eqCons \in Nat
    BY DEF IInv, Typing, TypeOK
  <2>2. ~nicEq.armed
    BY <1>2, <2>1 DEF Announced, EqAnnounced
  <2> QED  BY <2>2 DEF Announced, EqAnnounced, InterruptOnItsWay, ArmingEq
<1> QED  BY <1>1, <1>2 DEF CompletionsAnnounced

(* Everything is armed at first.                                           *)
LEMMA AnnouncedInit == Init => Announced
<1> SUFFICES ASSUME Init PROVE Announced
  OBVIOUS
<1>1. \A r \in Ring : nicCq[r].armed /\ nicCq[r].prod = 0 /\ cqCons[r] = 0
  BY DEF Init
<1>2. nicEq.armed /\ nicEq.prod = 0 /\ eqCons = 0
  BY DEF Init
<1> QED  BY <1>1, <1>2 DEF Announced, AnnouncedOf, EqAnnounced

(* The elements of a list to which one is appended.                        *)
LEMMA AppendSet ==
    ASSUME NEW S, NEW e \in Seq(S), NEW c \in S
    PROVE  Append(e, c) \in Seq(S) /\ ToSet(Append(e, c)) = ToSet(e) \union {c}
<1>1. /\ Append(e, c) \in Seq(S) /\ DOMAIN Append(e, c) = 1 .. Len(e) + 1
      /\ \A j \in 1 .. Len(e) : Append(e, c)[j] = e[j]
      /\ Append(e, c)[Len(e) + 1] = c
      /\ DOMAIN e = 1 .. Len(e) /\ Len(e) \in Nat
  OBVIOUS
<1>2. \A j : j \in 1 .. Len(e) + 1 <=> j \in 1 .. Len(e) \/ j = Len(e) + 1
  BY <1>1
<1> QED  BY <1>1, <1>2 DEF ToSet

(* The elements of a list whose first is taken.                            *)
LEMMA TailSet ==
    ASSUME NEW S, NEW e \in Seq(S), e # <<>>
    PROVE  /\ Tail(e) \in Seq(S) /\ Head(e) \in S
           /\ ToSet(e) = ToSet(Tail(e)) \union {Head(e)}
<1>1. /\ Tail(e) \in Seq(S) /\ DOMAIN Tail(e) = 1 .. Len(e) - 1
      /\ \A j \in 1 .. Len(e) - 1 : Tail(e)[j] = e[j + 1] /\ j + 1 \in 1 .. Len(e)
      /\ Head(e) = e[1] /\ 1 \in 1 .. Len(e)
      /\ DOMAIN e = 1 .. Len(e) /\ Len(e) \in Nat
  OBVIOUS
<1>2. \A j \in 1 .. Len(e) : j = 1 \/ (j - 1 \in 1 .. Len(e) - 1 /\ (j - 1) + 1 = j)
  BY <1>1
<1>3. ASSUME NEW x \in ToSet(e) PROVE x \in ToSet(Tail(e)) \union {Head(e)}
  <2>1. PICK j \in 1 .. Len(e) : x = e[j]
    BY <1>1 DEF ToSet
  <2>2. CASE j = 1
    BY <1>1, <2>1, <2>2
  <2>3. CASE j # 1
    <3>1. Tail(e)[j - 1] = x /\ j - 1 \in DOMAIN Tail(e)
      BY <1>1, <1>2, <2>1, <2>3
    <3> QED  BY <3>1 DEF ToSet
  <2> QED  BY <2>2, <2>3
<1>4. ToSet(Tail(e)) \union {Head(e)} \subseteq ToSet(e)
  BY <1>1 DEF ToSet
<1> QED  BY <1>1, <1>3, <1>4

(* A step that posts a write and leaves the hardware alone: of queue r     *)
(* nothing is lost but what the handler takes in hand.                     *)
LEMMA PostAnnounced ==
    ASSUME IInv, Announced, NEW w \in RegWrite, Post(w), UNCHANGED nicVars,
           \A r \in Ring : cqCons[r] <= cqCons'[r] /\ cqCons'[r] \in Nat,
           eqCons <= eqCons', eqCons' \in Nat,
           handler.pc # "idle" => handler'.pc # "idle" \/ w = Write("eqArm", None, 0),
           \A r \in Ring : Unread(r) => Unread(r)' \/ InHand(r)',
           \A r \in Ring : InHand(r) => InHand(r)' \/ w = Write("cqArm", r, 0)
    PROVE  Announced'
<1>1. ToSet(posted') = ToSet(posted) \union {w}
  BY AppendSet DEF IInv, Typing, Post
<1>2. ASSUME NEW r \in Ring PROVE AnnouncedOf(r)'
  <2>1. nicCq'[r].armed = nicCq[r].armed /\ nicCq'[r].prod = nicCq[r].prod /\ events' = events
    BY DEF nicVars
  <2>2. (Raised(r) => Raised(r)') /\ (Arming(r) => Arming(r)')
        /\ (w = Write("cqArm", r, 0) => Arming(r)')
    BY <1>1, <2>1 DEF Raised, Arming
  <2>3. nicCq'[r].armed \/ Raised(r)' \/ Unread(r)' \/ InHand(r)' \/ Arming(r)'
    BY <2>1, <2>2 DEF Announced, AnnouncedOf
  <2>4. nicCq[r].prod \in Nat /\ cqCons[r] \in Nat
    BY RingTypes DEF IInv
  <2>5. nicCq[r].armed => nicCq[r].prod <= cqCons'[r]
    BY <2>4 DEF Announced, AnnouncedOf
  <2> QED  BY <2>1, <2>3, <2>5 DEF AnnouncedOf
<1>3. EqAnnounced'
  <2>1. nicEq' = nicEq /\ irqQueue' = irqQueue
    BY DEF nicVars
  <2>2. (ArmingEq => ArmingEq') /\ (w = Write("eqArm", None, 0) => ArmingEq')
    BY <1>1 DEF ArmingEq
  <2>3. nicEq.prod \in Nat /\ eqCons \in Nat
    BY DEF IInv, Typing, TypeOK
  <2>4. nicEq.armed => nicEq.prod <= eqCons'
    BY <2>3 DEF Announced, EqAnnounced
  <2>5. nicEq'.armed \/ irqQueue' > 0 \/ handler'.pc # "idle" \/ ArmingEq'
    BY <2>1, <2>2 DEF Announced, EqAnnounced
  <2> QED  BY <2>1, <2>4, <2>5 DEF EqAnnounced
<1> QED  BY <1>2, <1>3 DEF Announced

(* The senders only post.                                                  *)
LEMMA SendersAnnounced ==
    ASSUME IInv, Announced, SenderStep
    PROVE  Announced'
<1>1. /\ \A r \in Ring : cqCons[r] \in Nat
      /\ eqCons \in Nat
  BY DEF IInv, Typing, TypeOK
<1>2. ASSUME NEW w \in RegWrite, Post(w), UNCHANGED <<cqCons, eqCons, handler, nicVars>>
      PROVE  Announced'
  <2>1. \A r \in Ring : (Unread(r)' <=> Unread(r)) /\ (InHand(r)' <=> InHand(r))
    BY <1>2 DEF Unread, UnreadFrom, InHand, nicVars
  <2>2. \A r \in Ring : cqCons[r] <= cqCons'[r] /\ cqCons'[r] \in Nat
    BY <1>1, <1>2
  <2>3. eqCons <= eqCons' /\ eqCons' \in Nat
    BY <1>1, <1>2
  <2>4. UNCHANGED nicVars /\ handler' = handler
    BY <1>2
  <2> QED  BY <1>2, <2>1, <2>2, <2>3, <2>4, PostAnnounced
<1>3. ASSUME NEW s \in Sender, NEW r \in Ring, Transmits(s, r)
      PROVE  Announced'
  <2>1. txProd[r] + 1 \in Nat
    BY RingNumbers DEF IInv
  <2>2. Publication(r, txProd[r] + 1)[1] \in RegWrite
    BY <2>1, PublicationTyped
  <2>3. Post(Publication(r, txProd[r] + 1)[1]) /\ UNCHANGED <<cqCons, eqCons, handler, nicVars>>
    BY <1>3 DEF Transmits, TxTransmit
  <2> QED  BY <1>2, <2>2, <2>3
<1>4. ASSUME NEW s \in Sender, FinishPublish(s)
      PROVE  Announced'
  <2>1. PICK r : r = xmit[s].ring
    OBVIOUS
  <2>2. r \in Ring
    BY <1>4, <2>1 DEF FinishPublish, IInv, Typing
  <2>3. txProd[r] \in Nat
    BY <2>2, RingNumbers DEF IInv
  <2>4. Publication(r, txProd[r])[2] \in RegWrite
    BY <2>2, <2>3, PublicationTyped
  <2>5. Post(Publication(r, txProd[r])[2]) /\ UNCHANGED <<cqCons, eqCons, handler, nicVars>>
    BY <1>4, <2>1 DEF FinishPublish
  <2> QED  BY <1>2, <2>4, <2>5
<1>5. ASSUME NEW s \in Sender, NEW r \in Ring, Waits(s, r)
      PROVE  Announced'
  <2>1. UNCHANGED <<cqCons, eqCons, handler, nicVars, posted>>
    BY <1>5 DEF Waits, WaitForSpace
  <2> QED  BY <2>1 DEF Announced, AnnouncedOf, EqAnnounced, Raised, Unread, UnreadFrom, InHand, Arming,
                       ArmingEq, nicVars
<1> QED  BY <1>3, <1>4, <1>5 DEF SenderStep

(* The handler takes an event in hand, empties its queue and arms it.      *)
LEMMA HandlerAnnounced ==
    ASSUME IInv, Announced, HandlerStep
    PROVE  Announced'
<1>1. /\ \A r \in Ring : cqCons[r] \in Nat
      /\ eqCons \in Nat /\ nicEq.written \in Nat /\ irqQueue \in Nat
      /\ handler \in [pc : {"idle", "scan", "advance", "arm"}, ring : Ring \union {None}, ptr : Nat]
  BY DEF IInv, Typing, TypeOK
<1>2. CASE TakeInterrupt
  <2>1. /\ UNCHANGED <<posted, cqCons, eqCons, nicCq, nicEq, events, eqBuf>>
        /\ handler.pc = "idle" /\ handler'.pc = "scan" /\ handler'.ptr = eqCons
    BY <1>1, <1>2 DEF TakeInterrupt
  <2>2. UnreadFrom' = UnreadFrom
    BY <2>1 DEF UnreadFrom
  <2>3. \A r \in Ring : Unread(r)' <=> Unread(r)
    BY <2>1, <2>2 DEF Unread
  <2>4. \A r \in Ring : ~InHand(r)
    BY <2>1 DEF InHand
  <2>5. ASSUME NEW r \in Ring PROVE AnnouncedOf(r)'
    BY <2>1, <2>3, <2>4 DEF Announced, AnnouncedOf, Raised, Arming
  <2>6. EqAnnounced'
    BY <2>1 DEF Announced, EqAnnounced
  <2> QED  BY <2>5, <2>6 DEF Announced
<1>3. ASSUME NEW q \in Ring, Completes(q) PROVE Announced'
  <2>1. /\ Post(Write("cqCons", q, nicCq[q].written)) /\ UNCHANGED nicVars /\ eqCons' = eqCons
        /\ handler.pc = "scan" /\ handler'.pc = "advance" /\ handler'.ring = q
        /\ handler'.ptr = handler.ptr /\ handler.ptr \in Nat
        /\ eqBuf[EqSlot(handler.ptr)].source = q
        /\ cqCons' = [cqCons EXCEPT ![q] = nicCq[q].written]
    BY <1>1, <1>3 DEF Completes, EventHere
  <2>2. nicCq[q].written \in Nat /\ cqCons[q] <= nicCq[q].written
    BY RingNumbers DEF IInv, PointersInOrder, PointersOf
  <2>3. \A r \in Ring : cqCons[r] <= cqCons'[r] /\ cqCons'[r] \in Nat
    <3>1. cqCons \in [Ring -> Nat]
      BY DEF IInv, Typing, TypeOK
    <3> QED  BY <1>1, <2>1, <2>2, <3>1
  <2>4. Write("cqCons", q, nicCq[q].written) \in RegWrite
    BY <2>2, WritesTyped
  <2>5. ASSUME NEW r \in Ring, Unread(r) PROVE Unread(r)' \/ InHand(r)'
    <3>1. UnreadFrom = handler.ptr /\ UnreadFrom' = handler.ptr + 1
      BY <2>1 DEF UnreadFrom
    <3>2. nicEq' = nicEq /\ eqBuf' = eqBuf
      BY <2>1 DEF nicVars
    <3>3. PICK p \in handler.ptr .. nicEq.written - 1 : eqBuf[EqSlot(p)].source = r
      BY <2>5, <3>1 DEF Unread
    <3>4. CASE p = handler.ptr
      BY <2>1, <3>3, <3>4 DEF InHand
    <3>5. CASE p # handler.ptr
      <4>1. p \in handler.ptr + 1 .. nicEq.written - 1
        BY <1>1, <2>1, <3>5
      <4> QED  BY <3>1, <3>2, <3>3, <4>1 DEF Unread
    <3> QED  BY <3>4, <3>5
  <2>6. \A r \in Ring : ~InHand(r)
    BY <2>1 DEF InHand
  <2>7. eqCons <= eqCons' /\ eqCons' \in Nat
    BY <1>1, <2>1
  <2> QED  BY <2>1, <2>3, <2>4, <2>5, <2>6, <2>7, PostAnnounced
<1>4. ASSUME NEW q \in Ring, Advances(q) PROVE Announced'
  <2>1. /\ Post(Write("cqArm", q, 0)) /\ UNCHANGED nicVars /\ eqCons' = eqCons /\ cqCons' = cqCons
        /\ handler.pc = "advance" /\ handler.ring = q
        /\ handler'.pc = "scan" /\ handler'.ptr = handler.ptr + 1
    BY <1>4 DEF Advances
  <2>2. \A r \in Ring : Unread(r)' <=> Unread(r)
    <3>1. UnreadFrom' = UnreadFrom
      BY <2>1 DEF UnreadFrom
    <3> QED  BY <2>1, <3>1 DEF Unread, nicVars
  <2>3. \A r \in Ring : InHand(r) => Write("cqArm", q, 0) = Write("cqArm", r, 0)
    BY <2>1 DEF InHand
  <2>4. Write("cqArm", q, 0) \in RegWrite
    BY WritesTyped
  <2>5. eqCons <= eqCons' /\ eqCons' \in Nat
    BY <1>1, <2>1
  <2>6. \A r \in Ring : cqCons[r] <= cqCons'[r] /\ cqCons'[r] \in Nat
    BY <1>1, <2>1
  <2> QED  BY <2>1, <2>2, <2>3, <2>4, <2>5, <2>6, PostAnnounced
<1>5. CASE FinishEq
  <2>1. /\ Post(Write("eqCons", None, handler.ptr)) /\ UNCHANGED nicVars /\ cqCons' = cqCons
        /\ handler.pc = "scan" /\ handler'.pc = "arm" /\ eqCons' = handler.ptr /\ handler.ptr \in Nat
    BY <1>1, <1>5 DEF FinishEq
  <2>2. \A r \in Ring : Unread(r)' <=> Unread(r)
    <3>1. UnreadFrom' = UnreadFrom
      BY <2>1 DEF UnreadFrom
    <3> QED  BY <2>1, <3>1 DEF Unread, nicVars
  <2>3. eqCons <= handler.ptr
    BY <1>1, <2>1 DEF IInv, EventsExact
  <2>4. \A r \in Ring : ~InHand(r)
    BY <2>1 DEF InHand
  <2>5. Write("eqCons", None, handler.ptr) \in RegWrite
    BY <2>1, WritesTyped
  <2>6. \A r \in Ring : cqCons[r] <= cqCons'[r] /\ cqCons'[r] \in Nat
    BY <1>1, <2>1
  <2>7. handler'.pc # "idle" /\ eqCons <= eqCons' /\ eqCons' \in Nat
    BY <2>1, <2>3
  <2> QED  BY <2>1, <2>2, <2>4, <2>5, <2>6, <2>7, PostAnnounced
<1>6. CASE ArmEq
  <2>1. /\ Post(Write("eqArm", None, 0)) /\ UNCHANGED nicVars /\ cqCons' = cqCons /\ eqCons' = eqCons
        /\ handler.pc = "arm" /\ handler'.pc = "idle"
    BY <1>1, <1>6 DEF ArmEq
  <2>2. \A r \in Ring : Unread(r)' <=> Unread(r)
    <3>1. UnreadFrom' = UnreadFrom
      BY <2>1 DEF UnreadFrom
    <3> QED  BY <2>1, <3>1 DEF Unread, nicVars
  <2>3. \A r \in Ring : ~InHand(r)
    BY <2>1 DEF InHand
  <2>4. Write("eqArm", None, 0) \in RegWrite
    BY WritesTyped
  <2>5. \A r \in Ring : cqCons[r] <= cqCons'[r] /\ cqCons'[r] \in Nat
    BY <1>1, <2>1
  <2>6. eqCons <= eqCons' /\ eqCons' \in Nat
    BY <1>1, <2>1
  <2> QED  BY <2>1, <2>2, <2>3, <2>4, <2>5, <2>6, PostAnnounced
<1> QED  BY <1>2, <1>3, <1>4, <1>5, <1>6 DEF HandlerStep

(* A write arrives: what it arms is armed, or raises at once.              *)
LEMMA ArriveAnnounced ==
    ASSUME IInv, Announced, DeliverWrite
    PROVE  Announced'
<1>1. /\ nicCq \in [Ring -> NicQueueType] /\ nicEq \in NicQueueType
      /\ posted \in Seq(RegWrite) /\ posted # <<>> /\ posted' = Tail(posted)
      /\ events \in Seq(Ring) /\ irqQueue \in Nat
      /\ UNCHANGED <<cqCons, eqCons, handler, eqBuf>>
  BY TypeGroups DEF IInv, Typing, NicTypes, HandlerTypes, DeliverWrite, driverVars
<1>2. PICK w \in RegWrite : w = Head(posted)
  BY <1>1, TailSet
<1>3. ToSet(posted) = ToSet(posted') \union {w}
  BY <1>1, <1>2, TailSet
<1>4. DeliverTx(w) \/ DeliverCq(w) \/ DeliverEq(w)
  BY <1>2 DEF DeliverWrite
<1>5. w.reg = "cqArm" => w.ring \in Ring
  BY DEF RegWrite
<1>6. /\ nicEq'.written = nicEq.written /\ nicEq'.prod = nicEq.prod
      /\ w.reg # "eqArm" => nicEq'.armed = nicEq.armed /\ irqQueue' = irqQueue
      /\ w.reg = "eqArm" => (nicEq'.armed /\ nicEq.prod = nicEq.cons) \/ irqQueue' > 0
      /\ w.reg = "eqArm" => (nicEq'.armed => nicEq.prod = nicEq.cons)
  <2>1. CASE DeliverTx(w) \/ DeliverCq(w)
    <3>1. nicEq' = nicEq /\ irqQueue' = irqQueue /\ w.reg # "eqArm"
      BY <2>1 DEF DeliverTx, DeliverCq
    <3> QED  BY <3>1
  <2>2. CASE DeliverEq(w)
    <3>1. CASE w.reg = "eqCons"
      <4>1. nicEq' = [nicEq EXCEPT !.cons = w.val] /\ irqQueue' = irqQueue
        BY <2>2, <3>1 DEF DeliverEq
      <4> QED  BY <1>1, <3>1, <4>1 DEF NicQueueType
    <3>2. CASE w.reg = "eqArm"
      <4>1. /\ nicEq' = [nicEq EXCEPT !.armed = ~ArmRaises(nicEq)]
            /\ irqQueue' = IF ArmRaises(nicEq) THEN irqQueue + 1 ELSE irqQueue
        BY <2>2, <3>2 DEF DeliverEq
      <4>2. nicEq'.armed = ~ArmRaises(nicEq) /\ nicEq'.written = nicEq.written /\ nicEq'.prod = nicEq.prod
        BY <1>1, <4>1 DEF NicQueueType
      <4>3. ArmRaises(nicEq) <=> nicEq.prod # nicEq.cons
        BY DEF ArmRaises
      <4>4. CASE ArmRaises(nicEq)
        <5>1. irqQueue' = irqQueue + 1 /\ irqQueue' > 0
          BY <1>1, <4>1, <4>4
        <5>2. ~nicEq'.armed
          BY <4>2, <4>4
        <5> QED  BY <3>2, <4>2, <5>1, <5>2
      <4>5. CASE ~ArmRaises(nicEq)
        <5>1. nicEq'.armed
          BY <4>2, <4>5
        <5>2. nicEq.prod = nicEq.cons
          BY <4>3, <4>5
        <5> QED  BY <3>2, <4>2, <5>1, <5>2
      <4> QED  BY <4>4, <4>5
    <3> QED  BY <2>2, <3>1, <3>2 DEF DeliverEq
  <2> QED  BY <1>4, <2>1, <2>2
<1>7. ASSUME NEW r \in Ring
      PROVE  /\ nicCq'[r].prod = nicCq[r].prod
             /\ Raised(r) => Raised(r)'
             /\ ~IsWrite(w, "cqArm", r) => nicCq'[r].armed = nicCq[r].armed
             /\ IsWrite(w, "cqArm", r) =>
                    /\ nicCq'[r].armed \/ Raised(r)'
                    /\ nicCq'[r].armed => nicCq[r].prod = nicCq[r].cons
  <2>1. CASE DeliverTx(w) \/ DeliverEq(w)
    <3>1. nicCq' = nicCq /\ events' = events /\ w.reg # "cqArm"
      BY <2>1 DEF DeliverTx, DeliverEq
    <3> QED  BY <3>1 DEF IsWrite, Raised
  <2>2. CASE DeliverCq(w) /\ w.reg = "cqCons"
    <3>1. nicCq' = [nicCq EXCEPT ![w.ring].cons = w.val] /\ events' = events
      BY <2>2 DEF DeliverCq
    <3>2. nicCq'[r].prod = nicCq[r].prod /\ nicCq'[r].armed = nicCq[r].armed
      BY <1>1, <3>1 DEF NicQueueType
    <3> QED  BY <2>2, <3>1, <3>2 DEF IsWrite, Raised
  <2>3. CASE DeliverCq(w) /\ w.reg = "cqArm"
    <3>1. PICK q \in Ring : q = w.ring
      BY <1>5, <2>3
    <3>2. /\ nicCq' = [nicCq EXCEPT ![q].armed = ~ArmRaises(nicCq[q])]
          /\ events' = IF ArmRaises(nicCq[q]) THEN Append(events, q) ELSE events
      BY <2>3, <3>1 DEF DeliverCq
    <3>3. /\ nicCq'[r].prod = nicCq[r].prod
          /\ r # q => nicCq'[r].armed = nicCq[r].armed
          /\ r = q => nicCq'[r].armed = ~ArmRaises(nicCq[r])
      BY <1>1, <3>2 DEF NicQueueType
    <3>4. ToSet(Append(events, q)) = ToSet(events) \union {q}
      BY <1>1, AppendSet
    <3>5. (Raised(r) => Raised(r)') /\ (r = q /\ ArmRaises(nicCq[r]) => Raised(r)')
      BY <3>2, <3>4 DEF Raised
    <3>6. ArmRaises(nicCq[r]) <=> nicCq[r].prod # nicCq[r].cons
      BY DEF ArmRaises
    <3>7. IsWrite(w, "cqArm", r) <=> r = q
      BY <2>3, <3>1 DEF IsWrite
    <3> QED  BY <3>3, <3>5, <3>6, <3>7
  <2> QED  BY <1>4, <2>1, <2>2, <2>3 DEF DeliverCq
<1>8. ASSUME NEW r \in Ring PROVE AnnouncedOf(r)'
  <2>1. (Unread(r)' <=> Unread(r)) /\ (InHand(r)' <=> InHand(r))
    <3>1. UnreadFrom' = UnreadFrom
      BY <1>1 DEF UnreadFrom
    <3> QED  BY <1>1, <1>6, <3>1 DEF Unread, InHand
  <2>2. Arming(r) => Arming(r)' \/ IsWrite(w, "cqArm", r)
    BY <1>3 DEF Arming, IsWrite, Write
  <2>3. nicCq[r].cons <= cqCons[r]
    BY DEF IInv, WritesInOrder, WritesOf, WritesFit
  <2>4. nicCq'[r].armed \/ Raised(r)' \/ Unread(r)' \/ InHand(r)' \/ Arming(r)'
    BY <1>7, <2>1, <2>2 DEF Announced, AnnouncedOf
  <2>5. nicCq'[r].armed => nicCq[r].prod <= cqCons[r]
    <3>1. CASE IsWrite(w, "cqArm", r)
      BY <1>7, <2>3, <3>1
    <3>2. CASE ~IsWrite(w, "cqArm", r)
      BY <1>7, <3>2 DEF Announced, AnnouncedOf
    <3> QED  BY <3>1, <3>2
  <2> QED  BY <1>1, <1>7, <2>4, <2>5 DEF AnnouncedOf
<1>9. EqAnnounced'
  <2>1. ArmingEq => ArmingEq' \/ w.reg = "eqArm"
    BY <1>3 DEF ArmingEq, Write
  <2>2. nicEq.cons <= eqCons
    BY DEF IInv, EventsExact
  <2>3. nicEq'.armed \/ irqQueue' > 0 \/ handler'.pc # "idle" \/ ArmingEq'
    BY <1>1, <1>6, <2>1 DEF Announced, EqAnnounced
  <2>4. nicEq'.armed => nicEq.prod <= eqCons
    BY <1>6, <2>2 DEF Announced, EqAnnounced
  <2> QED  BY <1>1, <1>6, <2>3, <2>4 DEF EqAnnounced
<1> QED  BY <1>8, <1>9 DEF Announced

(* An event is written to memory, over none that is still to be read.      *)
LEMMA WriteAnnounced ==
    ASSUME IInv, Announced, EventRoom, WriteEvent
    PROVE  Announced'
<1>1. /\ nicEq \in NicQueueType /\ eqCons \in Nat /\ handler.ptr \in Nat
      /\ eqBuf \in [0 .. EqSize - 1 -> [source : Ring \union {None}, phase : BOOLEAN]]
      /\ events \in Seq(Ring) /\ events # <<>> /\ events' = Tail(events)
      /\ UNCHANGED <<cqCons, eqCons, handler, posted, nicCq, irqQueue>>
  BY TypeGroups DEF IInv, Typing, NicTypes, HandlerTypes, BufferTypes, WriteEvent, driverVars
<1>2. PICK e \in Ring : e = Head(events) /\ ToSet(events) = ToSet(events') \union {e}
  BY <1>1, TailSet
<1>3. PICK n \in Nat : n = nicEq.written
  BY <1>1 DEF NicQueueType
<1>4. /\ eqBuf' = [eqBuf EXCEPT ![EqSlot(n)] = [source |-> e, phase |-> PhaseOf(n, EqSize)]]
      /\ nicEq' = [nicEq EXCEPT !.written = n + 1]
      /\ n < nicEq.cons + EqSize
  <2>1. ~QueueFull(nicEq, EqSize)
    BY <1>1 DEF EventRoom
  <2>2. nicEq.cons \in Nat
    BY <1>1 DEF NicQueueType
  <2> QED  BY <1>2, <1>3, <2>1, <2>2, Sizes DEF WriteEvent, QueueFull
<1>5. nicEq'.written = n + 1 /\ nicEq'.armed = nicEq.armed /\ nicEq'.prod = nicEq.prod
  BY <1>1, <1>4 DEF NicQueueType
<1>6. /\ UnreadFrom' = UnreadFrom /\ UnreadFrom \in Nat
      /\ UnreadFrom <= n /\ n < UnreadFrom + EqSize
  <2>1. eqCons <= UnreadFrom /\ UnreadFrom <= n /\ UnreadFrom \in Nat
    BY <1>1, <1>3 DEF UnreadFrom, IInv, EventsExact, Marked
  <2>2. nicEq.cons <= eqCons /\ nicEq.cons \in Nat
    BY <1>1 DEF IInv, EventsExact, NicQueueType
  <2>3. UnreadFrom' = UnreadFrom
    BY <1>1 DEF UnreadFrom
  <2> QED  BY <1>1, <1>4, <2>1, <2>2, <2>3, Sizes
<1>7. PICK a \in Nat : a = UnreadFrom
  BY <1>6
<1>8. EqSlot(n) \in DOMAIN eqBuf
  BY <1>1, Sizes, DivMod DEF EqSlot
<1>9. ASSUME NEW r \in Ring, Unread(r) PROVE Unread(r)'
  <2>1. PICK p \in a .. n - 1 : eqBuf[EqSlot(p)].source = r
    BY <1>3, <1>7, <1>9 DEF Unread
  <2>2. p \in Nat /\ p < n /\ n < p + EqSize
    BY <1>6, <1>7, <2>1, Sizes
  <2>3. EqSlot(p) # EqSlot(n)
    BY <2>2, Sizes, ModUnique DEF EqSlot
  <2>4. eqBuf'[EqSlot(p)] = eqBuf[EqSlot(p)]
    BY <1>4, <2>3
  <2>5. p \in a .. (n + 1) - 1
    BY <2>1
  <2> QED  BY <1>5, <1>6, <1>7, <2>1, <2>4, <2>5 DEF Unread
<1>10. Unread(e)'
  <2>1. n \in a .. (n + 1) - 1
    BY <1>6, <1>7
  <2>2. eqBuf'[EqSlot(n)].source = e
    BY <1>4, <1>8
  <2> QED  BY <1>5, <1>6, <1>7, <2>1, <2>2 DEF Unread
<1>11. ASSUME NEW r \in Ring PROVE AnnouncedOf(r)'
  <2>1. Raised(r) => Raised(r)' \/ r = e
    BY <1>2 DEF Raised
  <2>2. (InHand(r)' <=> InHand(r)) /\ (Arming(r)' <=> Arming(r))
    BY <1>1 DEF InHand, Arming
  <2> QED  BY <1>1, <1>9, <1>10, <2>1, <2>2 DEF Announced, AnnouncedOf
<1>12. EqAnnounced'
  BY <1>1, <1>5 DEF Announced, EqAnnounced, ArmingEq
<1> QED  BY <1>11, <1>12 DEF Announced

(* A commit raises if the queue is armed.                                  *)
LEMMA CommitAnnounced ==
    ASSUME IInv, Announced, NEW q \in Ring, CommitCompletion(q)
    PROVE  Announced'
<1>1. /\ nicCq \in [Ring -> NicQueueType] /\ events \in Seq(Ring)
      /\ UNCHANGED <<cqCons, eqCons, handler, posted, nicEq, eqBuf, irqQueue>>
      /\ nicCq' = [nicCq EXCEPT ![q].prod = @ + 1, ![q].armed = FALSE]
      /\ events' = IF nicCq[q].armed THEN Append(events, q) ELSE events
  BY TypeGroups DEF IInv, Typing, NicTypes, CommitCompletion, driverVars
<1>2. ToSet(Append(events, q)) = ToSet(events) \union {q}
  BY <1>1, AppendSet
<1>3. ASSUME NEW r \in Ring PROVE AnnouncedOf(r)'
  <2>1. /\ r # q => nicCq'[r] = nicCq[r]
        /\ r = q => ~nicCq'[r].armed
    BY <1>1 DEF NicQueueType
  <2>2. (Raised(r) => Raised(r)') /\ (r = q /\ nicCq[r].armed => Raised(r)')
    BY <1>1, <1>2 DEF Raised
  <2>3. (Unread(r)' <=> Unread(r)) /\ (InHand(r)' <=> InHand(r)) /\ (Arming(r)' <=> Arming(r))
    BY <1>1 DEF Unread, UnreadFrom, InHand, Arming
  <2>4. CASE r = q
    BY <2>1, <2>2, <2>3, <2>4 DEF Announced, AnnouncedOf
  <2>5. CASE r # q
    BY <1>1, <2>1, <2>2, <2>3, <2>5 DEF Announced, AnnouncedOf
  <2> QED  BY <2>4, <2>5
<1>4. EqAnnounced'
  BY <1>1 DEF Announced, EqAnnounced, ArmingEq
<1> QED  BY <1>3, <1>4 DEF Announced

(* The other steps of the hardware.                                        *)
LEMMA NicAnnounced ==
    ASSUME IInv, Announced, EventRoom, NicStep
    PROVE  Announced'
<1>1. ASSUME NEW q \in Ring, ServeBell(q) PROVE Announced'
  <2>1. nicCq \in [Ring -> NicQueueType]
    BY TypeGroups DEF IInv, Typing, NicTypes
  <2>2. UNCHANGED <<cqCons, eqCons, handler, posted, nicEq, eqBuf, irqQueue, events>>
    BY <1>1 DEF ServeBell, driverVars
  <2>3. nicCq' = nicCq \/ nicCq' = [nicCq EXCEPT ![q].written = @ + 1]
    BY <1>1 DEF ServeBell
  <2>4. ASSUME NEW r \in Ring PROVE AnnouncedOf(r)'
    <3>1. nicCq'[r].armed = nicCq[r].armed /\ nicCq'[r].prod = nicCq[r].prod
      BY <2>1, <2>3 DEF NicQueueType
    <3>2. /\ Raised(r)' <=> Raised(r)
          /\ (Unread(r)' <=> Unread(r)) /\ (InHand(r)' <=> InHand(r)) /\ (Arming(r)' <=> Arming(r))
      BY <2>2 DEF Raised, Unread, UnreadFrom, InHand, Arming
    <3> QED  BY <2>2, <3>1, <3>2 DEF Announced, AnnouncedOf
  <2>5. EqAnnounced'
    BY <2>2 DEF Announced, EqAnnounced, ArmingEq
  <2> QED  BY <2>4, <2>5 DEF Announced
<1>2. CASE CommitEvent
  <2>1. /\ nicEq \in NicQueueType /\ irqQueue \in Nat
        /\ UNCHANGED <<cqCons, eqCons, handler, posted, nicCq, eqBuf, events>>
        /\ nicEq' = [nicEq EXCEPT !.prod = @ + 1, !.armed = FALSE]
        /\ irqQueue' = IF nicEq.armed THEN irqQueue + 1 ELSE irqQueue
    BY <1>2, TypeGroups DEF IInv, Typing, NicTypes, HandlerTypes, CommitEvent, driverVars
  <2>2. ~nicEq'.armed /\ nicEq'.written = nicEq.written
    BY <2>1 DEF NicQueueType
  <2>3. ASSUME NEW r \in Ring PROVE AnnouncedOf(r)'
    <3>1. /\ Raised(r)' <=> Raised(r)
          /\ (Unread(r)' <=> Unread(r)) /\ (InHand(r)' <=> InHand(r)) /\ (Arming(r)' <=> Arming(r))
      BY <2>1, <2>2 DEF Raised, Unread, UnreadFrom, InHand, Arming
    <3> QED  BY <2>1, <3>1 DEF Announced, AnnouncedOf
  <2>4. EqAnnounced'
    BY <2>1, <2>2 DEF Announced, EqAnnounced, ArmingEq
  <2> QED  BY <2>3, <2>4 DEF Announced
<1> QED  BY <1>1, <1>2, ArriveAnnounced, WriteAnnounced, CommitAnnounced DEF NicStep

(* Every step keeps it while there is room for events.                     *)
LEMMA AnnouncedKept == IInv /\ Announced /\ EventRoom /\ [Next]_vars => Announced'
<1> SUFFICES ASSUME IInv, Announced, EventRoom, [Next]_vars PROVE Announced'
  OBVIOUS
<1>1. CASE UNCHANGED vars
  BY <1>1 DEF vars, driverVars, nicVars, Announced, AnnouncedOf, EqAnnounced, Raised, Unread, UnreadFrom,
              InHand, Arming, ArmingEq
<1> QED  BY <1>1, Steps, SendersAnnounced, HandlerAnnounced, NicAnnounced

(* No completion and no event is forgotten as long as the event queue has  *)
(* room for each event that is raised: its consumer pointer reaches the    *)
(* hardware only when process_eq ends, and an event that is dropped leaves *)
(* its completion queue disarmed for ever (mqnic.py, Eq.process_eq; Cq.arm;*)
(* cpl_queue_manager.v).                                                   *)
THEOREM NothingForgotten == Spec /\ []EventRoom => []CompletionsAnnounced
<1>1. IInv /\ Announced => CompletionsAnnounced
  BY AnnouncedMeans
<1> QED  BY <1>1, AnnouncedInit, AnnouncedKept, Invariance, PTL DEF Spec

-----------------------------------------------------------------------------
(* How many events there can be: a notice of queue r is in one place, and  *)
(* each stands for a packet of its own.                                    *)
Arm(r) == Write("cqArm", r, 0)
Once(e, c) == \A i, j \in DOMAIN e : e[i] = c /\ e[j] = c => i = j
UnreadOnce(r) ==
    \A p, q \in UnreadFrom .. nicEq.written - 1 :
        eqBuf[EqSlot(p)].source = r /\ eqBuf[EqSlot(q)].source = r => p = q
OnePlace(r) ==
    /\ Once(events, r) /\ UnreadOnce(r) /\ Once(posted, Arm(r))
    /\ nicCq[r].armed => ~Raised(r) /\ ~Unread(r) /\ ~InHand(r) /\ ~Arming(r)
    /\ Raised(r) => ~Unread(r) /\ ~InHand(r) /\ ~Arming(r)
    /\ Unread(r) => ~InHand(r) /\ ~Arming(r)
    /\ InHand(r) => ~Arming(r)

(* Before a queue is armed the hardware is told how far it has been read,  *)
(* and nothing is read until it raises.                                    *)
HasCons(ps, r) == \E i \in DOMAIN ps : IsWrite(ps[i], "cqCons", r)
ConsIs(ps, r, v) == \A i \in DOMAIN ps : IsWrite(ps[i], "cqCons", r) => ps[i].val = v
ConsThenArm(ps, r) ==
    \A i \in DOMAIN ps : IsWrite(ps[i], "cqCons", r) => \E j \in DOMAIN ps : i < j /\ ps[j] = Arm(r)
ReadTold(r) ==
    /\ nicCq[r].cons <= nicCq[r].prod /\ nicCq[r].prod <= nicCq[r].written
    /\ nicCq[r].cons = cqCons[r] \/ HasCons(posted, r)
    /\ ConsIs(posted, r, cqCons[r])
    /\ InHand(r) \/ ConsThenArm(posted, r)

Noticed(r) == Raised(r) \/ Unread(r)
NoticeOf(r) ==
    /\ OnePlace(r) /\ ReadTold(r)
    /\ nicCq[r].armed => nicCq[r].prod = cqCons[r]
    /\ Noticed(r) => cqCons[r] < nicCq[r].prod
ArmsPlain == \A i \in DOMAIN posted : posted[i].reg = "cqArm" => posted[i].val = 0
Notices == ArmsPlain /\ \A r \in Ring : NoticeOf(r)

(* The packets events have been raised for, and those handed to a ring.    *)
Claimed ==
    {c \in Ring \X Nat : c[2] < cqCons[c[1]] \/ (c[2] = cqCons[c[1]] /\ Noticed(c[1]))}
Submitted == {c \in Ring \X Nat : c[2] < txProd[c[1]]}
EventsCounted == nicEq.written + Len(events) <= Cardinality(Claimed)
SendsCounted ==
    /\ IsFiniteSet(Submitted) /\ IsFiniteSet(Pending)
    /\ Cardinality(Submitted) + Cardinality(Pending) <= calls

(* Lists that hold something once, when a list grows.                      *)
LEMMA AppendOnce ==
    ASSUME NEW S, NEW e \in Seq(S), NEW w \in S, NEW c, Once(e, c), w = c => c \notin ToSet(e)
    PROVE  Once(Append(e, w), c)
<1>1. PICK n \in Nat : n = Len(e) /\ DOMAIN e = 1 .. n
  OBVIOUS
<1>2. /\ DOMAIN Append(e, w) = 1 .. n + 1 /\ Append(e, w)[n + 1] = w
      /\ \A j \in 1 .. n : Append(e, w)[j] = e[j]
  BY <1>1
<1>3. w = c => \A j \in 1 .. n : e[j] # c
  BY <1>1 DEF ToSet
<1> SUFFICES ASSUME NEW i \in 1 .. n + 1, NEW j \in 1 .. n + 1,
                    Append(e, w)[i] = c, Append(e, w)[j] = c
             PROVE  i = j
  BY <1>2 DEF Once
<1>4. CASE i \in 1 .. n /\ j \in 1 .. n
  BY <1>1, <1>2, <1>4 DEF Once
<1>5. CASE i = n + 1 \/ j = n + 1
  BY <1>2, <1>3, <1>5
<1> QED  BY <1>4, <1>5

(* The same when its first element is taken: that is gone.                 *)
LEMMA TailOnce ==
    ASSUME NEW S, NEW e \in Seq(S), e # <<>>, NEW c, Once(e, c)
    PROVE  /\ Once(Tail(e), c)
           /\ Head(e) = c => c \notin ToSet(Tail(e))
<1>1. PICK n \in Nat : Len(e) = n + 1 /\ DOMAIN e = 1 .. n + 1
  <2>1. Len(e) \in Nat /\ Len(e) > 0 /\ DOMAIN e = 1 .. Len(e)
    OBVIOUS
  <2>2. Len(e) - 1 \in Nat /\ Len(e) = (Len(e) - 1) + 1
    BY <2>1
  <2> QED  BY <2>1, <2>2
<1>2. /\ DOMAIN Tail(e) = 1 .. n /\ Head(e) = e[1]
      /\ \A j \in 1 .. n : Tail(e)[j] = e[j + 1] /\ j + 1 \in 1 .. n + 1
  BY <1>1
<1>3. ASSUME NEW i \in 1 .. n, NEW j \in 1 .. n, Tail(e)[i] = c, Tail(e)[j] = c
      PROVE  i = j
  <2>1. i + 1 = j + 1
    BY <1>1, <1>2, <1>3 DEF Once
  <2> QED  BY <2>1
<1>4. ASSUME NEW j \in 1 .. n, Tail(e)[j] = c, Head(e) = c
      PROVE  FALSE
  <2>1. 1 = j + 1 /\ j \in Nat
    BY <1>1, <1>2, <1>4 DEF Once
  <2> QED  BY <2>1
<1> QED  BY <1>2, <1>3, <1>4 DEF Once, ToSet

(* Posted consumer pointers, when a write joins them.                      *)
LEMMA AppendCons ==
    ASSUME NEW ps \in Seq(RegWrite), NEW w \in RegWrite, NEW r \in Ring, NEW v
    PROVE  /\ HasCons(Append(ps, w), r) <=> HasCons(ps, r) \/ IsWrite(w, "cqCons", r)
           /\ ConsIs(ps, r, v) /\ (IsWrite(w, "cqCons", r) => w.val = v) => ConsIs(Append(ps, w), r, v)
           /\ ConsThenArm(ps, r) /\ ~IsWrite(w, "cqCons", r) => ConsThenArm(Append(ps, w), r)
           /\ w = Arm(r) => ConsThenArm(Append(ps, w), r)
<1>1. PICK n \in Nat : n = Len(ps) /\ DOMAIN ps = 1 .. n
  OBVIOUS
<1>2. PICK p2 : p2 = Append(ps, w)
  OBVIOUS
<1>3. /\ DOMAIN p2 = 1 .. n + 1 /\ p2[n + 1] = w
      /\ \A j \in 1 .. n : p2[j] = ps[j]
  BY <1>1, <1>2
<1>4. \A j : j \in 1 .. n + 1 <=> j \in 1 .. n \/ j = n + 1
  OBVIOUS
<1>5. HasCons(p2, r) <=> HasCons(ps, r) \/ IsWrite(w, "cqCons", r)
  BY <1>1, <1>3, <1>4 DEF HasCons
<1>6. ConsIs(ps, r, v) /\ (IsWrite(w, "cqCons", r) => w.val = v) => ConsIs(p2, r, v)
  BY <1>1, <1>3, <1>4 DEF ConsIs
<1>7. ASSUME ConsThenArm(ps, r), ~IsWrite(w, "cqCons", r) PROVE ConsThenArm(p2, r)
  <2> SUFFICES ASSUME NEW i \in 1 .. n, IsWrite(ps[i], "cqCons", r)
               PROVE  \E j \in 1 .. n + 1 : i < j /\ p2[j] = Arm(r)
    BY <1>3, <1>4, <1>7 DEF ConsThenArm
  <2>1. PICK j \in 1 .. n : i < j /\ ps[j] = Arm(r)
    BY <1>1, <1>7 DEF ConsThenArm
  <2> QED  BY <1>3, <1>4, <2>1
<1>8. ASSUME w = Arm(r) PROVE ConsThenArm(p2, r)
  <2>1. ~IsWrite(w, "cqCons", r)
    BY <1>8 DEF Arm, Write, IsWrite
  <2> SUFFICES ASSUME NEW i \in 1 .. n
               PROVE  i < n + 1 /\ p2[n + 1] = Arm(r)
    BY <1>3, <1>4, <2>1 DEF ConsThenArm
  <2> QED  BY <1>3, <1>8
<1> QED  BY <1>2, <1>5, <1>6, <1>7, <1>8

(* The same when the oldest write arrives.                                 *)
LEMMA TailCons ==
    ASSUME NEW ps \in Seq(RegWrite), ps # <<>>, NEW r \in Ring, NEW v
    PROVE  /\ HasCons(ps, r) => HasCons(Tail(ps), r) \/ IsWrite(Head(ps), "cqCons", r)
           /\ ConsIs(ps, r, v) => ConsIs(Tail(ps), r, v) /\ (IsWrite(Head(ps), "cqCons", r) => Head(ps).val = v)
           /\ ConsThenArm(ps, r) => ConsThenArm(Tail(ps), r)
           /\ ConsThenArm(ps, r) /\ Once(ps, Arm(r)) /\ Head(ps) = Arm(r) => ~HasCons(ps, r)
<1>1. PICK n \in Nat : Len(ps) = n + 1 /\ DOMAIN ps = 1 .. n + 1
  <2>1. Len(ps) \in Nat /\ Len(ps) > 0 /\ DOMAIN ps = 1 .. Len(ps)
    OBVIOUS
  <2>2. Len(ps) - 1 \in Nat /\ Len(ps) = (Len(ps) - 1) + 1
    BY <2>1
  <2> QED  BY <2>1, <2>2
<1>2. PICK p2 : p2 = Tail(ps)
  OBVIOUS
<1>3. /\ DOMAIN p2 = 1 .. n /\ Head(ps) = ps[1] /\ 1 \in 1 .. n + 1
      /\ \A j \in 1 .. n : p2[j] = ps[j + 1] /\ j + 1 \in 1 .. n + 1
  BY <1>1, <1>2
<1>4. \A j \in 1 .. n + 1 : j = 1 \/ (j - 1 \in 1 .. n /\ (j - 1) + 1 = j)
  OBVIOUS
<1>5. HasCons(ps, r) => HasCons(p2, r) \/ IsWrite(Head(ps), "cqCons", r)
  <2> SUFFICES ASSUME NEW i \in 1 .. n + 1, IsWrite(ps[i], "cqCons", r), i # 1
               PROVE  HasCons(p2, r)
    BY <1>1, <1>3 DEF HasCons
  <2>1. i - 1 \in 1 .. n /\ p2[i - 1] = ps[i]
    BY <1>3, <1>4
  <2> QED  BY <1>3, <2>1 DEF HasCons
<1>6. ConsIs(ps, r, v) => ConsIs(p2, r, v) /\ (IsWrite(Head(ps), "cqCons", r) => Head(ps).val = v)
  BY <1>1, <1>3 DEF ConsIs
<1>7. ASSUME ConsThenArm(ps, r) PROVE ConsThenArm(p2, r)
  <2> SUFFICES ASSUME NEW i \in 1 .. n, IsWrite(ps[i + 1], "cqCons", r)
               PROVE  \E j \in 1 .. n : i < j /\ p2[j] = Arm(r)
    BY <1>3 DEF ConsThenArm
  <2>1. PICK j \in 1 .. n + 1 : i + 1 < j /\ ps[j] = Arm(r)
    BY <1>1, <1>3, <1>7 DEF ConsThenArm
  <2>2. j - 1 \in 1 .. n /\ i < j - 1 /\ (j - 1) + 1 = j
    BY <2>1
  <2> QED  BY <1>3, <2>1, <2>2
<1>8. ASSUME ConsThenArm(ps, r), Once(ps, Arm(r)), Head(ps) = Arm(r), HasCons(ps, r)
      PROVE  FALSE
  <2>1. PICK i \in 1 .. n + 1 : IsWrite(ps[i], "cqCons", r)
    BY <1>1, <1>8 DEF HasCons
  <2>2. PICK j \in 1 .. n + 1 : i < j /\ ps[j] = Arm(r)
    BY <1>1, <1>8, <2>1 DEF ConsThenArm
  <2>3. j = 1
    BY <1>1, <1>3, <1>8, <2>2 DEF Once
  <2> QED  BY <2>1, <2>2, <2>3
<1> QED  BY <1>2, <1>5, <1>6, <1>7, <1>8

(* At the start every queue is armed and nothing is on its way.            *)
LEMMA NoticesInit == Init => Notices /\ EventsCounted /\ SendsCounted
<1> SUFFICES ASSUME Init PROVE Notices /\ EventsCounted /\ SendsCounted
  OBVIOUS
<1>1. /\ events = <<>> /\ posted = <<>> /\ eqCons = 0 /\ nicEq.written = 0 /\ handler.pc = "idle"
      /\ \A r \in Ring : cqCons[r] = 0 /\ txProd[r] = 0
      /\ \A r \in Ring : nicCq[r].cons = 0 /\ nicCq[r].prod = 0 /\ nicCq[r].written = 0
  BY DEF Init
<1>2. UnreadFrom = 0 /\ 0 .. nicEq.written - 1 = {} /\ DOMAIN posted = {} /\ DOMAIN events = {}
      /\ ToSet(posted) = {} /\ ToSet(events) = {} /\ Len(events) = 0
  BY <1>1 DEF UnreadFrom, ToSet
<1>3. ASSUME NEW r \in Ring PROVE NoticeOf(r)
  <2>1. ~Raised(r) /\ ~Unread(r) /\ ~InHand(r) /\ ~Arming(r)
    BY <1>1, <1>2 DEF Raised, Unread, InHand, Arming
  <2>2. OnePlace(r)
    BY <1>2, <2>1 DEF OnePlace, Once, UnreadOnce
  <2>3. ReadTold(r)
    BY <1>1, <1>2 DEF ReadTold, ConsIs, ConsThenArm
  <2> QED  BY <1>1, <2>1, <2>2, <2>3 DEF NoticeOf, Noticed
<1>4. Notices
  BY <1>2, <1>3 DEF Notices, ArmsPlain
<1>5. Claimed = {} /\ Submitted = {} /\ Pending = {} /\ calls = 0
  <2>1. \A r \in Ring : ~Noticed(r)
    BY <1>1, <1>2 DEF Noticed, Raised, Unread
  <2>2. \A c \in Ring \X Nat : ~(c[2] < cqCons[c[1]]) /\ ~Noticed(c[1]) /\ ~(c[2] < txProd[c[1]])
    BY <1>1, <2>1
  <2> QED  BY <2>2 DEF Init, Claimed, Submitted, Pending
<1>6. IsFiniteSet({}) /\ Cardinality({}) = 0
  BY FS_EmptySet
<1> QED  BY <1>1, <1>2, <1>4, <1>5, <1>6 DEF EventsCounted, SendsCounted

(* What is posted after one more write.                                    *)
LEMMA PostedNext ==
    ASSUME IInv, NEW w \in RegWrite, Post(w), NEW r \in Ring
    PROVE  /\ Arming(r)' <=> Arming(r) \/ w = Arm(r)
           /\ Once(posted, Arm(r)) /\ (w = Arm(r) => ~Arming(r)) => Once(posted, Arm(r))'
           /\ HasCons(posted, r)' <=> HasCons(posted, r) \/ IsWrite(w, "cqCons", r)
           /\ ~HasCons(posted, r) => ConsIs(posted, r, w.val)'
           /\ ConsThenArm(posted, r) /\ ~IsWrite(w, "cqCons", r) => ConsThenArm(posted, r)'
           /\ w = Arm(r) => ConsThenArm(posted, r)'
<1>1. posted \in Seq(RegWrite) /\ posted' = Append(posted, w)
  BY DEF IInv, Typing, Post
<1>2. Arming(r)' <=> Arming(r) \/ w = Arm(r)
  BY <1>1, AppendSet DEF Arming, Arm
<1>3. Once(posted, Arm(r)) /\ (w = Arm(r) => ~Arming(r)) => Once(Append(posted, w), Arm(r))
  BY <1>1, AppendOnce DEF Arming, Arm
<1>4. Arm(r)' = Arm(r)
  BY DEF Arm, Write
<1>5. HasCons(Append(posted, w), r) <=> HasCons(posted, r) \/ IsWrite(w, "cqCons", r)
  BY <1>1, AppendCons
<1>6. ConsThenArm(posted, r) /\ ~IsWrite(w, "cqCons", r) => ConsThenArm(Append(posted, w), r)
  BY <1>1, AppendCons
<1>7. w = Arm(r) => ConsThenArm(Append(posted, w), r)
  BY <1>1, AppendCons
<1>8. ~HasCons(posted, r) => ConsIs(Append(posted, w), r, w.val)
  <2>1. ~HasCons(posted, r) => ConsIs(posted, r, w.val)
    BY DEF HasCons, ConsIs
  <2> QED  BY <1>1, <2>1, AppendCons
<1> QED  BY <1>1, <1>2, <1>3, <1>5, <1>6, <1>7, <1>8 DEF Once, HasCons, ConsIs, ConsThenArm, Arm, Write

(* A step that posts something that is not about the completions of r.     *)
LEMMA PostKeeps ==
    ASSUME IInv, NEW w \in RegWrite, Post(w), UNCHANGED nicVars, NEW r \in Ring, NoticeOf(r),
           Unread(r)' <=> Unread(r), UnreadOnce(r)', InHand(r)' <=> InHand(r),
           cqCons'[r] = cqCons[r], ~IsWrite(w, "cqCons", r), w # Arm(r)
    PROVE  NoticeOf(r)'
<1>1. /\ nicCq'[r] = nicCq[r] /\ events' = events
      /\ (Raised(r)' <=> Raised(r)) /\ (Arming(r)' <=> Arming(r))
  BY PostedNext DEF nicVars, Raised
<1>2. Once(events, r)' /\ Once(posted, Arm(r))'
  BY <1>1, PostedNext DEF NoticeOf, OnePlace, Once
<1>3. OnePlace(r)'
  BY <1>1, <1>2 DEF NoticeOf, OnePlace
<1>4. ConsIs(posted, r, cqCons[r])'
  <2>1. posted \in Seq(RegWrite) /\ posted' = Append(posted, w)
    BY DEF IInv, Typing, Post
  <2>2. ConsIs(Append(posted, w), r, cqCons[r])
    BY <2>1, AppendCons DEF NoticeOf, ReadTold
  <2> QED  BY <2>1, <2>2 DEF ConsIs
<1>5. ReadTold(r)'
  BY <1>1, <1>4, PostedNext DEF NoticeOf, ReadTold
<1> QED  BY <1>1, <1>3, <1>5 DEF NoticeOf, Noticed

(* Nothing armed has a value of its own.                                   *)
LEMMA PlainNext ==
    ASSUME IInv, ArmsPlain, NEW w \in RegWrite, Post(w), w.reg = "cqArm" => w.val = 0
    PROVE  ArmsPlain'
<1>1. posted \in Seq(RegWrite) /\ posted' = Append(posted, w)
  BY DEF IInv, Typing, Post
<1>2. PICK n \in Nat : n = Len(posted) /\ DOMAIN posted = 1 .. n
  BY <1>1
<1>3. /\ DOMAIN posted' = 1 .. n + 1 /\ posted'[n + 1] = w
      /\ \A j \in 1 .. n : posted'[j] = posted[j]
  BY <1>1, <1>2
<1>4. \A j : j \in 1 .. n + 1 <=> j \in 1 .. n \/ j = n + 1
  OBVIOUS
<1> QED  BY <1>2, <1>3, <1>4 DEF ArmsPlain

(* What a step does to the notices: no event is raised or written, and     *)
(* none is taken without its packets.                                      *)
Quiet ==
    /\ events' = events /\ nicEq'.written = nicEq.written
    /\ \A r \in Ring :
        /\ cqCons[r] <= cqCons'[r]
        /\ Noticed(r) => Noticed(r)' \/ cqCons[r] < cqCons'[r]

(* The senders only post.                                                  *)
LEMMA SendersNotices ==
    ASSUME IInv, Notices, SenderStep
    PROVE  Notices' /\ Quiet
<1>0. \A r \in Ring : cqCons[r] \in Nat
  BY DEF IInv, Typing, TypeOK
<1>1. ASSUME NEW w \in RegWrite, Post(w), UNCHANGED <<cqCons, eqCons, handler, nicVars>>,
             w.reg \in {"prod", "bell"}
      PROVE  Notices' /\ Quiet
  <2>1. \A r \in Ring : (Unread(r)' <=> Unread(r)) /\ (InHand(r)' <=> InHand(r)) /\ (Raised(r)' <=> Raised(r))
    BY <1>1 DEF Unread, UnreadFrom, InHand, nicVars, Raised
  <2>2. ASSUME NEW r \in Ring PROVE NoticeOf(r)'
    <3>1. NoticeOf(r)
      BY DEF Notices
    <3>2. UnreadOnce(r)'
      BY <1>1, <3>1 DEF NoticeOf, OnePlace, UnreadOnce, UnreadFrom, nicVars
    <3>3. ~IsWrite(w, "cqCons", r) /\ w # Arm(r)
      BY <1>1 DEF IsWrite, Arm, Write
    <3>4. UNCHANGED nicVars /\ cqCons'[r] = cqCons[r]
      BY <1>1
    <3> QED  BY <1>1, <2>1, <3>1, <3>2, <3>3, <3>4, PostKeeps
  <2>3. ArmsPlain'
    BY <1>1, PlainNext DEF Notices
  <2>4. Quiet
    BY <1>0, <1>1, <2>1 DEF Quiet, Noticed, nicVars
  <2> QED  BY <2>2, <2>3, <2>4 DEF Notices
<1>2. \A r \in Ring, v \in Nat, k \in {1, 2} : Publication(r, v)[k].reg \in {"prod", "bell"}
  BY PublicationTyped DEF Write
<1>3. ASSUME NEW s \in Sender, NEW r \in Ring, Transmits(s, r)
      PROVE  Notices' /\ Quiet
  <2>1. txProd[r] + 1 \in Nat
    BY RingNumbers DEF IInv
  <2>2. Publication(r, txProd[r] + 1)[1] \in RegWrite
    BY <2>1, PublicationTyped
  <2>3. Post(Publication(r, txProd[r] + 1)[1]) /\ UNCHANGED <<cqCons, eqCons, handler, nicVars>>
    BY <1>3 DEF Transmits, TxTransmit
  <2> QED  BY <1>1, <1>2, <2>1, <2>2, <2>3
<1>4. ASSUME NEW s \in Sender, FinishPublish(s)
      PROVE  Notices' /\ Quiet
  <2>1. PICK r : r = xmit[s].ring
    OBVIOUS
  <2>2. r \in Ring
    BY <1>4, <2>1 DEF FinishPublish, IInv, Typing
  <2>3. txProd[r] \in Nat
    BY <2>2, RingNumbers DEF IInv
  <2>4. Publication(r, txProd[r])[2] \in RegWrite
    BY <2>2, <2>3, PublicationTyped
  <2>5. Post(Publication(r, txProd[r])[2]) /\ UNCHANGED <<cqCons, eqCons, handler, nicVars>>
    BY <1>4, <2>1 DEF FinishPublish
  <2> QED  BY <1>1, <1>2, <2>2, <2>3, <2>4, <2>5
<1>5. ASSUME NEW s \in Sender, NEW r \in Ring, Waits(s, r)
      PROVE  Notices' /\ Quiet
  <2>1. UNCHANGED <<cqCons, eqCons, handler, nicVars, posted>>
    BY <1>5 DEF Waits, WaitForSpace
  <2>2. \A q \in Ring : (Unread(q)' <=> Unread(q)) /\ (Raised(q)' <=> Raised(q))
    BY <2>1 DEF Unread, UnreadFrom, nicVars, Raised
  <2>3. Quiet
    BY <1>0, <2>1, <2>2 DEF Quiet, Noticed, nicVars
  <2>4. Notices'
    BY <2>1 DEF Notices, ArmsPlain, NoticeOf, OnePlace, ReadTold, Once, UnreadOnce, Noticed, HasCons, ConsIs,
                ConsThenArm, Raised, Unread, UnreadFrom, InHand, Arming, Arm, nicVars
  <2> QED  BY <2>3, <2>4
<1> QED  BY <1>3, <1>4, <1>5 DEF SenderStep

(* process_eq takes the notice of queue q in hand and reads it up.         *)
LEMMA CompletesNotices ==
    ASSUME IInv, Notices, NEW q \in Ring, Completes(q)
    PROVE  Notices' /\ Quiet
<1>1. /\ handler \in [pc : {"idle", "scan", "advance", "arm"}, ring : Ring \union {None}, ptr : Nat]
      /\ cqCons \in [Ring -> Nat] /\ nicEq.written \in Nat
  BY DEF IInv, Typing, TypeOK
<1>2. /\ Post(Write("cqCons", q, nicCq[q].written)) /\ UNCHANGED nicVars
      /\ handler.pc = "scan" /\ handler'.pc = "advance" /\ handler'.ring = q
      /\ handler'.ptr = handler.ptr /\ handler.ptr \in Nat /\ handler.ptr < nicEq.written
      /\ eqBuf[EqSlot(handler.ptr)].source = q
      /\ cqCons' = [cqCons EXCEPT ![q] = nicCq[q].written]
  BY <1>1 DEF Completes, EventHere
<1>3. PICK w \in RegWrite : w = Write("cqCons", q, nicCq[q].written)
  <2>1. nicCq[q].written \in Nat
    BY RingNumbers DEF IInv
  <2> QED  BY <2>1, WritesTyped
<1>4. w.reg = "cqCons" /\ w.ring = q /\ w.val = nicCq[q].written
  BY <1>3 DEF Write
<1>5. UnreadFrom = handler.ptr /\ UnreadFrom' = handler.ptr + 1 /\ nicEq' = nicEq /\ eqBuf' = eqBuf
  BY <1>2 DEF UnreadFrom, nicVars
<1>6. \A p : p \in handler.ptr .. nicEq.written - 1
                <=> p = handler.ptr \/ p \in handler.ptr + 1 .. nicEq.written - 1
  BY <1>1, <1>2
<1>7. handler.ptr \notin handler.ptr + 1 .. nicEq.written - 1
  BY <1>1, <1>2
<1>8. Unread(q) /\ ~Unread(q)'
  <2>1. UnreadOnce(q)
    BY DEF Notices, NoticeOf, OnePlace
  <2>2. Unread(q)
    BY <1>2, <1>5, <1>6 DEF Unread
  <2>3. ASSUME NEW p \in handler.ptr + 1 .. nicEq.written - 1, eqBuf[EqSlot(p)].source = q
        PROVE  FALSE
    <3>1. p = handler.ptr
      BY <1>2, <1>5, <1>6, <2>1, <2>3 DEF UnreadOnce
    <3> QED  BY <1>7, <2>3, <3>1
  <2> QED  BY <1>5, <2>2, <2>3 DEF Unread
<1>9. \A r \in Ring : UnreadOnce(r)'
  <2>1. \A r \in Ring : UnreadOnce(r)
    BY DEF Notices, NoticeOf, OnePlace
  <2> QED  BY <1>5, <1>6, <2>1 DEF UnreadOnce
<1>10. ASSUME NEW r \in Ring, r # q PROVE NoticeOf(r)' /\ (Unread(r)' <=> Unread(r))
  <2>1. Unread(r)' <=> Unread(r)
    BY <1>2, <1>5, <1>6, <1>10 DEF Unread
  <2>2. InHand(r)' <=> InHand(r)
    BY <1>2, <1>10 DEF InHand
  <2>3. ~IsWrite(w, "cqCons", r) /\ w # Arm(r)
    BY <1>4, <1>10 DEF IsWrite, Arm, Write
  <2>4. NoticeOf(r) /\ cqCons'[r] = cqCons[r]
    BY <1>1, <1>2, <1>10 DEF Notices
  <2> QED  BY <1>2, <1>3, <1>9, <2>1, <2>2, <2>3, <2>4, PostKeeps
<1>11. /\ cqCons'[q] = nicCq[q].written /\ cqCons[q] < nicCq[q].prod /\ nicCq[q].prod <= nicCq[q].written
       /\ nicCq[q].cons <= nicCq[q].prod
       /\ ~nicCq[q].armed /\ ~Raised(q) /\ ~InHand(q) /\ ~Arming(q)
  BY <1>1, <1>2, <1>8 DEF Notices, NoticeOf, OnePlace, ReadTold, Noticed
<1>12. NoticeOf(q)'
  <2>1. /\ ~nicCq'[q].armed /\ ~Raised(q)' /\ ~Unread(q)' /\ ~Arming(q)'
        /\ Once(events, q)' /\ Once(posted, Arm(q))'
    <3>1. nicCq' = nicCq /\ events' = events
      BY <1>2 DEF nicVars
    <3>2. w # Arm(q)
      BY <1>4 DEF Arm, Write
    <3> QED  BY <1>2, <1>3, <1>8, <1>11, <3>1, <3>2, PostedNext DEF Notices, NoticeOf, OnePlace, Raised, Once
  <2>2. ~HasCons(posted, q)
    <3>1. ConsThenArm(posted, q)
      BY <1>11 DEF Notices, NoticeOf, ReadTold
    <3>2. \A j \in DOMAIN posted : posted[j] # Arm(q)
      BY <1>11 DEF Arming, ToSet, Arm
    <3> QED  BY <3>1, <3>2 DEF HasCons, ConsThenArm
  <2>3. HasCons(posted, q)' /\ ConsIs(posted, q, w.val)'
    BY <1>2, <1>3, <1>4, <2>2, PostedNext DEF IsWrite
  <2>4. ConsIs(posted, q, cqCons[q])'
    BY <1>4, <1>11, <2>3 DEF ConsIs
  <2>5. InHand(q)'
    BY <1>2 DEF InHand
  <2>6. nicCq' = nicCq
    BY <1>2 DEF nicVars
  <2>7. ReadTold(q)'
    BY <1>11, <2>3, <2>4, <2>5, <2>6 DEF ReadTold
  <2>8. OnePlace(q)'
    BY <1>9, <2>1 DEF OnePlace
  <2> QED  BY <2>1, <2>7, <2>8 DEF NoticeOf, Noticed
<1>13. ArmsPlain'
  BY <1>2, <1>3, <1>4, PlainNext DEF Notices
<1>14. Quiet
  <2>1. events' = events /\ nicEq' = nicEq
    BY <1>2 DEF nicVars
  <2>2. nicCq[q].written \in Nat /\ nicCq[q].prod \in Nat /\ \A r \in Ring : cqCons[r] \in Nat
    BY <1>1, RingTypes DEF IInv
  <2>3. ASSUME NEW r \in Ring
        PROVE  cqCons[r] <= cqCons'[r] /\ (Noticed(r) => Noticed(r)' \/ cqCons[r] < cqCons'[r])
    <3>1. CASE r = q
      BY <1>11, <2>2, <3>1
    <3>2. CASE r # q
      BY <1>1, <1>2, <1>10, <2>1, <2>2, <3>2 DEF Noticed, Raised
    <3> QED  BY <3>1, <3>2
  <2> QED  BY <2>1, <2>3 DEF Quiet
<1> QED  BY <1>10, <1>12, <1>13, <1>14 DEF Notices

(* Then it arms the queue again.                                           *)
LEMMA AdvancesNotices ==
    ASSUME IInv, Notices, NEW q \in Ring, Advances(q)
    PROVE  Notices' /\ Quiet
<1>1. /\ Post(Arm(q)) /\ UNCHANGED nicVars /\ eqCons' = eqCons /\ cqCons' = cqCons
      /\ handler.pc = "advance" /\ handler.ring = q
      /\ handler'.pc = "scan" /\ handler'.ptr = handler.ptr + 1
      /\ nicCq' = nicCq /\ events' = events /\ nicEq' = nicEq
      /\ \A r \in Ring : cqCons[r] \in Nat
  BY DEF Advances, Arm, nicVars, IInv, Typing, TypeOK
<1>2. UnreadFrom' = UnreadFrom
  BY <1>1 DEF UnreadFrom
<1>3. \A r \in Ring : /\ Unread(r)' <=> Unread(r)
                      /\ Raised(r)' <=> Raised(r)
                      /\ UnreadOnce(r) => UnreadOnce(r)'
  BY <1>1, <1>2 DEF Unread, Raised, UnreadOnce, nicVars
<1>4. Arm(q) \in RegWrite /\ Arm(q).reg = "cqArm" /\ Arm(q).ring = q /\ Arm(q).val = 0
  BY WritesTyped DEF Arm, Write
<1>5. ASSUME NEW r \in Ring, r # q PROVE NoticeOf(r)'
  <2>1. InHand(r)' <=> InHand(r)
    BY <1>1, <1>5 DEF InHand
  <2>2. ~IsWrite(Arm(q), "cqCons", r) /\ Arm(q) # Arm(r)
    BY <1>5 DEF IsWrite, Arm, Write
  <2>3. NoticeOf(r) /\ UnreadOnce(r)'
    BY <1>3 DEF Notices, NoticeOf, OnePlace
  <2> QED  BY <1>1, <1>3, <1>4, <2>1, <2>2, <2>3, PostKeeps
<1>6. InHand(q) /\ ~InHand(q)'
  BY <1>1 DEF InHand
<1>7. NoticeOf(q)'
  <2>1. NoticeOf(q)
    BY DEF Notices
  <2>2. ~Arming(q) /\ ~nicCq[q].armed /\ ~Raised(q) /\ ~Unread(q)
    BY <1>6, <2>1 DEF NoticeOf, OnePlace
  <2>3. Once(posted, Arm(q))' /\ ConsThenArm(posted, q)' /\ (HasCons(posted, q) => HasCons(posted, q)')
    BY <1>1, <1>4, <2>1, <2>2, PostedNext DEF NoticeOf, OnePlace
  <2>4. OnePlace(q)'
    BY <1>1, <1>3, <1>6, <2>1, <2>2, <2>3 DEF NoticeOf, OnePlace, Once
  <2>5. ConsIs(posted, q, cqCons[q])'
    <3>1. posted \in Seq(RegWrite) /\ posted' = Append(posted, Arm(q))
      BY <1>1 DEF IInv, Typing, Post
    <3>2. ~IsWrite(Arm(q), "cqCons", q)
      BY <1>4 DEF IsWrite
    <3>3. ConsIs(Append(posted, Arm(q)), q, cqCons[q])
      BY <1>4, <2>1, <3>1, <3>2, AppendCons DEF NoticeOf, ReadTold
    <3> QED  BY <1>1, <3>1, <3>3 DEF ConsIs
  <2>6. ReadTold(q)'
    BY <1>1, <2>1, <2>3, <2>5 DEF NoticeOf, ReadTold
  <2> QED  BY <1>1, <1>3, <2>2, <2>4, <2>6 DEF NoticeOf, Noticed
<1>8. ArmsPlain'
  BY <1>1, <1>4, PlainNext DEF Notices
<1>9. Quiet
  BY <1>1, <1>3 DEF Quiet, Noticed
<1> QED  BY <1>5, <1>7, <1>8, <1>9 DEF Notices

(* The rest of the handler is about the event queue.                       *)
LEMMA HandlerNotices ==
    ASSUME IInv, Notices, HandlerStep
    PROVE  Notices' /\ Quiet
<1>0. /\ \A r \in Ring : cqCons[r] \in Nat
      /\ handler \in [pc : {"idle", "scan", "advance", "arm"}, ring : Ring \union {None}, ptr : Nat]
  BY DEF IInv, Typing, TypeOK
<1>1. CASE TakeInterrupt
  <2>1. /\ UNCHANGED <<posted, cqCons, eqCons, nicCq, nicEq, events, eqBuf>>
        /\ handler.pc = "idle" /\ handler'.pc = "scan" /\ handler'.ptr = eqCons
    BY <1>0, <1>1 DEF TakeInterrupt
  <2>2. UnreadFrom' = UnreadFrom
    BY <2>1 DEF UnreadFrom
  <2>3. \A r \in Ring : /\ Unread(r)' <=> Unread(r)
                        /\ Raised(r)' <=> Raised(r)
                        /\ InHand(r)' <=> InHand(r)
                        /\ UnreadOnce(r)' <=> UnreadOnce(r)
    BY <2>1, <2>2 DEF Unread, Raised, InHand, UnreadOnce
  <2>4. Notices'
    BY <2>1, <2>3 DEF Notices, ArmsPlain, NoticeOf, OnePlace, ReadTold, Once, Noticed, HasCons, ConsIs,
                      ConsThenArm, Arming, Arm
  <2>5. Quiet
    BY <1>0, <2>1, <2>3 DEF Quiet, Noticed
  <2> QED  BY <2>4, <2>5
<1>2. ASSUME NEW w \in RegWrite, Post(w), UNCHANGED <<cqCons, nicVars>>, UnreadFrom' = UnreadFrom,
             handler.pc # "advance", handler'.pc # "advance", w.reg \in {"eqCons", "eqArm"}
      PROVE  Notices' /\ Quiet
  <2>1. nicCq' = nicCq /\ events' = events /\ nicEq' = nicEq /\ eqBuf' = eqBuf /\ UNCHANGED nicVars
    BY <1>2 DEF nicVars
  <2>2. \A r \in Ring : /\ Unread(r)' <=> Unread(r)
                        /\ Raised(r)' <=> Raised(r)
                        /\ InHand(r)' <=> InHand(r)
                        /\ UnreadOnce(r)' <=> UnreadOnce(r)
    BY <1>2, <2>1 DEF Unread, Raised, InHand, UnreadOnce
  <2>3. ASSUME NEW r \in Ring PROVE NoticeOf(r)'
    <3>1. NoticeOf(r) /\ UnreadOnce(r)' /\ cqCons'[r] = cqCons[r]
      BY <1>2, <2>2 DEF Notices, NoticeOf, OnePlace
    <3>2. ~IsWrite(w, "cqCons", r) /\ w # Arm(r)
      BY <1>2 DEF IsWrite, Arm, Write
    <3> QED  BY <1>2, <2>1, <2>2, <3>1, <3>2, PostKeeps
  <2>4. ArmsPlain'
    BY <1>2, PlainNext DEF Notices
  <2>5. Quiet
    BY <1>0, <1>2, <2>1, <2>2 DEF Quiet, Noticed
  <2> QED  BY <2>3, <2>4, <2>5 DEF Notices
<1>3. CASE FinishEq
  <2>1. /\ Post(Write("eqCons", None, handler.ptr)) /\ UNCHANGED <<cqCons, nicVars>>
        /\ handler.pc = "scan" /\ handler'.pc = "arm" /\ eqCons' = handler.ptr /\ handler.ptr \in Nat
    BY <1>0, <1>3 DEF FinishEq
  <2>2. UnreadFrom' = UnreadFrom
    BY <2>1 DEF UnreadFrom
  <2>3. Write("eqCons", None, handler.ptr) \in RegWrite /\ Write("eqCons", None, handler.ptr).reg = "eqCons"
    BY <2>1, WritesTyped DEF Write
  <2> QED  BY <1>2, <2>1, <2>2, <2>3
<1>4. CASE ArmEq
  <2>1. /\ Post(Write("eqArm", None, 0)) /\ UNCHANGED <<cqCons, nicVars>> /\ eqCons' = eqCons
        /\ handler.pc = "arm" /\ handler'.pc = "idle"
    BY <1>0, <1>4 DEF ArmEq
  <2>2. UnreadFrom' = UnreadFrom
    BY <2>1 DEF UnreadFrom
  <2>3. Write("eqArm", None, 0) \in RegWrite /\ Write("eqArm", None, 0).reg = "eqArm"
    BY WritesTyped DEF Write
  <2> QED  BY <1>2, <2>1, <2>2, <2>3
<1> QED  BY <1>1, <1>3, <1>4, CompletesNotices, AdvancesNotices DEF HandlerStep

(* What is posted after the oldest write has arrived.                      *)
LEMMA PostedRest ==
    ASSUME IInv, NEW w \in RegWrite, posted # <<>>, w = Head(posted), posted' = Tail(posted),
           NEW r \in Ring, OnePlace(r), ReadTold(r)
    PROVE  /\ Arming(r) <=> Arming(r)' \/ w = Arm(r)
           /\ w = Arm(r) => ~Arming(r)' /\ ~HasCons(posted, r)' /\ (InHand(r) \/ ~HasCons(posted, r))
           /\ Once(posted, Arm(r))'
           /\ HasCons(posted, r) => HasCons(posted, r)' \/ IsWrite(w, "cqCons", r)
           /\ IsWrite(w, "cqCons", r) => w.val = cqCons[r]
           /\ InHand(r) \/ ConsThenArm(posted, r)'
           /\ cqCons'[r] = cqCons[r] => ConsIs(posted, r, cqCons[r])'
<1>1. posted \in Seq(RegWrite)
  BY DEF IInv, Typing
<1>2. Arm(r)' = Arm(r)
  BY DEF Arm, Write
<1>3. Arming(r) <=> Arming(r)' \/ w = Arm(r)
  BY <1>1, TailSet DEF Arming, Arm
<1>4. Once(posted, Arm(r))
  BY DEF OnePlace
<1>5. /\ Once(Tail(posted), Arm(r))
      /\ w = Arm(r) => Arm(r) \notin ToSet(Tail(posted))
  BY <1>1, <1>4, TailOnce
<1>6. Once(posted, Arm(r))' /\ (w = Arm(r) => ~Arming(r)')
  BY <1>2, <1>5 DEF Once, Arming, Arm
<1>7. HasCons(posted, r) => HasCons(Tail(posted), r) \/ IsWrite(w, "cqCons", r)
  BY <1>1, TailCons
<1>8. ConsIs(Tail(posted), r, cqCons[r]) /\ (IsWrite(w, "cqCons", r) => w.val = cqCons[r])
  BY <1>1, TailCons DEF ReadTold
<1>9. InHand(r) \/ ConsThenArm(Tail(posted), r)
  BY <1>1, TailCons DEF ReadTold
<1>10. w = Arm(r) => InHand(r) \/ ~HasCons(posted, r)
  BY <1>1, <1>4, TailCons DEF ReadTold
<1>11. w = Arm(r) => ~HasCons(Tail(posted), r)
  <2>1. ~InHand(r) \/ ~Arming(r)
    BY DEF OnePlace
  <2>2. HasCons(Tail(posted), r) => HasCons(posted, r)
    <3>1. \A i \in DOMAIN Tail(posted) : i + 1 \in DOMAIN posted /\ Tail(posted)[i] = posted[i + 1]
      BY <1>1
    <3> QED  BY <3>1 DEF HasCons
  <2> QED  BY <1>3, <1>10, <2>1, <2>2
<1>12. HasCons(posted, r)' <=> HasCons(Tail(posted), r)
  BY DEF HasCons
<1>13. ConsThenArm(Tail(posted), r) => ConsThenArm(posted, r)'
  BY <1>2 DEF ConsThenArm
<1>14. cqCons'[r] = cqCons[r] => ConsIs(posted, r, cqCons[r])'
  BY <1>8 DEF ConsIs
<1> QED  BY <1>3, <1>6, <1>7, <1>8, <1>9, <1>10, <1>11, <1>12, <1>13, <1>14

(* Queue q raises an event it had not raised.                              *)
Raises(q) ==
    /\ events' = Append(events, q) /\ nicEq'.written = nicEq.written /\ cqCons' = cqCons
    /\ ~Noticed(q)
    /\ \A r \in Ring : Noticed(r)' <=> Noticed(r) \/ r = q

(* A write arrives: a queue is told how far it was read, or armed.         *)
LEMMA ArriveNotices ==
    ASSUME IInv, Notices, DeliverWrite
    PROVE  Notices' /\ (Quiet \/ \E q \in Ring : Raises(q))
<1>1. /\ nicCq \in [Ring -> NicQueueType] /\ nicEq \in NicQueueType
      /\ posted \in Seq(RegWrite) /\ posted # <<>> /\ posted' = Tail(posted)
      /\ events \in Seq(Ring) /\ cqCons \in [Ring -> Nat]
      /\ UNCHANGED <<cqCons, eqCons, handler, eqBuf>>
  BY TypeGroups DEF IInv, Typing, NicTypes, HandlerTypes, DeliverWrite, driverVars
<1>2. PICK w \in RegWrite : w = Head(posted)
  BY <1>1, TailSet
<1>3. DeliverTx(w) \/ DeliverCq(w) \/ DeliverEq(w)
  BY <1>2 DEF DeliverWrite
<1>4. nicEq'.written = nicEq.written
  BY <1>1, <1>3 DEF DeliverTx, DeliverCq, DeliverEq, NicQueueType
<1>5. UnreadFrom' = UnreadFrom
  BY <1>1 DEF UnreadFrom
<1>6. \A r \in Ring : /\ Unread(r)' <=> Unread(r)
                      /\ InHand(r)' <=> InHand(r)
                      /\ UnreadOnce(r)' <=> UnreadOnce(r)
                      /\ OnePlace(r) /\ ReadTold(r) /\ NoticeOf(r)
  BY <1>1, <1>4, <1>5 DEF Unread, InHand, UnreadOnce, Notices, NoticeOf
<1>7. \A r \in Ring : Arm(r).reg = "cqArm" /\ Arm(r).ring = r
  BY DEF Arm, Write
<1>8. ArmsPlain' /\ (w.reg = "cqArm" => w = Arm(w.ring) /\ w.ring \in Ring)
  <2>1. PICK n \in Nat : n = Len(posted) /\ DOMAIN posted = 1 .. n /\ 1 \in DOMAIN posted
    BY <1>1
  <2>2. DOMAIN posted' = 1 .. n - 1 /\ \A j \in 1 .. n - 1 : posted'[j] = posted[j + 1] /\ j + 1 \in 1 .. n
    BY <1>1, <2>1
  <2>3. ArmsPlain'
    BY <2>1, <2>2 DEF Notices, ArmsPlain
  <2>4. w.reg = "cqArm" => w.val = 0
    <3>1. w = posted[1]
      BY <1>1, <1>2
    <3> QED  BY <2>1, <3>1 DEF Notices, ArmsPlain
  <2>5. w.reg = "cqArm" => w = Arm(w.ring) /\ w.ring \in Ring
    <3>1. w.reg = "cqArm" => w.ring \in Ring
      BY DEF RegWrite
    <3>2. w = [reg |-> w.reg, ring |-> w.ring, val |-> w.val]
      BY DEF RegWrite
    <3> QED  BY <2>4, <3>1, <3>2 DEF Arm, Write
  <2> QED  BY <2>3, <2>5
<1>9. ASSUME NEW r \in Ring, events' = events, nicCq'[r] = nicCq[r], w # Arm(r), ~IsWrite(w, "cqCons", r)
      PROVE  NoticeOf(r)'
  <2>1. OnePlace(r) /\ ReadTold(r) /\ NoticeOf(r)
    BY <1>6
  <2>2. /\ Once(posted, Arm(r))' /\ (Arming(r)' <=> Arming(r))
        /\ (HasCons(posted, r) => HasCons(posted, r)') /\ (InHand(r) \/ ConsThenArm(posted, r)')
        /\ ConsIs(posted, r, cqCons[r])'
    BY <1>1, <1>2, <1>9, <2>1, PostedRest
  <2>3. OnePlace(r)'
    BY <1>6, <1>9, <2>1, <2>2 DEF OnePlace, Once, Raised
  <2>4. ReadTold(r)'
    BY <1>1, <1>6, <1>9, <2>1, <2>2 DEF ReadTold
  <2> QED  BY <1>1, <1>6, <1>9, <2>1, <2>3, <2>4 DEF NoticeOf, Noticed, Raised
<1>10. ASSUME events' = events PROVE Quiet
  <2>1. \A r \in Ring : cqCons[r] <= cqCons'[r] /\ (Noticed(r)' <=> Noticed(r))
    BY <1>1, <1>6, <1>10 DEF Noticed, Raised
  <2> QED  BY <1>4, <1>10, <2>1 DEF Quiet
<1>11. CASE DeliverTx(w) \/ DeliverEq(w)
  <2>1. nicCq' = nicCq /\ events' = events /\ w.reg \notin {"cqCons", "cqArm"}
    BY <1>11 DEF DeliverTx, DeliverEq
  <2>2. \A r \in Ring : w # Arm(r) /\ ~IsWrite(w, "cqCons", r)
    BY <1>7, <2>1 DEF IsWrite
  <2> QED  BY <1>8, <1>9, <1>10, <2>1, <2>2 DEF Notices
<1>12. CASE DeliverCq(w) /\ w.reg = "cqCons"
  <2>1. PICK q \in Ring : q = w.ring
    BY <1>12 DEF RegWrite
  <2>2. nicCq' = [nicCq EXCEPT ![q].cons = w.val] /\ events' = events
    BY <1>12, <2>1 DEF DeliverCq
  <2>3. IsWrite(w, "cqCons", q) /\ w.val <= nicCq[q].prod /\ \A r \in Ring : w # Arm(r)
    BY <1>2, <1>7, <1>12, <2>1 DEF IsWrite, DeliverWrite, CommitsFirst
  <2>4. /\ nicCq'[q].cons = w.val /\ nicCq'[q].prod = nicCq[q].prod
        /\ nicCq'[q].written = nicCq[q].written /\ nicCq'[q].armed = nicCq[q].armed
    BY <1>1, <2>2 DEF NicQueueType
  <2>5. NoticeOf(q)'
    <3>1. OnePlace(q) /\ ReadTold(q) /\ NoticeOf(q)
      BY <1>6
    <3>2. /\ Once(posted, Arm(q))' /\ (Arming(q)' <=> Arming(q))
          /\ w.val = cqCons[q] /\ (InHand(q) \/ ConsThenArm(posted, q)')
          /\ ConsIs(posted, q, cqCons[q])'
      BY <1>1, <1>2, <2>3, <3>1, PostedRest
    <3>3. OnePlace(q)'
      BY <1>6, <2>2, <2>4, <3>1, <3>2 DEF OnePlace, Once, Raised
    <3>4. ReadTold(q)'
      BY <1>1, <1>6, <2>3, <2>4, <3>1, <3>2 DEF ReadTold
    <3> QED  BY <1>1, <1>6, <2>2, <2>4, <3>1, <3>3, <3>4 DEF NoticeOf, Noticed, Raised
  <2>6. ASSUME NEW r \in Ring, r # q PROVE NoticeOf(r)'
    <3>1. nicCq'[r] = nicCq[r] /\ ~IsWrite(w, "cqCons", r)
      BY <1>1, <2>1, <2>2, <2>6 DEF IsWrite
    <3> QED  BY <1>9, <2>2, <2>3, <3>1
  <2> QED  BY <1>8, <1>10, <2>2, <2>5, <2>6 DEF Notices
<1>13. CASE DeliverCq(w) /\ w.reg = "cqArm"
  <2>1. PICK q \in Ring : q = w.ring /\ w = Arm(q)
    BY <1>8, <1>13
  <2>2. /\ nicCq' = [nicCq EXCEPT ![q].armed = ~ArmRaises(nicCq[q])]
        /\ events' = IF ArmRaises(nicCq[q]) THEN Append(events, q) ELSE events
    BY <1>13, <2>1 DEF DeliverCq
  <2>3. /\ nicCq'[q].cons = nicCq[q].cons /\ nicCq'[q].prod = nicCq[q].prod
        /\ nicCq'[q].written = nicCq[q].written /\ (nicCq'[q].armed <=> ~ArmRaises(nicCq[q]))
        /\ \A r \in Ring : r # q => nicCq'[r] = nicCq[r]
    BY <1>1, <2>2 DEF NicQueueType
  <2>4. OnePlace(q) /\ ReadTold(q) /\ NoticeOf(q)
    BY <1>6
  <2>5. /\ Once(posted, Arm(q))' /\ Arming(q) /\ ~Arming(q)' /\ ~HasCons(posted, q)'
        /\ (InHand(q) \/ ~HasCons(posted, q)) /\ ConsIs(posted, q, cqCons[q])'
        /\ (InHand(q) \/ ConsThenArm(posted, q)')
    BY <1>1, <1>2, <2>1, <2>4, PostedRest
  <2>6. ~nicCq[q].armed /\ ~Raised(q) /\ ~Unread(q) /\ ~InHand(q)
    BY <2>4, <2>5 DEF OnePlace
  <2>7. nicCq[q].cons = cqCons[q] /\ nicCq[q].cons <= nicCq[q].prod
    BY <2>4, <2>5, <2>6 DEF ReadTold
  <2>8. ReadTold(q)'
    BY <1>1, <1>6, <2>3, <2>4, <2>5, <2>6, <2>7 DEF ReadTold
  <2>9. ArmRaises(nicCq[q]) <=> nicCq[q].prod # nicCq[q].cons
    BY DEF ArmRaises
  <2>10. \A r \in Ring : r # q => w # Arm(r) /\ ~IsWrite(w, "cqCons", r)
    BY <1>7, <1>13, <2>1 DEF IsWrite
  <2>11. CASE ~ArmRaises(nicCq[q])
    <3>1. events' = events /\ nicCq'[q].armed
      BY <2>2, <2>3, <2>11
    <3>2. OnePlace(q)'
      BY <1>6, <2>4, <2>5, <2>6, <3>1 DEF OnePlace, Once, Raised
    <3>3. NoticeOf(q)'
      BY <1>1, <1>6, <2>3, <2>6, <2>7, <2>8, <2>9, <2>11, <3>1, <3>2 DEF NoticeOf, Noticed, Raised
    <3>4. \A r \in Ring : r # q => NoticeOf(r)'
      BY <1>9, <2>3, <2>10, <3>1
    <3> QED  BY <1>8, <1>10, <3>1, <3>3, <3>4 DEF Notices
  <2>12. CASE ArmRaises(nicCq[q])
    <3>1. events' = Append(events, q) /\ ~nicCq'[q].armed
      BY <2>2, <2>3, <2>12
    <3>2. /\ ToSet(events') = ToSet(events) \union {q}
          /\ \A r \in Ring : Once(events, r) /\ (q = r => r \notin ToSet(events)) => Once(Append(events, q), r)
      BY <1>1, <3>1, AppendSet, AppendOnce
    <3>3. \A r \in Ring : (Raised(r)' <=> Raised(r) \/ r = q) /\ Once(events, r)'
      BY <1>6, <2>6, <3>1, <3>2 DEF Raised, Once, OnePlace
    <3>4. OnePlace(q)'
      BY <1>6, <2>4, <2>5, <2>6, <3>1, <3>3 DEF OnePlace
    <3>5. cqCons[q] < nicCq[q].prod
      <4>1. nicCq[q].prod \in Nat /\ nicCq[q].cons \in Nat
        BY <1>1 DEF NicQueueType
      <4> QED  BY <2>7, <2>9, <2>12, <4>1
    <3>6. NoticeOf(q)'
      BY <1>1, <2>3, <2>8, <3>1, <3>4, <3>5 DEF NoticeOf
    <3>7. ASSUME NEW r \in Ring, r # q PROVE NoticeOf(r)'
      <4>1. OnePlace(r) /\ ReadTold(r) /\ NoticeOf(r)
        BY <1>6
      <4>2. /\ Once(posted, Arm(r))' /\ (Arming(r)' <=> Arming(r))
            /\ (HasCons(posted, r) => HasCons(posted, r)') /\ (InHand(r) \/ ConsThenArm(posted, r)')
            /\ ConsIs(posted, r, cqCons[r])'
        BY <1>1, <1>2, <2>10, <3>7, <4>1, PostedRest
      <4>3. nicCq'[r] = nicCq[r] /\ (Raised(r)' <=> Raised(r))
        BY <2>3, <3>3, <3>7
      <4>4. OnePlace(r)'
        BY <1>6, <3>3, <4>1, <4>2, <4>3 DEF OnePlace
      <4>5. ReadTold(r)'
        BY <1>1, <1>6, <4>1, <4>2, <4>3 DEF ReadTold
      <4> QED  BY <1>1, <1>6, <4>1, <4>3, <4>4, <4>5 DEF NoticeOf, Noticed
    <3>8. Raises(q)
      BY <1>1, <1>4, <1>6, <2>6, <3>1, <3>3 DEF Raises, Noticed
    <3> QED  BY <1>8, <3>6, <3>7, <3>8 DEF Notices
  <2> QED  BY <2>11, <2>12
<1> QED  BY <1>3, <1>11, <1>12, <1>13 DEF DeliverCq

(* An event is dropped, and then nobody has it, or written to memory.      *)
Drops(q) ==
    /\ events # <<>> /\ events' = Tail(events)
    /\ nicEq'.written = nicEq.written /\ cqCons' = cqCons
    /\ Noticed(q)
    /\ \A r \in Ring : Noticed(r)' <=> Noticed(r) /\ r # q
Stores ==
    /\ events # <<>> /\ events' = Tail(events)
    /\ nicEq'.written = nicEq.written + 1 /\ cqCons' = cqCons
    /\ \A r \in Ring : Noticed(r)' <=> Noticed(r)

(* The event leaves the fifo, and its notice is in memory or nowhere.      *)
LEMMA WriteNotices ==
    ASSUME IInv, Notices, WriteEvent
    PROVE  Notices' /\ (Stores \/ \E q \in Ring : Drops(q))
<1>1. /\ nicEq \in NicQueueType /\ eqCons \in Nat /\ handler.ptr \in Nat
      /\ eqBuf \in [0 .. EqSize - 1 -> [source : Ring \union {None}, phase : BOOLEAN]]
      /\ events \in Seq(Ring) /\ events # <<>> /\ events' = Tail(events)
      /\ UNCHANGED <<cqCons, eqCons, handler, posted, nicCq, irqQueue>>
  BY TypeGroups DEF IInv, Typing, NicTypes, HandlerTypes, BufferTypes, WriteEvent, driverVars
<1>2. PICK e \in Ring : e = Head(events) /\ ToSet(events) = ToSet(events') \union {e}
  BY <1>1, TailSet
<1>3. UnreadFrom' = UnreadFrom
  BY <1>1 DEF UnreadFrom
<1>4. \A r \in Ring : /\ OnePlace(r) /\ ReadTold(r) /\ NoticeOf(r)
                      /\ Once(events, r)
                      /\ (InHand(r)' <=> InHand(r)) /\ (Arming(r)' <=> Arming(r))
                      /\ ReadTold(r)'
  BY <1>1 DEF Notices, NoticeOf, OnePlace, ReadTold, InHand, Arming, HasCons, ConsIs, ConsThenArm, Arm
<1>5. \A r \in Ring : Once(Tail(events), r) /\ (Head(events) = r => r \notin ToSet(Tail(events)))
  BY <1>1, <1>4, TailOnce
<1>6. \A r \in Ring : Once(events, r)' /\ (Raised(r)' <=> Raised(r) /\ r # e)
  BY <1>1, <1>2, <1>5 DEF Once, Raised
<1>7. Raised(e) /\ ~Unread(e) /\ ~InHand(e) /\ ~Arming(e) /\ ~nicCq[e].armed /\ cqCons[e] < nicCq[e].prod
  BY <1>2, <1>4 DEF Raised, OnePlace, NoticeOf, Noticed
<1>8. ArmsPlain'
  BY <1>1 DEF Notices, ArmsPlain
<1>9. ASSUME \A r \in Ring : UnreadOnce(r)', \A r \in Ring : Unread(r)' => Unread(r) \/ r = e
      PROVE  Notices'
  <2>1. ASSUME NEW r \in Ring PROVE NoticeOf(r)'
    <3>1. Once(posted, Arm(r))'
      BY <1>1, <1>4 DEF OnePlace, Once, Arm
    <3>2. CASE r = e
      <4>1. OnePlace(r)'
        BY <1>1, <1>4, <1>6, <1>7, <1>9, <3>1, <3>2 DEF OnePlace
      <4> QED  BY <1>1, <1>4, <1>7, <3>2, <4>1 DEF NoticeOf
    <3>3. CASE r # e
      <4>1. OnePlace(r)'
        BY <1>1, <1>4, <1>6, <1>9, <3>1, <3>3 DEF OnePlace
      <4> QED  BY <1>1, <1>4, <1>6, <1>9, <3>3, <4>1 DEF NoticeOf, Noticed
    <3> QED  BY <3>2, <3>3
  <2> QED  BY <1>8, <2>1 DEF Notices
<1>10. CASE QueueFull(nicEq, EqSize)
  <2>1. nicEq' = nicEq /\ eqBuf' = eqBuf
    BY <1>10 DEF WriteEvent
  <2>2. \A r \in Ring : (Unread(r)' <=> Unread(r)) /\ UnreadOnce(r)'
    BY <1>3, <1>4, <2>1 DEF Unread, UnreadOnce, OnePlace
  <2>3. Drops(e)
    BY <1>1, <1>6, <1>7, <2>1, <2>2 DEF Drops, Noticed
  <2> QED  BY <1>9, <2>2, <2>3
<1>11. CASE ~QueueFull(nicEq, EqSize)
  <2>1. PICK n \in Nat : n = nicEq.written
    BY <1>1 DEF NicQueueType
  <2>2. /\ eqBuf' = [eqBuf EXCEPT ![EqSlot(n)] = [source |-> e, phase |-> PhaseOf(n, EqSize)]]
        /\ nicEq' = [nicEq EXCEPT !.written = n + 1]
        /\ n < nicEq.cons + EqSize
    <3>1. nicEq.cons \in Nat
      BY <1>1 DEF NicQueueType
    <3> QED  BY <1>2, <1>11, <2>1, <3>1, Sizes DEF WriteEvent, QueueFull
  <2>3. nicEq'.written = n + 1
    BY <1>1, <2>2 DEF NicQueueType
  <2>4. PICK a \in Nat : a = UnreadFrom /\ a <= n /\ n < a + EqSize
    <3>1. eqCons <= UnreadFrom /\ UnreadFrom <= n /\ UnreadFrom \in Nat
      BY <1>1, <2>1 DEF UnreadFrom, IInv, EventsExact, Marked
    <3>2. nicEq.cons <= eqCons /\ nicEq.cons \in Nat
      BY <1>1 DEF IInv, EventsExact, NicQueueType
    <3> QED  BY <1>1, <2>2, <3>1, <3>2, Sizes
  <2>5. \A p : p \in a .. (n + 1) - 1 <=> p \in a .. n - 1 \/ p = n
    BY <2>4
  <2>6. eqBuf'[EqSlot(n)].source = e
    <3>1. EqSlot(n) \in DOMAIN eqBuf
      BY <1>1, Sizes, DivMod DEF EqSlot
    <3> QED  BY <2>2, <3>1
  <2>7. ASSUME NEW p \in a .. n - 1 PROVE eqBuf'[EqSlot(p)] = eqBuf[EqSlot(p)]
    <3>1. p \in Nat /\ p < n /\ n < p + EqSize
      BY <2>4, <2>7, Sizes
    <3>2. EqSlot(p) # EqSlot(n)
      BY <3>1, Sizes, ModUnique DEF EqSlot
    <3> QED  BY <2>2, <3>2
  <2>8. UnreadFrom' = a /\ nicEq'.written - 1 = (n + 1) - 1
    BY <1>3, <2>3, <2>4
  <2>9. \A r \in Ring : Unread(r)' <=> Unread(r) \/ r = e
    <3>1. \A r \in Ring : Unread(r) <=> \E p \in a .. n - 1 : eqBuf[EqSlot(p)].source = r
      BY <2>1, <2>4 DEF Unread
    <3>2. \A r \in Ring : Unread(r)' <=> \E p \in a .. (n + 1) - 1 : eqBuf'[EqSlot(p)].source = r
      BY <2>8 DEF Unread
    <3> QED  BY <2>5, <2>6, <2>7, <3>1, <3>2
  <2>10. ASSUME NEW r \in Ring PROVE UnreadOnce(r)'
    <3>1. \A p, q \in a .. n - 1 :
              eqBuf[EqSlot(p)].source = r /\ eqBuf[EqSlot(q)].source = r => p = q
      BY <1>4, <2>1, <2>4 DEF OnePlace, UnreadOnce
    <3>2. \A p \in a .. n - 1 : eqBuf[EqSlot(p)].source # e
      BY <1>7, <2>1, <2>4 DEF Unread
    <3>3. \A p, q \in a .. (n + 1) - 1 :
              eqBuf'[EqSlot(p)].source = r /\ eqBuf'[EqSlot(q)].source = r => p = q
      BY <2>5, <2>6, <2>7, <3>1, <3>2
    <3> QED  BY <2>8, <3>3 DEF UnreadOnce
  <2>11. Stores
    BY <1>1, <1>6, <1>7, <2>1, <2>3, <2>9 DEF Stores, Noticed
  <2> QED  BY <1>9, <2>9, <2>10, <2>11
<1> QED  BY <1>10, <1>11

(* A commit raises if the queue is armed.                                  *)
LEMMA CommitNotices ==
    ASSUME IInv, Notices, NEW q \in Ring, CommitCompletion(q)
    PROVE  Notices' /\ (Quiet \/ \E r \in Ring : Raises(r))
<1>1. /\ nicCq \in [Ring -> NicQueueType] /\ events \in Seq(Ring) /\ cqCons \in [Ring -> Nat]
      /\ UNCHANGED <<cqCons, eqCons, handler, posted, nicEq, eqBuf, irqQueue>>
      /\ nicCq' = [nicCq EXCEPT ![q].prod = @ + 1, ![q].armed = FALSE]
      /\ events' = IF nicCq[q].armed THEN Append(events, q) ELSE events
      /\ nicCq[q].prod < nicCq[q].written
  BY TypeGroups DEF IInv, Typing, NicTypes, HandlerTypes, CommitCompletion, driverVars
<1>2. /\ nicCq'[q].cons = nicCq[q].cons /\ nicCq'[q].prod = nicCq[q].prod + 1
      /\ nicCq'[q].written = nicCq[q].written /\ ~nicCq'[q].armed
      /\ \A r \in Ring : r # q => nicCq'[r] = nicCq[r]
      /\ nicCq[q].prod \in Nat /\ nicCq[q].written \in Nat /\ nicCq[q].cons \in Nat
  BY <1>1 DEF NicQueueType
<1>3. UnreadFrom' = UnreadFrom
  BY <1>1 DEF UnreadFrom
<1>4. \A r \in Ring : /\ OnePlace(r) /\ ReadTold(r) /\ NoticeOf(r)
                      /\ (InHand(r)' <=> InHand(r)) /\ (Arming(r)' <=> Arming(r))
                      /\ (Unread(r)' <=> Unread(r)) /\ UnreadOnce(r)' /\ Once(posted, Arm(r))'
  BY <1>1, <1>3 DEF Notices, NoticeOf, OnePlace, InHand, Arming, Unread, UnreadOnce, Once, Arm
<1>5. ASSUME NEW r \in Ring PROVE ReadTold(r)'
  <2>1. nicCq'[r].cons = nicCq[r].cons /\ nicCq'[r].cons <= nicCq'[r].prod /\ nicCq'[r].prod <= nicCq'[r].written
    <3>1. nicCq[r].cons <= nicCq[r].prod /\ nicCq[r].prod <= nicCq[r].written
      BY <1>4 DEF ReadTold
    <3>2. CASE r = q
      <4>1. nicCq[q].prod + 1 <= nicCq[q].written /\ nicCq[q].cons <= nicCq[q].prod + 1
        BY <1>1, <1>2, <3>1, <3>2
      <4> QED  BY <1>2, <3>2, <4>1
    <3>3. CASE r # q
      BY <1>2, <3>1, <3>3
    <3> QED  BY <3>2, <3>3
  <2> QED  BY <1>1, <1>4, <2>1 DEF ReadTold, HasCons, ConsIs, ConsThenArm, Arm
<1>6. ArmsPlain'
  BY <1>1 DEF Notices, ArmsPlain
<1>7. CASE ~nicCq[q].armed
  <2>1. events' = events
    BY <1>1, <1>7
  <2>2. \A r \in Ring : (Raised(r)' <=> Raised(r)) /\ Once(events, r)'
    BY <1>4, <2>1 DEF Raised, Once, OnePlace
  <2>3. ASSUME NEW r \in Ring PROVE NoticeOf(r)'
    <3>1. nicCq'[r].armed => nicCq[r].armed /\ nicCq'[r].prod = nicCq[r].prod
      BY <1>2
    <3>2. OnePlace(r)'
      BY <1>4, <2>2, <3>1 DEF OnePlace
    <3>3. cqCons[r] \in Nat /\ cqCons[r] < nicCq[r].prod => cqCons[r] < nicCq'[r].prod
      BY <1>1, <1>2
    <3>4. Noticed(r)' <=> Noticed(r)
      BY <1>4, <2>2 DEF Noticed
    <3>5. nicCq'[r].armed => nicCq'[r].prod = cqCons'[r]
      BY <1>1, <1>4, <3>1 DEF NoticeOf
    <3>6. Noticed(r)' => cqCons'[r] < nicCq'[r].prod
      BY <1>1, <1>4, <3>3, <3>4 DEF NoticeOf
    <3> QED  BY <1>5, <3>2, <3>5, <3>6 DEF NoticeOf
  <2>4. Quiet
    BY <1>1, <1>4, <2>1, <2>2 DEF Quiet, Noticed
  <2> QED  BY <1>6, <2>3, <2>4 DEF Notices
<1>8. CASE nicCq[q].armed
  <2>1. events' = Append(events, q)
    BY <1>1, <1>8
  <2>2. ~Raised(q) /\ ~Unread(q) /\ ~InHand(q) /\ ~Arming(q) /\ nicCq[q].prod = cqCons[q]
    BY <1>4, <1>8 DEF OnePlace, NoticeOf
  <2>3. /\ ToSet(events') = ToSet(events) \union {q}
        /\ \A r \in Ring : Once(events, r) /\ (q = r => r \notin ToSet(events)) => Once(Append(events, q), r)
    BY <1>1, <2>1, AppendSet, AppendOnce
  <2>4. \A r \in Ring : (Raised(r)' <=> Raised(r) \/ r = q) /\ Once(events, r)'
    BY <1>4, <2>1, <2>2, <2>3 DEF Raised, Once, OnePlace
  <2>5. NoticeOf(q)'
    <3>1. OnePlace(q)'
      BY <1>2, <1>4, <2>2, <2>4 DEF OnePlace
    <3>2. cqCons[q] < nicCq'[q].prod
      BY <1>2, <2>2
    <3> QED  BY <1>1, <1>2, <1>5, <3>1, <3>2 DEF NoticeOf
  <2>6. ASSUME NEW r \in Ring, r # q PROVE NoticeOf(r)'
    <3>1. nicCq'[r] = nicCq[r] /\ (Raised(r)' <=> Raised(r))
      BY <1>2, <2>4, <2>6
    <3>2. OnePlace(r)'
      BY <1>4, <2>4, <3>1 DEF OnePlace
    <3> QED  BY <1>1, <1>4, <1>5, <3>1, <3>2 DEF NoticeOf, Noticed
  <2>7. Raises(q)
    BY <1>1, <1>4, <2>1, <2>2, <2>4 DEF Raises, Noticed
  <2> QED  BY <1>6, <2>5, <2>6, <2>7 DEF Notices
<1> QED  BY <1>7, <1>8

(* The other steps of the hardware.                                        *)
LEMMA NicNotices ==
    ASSUME IInv, Notices, NicStep
    PROVE  Notices' /\ (Quiet \/ Stores \/ \E q \in Ring : Raises(q) \/ Drops(q))
<1>1. ASSUME NEW q \in Ring, ServeBell(q) PROVE Notices' /\ Quiet
  <2>1. nicCq \in [Ring -> NicQueueType] /\ cqCons \in [Ring -> Nat]
    BY TypeGroups DEF IInv, Typing, NicTypes, HandlerTypes
  <2>2. UNCHANGED <<cqCons, eqCons, handler, posted, nicEq, eqBuf, irqQueue, events>>
    BY <1>1 DEF ServeBell, driverVars
  <2>3. nicCq' = nicCq \/ nicCq' = [nicCq EXCEPT ![q].written = @ + 1]
    BY <1>1 DEF ServeBell
  <2>4. \A r \in Ring : /\ (Raised(r)' <=> Raised(r)) /\ (Unread(r)' <=> Unread(r)) /\ (InHand(r)' <=> InHand(r))
                        /\ (Arming(r)' <=> Arming(r)) /\ (UnreadOnce(r)' <=> UnreadOnce(r))
                        /\ (Once(events, r)' <=> Once(events, r))
                        /\ (Once(posted, Arm(r))' <=> Once(posted, Arm(r)))
    BY <2>2 DEF Raised, Unread, UnreadFrom, InHand, Arming, UnreadOnce, Once, Arm
  <2>5. ASSUME NEW r \in Ring PROVE NoticeOf(r)'
    <3>1. /\ nicCq'[r].armed = nicCq[r].armed /\ nicCq'[r].prod = nicCq[r].prod /\ nicCq'[r].cons = nicCq[r].cons
          /\ nicCq[r].written <= nicCq'[r].written /\ nicCq'[r].written \in Nat
          /\ nicCq[r].prod \in Nat /\ nicCq[r].written \in Nat
      BY <2>1, <2>3 DEF NicQueueType
    <3>2. OnePlace(r) /\ ReadTold(r) /\ NoticeOf(r)
      BY DEF Notices, NoticeOf
    <3>3. OnePlace(r)'
      BY <2>4, <3>1, <3>2 DEF OnePlace
    <3>4. nicCq'[r].prod <= nicCq'[r].written
      BY <3>1, <3>2 DEF ReadTold
    <3>5. ReadTold(r)'
      BY <2>2, <3>1, <3>2, <3>4 DEF ReadTold, HasCons, ConsIs, ConsThenArm, Arm, InHand
    <3> QED  BY <2>2, <2>4, <3>1, <3>2, <3>3, <3>5 DEF NoticeOf, Noticed
  <2>6. ArmsPlain'
    BY <2>2 DEF Notices, ArmsPlain
  <2>7. Quiet
    BY <2>1, <2>2, <2>4 DEF Quiet, Noticed
  <2> QED  BY <2>5, <2>6, <2>7 DEF Notices
<1>2. CASE CommitEvent
  <2>1. /\ nicEq \in NicQueueType /\ cqCons \in [Ring -> Nat]
        /\ UNCHANGED <<cqCons, eqCons, handler, posted, nicCq, eqBuf, events>>
        /\ nicEq' = [nicEq EXCEPT !.prod = @ + 1, !.armed = FALSE]
    BY <1>2, TypeGroups DEF IInv, Typing, NicTypes, HandlerTypes, CommitEvent, driverVars
  <2>2. nicEq'.written = nicEq.written
    BY <2>1 DEF NicQueueType
  <2>3. \A r \in Ring : /\ (Raised(r)' <=> Raised(r)) /\ (Unread(r)' <=> Unread(r)) /\ (InHand(r)' <=> InHand(r))
                        /\ (Arming(r)' <=> Arming(r)) /\ (UnreadOnce(r)' <=> UnreadOnce(r))
    BY <2>1, <2>2 DEF Raised, Unread, UnreadFrom, InHand, Arming, UnreadOnce
  <2>4. Notices'
    BY <2>1, <2>3 DEF Notices, ArmsPlain, NoticeOf, OnePlace, ReadTold, Once, Noticed, HasCons, ConsIs,
                      ConsThenArm, Arm
  <2>5. Quiet
    BY <2>1, <2>2, <2>3 DEF Quiet, Noticed
  <2> QED  BY <2>4, <2>5
<1> QED  BY <1>1, <1>2, ArriveNotices, WriteNotices, CommitNotices DEF NicStep

(* Every step leaves notices in order and does one of four things to them. *)
LEMMA NoticesKept ==
    ASSUME IInv, Notices, [Next]_vars
    PROVE  Notices' /\ (Quiet \/ Stores \/ \E q \in Ring : Raises(q) \/ Drops(q))
<1>1. CASE UNCHANGED vars
  <2>1. UNCHANGED <<posted, cqCons, eqCons, handler, nicCq, nicEq, eqBuf, events>>
    BY <1>1 DEF vars, driverVars, nicVars
  <2>2. \A r \in Ring : cqCons[r] \in Nat
    BY DEF IInv, Typing, TypeOK
  <2>3. Notices'
    BY <2>1 DEF Notices, ArmsPlain, NoticeOf, OnePlace, ReadTold, Once, UnreadOnce, Noticed, HasCons, ConsIs,
                ConsThenArm, Raised, Unread, UnreadFrom, InHand, Arming, Arm
  <2>4. Quiet
    BY <2>1, <2>2 DEF Quiet, Noticed, Raised, Unread, UnreadFrom
  <2> QED  BY <2>3, <2>4
<1> QED  BY <1>1, Steps, SendersNotices, HandlerNotices, NicNotices

(* Packets that events were raised for are packets of a ring.              *)
LEMMA ClaimedSent == IInv /\ Notices => Claimed \subseteq Submitted
<1> SUFFICES ASSUME IInv, Notices, NEW c \in Claimed PROVE c \in Submitted
  OBVIOUS
<1>1. PICK r \in Ring, p \in Nat : c = <<r, p>> /\ (p < cqCons[r] \/ (p = cqCons[r] /\ Noticed(r)))
  BY DEF Claimed
<1>2. /\ cqCons[r] \in Nat /\ nicCq[r].prod \in Nat /\ nicCq[r].written \in Nat
      /\ nicTx[r].sent \in Nat /\ txProd[r] \in Nat
  BY RingTypes DEF IInv
<1>3. cqCons[r] <= nicCq[r].written /\ nicCq[r].written <= txProd[r]
  BY <1>2 DEF IInv, PointersInOrder, PointersOf
<1>4. Noticed(r) => cqCons[r] < nicCq[r].prod /\ nicCq[r].prod <= nicCq[r].written
  BY DEF Notices, NoticeOf, ReadTold
<1>5. p < txProd[r]
  BY <1>1, <1>2, <1>3, <1>4
<1> QED  BY <1>1, <1>5 DEF Submitted

(* The same after a step.                                                  *)
LEMMA ClaimedSentNext == IInv' /\ Notices' => (Claimed \subseteq Submitted)'
BY ClaimedSent, PTL

(* Calls of start_xmit are counted: each packet in a ring, and each sender *)
(* that waits, is one.                                                     *)
LEMMA SendsKept == IInv /\ SendsCounted /\ [Next]_vars => SendsCounted'
<1> SUFFICES ASSUME IInv, SendsCounted, [Next]_vars PROVE SendsCounted'
  OBVIOUS
<1>1. /\ txProd \in [Ring -> Nat] /\ calls \in Nat
      /\ xmit \in [Sender -> [pc : {"idle", "publish", "wait", "woken"}, ring : Ring \union {None}]]
      /\ IsFiniteSet(Pending) /\ IsFiniteSet(Submitted)
      /\ Cardinality(Submitted) + Cardinality(Pending) <= calls
  <2>1. TypeOK
    BY DEF IInv, Typing
  <2>2. /\ txProd \in [Ring -> Nat]
        /\ xmit \in [Sender -> [pc : {"idle", "publish", "wait", "woken"},
                               ring : Ring \union {None}]]
    BY <2>1 DEF TypeOK
  <2>3. calls \in Nat
    BY <2>1, BoundAssumption DEF TypeOK
  <2>4. /\ IsFiniteSet(Pending) /\ IsFiniteSet(Submitted)
        /\ Cardinality(Submitted) + Cardinality(Pending) <= calls
    BY DEF SendsCounted
  <2> QED  BY <2>2, <2>3, <2>4
<1>2. PICK a \in Nat : a = Cardinality(Pending)
  BY <1>1, FS_CardinalityType
<1>3. PICK m \in Nat : m = Cardinality(Submitted)
  BY <1>1, FS_CardinalityType
<1>4. calls \in Nat /\ m + a <= calls
  BY <1>1, <1>2, <1>3
<1>5. ASSUME NEW r \in Ring, txProd' = [txProd EXCEPT ![r] = @ + 1]
      PROVE  IsFiniteSet(Submitted') /\ Cardinality(Submitted') = m + 1
  <2>1. txProd[r] \in Nat /\ txProd'[r] = txProd[r] + 1 /\ \A q \in Ring : q # r => txProd'[q] = txProd[q]
    BY <1>1, <1>5
  <2>2. ASSUME NEW q \in Ring, NEW p \in Nat
        PROVE  p < txProd'[q] <=> p < txProd[q] \/ (q = r /\ p = txProd[r])
    BY <2>1
  <2>3. Submitted' = Submitted \union {<<r, txProd[r]>>}
    <3>1. ASSUME NEW c PROVE c \in Submitted' <=> c \in Submitted \union {<<r, txProd[r]>>}
      <4>1. CASE c \in Ring \X Nat
        <5>1. PICK q \in Ring, p \in Nat : c = <<q, p>>
          BY <4>1
        <5> QED  BY <2>2, <5>1 DEF Submitted
      <4>2. CASE c \notin Ring \X Nat
        BY <2>1, <4>2 DEF Submitted
      <4> QED  BY <4>1, <4>2
    <3> QED  BY <3>1
  <2>4. <<r, txProd[r]>> \notin Submitted
    BY <2>1 DEF Submitted
  <2> QED  BY <1>1, <1>3, <2>3, <2>4, FS_AddElement
<1>6. ASSUME NEW r \in Ring, HasSpace(r), NEW s \in Sender, TxTransmit(s, r)
      PROVE  IsFiniteSet(Submitted') /\ Cardinality(Submitted') = m + 1
  BY <1>5, <1>6 DEF TxTransmit
<1>7. ASSUME txProd' = txProd PROVE Submitted' = Submitted
  BY <1>7 DEF Submitted
<1>8. ASSUME NEW s \in Sender, NEW r \in Ring, StartXmit(s, r)
      PROVE  SendsCounted'
  <2>1. xmit[s].pc = "idle" /\ calls' = calls + 1 /\ s \notin Pending
    BY <1>8 DEF StartXmit, Pending
  <2>2. CASE HasSpace(r)
    <3>1. TxTransmit(s, r) /\ xmit' = [xmit EXCEPT ![s] = [pc |-> "publish", ring |-> r]]
      BY <1>8, <2>2 DEF StartXmit, TryXmit, TxTransmit
    <3>2. Pending' = Pending
      BY <1>1, <2>1, <3>1 DEF Pending
    <3>3. IsFiniteSet(Submitted') /\ Cardinality(Submitted') = m + 1
      BY <1>6, <2>2, <3>1
    <3>4. IsFiniteSet(Pending') /\ Cardinality(Pending') = a
      BY <1>1, <1>2, <3>2
    <3>5. (m + 1) + a <= calls + 1
      BY <1>4
    <3> QED  BY <2>1, <3>3, <3>4, <3>5 DEF SendsCounted
  <2>3. CASE ~HasSpace(r)
    <3>1. txProd' = txProd /\ xmit' = [xmit EXCEPT ![s] = [pc |-> "wait", ring |-> r]]
      BY <1>8, <2>3 DEF StartXmit, TryXmit, WaitForSpace
    <3>2. Pending' = Pending \union {s}
      BY <1>1, <2>1, <3>1 DEF Pending
    <3>3. IsFiniteSet(Pending') /\ Cardinality(Pending') = a + 1
      BY <1>1, <1>2, <2>1, <3>2, FS_AddElement
    <3>4. IsFiniteSet(Submitted') /\ Cardinality(Submitted') = m
      BY <1>1, <1>3, <1>7, <3>1
    <3>5. m + (a + 1) <= calls + 1
      BY <1>4
    <3> QED  BY <2>1, <3>3, <3>4, <3>5 DEF SendsCounted
  <2> QED  BY <2>2, <2>3
<1>9. ASSUME NEW s \in Sender, ResumeXmit(s)
      PROVE  SendsCounted'
  <2>1. xmit[s].pc = "woken" /\ calls' = calls /\ s \in Pending
    BY <1>9 DEF ResumeXmit, Pending
  <2>2. PICK r : r = xmit[s].ring
    OBVIOUS
  <2>3. r \in Ring
    BY <2>1, <2>2 DEF IInv, Typing
  <2>4. CASE HasSpace(r)
    <3>1. TxTransmit(s, r) /\ xmit' = [xmit EXCEPT ![s] = [pc |-> "publish", ring |-> r]]
      BY <1>9, <2>2, <2>4 DEF ResumeXmit, TryXmit, TxTransmit
    <3>2. Pending' = Pending \ {s}
      BY <1>1, <2>1, <3>1 DEF Pending
    <3>3. IsFiniteSet(Submitted') /\ Cardinality(Submitted') = m + 1
      BY <1>6, <2>3, <2>4, <3>1
    <3>4. IsFiniteSet(Pending') /\ Cardinality(Pending') = a - 1
      BY <1>1, <1>2, <2>1, <3>2, FS_RemoveElement
    <3>5. (m + 1) + (a - 1) <= calls
      BY <1>4
    <3> QED  BY <2>1, <3>3, <3>4, <3>5 DEF SendsCounted
  <2>5. CASE ~HasSpace(r)
    <3>1. txProd' = txProd /\ xmit' = [xmit EXCEPT ![s] = [pc |-> "wait", ring |-> r]]
      BY <1>9, <2>2, <2>5 DEF ResumeXmit, TryXmit, WaitForSpace
    <3>2. Pending' = Pending
      BY <1>1, <2>1, <3>1 DEF Pending
    <3> QED  BY <1>1, <1>7, <2>1, <3>1, <3>2 DEF SendsCounted
  <2> QED  BY <2>4, <2>5
<1>10. ASSUME txProd' = txProd, calls' = calls, Pending' = Pending
       PROVE  SendsCounted'
  BY <1>1, <1>7, <1>10 DEF SendsCounted
<1>11. ASSUME NEW s \in Sender, FinishPublish(s)
       PROVE  SendsCounted'
  <2>1. /\ xmit[s].pc = "publish" /\ UNCHANGED <<calls, txProd>>
        /\ xmit' = [xmit EXCEPT ![s] = [pc |-> "idle", ring |-> None]]
    BY <1>11 DEF FinishPublish, ringVars
  <2>2. Pending' = Pending
    BY <1>1, <2>1 DEF Pending
  <2> QED  BY <1>10, <2>1, <2>2
<1>12. CASE AdvanceRing
  <2>1. /\ UNCHANGED <<calls, txProd>>
        /\ xmit' = [s \in Sender |->
              IF s \in Woken(handler.ring) THEN [xmit[s] EXCEPT !.pc = "woken"] ELSE xmit[s]]
    BY <1>12 DEF AdvanceRing
  <2>2. \A s \in Sender : xmit'[s].pc \in {"wait", "woken"} <=> xmit[s].pc \in {"wait", "woken"}
    BY <1>1, <2>1 DEF Woken
  <2>3. Pending' = Pending
    BY <2>2 DEF Pending
  <2> QED  BY <1>10, <2>1, <2>3
<1>13. ASSUME TakeInterrupt \/ ScanEvent \/ FinishEq \/ ArmEq \/ Nic \/ UNCHANGED vars
       PROVE  SendsCounted'
  <2>1. ASSUME Nic PROVE UNCHANGED driverVars
    BY <2>1, NicLeavesDriver DEF Nic, NicStep
  <2>2. UNCHANGED <<xmit, calls, txProd>>
    BY <1>13, <2>1 DEF TakeInterrupt, ScanEvent, FinishEq, ArmEq, vars, driverVars, ringVars
  <2>3. Pending' = Pending
    BY <2>2 DEF Pending
  <2> QED  BY <1>10, <2>2, <2>3
<1> QED  BY <1>8, <1>9, <1>11, <1>12, <1>13 DEF Next, Handler

(* No more events than packets that events were raised for.                *)
LEMMA EventsCountKept ==
    ASSUME IInv, IInv', Notices, SendsCounted, SendsCounted', EventsCounted, [Next]_vars
    PROVE  EventsCounted'
<1>1. /\ events \in Seq(Ring) /\ Len(events) \in Nat /\ nicEq.written \in Nat /\ \A r \in Ring : cqCons[r] \in Nat
      /\ (events # <<>> => Len(events) > 0)
  <2>1. events \in Seq(Ring) /\ nicEq.written \in Nat /\ \A r \in Ring : cqCons[r] \in Nat
    BY DEF IInv, Typing, TypeOK
  <2>2. Len(events) \in Nat /\ (events # <<>> => Len(events) > 0)
    BY <2>1
  <2> QED  BY <2>1, <2>2
<1>2. Notices' /\ (Quiet \/ Stores \/ \E q \in Ring : Raises(q) \/ Drops(q))
  BY NoticesKept
<1>3. Claimed \subseteq Submitted /\ Claimed' \subseteq Submitted'
  BY <1>2, ClaimedSent, ClaimedSentNext
<1>4. IsFiniteSet(Claimed) /\ IsFiniteSet(Claimed')
  <2>1. IsFiniteSet(Submitted) /\ IsFiniteSet(Submitted')
    BY DEF SendsCounted
  <2> QED  BY <1>3, <2>1, FS_Subset
<1>5. PICK k \in Nat : k = Cardinality(Claimed)
  BY <1>4, FS_CardinalityType
<1>6. PICK l \in Nat : l = Cardinality(Claimed')
  BY <1>4, FS_CardinalityType
<1>7. PICK n \in Nat : n = Len(events)
  BY <1>1
<1>8. PICK v \in Nat : v = nicEq.written
  BY <1>1
<1>9. v + n <= k
  BY <1>5, <1>7, <1>8 DEF EventsCounted
<1>10. SUFFICES nicEq'.written + Len(events') <= l
  BY <1>6 DEF EventsCounted
<1>11. CASE Quiet
  <2>1. Claimed \subseteq Claimed'
    <3>1. ASSUME NEW r \in Ring, NEW p \in Nat, p < cqCons[r] \/ (p = cqCons[r] /\ Noticed(r))
          PROVE  p < cqCons'[r] \/ (p = cqCons'[r] /\ Noticed(r)')
      <4>1. cqCons[r] \in Nat /\ cqCons'[r] \in Nat
        BY DEF IInv, Typing, TypeOK
      <4> QED  BY <1>11, <3>1, <4>1 DEF Quiet
    <3> SUFFICES ASSUME NEW c \in Claimed PROVE c \in Claimed'
      OBVIOUS
    <3>2. PICK r \in Ring, p \in Nat : c = <<r, p>> /\ (p < cqCons[r] \/ (p = cqCons[r] /\ Noticed(r)))
      BY DEF Claimed
    <3>3. p < cqCons'[r] \/ (p = cqCons'[r] /\ Noticed(r)')
      BY <3>1, <3>2
    <3> QED  BY <3>2, <3>3 DEF Claimed, Noticed
  <2>2. k <= l
    BY <1>4, <1>5, <1>6, <2>1, FS_Subset
  <2> QED  BY <1>7, <1>8, <1>9, <1>11, <2>2 DEF Quiet
<1>12. ASSUME cqCons' = cqCons, \A r \in Ring : Noticed(r)' <=> Noticed(r)
       PROVE  Claimed' = Claimed
  BY <1>12 DEF Claimed
<1>13. CASE Stores
  <2>1. k = l
    BY <1>5, <1>6, <1>12, <1>13 DEF Stores
  <2>2. Len(events') = n - 1
    BY <1>1, <1>7, <1>13 DEF Stores
  <2> QED  BY <1>7, <1>8, <1>9, <1>13, <2>1, <2>2 DEF Stores
<1>14. ASSUME NEW q \in Ring, Raises(q)
       PROVE  nicEq'.written + Len(events') <= l
  <2>1. <<q, cqCons[q]>> \notin Claimed
    BY <1>1, <1>14 DEF Claimed, Raises
  <2>2. Claimed' = Claimed \union {<<q, cqCons[q]>>}
    <3>1. ASSUME NEW c PROVE c \in Claimed' <=> c \in Claimed \union {<<q, cqCons[q]>>}
      <4>1. CASE c \in Ring \X Nat
        <5>1. PICK r \in Ring, p \in Nat : c = <<r, p>>
          BY <4>1
        <5>2. c \in Claimed <=> p < cqCons[r] \/ (p = cqCons[r] /\ Noticed(r))
          BY <5>1 DEF Claimed
        <5>3. c \in Claimed' <=> p < cqCons'[r] \/ (p = cqCons'[r] /\ Noticed(r)')
          BY <5>1 DEF Claimed
        <5> QED  BY <1>14, <5>1, <5>2, <5>3 DEF Raises
      <4>2. CASE c \notin Ring \X Nat
        BY <1>1, <4>2 DEF Claimed
      <4> QED  BY <4>1, <4>2
    <3> QED  BY <3>1
  <2>3. l = k + 1
    BY <1>4, <1>5, <1>6, <2>1, <2>2, FS_AddElement
  <2>4. Len(events') = n + 1
    BY <1>1, <1>7, <1>14 DEF Raises
  <2>5. nicEq'.written = v
    BY <1>8, <1>14 DEF Raises
  <2> QED  BY <1>9, <2>3, <2>4, <2>5
<1>15. ASSUME NEW q \in Ring, Drops(q)
       PROVE  nicEq'.written + Len(events') <= l
  <2>1. <<q, cqCons[q]>> \in Claimed
    BY <1>1, <1>15 DEF Claimed, Drops
  <2>2. Claimed' = Claimed \ {<<q, cqCons[q]>>}
    <3>1. ASSUME NEW c PROVE c \in Claimed' <=> c \in Claimed \ {<<q, cqCons[q]>>}
      <4>1. CASE c \in Ring \X Nat
        <5>1. PICK r \in Ring, p \in Nat : c = <<r, p>>
          BY <4>1
        <5>2. c \in Claimed <=> p < cqCons[r] \/ (p = cqCons[r] /\ Noticed(r))
          BY <5>1 DEF Claimed
        <5>3. c \in Claimed' <=> p < cqCons'[r] \/ (p = cqCons'[r] /\ Noticed(r)')
          BY <5>1 DEF Claimed
        <5>4. cqCons[r] \in Nat /\ cqCons' = cqCons /\ (Noticed(r)' <=> Noticed(r) /\ r # q)
          BY <1>1, <1>15 DEF Drops
        <5> QED  BY <5>1, <5>2, <5>3, <5>4
      <4>2. CASE c \notin Ring \X Nat
        BY <4>2 DEF Claimed
      <4> QED  BY <4>1, <4>2
    <3> QED  BY <3>1
  <2>3. l = k - 1
    BY <1>4, <1>5, <1>6, <2>1, <2>2, FS_RemoveElement
  <2>4. Len(events') = n - 1
    BY <1>1, <1>7, <1>15 DEF Drops
  <2>5. nicEq'.written = v
    BY <1>8, <1>15 DEF Drops
  <2> QED  BY <1>7, <1>9, <2>3, <2>4, <2>5
<1> QED  BY <1>2, <1>11, <1>13, <1>14, <1>15

(* The event queue has room for as many packets as it has entries.         *)
LEMMA RoomForAll ==
    ASSUME MaxXmit <= EqSize, IInv, Notices, SendsCounted, EventsCounted
    PROVE  EventRoom
<1>1. SUFFICES ASSUME events # <<>> PROVE ~QueueFull(nicEq, EqSize)
  BY DEF EventRoom
<1>2. /\ events \in Seq(Ring) /\ Len(events) \in Nat /\ nicEq.written \in Nat /\ nicEq.cons \in Nat
      /\ Len(events) > 0 /\ calls \in Nat /\ calls <= MaxXmit /\ MaxXmit \in Nat /\ EqSize \in Nat
  <2>1. /\ events \in Seq(Ring) /\ nicEq.written \in Nat /\ nicEq.cons \in Nat /\ calls \in 0 .. MaxXmit
    BY DEF IInv, Typing, TypeOK
  <2>2. Len(events) \in Nat /\ Len(events) > 0
    BY <1>1, <2>1
  <2> QED  BY <2>1, <2>2, BoundAssumption, Sizes
<1>3. Claimed \subseteq Submitted /\ IsFiniteSet(Submitted) /\ IsFiniteSet(Pending)
  BY ClaimedSent DEF SendsCounted
<1>4. /\ IsFiniteSet(Claimed) /\ Cardinality(Claimed) <= Cardinality(Submitted)
      /\ Cardinality(Claimed) \in Nat /\ Cardinality(Submitted) \in Nat /\ Cardinality(Pending) \in Nat
  BY <1>3, FS_Subset, FS_CardinalityType
<1>5. nicEq.written + Len(events) <= Cardinality(Claimed)
  BY DEF EventsCounted
<1>6. Cardinality(Submitted) + Cardinality(Pending) <= calls
  BY DEF SendsCounted
<1>7. nicEq.written < EqSize
  BY <1>2, <1>4, <1>5, <1>6
<1> QED  BY <1>2, <1>7 DEF QueueFull

(* With an event queue for as many events as start_xmit is called, no      *)
(* completion and no event is forgotten (mqnic.py, Eq.process_eq; Cq.arm;  *)
(* cpl_queue_manager.v).                                                   *)
THEOREM CompletionsNeverForgotten == MaxXmit <= EqSize => (Spec => []CompletionsAnnounced)
<1> SUFFICES ASSUME MaxXmit <= EqSize PROVE Spec => []CompletionsAnnounced
  OBVIOUS
<1> DEFINE Counted == IInv /\ Notices /\ SendsCounted /\ EventsCounted
<1>1. Init => Counted
  BY InitInv, NoticesInit
<1>2. Counted /\ [Next]_vars => Counted'
  <2> SUFFICES ASSUME Counted, [Next]_vars PROVE Counted'
    OBVIOUS
  <2>1. IInv' /\ SendsCounted'
    BY InvKept, SendsKept
  <2>2. Notices' /\ EventsCounted'
    BY <2>1, NoticesKept, EventsCountKept
  <2> QED  BY <2>1, <2>2
<1>3. Counted => EventRoom
  BY RoomForAll
<1> HIDE DEF Counted
<1>4. Spec => []EventRoom
  BY <1>1, <1>2, <1>3, PTL DEF Spec
<1> QED  BY <1>4, NothingForgotten, PTL
=============================================================================
