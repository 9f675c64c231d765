-------------------------- MODULE MqnicRx_proofs ---------------------------
(***************************************************************************)
(* The receive side of the driver, for any sizes and however many          *)
(* completions are lost: packets once and in order, no buffer leaked or    *)
(* shared, no empty hands for the receiver; and nothing lost at all if the *)
(* completion queue is as large as the ring.                               *)
(***************************************************************************)
EXTENDS MqnicRx, FiniteSetTheorems, FunctionTheorems, SequenceTheorems, TLAPS

-----------------------------------------------------------------------------
(* The inductive invariant.  Positions count on for ever; the slot of a    *)
(* position is the position modulo the size of the ring, and the packet    *)
(* received there is numbered one more.                                    *)

RegWrite == [reg : {"prod", "cqCons"}, val : Nat]
Fetch == [slot : SlotRange, buffer : 1 .. RxSize, packet : Nat]

Typing ==
    /\ rxProd \in Nat /\ rxCons \in Nat /\ cqCons \in Nat
    /\ rxInfo \in [SlotRange -> (1 .. RxSize) \union {None}]
    /\ desc \in [SlotRange -> 1 .. RxSize]
    /\ allocated = RxSize /\ freePackets \in Seq(1 .. RxSize)
    /\ data \in [1 .. RxSize -> Nat]
    /\ posted \in Seq(RegWrite)
    /\ nicProd \in Nat /\ nicCqCons \in Nat /\ fetched \in Nat /\ arrived \in Nat
    /\ fetching \in Seq(Fetch)
    /\ completions \in Seq(SlotRange) /\ completed \in Seq(Nat)
    /\ pktQueue \in Seq(Nat) /\ taken \in Seq(Nat)

(* Read, completed, fetched, known to the hardware, filled: in this order. *)
InOrder ==
    /\ rxCons <= cqCons
    /\ cqCons <= Len(completed)
    /\ Len(completed) + Len(fetching) <= fetched
    /\ fetched = arrived /\ arrived <= MaxPackets
    /\ fetched <= nicProd /\ nicProd <= rxProd
    /\ rxProd <= rxCons + RxSize

(* The positions filled and not yet read, those of lost packets included.  *)
Outstanding(packets, k, prod) ==
    {p \in 0 .. prod - 1 : \A i \in 1 .. k : packets[i] # p + 1}
Out == Outstanding(completed, cqCons, rxProd)

(* The slots in use are those of these positions; none is behind the       *)
(* consumer pointer.                                                       *)
RingOf(info, descs, out) ==
    /\ \A p \in out : info[Slot(p)] # None /\ descs[Slot(p)] = info[Slot(p)]
    /\ \A i \in SlotRange : info[i] # None => \E p \in out : i = Slot(p)
Ahead(out, cons) == \A p \in out : cons <= p

(* The free list has as many buffers as there are slots empty; with the    *)
(* slots it holds every buffer once.                                       *)
PoolOf(free, info) ==
    /\ \A j, k \in DOMAIN free : free[j] = free[k] => j = k
    /\ \A k \in DOMAIN free, i \in SlotRange : info[i] # free[k]
    /\ \A i, j \in SlotRange : info[i] # None /\ info[i] = info[j] => i = j
    /\ \A b \in 1 .. RxSize :
        (\E k \in DOMAIN free : free[k] = b) \/ (\E i \in SlotRange : info[i] = b)
FreeCounted == Len(freePackets) + rxProd = RxSize + cqCons

(* The records name the slots of packets in order of arrival, all of       *)
(* packets that are no longer being written.                               *)
Begun == fetched - Len(fetching)
RecordsOf(slots, packets, top) ==
    /\ Len(slots) = Len(packets)
    /\ \A j \in 1 .. Len(packets) :
        /\ packets[j] \in 1 .. top
        /\ slots[j] = Slot(packets[j] - 1)
        /\ \A i \in 1 .. Len(packets) : i < j => packets[i] < packets[j]

(* Descriptors are fetched one position after the other.                   *)
FetchesOf(fetches, info, from) ==
    \A j \in 1 .. Len(fetches) :
        /\ fetches[j].packet = from + j
        /\ fetches[j].slot = Slot(from + j - 1)
        /\ fetches[j].buffer = info[Slot(from + j - 1)]

(* A packet that is completed and not yet read is in the buffer of its     *)
(* slot.                                                                   *)
Written(contents, info, packets, from) ==
    \A j \in from + 1 .. Len(packets) : contents[info[Slot(packets[j] - 1)]] = packets[j]

(* What is read are the packets of the records, in order.                  *)
PartOf(s, packets, from) == \A i \in 1 .. Len(s) : s[i] = packets[from + i]
Delivered ==
    /\ PartOf(taken, completed, 0) /\ PartOf(pktQueue, completed, Len(taken))
    /\ Len(taken) + Len(pktQueue) = cqCons

(* Posted writes arrive in order, a consumer pointer before the producer   *)
(* pointer it makes room for.                                              *)
Is(w, reg) == w.reg = reg
WritesOf(ps, nicP, nicC, prod, cons) ==
    /\ \A i \in DOMAIN ps : Is(ps[i], "prod") =>
        /\ nicP <= ps[i].val /\ ps[i].val <= prod
        /\ \A j \in DOMAIN ps : i < j /\ Is(ps[j], "prod") => ps[i].val <= ps[j].val
        /\ \/ ps[i].val <= nicC + RxSize
           \/ \E j \in DOMAIN ps :
                j < i /\ Is(ps[j], "cqCons") /\ ps[i].val <= ps[j].val + RxSize
    /\ \A i \in DOMAIN ps : Is(ps[i], "cqCons") =>
        /\ nicC <= ps[i].val /\ ps[i].val <= cons
        /\ \A j \in DOMAIN ps : i < j /\ Is(ps[j], "cqCons") => ps[i].val <= ps[j].val
    /\ nicP <= nicC + RxSize
    /\ nicC <= cons
    /\ nicC = cons \/ \E j \in DOMAIN ps : Is(ps[j], "cqCons") /\ ps[j].val = cons

IInv ==
    /\ Typing
    /\ InOrder
    /\ RingOf(rxInfo, desc, Out) /\ Ahead(Out, rxCons)
    /\ PoolOf(freePackets, rxInfo) /\ FreeCounted
    /\ RecordsOf(completions, completed, Begun)
    /\ FetchesOf(fetching, rxInfo, Begun)
    /\ Written(data, rxInfo, completed, cqCons)
    /\ Delivered
    /\ WritesOf(posted, nicProd, nicCqCons, rxProd, cqCons)

-----------------------------------------------------------------------------
(* The modulus, replaced by what the proofs need of it.                    *)
LEMMA Sizes == RxSize \in Nat /\ RxSize > 0 /\ CqSize \in Nat /\ MaxPackets \in Nat
BY RxAssumption

(* A position is a number of full rounds and a slot.                       *)
LEMMA DivMod ==
    ASSUME NEW S \in Nat \ {0}, NEW p \in Nat
    PROVE  /\ p \div S \in Nat
           /\ p % S \in 0 .. S - 1
           /\ p = S * (p \div S) + (p % S)
OBVIOUS

(* One round further is at least a whole ring further.                     *)
LEMMA Multiples ==
    ASSUME NEW S \in Nat \ {0}, NEW k \in Nat, NEW m \in Nat, k < m
    PROVE  S * m >= S * k + S
<1>1. PICK d \in Nat : m = k + 1 + d
  <2>1. m - k - 1 \in Nat /\ m = k + 1 + (m - k - 1)
    OBVIOUS
  <2> QED  BY <2>1
<1>2. S * m = S * k + S + S * d
  BY <1>1
<1>3. S * d \in Nat /\ S * k \in Nat
  OBVIOUS
<1> QED  BY <1>2, <1>3

(* Two positions less than a ring apart have different slots.              *)
LEMMA ModUnique ==
    ASSUME NEW S \in Nat \ {0}, NEW p \in Nat, NEW q \in Nat, p < q, q < p + S
    PROVE  p % S # q % S
<1> DEFINE a == p \div S
           b == q \div S
           r == p % S
           t == q % S
<1>1. a \in Nat /\ r \in 0 .. S - 1 /\ p = (S * a) + r
  BY DivMod
<1>2. b \in Nat /\ t \in 0 .. S - 1 /\ q = S * b + t
  BY DivMod
<1>3. SUFFICES ASSUME r = t PROVE FALSE
  OBVIOUS
<1> HIDE DEF a, b, r, t
<1>4. S * a \in Int /\ S * b \in Int
  BY <1>1, <1>2
<1>5. CASE a < b
  <2>1. S * b >= S * a + S
    BY <1>1, <1>2, <1>5, Multiples
  <2> QED  BY <1>1, <1>2, <1>3, <1>4, <2>1
<1>6. CASE b < a
  <2>1. S * a >= S * b + S
    BY <1>1, <1>2, <1>6, Multiples
  <2> QED  BY <1>1, <1>2, <1>3, <1>4, <2>1
<1>7. CASE a = b
  BY <1>1, <1>2, <1>3, <1>4, <1>7
<1> QED  BY <1>1, <1>2, <1>5, <1>6, <1>7

(* Slots are slots, and those of one round differ.                         *)
LEMMA SlotType == \A p \in Nat : Slot(p) \in SlotRange
BY RxAssumption, DivMod DEF Slot, SlotRange

LEMMA SlotsApart ==
    ASSUME NEW from \in Nat, NEW p \in from .. from + RxSize - 1,
           NEW q \in from .. from + RxSize - 1, Slot(p) = Slot(q)
    PROVE  p = q
<1>1. RxSize \in Nat \ {0} /\ p \in Nat /\ q \in Nat /\ p < q + RxSize /\ q < p + RxSize
  BY RxAssumption
<1>2. CASE p < q
  BY <1>1, <1>2, ModUnique DEF Slot
<1>3. CASE q < p
  BY <1>1, <1>3, ModUnique DEF Slot
<1> QED  BY <1>1, <1>2, <1>3


-----------------------------------------------------------------------------
(* A set of numbers that is not empty has a least one.  The sets of the    *)
(* smaller numbers are ordered by inclusion.                               *)
LEMMA Least ==
    ASSUME NEW n \in Nat, NEW S \in SUBSET (0 .. n), S # {}
    PROVE  \E m \in S : \A p \in S : m <= p
<1> DEFINE Below(p) == {q \in S : q < p}
           T == {Below(p) : p \in S}
<1>1. IsFiniteSet(S)
  <2>1. IsFiniteSet(0 .. n)
    BY FS_Interval
  <2> QED  BY <2>1, FS_Subset
<1>2. IsWellFoundedOn(StrictSubsetOrdering(S), SUBSET S)
  <2>1. FiniteSubsetsOf(S) = SUBSET S
    BY <1>1, FS_FiniteSubsetsOfFinite
  <2>2. IsWellFoundedOn(StrictSubsetOrdering(S), FiniteSubsetsOf(S))
    BY FS_StrictSubsetOrderingWellFounded
  <2> QED  BY <2>1, <2>2
<1>3. T \subseteq SUBSET S /\ T # {}
  <2>1. PICK p \in S : TRUE
    OBVIOUS
  <2>2. Below(p) \in T
    BY <2>1
  <2> QED  BY <2>2
<1>4. PICK B \in T : \A C \in T : <<C, B>> \notin StrictSubsetOrdering(S)
  <2> HIDE DEF T
  <2> QED  BY <1>2, <1>3, WFMin
<1>5. PICK m \in S : B = Below(m)
  BY <1>4
<1>6. ASSUME NEW p \in S, p < m PROVE FALSE
  <2>1. Below(p) \in T /\ Below(p) \in SUBSET S /\ Below(m) \in SUBSET S
    OBVIOUS
  <2>2. Below(p) \subseteq Below(m)
    <3> SUFFICES ASSUME NEW q \in S, q < p PROVE q < m
      OBVIOUS
    <3>1. q \in Int /\ p \in Int /\ m \in Int
      OBVIOUS
    <3> QED  BY <1>6, <3>1
  <2>3. p \in Below(m) /\ p \notin Below(p)
    BY <1>6
  <2>4. <<Below(p), Below(m)>> \in StrictSubsetOrdering(S)
    <3> HIDE DEF Below
    <3> QED  BY <2>1, <2>2, <2>3 DEF StrictSubsetOrdering
  <2> QED  BY <1>4, <1>5, <2>1, <2>4
<1>7. \A p \in S : m <= p
  BY <1>6
<1> QED  BY <1>7

(* k packets are not the first k + 1.                                      *)
LEMMA NotMoreThanRead ==
    ASSUME NEW packets, NEW k \in Nat, NEW n \in Nat,
           \A p \in 0 .. n - 1 : \E i \in 1 .. k : packets[i] = p + 1
    PROVE  n <= k
<1> DEFINE T == {packets[i] : i \in 1 .. k}
           f == [i \in 1 .. k |-> packets[i]]
<1>1. IsFiniteSet(1 .. k) /\ Cardinality(1 .. k) = k
  BY FS_Interval
<1>2. f \in Surjection(1 .. k, T)
  BY DEF Surjection
<1>3. IsFiniteSet(T) /\ Cardinality(T) <= k
  <2> HIDE DEF f, T
  <2> QED  BY <1>1, <1>2, FS_Surjection
<1>4. 1 .. n \subseteq T
  <2> SUFFICES ASSUME NEW q \in 1 .. n PROVE q \in T
    OBVIOUS
  <2>1. q - 1 \in 0 .. n - 1 /\ (q - 1) + 1 = q
    OBVIOUS
  <2> QED  BY <2>1
<1>5. Cardinality(1 .. n) = n
  BY FS_Interval
<1> HIDE DEF T
<1>6. Cardinality(1 .. n) <= Cardinality(T) /\ Cardinality(T) \in Nat
  BY <1>3, <1>4, FS_Subset, FS_CardinalityType
<1> QED  BY <1>3, <1>5, <1>6

-----------------------------------------------------------------------------
(* A ring's worth of positions.                                            *)
Ring(from) == from .. from + RxSize - 1

(* The positions outstanding are a ring's worth at most.                   *)
LEMMA OutFacts ==
    ASSUME IInv
    PROVE  /\ rxCons \in Nat /\ rxProd \in Nat /\ cqCons \in Nat
           /\ rxCons <= cqCons /\ cqCons <= rxProd /\ rxProd <= rxCons + RxSize
           /\ \A p \in Out : p \in Nat /\ p < rxProd /\ rxCons <= p /\ p \in Ring(rxCons)
<1>1. Len(completed) \in Nat /\ Len(fetching) \in Nat
  BY LenProperties DEF IInv, Typing
<1>2. /\ rxCons \in Nat /\ rxProd \in Nat /\ cqCons \in Nat
      /\ rxCons <= cqCons /\ cqCons <= rxProd /\ rxProd <= rxCons + RxSize
  BY <1>1 DEF IInv, Typing, InOrder
<1>3. \A p \in Out : p \in 0 .. rxProd - 1 /\ rxCons <= p
  BY DEF IInv, Out, Outstanding, Ahead
<1>4. \A p \in Out : p \in Nat /\ p < rxProd /\ rxCons <= p /\ p \in Ring(rxCons)
  BY <1>2, <1>3, Sizes DEF Ring
<1> QED  BY <1>2, <1>4

(* Where the consumer pointer goes: to a position outstanding, or to the   *)
(* producer pointer; it passes none, and so no more than are read.         *)
LEMMA Advances ==
    ASSUME IInv
    PROVE  /\ Advanced \in rxCons .. rxProd
           /\ Ahead(Out, Advanced)
           /\ Advanced <= cqCons
<1>1. /\ rxCons \in Nat /\ rxProd \in Nat /\ cqCons \in Nat
      /\ rxCons <= cqCons /\ cqCons <= rxProd /\ rxProd <= rxCons + RxSize
      /\ \A p \in Out : p \in Nat /\ p < rxProd /\ rxCons <= p /\ p \in Ring(rxCons)
  BY OutFacts
<1>2. \A p \in Out : rxInfo[Slot(p)] # None
  BY DEF IInv, RingOf
<1>3. PICK m \in Out \union {rxProd} : \A p \in Out \union {rxProd} : m <= p
  <2>1. Out \union {rxProd} \in SUBSET (0 .. rxProd)
    BY <1>1
  <2> QED  BY <1>1, <2>1, Least
<1>4. m \in rxCons .. rxProd /\ m \in Nat
  BY <1>1, <1>3
<1>5. ASSUME NEW p \in rxCons .. m - 1 PROVE rxInfo[Slot(p)] = None
  <2>1. SUFFICES ASSUME rxInfo[Slot(p)] # None PROVE FALSE
    OBVIOUS
  <2>2. p \in Nat /\ p < m /\ p \in Ring(rxCons)
    BY <1>1, <1>4, Sizes DEF Ring
  <2>3. PICK q \in Out : Slot(p) = Slot(q)
    BY <2>1, <2>2, SlotType DEF IInv, RingOf
  <2>4. p = q
    BY <1>1, <2>2, <2>3, SlotsApart DEF Ring
  <2> QED  BY <1>1, <1>3, <2>2, <2>3, <2>4
<1>6. m = rxProd \/ rxInfo[Slot(m)] # None
  BY <1>2, <1>3
<1>7. /\ Advanced \in rxCons .. rxProd
      /\ \A p \in rxCons .. Advanced - 1 : rxInfo[Slot(p)] = None
  BY <1>4, <1>5, <1>6 DEF Advanced
<1>8. PICK c \in rxCons .. rxProd : c = Advanced
  BY <1>7
<1>9. ASSUME NEW p \in Out PROVE c <= p
  <2>1. SUFFICES ASSUME p < c PROVE FALSE
    BY <1>1, <1>8
  <2>2. p \in rxCons .. c - 1
    BY <1>1, <1>8, <2>1
  <2> QED  BY <1>2, <1>7, <1>8, <2>2
<1>10. c <= cqCons
  <2>1. ASSUME NEW p \in 0 .. c - 1 PROVE \E i \in 1 .. cqCons : completed[i] = p + 1
    <3>1. p \in 0 .. rxProd - 1 /\ ~(c <= p)
      BY <1>1, <1>8
    <3> QED  BY <1>9, <3>1 DEF Out, Outstanding
  <2>2. c \in Nat
    BY <1>1, <1>8
  <2> QED  BY <1>1, <2>1, <2>2, NotMoreThanRead
<1> QED  BY <1>7, <1>8, <1>9, <1>10 DEF Ahead

-----------------------------------------------------------------------------
(* What a refill makes of the slots.                                       *)
Fill(f, pkts, from, n) == [i \in SlotRange |->
    IF \E j \in 1 .. n : Slot(from + j - 1) = i
    THEN pkts[CHOOSE j \in 1 .. n : Slot(from + j - 1) = i] ELSE f[i]]

(* Of no more buffers than there are slots each gets a slot of its own.    *)
Filled(f, pkts, from, n, new) ==
    /\ \A j \in 1 .. n : new[Slot(from + j - 1)] = pkts[j]
    /\ \A i \in SlotRange : (\A j \in 1 .. n : Slot(from + j - 1) # i) => new[i] = f[i]

LEMMA FillSlots ==
    ASSUME NEW from \in Nat, NEW n \in 0 .. RxSize, NEW pkts, NEW f
    PROVE  Filled(f, pkts, from, n, Fill(f, pkts, from, n))
<1>1. ASSUME NEW j \in 1 .. n, NEW k \in 1 .. n, Slot(from + j - 1) = Slot(from + k - 1)
      PROVE  j = k
  <2>1. /\ from + j - 1 \in from .. from + RxSize - 1
        /\ from + k - 1 \in from .. from + RxSize - 1
    BY Sizes
  <2>2. from + j - 1 = from + k - 1
    BY <1>1, <2>1, SlotsApart
  <2> QED  BY <2>2
<1>2. ASSUME NEW j \in 1 .. n PROVE Fill(f, pkts, from, n)[Slot(from + j - 1)] = pkts[j]
  <2>1. from + j - 1 \in Nat
    OBVIOUS
  <2>2. Slot(from + j - 1) \in SlotRange
    BY <2>1, SlotType
  <2>3. (CHOOSE k \in 1 .. n : Slot(from + k - 1) = Slot(from + j - 1)) = j
    BY <1>1
  <2> QED  BY <2>2, <2>3 DEF Fill
<1>3. \A i \in SlotRange : (\A j \in 1 .. n : Slot(from + j - 1) # i) =>
                Fill(f, pkts, from, n)[i] = f[i]
  BY DEF Fill
<1> QED  BY <1>2, <1>3 DEF Filled

(* They remain slots with buffers.                                         *)
LEMMA FillTyped ==
    ASSUME NEW B, NEW f \in [SlotRange -> B], NEW n \in Nat, NEW pkts,
           \A j \in 1 .. n : pkts[j] \in B, NEW from \in Nat
    PROVE  Fill(f, pkts, from, n) \in [SlotRange -> B]
<1>1. \A i \in SlotRange : (\E j \in 1 .. n : Slot(from + j - 1) = i) =>
        (CHOOSE j \in 1 .. n : Slot(from + j - 1) = i) \in 1 .. n
  OBVIOUS
<1> QED  BY <1>1 DEF Fill

(* The first n buffers of the free list go into the slots of the next n    *)
(* positions, which are empty as long as these are within the ring.        *)
Grown(info, info2, descs2, rest, out, to, n) ==
    /\ RingOf(info2, descs2, out \union (to .. to + n - 1))
    /\ PoolOf(rest, info2)
    /\ \A p \in out : info2[Slot(p)] = info[Slot(p)]

LEMMA RingFilled ==
    ASSUME NEW info, NEW descs, NEW free \in Seq(1 .. RxSize),
           NEW lo \in Nat, NEW to \in Nat, lo <= to, NEW out,
           \A p \in out : p \in Nat /\ p \in Ring(lo) /\ p < to,
           NEW n \in Nat, n <= Len(free), to + n <= lo + RxSize,
           RingOf(info, descs, out), PoolOf(free, info),
           NEW pkts, \A j \in 1 .. n : pkts[j] = free[j],
           NEW rest \in Seq(1 .. RxSize), Len(rest) + n = Len(free),
           \A j \in 1 .. Len(rest) : rest[j] = free[n + j],
           NEW info2, info2 = Fill(info, pkts, to, n),
           NEW descs2, descs2 = Fill(descs, pkts, to, n)
    PROVE  Grown(info, info2, descs2, rest, out, to, n)
<1>1. PICK m \in Nat : m = Len(rest) /\ DOMAIN rest = 1 .. m
  BY LenProperties
<1>2. n \in 0 .. RxSize /\ DOMAIN free = 1 .. m + n /\ \A j \in 1 .. m : n + j \in 1 .. m + n
  <2>1. n \in 0 .. RxSize
    BY Sizes
  <2>2. Len(free) = m + n /\ DOMAIN free = 1 .. Len(free)
    BY <1>1, LenProperties
  <2>3. \A j \in 1 .. m : n + j \in 1 .. m + n
    OBVIOUS
  <2> QED  BY <2>1, <2>2, <2>3
<1>3. \A j \in 1 .. n : j \in 1 .. m + n /\ pkts[j] = free[j] /\ pkts[j] \in 1 .. RxSize /\ pkts[j] # None
  <2>1. \A j \in 1 .. n : j \in 1 .. m + n
    BY <1>1
  <2>2. \A j \in 1 .. m + n : free[j] \in 1 .. RxSize
    BY <1>1, <1>2, ElementOfSeq, LenProperties
  <2>3. \A b \in 1 .. RxSize : b # None
    BY NoneAssumption, Sizes
  <2> QED  BY <2>1, <2>2, <2>3
<1>4. /\ \A j \in 1 .. n : info2[Slot(to + j - 1)] = pkts[j]
      /\ \A i \in SlotRange : (\A j \in 1 .. n : Slot(to + j - 1) # i) => info2[i] = info[i]
  <2>1. Filled(info, pkts, to, n, Fill(info, pkts, to, n))
    BY <1>2, FillSlots
  <2> QED  BY <2>1 DEF Filled
<1>5. /\ \A j \in 1 .. n : descs2[Slot(to + j - 1)] = pkts[j]
      /\ \A i \in SlotRange : (\A j \in 1 .. n : Slot(to + j - 1) # i) => descs2[i] = descs[i]
  <2>1. Filled(descs, pkts, to, n, Fill(descs, pkts, to, n))
    BY <1>2, FillSlots
  <2> QED  BY <2>1 DEF Filled
<1>6. ASSUME NEW p \in out, NEW j \in 1 .. n PROVE Slot(to + j - 1) # Slot(p)
  <2>1. p \in Ring(lo) /\ to + j - 1 \in Ring(lo)
    BY Sizes DEF Ring
  <2>2. p # to + j - 1
    OBVIOUS
  <2> QED  BY <2>1, <2>2, SlotsApart DEF Ring
<1>7. ASSUME NEW p \in out
      PROVE  info2[Slot(p)] = info[Slot(p)] /\ descs2[Slot(p)] = descs[Slot(p)]
  BY <1>4, <1>5, <1>6, SlotType
<1>8. ASSUME NEW p \in out \union (to .. to + n - 1)
      PROVE  info2[Slot(p)] # None /\ descs2[Slot(p)] = info2[Slot(p)]
  <2>1. CASE p \in out
    BY <1>7, <2>1 DEF RingOf
  <2>2. CASE p \in to .. to + n - 1
    <3>1. PICK j \in 1 .. n : p = to + j - 1
      <4>1. p - to + 1 \in 1 .. n /\ p = to + (p - to + 1) - 1
        BY <2>2
      <4> QED  BY <4>1
    <3>2. info2[Slot(p)] = pkts[j] /\ descs2[Slot(p)] = pkts[j]
      BY <1>4, <1>5, <3>1
    <3> QED  BY <1>3, <3>2
  <2> QED  BY <2>1, <2>2
<1>9. ASSUME NEW j \in 1 .. n
      PROVE  /\ Slot(to + j - 1) \in SlotRange /\ to + j - 1 \in to .. to + n - 1
             /\ info[Slot(to + j - 1)] = None
  <2>1. to + j - 1 \in Nat /\ to + j - 1 \in to .. to + n - 1
    OBVIOUS
  <2>2. Slot(to + j - 1) \in SlotRange
    BY <2>1, SlotType
  <2> QED  BY <1>6, <2>1, <2>2 DEF RingOf
<1>10. ASSUME NEW i \in SlotRange, info2[i] # None
       PROVE  \E p \in out \union (to .. to + n - 1) : i = Slot(p)
  <2>1. CASE \E j \in 1 .. n : Slot(to + j - 1) = i
    BY <1>9, <2>1
  <2>2. CASE \A j \in 1 .. n : Slot(to + j - 1) # i
    BY <1>4, <1>10, <2>2 DEF RingOf
  <2> QED  BY <2>1, <2>2
<1>11. RingOf(info2, descs2, out \union (to .. to + n - 1))
  BY <1>8, <1>10 DEF RingOf
<1>12. \A j, k \in 1 .. m + n : free[j] = free[k] => j = k
  BY <1>2 DEF PoolOf
<1>13. \A j, k \in DOMAIN rest : rest[j] = rest[k] => j = k
  <2> SUFFICES ASSUME NEW j \in 1 .. m, NEW k \in 1 .. m, rest[j] = rest[k] PROVE j = k
    BY <1>1
  <2>1. n + j = n + k
    BY <1>1, <1>2, <1>12
  <2> QED  BY <2>1
<1>14. ASSUME NEW k \in DOMAIN rest, NEW i \in SlotRange PROVE info2[i] # rest[k]
  <2>1. k \in 1 .. m /\ rest[k] = free[n + k] /\ n + k \in 1 .. m + n
    BY <1>1, <1>2
  <2>2. CASE \A j \in 1 .. n : Slot(to + j - 1) # i
    BY <1>2, <1>4, <2>1, <2>2 DEF PoolOf
  <2>3. ASSUME NEW j \in 1 .. n, Slot(to + j - 1) = i PROVE info2[i] # rest[k]
    <3>1. info2[i] = free[j] /\ j \in 1 .. m + n /\ j # n + k
      BY <1>3, <1>4, <2>1, <2>3
    <3> QED  BY <1>12, <2>1, <3>1
  <2> QED  BY <2>2, <2>3
<1>15. ASSUME NEW i \in SlotRange, NEW k \in SlotRange, info2[i] # None, info2[i] = info2[k]
       PROVE  i = k
  <2>0. \A a, b \in SlotRange : info[a] # None /\ info[a] = info[b] => a = b
    BY DEF PoolOf
  <2>1. \A a \in SlotRange, j \in 1 .. m + n : info[a] # free[j]
    BY <1>2 DEF PoolOf
  <2>2. ASSUME NEW j \in 1 .. n, Slot(to + j - 1) = i, NEW l \in 1 .. n, Slot(to + l - 1) = k
        PROVE  i = k
    <3>1. free[j] = free[l]
      BY <1>3, <1>4, <1>15, <2>2
    <3> QED  BY <1>3, <1>12, <2>2, <3>1
  <2>3. ASSUME NEW j \in 1 .. n, Slot(to + j - 1) = i, \A l \in 1 .. n : Slot(to + l - 1) # k
        PROVE  FALSE
    <3>1. info[k] = free[j]
      BY <1>3, <1>4, <1>15, <2>3
    <3> QED  BY <1>3, <2>1, <3>1
  <2>4. ASSUME NEW j \in 1 .. n, Slot(to + j - 1) = k, \A l \in 1 .. n : Slot(to + l - 1) # i
        PROVE  FALSE
    <3>1. info[i] = free[j]
      BY <1>3, <1>4, <1>15, <2>4
    <3> QED  BY <1>3, <2>1, <3>1
  <2>5. CASE (\A l \in 1 .. n : Slot(to + l - 1) # i) /\ (\A l \in 1 .. n : Slot(to + l - 1) # k)
    <3>1. info2[i] = info[i] /\ info2[k] = info[k]
      BY <1>4, <2>5
    <3> QED  BY <1>15, <2>0, <3>1
  <2> QED  BY <2>2, <2>3, <2>4, <2>5
<1>16. ASSUME NEW b \in 1 .. RxSize
       PROVE  (\E k \in DOMAIN rest : rest[k] = b) \/ (\E i \in SlotRange : info2[i] = b)
  <2>1. ASSUME NEW k \in 1 .. m + n, free[k] = b
        PROVE  (\E l \in DOMAIN rest : rest[l] = b) \/ (\E i \in SlotRange : info2[i] = b)
    <3>1. CASE k \in 1 .. n
      BY <1>3, <1>4, <1>9, <2>1, <3>1
    <3>2. CASE k \notin 1 .. n
      <4>1. k - n \in 1 .. m /\ n + (k - n) = k
        BY <3>2
      <4>2. rest[k - n] = free[k]
        BY <1>1, <4>1
      <4> QED  BY <1>1, <2>1, <4>1, <4>2
    <3> QED  BY <3>1, <3>2
  <2>2. ASSUME NEW i \in SlotRange, info[i] = b PROVE info2[i] = b
    <3>1. info[i] # None
      BY <2>2, NoneAssumption, Sizes
    <3> QED  BY <1>4, <1>9, <2>2, <3>1
  <2>3. (\E k \in 1 .. m + n : free[k] = b) \/ (\E i \in SlotRange : info[i] = b)
    BY <1>2 DEF PoolOf
  <2> QED  BY <2>1, <2>2, <2>3
<1>17. PoolOf(rest, info2)
  BY <1>13, <1>14, <1>15, <1>16 DEF PoolOf
<1> QED  BY <1>7, <1>11, <1>17 DEF Grown

(* A function on the first numbers is a sequence.                          *)
LEMMA SeqOfFunction ==
    ASSUME NEW S, NEW k \in Nat, NEW f \in [1 .. k -> S]
    PROVE  f \in Seq(S) /\ Len(f) = k
OBVIOUS

(* Two sequences, one after the other.                                     *)
JoinOf(u, s, t, m, k) ==
    /\ Len(u) = m + k /\ DOMAIN u = 1 .. m + k
    /\ \A j \in 1 .. m : u[j] = s[j]
    /\ \A j \in 1 .. k : u[m + j] = t[j]

LEMMA Joined ==
    ASSUME NEW S, NEW s \in Seq(S), NEW t \in Seq(S),
           NEW m \in Nat, m = Len(s), NEW k \in Nat, k = Len(t)
    PROVE  s \o t \in Seq(S) /\ JoinOf(s \o t, s, t, m, k)
<1>1. s \o t \in Seq(S) /\ Len(s \o t) = m + k
  BY ConcatProperties
<1>2. PICK u \in Seq(S) : u = s \o t /\ Len(u) = m + k
  BY <1>1
<1>3. \A i \in 1 .. m + k : u[i] = IF i <= m THEN s[i] ELSE t[i - m]
  BY <1>2, ConcatProperties
<1>4. \A j \in 1 .. m : j \in 1 .. m + k /\ j <= m
  OBVIOUS
<1>5. \A j \in 1 .. k : m + j \in 1 .. m + k /\ ~(m + j <= m) /\ (m + j) - m = j
  OBVIOUS
<1>6. \A j \in 1 .. m : u[j] = s[j]
  BY <1>3, <1>4
<1>7. \A j \in 1 .. k : u[m + j] = t[j]
  BY <1>3, <1>5
<1>8. DOMAIN u = 1 .. m + k
  BY <1>2, LenProperties
<1> QED  BY <1>2, <1>6, <1>7, <1>8 DEF JoinOf

(* process_rx_cq gives the buffers of k positions back, one after the      *)
(* other.                                                                  *)
Given(info, at, k) == [j \in 1 .. k |-> info[Slot(at[j])]]
Emptied(info, info2, at, k) ==
    \A i \in SlotRange :
        /\ (\E j \in 1 .. k : i = Slot(at[j])) => info2[i] = None
        /\ (\A j \in 1 .. k : i # Slot(at[j])) => info2[i] = info[i]

Without(out, at, k) == {p \in out : \A j \in 1 .. k : p # at[j]}
Passed(free, all, info, info2, descs, out, at, k) ==
    /\ all \in Seq(1 .. RxSize)
    /\ Len(all) = Len(free) + k
    /\ RingOf(info2, descs, Without(out, at, k))
    /\ PoolOf(all, info2)
    /\ \A p \in Without(out, at, k) : info2[Slot(p)] = info[Slot(p)]

LEMMA PoolGets ==
    ASSUME NEW info, NEW descs, NEW free \in Seq(1 .. RxSize),
           NEW lo \in Nat, NEW out, \A p \in out : p \in Nat /\ p \in Ring(lo),
           NEW k \in Nat, NEW at \in [1 .. k -> out],
           \A i, j \in 1 .. k : at[i] = at[j] => i = j,
           info \in [SlotRange -> (1 .. RxSize) \union {None}],
           RingOf(info, descs, out), PoolOf(free, info),
           NEW given, given = Given(info, at, k),
           NEW info2, info2 \in [SlotRange -> (1 .. RxSize) \union {None}],
           Emptied(info, info2, at, k), NEW all, all = free \o given
    PROVE  Passed(free, all, info, info2, descs, out, at, k)
<1>0. \A i \in SlotRange :
        /\ (\E j \in 1 .. k : i = Slot(at[j])) => info2[i] = None
        /\ (\A j \in 1 .. k : i # Slot(at[j])) => info2[i] = info[i]
  BY DEF Emptied
<1>1. PICK m \in Nat : m = Len(free) /\ DOMAIN free = 1 .. m
  BY LenProperties
<1>2. ASSUME NEW j \in 1 .. k
      PROVE  /\ Slot(at[j]) \in SlotRange /\ info[Slot(at[j])] \in 1 .. RxSize
             /\ info[Slot(at[j])] # None
  <2>1. at[j] \in out
    OBVIOUS
  <2>2. info[Slot(at[j])] # None
    BY <2>1 DEF RingOf
  <2> QED  BY <2>1, <2>2, SlotType
<1>3. given \in Seq(1 .. RxSize) /\ Len(given) = k /\ \A j \in 1 .. k : given[j] = info[Slot(at[j])]
  <2>1. given \in [1 .. k -> 1 .. RxSize]
    BY <1>2 DEF Given
  <2>2. \A j \in 1 .. k : given[j] = info[Slot(at[j])]
    BY DEF Given
  <2>3. given \in Seq(1 .. RxSize) /\ Len(given) = k
    BY <2>1, SeqOfFunction
  <2> QED  BY <2>2, <2>3
<1>4. PICK big \in Seq(1 .. RxSize) : big = all
  BY <1>3, ConcatProperties
<1>5. /\ DOMAIN big = 1 .. m + k /\ Len(big) = m + k
      /\ \A j \in 1 .. m : big[j] = free[j]
      /\ \A j \in 1 .. k : big[m + j] = info[Slot(at[j])]
  <2>1. /\ DOMAIN big = 1 .. m + k /\ Len(big) = m + k
        /\ \A j \in 1 .. m : big[j] = free[j]
        /\ \A j \in 1 .. k : big[m + j] = given[j]
    <3>1. PICK g \in Seq(1 .. RxSize) : g = given /\ Len(g) = k
      BY <1>3
    <3>2. free \in Seq(1 .. RxSize) /\ m \in Nat /\ m = Len(free) /\ big = free \o g
      BY <1>1, <1>4, <3>1
    <3>3. JoinOf(big, free, g, m, k)
      BY <3>1, <3>2, Joined
    <3> QED  BY <3>1, <3>3 DEF JoinOf
  <2> QED  BY <1>3, <2>1
<1>6. ASSUME NEW p \in Without(out, at, k)
      PROVE  Slot(p) \in SlotRange /\ info2[Slot(p)] = info[Slot(p)]
  <2>1. p \in out /\ p \in Nat /\ p \in Ring(lo) /\ \A j \in 1 .. k : p # at[j]
    BY DEF Without
  <2>2. ASSUME NEW j \in 1 .. k, Slot(p) = Slot(at[j]) PROVE FALSE
    <3>1. at[j] \in Ring(lo)
      OBVIOUS
    <3> QED  BY <2>1, <2>2, <3>1, SlotsApart DEF Ring
  <2> QED  BY <1>0, <2>1, <2>2, SlotType
<1>7. \A p \in Without(out, at, k) : p \in out
  BY DEF Without
<1>8. ASSUME NEW i \in SlotRange, info2[i] # None
      PROVE  info2[i] = info[i] /\ \E p \in Without(out, at, k) : i = Slot(p)
  <2>1. \A j \in 1 .. k : i # Slot(at[j])
    BY <1>0, <1>8
  <2>2. info2[i] = info[i]
    BY <1>0, <2>1
  <2>3. PICK p \in out : i = Slot(p)
    BY <1>8, <2>2 DEF RingOf
  <2>4. p \in Without(out, at, k)
    BY <2>1, <2>3 DEF Without
  <2> QED  BY <2>2, <2>3, <2>4
<1>9. RingOf(info2, descs, Without(out, at, k))
  BY <1>6, <1>7, <1>8 DEF RingOf
<1>10. \A i \in 1 .. m + k : i \in 1 .. m \/ \E l \in 1 .. k : i = m + l
  <2>1. \A i \in 1 .. m + k : i \in 1 .. m \/ (i - m \in 1 .. k /\ i = m + (i - m))
    OBVIOUS
  <2> QED  BY <2>1
<1>11. ASSUME NEW i \in 1 .. k, NEW j \in 1 .. k, info[Slot(at[i])] = info[Slot(at[j])]
       PROVE  i = j
  <2>1. Slot(at[i]) = Slot(at[j])
    BY <1>2, <1>11 DEF PoolOf
  <2>2. at[i] \in Ring(lo) /\ at[j] \in Ring(lo)
    OBVIOUS
  <2>3. at[i] = at[j]
    BY <2>1, <2>2, SlotsApart DEF Ring
  <2> QED  BY <2>3
<1>12. \A i \in 1 .. m, j \in 1 .. k : free[i] # info[Slot(at[j])]
  BY <1>1, <1>2 DEF PoolOf
<1>13. \A i, j \in 1 .. m : free[i] = free[j] => i = j
  BY <1>1 DEF PoolOf
<1>14. ASSUME NEW i \in 1 .. m + k, NEW j \in 1 .. m + k, big[i] = big[j] PROVE i = j
  <2>1. CASE i \in 1 .. m /\ j \in 1 .. m
    BY <1>5, <1>13, <1>14, <2>1
  <2>2. ASSUME NEW l \in 1 .. k, i \in 1 .. m, j = m + l PROVE FALSE
    <3>1. big[i] = free[i] /\ big[j] = info[Slot(at[l])]
      BY <1>5, <2>2
    <3> QED  BY <1>12, <1>14, <2>2, <3>1
  <2>3. ASSUME NEW l \in 1 .. k, j \in 1 .. m, i = m + l PROVE FALSE
    <3>1. big[j] = free[j] /\ big[i] = info[Slot(at[l])]
      BY <1>5, <2>3
    <3> QED  BY <1>12, <1>14, <2>3, <3>1
  <2>4. ASSUME NEW l \in 1 .. k, NEW h \in 1 .. k, i = m + l, j = m + h PROVE l = h
    <3>1. info[Slot(at[l])] = info[Slot(at[h])]
      BY <1>5, <1>14, <2>4
    <3> QED  BY <1>11, <3>1
  <2> QED  BY <1>10, <2>1, <2>2, <2>3, <2>4
<1>15. ASSUME NEW j \in 1 .. m + k, NEW i \in SlotRange, info2[i] = big[j] PROVE FALSE
  <2>1. big[j] \in 1 .. RxSize
    BY <1>4, <1>5, ElementOfSeq
  <2>2. info2[i] # None
    BY <1>15, <2>1, NoneAssumption, Sizes
  <2>3. info[i] = big[j]
    BY <1>8, <1>15, <2>2
  <2>4. CASE j \in 1 .. m
    BY <1>1, <1>5, <2>3, <2>4 DEF PoolOf
  <2>5. ASSUME NEW l \in 1 .. k, j = m + l PROVE FALSE
    <3>1. info[i] = info[Slot(at[l])]
      BY <1>5, <2>3, <2>5
    <3>2. Slot(at[l]) \in SlotRange /\ info[i] # None
      BY <1>2, <1>8, <2>2
    <3>3. i = Slot(at[l])
      BY <3>1, <3>2 DEF PoolOf
    <3> QED  BY <1>0, <2>2, <3>3
  <2> QED  BY <1>10, <2>4, <2>5
<1>16. ASSUME NEW b \in 1 .. RxSize
       PROVE  (\E j \in 1 .. m + k : big[j] = b) \/ (\E i \in SlotRange : info2[i] = b)
  <2>1. CASE \E j \in DOMAIN free : free[j] = b
    <3>1. PICK j \in 1 .. m : free[j] = b
      BY <1>1, <2>1
    <3>2. j \in 1 .. m + k
      OBVIOUS
    <3> QED  BY <1>5, <3>1, <3>2
  <2>2. CASE \E i \in SlotRange : info[i] = b
    <3>1. PICK i \in SlotRange : info[i] = b
      BY <2>2
    <3>2. CASE \A j \in 1 .. k : i # Slot(at[j])
      BY <1>0, <3>1, <3>2
    <3>3. CASE \E j \in 1 .. k : i = Slot(at[j])
      <4>1. PICK j \in 1 .. k : i = Slot(at[j])
        BY <3>3
      <4>2. m + j \in 1 .. m + k
        OBVIOUS
      <4> QED  BY <1>5, <3>1, <4>1, <4>2
    <3> QED  BY <3>2, <3>3
  <2> QED  BY <2>1, <2>2 DEF PoolOf
<1>17. \A i, j \in SlotRange : info2[i] # None /\ info2[i] = info2[j] => i = j
  <2> SUFFICES ASSUME NEW i \in SlotRange, NEW j \in SlotRange,
                      info2[i] # None, info2[i] = info2[j]
               PROVE  i = j
    OBVIOUS
  <2>1. info[i] # None /\ info[i] = info[j]
    BY <1>8
  <2> QED  BY <2>1 DEF PoolOf
<1>18. PoolOf(big, info2)
  BY <1>5, <1>14, <1>15, <1>16, <1>17 DEF PoolOf
<1>19. Passed(free, big, info, info2, descs, out, at, k)
  BY <1>1, <1>5, <1>6, <1>9, <1>18 DEF Passed
<1> QED  BY <1>4, <1>19

-----------------------------------------------------------------------------
(* The driver writes a pointer.                                            *)
LEMMA WritesGrow ==
    ASSUME NEW ps \in Seq(RegWrite), NEW nicP \in Nat, NEW nicC \in Nat,
           NEW prod \in Nat, NEW cons \in Nat, WritesOf(ps, nicP, nicC, prod, cons),
           nicP <= prod, NEW w \in RegWrite, NEW prod2 \in Nat, NEW cons2 \in Nat,
           \/ Is(w, "cqCons") /\ w.val = cons2 /\ cons <= cons2 /\ prod2 = prod
           \/ Is(w, "prod") /\ w.val = prod2 /\ prod <= prod2 /\ cons2 = cons
              /\ prod2 <= cons + RxSize
    PROVE  Append(ps, w) \in Seq(RegWrite) /\ WritesOf(Append(ps, w), nicP, nicC, prod2, cons2)
<1>1. PICK n \in Nat : n = Len(ps) /\ DOMAIN ps = 1 .. n
  BY LenProperties
<1>2. PICK qs \in Seq(RegWrite) : qs = Append(ps, w)
  BY AppendProperties
<1>3. /\ DOMAIN qs = 1 .. n + 1 /\ Len(qs) = n + 1 /\ qs[n + 1] = w
      /\ \A i \in 1 .. n : qs[i] = ps[i]
  BY <1>1, <1>2, AppendProperties, LenProperties
<1>4. \A i \in 1 .. n + 1 : qs[i].val \in Nat
  <2>1. \A i \in 1 .. n + 1 : qs[i] \in RegWrite
    BY <1>3, ElementOfSeq
  <2> QED  BY <2>1 DEF RegWrite
<1>5. ~(Is(w, "prod") /\ Is(w, "cqCons"))
  BY DEF Is
<1>6. \A i \in 1 .. n + 1 : i \in 1 .. n \/ i = n + 1
  OBVIOUS
<1>7. /\ \A i \in 1 .. n : Is(ps[i], "prod") =>
            /\ nicP <= ps[i].val /\ ps[i].val <= prod
            /\ \A j \in 1 .. n : i < j /\ Is(ps[j], "prod") => ps[i].val <= ps[j].val
            /\ \/ ps[i].val <= nicC + RxSize
               \/ \E j \in 1 .. n : j < i /\ Is(ps[j], "cqCons") /\ ps[i].val <= ps[j].val + RxSize
      /\ \A i \in 1 .. n : Is(ps[i], "cqCons") =>
            /\ nicC <= ps[i].val /\ ps[i].val <= cons
            /\ \A j \in 1 .. n : i < j /\ Is(ps[j], "cqCons") => ps[i].val <= ps[j].val
      /\ nicP <= nicC + RxSize /\ nicC <= cons
      /\ nicC = cons \/ \E j \in 1 .. n : Is(ps[j], "cqCons") /\ ps[j].val = cons
  BY <1>1 DEF WritesOf
<1>8. w.val \in Nat /\ prod <= prod2 /\ cons <= cons2
  BY <1>3, <1>4
<1>9. Is(w, "prod") =>
        /\ nicP <= w.val /\ w.val = prod2
        /\ \A i \in 1 .. n : Is(ps[i], "prod") => ps[i].val <= w.val
        /\ \/ w.val <= nicC + RxSize
           \/ \E j \in 1 .. n : Is(ps[j], "cqCons") /\ w.val <= ps[j].val + RxSize
  <2> SUFFICES ASSUME Is(w, "prod")
               PROVE  /\ nicP <= w.val /\ w.val = prod2
                      /\ \A i \in 1 .. n : Is(ps[i], "prod") => ps[i].val <= w.val
                      /\ \/ w.val <= nicC + RxSize
                         \/ \E j \in 1 .. n : Is(ps[j], "cqCons") /\ w.val <= ps[j].val + RxSize
    OBVIOUS
  <2>1. w.val = prod2 /\ prod <= prod2 /\ prod2 <= cons + RxSize
    BY <1>5
  <2>2. \A i \in 1 .. n : ps[i].val \in Nat
    <3>1. \A i \in 1 .. n : ps[i] \in RegWrite
      BY <1>1, ElementOfSeq
    <3> QED  BY <3>1 DEF RegWrite
  <2>3. nicC = cons \/ \E j \in 1 .. n : Is(ps[j], "cqCons") /\ ps[j].val = cons
    BY <1>7
  <2>4. nicP <= w.val
    BY <2>1
  <2>5. \A i \in 1 .. n : Is(ps[i], "prod") => ps[i].val <= w.val
    BY <1>7, <1>8, <2>1, <2>2
  <2>6. w.val <= cons + RxSize
    BY <2>1
  <2> QED  BY <2>1, <2>3, <2>4, <2>5, <2>6
<1>10. Is(w, "cqCons") =>
        /\ nicC <= w.val /\ w.val = cons2
        /\ \A i \in 1 .. n : Is(ps[i], "cqCons") => ps[i].val <= w.val
  <2>1. \A i \in 1 .. n : ps[i].val \in Nat
    BY <1>3, <1>4
  <2> QED  BY <1>5, <1>7, <2>1
<1>11. ASSUME NEW i \in 1 .. n + 1, Is(qs[i], "prod")
       PROVE  /\ nicP <= qs[i].val /\ qs[i].val <= prod2
              /\ \A j \in 1 .. n + 1 : i < j /\ Is(qs[j], "prod") => qs[i].val <= qs[j].val
              /\ \/ qs[i].val <= nicC + RxSize
                 \/ \E j \in 1 .. n + 1 :
                        j < i /\ Is(qs[j], "cqCons") /\ qs[i].val <= qs[j].val + RxSize
  <2>1. CASE i = n + 1
    <3>1. qs[i] = w /\ \A j \in 1 .. n + 1 : ~(i < j)
      BY <1>3, <2>1
    <3>2. \A j \in 1 .. n : j < i /\ j \in 1 .. n + 1 /\ qs[j] = ps[j]
      BY <1>3, <2>1
    <3>3. nicP <= w.val /\ w.val = prod2
      BY <1>9, <1>11, <3>1
    <3>4. prod2 <= prod2
      OBVIOUS
    <3>5. \/ w.val <= nicC + RxSize
          \/ \E j \in 1 .. n + 1 : j < i /\ Is(qs[j], "cqCons") /\ w.val <= qs[j].val + RxSize
      BY <1>9, <1>11, <3>1, <3>2
    <3> QED  BY <3>1, <3>3, <3>4, <3>5
  <2>2. CASE i \in 1 .. n
    <3>1. qs[i] = ps[i] /\ ps[i].val \in Nat
      BY <1>3, <1>4, <2>2
    <3>2. \A j \in 1 .. n : j \in 1 .. n + 1 /\ qs[j] = ps[j]
      BY <1>3
    <3>3. nicP <= ps[i].val /\ ps[i].val <= prod
      BY <1>7, <1>11, <2>2, <3>1
    <3>4. \A j \in 1 .. n + 1 : i < j /\ Is(qs[j], "prod") => ps[i].val <= qs[j].val
      <4> SUFFICES ASSUME NEW j \in 1 .. n + 1, i < j, Is(qs[j], "prod")
                   PROVE  ps[i].val <= qs[j].val
        OBVIOUS
      <4>1. CASE j \in 1 .. n
        BY <1>7, <1>11, <2>2, <3>1, <3>2, <4>1
      <4>2. CASE j = n + 1
        BY <1>3, <1>9, <1>11, <2>2, <3>1, <4>2
      <4> QED  BY <1>6, <4>1, <4>2
    <3>5. \/ ps[i].val <= nicC + RxSize
          \/ \E j \in 1 .. n : j < i /\ Is(ps[j], "cqCons") /\ ps[i].val <= ps[j].val + RxSize
      BY <1>7, <1>11, <2>2, <3>1
    <3>6. \/ ps[i].val <= nicC + RxSize
          \/ \E j \in 1 .. n + 1 : j < i /\ Is(qs[j], "cqCons") /\ ps[i].val <= qs[j].val + RxSize
      BY <3>2, <3>5
    <3> QED  BY <1>8, <3>1, <3>3, <3>4, <3>6
  <2> QED  BY <1>6, <2>1, <2>2
<1>12. ASSUME NEW i \in 1 .. n + 1, Is(qs[i], "cqCons")
       PROVE  /\ nicC <= qs[i].val /\ qs[i].val <= cons2
              /\ \A j \in 1 .. n + 1 : i < j /\ Is(qs[j], "cqCons") => qs[i].val <= qs[j].val
  <2>1. CASE i = n + 1
    <3>1. qs[i] = w /\ \A j \in 1 .. n + 1 : ~(i < j)
      BY <1>3, <2>1
    <3> QED  BY <1>8, <1>10, <1>12, <3>1
  <2>2. CASE i \in 1 .. n
    <3>1. qs[i] = ps[i] /\ ps[i].val \in Nat
      BY <1>3, <1>4, <2>2
    <3>2. nicC <= ps[i].val /\ ps[i].val <= cons
      BY <1>7, <1>12, <2>2, <3>1
    <3>3. \A j \in 1 .. n + 1 : i < j /\ Is(qs[j], "cqCons") => ps[i].val <= qs[j].val
      <4> SUFFICES ASSUME NEW j \in 1 .. n + 1, i < j, Is(qs[j], "cqCons")
                   PROVE  ps[i].val <= qs[j].val
        OBVIOUS
      <4>1. CASE j \in 1 .. n
        BY <1>3, <1>7, <1>12, <2>2, <3>1, <4>1
      <4>2. CASE j = n + 1
        BY <1>3, <1>10, <1>12, <2>2, <3>1, <4>2
      <4> QED  BY <1>6, <4>1, <4>2
    <3> QED  BY <1>8, <3>1, <3>2, <3>3
  <2> QED  BY <1>6, <2>1, <2>2
<1>13. nicC <= cons2 /\ (nicC = cons2 \/ \E j \in 1 .. n + 1 : Is(qs[j], "cqCons") /\ qs[j].val = cons2)
  <2>1. CASE Is(w, "cqCons")
    <3>1. n + 1 \in 1 .. n + 1 /\ qs[n + 1].val = cons2 /\ Is(qs[n + 1], "cqCons")
      BY <1>3, <1>10, <2>1
    <3> QED  BY <1>7, <1>8, <3>1
  <2>2. CASE Is(w, "prod")
    <3>1. cons2 = cons
      BY <1>5, <2>2
    <3>2. \A j \in 1 .. n : j \in 1 .. n + 1 /\ qs[j] = ps[j]
      BY <1>3
    <3> QED  BY <1>7, <3>1, <3>2
  <2> QED  BY <2>1, <2>2
<1>14. WritesOf(qs, nicP, nicC, prod2, cons2)
  BY <1>3, <1>7, <1>11, <1>12, <1>13 DEF WritesOf
<1> QED  BY <1>2, <1>14

(* A write arrives.                                                        *)
LEMMA WritesShrink ==
    ASSUME NEW ps \in Seq(RegWrite), ps # <<>>, NEW nicP \in Nat, NEW nicC \in Nat,
           NEW prod \in Nat, NEW cons \in Nat, WritesOf(ps, nicP, nicC, prod, cons),
           NEW nicP2, NEW nicC2,
           \/ Head(ps).reg = "prod" /\ nicP2 = Head(ps).val /\ nicC2 = nicC
           \/ Head(ps).reg = "cqCons" /\ nicC2 = Head(ps).val /\ nicP2 = nicP
    PROVE  /\ Tail(ps) \in Seq(RegWrite) /\ WritesOf(Tail(ps), nicP2, nicC2, prod, cons)
           /\ nicP2 \in Nat /\ nicC2 \in Nat /\ nicP <= nicP2
           /\ nicP <= prod => nicP2 <= prod
<1>1. PICK n \in Nat : n + 1 = Len(ps) /\ DOMAIN ps = 1 .. n + 1
  <2>1. Len(ps) \in Nat \ {0} /\ DOMAIN ps = 1 .. Len(ps)
    BY LenProperties, EmptySeq
  <2>2. Len(ps) - 1 \in Nat /\ (Len(ps) - 1) + 1 = Len(ps)
    BY <2>1
  <2> QED  BY <2>1, <2>2
<1>2. PICK qs \in Seq(RegWrite) : qs = Tail(ps)
  BY HeadTailProperties
<1>3. /\ DOMAIN qs = 1 .. n /\ Head(ps) = ps[1]
      /\ \A i \in 1 .. n : qs[i] = ps[i + 1] /\ i + 1 \in 1 .. n + 1
  <2>1. Len(qs) = n /\ \A i \in 1 .. n : qs[i] = ps[i + 1]
    BY <1>1, <1>2, HeadTailProperties
  <2> QED  BY <2>1, LenProperties
<1>4. \A i \in 1 .. n + 1 : ps[i].val \in Nat
  <2>1. \A i \in 1 .. n + 1 : ps[i] \in RegWrite
    BY <1>1, ElementOfSeq
  <2> QED  BY <2>1 DEF RegWrite
<1>5. PICK v \in Nat : v = ps[1].val
  BY <1>4
<1>6. 1 \in 1 .. n + 1 /\ \A j \in 1 .. n : 1 < j + 1 /\ j + 1 \in 1 .. n + 1
  OBVIOUS
<1>7. \A j \in 1 .. n + 1 : j = 1 \/ (j - 1 \in 1 .. n /\ (j - 1) + 1 = j)
  OBVIOUS
<1>8. /\ \A i \in 1 .. n + 1 : Is(ps[i], "prod") =>
            /\ nicP <= ps[i].val /\ ps[i].val <= prod
            /\ \A j \in 1 .. n + 1 : i < j /\ Is(ps[j], "prod") => ps[i].val <= ps[j].val
            /\ \/ ps[i].val <= nicC + RxSize
               \/ \E j \in 1 .. n + 1 :
                    j < i /\ Is(ps[j], "cqCons") /\ ps[i].val <= ps[j].val + RxSize
      /\ \A i \in 1 .. n + 1 : Is(ps[i], "cqCons") =>
            /\ nicC <= ps[i].val /\ ps[i].val <= cons
            /\ \A j \in 1 .. n + 1 : i < j /\ Is(ps[j], "cqCons") => ps[i].val <= ps[j].val
      /\ nicP <= nicC + RxSize /\ nicC <= cons
      /\ nicC = cons \/ \E j \in 1 .. n + 1 : Is(ps[j], "cqCons") /\ ps[j].val = cons
  BY <1>1 DEF WritesOf
<1>9. ~(Is(ps[1], "prod") /\ Is(ps[1], "cqCons"))
  BY DEF Is
<1>10. \/ Is(ps[1], "prod") /\ nicP2 = v /\ nicC2 = nicC
       \/ Is(ps[1], "cqCons") /\ nicC2 = v /\ nicP2 = nicP
  BY <1>3, <1>5 DEF Is
<1>11. /\ nicP2 \in Nat /\ nicC2 \in Nat /\ nicP <= nicP2 /\ nicC <= nicC2
       /\ nicC2 <= cons /\ nicP2 <= nicC2 + RxSize
       /\ nicP <= prod => nicP2 <= prod
  <2>1. CASE Is(ps[1], "prod") /\ nicP2 = v /\ nicC2 = nicC
    <3>1. nicP <= v /\ v <= prod
      BY <1>5, <1>6, <1>8, <2>1
    <3>2. v <= nicC + RxSize
      BY <1>5, <1>6, <1>8, <2>1
    <3> QED  BY <1>8, <2>1, <3>1, <3>2
  <2>2. CASE Is(ps[1], "cqCons") /\ nicC2 = v /\ nicP2 = nicP
    <3>1. nicC <= v /\ v <= cons
      BY <1>5, <1>6, <1>8, <2>2
    <3>2. nicP <= nicC + RxSize
      BY <1>8
    <3> QED  BY <2>2, <3>1, <3>2, Sizes
  <2> QED  BY <1>10, <2>1, <2>2
<1>12. ASSUME NEW i \in 1 .. n, Is(qs[i], "prod")
       PROVE  /\ nicP2 <= qs[i].val /\ qs[i].val <= prod
              /\ \A j \in 1 .. n : i < j /\ Is(qs[j], "prod") => qs[i].val <= qs[j].val
              /\ \/ qs[i].val <= nicC2 + RxSize
                 \/ \E j \in 1 .. n : j < i /\ Is(qs[j], "cqCons") /\ qs[i].val <= qs[j].val + RxSize
  <2>1. PICK u \in Nat : u = qs[i].val /\ u = ps[i + 1].val /\ Is(ps[i + 1], "prod") /\ i + 1 \in 1 .. n + 1
    BY <1>3, <1>4, <1>12
  <2>2. nicP <= u /\ u <= prod
    BY <1>8, <2>1
  <2>3. nicP2 <= u
    <3>1. CASE Is(ps[1], "prod")
      BY <1>5, <1>6, <1>8, <1>9, <1>10, <2>1, <3>1
    <3>2. CASE ~Is(ps[1], "prod")
      BY <1>10, <2>2, <3>2
    <3> QED  BY <3>1, <3>2
  <2>4. \A j \in 1 .. n : i < j /\ Is(qs[j], "prod") => u <= qs[j].val
    <3> SUFFICES ASSUME NEW j \in 1 .. n, i < j, Is(qs[j], "prod") PROVE u <= qs[j].val
      OBVIOUS
    <3>1. qs[j] = ps[j + 1] /\ j + 1 \in 1 .. n + 1 /\ i + 1 < j + 1
      BY <1>3
    <3> QED  BY <1>8, <2>1, <3>1
  <2>5. \/ u <= nicC2 + RxSize
        \/ \E j \in 1 .. n : j < i /\ Is(qs[j], "cqCons") /\ u <= qs[j].val + RxSize
    <3>1. CASE u <= nicC + RxSize
      BY <1>11, <3>1, Sizes
    <3>2. CASE \E j \in 1 .. n + 1 : j < i + 1 /\ Is(ps[j], "cqCons") /\ u <= ps[j].val + RxSize
      <4>1. PICK j \in 1 .. n + 1 : j < i + 1 /\ Is(ps[j], "cqCons") /\ u <= ps[j].val + RxSize
        BY <3>2
      <4>2. CASE j = 1
        BY <1>5, <1>9, <1>10, <4>1, <4>2
      <4>3. CASE j - 1 \in 1 .. n /\ (j - 1) + 1 = j
        <5>1. qs[j - 1] = ps[j] /\ j - 1 < i
          BY <1>3, <4>1, <4>3
        <5> QED  BY <4>1, <4>3, <5>1
      <4> QED  BY <1>7, <4>2, <4>3
    <3> QED  BY <1>8, <2>1, <3>1, <3>2
  <2> QED  BY <2>1, <2>2, <2>3, <2>4, <2>5
<1>13. ASSUME NEW i \in 1 .. n, Is(qs[i], "cqCons")
       PROVE  /\ nicC2 <= qs[i].val /\ qs[i].val <= cons
              /\ \A j \in 1 .. n : i < j /\ Is(qs[j], "cqCons") => qs[i].val <= qs[j].val
  <2>1. PICK u \in Nat : u = qs[i].val /\ u = ps[i + 1].val /\ Is(ps[i + 1], "cqCons") /\ i + 1 \in 1 .. n + 1
    BY <1>3, <1>4, <1>13
  <2>2. nicC <= u /\ u <= cons
    BY <1>8, <2>1
  <2>3. nicC2 <= u
    <3>1. CASE Is(ps[1], "cqCons")
      BY <1>5, <1>6, <1>8, <1>9, <1>10, <2>1, <3>1
    <3>2. CASE ~Is(ps[1], "cqCons")
      BY <1>10, <2>2, <3>2
    <3> QED  BY <3>1, <3>2
  <2>4. \A j \in 1 .. n : i < j /\ Is(qs[j], "cqCons") => u <= qs[j].val
    <3> SUFFICES ASSUME NEW j \in 1 .. n, i < j, Is(qs[j], "cqCons") PROVE u <= qs[j].val
      OBVIOUS
    <3>1. qs[j] = ps[j + 1] /\ j + 1 \in 1 .. n + 1 /\ i + 1 < j + 1
      BY <1>3
    <3> QED  BY <1>8, <2>1, <3>1
  <2> QED  BY <2>1, <2>2, <2>3, <2>4
<1>14. nicC2 = cons \/ \E j \in 1 .. n : Is(qs[j], "cqCons") /\ qs[j].val = cons
  <2>1. CASE nicC = cons
    BY <1>11, <2>1
  <2>2. CASE \E j \in 1 .. n + 1 : Is(ps[j], "cqCons") /\ ps[j].val = cons
    <3>1. PICK j \in 1 .. n + 1 : Is(ps[j], "cqCons") /\ ps[j].val = cons
      BY <2>2
    <3>2. CASE j = 1
      BY <1>5, <1>9, <1>10, <3>1, <3>2
    <3>3. CASE j - 1 \in 1 .. n /\ (j - 1) + 1 = j
      <4>1. qs[j - 1] = ps[j]
        BY <1>3, <3>3
      <4> QED  BY <3>1, <3>3, <4>1
    <3> QED  BY <1>7, <3>2, <3>3
  <2> QED  BY <1>8, <2>1, <2>2
<1>15. WritesOf(qs, nicP2, nicC2, prod, cons)
  BY <1>3, <1>11, <1>12, <1>13, <1>14 DEF WritesOf
<1> QED  BY <1>2, <1>11, <1>15

-----------------------------------------------------------------------------
(* The steps.  What the sequences of the state have in common.             *)
LEMMA Lengths ==
    ASSUME IInv
    PROVE  /\ Len(completed) \in Nat /\ Len(completions) = Len(completed)
           /\ Len(fetching) \in Nat /\ fetched \in Nat /\ Begun \in Nat
           /\ Begun + Len(fetching) = fetched /\ Len(completed) <= Begun
           /\ cqCons \in Nat /\ cqCons <= Len(completed)
           /\ rxProd \in Nat /\ Begun <= rxProd /\ fetched <= rxProd
<1>1. Len(completed) \in Nat /\ Len(fetching) \in Nat
  BY LenProperties DEF IInv, Typing
<1>2. Len(completions) = Len(completed)
  BY DEF IInv, RecordsOf
<1> QED  BY <1>1, <1>2 DEF IInv, Typing, InOrder, Begun

(* The records that process_rx_cq finds are those of packets outstanding,  *)
(* each in the buffer of its slot.                                         *)
ToRead == Len(completed) - cqCons
NextRead(j) == completed[cqCons + j]

LEMMA UnreadFacts ==
    ASSUME IInv
    PROVE  /\ ToRead \in Nat /\ DOMAIN Unread = 1 .. ToRead
           /\ cqCons + ToRead = Len(completed) /\ cqCons \in Nat
           /\ \A j \in 1 .. ToRead :
                /\ NextRead(j) \in Nat /\ NextRead(j) - 1 \in Out
                /\ Unread[j] = Slot(NextRead(j) - 1)
                /\ Slot(NextRead(j) - 1) \in SlotRange
                /\ data[rxInfo[Unread[j]]] = NextRead(j)
           /\ \A i, j \in 1 .. ToRead : NextRead(i) = NextRead(j) => i = j
<1>1. PICK n \in Nat, k \in Nat : n = Len(completed) /\ k = ToRead /\ cqCons + k = n
  <2>1. Len(completed) - cqCons \in Nat /\ cqCons + (Len(completed) - cqCons) = Len(completed)
    BY Lengths
  <2> QED  BY <2>1, Lengths DEF ToRead
<1>2. /\ cqCons \in Nat /\ rxProd \in Nat /\ Begun \in Nat /\ Begun <= rxProd
      /\ Len(completions) = n
  BY <1>1, Lengths
<1>3. \A j \in 1 .. n :
        /\ completed[j] \in 1 .. Begun
        /\ completions[j] = Slot(completed[j] - 1)
        /\ \A i \in 1 .. n : i < j => completed[i] < completed[j]
  BY <1>1 DEF IInv, RecordsOf
<1>4. \A j \in 1 .. n : completed[j] \in Nat /\ completed[j] - 1 \in 0 .. rxProd - 1
  BY <1>2, <1>3
<1>5. \A j \in 1 .. k : cqCons + j \in 1 .. n /\ cqCons + j \in cqCons + 1 .. n
  BY <1>1, <1>2
<1>6. /\ DOMAIN Unread = 1 .. k
      /\ \A j \in 1 .. k : Unread[j] = completions[cqCons + j]
  <2>1. \A j \in cqCons + 1 .. n : completions[j] \in SlotRange
    <3>1. \A j \in cqCons + 1 .. n : j \in 1 .. Len(completions)
      BY <1>2
    <3> QED  BY <3>1, ElementOfSeq DEF IInv, Typing
  <2>2. PICK u : u = SubSeq(completions, cqCons + 1, n)
    OBVIOUS
  <2>3. /\ u \in Seq(SlotRange)
        /\ Len(u) = IF cqCons + 1 <= n THEN n - (cqCons + 1) + 1 ELSE 0
        /\ \A j \in 1 .. n - (cqCons + 1) + 1 : u[j] = completions[(cqCons + 1) + j - 1]
    <3>1. cqCons + 1 \in Int /\ n \in Int
      BY <1>2
    <3> QED  BY <2>1, <2>2, <3>1, SubSeqProperties
  <2>4. Len(u) = k /\ n - (cqCons + 1) + 1 = k
    BY <1>1, <1>2, <2>3
  <2>5. \A j \in 1 .. k : (cqCons + 1) + j - 1 = cqCons + j
    BY <1>2
  <2>6. u = Unread
    BY <1>2, <2>2 DEF Unread
  <2>7. DOMAIN u = 1 .. k
    BY <2>3, <2>4, LenProperties
  <2> QED  BY <2>3, <2>4, <2>5, <2>6, <2>7
<1>7. ASSUME NEW j \in 1 .. k
      PROVE  /\ NextRead(j) \in Nat /\ NextRead(j) - 1 \in Out
             /\ Unread[j] = Slot(NextRead(j) - 1)
             /\ Slot(NextRead(j) - 1) \in SlotRange
             /\ data[rxInfo[Unread[j]]] = NextRead(j)
  <2>1. NextRead(j) = completed[cqCons + j] /\ cqCons + j \in 1 .. n
    BY <1>5 DEF NextRead
  <2>2. ASSUME NEW i \in 1 .. cqCons PROVE completed[i] # (NextRead(j) - 1) + 1
    <3>1. i \in 1 .. n /\ i < cqCons + j
      BY <1>1, <1>2
    <3>2. completed[i] < completed[cqCons + j] /\ completed[i] \in Nat
      BY <1>3, <1>4, <2>1, <3>1
    <3> QED  BY <1>4, <2>1, <3>2
  <2>3. NextRead(j) \in Nat /\ NextRead(j) - 1 \in 0 .. rxProd - 1 /\ NextRead(j) - 1 \in Nat
    BY <1>4, <2>1
  <2>4. NextRead(j) - 1 \in Out
    BY <2>2, <2>3 DEF Out, Outstanding
  <2>5. Unread[j] = Slot(NextRead(j) - 1)
    BY <1>3, <1>6, <2>1
  <2>6. data[rxInfo[Slot(NextRead(j) - 1)]] = NextRead(j)
    BY <1>1, <1>5, <2>1 DEF IInv, Written
  <2>7. Slot(NextRead(j) - 1) \in SlotRange
    BY <2>3, SlotType
  <2> QED  BY <2>3, <2>4, <2>5, <2>6, <2>7
<1>8. ASSUME NEW i \in 1 .. k, NEW j \in 1 .. k, NextRead(i) = NextRead(j) PROVE i = j
  <2>1. cqCons + i \in 1 .. n /\ cqCons + j \in 1 .. n
        /\ completed[cqCons + i] = completed[cqCons + j]
        /\ completed[cqCons + i] \in Nat
    BY <1>4, <1>5, <1>8 DEF NextRead
  <2>2. ~(cqCons + i < cqCons + j) /\ ~(cqCons + j < cqCons + i)
    BY <1>3, <2>1
  <2> QED  BY <1>2, <2>2
<1> QED  BY <1>1, <1>2, <1>6, <1>7, <1>8

(* The handler takes the packets and gives their buffers back.             *)
LEMMA ReadKeeps ==
    ASSUME IInv, ReadCompletions
    PROVE  IInv'
<1>1. PICK k \in Nat : k = ToRead
  BY UnreadFacts
<1>2. PICK from \in Nat : from = cqCons
  BY UnreadFacts
<1>3. /\ DOMAIN Unread = 1 .. k /\ from + k = Len(completed)
      /\ \A j \in 1 .. k :
            /\ NextRead(j) \in Nat /\ NextRead(j) - 1 \in Out
            /\ Unread[j] = Slot(NextRead(j) - 1)
            /\ Slot(NextRead(j) - 1) \in SlotRange
            /\ data[rxInfo[Unread[j]]] = NextRead(j)
      /\ \A i, j \in 1 .. k : NextRead(i) = NextRead(j) => i = j
  BY <1>1, <1>2, UnreadFacts
<1>4. PICK at : at = [j \in 1 .. k |-> NextRead(j) - 1]
  OBVIOUS
<1>5. /\ at \in [1 .. k -> Out]
      /\ \A j \in 1 .. k : at[j] = NextRead(j) - 1 /\ Unread[j] = Slot(at[j])
      /\ \A i, j \in 1 .. k : at[i] = at[j] => i = j
  <2>1. \A j \in 1 .. k : at[j] = NextRead(j) - 1
    BY <1>4
  <2>2. at \in [1 .. k -> Out]
    BY <1>3, <1>4
  <2>3. ASSUME NEW i \in 1 .. k, NEW j \in 1 .. k, at[i] = at[j] PROVE i = j
    <3>1. NextRead(i) = NextRead(j)
      BY <1>3, <2>1, <2>3
    <3> QED  BY <1>3, <3>1
  <2>4. \A j \in 1 .. k : Unread[j] = Slot(at[j])
    BY <1>3, <2>1
  <2> QED  BY <2>1, <2>2, <2>3, <2>4
<1>6. PICK lenF \in Nat, lenP \in Nat : lenF = Len(fetching) /\ lenP = Len(freePackets)
  BY LenProperties DEF IInv, Typing
<1>7. /\ rxProd \in Nat /\ rxCons \in Nat /\ rxCons <= from
      /\ (from + k) + lenF <= fetched /\ fetched <= nicProd /\ nicProd <= rxProd
      /\ rxProd <= rxCons + RxSize /\ lenP + rxProd = RxSize + from
      /\ fetched \in Nat /\ nicProd \in Nat /\ nicCqCons \in Nat
  BY <1>2, <1>3, <1>6 DEF IInv, Typing, InOrder, FreeCounted
<1>8. PICK given : given = Given(rxInfo, at, k)
  OBVIOUS
<1>9. freePackets' = freePackets \o given
  <2>1. freePackets' = freePackets \o [j \in DOMAIN Unread |-> rxInfo[Unread[j]]]
    BY DEF ReadCompletions
  <2>2. [j \in DOMAIN Unread |-> rxInfo[Unread[j]]] = [j \in 1 .. k |-> rxInfo[Slot(at[j])]]
    BY <1>3, <1>5
  <2> QED  BY <1>8, <2>1, <2>2 DEF Given
<1>10. PICK info2, all : info2 = rxInfo' /\ all = freePackets \o given
  OBVIOUS
<1>11. info2 \in [SlotRange -> (1 .. RxSize) \union {None}] /\ Emptied(rxInfo, info2, at, k)
  <2>1. info2 = [i \in SlotRange |-> IF i \in Freed THEN None ELSE rxInfo[i]]
    BY <1>10 DEF ReadCompletions
  <2>2. \A i : i \in Freed <=> \E j \in 1 .. k : i = Slot(at[j])
    <3>1. PICK u : u = Unread /\ DOMAIN u = 1 .. k /\ \A j \in 1 .. k : u[j] = Slot(at[j])
      BY <1>3, <1>5
    <3>2. Freed = {u[j] : j \in 1 .. k}
      BY <3>1 DEF Freed, ToSet
    <3> QED  BY <3>1, <3>2
  <2>3. rxInfo \in [SlotRange -> (1 .. RxSize) \union {None}]
    BY DEF IInv, Typing
  <2> QED  BY <2>1, <2>2, <2>3 DEF Emptied
<1>12. /\ all \in Seq(1 .. RxSize)
       /\ Len(all) = Len(freePackets) + k
       /\ RingOf(info2, desc, Without(Out, at, k))
       /\ PoolOf(all, info2)
       /\ \A p \in Without(Out, at, k) : info2[Slot(p)] = rxInfo[Slot(p)]
  <2>1. /\ freePackets \in Seq(1 .. RxSize)
        /\ rxInfo \in [SlotRange -> (1 .. RxSize) \union {None}]
        /\ RingOf(rxInfo, desc, Out) /\ PoolOf(freePackets, rxInfo)
    BY DEF IInv, Typing
  <2>2. rxCons \in Nat /\ \A p \in Out : p \in Nat /\ p \in Ring(rxCons)
    BY OutFacts
  <2>3. Passed(freePackets, all, rxInfo, info2, desc, Out, at, k)
    BY <1>5, <1>8, <1>10, <1>11, <2>1, <2>2, PoolGets
  <2> QED  BY <2>3 DEF Passed
<1>13. cqCons' = from + k /\ UNCHANGED <<rxProd, rxCons, desc, allocated, taken, nicVars>>
  <2>1. Len(completions) = from + k
    BY <1>3, Lengths
  <2> QED  BY <2>1 DEF ReadCompletions
<1>14. UNCHANGED <<rxProd, rxCons, desc, allocated, taken>>
       /\ UNCHANGED <<data, nicProd, fetching, fetched, arrived, completions, nicCqCons, completed>>
  BY <1>13 DEF nicVars
<1>15. Out' = Without(Out, at, k)
  <2>1. PICK r \in Nat : r = rxProd
    BY <1>7
  <2>2. Out' = {p \in 0 .. r - 1 : \A i \in 1 .. from + k : completed[i] # p + 1}
    BY <1>13, <1>14, <2>1 DEF Out, Outstanding
  <2>3. Out = {p \in 0 .. r - 1 : \A i \in 1 .. from : completed[i] # p + 1}
    BY <1>2, <2>1 DEF Out, Outstanding
  <2>4. \A i \in 1 .. from + k : i \in 1 .. from \/ \E j \in 1 .. k : i = from + j
    <3>1. \A i \in 1 .. from + k : i \in 1 .. from \/ (i - from \in 1 .. k /\ i = from + (i - from))
      OBVIOUS
    <3> QED  BY <3>1
  <2>5. /\ \A i \in 1 .. from : i \in 1 .. from + k
        /\ \A j \in 1 .. k : from + j \in 1 .. from + k
    OBVIOUS
  <2>6. \A j \in 1 .. k : completed[from + j] = NextRead(j) /\ NextRead(j) \in Nat
    BY <1>2, <1>3 DEF NextRead
  <2>7. \A p \in 0 .. r - 1, j \in 1 .. k : completed[from + j] # p + 1 <=> p # at[j]
    <3> SUFFICES ASSUME NEW p \in 0 .. r - 1, NEW j \in 1 .. k
                 PROVE  completed[from + j] # p + 1 <=> p # at[j]
      OBVIOUS
    <3>1. PICK x \in Nat : x = completed[from + j] /\ at[j] = x - 1
      BY <1>5, <2>6
    <3>2. x # p + 1 <=> p # x - 1
      OBVIOUS
    <3> QED  BY <3>1, <3>2
  <2>8. \A p \in 0 .. r - 1 :
            (\A i \in 1 .. from + k : completed[i] # p + 1) <=>
            (\A i \in 1 .. from : completed[i] # p + 1) /\ \A j \in 1 .. k : p # at[j]
    BY <2>4, <2>5, <2>7
  <2> QED  BY <2>2, <2>3, <2>8 DEF Without
<1>16. PICK w \in RegWrite : w = [reg |-> "cqCons", val |-> from + k] /\ posted' = Append(posted, w)
  <2>1. [reg |-> "cqCons", val |-> from + k] \in RegWrite
    BY DEF RegWrite
  <2>2. CqConsWritten = from + k
    BY <1>3, Lengths DEF CqConsWritten
  <2> QED  BY <2>1, <2>2 DEF ReadCompletions
<1>17. posted' \in Seq(RegWrite) /\ WritesOf(posted, nicProd, nicCqCons, rxProd, from + k)'
  <2>1. posted \in Seq(RegWrite) /\ WritesOf(posted, nicProd, nicCqCons, rxProd, from)
    BY <1>2 DEF IInv, Typing
  <2>2. Is(w, "cqCons") /\ w.val = from + k /\ from <= from + k
    BY <1>16 DEF Is
  <2>3. Append(posted, w) \in Seq(RegWrite)
        /\ WritesOf(Append(posted, w), nicProd, nicCqCons, rxProd, from + k)
    BY <1>7, <2>1, <2>2, WritesGrow
  <2> QED  BY <1>14, <1>16, <2>3
<1>18. /\ pktQueue' \in Seq(Nat) /\ Len(taken) + Len(pktQueue') = from + k
       /\ PartOf(pktQueue', completed, Len(taken))
  <2>1. PICK a \in Nat, b \in Nat : a = Len(taken) /\ b = Len(pktQueue) /\ a + b = from
    BY <1>2, LenProperties DEF IInv, Typing, Delivered
  <2>2. pktQueue \in Seq(Nat) /\ \A i \in 1 .. b : pktQueue[i] = completed[a + i]
    BY <2>1 DEF IInv, Typing, Delivered, PartOf
  <2>3. PICK new : new = [j \in 1 .. k |-> NextRead(j)]
    OBVIOUS
  <2>4. new \in Seq(Nat) /\ Len(new) = k /\ \A j \in 1 .. k : new[j] = completed[from + j]
    <3>1. new \in [1 .. k -> Nat]
      BY <1>3, <2>3
    <3> QED  BY <1>2, <2>3, <3>1, SeqOfFunction DEF NextRead
  <2>5. PICK q \in Seq(Nat) : /\ q = pktQueue' /\ Len(q) = b + k
                              /\ \A i \in 1 .. b : q[i] = pktQueue[i]
                              /\ \A j \in 1 .. k : q[b + j] = new[j]
    <3>1. Packets = new
      BY <1>3, <2>3 DEF Packets
    <3>2. pktQueue' = pktQueue \o new
      BY <3>1 DEF ReadCompletions
    <3>3. /\ pktQueue \in Seq(Nat) /\ b = Len(pktQueue)
          /\ new \in Seq(Nat) /\ k = Len(new)
      BY <2>1, <2>2, <2>4
    <3>4. pktQueue \o new \in Seq(Nat) /\ JoinOf(pktQueue \o new, pktQueue, new, b, k)
      BY <3>3, Joined
    <3> QED  BY <3>2, <3>4 DEF JoinOf
  <2>6. ASSUME NEW i \in 1 .. b + k PROVE q[i] = completed[a + i]
    <3>1. CASE i \in 1 .. b
      BY <2>2, <2>5, <3>1
    <3>2. CASE i \notin 1 .. b
      <4>1. i - b \in 1 .. k /\ b + (i - b) = i /\ from + (i - b) = a + i
        BY <2>1, <3>2
      <4>2. PICK j \in 1 .. k : b + j = i /\ from + j = a + i
        BY <4>1
      <4> QED  BY <2>4, <2>5, <4>2
    <3> QED  BY <3>1, <3>2
  <2>7. a + (b + k) = from + k
    BY <2>1
  <2> QED  BY <2>1, <2>5, <2>6, <2>7 DEF PartOf
<1>19. Typing'
  <2>1. freePackets' \in Seq(1 .. RxSize) /\ cqCons' \in Nat
    BY <1>9, <1>10, <1>12, <1>13
  <2>2. rxInfo' \in [SlotRange -> (1 .. RxSize) \union {None}]
    BY <1>10, <1>11
  <2> QED  BY <1>14, <1>17, <1>18, <2>1, <2>2 DEF IInv, Typing
<1>20. InOrder'
  <2>1. rxCons <= from + k /\ from + k <= Len(completed)
    BY <1>3, <1>7
  <2> QED  BY <1>13, <1>14, <2>1 DEF IInv, InOrder
<1>21. RingOf(rxInfo, desc, Out)' /\ Ahead(Out, rxCons)' /\ PoolOf(freePackets, rxInfo)'
  <2>1. Ahead(Without(Out, at, k), rxCons)
    BY DEF IInv, Ahead, Without
  <2> QED  BY <1>9, <1>10, <1>12, <1>14, <1>15, <2>1
<1>22. FreeCounted'
  <2>1. Len(freePackets') = lenP + k
    BY <1>6, <1>9, <1>10, <1>12
  <2> QED  BY <1>7, <1>13, <1>14, <2>1, Sizes DEF FreeCounted
<1>23. RecordsOf(completions, completed, Begun)'
  BY <1>14 DEF IInv, Begun
<1>24. FetchesOf(fetching, rxInfo, Begun)'
  <2>1. \A j \in 1 .. lenF : info2[Slot(Begun + j - 1)] = rxInfo[Slot(Begun + j - 1)]
    <3> SUFFICES ASSUME NEW j \in 1 .. lenF PROVE Begun + j - 1 \in Out'
      BY <1>12, <1>15
    <3>1. PICK b \in Nat : b = Begun /\ b + lenF = fetched /\ from + k <= b
      BY <1>3, <1>6, Lengths
    <3>2. b + j - 1 \in 0 .. rxProd - 1
      BY <1>7, <3>1
    <3>3. \A i \in 1 .. from + k : completed[i] # (b + j - 1) + 1
      <4>1. \A i \in 1 .. from + k : completed[i] \in 1 .. b
        BY <1>3, <3>1 DEF IInv, RecordsOf
      <4> QED  BY <3>1, <4>1
    <3> QED  BY <1>13, <1>14, <3>1, <3>2, <3>3 DEF Out, Outstanding
  <2>2. FetchesOf(fetching, info2, Begun)
    BY <1>6, <2>1 DEF IInv, FetchesOf
  <2>3. Begun' = Begun
    BY <1>14 DEF Begun
  <2> QED  BY <1>10, <1>14, <2>2, <2>3
<1>25. Written(data, rxInfo, completed, cqCons)'
  <2>1. \A j \in (from + k) + 1 .. from + k : FALSE
    OBVIOUS
  <2>2. Written(data, info2, completed, from + k)
    BY <1>3, <2>1 DEF Written
  <2> QED  BY <1>10, <1>13, <1>14, <2>2
<1>26. Delivered'
  <2>1. PartOf(taken, completed, 0)
    BY DEF IInv, Delivered
  <2> QED  BY <1>13, <1>14, <1>18, <2>1 DEF Delivered
<1>27. WritesOf(posted, nicProd, nicCqCons, rxProd, cqCons)'
  BY <1>13, <1>17
<1> QED  BY <1>19, <1>20, <1>21, <1>22, <1>23, <1>24, <1>25, <1>26, <1>27 DEF IInv

(* A refill takes n buffers off the free list, none or as many as are      *)
(* missing; no buffer is made.                                             *)
Refills(n) ==
    /\ n <= Len(freePackets) /\ rxProd + n <= Advanced + RxSize
    /\ rxCons' = Advanced /\ rxProd' = rxProd + n
    /\ rxInfo' = Fill(rxInfo, AllocPkts(n), rxProd, n)
    /\ desc' = Fill(desc, AllocPkts(n), rxProd, n)
    /\ \A j \in 1 .. n : AllocPkts(n)[j] = freePackets[j]
    /\ freePackets' = SubSeq(freePackets, n + 1, Len(freePackets))
    /\ posted' = IF n = 0 THEN posted
                 ELSE Append(posted, [reg |-> "prod", val |-> rxProd + n])
    /\ UNCHANGED <<cqCons, recvVars, nicVars, allocated>>

LEMMA ReplenishFacts ==
    ASSUME IInv, Replenish
    PROVE  \E n \in Nat : Refills(n)
<1> DEFINE n == Refilled(Advanced)
<1>1. PICK m \in Nat : m = Len(freePackets) /\ freePackets \in Seq(1 .. RxSize)
  BY LenProperties DEF IInv, Typing
<1>2. PICK c \in Nat : c = Advanced /\ c \in rxCons .. rxProd /\ c <= cqCons
  BY Advances, OutFacts
<1>3. /\ rxProd \in Nat /\ rxCons \in Nat /\ cqCons \in Nat /\ RxSize \in Nat
      /\ m + rxProd = RxSize + cqCons /\ rxProd <= rxCons + RxSize
  BY <1>1, Sizes DEF IInv, Typing, InOrder, FreeCounted
<1>4. Missing(c) \in Nat /\ Missing(c) <= m /\ rxProd + Missing(c) = c + RxSize
  <2>1. rxProd <= c + RxSize /\ c <= rxProd /\ Missing(c) = RxSize - (rxProd - c)
    BY <1>2, <1>3 DEF Missing
  <2> QED  BY <1>2, <1>3, <2>1
<1>5. n \in Nat /\ n <= m /\ rxProd + n <= c + RxSize
  <2>1. n = 0 \/ n = Missing(c)
    BY <1>2 DEF Refilled
  <2>2. rxProd <= c + RxSize
    BY <1>2, <1>3
  <2> QED  BY <1>4, <2>1, <2>2, <1>3
<1>6. Smaller(n, m) = n
  BY <1>5 DEF Smaller
<1> HIDE DEF n
<1>7. /\ rxCons' = c /\ rxProd' = rxProd + n
      /\ rxInfo' = Fill(rxInfo, AllocPkts(n), rxProd, n)
      /\ desc' = Fill(desc, AllocPkts(n), rxProd, n)
      /\ freePackets' = SubSeq(freePackets, n + 1, m)
      /\ allocated' = allocated + (n - n)
      /\ data' = [b \in 1 .. allocated' |-> IF b \in DOMAIN data THEN data[b] ELSE 0]
      /\ posted' = IF n = 0 THEN posted
                   ELSE Append(posted, [reg |-> "prod", val |-> rxProd + n])
      /\ UNCHANGED <<cqCons, recvVars, nicProd, fetching, fetched>>
      /\ UNCHANGED <<arrived, completions, nicCqCons, completed>>
  BY <1>1, <1>2, <1>6 DEF Replenish, Fill, n
<1>8. allocated' = allocated /\ allocated = RxSize
  <2>1. allocated = RxSize
    BY DEF IInv, Typing
  <2> QED  BY <1>3, <1>5, <1>7, <2>1
<1>9. data' = data
  <2>1. data \in [1 .. RxSize -> Nat]
    BY DEF IInv, Typing
  <2> QED  BY <1>7, <1>8, <2>1
<1>10. UNCHANGED <<cqCons, recvVars, nicVars, allocated>>
  BY <1>7, <1>8, <1>9 DEF nicVars
<1>11. \A j \in 1 .. n : AllocPkts(n)[j] = freePackets[j]
  <2>1. PICK old : old = SubSeq(freePackets, 1, n)
    OBVIOUS
  <2>2. old \in Seq(1 .. RxSize) /\ Len(old) = n /\ \A j \in 1 .. n : old[j] = freePackets[j]
    <3>1. \A j \in 1 .. n : freePackets[j] \in 1 .. RxSize
      <4>1. \A j \in 1 .. n : j \in 1 .. Len(freePackets)
        BY <1>1, <1>5
      <4> QED  BY <1>1, <4>1, ElementOfSeq
    <3>2. /\ old \in Seq(1 .. RxSize)
          /\ Len(old) = IF 1 <= n THEN n - 1 + 1 ELSE 0
          /\ \A j \in 1 .. n - 1 + 1 : old[j] = freePackets[1 + j - 1]
      BY <1>5, <2>1, <3>1, SubSeqProperties
    <3>3. \A j \in 1 .. n : j \in 1 .. n - 1 + 1 /\ 1 + j - 1 = j
      BY <1>5
    <3>4. Len(old) = n
      BY <1>5, <3>2
    <3>5. \A j \in 1 .. n : old[j] = freePackets[j]
      BY <3>2, <3>3
    <3> QED  BY <3>2, <3>4, <3>5
  <2>3. PICK new : new = [j \in 1 .. n - n |-> allocated + j]
    OBVIOUS
  <2>4. new = <<>>
    <3>1. n - n = 0 /\ \A j \in 1 .. 0 : FALSE
      BY <1>5
    <3>2. new \in [1 .. 0 -> Nat]
      BY <2>3, <3>1
    <3>3. new \in Seq(Nat) /\ Len(new) = 0
      BY <3>2, SeqOfFunction
    <3> QED  BY <3>3, EmptySeq
  <2>5. AllocPkts(n) = old \o new
    BY <1>1, <1>6, <2>1, <2>3 DEF AllocPkts
  <2>6. old \o <<>> = old
    BY <2>2, ConcatEmptySeq
  <2> QED  BY <2>2, <2>4, <2>5, <2>6
<1>12. Refills(n)
  BY <1>1, <1>2, <1>5, <1>7, <1>10, <1>11 DEF Refills
<1> QED  BY <1>5, <1>12

(* Slots are filled, none outstanding is touched.                          *)
LEMMA ReplenishKeeps ==
    ASSUME IInv, Replenish
    PROVE  IInv'
<1>1. PICK n \in Nat : Refills(n)
  BY ReplenishFacts
<1>2. PICK c \in Nat : c = Advanced /\ rxCons <= c /\ c <= rxProd /\ c <= cqCons /\ Ahead(Out, c)
  BY Advances, OutFacts
<1>3. /\ n <= Len(freePackets) /\ rxProd + n <= c + RxSize
      /\ rxCons' = c /\ rxProd' = rxProd + n
      /\ UNCHANGED allocated
      /\ UNCHANGED <<cqCons, pktQueue, taken, data, nicProd, fetching, fetched>>
      /\ UNCHANGED <<arrived, completions, nicCqCons, completed>>
  BY <1>1, <1>2 DEF Refills, recvVars, nicVars
<1>4. PICK lenC \in Nat, lenF \in Nat, lenP \in Nat, b \in Nat :
        /\ lenC = Len(completed) /\ lenF = Len(fetching) /\ lenP = Len(freePackets)
        /\ b = Begun /\ b + lenF = fetched /\ lenC <= b
  BY Lengths, LenProperties DEF IInv, Typing
<1>5. /\ rxProd \in Nat /\ rxCons \in Nat /\ cqCons \in Nat /\ RxSize \in Nat
      /\ fetched <= nicProd /\ nicProd <= rxProd /\ rxProd <= rxCons + RxSize
      /\ fetched \in Nat /\ nicProd \in Nat /\ nicCqCons \in Nat
      /\ lenP + rxProd = RxSize + cqCons
  BY <1>4, Sizes DEF IInv, Typing, InOrder, FreeCounted
<1>6. PICK info2, descs2, rest : info2 = rxInfo' /\ descs2 = desc' /\ rest = freePackets'
  OBVIOUS
<1>7. PICK pkts : /\ pkts = AllocPkts(n) /\ \A j \in 1 .. n : pkts[j] = freePackets[j]
                  /\ info2 = Fill(rxInfo, pkts, rxProd, n) /\ descs2 = Fill(desc, pkts, rxProd, n)
  BY <1>1, <1>6 DEF Refills
<1>8. /\ freePackets \in Seq(1 .. RxSize)
      /\ RingOf(rxInfo, desc, Out) /\ PoolOf(freePackets, rxInfo)
      /\ rxInfo \in [SlotRange -> (1 .. RxSize) \union {None}]
      /\ desc \in [SlotRange -> 1 .. RxSize]
  BY DEF IInv, Typing
<1>9. \A j \in n + 1 .. lenP : freePackets[j] \in 1 .. RxSize
  <2>1. \A j \in n + 1 .. lenP : j \in 1 .. Len(freePackets)
    BY <1>4
  <2> QED  BY <1>8, <2>1, ElementOfSeq
<1>10. /\ rest \in Seq(1 .. RxSize) /\ Len(rest) + n = lenP
       /\ \A j \in 1 .. Len(rest) : rest[j] = freePackets[n + j]
  <2>1. rest = SubSeq(freePackets, n + 1, lenP)
    BY <1>1, <1>4, <1>6 DEF Refills
  <2>2. /\ rest \in Seq(1 .. RxSize)
        /\ Len(rest) = IF n + 1 <= lenP THEN lenP - (n + 1) + 1 ELSE 0
        /\ \A j \in 1 .. lenP - (n + 1) + 1 : rest[j] = freePackets[(n + 1) + j - 1]
    BY <1>9, <2>1, SubSeqProperties
  <2>3. Len(rest) = lenP - n /\ lenP - (n + 1) + 1 = lenP - n
    BY <1>3, <1>4, <2>2
  <2>4. \A j \in 1 .. lenP - n : (n + 1) + j - 1 = n + j
    OBVIOUS
  <2>5. \A j \in 1 .. lenP - n : rest[j] = freePackets[n + j]
    BY <2>2, <2>3, <2>4
  <2> QED  BY <2>2, <2>3, <2>5
<1>11. \A p \in Out : p \in Nat /\ p \in Ring(c) /\ p < rxProd
  <2>1. \A p \in Out : p \in Nat /\ p < rxProd /\ c <= p
    BY <1>2, OutFacts DEF Ahead
  <2> QED  BY <1>2, <1>5, <2>1 DEF Ring
<1>12. Grown(rxInfo, info2, descs2, rest, Out, rxProd, n)
  BY <1>2, <1>3, <1>4, <1>5, <1>7, <1>8, <1>10, <1>11, RingFilled
<1>13. Out' = Out \union (rxProd .. rxProd + n - 1)
  <2>1. PICK r \in Nat : r = rxProd
    BY <1>5
  <2>2. Out' = {p \in 0 .. (r + n) - 1 : \A i \in 1 .. cqCons : completed[i] # p + 1}
    BY <1>3, <2>1 DEF Out, Outstanding
  <2>3. Out = {p \in 0 .. r - 1 : \A i \in 1 .. cqCons : completed[i] # p + 1}
    BY <2>1 DEF Out, Outstanding
  <2>4. ASSUME NEW p \in r .. r + n - 1, NEW i \in 1 .. cqCons PROVE completed[i] # p + 1
    <3>1. i \in 1 .. lenC
      BY <1>4, <1>5, Lengths
    <3>2. completed[i] \in 1 .. b
      BY <1>4, <3>1 DEF IInv, RecordsOf
    <3>3. b <= r
      BY <1>4, <2>1, Lengths
    <3> QED  BY <2>1, <3>2, <3>3
  <2>5. \A p : p \in 0 .. (r + n) - 1 <=> p \in 0 .. r - 1 \/ p \in r .. r + n - 1
    BY <2>1
  <2> QED  BY <2>1, <2>2, <2>3, <2>4, <2>5
<1>14. RingOf(rxInfo, desc, Out)' /\ PoolOf(freePackets, rxInfo)'
  BY <1>6, <1>12, <1>13 DEF Grown
<1>15. Ahead(Out, rxCons)'
  BY <1>2, <1>3, <1>5, <1>13 DEF Ahead
<1>16. /\ info2 \in [SlotRange -> (1 .. RxSize) \union {None}]
       /\ descs2 \in [SlotRange -> 1 .. RxSize]
  <2>1. \A j \in 1 .. n : pkts[j] \in 1 .. RxSize
    <3>1. \A j \in 1 .. n : j \in 1 .. Len(freePackets)
      BY <1>3, <1>4
    <3> QED  BY <1>7, <1>8, <3>1, ElementOfSeq
  <2> QED  BY <1>5, <1>7, <1>8, <2>1, FillTyped
<1>17. posted' \in Seq(RegWrite) /\ WritesOf(posted', nicProd, nicCqCons, rxProd + n, cqCons)
  <2>1. posted \in Seq(RegWrite) /\ WritesOf(posted, nicProd, nicCqCons, rxProd, cqCons)
    BY DEF IInv, Typing
  <2>2. CASE n = 0
    <3>1. posted' = posted /\ rxProd + n = rxProd
      BY <1>1, <1>5, <2>2 DEF Refills
    <3> QED  BY <2>1, <3>1
  <2>3. CASE n # 0
    <3>1. PICK prod2 \in Nat : prod2 = rxProd + n
      BY <1>5
    <3>2. PICK w \in RegWrite : w = [reg |-> "prod", val |-> prod2] /\ posted' = Append(posted, w)
      <4>1. [reg |-> "prod", val |-> prod2] \in RegWrite
        BY DEF RegWrite
      <4> QED  BY <1>1, <2>3, <3>1, <4>1 DEF Refills
    <3>3. Is(w, "prod") /\ w.val = prod2 /\ rxProd <= prod2 /\ prod2 <= cqCons + RxSize
      BY <1>2, <1>3, <1>5, <3>1, <3>2 DEF Is
    <3>4. Append(posted, w) \in Seq(RegWrite)
          /\ WritesOf(Append(posted, w), nicProd, nicCqCons, prod2, cqCons)
      BY <1>5, <2>1, <3>3, WritesGrow
    <3> QED  BY <3>1, <3>2, <3>4
  <2> QED  BY <2>2, <2>3
<1>18. Typing'
  <2>1. rxProd + n \in Nat
    BY <1>5
  <2> QED  BY <1>3, <1>6, <1>10, <1>16, <1>17, <2>1 DEF IInv, Typing
<1>19. InOrder'
  <2>1. nicProd <= rxProd + n
    BY <1>5
  <2> QED  BY <1>2, <1>3, <2>1 DEF IInv, InOrder
<1>20. FreeCounted'
  <2>1. Len(rest) \in Nat
    BY <1>10, LenProperties
  <2> QED  BY <1>3, <1>5, <1>6, <1>10, <2>1 DEF FreeCounted
<1>21. RecordsOf(completions, completed, Begun)' /\ Delivered' /\ Begun' = Begun
  BY <1>3 DEF IInv, Begun, Delivered
<1>22. FetchesOf(fetching, rxInfo, Begun)'
  <2>1. ASSUME NEW j \in 1 .. lenF PROVE b + j - 1 \in Out
    <3>1. b + j - 1 \in 0 .. rxProd - 1
      BY <1>4, <1>5
    <3>2. \A i \in 1 .. cqCons : completed[i] \in 1 .. b
      <4>1. \A i \in 1 .. cqCons : i \in 1 .. lenC
        BY <1>4, <1>5, Lengths
      <4> QED  BY <1>4, <4>1 DEF IInv, RecordsOf
    <3>3. \A i \in 1 .. cqCons : completed[i] # (b + j - 1) + 1
      BY <3>2
    <3> QED  BY <3>1, <3>3 DEF Out, Outstanding
  <2>2. \A j \in 1 .. lenF : info2[Slot(b + j - 1)] = rxInfo[Slot(b + j - 1)]
    BY <1>12, <2>1 DEF Grown
  <2>3. FetchesOf(fetching, info2, b)
    BY <1>4, <2>2 DEF IInv, FetchesOf
  <2> QED  BY <1>3, <1>4, <1>6, <1>21, <2>3
<1>23. Written(data, rxInfo, completed, cqCons)'
  <2>1. ASSUME NEW j \in cqCons + 1 .. lenC PROVE completed[j] - 1 \in Out
    <3>1. j \in 1 .. lenC /\ \A i \in 1 .. cqCons : i \in 1 .. lenC /\ i < j
      BY <1>5
    <3>2. completed[j] \in 1 .. b /\ \A i \in 1 .. cqCons : completed[i] < completed[j]
      BY <1>4, <3>1 DEF IInv, RecordsOf
    <3>3. \A i \in 1 .. cqCons : completed[i] \in 1 .. b
      BY <1>4, <3>1 DEF IInv, RecordsOf
    <3>4. b <= rxProd
      BY <1>4, Lengths
    <3>5. completed[j] - 1 \in 0 .. rxProd - 1
      BY <1>5, <3>2, <3>4
    <3>6. \A i \in 1 .. cqCons : completed[i] # (completed[j] - 1) + 1
      BY <3>2, <3>3
    <3> QED  BY <3>5, <3>6 DEF Out, Outstanding
  <2>2. \A j \in cqCons + 1 .. lenC : info2[Slot(completed[j] - 1)] = rxInfo[Slot(completed[j] - 1)]
    BY <1>12, <2>1 DEF Grown
  <2>3. Written(data, info2, completed, cqCons)
    BY <1>4, <2>2 DEF IInv, Written
  <2> QED  BY <1>3, <1>6, <2>3
<1>24. WritesOf(posted, nicProd, nicCqCons, rxProd, cqCons)'
  BY <1>3, <1>17
<1> QED  BY <1>14, <1>15, <1>18, <1>19, <1>20, <1>21, <1>22, <1>23, <1>24 DEF IInv

-----------------------------------------------------------------------------
(* A receiver takes at most the first packet of the queue.                 *)
LEMMA ReceiverKeeps ==
    ASSUME IInv, NEW v \in Receiver, Recv(v) \/ ResumeRecv(v) \/ Wait(v) \/ ResumeWait(v)
    PROVE  IInv'
<1>1. /\ UNCHANGED <<rxProd, rxCons, rxInfo, desc, allocated, freePackets, cqCons, handler>>
      /\ UNCHANGED <<posted, data, nicProd, fetching, fetched, arrived, completions, nicCqCons>>
      /\ UNCHANGED completed
  BY DEF Recv, ResumeRecv, Wait, ResumeWait, ringVars, poolVars, nicVars
<1>2. UNCHANGED <<pktQueue, taken>> \/ (pktQueue # <<>> /\ TakePacket)
  BY DEF Recv, ResumeRecv, Wait, ResumeWait
<1>3. pktQueue' \in Seq(Nat) /\ taken' \in Seq(Nat) /\ Delivered'
  <2>1. pktQueue \in Seq(Nat) /\ taken \in Seq(Nat) /\ Delivered /\ cqCons \in Nat
    BY DEF IInv, Typing
  <2>2. CASE UNCHANGED <<pktQueue, taken>>
    BY <1>1, <2>1, <2>2 DEF Delivered
  <2>3. CASE pktQueue # <<>> /\ TakePacket
    <3>1. PICK m \in Nat, n \in Nat : m = Len(taken) /\ n + 1 = Len(pktQueue)
      <4>1. Len(taken) \in Nat /\ Len(pktQueue) \in Nat \ {0}
        BY <2>1, <2>3, LenProperties, EmptySeq
      <4>2. Len(pktQueue) - 1 \in Nat /\ (Len(pktQueue) - 1) + 1 = Len(pktQueue)
        BY <4>1
      <4> QED  BY <4>1, <4>2
    <3>2. /\ m + (n + 1) = cqCons
          /\ \A i \in 1 .. m : taken[i] = completed[0 + i]
          /\ \A i \in 1 .. n + 1 : pktQueue[i] = completed[m + i]
      BY <2>1, <3>1 DEF Delivered, PartOf
    <3>3. PICK q \in Seq(Nat) : /\ q = pktQueue' /\ Len(q) = n
                                /\ \A i \in 1 .. n : q[i] = pktQueue[i + 1]
      <4>1. /\ Tail(pktQueue) \in Seq(Nat) /\ Len(Tail(pktQueue)) = n
            /\ \A i \in 1 .. n : Tail(pktQueue)[i] = pktQueue[i + 1]
        BY <2>1, <2>3, <3>1, HeadTailProperties
      <4> QED  BY <2>3, <4>1 DEF TakePacket
    <3>4. Head(pktQueue) = completed[m + 1] /\ Head(pktQueue) \in Nat
      <4>1. Head(pktQueue) = pktQueue[1] /\ 1 \in 1 .. n + 1
        OBVIOUS
      <4>2. Head(pktQueue) \in Nat
        BY <2>1, <2>3, HeadTailProperties
      <4> QED  BY <3>2, <4>1, <4>2
    <3>5. PICK t \in Seq(Nat) : /\ t = taken' /\ Len(t) = m + 1 /\ t[m + 1] = completed[m + 1]
                                /\ \A i \in 1 .. m : t[i] = taken[i]
      <4>1. PICK h \in Nat : h = completed[m + 1] /\ taken' = Append(taken, h)
        BY <2>3, <3>4 DEF TakePacket
      <4>2. PICK t \in Seq(Nat) : t = Append(taken, h)
        BY <2>1, AppendProperties
      <4>3. Len(t) = m + 1 /\ t[m + 1] = h /\ \A i \in 1 .. m : t[i] = taken[i]
        BY <2>1, <3>1, <4>2, AppendProperties
      <4> QED  BY <4>1, <4>2, <4>3
    <3>6. PartOf(t, completed, 0)
      <4>1. \A i \in 1 .. m + 1 : i \in 1 .. m \/ i = m + 1
        OBVIOUS
      <4>2. 0 + (m + 1) = m + 1
        OBVIOUS
      <4>3. \A i \in 1 .. m + 1 : t[i] = completed[0 + i]
        BY <3>2, <3>5, <4>1, <4>2
      <4> QED  BY <3>5, <4>3 DEF PartOf
    <3>7. PartOf(q, completed, m + 1)
      <4>1. \A i \in 1 .. n : i + 1 \in 1 .. n + 1 /\ m + (i + 1) = (m + 1) + i
        OBVIOUS
      <4>2. ASSUME NEW i \in 1 .. n PROVE q[i] = completed[(m + 1) + i]
        <5>1. PICK j \in 1 .. n + 1 : j = i + 1 /\ m + j = (m + 1) + i
          BY <4>1
        <5> QED  BY <3>2, <3>3, <5>1
      <4> QED  BY <3>3, <4>2 DEF PartOf
    <3>8. Len(t) + Len(q) = cqCons
      BY <3>2, <3>3, <3>5
    <3> QED  BY <1>1, <3>3, <3>5, <3>6, <3>7, <3>8 DEF Delivered
  <2> QED  BY <1>2, <2>2, <2>3
<1>4. Typing'
  BY <1>1, <1>3 DEF IInv, Typing
<1>5. InOrder'
  BY <1>1 DEF IInv, InOrder
<1>6. UNCHANGED <<Out, Begun>>
  BY <1>1 DEF Out, Begun
<1> QED  BY <1>1, <1>3, <1>4, <1>5, <1>6 DEF IInv, FreeCounted

-----------------------------------------------------------------------------
(* The hardware.  A write arrives.                                         *)
LEMMA DeliverKeeps ==
    ASSUME IInv, DeliverWrite
    PROVE  IInv'
<1>1. /\ UNCHANGED <<rxProd, rxCons, rxInfo, desc, allocated, freePackets, cqCons, handler>>
      /\ UNCHANGED <<pktQueue, taken, data, fetching, fetched, arrived, completions, completed>>
      /\ posted # <<>> /\ posted' = Tail(posted)
      /\ \/ Head(posted).reg = "prod" /\ nicProd' = Head(posted).val /\ nicCqCons' = nicCqCons
         \/ Head(posted).reg = "cqCons" /\ nicCqCons' = Head(posted).val /\ nicProd' = nicProd
  BY DEF DeliverWrite, ringVars, poolVars, recvVars
<1>2. /\ posted \in Seq(RegWrite) /\ nicProd \in Nat /\ nicCqCons \in Nat
      /\ rxProd \in Nat /\ cqCons \in Nat /\ fetched \in Nat
      /\ WritesOf(posted, nicProd, nicCqCons, rxProd, cqCons)
      /\ fetched <= nicProd /\ nicProd <= rxProd
  BY DEF IInv, Typing, InOrder
<1>3. PICK p2, c2 : p2 = nicProd' /\ c2 = nicCqCons'
  OBVIOUS
<1>4. /\ Tail(posted) \in Seq(RegWrite) /\ WritesOf(Tail(posted), p2, c2, rxProd, cqCons)
      /\ p2 \in Nat /\ c2 \in Nat /\ nicProd <= p2
      /\ nicProd <= rxProd => p2 <= rxProd
  <2>1. \/ Head(posted).reg = "prod" /\ p2 = Head(posted).val /\ c2 = nicCqCons
        \/ Head(posted).reg = "cqCons" /\ c2 = Head(posted).val /\ p2 = nicProd
    BY <1>1, <1>3
  <2>2. posted # <<>>
    BY <1>1
  <2> QED  BY <1>2, <2>1, <2>2, WritesShrink
<1>5. fetched <= p2 /\ p2 <= rxProd
  BY <1>2, <1>4
<1>6. Typing'
  BY <1>1, <1>3, <1>4 DEF IInv, Typing
<1>7. InOrder'
  BY <1>1, <1>3, <1>5 DEF IInv, InOrder
<1>8. WritesOf(posted, nicProd, nicCqCons, rxProd, cqCons)'
  BY <1>1, <1>3, <1>4
<1>9. UNCHANGED <<Out, Begun>>
  BY <1>1 DEF Out, Begun
<1> QED  BY <1>1, <1>6, <1>7, <1>8, <1>9 DEF IInv, FreeCounted, Delivered

(* What the hardware has fetched or has yet to fetch is outstanding.       *)
LEMMA NotBegun ==
    ASSUME IInv
    PROVE  \A p \in Begun .. rxProd - 1 : p \in Out /\ Slot(p) \in SlotRange
<1>1. PICK b \in Nat, r \in Nat : b = Begun /\ r = rxProd
  BY Lengths
<1>2. \A i \in 1 .. cqCons : completed[i] \in 1 .. b
  <2>1. \A i \in 1 .. cqCons : i \in 1 .. Len(completed)
    BY Lengths
  <2> QED  BY <1>1, <2>1 DEF IInv, RecordsOf
<1>3. ASSUME NEW p \in b .. r - 1 PROVE p \in Out /\ Slot(p) \in SlotRange
  <2>1. p \in Nat /\ p \in 0 .. r - 1
    OBVIOUS
  <2>2. \A i \in 1 .. cqCons : completed[i] # p + 1
    BY <1>2
  <2> QED  BY <1>1, <2>1, <2>2, SlotType DEF Out, Outstanding
<1> QED  BY <1>1, <1>3

(* The next descriptor is fetched: the one the driver remembers.           *)
LEMMA FetchKeeps ==
    ASSUME IInv, FetchDesc
    PROVE  IInv'
<1>1. /\ UNCHANGED <<rxProd, rxCons, rxInfo, desc, allocated, freePackets, cqCons, handler>>
      /\ UNCHANGED <<posted, pktQueue, taken, data, nicProd, completions, nicCqCons, completed>>
      /\ arrived < MaxPackets /\ fetched < nicProd
      /\ arrived' = arrived + 1 /\ fetched' = fetched + 1
      /\ fetching' = Append(fetching,
            [slot |-> Slot(fetched), buffer |-> desc[Slot(fetched)], packet |-> arrived + 1])
  BY DEF FetchDesc, ringVars, poolVars, recvVars
<1>2. PICK m \in Nat, n \in Nat, b \in Nat :
        m = Len(completed) /\ n = Len(fetching) /\ b = Begun /\ b + n = fetched /\ m <= b
  BY Lengths
<1>3. /\ fetched \in Nat /\ arrived \in Nat /\ nicProd \in Nat /\ rxProd \in Nat /\ cqCons \in Nat
      /\ fetched = arrived /\ nicProd <= rxProd
      /\ MaxPackets \in Nat
  BY Sizes DEF IInv, Typing, InOrder
<1>4. PICK slot \in SlotRange : slot = Slot(fetched)
  BY <1>3, SlotType
<1>5. rxInfo[slot] = desc[slot] /\ desc[slot] \in 1 .. RxSize
  <2>1. fetched \in Begun .. rxProd - 1
    BY <1>1, <1>2, <1>3
  <2>2. desc[Slot(fetched)] = rxInfo[Slot(fetched)]
    BY <2>1, NotBegun DEF IInv, RingOf
  <2>3. desc \in [SlotRange -> 1 .. RxSize]
    BY DEF IInv, Typing
  <2> QED  BY <1>4, <2>2, <2>3
<1>6. PICK f \in Fetch : /\ f = [slot |-> slot, buffer |-> desc[slot], packet |-> fetched + 1]
                         /\ fetching' = Append(fetching, f)
  <2>1. [slot |-> slot, buffer |-> desc[slot], packet |-> fetched + 1] \in Fetch
    BY <1>3, <1>5 DEF Fetch
  <2> QED  BY <1>1, <1>3, <1>4, <2>1
<1>7. f.slot = slot /\ f.buffer = rxInfo[slot] /\ f.packet = fetched + 1
  BY <1>5, <1>6
<1>8. PICK fs \in Seq(Fetch) : /\ fs = fetching' /\ Len(fs) = n + 1 /\ fs[n + 1] = f
                               /\ \A j \in 1 .. n : fs[j] = fetching[j]
  <2>1. fetching \in Seq(Fetch)
    BY DEF IInv, Typing
  <2>2. PICK fs \in Seq(Fetch) : fs = Append(fetching, f)
    BY <2>1, AppendProperties
  <2>3. Len(fs) = n + 1 /\ fs[n + 1] = f /\ \A j \in 1 .. n : fs[j] = fetching[j]
    BY <1>2, <2>1, <2>2, AppendProperties
  <2> QED  BY <1>6, <2>2, <2>3
<1>9. FetchesOf(fs, rxInfo, b)
  <2>1. \A j \in 1 .. n + 1 : j \in 1 .. n \/ j = n + 1
    OBVIOUS
  <2>2. b + (n + 1) - 1 = fetched /\ b + (n + 1) = fetched + 1
    BY <1>2
  <2>3. \A j \in 1 .. n : /\ fetching[j].slot = Slot(b + j - 1)
                          /\ fetching[j].buffer = rxInfo[Slot(b + j - 1)]
                          /\ fetching[j].packet = b + j
    BY <1>2 DEF IInv, FetchesOf
  <2>4. /\ fs[n + 1].slot = Slot(b + (n + 1) - 1)
        /\ fs[n + 1].buffer = rxInfo[Slot(b + (n + 1) - 1)]
        /\ fs[n + 1].packet = b + (n + 1)
    BY <1>4, <1>7, <1>8, <2>2
  <2>5. \A j \in 1 .. n + 1 : /\ fs[j].slot = Slot(b + j - 1)
                              /\ fs[j].buffer = rxInfo[Slot(b + j - 1)]
                              /\ fs[j].packet = b + j
    BY <1>8, <2>1, <2>3, <2>4
  <2> QED  BY <1>8, <2>5 DEF FetchesOf
<1>10. Typing'
  <2>1. fetched + 1 \in Nat /\ arrived + 1 \in Nat
    BY <1>3
  <2> QED  BY <1>1, <1>8, <2>1 DEF IInv, Typing
<1>11. Begun' = b
  <2>1. Begun' = (fetched + 1) - (n + 1)
    BY <1>1, <1>8 DEF Begun
  <2> QED  BY <1>2, <2>1
<1>12. InOrder'
  <2>1. m + (n + 1) <= fetched + 1 /\ fetched + 1 = arrived + 1 /\ arrived + 1 <= MaxPackets
        /\ fetched + 1 <= nicProd
    BY <1>1, <1>2, <1>3
  <2>2. Len(fetching') = n + 1
    BY <1>8
  <2> QED  BY <1>1, <1>2, <2>1, <2>2 DEF IInv, InOrder
<1>13. FetchesOf(fetching, rxInfo, Begun)' /\ RecordsOf(completions, completed, Begun)'
  BY <1>1, <1>2, <1>8, <1>9, <1>11 DEF IInv
<1>14. Out' = Out
  BY <1>1 DEF Out
<1> QED  BY <1>1, <1>10, <1>12, <1>13, <1>14 DEF IInv, FreeCounted, Delivered

(* A packet is written: into the first position not begun before, whose    *)
(* buffer is no other outstanding position's.  Whether its record is       *)
(* written makes no difference to the ring.                                *)
LEMMA FinishKeeps ==
    ASSUME IInv, FinishPacket
    PROVE  IInv'
<1>1. /\ UNCHANGED <<rxProd, rxCons, rxInfo, desc, allocated, freePackets, cqCons, handler>>
      /\ UNCHANGED <<posted, pktQueue, taken, nicProd, fetched, arrived, nicCqCons>>
      /\ fetching # <<>> /\ fetching' = Tail(fetching)
      /\ data' = [data EXCEPT ![Head(fetching).buffer] = Head(fetching).packet]
  BY DEF FinishPacket, ringVars, poolVars, recvVars
<1>2. PICK m \in Nat, n \in Nat, b \in Nat :
        /\ m = Len(completed) /\ m = Len(completions) /\ n + 1 = Len(fetching)
        /\ b = Begun /\ b + (n + 1) = fetched /\ m <= b
  <2>1. Len(fetching) \in Nat \ {0}
    BY <1>1, LenProperties, EmptySeq DEF IInv, Typing
  <2>2. Len(fetching) - 1 \in Nat /\ (Len(fetching) - 1) + 1 = Len(fetching)
    BY <2>1
  <2> QED  BY <2>2, Lengths
<1>3. /\ fetched \in Nat /\ cqCons \in Nat /\ rxProd \in Nat /\ cqCons <= m
      /\ fetched <= rxProd /\ b < rxProd
  BY <1>2, Lengths
<1>4. PICK slot \in SlotRange : slot = Slot(b)
  BY <1>2, SlotType
<1>5. Head(fetching).slot = slot /\ Head(fetching).buffer = rxInfo[slot] /\ Head(fetching).packet = b + 1
  <2>1. Head(fetching) = fetching[1] /\ 1 \in 1 .. n + 1 /\ b + 1 - 1 = b
    BY <1>2
  <2>2. /\ fetching[1].slot = Slot(b + 1 - 1)
        /\ fetching[1].buffer = rxInfo[Slot(b + 1 - 1)]
        /\ fetching[1].packet = b + 1
    BY <1>2, <2>1 DEF IInv, FetchesOf
  <2> QED  BY <1>4, <2>1, <2>2
<1>6. PICK fs \in Seq(Fetch) : /\ fs = fetching' /\ Len(fs) = n
                               /\ \A j \in 1 .. n : fs[j] = fetching[j + 1]
  <2>1. fetching \in Seq(Fetch)
    BY DEF IInv, Typing
  <2>2. /\ Tail(fetching) \in Seq(Fetch) /\ Len(Tail(fetching)) = n
        /\ \A j \in 1 .. n : Tail(fetching)[j] = fetching[j + 1]
    BY <1>1, <1>2, <2>1, HeadTailProperties
  <2> QED  BY <1>1, <2>2
<1>7. PICK cs \in Seq(SlotRange), ps \in Seq(Nat) :
        /\ cs = completions' /\ ps = completed' /\ Len(cs) = Len(ps)
        /\ \A j \in 1 .. m : cs[j] = completions[j] /\ ps[j] = completed[j]
        /\ \/ Len(ps) = m
           \/ Len(ps) = m + 1 /\ cs[m + 1] = slot /\ ps[m + 1] = b + 1
  <2>1. completions \in Seq(SlotRange) /\ completed \in Seq(Nat) /\ b + 1 \in Nat
    BY DEF IInv, Typing
  <2>2. CASE UNCHANGED <<completions, completed>>
    BY <1>2, <2>1, <2>2
  <2>3. CASE /\ completions' = Append(completions, slot)
             /\ completed' = Append(completed, b + 1)
    <3> PICK x \in Nat : x = b + 1
      BY <2>1
    <3>1. PICK cs \in Seq(SlotRange), ps \in Seq(Nat) :
            cs = Append(completions, slot) /\ ps = Append(completed, x)
      BY <2>1, AppendProperties
    <3>2. Len(cs) = m + 1 /\ cs[m + 1] = slot /\ \A j \in 1 .. m : cs[j] = completions[j]
      BY <1>2, <2>1, <3>1, AppendProperties
    <3>3. Len(ps) = m + 1 /\ ps[m + 1] = x /\ \A j \in 1 .. m : ps[j] = completed[j]
      <4>1. completed \in Seq(Nat) /\ ps = Append(completed, x) /\ m = Len(completed)
        BY <1>2, <2>1, <3>1
      <4> QED  BY <4>1, AppendProperties
    <3> QED  BY <2>3, <3>1, <3>2, <3>3
  <2> QED  BY <1>5, <2>2, <2>3 DEF FinishPacket
<1>8. PICK l \in Nat : l = Len(ps) /\ m <= l /\ l <= m + 1
  BY <1>7
<1>9. Begun' = b + 1 /\ Out' = Out
  <2>1. Begun' = fetched - n
    BY <1>1, <1>6 DEF Begun
  <2>2. \A i \in 1 .. cqCons : i \in 1 .. m
    BY <1>3
  <2>3. \A i \in 1 .. cqCons : completed'[i] = completed[i]
    BY <1>7, <2>2
  <2>4. Out' = {p \in 0 .. rxProd - 1 : \A i \in 1 .. cqCons : completed'[i] # p + 1}
    BY <1>1 DEF Out, Outstanding
  <2> QED  BY <1>2, <2>1, <2>3, <2>4 DEF Out, Outstanding
<1>10. \A j \in 1 .. l : j \in 1 .. m \/ (j = m + 1 /\ l = m + 1)
  BY <1>8
<1>11. RecordsOf(cs, ps, b + 1)
  <2>1. \A j \in 1 .. m : /\ completed[j] \in 1 .. b
                          /\ completions[j] = Slot(completed[j] - 1)
                          /\ \A i \in 1 .. m : i < j => completed[i] < completed[j]
    BY <1>2 DEF IInv, RecordsOf
  <2>2. ASSUME NEW j \in 1 .. l
        PROVE  /\ ps[j] \in 1 .. b + 1
               /\ cs[j] = Slot(ps[j] - 1)
               /\ \A i \in 1 .. l : i < j => ps[i] < ps[j]
    <3>1. CASE j \in 1 .. m
      <4>1. \A i \in 1 .. l : i < j => i \in 1 .. m
        BY <3>1
      <4>2. ps[j] = completed[j] /\ cs[j] = completions[j]
        BY <1>7, <3>1
      <4>3. completed[j] \in 1 .. b + 1 /\ completions[j] = Slot(completed[j] - 1)
        BY <2>1, <3>1
      <4>4. \A i \in 1 .. m : i < j => ps[i] < completed[j]
        BY <1>7, <2>1, <3>1
      <4> QED  BY <4>1, <4>2, <4>3, <4>4
    <3>2. CASE j = m + 1 /\ l = m + 1
      <4>1. \A i \in 1 .. l : i < j => i \in 1 .. m
        BY <3>2
      <4>2. ps[j] = b + 1 /\ cs[j] = slot /\ (b + 1) - 1 = b
        BY <1>7, <1>8, <3>2
      <4>3. ASSUME NEW i \in 1 .. m PROVE ps[i] < b + 1
        <5>1. ps[i] = completed[i] /\ completed[i] \in 1 .. b
          BY <1>7, <2>1
        <5> QED  BY <5>1
      <4>4. \A i \in 1 .. l : i < j => ps[i] < ps[j]
        BY <4>1, <4>2, <4>3
      <4>5. b + 1 \in 1 .. b + 1
        OBVIOUS
      <4> QED  BY <1>4, <4>2, <4>4, <4>5
    <3> QED  BY <1>10, <3>1, <3>2
  <2> QED  BY <1>7, <1>8, <2>2 DEF RecordsOf
<1>12. FetchesOf(fs, rxInfo, b + 1)
  <2>1. \A j \in 1 .. n : j + 1 \in 1 .. n + 1 /\ b + (j + 1) - 1 = (b + 1) + j - 1
                          /\ b + (j + 1) = (b + 1) + j
    OBVIOUS
  <2>2. \A j \in 1 .. n + 1 : /\ fetching[j].slot = Slot(b + j - 1)
                              /\ fetching[j].buffer = rxInfo[Slot(b + j - 1)]
                              /\ fetching[j].packet = b + j
    BY <1>2 DEF IInv, FetchesOf
  <2>3. ASSUME NEW j \in 1 .. n
        PROVE  /\ fs[j].slot = Slot((b + 1) + j - 1)
               /\ fs[j].buffer = rxInfo[Slot((b + 1) + j - 1)]
               /\ fs[j].packet = (b + 1) + j
    <3>1. PICK i \in 1 .. n + 1 : /\ i = j + 1 /\ b + i - 1 = (b + 1) + j - 1
                                  /\ b + i = (b + 1) + j
      BY <2>1
    <3>2. fs[j] = fetching[i]
      BY <1>6, <3>1
    <3>3. /\ fetching[i].slot = Slot(b + i - 1)
          /\ fetching[i].buffer = rxInfo[Slot(b + i - 1)]
          /\ fetching[i].packet = b + i
      BY <2>2
    <3> QED  BY <3>1, <3>2, <3>3
  <2> QED  BY <1>6, <2>3 DEF FetchesOf
<1>13. PICK d2 : d2 = data'
  OBVIOUS
<1>14. b \in Out /\ rxInfo[slot] \in 1 .. RxSize /\ rxInfo[slot] # None
       /\ data \in [1 .. RxSize -> Nat]
  <2>1. b \in Begun .. rxProd - 1
    BY <1>2, <1>3
  <2>2. b \in Out
    BY <2>1, NotBegun
  <2>3. rxInfo[Slot(b)] # None
    BY <2>2 DEF IInv, RingOf
  <2>4. rxInfo \in [SlotRange -> (1 .. RxSize) \union {None}] /\ data \in [1 .. RxSize -> Nat]
    BY DEF IInv, Typing
  <2> QED  BY <1>4, <2>2, <2>3, <2>4
<1>15. d2 = [data EXCEPT ![rxInfo[slot]] = b + 1] /\ d2 \in [1 .. RxSize -> Nat]
  <2>1. d2 = [data EXCEPT ![rxInfo[slot]] = b + 1]
    BY <1>1, <1>5, <1>13
  <2> QED  BY <1>14, <2>1
<1>16. Written(d2, rxInfo, ps, cqCons)
  <2>1. ASSUME NEW j \in cqCons + 1 .. m PROVE d2[rxInfo[Slot(ps[j] - 1)]] = ps[j]
    <3>1. j \in 1 .. m /\ \A i \in 1 .. cqCons : i \in 1 .. m /\ i < j
      BY <1>3
    <3>2. PICK x \in Nat : x = completed[j] /\ x \in 1 .. b /\ \A i \in 1 .. cqCons : completed[i] < x
      BY <1>2, <3>1 DEF IInv, RecordsOf
    <3>3. x - 1 \in Out
      <4>1. x - 1 \in 0 .. rxProd - 1 /\ (x - 1) + 1 = x
        BY <1>3, <3>2
      <4>2. \A i \in 1 .. cqCons : completed[i] \in 1 .. b
        BY <1>2, <3>1 DEF IInv, RecordsOf
      <4>3. \A i \in 1 .. cqCons : completed[i] # x
        BY <3>2, <4>2
      <4> QED  BY <4>1, <4>3 DEF Out, Outstanding
    <3>4. Slot(x - 1) # Slot(b)
      <4>1. rxCons \in Nat /\ x - 1 \in Ring(rxCons) /\ b \in Ring(rxCons) /\ x - 1 # b
        BY <1>14, <3>2, <3>3, OutFacts
      <4> QED  BY <4>1, SlotsApart DEF Ring
    <3>5. Slot(x - 1) \in SlotRange /\ rxInfo[Slot(x - 1)] # None
      <4>1. x - 1 \in Nat
        BY <3>2
      <4> QED  BY <3>3, <4>1, SlotType DEF IInv, RingOf
    <3>6. rxInfo[Slot(x - 1)] # rxInfo[slot]
      BY <1>4, <3>4, <3>5 DEF IInv, PoolOf
    <3>7. rxInfo[Slot(x - 1)] \in 1 .. RxSize
      <4>1. rxInfo \in [SlotRange -> (1 .. RxSize) \union {None}]
        BY DEF IInv, Typing
      <4> QED  BY <3>5, <4>1
    <3>8. data[rxInfo[Slot(x - 1)]] = x
      BY <1>2, <3>2 DEF IInv, Written
    <3>9. ps[j] = x
      BY <1>7, <3>1, <3>2
    <3> QED  BY <1>14, <1>15, <3>6, <3>7, <3>8, <3>9
  <2>2. l = m + 1 => d2[rxInfo[Slot(ps[m + 1] - 1)]] = ps[m + 1]
    <3> SUFFICES ASSUME l = m + 1 PROVE d2[rxInfo[Slot(ps[m + 1] - 1)]] = ps[m + 1]
      OBVIOUS
    <3>1. ps[m + 1] = b + 1 /\ (b + 1) - 1 = b
      BY <1>7, <1>8
    <3>2. d2[rxInfo[slot]] = b + 1
      BY <1>14, <1>15
    <3> QED  BY <1>4, <3>1, <3>2
  <2>3. \A j \in cqCons + 1 .. l : j \in cqCons + 1 .. m \/ (j = m + 1 /\ l = m + 1)
    BY <1>3, <1>8
  <2> QED  BY <1>8, <2>1, <2>2, <2>3 DEF Written
<1>17. Typing'
  BY <1>1, <1>6, <1>7, <1>13, <1>15 DEF IInv, Typing
<1>18. InOrder'
  <2>1. l + n <= fetched /\ cqCons <= l
    BY <1>2, <1>3, <1>8
  <2>2. Len(fetching') = n /\ Len(completed') = l
    BY <1>6, <1>7, <1>8
  <2> QED  BY <1>1, <2>1, <2>2 DEF IInv, InOrder
<1>19. Delivered'
  <2>1. PICK a \in Nat, c \in Nat : a = Len(taken) /\ c = Len(pktQueue) /\ a + c = cqCons
    BY LenProperties DEF IInv, Typing, Delivered
  <2>2. /\ \A i \in 1 .. a : taken[i] = completed[0 + i]
        /\ \A i \in 1 .. c : pktQueue[i] = completed[a + i]
    BY <2>1 DEF IInv, Delivered, PartOf
  <2>3. /\ \A i \in 1 .. a : 0 + i \in 1 .. m
        /\ \A i \in 1 .. c : a + i \in 1 .. m
    BY <1>3, <2>1
  <2>4. \A i \in 1 .. m : ps[i] = completed[i]
    BY <1>7
  <2>5. PartOf(taken, ps, 0) /\ PartOf(pktQueue, ps, a)
    BY <2>1, <2>2, <2>3, <2>4 DEF PartOf
  <2> QED  BY <1>1, <1>7, <2>1, <2>5 DEF Delivered
<1>20. /\ RecordsOf(completions, completed, Begun)'
       /\ FetchesOf(fetching, rxInfo, Begun)'
       /\ Written(data, rxInfo, completed, cqCons)'
  BY <1>1, <1>6, <1>7, <1>9, <1>11, <1>12, <1>13, <1>16
<1> QED  BY <1>1, <1>9, <1>17, <1>18, <1>19, <1>20 DEF IInv, FreeCounted

-----------------------------------------------------------------------------
(* The ring starts full, with nothing received.                            *)
LEMMA InitHolds == Init => IInv
<1> SUFFICES ASSUME Init PROVE IInv
  OBVIOUS
<1>1. /\ rxProd = RxSize /\ rxCons = 0 /\ cqCons = 0 /\ handler = "idle"
      /\ rxInfo = [i \in SlotRange |-> i + 1] /\ desc = rxInfo
      /\ allocated = RxSize /\ freePackets = <<>>
      /\ pktQueue = <<>> /\ taken = <<>> /\ posted = <<>>
      /\ data = [b \in 1 .. RxSize |-> 0]
      /\ nicProd = RxSize /\ fetching = <<>> /\ fetched = 0 /\ arrived = 0
      /\ completions = <<>> /\ nicCqCons = 0 /\ completed = <<>>
  BY DEF Init
<1>2. /\ RxSize \in Nat \ {0} /\ MaxPackets \in Nat /\ Len(<<>>) = 0
      /\ DOMAIN <<>> = {} /\ 1 .. 0 = {} /\ 0 + 1 .. 0 = {}
  BY Sizes
<1>3. \A i \in SlotRange : i \in Nat /\ i + 1 \in 1 .. RxSize /\ rxInfo[i] = i + 1
  BY <1>1, <1>2 DEF SlotRange
<1>4. \A i \in SlotRange : rxInfo[i] # None
  BY <1>3, NoneAssumption
<1>5. Typing
  <2>1. \A S : <<>> \in Seq(S)
    BY EmptySeq
  <2>2. desc \in [SlotRange -> 1 .. RxSize]
    BY <1>1, <1>3
  <2>3. rxInfo \in [SlotRange -> (1 .. RxSize) \union {None}]
    BY <1>1, <1>3
  <2>4. data \in [1 .. RxSize -> Nat]
    BY <1>1
  <2> QED  BY <1>1, <1>2, <2>1, <2>2, <2>3, <2>4 DEF Typing
<1>6. InOrder
  BY <1>1, <1>2 DEF InOrder
<1>7. \A i \in SlotRange : Slot(i) = i /\ i \in 0 .. RxSize - 1
  BY <1>2 DEF Slot, SlotRange
<1>8. Out = 0 .. RxSize - 1
  BY <1>1, <1>2 DEF Out, Outstanding
<1>9. RingOf(rxInfo, desc, Out) /\ Ahead(Out, rxCons)
  <2>1. \A p \in 0 .. RxSize - 1 : p \in SlotRange /\ Slot(p) = p /\ 0 <= p
    BY <1>7 DEF SlotRange
  <2> QED  BY <1>1, <1>4, <1>7, <1>8, <2>1 DEF RingOf, Ahead
<1>10. PoolOf(freePackets, rxInfo)
  <2>1. \A b \in 1 .. RxSize : b - 1 \in SlotRange /\ (b - 1) + 1 = b
    BY <1>2 DEF SlotRange
  <2>2. \A b \in 1 .. RxSize : \E i \in SlotRange : rxInfo[i] = b
    BY <1>3, <2>1
  <2>3. \A i, j \in SlotRange : rxInfo[i] = rxInfo[j] => i = j
    BY <1>3
  <2> QED  BY <1>1, <1>2, <2>2, <2>3 DEF PoolOf
<1>11. FreeCounted
  BY <1>1, <1>2 DEF FreeCounted
<1>12. /\ RecordsOf(completions, completed, Begun) /\ FetchesOf(fetching, rxInfo, Begun)
       /\ Delivered /\ Written(data, rxInfo, completed, cqCons)
  BY <1>1, <1>2 DEF RecordsOf, FetchesOf, Delivered, PartOf, Written
<1>13. WritesOf(posted, nicProd, nicCqCons, rxProd, cqCons)
  BY <1>1, <1>2 DEF WritesOf
<1> QED  BY <1>5, <1>6, <1>9, <1>10, <1>11, <1>12, <1>13 DEF IInv

LEMMA Inductive == IInv /\ [Next]_vars => IInv'
<1> SUFFICES ASSUME IInv, [Next]_vars PROVE IInv'
  OBVIOUS
<1>1. CASE UNCHANGED vars
  <2>1. UNCHANGED <<Out, Begun>>
    BY <1>1 DEF vars, ringVars, nicVars, Out, Begun
  <2> QED  BY <1>1, <2>1
           DEF vars, ringVars, poolVars, recvVars, nicVars, IInv, Typing, InOrder, FreeCounted,
               Delivered
<1> QED  BY <1>1, ReadKeeps, ReplenishKeeps, ReceiverKeeps, DeliverKeeps, FetchKeeps, FinishKeeps
         DEF Next

LEMMA Invariant == Spec => []IInv
<1>1. IInv /\ [Next]_vars => IInv'
  BY Inductive
<1> QED  BY <1>1, InitHolds, PTL DEF Spec

-----------------------------------------------------------------------------
(* Every packet that has arrived is returned, queued, in the buffer of a   *)
(* completion not yet read or in a descriptor being filled, once and in    *)
(* order, or its completion was lost: although buffers are refilled while  *)
(* completions are unread, and although slots of lost packets stay in use. *)
THEOREM PacketsDelivered == Spec => []PacketsInOrder
<1>1. IInv => PacketsInOrder
  <2> SUFFICES ASSUME IInv PROVE PacketsInOrder
    OBVIOUS
  <2>1. PICK k \in Nat, lenF \in Nat, lenC \in Nat, b \in Nat, c \in Nat :
            /\ k = ToRead /\ lenF = Len(fetching) /\ lenC = Len(completed)
            /\ b = Begun /\ b + lenF = fetched /\ lenC <= b
            /\ c = cqCons /\ c + k = lenC
    BY UnreadFacts, Lengths
  <2>2. /\ taken \in Seq(Nat) /\ pktQueue \in Seq(Nat) /\ fetched = arrived
        /\ completed \in Seq(Nat) /\ fetching \in Seq(Fetch)
        /\ PartOf(taken, completed, 0) /\ PartOf(pktQueue, completed, Len(taken))
        /\ Len(taken) + Len(pktQueue) = c
    BY <2>1 DEF IInv, Typing, Delivered, InOrder
  <2>3. PICK n \in Nat, q \in Nat : n = Len(taken) /\ q = Len(pktQueue) /\ n + q = c
    BY <2>2, LenProperties
  <2>4. PICK s : s = taken \o pktQueue
    OBVIOUS
  <2>5. s \in Seq(Nat) /\ Len(s) = c /\ \A i \in 1 .. c : s[i] = completed[i]
    <3>1. /\ s \in Seq(Nat) /\ Len(s) = c
          /\ \A i \in 1 .. n : s[i] = taken[i]
          /\ \A i \in 1 .. q : s[n + i] = pktQueue[i]
      <4>1. s \in Seq(Nat) /\ JoinOf(s, taken, pktQueue, n, q)
        BY <2>2, <2>3, <2>4, Joined
      <4> QED  BY <2>3, <4>1 DEF JoinOf
    <3>2. /\ \A i \in 1 .. n : taken[i] = completed[0 + i]
          /\ \A i \in 1 .. q : pktQueue[i] = completed[n + i]
      BY <2>2, <2>3 DEF PartOf
    <3>3. ASSUME NEW i \in 1 .. c PROVE s[i] = completed[i]
      <4>1. CASE i \in 1 .. n
        <5>1. 0 + i = i
          OBVIOUS
        <5> QED  BY <3>1, <3>2, <4>1, <5>1
      <4>2. CASE i \notin 1 .. n
        <5>1. i - n \in 1 .. q /\ n + (i - n) = i
          BY <2>3, <4>2
        <5>2. PICK j \in 1 .. q : n + j = i
          BY <5>1
        <5> QED  BY <3>1, <3>2, <5>2
      <4> QED  BY <4>1, <4>2
    <3> QED  BY <3>1, <3>3
  <2>6. PICK t : t = [j \in DOMAIN Unread |-> data[rxInfo[Unread[j]]]]
    OBVIOUS
  <2>7. t \in Seq(Nat) /\ Len(t) = k /\ \A j \in 1 .. k : t[j] = completed[c + j]
    <3>1. t = [j \in 1 .. k |-> NextRead(j)]
      BY <2>1, <2>6, UnreadFacts
    <3>2. t \in [1 .. k -> Nat]
      BY <2>1, <3>1, UnreadFacts
    <3>3. t \in Seq(Nat) /\ Len(t) = k
      BY <3>2, SeqOfFunction
    <3>4. \A j \in 1 .. k : t[j] = completed[c + j]
      BY <2>1, <3>1 DEF NextRead
    <3> QED  BY <3>3, <3>4
  <2>8. PICK st : st = s \o t
    OBVIOUS
  <2>9. st \in Seq(Nat) /\ Len(st) = lenC /\ \A i \in 1 .. lenC : st[i] = completed[i]
    <3>1. /\ st \in Seq(Nat) /\ Len(st) = c + k
          /\ \A i \in 1 .. c : st[i] = s[i]
          /\ \A j \in 1 .. k : st[c + j] = t[j]
      <4>1. s \in Seq(Nat) /\ t \in Seq(Nat) /\ c = Len(s) /\ k = Len(t) /\ st = s \o t
        BY <2>5, <2>7, <2>8
      <4>2. st \in Seq(Nat) /\ JoinOf(st, s, t, c, k)
        BY <4>1, Joined
      <4> QED  BY <4>2 DEF JoinOf
    <3>2. ASSUME NEW i \in 1 .. lenC PROVE st[i] = completed[i]
      <4>1. CASE i \in 1 .. c
        BY <2>5, <3>1, <4>1
      <4>2. CASE i \notin 1 .. c
        <5>1. i - c \in 1 .. k /\ c + (i - c) = i
          BY <2>1, <4>2
        <5>2. PICK j \in 1 .. k : c + j = i
          BY <5>1
        <5> QED  BY <2>7, <3>1, <5>2
      <4> QED  BY <4>1, <4>2
    <3> QED  BY <2>1, <3>1, <3>2
  <2>10. PICK f : f = [j \in DOMAIN fetching |-> fetching[j].packet]
    OBVIOUS
  <2>11. DOMAIN fetching = 1 .. lenF /\ \A j \in 1 .. lenF : fetching[j].packet = b + j
    BY <2>1, <2>2, LenProperties DEF IInv, FetchesOf
  <2>12. f \in Seq(Nat) /\ Len(f) = lenF /\ \A j \in 1 .. lenF : f[j] = b + j
    <3>1. f \in [1 .. lenF -> Nat] /\ \A j \in 1 .. lenF : f[j] = b + j
      BY <2>10, <2>11
    <3> QED  BY <3>1, SeqOfFunction
  <2>13. PICK u : u = st \o f
    OBVIOUS
  <2>14. /\ DOMAIN u = 1 .. lenC + lenF
         /\ \A i \in 1 .. lenC : u[i] = completed[i]
         /\ \A j \in 1 .. lenF : u[lenC + j] = b + j
    <3>1. /\ DOMAIN u = 1 .. lenC + lenF
          /\ \A i \in 1 .. lenC : u[i] = st[i]
          /\ \A j \in 1 .. lenF : u[lenC + j] = f[j]
      <4>1. st \in Seq(Nat) /\ f \in Seq(Nat) /\ lenC = Len(st) /\ lenF = Len(f) /\ u = st \o f
        BY <2>9, <2>12, <2>13
      <4>2. JoinOf(u, st, f, lenC, lenF)
        BY <4>1, Joined
      <4> QED  BY <4>2 DEF JoinOf
    <3> QED  BY <2>9, <2>12, <3>1
  <2>15. u = Underway
    BY <2>4, <2>6, <2>8, <2>10, <2>13 DEF Underway
  <2>16. \A i \in 1 .. lenC : /\ completed[i] \in 1 .. b
                              /\ \A j \in 1 .. lenC : j < i => completed[j] < completed[i]
    BY <2>1 DEF IInv, RecordsOf
  <2>17. \A i \in 1 .. lenC + lenF : i \in 1 .. lenC \/ \E j \in 1 .. lenF : i = lenC + j
    <3> SUFFICES ASSUME NEW i \in 1 .. lenC + lenF, i \notin 1 .. lenC
                 PROVE  \E j \in 1 .. lenF : i = lenC + j
      OBVIOUS
    <3>1. i - lenC \in 1 .. lenF /\ i = lenC + (i - lenC)
      OBVIOUS
    <3> QED  BY <3>1
  <2>18. ASSUME NEW i \in 1 .. lenC + lenF, NEW j \in 1 .. lenC + lenF, i < j
         PROVE  u[i] < u[j]
    <3>1. CASE j \in 1 .. lenC
      <4>1. i \in 1 .. lenC
        BY <2>18, <3>1
      <4> QED  BY <2>14, <2>16, <2>18, <3>1, <4>1
    <3>2. CASE i \in 1 .. lenC /\ \E y \in 1 .. lenF : j = lenC + y
      BY <2>14, <2>16, <3>2
    <3>3. CASE (\E x \in 1 .. lenF : i = lenC + x) /\ (\E y \in 1 .. lenF : j = lenC + y)
      <4>1. PICK x \in 1 .. lenF, y \in 1 .. lenF : i = lenC + x /\ j = lenC + y
        BY <3>3
      <4>2. u[i] = b + x /\ u[j] = b + y
        BY <2>14, <4>1
      <4>3. x < y
        BY <2>18, <4>1
      <4> QED  BY <4>2, <4>3
    <3>4. i \in 1 .. lenC \/ j \notin 1 .. lenC
      BY <2>18
    <3> QED  BY <2>17, <3>1, <3>2, <3>3, <3>4
  <2>19. DOMAIN completed = 1 .. lenC
    BY <2>1, <2>2, LenProperties
  <2>20. {fetching[j].packet : j \in DOMAIN fetching} = {b + j : j \in 1 .. lenF}
    BY <2>11
  <2>21. {u[i] : i \in 1 .. lenC + lenF} =
            {completed[i] : i \in 1 .. lenC} \union {b + j : j \in 1 .. lenF}
    <3>1. \A i \in 1 .. lenC : i \in 1 .. lenC + lenF
      OBVIOUS
    <3>2. \A j \in 1 .. lenF : lenC + j \in 1 .. lenC + lenF
      OBVIOUS
    <3>3. ASSUME NEW i \in 1 .. lenC + lenF
          PROVE  u[i] \in {completed[x] : x \in 1 .. lenC} \union {b + j : j \in 1 .. lenF}
      BY <2>14, <2>17
    <3>4. ASSUME NEW x \in 1 .. lenC PROVE completed[x] \in {u[i] : i \in 1 .. lenC + lenF}
      BY <2>14, <3>1
    <3>5. ASSUME NEW j \in 1 .. lenF PROVE b + j \in {u[i] : i \in 1 .. lenC + lenF}
      BY <2>14, <3>2
    <3> QED  BY <3>3, <3>4, <3>5
  <2>22. {completed[i] : i \in 1 .. lenC} \union {b + j : j \in 1 .. lenF} \subseteq 1 .. arrived
    <3>1. \A i \in 1 .. lenC : completed[i] \in 1 .. arrived
      BY <2>1, <2>2, <2>16
    <3>2. \A j \in 1 .. lenF : b + j \in 1 .. arrived
      BY <2>1, <2>2
    <3> QED  BY <3>1, <3>2
  <2>23. ToSet(Underway) = 1 .. arrived \ Lost
    <3>1. ToSet(Underway) = {u[i] : i \in 1 .. lenC + lenF}
      BY <2>14, <2>15 DEF ToSet
    <3>2. Lost = (1 .. arrived) \ ({completed[i] : i \in 1 .. lenC} \union {b + j : j \in 1 .. lenF})
      BY <2>19, <2>20 DEF Lost, ToSet
    <3> QED  BY <2>21, <2>22, <3>1, <3>2
  <2> QED  BY <2>14, <2>15, <2>18, <2>23 DEF PacketsInOrder
<1> QED  BY <1>1, Invariant, PTL

(* Every buffer is on the free list or in one slot, once; the descriptors  *)
(* the hardware is to fetch are the ones the driver remembers, and the     *)
(* pool is never found empty, so that no buffer is made.                   *)
THEOREM BuffersNeverLost == Spec => []BuffersConserved
<1>1. IInv => BuffersConserved
  <2> SUFFICES ASSUME IInv PROVE BuffersConserved
    OBVIOUS
  <2>1. /\ allocated = RxSize /\ RxSize \in Nat
        /\ freePackets \in Seq(1 .. RxSize)
        /\ rxInfo \in [SlotRange -> (1 .. RxSize) \union {None}]
        /\ PoolOf(freePackets, rxInfo)
    BY Sizes DEF IInv, Typing
  <2>2. \A b \in 1 .. RxSize : b # None
    BY <2>1, NoneAssumption
  <2>3. IsInjective(freePackets)
    BY <2>1 DEF PoolOf, IsInjective
  <2>4. ToSet(freePackets) \intersect Held = {}
    BY <2>1 DEF PoolOf, ToSet, Held, Buffers
  <2>5. ToSet(freePackets) \union Held = Buffers
    <3>1. \A b \in 1 .. RxSize : b \in Held \/ b \in ToSet(freePackets)
      BY <2>1 DEF PoolOf, ToSet, Held, Buffers
    <3>2. ToSet(freePackets) \subseteq 1 .. RxSize
      BY <2>1, LenProperties, ElementOfSeq DEF ToSet
    <3> QED  BY <2>1, <3>1, <3>2 DEF Held, Buffers
  <2> DEFINE Full == {i \in SlotRange : rxInfo[i] # None}
             f == [i \in Full |-> rxInfo[i]]
  <2>6. Cardinality(Held) = Cardinality(Full)
    <3>1. IsFiniteSet(Held)
      <4>1. IsFiniteSet(1 .. RxSize)
        BY <2>1, FS_Interval
      <4> QED  BY <2>1, <4>1, FS_Subset DEF Held, Buffers
    <3>2. f \in [Full -> Held]
      <4> SUFFICES ASSUME NEW i \in Full PROVE rxInfo[i] \in Held
        OBVIOUS
      <4> QED  BY <2>1 DEF Held, Buffers
    <3>3. \A i, j \in Full : f[i] = f[j] => i = j
      BY <2>1 DEF PoolOf
    <3>4. \A b \in Held : \E i \in Full : f[i] = b
      BY <2>1, <2>2 DEF Held, Buffers
    <3> HIDE DEF f, Full
    <3>5. f \in Bijection(Full, Held)
      <4>1. f \in Injection(Full, Held)
        BY <3>2, <3>3 DEF Injection, IsInjective
      <4>2. f \in Surjection(Full, Held)
        BY <3>2, <3>4 DEF Surjection
      <4> QED  BY <4>1, <4>2 DEF Bijection
    <3>6. ExistsBijection(Held, Full)
      BY <3>5, Fun_ExistsBijSymmetric DEF ExistsBijection
    <3> QED  BY <3>1, <3>6, FS_Bijection
  <2>7. \A p \in fetched .. nicProd - 1 : rxInfo[Slot(p)] = desc[Slot(p)]
    <3>1. /\ Begun \in Nat /\ fetched \in Nat /\ nicProd \in Nat /\ rxProd \in Nat
          /\ Begun <= fetched /\ nicProd <= rxProd
      BY Lengths DEF IInv, Typing, InOrder
    <3>2. \A p \in fetched .. nicProd - 1 : p \in Begun .. rxProd - 1
      BY <3>1
    <3> QED  BY <3>2, NotBegun DEF IInv, RingOf
  <2>8. \A j \in DOMAIN fetching : rxInfo[fetching[j].slot] = fetching[j].buffer
    BY LenProperties DEF IInv, Typing, FetchesOf
  <2> QED  BY <2>1, <2>3, <2>4, <2>5, <2>6, <2>7, <2>8 DEF BuffersConserved
<1> QED  BY <1>1, Invariant, PTL

-----------------------------------------------------------------------------
(* With a record for every descriptor the records are those of all packets *)
(* no longer being written.                                                *)
AllRecorded ==
    /\ Len(completed) + Len(fetching) = fetched
    /\ \A j \in 1 .. Len(completed) : completed[j] = j

(* The hardware has not fetched further than a ring beyond the consumer    *)
(* pointer it knows, however late that is.                                 *)
LEMMA NeverFull ==
    ASSUME CqSize >= RxSize, IInv, AllRecorded, fetching # <<>>
    PROVE  ~CqFull
<1>1. PICK m \in Nat, n \in Nat :
        m = Len(completed) /\ m = Len(completions) /\ n = Len(fetching) /\ m + n = fetched
  BY Lengths DEF AllRecorded
<1>2. n # 0
  BY <1>1, EmptySeq, LenProperties DEF IInv, Typing
<1>3. /\ fetched \in Nat /\ nicProd \in Nat /\ nicCqCons \in Nat
      /\ fetched <= nicProd /\ nicProd <= nicCqCons + RxSize
  BY DEF IInv, Typing, InOrder, WritesOf
<1> QED  BY <1>1, <1>2, <1>3, Sizes DEF CqFull

LEMMA RecordedInductive ==
    ASSUME CqSize >= RxSize, IInv, AllRecorded, [Next]_vars
    PROVE  AllRecorded'
<1>1. CASE UNCHANGED <<completed, fetching, fetched>>
  BY <1>1 DEF AllRecorded
<1>2. PICK m \in Nat, n \in Nat :
        /\ m = Len(completed) /\ n = Len(fetching) /\ m + n = fetched
        /\ m = Len(completions) /\ \A j \in 1 .. m : completed[j] = j
  BY Lengths DEF AllRecorded
<1>3. completed \in Seq(Nat) /\ fetching \in Seq(Fetch) /\ fetched \in Nat
  BY DEF IInv, Typing
<1>4. CASE FetchDesc
  <2>1. PICK x : fetching' = Append(fetching, x)
    BY <1>4 DEF FetchDesc
  <2>2. UNCHANGED completed /\ fetched' = fetched + 1
    BY <1>4 DEF FetchDesc
  <2>3. fetching \in Seq(Fetch \union {x}) /\ x \in Fetch \union {x}
    BY <1>3, SeqMonotonic
  <2>4. Len(fetching') = n + 1
    BY <1>2, <2>1, <2>3, AppendProperties
  <2>5. Len(completed') = m
    BY <1>2, <2>2
  <2>6. m + (n + 1) = fetched'
    <3>1. m + (n + 1) = fetched + 1
      BY <1>2
    <3> QED  BY <2>2, <3>1
  <2>7. \A j \in 1 .. m : completed'[j] = j
    BY <1>2, <2>2
  <2> QED  BY <2>4, <2>5, <2>6, <2>7 DEF AllRecorded
<1>5. CASE FinishPacket
  <2>1. fetching # <<>> /\ fetching' = Tail(fetching) /\ UNCHANGED fetched
    BY <1>5 DEF FinishPacket
  <2>2. ~CqFull
    BY <2>1, NeverFull
  <2>3. completed' = Append(completed, Head(fetching).packet)
    BY <1>5, <2>2 DEF FinishPacket
  <2>4. n # 0 /\ Len(Tail(fetching)) = n - 1
    BY <1>2, <1>3, <2>1, HeadTailProperties, EmptySeq
  <2>5. Head(fetching).packet = m + 1
    <3>1. Head(fetching) = fetching[1] /\ 1 \in 1 .. n
      BY <1>2, <2>4
    <3>2. Begun = m
      BY <1>2 DEF Begun
    <3> QED  BY <1>2, <3>1, <3>2 DEF IInv, FetchesOf
  <2>6. PICK x \in Nat : x = m + 1 /\ completed' = Append(completed, x)
    BY <2>3, <2>5
  <2>7. /\ Len(completed') = m + 1 /\ completed'[m + 1] = x
        /\ \A j \in 1 .. m : completed'[j] = completed[j]
    <3>1. PICK c \in Seq(Nat) : c = completed
      BY <1>3
    <3>2. m = Len(c) /\ completed' = Append(c, x)
      BY <1>2, <2>6, <3>1
    <3>3. Len(Append(c, x)) = m + 1 /\ Append(c, x)[m + 1] = x
          /\ \A j \in 1 .. m : Append(c, x)[j] = c[j]
      BY <3>2, AppendProperties
    <3> QED  BY <3>1, <3>2, <3>3
  <2>8. \A j \in 1 .. m + 1 : j \in 1 .. m \/ j = m + 1
    OBVIOUS
  <2>9. \A j \in 1 .. m + 1 : completed'[j] = j
    BY <1>2, <2>6, <2>7, <2>8
  <2>10. (m + 1) + (n - 1) = fetched
    BY <1>2
  <2> QED  BY <2>1, <2>4, <2>7, <2>9, <2>10 DEF AllRecorded
<1>6. ReadCompletions \/ Replenish \/ DeliverWrite \/ UNCHANGED vars
      => UNCHANGED <<completed, fetching, fetched>>
  BY DEF ReadCompletions, Replenish, DeliverWrite, vars, nicVars
<1>7. (\E v \in Receiver : Recv(v) \/ ResumeRecv(v) \/ Wait(v) \/ ResumeWait(v))
      => UNCHANGED <<completed, fetching, fetched>>
  BY DEF Recv, ResumeRecv, Wait, ResumeWait, nicVars
<1> QED  BY <1>1, <1>4, <1>5, <1>6, <1>7 DEF Next

NothingLost == Lost = {}

(* A completion queue with a record for every descriptor of its ring, as   *)
(* the kernel driver opens the two (mqnic_netdev.c:39, 68), never loses a  *)
(* completion, although its consumer pointer reaches the hardware late.    *)
THEOREM SizedQueueLosesNothing == CqSize >= RxSize => (Spec => []NothingLost)
<1> SUFFICES ASSUME CqSize >= RxSize PROVE Spec => []NothingLost
  OBVIOUS
<1>1. Init => AllRecorded
  BY DEF Init, AllRecorded
<1>2. IInv /\ AllRecorded /\ [Next]_vars => AllRecorded'
  BY RecordedInductive
<1>3. IInv /\ AllRecorded => NothingLost
  <2> SUFFICES ASSUME IInv, AllRecorded PROVE NothingLost
    OBVIOUS
  <2>1. PICK m \in Nat, n \in Nat :
          /\ m = Len(completed) /\ n = Len(fetching) /\ m + n = fetched
          /\ \A j \in 1 .. m : completed[j] = j
    BY Lengths DEF AllRecorded
  <2>2. DOMAIN completed = 1 .. m /\ DOMAIN fetching = 1 .. n /\ fetched = arrived
    BY <2>1, LenProperties DEF IInv, Typing, InOrder
  <2>3. \A j \in 1 .. n : fetching[j].packet = m + j
    <3>1. Begun = m
      BY <2>1 DEF Begun
    <3> QED  BY <2>1, <3>1 DEF IInv, FetchesOf
  <2>4. ASSUME NEW p \in 1 .. m + n, p \notin 1 .. m
        PROVE  p \in {fetching[j].packet : j \in DOMAIN fetching}
    <3>1. p - m \in 1 .. n /\ m + (p - m) = p
      BY <2>4
    <3>2. PICK j \in 1 .. n : m + j = p
      BY <3>1
    <3> QED  BY <2>2, <2>3, <3>2
  <2>5. \A p \in 1 .. m : p \in ToSet(completed)
    BY <2>1, <2>2 DEF ToSet
  <2>6. \A p \in 1 .. arrived :
            p \in ToSet(completed) \/ p \in {fetching[j].packet : j \in DOMAIN fetching}
    BY <2>1, <2>2, <2>4, <2>5
  <2> QED  BY <2>6 DEF NothingLost, Lost
<1> QED  BY <1>1, <1>2, <1>3, Invariant, PTL DEF Spec

-----------------------------------------------------------------------------
(* A receiver alone wakes up to a packet.  Whether records are lost makes  *)
(* no difference to it.                                                    *)
Woke ==
    /\ cameEmpty = FALSE
    /\ DOMAIN recv = Receiver
    /\ \A v \in Receiver : recv[v] = "recvWoken" => pktQueue # <<>>
    /\ \E S : pktQueue \in Seq(S)
    /\ \E S : completions \in Seq(S)
    /\ cqCons \in Nat

(* process_rx_cq adds a packet or more.                                    *)
LEMMA WokenToPackets ==
    ASSUME Woke, ReadCompletions
    PROVE  /\ pktQueue' # <<>> /\ \E S : pktQueue' \in Seq(S)
           /\ cqCons' \in Nat
<1>1. PICK S : completions \in Seq(S)
  BY DEF Woke
<1>2. PICK T : pktQueue \in Seq(T)
  BY DEF Woke
<1>3. PICK n \in Nat : n = Len(completions) /\ \A j \in 1 .. n : completions[j] \in S
  BY <1>1, LenProperties, ElementOfSeq
<1>4. PICK u \in Seq(S) : u = Unread
  <2>1. cqCons + 1 \in Int /\ \A j \in cqCons + 1 .. n : j \in 1 .. n
    BY DEF Woke
  <2>2. SubSeq(completions, cqCons + 1, n) \in Seq(S)
    BY <1>3, <2>1, SubSeqProperties
  <2> QED  BY <1>3, <2>2 DEF Unread
<1>5. u # <<>> /\ DOMAIN u = 1 .. Len(u) /\ Len(u) \in Nat \ {0}
  BY <1>4, LenProperties, EmptySeq DEF ReadCompletions
<1>6. PICK k \in Nat \ {0} : k = Len(u)
  BY <1>5
<1>7. PICK new : new = [j \in 1 .. k |-> data[rxInfo[u[j]]]]
  OBVIOUS
<1>8. pktQueue' = pktQueue \o new
  BY <1>4, <1>5, <1>6, <1>7 DEF ReadCompletions, Packets
<1>9. PICK U : U = T \union {new[j] : j \in 1 .. k}
  OBVIOUS
<1>10. new \in Seq(U) /\ Len(new) = k
  <2>1. new \in [1 .. k -> U]
    BY <1>7, <1>9
  <2> QED  BY <2>1, SeqOfFunction
<1>11. pktQueue \in Seq(U)
  BY <1>2, <1>9, SeqMonotonic
<1>12. PICK m \in Nat : m = Len(pktQueue)
  BY <1>11, LenProperties
<1>13. PICK q \in Seq(U) : q = pktQueue' /\ Len(q) = m + k
  BY <1>8, <1>10, <1>11, <1>12, ConcatProperties
<1>14. q # <<>>
  <2>1. Len(<<>>) = 0 /\ m + k # 0
    OBVIOUS
  <2> QED  BY <1>13, <2>1
<1>15. cqCons' \in Nat
  BY <1>3 DEF ReadCompletions
<1> QED  BY <1>13, <1>14, <1>15

(* recv returns a packet, never None, if only one coroutine receives: the  *)
(* event is cleared before each sleep, and none else takes the packet.     *)
THEOREM RecvNeverEmpty == (\A u, v \in Receiver : u = v) => (Spec => []RecvReturnsPacket)
<1> SUFFICES ASSUME \A u, v \in Receiver : u = v PROVE Spec => []RecvReturnsPacket
  OBVIOUS
<1>1. Init => Woke
  <2>1. <<>> \in Seq({})
    BY EmptySeq
  <2> QED  BY <2>1 DEF Init, Woke
<1>2. Woke /\ [Next]_vars => Woke'
  <2> SUFFICES ASSUME Woke, [Next]_vars PROVE Woke'
    OBVIOUS
  <2>1. CASE ReadCompletions
    <3>1. UNCHANGED <<cameEmpty, completions>> /\ DOMAIN recv' = Receiver
      BY <2>1 DEF ReadCompletions, nicVars
    <3> QED  BY <2>1, <3>1, WokenToPackets DEF Woke
  <2>2. CASE Replenish \/ DeliverWrite \/ FetchDesc \/ UNCHANGED vars
    BY <2>2 DEF Replenish, DeliverWrite, FetchDesc, vars, recvVars, nicVars, Woke
  <2>3. CASE FinishPacket
    <3>1. UNCHANGED <<cameEmpty, recv, pktQueue, cqCons>>
      BY <2>3 DEF FinishPacket, recvVars
    <3>2. PICK S, x : completions \in Seq(S) /\ completions' \in {completions, Append(completions, x)}
      BY <2>3 DEF FinishPacket, Woke
    <3>3. completions \in Seq(S \union {x}) /\ x \in S \union {x}
      BY <3>2, SeqMonotonic
    <3>4. completions' \in Seq(S \union {x})
      BY <3>2, <3>3, AppendProperties
    <3> QED  BY <3>1, <3>4 DEF Woke
  <2>4. ASSUME NEW v \in Receiver, Recv(v) \/ ResumeRecv(v) \/ Wait(v) \/ ResumeWait(v)
        PROVE  Woke'
    <3>1. UNCHANGED <<completions, cqCons>>
      BY <2>4 DEF Recv, ResumeRecv, Wait, ResumeWait, nicVars
    <3>2. DOMAIN recv' = Receiver /\ recv'[v] # "recvWoken"
      BY <2>4 DEF Recv, ResumeRecv, Wait, ResumeWait, Cleared, Woke
    <3>3. cameEmpty' = FALSE
      BY <2>4 DEF Recv, ResumeRecv, Wait, ResumeWait, Woke
    <3>4. \E S : pktQueue' \in Seq(S)
      <4>1. PICK S : pktQueue \in Seq(S)
        BY DEF Woke
      <4>2. CASE pktQueue' = pktQueue
        BY <4>1, <4>2
      <4>3. CASE pktQueue # <<>> /\ pktQueue' = Tail(pktQueue)
        BY <4>1, <4>3, HeadTailProperties
      <4> QED  BY <2>4, <4>2, <4>3 DEF Recv, ResumeRecv, Wait, ResumeWait, TakePacket
    <3> QED  BY <3>1, <3>2, <3>3, <3>4 DEF Woke
  <2> QED  BY <2>1, <2>2, <2>3, <2>4 DEF Next
<1>3. Woke => RecvReturnsPacket
  BY DEF Woke, RecvReturnsPacket
<1> QED  BY <1>1, <1>2, <1>3, PTL DEF Spec
=============================================================================
