-------------------------- MODULE PsdpMemory_proofs --------------------------
(***************************************************************************)
(* The RAM never overwrites an answer nobody has taken, and every byte of  *)
(* a call of write goes where it belongs, in the order of the calls and    *)
(* before the call returns; and what a call of read returns is no older    *)
(* than the writes that had returned when it was called: for any number    *)
(* and width of segments, any transfers and any pauses of either side.     *)
(*                                                                         *)
(* The second has four parts: division, what the pieces of a transfer are, *)
(* the invariant with a lemma for every step, and the theorem.  The third  *)
(* has two before its invariant and steps: how the pieces are put together *)
(* again, and what the steps of the write half mean to the reads.          *)
(***************************************************************************)
EXTENDS PsdpMemory, FiniteSetTheorems, SequenceTheorems, TLAPS

(* What cmd_ready promises: while it is high, one of the two places for an *)
(* answer is free.  The edge that takes a command relies on the promise    *)
(* of the edge before it, so this is what makes NoAnswerOverrun inductive. *)
ReadyMeansRoom ==
    \A s \in Seg : rdReady[s] => rdResp[s] = None \/ pipeline[s] = None

(* At first every channel is empty. *)
LEMMA RoomInit == Init => ReadyMeansRoom
BY DEF Init, ReadInit, ReadyMeansRoom

(* Every clock edge renews the promise from the answers it leaves behind,  *)
(* reset takes it back, and nothing else touches either.                   *)
LEMMA RoomKept == ReadyMeansRoom /\ [Next]_vars => ReadyMeansRoom'
<1> SUFFICES ASSUME ReadyMeansRoom, [Next]_vars
             PROVE  ReadyMeansRoom'
  OBVIOUS
<1>1. CASE Write
  BY <1>1 DEF Write, readVars, ReadyMeansRoom
<1>2. CASE Read
  BY <1>2 DEF Read, CallRead, ReadyMeansRoom
<1>3. CASE Return
  BY <1>3 DEF Return, ReturnRead, readVars, ReadyMeansRoom
<1>4. CASE ClockEdge
  <2>1. PICK pw, pm, pr, pa, pq \in BOOLEAN : Edge(pw, pm, pr, pa, pq)
    BY <1>4 DEF ClockEdge, MasterPauses
  <2>2. PICK m \in {mem, Stored} : ReadEdge(pr, pa, pq, m)
    BY <2>1 DEF Edge
  <2>3. rdReady' = [s \in Seg |-> ~pq /\ HasRoom(rdResp'[s], pipeline'[s])]
    BY <2>2 DEF ReadEdge, RamReadEdge
  <2>4. QED
    BY <2>3 DEF HasRoom, ReadyMeansRoom
<1>5. CASE ResetEdge
  BY <1>5 DEF ResetEdge, ReadReset, ReadyMeansRoom
<1>6. CASE UNCHANGED vars
  BY <1>6 DEF vars, readVars, ReadyMeansRoom
<1>7. QED
  BY <1>1, <1>2, <1>3, <1>4, <1>5, <1>6 DEF Next

(* A question is taken from the bus only when its answer has somewhere to  *)
(* go: cmd_ready of the RAM, dma_psdp_ram.py:961.                          *)
THEOREM AnswersSafe == Spec => []NoAnswerOverrun
<1>1. ReadyMeansRoom => NoAnswerOverrun
  BY DEF ReadyMeansRoom, NoAnswerOverrun, Asked, BusFree
<1>2. QED
  BY <1>1, RoomInit, RoomKept, PTL DEF Spec
-----------------------------------------------------------------------------
(* Division                                                                *)

(* Quotient and remainder are what they ought to be.                       *)
LEMMA DivMod ==
    ASSUME NEW a \in Int, NEW m \in Nat \ {0}
    PROVE  /\ a \div m \in Int /\ a % m \in 0 .. m - 1 /\ a = m * (a \div m) + (a % m)
           /\ a \in Nat => a \div m \in Nat
<1>1. a \div m \in Int
  OBVIOUS
<1>2. a % m \in 0 .. m - 1
  OBVIOUS
<1>3. a = m * (a \div m) + (a % m)
  OBVIOUS
<1>4. ASSUME a \in Nat PROVE a \div m \in Nat
  BY <1>4
<1> QED  BY <1>1, <1>2, <1>3, <1>4

(* The quotient of a natural number is one.                                *)
LEMMA DivNat ==
    ASSUME NEW a \in Nat, NEW m \in Nat \ {0}
    PROVE  a \div m \in Nat
OBVIOUS

(* No other quotient and remainder are.                                    *)
LEMMA DivModUnique ==
    ASSUME NEW m \in Nat \ {0}, NEW x \in Int, NEW y \in 0 .. m - 1
    PROVE  (m * x + y) \div m = x /\ (m * x + y) % m = y
<1> DEFINE a == m * x + y
           d == a \div m
           r == a % m
<1>1. a \in Int /\ d \in Int /\ r \in 0 .. m - 1 /\ a = m * d + r /\ m * x \in Int
  OBVIOUS
<1>2. a = m * x + y
  OBVIOUS
<1> HIDE DEF a, d, r
<1>3. CASE d = x
  BY <1>1, <1>2, <1>3 DEF d, r, a
<1>4. CASE d > x
  <2>1. PICK e \in Nat : d = x + 1 + e
    <3>1. d - x - 1 \in Nat /\ d = x + 1 + (d - x - 1)
      BY <1>1, <1>4
    <3> QED  BY <3>1
  <2>2. m * d = m * x + m + m * e /\ m * e \in Nat
    BY <2>1
  <2> QED  BY <1>1, <1>2, <2>2
<1>5. CASE d < x
  <2>1. PICK e \in Nat : x = d + 1 + e
    <3>1. x - d - 1 \in Nat /\ x = d + 1 + (x - d - 1)
      BY <1>1, <1>5
    <3> QED  BY <3>1
  <2>2. m * x = m * d + m + m * e /\ m * e \in Nat
    BY <1>1, <2>1
  <2> QED  BY <1>1, <1>2, <2>2
<1> QED  BY <1>1, <1>3, <1>4, <1>5

(* A multiple of the divisor shifts the quotient.                          *)
LEMMA DivShift ==
    ASSUME NEW m \in Nat \ {0}, NEW a \in Int, NEW k \in Int
    PROVE  (a + m * k) \div m = a \div m + k /\ (a + m * k) % m = a % m
<1>1. a \div m \in Int /\ a % m \in 0 .. m - 1 /\ a = m * (a \div m) + (a % m)
  BY DivMod
<1> DEFINE d == a \div m
           r == a % m
<1>2. d + k \in Int /\ a + m * k = m * (d + k) + r
  <2>1. d \in Int /\ a = m * d + r
    BY <1>1
  <2> HIDE DEF d, r
  <2>2. m * (d + k) = m * d + m * k
    BY <2>1
  <2>3. m * d \in Int /\ m * k \in Int /\ r \in Int
    BY <1>1, <2>1 DEF r
  <2> QED  BY <2>1, <2>2, <2>3
<1>3. (m * (d + k) + r) \div m = d + k /\ (m * (d + k) + r) % m = r
  BY <1>1, <1>2, DivModUnique
<1> QED  BY <1>2, <1>3

(* Dividing twice is dividing by the product.                              *)
LEMMA DivDiv ==
    ASSUME NEW m \in Nat \ {0}, NEW l \in Nat \ {0}, NEW a \in Int
    PROVE  a \div (l * m) = (a \div m) \div l
<1> DEFINE d == a \div m
           r == a % m
           e == d \div l
           f == d % l
<1>1. d \in Int /\ r \in 0 .. m - 1 /\ a = m * d + r
  BY DivMod
<1>2. e \in Int /\ f \in 0 .. l - 1 /\ d = l * e + f
  BY <1>1, DivMod
<1> HIDE DEF d, r, e, f
<1>3. a = (l * m) * e + (m * f + r)
  <2>1. m * (l * e + f) = (l * m) * e + m * f
    BY <1>2
  <2> QED  BY <1>1, <1>2, <2>1
<1>4. l * m \in Nat \ {0}
  OBVIOUS
<1>5. m * f + r \in 0 .. l * m - 1
  <2>1. PICK g \in Nat : l = f + 1 + g
    <3>1. l - f - 1 \in Nat /\ l = f + 1 + (l - f - 1)
      BY <1>2
    <3> QED  BY <3>1
  <2>2. l * m = m * f + m + m * g /\ m * g \in Nat /\ m * f \in Nat
    BY <1>2, <2>1
  <2> QED  BY <1>1, <2>2
<1>6. ((l * m) * e + (m * f + r)) \div (l * m) = e
  BY <1>2, <1>4, <1>5, DivModUnique
<1> QED  BY <1>3, <1>6 DEF e, d

-----------------------------------------------------------------------------
(* Pieces of a transfer                                                    *)

(* What is a number.                                                       *)
LEMMA Numbers ==
    /\ SegCount \in Nat \ {0} /\ SegBytes \in Nat \ {0} /\ Words \in Nat \ {0}
    /\ ByteLanes \in Nat \ {0} /\ Size \in Nat \ {0}
<1>1. SegCount \in Nat \ {0} /\ SegBytes \in Nat \ {0} /\ Words \in Nat \ {0}
  BY BusAssumption
<1>2. ByteLanes \in Nat \ {0}
  BY <1>1 DEF ByteLanes
<1>3. Size \in Nat \ {0}
  BY <1>1, <1>2 DEF Size
<1> QED  BY <1>1, <1>2, <1>3

(* Piece k of a transfer is block k of its bytes, counted from the block   *)
(* the transfer begins in.                                                 *)
LEMMA PieceIsBlock ==
    ASSUME NEW addr \in Nat, NEW k \in Nat, NEW lane \in Int
    PROVE  /\ PieceSeg(addr, k) \in Seg
           /\ PieceSeg(addr, k) = (addr \div SegBytes + k) % SegCount
           /\ RamAddr(PieceSeg(addr, k), PieceWord(addr, k), lane)
                = SegBytes * (addr \div SegBytes + k) + lane
<1> DEFINE n == SegCount
           B == SegBytes
           q == addr \div B
<1>1. n \in Nat \ {0} /\ B \in Nat \ {0}
  BY Numbers
<1>2. q \in Nat
  BY <1>1, DivMod
<1>3. PieceSeg(addr, k) = (q + k) % n
  <2>1. q = n * (q \div n) + (q % n) /\ q % n \in 0 .. n - 1 /\ q \div n \in Int
    BY <1>1, <1>2, DivMod
  <2> DEFINE d == q \div n
             r == q % n
  <2>2. d \in Int /\ r \in 0 .. n - 1 /\ q = n * d + r
    BY <2>1
  <2> HIDE DEF d, r, q
  <2>3. (r + k + n * d) % n = (r + k) % n
    <3>1. r + k \in Int
      BY <2>2
    <3> HIDE DEF n
    <3> QED  BY <1>1, <2>2, <3>1, DivShift
  <2>4. q + k = r + k + n * d
    <3>1. n * d \in Int
      BY <1>1, <2>2
    <3> QED  BY <2>2, <3>1
  <2> QED  BY <2>3, <2>4 DEF PieceSeg, FirstSeg, q, r
<1>4. PieceWord(addr, k) = (q + k) \div n
  <2>1. ByteLanes = n * B
    BY DEF ByteLanes
  <2>2. (addr + k * B) \div (n * B) = ((addr + k * B) \div B) \div n
    <3>1. addr + k * B \in Int
      BY <1>1
    <3> HIDE DEF n, B
    <3> QED  BY <1>1, <3>1, DivDiv
  <2>3. (addr + B * k) \div B = q + k /\ B * k = k * B
    BY <1>1, DivShift
  <2> QED  BY <2>1, <2>2, <2>3 DEF PieceWord
<1> DEFINE d == (q + k) \div n
           r == (q + k) % n
<1>5. d \in Int /\ r \in 0 .. n - 1 /\ q + k = n * d + r
  <2>1. q + k \in Int
    BY <1>2
  <2> HIDE DEF q, n
  <2> QED  BY <1>1, <2>1, DivMod
<1>6. RamAddr(r, d, lane) = B * (q + k) + lane
  <2> HIDE DEF d, r, q
  <2>1. RamAddr(r, d, lane) = (d * n + r) * B + lane
    BY DEF RamAddr
  <2>2. n * d = d * n /\ (d * n + r) * B = B * (d * n + r)
    BY <1>1, <1>5
  <2> QED  BY <1>5, <2>1, <2>2
<1> QED  BY <1>3, <1>4, <1>5, <1>6 DEF Seg

(* The last block of a transfer.                                           *)
LEMMA LastBlock ==
    ASSUME NEW addr \in Nat, NEW len \in Nat, SegmentsOf(addr, len) > 0
    PROVE  /\ SegmentsOf(addr, len) \in Nat
           /\ (addr + len - 1) % SegBytes \in 0 .. SegBytes - 1
           /\ (addr % SegBytes) + len - 1
                = SegBytes * (SegmentsOf(addr, len) - 1) + ((addr + len - 1) % SegBytes)
<1> DEFINE B == SegBytes
           q == addr \div B
           r == addr % B
           x == len + r - 1
           t == x % B
           m == x \div B
<1>1. B \in Nat \ {0} /\ q \in Nat /\ r \in 0 .. B - 1 /\ addr = B * q + r
  <2>1. B \in Nat \ {0} /\ addr \in Int
    BY Numbers
  <2> HIDE DEF B
  <2> QED  BY <2>1, DivMod
<1>2. x \in Int /\ m \in Int /\ t \in 0 .. B - 1 /\ x = B * m + t
  <2>1. x \in Int
    BY <1>1
  <2> HIDE DEF x, B
  <2> QED  BY <1>1, <2>1, DivMod
<1>3. SegmentsOf(addr, len) = m + 1
  <2>1. len + r + (B - 1) = x + B * 1
    BY <1>1
  <2>2. (x + B * 1) \div B = m + 1
    BY <1>1, <1>2, DivShift
  <2> QED  BY <2>1, <2>2 DEF SegmentsOf
<1>4. (addr + len - 1) % B = t
  <2>1. addr + len - 1 = x + B * q
    <3>1. B * q \in Int
      BY <1>1
    <3> QED  BY <1>1, <3>1
  <2>2. (x + B * q) % B = t
    <3>1. x \in Int /\ B \in Nat \ {0} /\ q \in Int
      BY <1>1, <1>2
    <3> HIDE DEF x, B, q
    <3>2. (x + B * q) % B = x % B
      BY <3>1, DivShift
    <3> QED  BY <3>2
  <2> QED  BY <2>1, <2>2
<1> QED  BY <1>1, <1>2, <1>3, <1>4

(* The bytes of a piece are bytes of the transfer, in order.               *)
LEMMA PieceWithin ==
    ASSUME NEW addr \in Nat, NEW len \in Nat, NEW k \in Nat, k < SegmentsOf(addr, len),
           NEW j \in PieceLanes(addr, len, k)
    PROVE  /\ j \in Lane
           /\ LET a == SegBytes * (addr \div SegBytes + k) + j IN
              /\ addr <= a /\ a < addr + len
              /\ ByteOfPiece(addr, k, j) = a - addr
<1> DEFINE B == SegBytes
           q == addr \div B
           r == addr % B
           m == SegmentsOf(addr, len)
           t == (addr + len - 1) % B
<1>1. B \in Nat \ {0} /\ q \in Nat /\ r \in 0 .. B - 1 /\ addr = B * q + r
  <2>1. B \in Nat \ {0} /\ addr \in Int
    BY Numbers
  <2> HIDE DEF B
  <2> QED  BY <2>1, DivMod
<1>2. m \in Nat
  BY Numbers, DivMod DEF SegmentsOf
<1>3. m > 0
  BY <1>2
<1>4. t \in 0 .. B - 1 /\ r + len - 1 = B * (m - 1) + t
  BY <1>3, LastBlock
<1>5. /\ j \in (IF k = 0 THEN r ELSE 0) .. (IF k = m - 1 THEN t ELSE B - 1)
      /\ ByteOfPiece(addr, k, j) = (k * B + j) - r
  BY DEF PieceLanes, FirstLane, LastLane, ByteOfPiece
<1>6. k < m
  OBVIOUS
<1> HIDE DEF B, q, r, m, t
<1>7. PICK l \in Nat : m - 1 = k + l
  <2>1. m - 1 - k \in Nat /\ m - 1 = k + (m - 1 - k)
    BY <1>2, <1>6
  <2> QED  BY <2>1
<1>8. j \in 0 .. B - 1
  <2>1. CASE k = m - 1
    BY <1>1, <1>4, <1>5, <2>1
  <2>2. CASE k # m - 1
    BY <1>1, <1>4, <1>5, <2>2
  <2> QED  BY <2>1, <2>2
<1>9. /\ B * (q + k) = B * q + B * k /\ k * B = B * k
      /\ B * q \in Nat /\ B * k \in Nat
  BY <1>1
<1>10. r <= B * k + j
  <2>1. CASE k = 0
    BY <1>1, <1>4, <1>5, <1>8, <1>9, <2>1
  <2>2. CASE k # 0
    <3>1. PICK e \in Nat : k = 1 + e
      <4>1. k - 1 \in Nat /\ k = 1 + (k - 1)
        BY <2>2
      <4> QED  BY <4>1
    <3>2. B * k = B + B * e /\ B * e \in Nat
      BY <1>1, <3>1
    <3> QED  BY <1>1, <1>8, <3>2
  <2> QED  BY <2>1, <2>2
<1>11. B * k + j < r + len
  <2>1. CASE l = 0
    BY <1>1, <1>4, <1>5, <1>7, <1>8, <1>9, <2>1
  <2>2. CASE l # 0
    <3>1. PICK e \in Nat : m - 1 = k + 1 + e
      <4>1. l - 1 \in Nat /\ m - 1 = k + 1 + (l - 1)
        BY <1>7, <2>2
      <4> QED  BY <4>1
    <3>2. B * (m - 1) = B * k + B + B * e /\ B * e \in Nat
      BY <1>1, <3>1
    <3> QED  BY <1>1, <1>4, <1>8, <1>9, <3>2
  <2> QED  BY <2>1, <2>2
<1>12. j \in Lane
  BY <1>8 DEF B, Lane
<1>13. LET a == B * (q + k) + j IN
       addr <= a /\ a < addr + len /\ ByteOfPiece(addr, k, j) = a - addr
  BY <1>1, <1>5, <1>8, <1>9, <1>10, <1>11
<1> QED  BY <1>12, <1>13 DEF B, q

(* Every byte of the transfer is in a piece.                               *)
LEMMA PieceFor ==
    ASSUME NEW addr \in Nat, NEW len \in Nat, NEW a \in Nat,
           addr <= a, a < addr + len
    PROVE  \E k \in Nat :
            /\ k < SegmentsOf(addr, len)
            /\ a % SegBytes \in PieceLanes(addr, len, k)
            /\ a \div SegBytes = addr \div SegBytes + k
<1> DEFINE B == SegBytes
           q == addr \div B
           r == addr % B
           m == SegmentsOf(addr, len)
           t == (addr + len - 1) % B
           d == a \div B
           j == a % B
<1>1. B \in Nat \ {0} /\ q \in Nat /\ r \in 0 .. B - 1 /\ addr = B * q + r
  <2>1. B \in Nat \ {0} /\ addr \in Int
    BY Numbers
  <2> HIDE DEF B
  <2> QED  BY <2>1, DivMod
<1>2. d \in Nat /\ j \in 0 .. B - 1 /\ a = B * d + j
  <2>1. B \in Nat \ {0} /\ a \in Int
    BY Numbers
  <2> HIDE DEF B
  <2> QED  BY <2>1, DivMod
<1>3. m \in Nat /\ m > 0
  <2> DEFINE x == len + r + (B - 1)
  <2>1. m = x \div B /\ x \in Nat
    BY <1>1 DEF SegmentsOf
  <2> HIDE DEF x, B
  <2>2. x \div B \in Nat /\ x = B * (x \div B) + (x % B) /\ x % B \in 0 .. B - 1
    <3>1. x \in Int /\ x \in Nat /\ B \in Nat \ {0}
      BY <1>1, <2>1
    <3> HIDE DEF m, q, r, t, d, j
    <3> QED  BY ONLY <3>1, DivMod
  <2>3. x >= B
    BY <1>1 DEF x
  <2>4. x \div B # 0
    BY <1>1, <2>2, <2>3
  <2> QED  BY <2>1, <2>2, <2>4
<1>4. t \in 0 .. B - 1 /\ r + len - 1 = B * (m - 1) + t
  BY <1>3, LastBlock
<1> HIDE DEF B, q, r, m, t, d, j
<1>5. B * q \in Nat /\ B * d \in Nat /\ B * (m - 1) \in Nat
  BY <1>1, <1>2, <1>3
<1>6. d >= q
  <2> SUFFICES ASSUME d < q PROVE FALSE
    BY <1>1, <1>2
  <2>1. PICK e \in Nat : q = d + 1 + e
    <3>1. q - d - 1 \in Nat /\ q = d + 1 + (q - d - 1)
      BY <1>1, <1>2
    <3> QED  BY <3>1
  <2>2. B * q = B * d + B + B * e /\ B * e \in Nat
    BY <1>1, <1>2, <2>1
  <2> QED  BY <1>1, <1>2, <1>5, <2>2
<1>7. PICK k \in Nat : d = q + k
  <2>1. d - q \in Nat /\ d = q + (d - q)
    BY <1>1, <1>2, <1>6
  <2> QED  BY <2>1
<1>8. B * d = B * q + B * k /\ B * k \in Nat
  BY <1>1, <1>7
<1>9. B * k + j < B * (m - 1) + t + 1
  BY <1>1, <1>2, <1>4, <1>5, <1>8
<1>10. k < m
  <2> SUFFICES ASSUME k >= m PROVE FALSE
    BY <1>3
  <2>1. PICK e \in Nat : k = m - 1 + 1 + e
    <3>1. k - m \in Nat /\ k = m - 1 + 1 + (k - m)
      BY <1>3
    <3> QED  BY <3>1
  <2>2. B * k = B * (m - 1) + B + B * e /\ B * e \in Nat
    BY <1>1, <1>3, <2>1
  <2> QED  BY <1>1, <1>2, <1>4, <1>5, <1>8, <1>9, <2>2
<1>11. j \in (IF k = 0 THEN r ELSE 0) .. (IF k = m - 1 THEN t ELSE B - 1)
  <2>1. k = 0 => r <= j
    BY <1>1, <1>2, <1>5, <1>8
  <2>2. k = m - 1 => j <= t
    BY <1>1, <1>2, <1>4, <1>5, <1>9
  <2> QED  BY <1>1, <1>2, <1>4, <2>1, <2>2
<1>12. j \in PieceLanes(addr, len, k)
  BY <1>11 DEF PieceLanes, FirstLane, LastLane, B, r, m, t
<1> QED  BY <1>7, <1>10, <1>12 DEF m, j, B, d, q

(* A transfer begins in a segment.                                         *)
LEMMA FirstSegIn ==
    ASSUME NEW addr \in Nat
    PROVE  FirstSeg(addr) \in 0 .. SegCount - 1
<1>1. addr \div SegBytes \in Int
  BY Numbers, DivMod
<1> QED  BY <1>1, Numbers, DivMod DEF FirstSeg

(* It touches a number of segment words.                                   *)
LEMMA SegmentsNat ==
    ASSUME NEW addr \in Nat, NEW len \in Nat
    PROVE  SegmentsOf(addr, len) \in Nat
BY Numbers, DivMod DEF SegmentsOf

(* The pieces of a segment: each is of the segment and of the transfer.    *)
LEMMA PiecesAre ==
    ASSUME NEW addr \in Nat, NEW len \in Nat, NEW s \in Seg,
           NEW i \in 1 .. PieceCount(addr, len, s)
    PROVE  LET k == PiecesIn(addr, len, s)[i] IN
           k \in Nat /\ k < SegmentsOf(addr, len) /\ PieceSeg(addr, k) = s
<1> DEFINE n == SegCount
           f == FirstSeg(addr)
           p == FirstPiece(addr, s)
           m == SegmentsOf(addr, len)
           c == PieceCount(addr, len, s)
           k == p + (i - 1) * n
<1>1. n \in Nat \ {0} /\ f \in Nat /\ f \in 0 .. n - 1 /\ s \in 0 .. n - 1
  <2>1. SegCount \in Nat \ {0} /\ FirstSeg(addr) \in 0 .. SegCount - 1
    BY Numbers, FirstSegIn
  <2> QED  BY <2>1 DEF Seg
<1>2. p \in 0 .. n - 1 /\ \E d \in Int : s - f = n * d + p
  <2>1. s - f \in Int
    BY <1>1
  <2> HIDE DEF f, n
  <2>2. (s - f) % n \in 0 .. n - 1 /\ s - f = n * ((s - f) \div n) + ((s - f) % n)
        /\ (s - f) \div n \in Int
    BY <1>1, <2>1, DivMod
  <2> QED  BY <2>2 DEF FirstPiece, f, n
<1>3. PICK d \in Int : s - f = n * d + p
  BY <1>2
<1>4. m \in Nat
  BY SegmentsNat
<1>5. c \in Int /\ \E r \in 0 .. n - 1 : m - p + n - 1 = n * c + r
  <2>1. m - p + n - 1 \in Int
    BY <1>1, <1>2, <1>4
  <2> DEFINE x == m - p + n - 1
  <2>2. c = x \div n
    BY DEF PieceCount
  <2> HIDE DEF x, n, c
  <2>3. x \div n \in Int /\ x % n \in 0 .. n - 1 /\ x = n * (x \div n) + (x % n)
    BY <1>1, <2>1, DivMod DEF x
  <2> QED  BY <2>2, <2>3 DEF x
<1>6. PICK r \in 0 .. n - 1 : m - p + n - 1 = n * c + r
  BY <1>5
<1>7. PiecesIn(addr, len, s)[i] = k
  BY DEF PiecesIn
<1>8. i \in 1 .. c
  OBVIOUS
<1> HIDE DEF n, f, p, m, c
<1>9. PICK e \in Nat : i = 1 + e
  <2>1. i - 1 \in Nat /\ i = 1 + (i - 1)
    BY <1>8
  <2> QED  BY <2>1
<1>10. PICK g \in Nat : c = 1 + e + g
  <2>1. c - i \in Nat /\ c = i + (c - i)
    BY <1>5, <1>8
  <2> QED  BY <1>9, <2>1
<1>11. /\ k = p + n * e /\ n * e \in Nat /\ n * g \in Nat
       /\ n * c = n + n * e + n * g
  <2>1. (i - 1) * n = n * e
    BY <1>1, <1>9
  <2>2. n * (1 + e + g) = n + n * e + n * g
    BY <1>1
  <2> QED  BY <1>1, <1>9, <1>10, <2>1, <2>2
<1>12. k \in Nat /\ k < m
  BY <1>1, <1>2, <1>4, <1>6, <1>11
<1>13. (f + k) % n = s
  <2>1. f + k = s + n * (e - d)
    <3>1. n * (e - d) = n * e - n * d /\ n * d \in Int
      BY <1>1, <1>3
    <3> QED  BY <1>1, <1>2, <1>3, <1>11, <3>1
  <2>2. (n * (e - d) + s) % n = s
    <3>1. e - d \in Int
      BY <1>3
    <3> QED  BY <1>1, <3>1, DivModUnique
  <2>3. s + n * (e - d) = n * (e - d) + s
    BY <1>1, <1>3
  <2> QED  BY <2>1, <2>2, <2>3
<1> QED  BY <1>7, <1>12, <1>13 DEF PieceSeg, n, f, m

(* Every piece of a transfer is one of its segment's.                      *)
LEMMA PieceIsIn ==
    ASSUME NEW addr \in Nat, NEW len \in Nat, NEW k \in Nat, k < SegmentsOf(addr, len)
    PROVE  \E i \in 1 .. PieceCount(addr, len, PieceSeg(addr, k)) :
                PiecesIn(addr, len, PieceSeg(addr, k))[i] = k
<1> DEFINE n == SegCount
           f == FirstSeg(addr)
           s == PieceSeg(addr, k)
           p == FirstPiece(addr, s)
           m == SegmentsOf(addr, len)
           c == PieceCount(addr, len, s)
<1>1. n \in Nat \ {0} /\ f \in 0 .. n - 1
  BY Numbers, FirstSegIn
<1>2. PICK d \in Int : f + k = n * d + s /\ s \in 0 .. n - 1
  <2>1. f + k \in Int
    BY <1>1
  <2>2. s = (f + k) % n
    BY DEF PieceSeg
  <2> HIDE DEF f, n, s
  <2>3. (f + k) \div n \in Int /\ (f + k) % n \in 0 .. n - 1
        /\ f + k = n * ((f + k) \div n) + ((f + k) % n)
    BY <1>1, <2>1, DivMod
  <2> QED  BY <2>2, <2>3
<1>3. PICK g \in Int : s - f = n * g + p /\ p \in 0 .. n - 1
  <2>1. s - f \in Int
    BY <1>1, <1>2
  <2>2. p = (s - f) % n
    BY DEF FirstPiece
  <2> HIDE DEF f, n, s, p
  <2>3. (s - f) % n \in 0 .. n - 1 /\ s - f = n * ((s - f) \div n) + ((s - f) % n)
        /\ (s - f) \div n \in Int
    BY <1>1, <2>1, DivMod
  <2> QED  BY <2>2, <2>3
<1>4. m \in Nat
  BY SegmentsNat
<1>5. c \in Int /\ \E r \in 0 .. n - 1 : m - p + n - 1 = n * c + r
  <2>1. m - p + n - 1 \in Int
    BY <1>1, <1>3, <1>4
  <2> DEFINE x == m - p + n - 1
  <2>2. c = x \div n
    BY DEF PieceCount
  <2> HIDE DEF x, n, c
  <2>3. x \div n \in Int /\ x % n \in 0 .. n - 1 /\ x = n * (x \div n) + (x % n)
    BY <1>1, <2>1, DivMod DEF x
  <2> QED  BY <2>2, <2>3 DEF x
<1>6. PICK r \in 0 .. n - 1 : m - p + n - 1 = n * c + r
  BY <1>5
<1>7. \A i \in 1 .. c : PiecesIn(addr, len, s)[i] = p + (i - 1) * n
  BY DEF PiecesIn
<1>8. k < m
  OBVIOUS
<1> HIDE DEF n, f, s, p, m, c
<1> DEFINE e == d + g
<1>9. e \in Int /\ k = n * e + p
  <2>1. n * (d + g) = n * d + n * g /\ n * d \in Int /\ n * g \in Int
    BY <1>2, <1>3, <1>1
  <2> QED  BY <1>1, <1>2, <1>3, <2>1
<1> HIDE DEF e
<1>10. e >= 0
  <2> SUFFICES ASSUME e < 0 PROVE FALSE
    BY <1>9
  <2>1. PICK h \in Nat : e = -1 - h
    <3>1. -1 - e \in Nat /\ e = -1 - (-1 - e)
      BY <1>9
    <3> QED  BY <3>1
  <2>2. n * e = -n - n * h /\ n * h \in Nat
    BY <1>1, <2>1
  <2> QED  BY <1>1, <1>3, <1>9, <2>2
<1>11. e < c
  <2> SUFFICES ASSUME e >= c PROVE FALSE
    BY <1>5, <1>9
  <2>1. PICK h \in Nat : e = c + h
    <3>1. e - c \in Nat /\ e = c + (e - c)
      BY <1>5, <1>9
    <3> QED  BY <3>1
  <2>2. n * e = n * c + n * h /\ n * h \in Nat /\ n * c \in Int
    BY <1>1, <1>5, <2>1
  <2> QED  BY <1>1, <1>3, <1>4, <1>6, <1>8, <1>9, <2>2
<1>12. e + 1 \in 1 .. c /\ (e + 1 - 1) * n = n * e
  BY <1>1, <1>5, <1>9, <1>10, <1>11
<1>13. PiecesIn(addr, len, s)[e + 1] = k
  BY <1>7, <1>9, <1>12, <1>3, <1>1
<1> QED  BY <1>12, <1>13 DEF c, s

-----------------------------------------------------------------------------
(* The inductive invariant of the write half                               *)

Call == [addr : Nat, len : Nat]

WriteTypes ==
    /\ writes \in Seq(Call) /\ written \in 0 .. Len(writes)
    /\ segWrite \in [Seg -> Seq(Piece)]
    /\ wrCmd \in [Seg -> Piece \union {None}]
    /\ wrDone \in SUBSET Seg
    /\ wrTokens \in [Seg -> Nat]
    /\ DOMAIN mem = 0 .. Size - 1

(* How many pieces call v has for segment s, and the i-th of them          *)
CountOf(v, s) == PieceCount(writes[v].addr, writes[v].len, s)
PieceOf(v, s, i) ==
    WritePiece(v, writes[v].addr, writes[v].len,
               PiecesIn(writes[v].addr, writes[v].len, s)[i])

(* The pieces of a segment are numbered as they are queued: upTo[s][v] is  *)
(* the number of the last piece of call v.                                 *)
Numbered(upTo) ==
    \A s \in Seg :
        /\ upTo[s][0] = 0 /\ \A v \in Nat : upTo[s][v] \in Nat
        /\ \A v \in 1 .. Len(writes) : upTo[s][v] = upTo[s][v - 1] + CountOf(v, s)
        /\ \A u, v \in 0 .. Len(writes) : u <= v => upTo[s][u] <= upTo[s][v]

IsPiece(upTo, s, number, piece) ==
    \E v \in 1 .. Len(writes) : \E i \in 1 .. CountOf(v, s) :
        number = upTo[s][v - 1] + i /\ piece = PieceOf(v, s, i)

(* The number of the piece on offer, or of the last one before the queue,  *)
(* and the number of the last piece that the RAM has taken                 *)
OnOffer(upTo, s) == upTo[s][Len(writes)] - Len(segWrite[s])
LastTaken(upTo, s) == OnOffer(upTo, s) - (IF wrCmd[s] = None THEN 0 ELSE 1)

(* What is on offer and queued are the last pieces, in order.              *)
InLine(upTo) ==
    \A s \in Seg :
        /\ wrCmd[s] # None => IsPiece(upTo, s, OnOffer(upTo, s), wrCmd[s])
        /\ \A j \in 1 .. Len(segWrite[s]) :
                IsPiece(upTo, s, OnOffer(upTo, s) + j, segWrite[s][j])

(* Calls that have returned and tokens stand for pieces that were taken.   *)
Answered(upTo) ==
    \A s \in Seg :
        upTo[s][written] + wrTokens[s] + (IF s \in wrDone THEN 1 ELSE 0)
            <= LastTaken(upTo, s)

(* The i-th piece of call v for its segment has byte a of the RAM.         *)
Touches(v, i, a) ==
    LET k == PiecesIn(writes[v].addr, writes[v].len, FirstSeg(a))[i] IN
    /\ a % SegBytes \in PieceLanes(writes[v].addr, writes[v].len, k)
    /\ RamAddr(FirstSeg(a), PieceWord(writes[v].addr, k), a % SegBytes) = a

(* A byte is of some call, and the pieces that later calls have for it are *)
(* still to be taken.                                                      *)
InPlace(upTo) ==
    \A a \in 0 .. Size - 1 :
        LET w == mem[a][1] IN
        /\ w \in 0 .. Len(writes) /\ Covers(w, a)
        /\ mem[a][2] = IF w = 0 THEN a ELSE a - writes[w].addr
        /\ \A v \in w + 1 .. Len(writes) : \A i \in 1 .. CountOf(v, FirstSeg(a)) :
            Touches(v, i, a) =>
                LastTaken(upTo, FirstSeg(a)) < upTo[FirstSeg(a)][v - 1] + i

Ordered(upTo) == Numbered(upTo) /\ InLine(upTo) /\ Answered(upTo) /\ InPlace(upTo)

WriteInv == WriteTypes /\ \E upTo : Ordered(upTo)

-----------------------------------------------------------------------------
(* Pieces and bytes                                                        *)

(* A segment has a number of pieces.                                       *)
LEMMA CountNat ==
    ASSUME NEW addr \in Nat, NEW len \in Nat, NEW s \in Seg
    PROVE  PieceCount(addr, len, s) \in Nat
<1> DEFINE n == SegCount
           p == FirstPiece(addr, s)
           x == SegmentsOf(addr, len) - p + n - 1
<1>1. n \in Nat \ {0} /\ SegmentsOf(addr, len) \in Nat
  BY Numbers, SegmentsNat
<1>2. p \in 0 .. n - 1
  <2>1. s - FirstSeg(addr) \in Int
    BY FirstSegIn DEF Seg
  <2> HIDE DEF n
  <2> QED  BY <1>1, <2>1, DivMod DEF FirstPiece, n
<1>3. x \in Nat /\ PieceCount(addr, len, s) = x \div n
  BY <1>1, <1>2 DEF PieceCount
<1> HIDE DEF x, n
<1> QED  BY <1>1, <1>3, DivNat

(* What is queued is a piece.                                              *)
LEMMA PieceType ==
    ASSUME NEW w \in Nat, NEW addr \in Nat, NEW len \in Nat, NEW k \in Nat,
           k < SegmentsOf(addr, len)
    PROVE  WritePiece(w, addr, len, k) \in Piece
<1> DEFINE lanes == PieceLanes(addr, len, k)
<1>1. lanes \in SUBSET Lane
  BY PieceWithin
<1>2. \A j \in lanes : ByteOfPiece(addr, k, j) \in Int
  <2> SUFFICES ASSUME NEW j \in lanes PROVE ByteOfPiece(addr, k, j) \in Int
    OBVIOUS
  <2>1. j \in Int /\ addr % SegBytes \in Int /\ SegBytes \in Nat
    BY <1>1, Numbers, DivMod DEF Lane
  <2>2. k * SegBytes \in Int
    BY <2>1
  <2> QED  BY <2>1, <2>2 DEF ByteOfPiece
<1>3. PieceWord(addr, k) \in Nat
  <2>1. addr + k * SegBytes \in Nat
    BY Numbers
  <2> DEFINE x == addr + k * SegBytes
  <2>2. PieceWord(addr, k) = x \div ByteLanes /\ ByteLanes \in Nat \ {0}
    BY Numbers DEF PieceWord
  <2> HIDE DEF x
  <2>3. x \div ByteLanes \in Nat
    BY <2>1, <2>2, DivNat DEF x
  <2> QED  BY <2>2, <2>3
<1> HIDE DEF lanes
<1>4. [j \in lanes |-> <<w, ByteOfPiece(addr, k, j)>>] \in [lanes -> Nat \X Int]
  BY <1>2
<1> QED  BY <1>1, <1>3, <1>4 DEF WritePiece, Piece, lanes

(* A call, as its type says.                                               *)
LEMMA CallType ==
    ASSUME WriteTypes, NEW v \in 1 .. Len(writes)
    PROVE  writes[v].addr \in Nat /\ writes[v].len \in Nat
<1>1. writes[v] \in Call
  BY DEF WriteTypes
<1> QED  BY <1>1 DEF Call

(* What the pieces of a call for a segment are.                            *)
LEMMA PieceOfIs ==
    ASSUME WriteTypes, NEW v \in 1 .. Len(writes), NEW s \in Seg,
           NEW i \in 1 .. CountOf(v, s)
    PROVE  LET k == PiecesIn(writes[v].addr, writes[v].len, s)[i] IN
           /\ k \in Nat /\ k < SegmentsOf(writes[v].addr, writes[v].len)
           /\ PieceSeg(writes[v].addr, k) = s
           /\ PieceOf(v, s, i).word = PieceWord(writes[v].addr, k)
           /\ PieceOf(v, s, i).data
                = [j \in PieceLanes(writes[v].addr, writes[v].len, k) |->
                        <<v, ByteOfPiece(writes[v].addr, k, j)>>]
           /\ PieceOf(v, s, i) \in Piece
<1> DEFINE k == PiecesIn(writes[v].addr, writes[v].len, s)[i]
<1>1. writes[v].addr \in Nat /\ writes[v].len \in Nat
  BY CallType
<1>2. k \in Nat /\ k < SegmentsOf(writes[v].addr, writes[v].len)
      /\ PieceSeg(writes[v].addr, k) = s
  BY <1>1, PiecesAre DEF CountOf
<1>3. v \in Nat
  BY DEF WriteTypes
<1> HIDE DEF k
<1>4. WritePiece(v, writes[v].addr, writes[v].len, k) \in Piece
  BY <1>1, <1>2, <1>3, PieceType
<1> QED  BY <1>2, <1>4 DEF k, PieceOf, WritePiece

(* A piece that reaches a byte of the RAM carries the byte of its call     *)
(* that belongs there.                                                     *)
LEMMA PieceCarries ==
    ASSUME WriteTypes, NEW v \in 1 .. Len(writes), NEW a \in 0 .. Size - 1,
           NEW i \in 1 .. CountOf(v, FirstSeg(a)), Touches(v, i, a)
    PROVE  /\ Covers(v, a)
           /\ PieceOf(v, FirstSeg(a), i).data[a % SegBytes] = <<v, a - writes[v].addr>>
<1> DEFINE s == FirstSeg(a)
           addr == writes[v].addr
           len == writes[v].len
           k == PiecesIn(addr, len, s)[i]
           j == a % SegBytes
<1>1. addr \in Nat /\ len \in Nat /\ a \in Nat /\ s \in Seg
  BY CallType, FirstSegIn, Numbers DEF Seg
<1>2. /\ k \in Nat /\ k < SegmentsOf(addr, len) /\ PieceSeg(addr, k) = s
      /\ PieceOf(v, s, i).data
            = [l \in PieceLanes(addr, len, k) |-> <<v, ByteOfPiece(addr, k, l)>>]
  BY <1>1, PieceOfIs
<1>3. j \in PieceLanes(addr, len, k) /\ RamAddr(s, PieceWord(addr, k), j) = a
  BY DEF Touches
<1> HIDE DEF s, addr, len, k, j
<1>4. j \in Int
  BY <1>1, <1>2, <1>3, PieceWithin DEF Lane
<1>5. a = SegBytes * (addr \div SegBytes + k) + j
  BY <1>1, <1>2, <1>3, <1>4, PieceIsBlock
<1>6. addr <= a /\ a < addr + len /\ ByteOfPiece(addr, k, j) = a - addr
  BY <1>1, <1>2, <1>3, <1>5, PieceWithin
<1>7. PieceOf(v, s, i).data[j] = <<v, a - addr>>
  BY <1>2, <1>3, <1>6
<1> QED  BY <1>6, <1>7 DEF Covers, s, addr, len, j

(* Every byte of a call is reached by one of its pieces.                   *)
LEMMA CoversTouches ==
    ASSUME WriteTypes, NEW v \in 1 .. Len(writes), NEW a \in 0 .. Size - 1, Covers(v, a)
    PROVE  \E i \in 1 .. CountOf(v, FirstSeg(a)) : Touches(v, i, a)
<1> DEFINE s == FirstSeg(a)
           addr == writes[v].addr
           len == writes[v].len
           j == a % SegBytes
<1>1. addr \in Nat /\ len \in Nat /\ a \in Nat /\ v > 0
  BY CallType, Numbers DEF WriteTypes
<1>2. addr <= a /\ a < addr + len
  BY <1>1 DEF Covers
<1>3. PICK k \in Nat : /\ k < SegmentsOf(addr, len) /\ j \in PieceLanes(addr, len, k)
                       /\ a \div SegBytes = addr \div SegBytes + k
  BY <1>1, <1>2, PieceFor
<1>4. PieceSeg(addr, k) = s
  BY <1>1, <1>3, PieceIsBlock DEF FirstSeg
<1>5. PICK i \in 1 .. PieceCount(addr, len, s) : PiecesIn(addr, len, s)[i] = k
  <2>1. \E i \in 1 .. PieceCount(addr, len, PieceSeg(addr, k)) :
            PiecesIn(addr, len, PieceSeg(addr, k))[i] = k
    <3> HIDE DEF addr, len
    <3> QED  BY <1>1, <1>3, PieceIsIn
  <2> QED  BY <1>4, <2>1
<1>6. j \in Int /\ a = SegBytes * (a \div SegBytes) + j
  <2>1. a \in Int /\ SegBytes \in Nat \ {0}
    BY <1>1, Numbers
  <2>2. a % SegBytes \in 0 .. SegBytes - 1
    BY <2>1, DivMod
  <2>3. a = SegBytes * (a \div SegBytes) + (a % SegBytes)
    BY <2>1, DivMod
  <2>4. j \in Int
    BY <2>1, <2>2
  <2> QED  BY <2>3, <2>4
<1>7. RamAddr(s, PieceWord(addr, k), j) = a
  <2>1. RamAddr(PieceSeg(addr, k), PieceWord(addr, k), j)
            = SegBytes * (addr \div SegBytes + k) + j
    BY <1>1, <1>3, <1>6, PieceIsBlock
  <2> QED  BY <1>3, <1>4, <1>6, <2>1
<1>8. Touches(v, i, a)
  BY <1>3, <1>5, <1>7 DEF Touches
<1> QED  BY <1>5, <1>8 DEF CountOf

-----------------------------------------------------------------------------
(* Steps of the write half                                                 *)

(* Nothing about a call changes when others are added.                     *)
LEMMA SameCalls ==
    ASSUME NEW n, \A v \in 1 .. n : writes'[v] = writes[v]
    PROVE  \A v \in 1 .. n :
            /\ \A s : CountOf(v, s)' = CountOf(v, s)
            /\ \A s, i : PieceOf(v, s, i)' = PieceOf(v, s, i)
            /\ \A i, a : Touches(v, i, a)' <=> Touches(v, i, a)
            /\ \A a : Covers(v, a)' <=> Covers(v, a)
<1> SUFFICES ASSUME NEW v \in 1 .. n
             PROVE  /\ \A s : CountOf(v, s)' = CountOf(v, s)
                    /\ \A s, i : PieceOf(v, s, i)' = PieceOf(v, s, i)
                    /\ \A i, a : Touches(v, i, a)' <=> Touches(v, i, a)
                    /\ \A a : Covers(v, a)' <=> Covers(v, a)
  OBVIOUS
<1>1. writes'[v] = writes[v]
  OBVIOUS
<1> QED  BY <1>1 DEF CountOf, PieceOf, Touches, Covers

(* A step that leaves the calls and the memory alone keeps the order.      *)
LEMMA SameOrder ==
    ASSUME NEW upTo, UNCHANGED <<writes, segWrite, wrCmd, mem>>,
           WriteTypes, Ordered(upTo), Answered(upTo)'
    PROVE  Ordered(upTo)'
<1>1. \A v \in 1 .. Len(writes) :
        /\ \A s : CountOf(v, s)' = CountOf(v, s)
        /\ \A s, i : PieceOf(v, s, i)' = PieceOf(v, s, i)
        /\ \A i, a : Touches(v, i, a)' <=> Touches(v, i, a)
        /\ \A a : Covers(v, a)' <=> Covers(v, a)
  BY SameCalls
<1>2. Numbered(upTo)'
  BY <1>1 DEF Ordered, Numbered
<1>3. InLine(upTo)'
  <2>1. \A s : OnOffer(upTo, s)' = OnOffer(upTo, s)
    BY DEF OnOffer
  <2>2. \A s, g, p : IsPiece(upTo, s, g, p)' <=> IsPiece(upTo, s, g, p)
    BY DEF IsPiece, CountOf, PieceOf
  <2> QED  BY <2>1, <2>2 DEF Ordered, InLine
<1>4. InPlace(upTo)'
  <2>2. \A s : LastTaken(upTo, s)' = LastTaken(upTo, s)
    BY DEF LastTaken, OnOffer
  <2>3. \A w, a : Covers(w, a)' <=> Covers(w, a)
    BY DEF Covers
  <2>4. \A v, s : CountOf(v, s)' = CountOf(v, s)
    BY DEF CountOf
  <2>5. \A v, i, a : Touches(v, i, a)' <=> Touches(v, i, a)
    BY DEF Touches
  <2> QED  BY <2>2, <2>3, <2>4, <2>5 DEF Ordered, InPlace
<1> QED  BY <1>2, <1>3, <1>4 DEF Ordered

(* Numbers are numbers.                                                    *)
LEMMA NumberType ==
    ASSUME WriteTypes, NEW upTo, Ordered(upTo), NEW s \in Seg
    PROVE  /\ Len(writes) \in Nat /\ written \in Nat /\ Len(segWrite[s]) \in Nat
           /\ \A v \in Nat : upTo[s][v] \in Nat
           /\ OnOffer(upTo, s) \in Int /\ LastTaken(upTo, s) \in Int
           /\ wrTokens[s] \in Nat
<1>1. Len(writes) \in Nat /\ written \in Nat /\ Len(segWrite[s]) \in Nat /\ wrTokens[s] \in Nat
  BY DEF WriteTypes
<1>2. \A v \in Nat : upTo[s][v] \in Nat
  BY DEF Ordered, Numbered
<1>3. OnOffer(upTo, s) \in Int
  BY <1>1, <1>2 DEF OnOffer
<1> QED  BY <1>1, <1>2, <1>3 DEF LastTaken

(* A call of write gets the next numbers, and nothing is taken yet.        *)
LEMMA CallWriteStep ==
    ASSUME WriteInv, NEW addr \in Nat, NEW len \in Nat, CallWrite(addr, len), mem' = mem
    PROVE  WriteInv'
<1>1. PICK n : n = Len(writes)
  OBVIOUS
<1> DEFINE count(s) == PieceCount(addr, len, s)
           added(s) == [i \in 1 .. count(s) |->
                            WritePiece(n + 1, addr, len, PiecesIn(addr, len, s)[i])]
<1>2. PICK upTo : Ordered(upTo)
  BY DEF WriteInv
<1>3. WriteTypes
  BY DEF WriteInv
<1>4. /\ writes' = Append(writes, [addr |-> addr, len |-> len])
      /\ segWrite' = [s \in Seg |-> segWrite[s] \o added(s)]
      /\ UNCHANGED <<written, wrCmd, wrReady, wrDone, wrTokens>>
  BY <1>1 DEF CallWrite, PiecesIn
<1>5. /\ n \in Nat /\ writes' \in Seq(Call) /\ Len(writes') = n + 1
      /\ writes'[n + 1] = [addr |-> addr, len |-> len]
      /\ \A v \in 1 .. n : writes'[v] = writes[v]
  <2>1. writes \in Seq(Call) /\ [addr |-> addr, len |-> len] \in Call
    BY <1>3 DEF WriteTypes, Call
  <2> QED  BY <1>1, <1>4, <2>1
<1>6. \A s \in Seg : count(s) \in Nat
  BY CountNat
<1>7. \A s \in Seg : \A i \in 1 .. count(s) : added(s)[i] \in Piece
  <2> SUFFICES ASSUME NEW s \in Seg, NEW i \in 1 .. count(s) PROVE added(s)[i] \in Piece
    OBVIOUS
  <2>1. /\ PiecesIn(addr, len, s)[i] \in Nat
        /\ PiecesIn(addr, len, s)[i] < SegmentsOf(addr, len)
    BY PiecesAre
  <2>2. n + 1 \in Nat
    BY <1>5
  <2> QED  BY <2>1, <2>2, PieceType
<1>8. \A s \in Seg : added(s) \in Seq(Piece) /\ Len(added(s)) = count(s)
  BY <1>6, <1>7
<1>9. n \in Nat /\ n = Len(writes)
  BY <1>1, <1>5
<1> HIDE DEF count, added
<1>10. \A s \in Seg :
        /\ segWrite'[s] \in Seq(Piece) /\ Len(segWrite[s]) \in Nat
        /\ Len(segWrite'[s]) = Len(segWrite[s]) + count(s)
        /\ \A j \in 1 .. Len(segWrite[s]) : segWrite'[s][j] = segWrite[s][j]
        /\ \A i \in 1 .. count(s) : segWrite'[s][Len(segWrite[s]) + i] = added(s)[i]
  <2> SUFFICES ASSUME NEW s \in Seg
               PROVE  /\ segWrite'[s] \in Seq(Piece) /\ Len(segWrite[s]) \in Nat
                      /\ Len(segWrite'[s]) = Len(segWrite[s]) + count(s)
                      /\ \A j \in 1 .. Len(segWrite[s]) : segWrite'[s][j] = segWrite[s][j]
                      /\ \A i \in 1 .. count(s) :
                            segWrite'[s][Len(segWrite[s]) + i] = added(s)[i]
    OBVIOUS
  <2>1. segWrite[s] \in Seq(Piece) /\ added(s) \in Seq(Piece) /\ Len(added(s)) = count(s)
    BY <1>3, <1>8 DEF WriteTypes
  <2>2. segWrite'[s] = segWrite[s] \o added(s)
    BY <1>4
  <2> QED  BY <1>6, <2>1, <2>2
<1>11. WriteTypes'
  <2>1. segWrite' \in [Seg -> Seq(Piece)]
    BY <1>4, <1>10
  <2>2. written \in 0 .. n + 1
    BY <1>3, <1>9, <1>5 DEF WriteTypes
  <2> QED  BY <1>3, <1>4, <1>9, <1>5, <2>1, <2>2 DEF WriteTypes
<1>12. PICK new : new = [s \in Seg |-> [v \in Nat |->
                        IF v = n + 1 THEN upTo[s][n] + count(s) ELSE upTo[s][v]]]
  OBVIOUS
<1>13. \A s \in Seg : \A v \in Nat : upTo[s][v] \in Nat
  BY <1>2, <1>9 DEF Ordered, Numbered
<1>14. \A s \in Seg : /\ new[s][n + 1] = upTo[s][n] + count(s)
                       /\ \A v \in 0 .. n : new[s][v] = upTo[s][v]
  BY <1>6, <1>9, <1>13, <1>12
<1>15. \A s \in Seg : \A v \in Nat : new[s][v] \in Nat
  BY <1>6, <1>9, <1>13, <1>12
<1>16. /\ \A s : CountOf(n + 1, s)' = count(s)
       /\ \A s, i : PieceOf(n + 1, s, i)'
                        = WritePiece(n + 1, addr, len, PiecesIn(addr, len, s)[i])
  BY <1>9, <1>5 DEF CountOf, PieceOf, count
<1>17. \A v \in 1 .. n :
        /\ \A s : CountOf(v, s)' = CountOf(v, s)
        /\ \A s, i : PieceOf(v, s, i)' = PieceOf(v, s, i)
        /\ \A i, a : Touches(v, i, a)' <=> Touches(v, i, a)
        /\ \A a : Covers(v, a)' <=> Covers(v, a)
  BY <1>9, <1>5, SameCalls
<1>18. Numbered(new)'
  <2> SUFFICES ASSUME NEW s \in Seg
               PROVE  /\ new[s][0] = 0 /\ \A v \in Nat : new[s][v] \in Nat
                      /\ \A v \in 1 .. n + 1 : new[s][v] = new[s][v - 1] + CountOf(v, s)'
                      /\ \A u, v \in 0 .. n + 1 : u <= v => new[s][u] <= new[s][v]
    BY <1>9, <1>5 DEF Numbered
  <2>1. /\ upTo[s][0] = 0
        /\ \A v \in 1 .. n : upTo[s][v] = upTo[s][v - 1] + CountOf(v, s)
        /\ \A u, v \in 0 .. n : u <= v => upTo[s][u] <= upTo[s][v]
    BY <1>2, <1>9 DEF Ordered, Numbered
  <2>2. ASSUME NEW v \in 1 .. n + 1
        PROVE  new[s][v] = new[s][v - 1] + CountOf(v, s)'
    <3>1. CASE v = n + 1
      BY <1>9, <1>5, <1>14, <1>16, <3>1
    <3>2. CASE v # n + 1
      <4>1. v \in 1 .. n /\ v \in 0 .. n /\ v - 1 \in 0 .. n
        BY <1>9, <1>5, <3>2
      <4> QED  BY <1>14, <1>17, <2>1, <4>1
    <3> QED  BY <3>1, <3>2
  <2>3. ASSUME NEW u \in 0 .. n + 1, NEW v \in 0 .. n + 1, u <= v
        PROVE  new[s][u] <= new[s][v]
    <3>1. upTo[s][n] \in Nat /\ count(s) \in Nat /\ n \in 0 .. n
      BY <1>9, <1>13, <1>6
    <3>2. CASE v = n + 1 /\ u = n + 1
      BY <1>14, <3>1, <3>2
    <3>3. CASE v = n + 1 /\ u # n + 1
      <4>1. u \in 0 .. n /\ u <= n
        BY <1>9, <3>3
      <4>2. upTo[s][u] <= upTo[s][n] /\ upTo[s][u] \in Nat
        BY <1>9, <1>13, <2>1, <3>1, <4>1
      <4> QED  BY <1>14, <3>1, <3>3, <4>1, <4>2
    <3>4. CASE v # n + 1
      <4>1. u \in 0 .. n /\ v \in 0 .. n
        BY <1>9, <2>3, <3>4
      <4> QED  BY <1>14, <2>1, <2>3, <4>1
    <3> QED  BY <3>2, <3>3, <3>4
  <2>4. new[s][0] = 0
    BY <1>9, <1>5, <1>14, <2>1
  <2>5. \A v \in Nat : new[s][v] \in Nat
    BY <1>15
  <2>6. \A v \in 1 .. n + 1 : new[s][v] = new[s][v - 1] + CountOf(v, s)'
    BY <2>2
  <2>7. \A u, v \in 0 .. n + 1 : u <= v => new[s][u] <= new[s][v]
    BY <2>3
  <2> QED  BY <2>4, <2>5, <2>6, <2>7
<1>19. \A s \in Seg : OnOffer(new, s)' = OnOffer(upTo, s)
                       /\ LastTaken(new, s)' = LastTaken(upTo, s)
  <2> SUFFICES ASSUME NEW s \in Seg PROVE OnOffer(new, s)' = OnOffer(upTo, s)
    BY <1>4 DEF LastTaken
  <2>1. upTo[s][n] \in Nat
    BY <1>9, <1>13, <1>5
  <2> QED  BY <1>9, <1>5, <1>6, <1>10, <1>14, <2>1 DEF OnOffer
<1>20. InLine(new)'
  <2>1. \A s \in Seg : \A g, p : IsPiece(upTo, s, g, p) => IsPiece(new, s, g, p)'
    <3> SUFFICES ASSUME NEW s \in Seg, NEW g, NEW p, IsPiece(upTo, s, g, p)
                 PROVE  IsPiece(new, s, g, p)'
      OBVIOUS
    <3>1. PICK v \in 1 .. n : \E i \in 1 .. CountOf(v, s) :
            g = upTo[s][v - 1] + i /\ p = PieceOf(v, s, i)
      BY <1>9 DEF IsPiece
    <3>2. v \in 1 .. n + 1 /\ v - 1 \in 0 .. n
      BY <1>9, <1>5, <3>1
    <3>3. new[s][v - 1] = upTo[s][v - 1]
      BY <1>14, <3>2
    <3> QED  BY <1>9, <1>5, <1>17, <3>1, <3>2, <3>3 DEF IsPiece
  <2>2. ASSUME NEW s \in Seg, wrCmd'[s] # None
        PROVE  IsPiece(new, s, OnOffer(new, s), wrCmd[s])'
    <3>1. IsPiece(upTo, s, OnOffer(upTo, s), wrCmd[s])
      BY <1>2, <1>9, <1>4, <2>2 DEF Ordered, InLine
    <3>2. PICK g, p : g = OnOffer(upTo, s) /\ p = wrCmd[s]
      OBVIOUS
    <3>3. IsPiece(new, s, g, p)'
      BY <2>1, <3>1, <3>2
    <3>4. g = OnOffer(new, s)' /\ p = wrCmd'[s]
      BY <1>4, <1>19, <3>2
    <3> QED  BY <3>3, <3>4 DEF IsPiece
  <2>3. ASSUME NEW s \in Seg, NEW j \in 1 .. Len(segWrite'[s])
        PROVE  IsPiece(new, s, OnOffer(new, s) + j, segWrite[s][j])'
    <3> DEFINE l == Len(segWrite[s])
    <3>1. l \in Nat /\ j \in 1 .. l + count(s) /\ count(s) \in Nat
      BY <1>6, <1>10
    <3>2. CASE j \in 1 .. l
      <4>1. IsPiece(upTo, s, OnOffer(upTo, s) + j, segWrite[s][j])
        BY <1>2, <1>9, <3>2 DEF Ordered, InLine
      <4>2. segWrite'[s][j] = segWrite[s][j]
        BY <1>10, <3>2
      <4>3. PICK g, p : g = OnOffer(upTo, s) + j /\ p = segWrite[s][j]
        OBVIOUS
      <4>4. IsPiece(new, s, g, p)'
        BY <2>1, <4>1, <4>3
      <4>5. g = OnOffer(new, s)' + j /\ p = segWrite'[s][j]
        BY <1>19, <4>2, <4>3
      <4> QED  BY <4>4, <4>5 DEF IsPiece
    <3>3. CASE j \notin 1 .. l
      <4>1. PICK i \in 1 .. count(s) : j = l + i
        <5>1. j - l \in 1 .. count(s) /\ j = l + (j - l)
          BY <3>1, <3>3
        <5> QED  BY <5>1
      <4>2. segWrite'[s][j] = WritePiece(n + 1, addr, len, PiecesIn(addr, len, s)[i])
        BY <1>10, <4>1 DEF added
      <4>3. OnOffer(upTo, s) + j = upTo[s][n] + i
        <5>1. upTo[s][n] \in Nat
          BY <1>9, <1>13
        <5> QED  BY <1>9, <3>1, <4>1, <5>1 DEF OnOffer
      <4>4. new[s][(n + 1) - 1] = upTo[s][n] /\ n + 1 \in 1 .. n + 1
        BY <1>9, <1>5, <1>14
      <4>5. /\ OnOffer(new, s)' + j = new[s][(n + 1) - 1] + i
            /\ segWrite'[s][j] = PieceOf(n + 1, s, i)'
            /\ i \in 1 .. CountOf(n + 1, s)'
        BY <1>16, <1>19, <4>2, <4>3, <4>4
      <4> QED  BY <1>9, <1>5, <4>4, <4>5 DEF IsPiece
    <3> QED  BY <3>2, <3>3
  <2> QED  BY <2>2, <2>3 DEF InLine
<1>21. Answered(new)'
  <2>1. written \in 0 .. n
    BY <1>3, <1>9 DEF WriteTypes
  <2> QED  BY <1>2, <1>9, <1>4, <1>14, <1>19, <2>1 DEF Ordered, Answered
<1>22. InPlace(new)'
  <2> SUFFICES ASSUME NEW a \in 0 .. Size - 1
               PROVE  LET w == mem[a][1] IN
                      /\ w \in 0 .. n + 1 /\ Covers(w, a)'
                      /\ mem[a][2] = IF w = 0 THEN a ELSE a - writes'[w].addr
                      /\ \A v \in w + 1 .. n + 1 : \A i \in 1 .. CountOf(v, FirstSeg(a))' :
                            Touches(v, i, a)' =>
                                LastTaken(new, FirstSeg(a))' < new[FirstSeg(a)][v - 1] + i
    BY <1>9, <1>5 DEF InPlace
  <2>0. PICK w, s : w = mem[a][1] /\ s = FirstSeg(a)
    OBVIOUS
  <2>1. /\ w \in 0 .. n /\ Covers(w, a)
        /\ mem[a][2] = IF w = 0 THEN a ELSE a - writes[w].addr
        /\ \A v \in w + 1 .. n : \A i \in 1 .. CountOf(v, s) :
                Touches(v, i, a) => LastTaken(upTo, s) < upTo[s][v - 1] + i
    BY <1>2, <1>9, <2>0 DEF Ordered, InPlace
  <2>2. s \in Seg
    BY <2>0, FirstSegIn, Numbers DEF Seg
  <2>3. /\ w \in 0 .. n + 1 /\ Covers(w, a)'
        /\ mem[a][2] = IF w = 0 THEN a ELSE a - writes'[w].addr
    <3>1. w \in 0 .. n + 1
      BY <1>9, <2>1
    <3>2. CASE w = 0
      <4>1. Covers(w, a)'
        BY <3>2 DEF Covers
      <4> QED  BY <2>1, <3>1, <3>2, <4>1
    <3>3. CASE w # 0
      <4>1. w \in 1 .. n
        BY <1>9, <2>1, <3>3
      <4>2. Covers(w, a)' /\ writes'[w] = writes[w]
        BY <1>5, <1>17, <2>1, <4>1
      <4> QED  BY <2>1, <3>1, <3>3, <4>2
    <3> QED  BY <3>2, <3>3
  <2>4. ASSUME NEW v \in w + 1 .. n + 1, NEW i \in 1 .. CountOf(v, s)', Touches(v, i, a)'
        PROVE  LastTaken(new, s)' < new[s][v - 1] + i
    <3>1. CASE v = n + 1
      <4>1. upTo[s][n] \in Nat /\ i \in Nat \ {0} /\ new[s][v - 1] = upTo[s][n]
        BY <1>9, <1>13, <1>6, <1>14, <1>16, <2>2, <2>4, <3>1
      <4>2. OnOffer(upTo, s) <= upTo[s][n] /\ LastTaken(upTo, s) <= upTo[s][n]
            /\ LastTaken(upTo, s) \in Int
        <5>1. Len(segWrite[s]) \in Nat
          BY <1>10, <2>2
        <5> QED  BY <1>9, <4>1, <5>1 DEF LastTaken, OnOffer
      <4> QED  BY <1>19, <2>2, <4>1, <4>2
    <3>2. CASE v # n + 1
      <4>1. v \in w + 1 .. n /\ v \in 1 .. n /\ v - 1 \in 0 .. n
        BY <1>9, <1>5, <2>1, <3>2
      <4>2. i \in 1 .. CountOf(v, s) /\ Touches(v, i, a)
        BY <1>17, <2>4, <4>1
      <4> QED  BY <1>14, <1>19, <2>1, <2>2, <4>1, <4>2
    <3> QED  BY <3>1, <3>2
  <2> QED  BY <2>0, <2>3, <2>4
<1> QED  BY <1>11, <1>14, <1>18, <1>20, <1>21, <1>22 DEF WriteInv, Ordered

(* A call that returns had its pieces taken.                               *)
LEMMA ReturnWriteStep ==
    ASSUME WriteInv, ReturnWrite, mem' = mem
    PROVE  WriteInv'
<1>1. PICK upTo : Ordered(upTo)
  BY DEF WriteInv
<1>2. WriteTypes
  BY DEF WriteInv
<1>3. PICK n : n = written + 1
  OBVIOUS
<1>4. /\ written < Len(writes) /\ written' = n
      /\ \A s \in Seg : wrTokens[s] >= NeedsTokens(writes[n], s)
      /\ wrTokens' = [s \in Seg |-> wrTokens[s] - NeedsTokens(writes[n], s)]
      /\ UNCHANGED <<writes, segWrite, wrCmd, wrReady, wrDone>>
  BY <1>3 DEF ReturnWrite, Complete
<1>5. n \in 1 .. Len(writes) /\ written \in Nat /\ n - 1 = written
  BY <1>2, <1>3, <1>4 DEF WriteTypes
<1>6. \A s \in Seg : NeedsTokens(writes[n], s) = CountOf(n, s) /\ CountOf(n, s) \in Nat
  <2> SUFFICES ASSUME NEW s \in Seg
               PROVE  NeedsTokens(writes[n], s) = CountOf(n, s) /\ CountOf(n, s) \in Nat
    OBVIOUS
  <2>1. writes[n].addr \in Nat /\ writes[n].len \in Nat
    BY <1>2, <1>5, CallType
  <2>2. CountOf(n, s) \in Nat
    BY <2>1, CountNat DEF CountOf
  <2> QED  BY <2>2 DEF NeedsTokens, PiecesIn, CountOf
<1>7. \A s \in Seg : wrTokens[s] \in Nat /\ wrTokens'[s] \in Nat
                     /\ wrTokens'[s] = wrTokens[s] - CountOf(n, s)
  BY <1>2, <1>4, <1>6 DEF WriteTypes
<1>8. WriteTypes'
  <2>1. wrTokens' \in [Seg -> Nat]
    BY <1>4, <1>7
  <2>2. written' \in 0 .. Len(writes')
    BY <1>4, <1>5
  <2> QED  BY <1>2, <1>4, <2>1, <2>2 DEF WriteTypes
<1>9. Answered(upTo)'
  <2> SUFFICES ASSUME NEW s \in Seg
               PROVE  upTo[s][n] + wrTokens'[s] + (IF s \in wrDone THEN 1 ELSE 0)
                        <= LastTaken(upTo, s)
    BY <1>4 DEF Answered, LastTaken, OnOffer
  <2>1. upTo[s][written] + wrTokens[s] + (IF s \in wrDone THEN 1 ELSE 0)
            <= LastTaken(upTo, s)
    BY <1>1 DEF Ordered, Answered
  <2>2. upTo[s][n] = upTo[s][n - 1] + CountOf(n, s)
    BY <1>1, <1>5 DEF Ordered, Numbered
  <2>3. upTo[s][written] \in Nat /\ LastTaken(upTo, s) \in Int
    BY <1>1, <1>2, <1>5, NumberType
  <2> QED  BY <1>5, <1>6, <1>7, <2>1, <2>2, <2>3
<1>10. Ordered(upTo)'
  BY <1>1, <1>2, <1>4, <1>9, SameOrder
<1> QED  BY <1>8, <1>10 DEF WriteInv

(* At reset nothing moves.                                                 *)
LEMMA WriteResetStep ==
    ASSUME WriteInv, WriteReset, mem' = mem
    PROVE  WriteInv'
<1>1. PICK upTo : Ordered(upTo)
  BY DEF WriteInv
<1>2. WriteTypes /\ WriteTypes'
  BY DEF WriteInv, WriteTypes, WriteReset
<1>3. Answered(upTo)'
  <2> SUFFICES ASSUME NEW s \in Seg
               PROVE  upTo[s][written] + wrTokens[s] + 0 <= LastTaken(upTo, s)
    BY DEF WriteReset, Answered, LastTaken, OnOffer
  <2>1. upTo[s][written] + wrTokens[s] + (IF s \in wrDone THEN 1 ELSE 0)
            <= LastTaken(upTo, s)
    BY <1>1 DEF Ordered, Answered
  <2>2. upTo[s][written] \in Nat /\ LastTaken(upTo, s) \in Int /\ wrTokens[s] \in Nat
    BY <1>1, <1>2, NumberType
  <2> QED  BY <2>1, <2>2
<1>4. Ordered(upTo)'
  BY <1>1, <1>2, <1>3, SameOrder DEF WriteReset
<1> QED  BY <1>2, <1>4 DEF WriteInv

(* Steps of the read half leave all this alone.                            *)
LEMMA OtherStep ==
    ASSUME WriteInv, UNCHANGED <<writeVars, mem>>
    PROVE  WriteInv'
<1>1. PICK upTo : Ordered(upTo)
  BY DEF WriteInv
<1>2. WriteTypes /\ WriteTypes'
  BY DEF WriteInv, WriteTypes, writeVars
<1>3. Answered(upTo)'
  BY <1>1 DEF Ordered, Answered, LastTaken, OnOffer, writeVars
<1>4. Ordered(upTo)'
  BY <1>1, <1>2, <1>3, SameOrder DEF writeVars
<1> QED  BY <1>2, <1>4 DEF WriteInv

(* Nothing is written at first.                                            *)
LEMMA WriteInvInit == Init => WriteInv
<1> SUFFICES ASSUME Init PROVE WriteInv
  OBVIOUS
<1>1. /\ writes = <<>> /\ written = 0 /\ segWrite = [s \in Seg |-> <<>>]
      /\ wrCmd = [s \in Seg |-> None] /\ wrDone = {} /\ wrTokens = [s \in Seg |-> 0]
      /\ mem = [a \in 0 .. Size - 1 |-> <<0, a>>]
      /\ Len(writes) = 0
  BY DEF Init, WriteInit
<1>2. WriteTypes
  BY <1>1 DEF WriteTypes
<1>3. PICK upTo : upTo = [s \in Seg |-> [v \in Nat |-> 0]]
  OBVIOUS
<1>4. \A s \in Seg : \A v \in Nat : upTo[s][v] = 0
  BY <1>3
<1>5. \A s \in Seg : OnOffer(upTo, s) = 0 /\ LastTaken(upTo, s) = 0
  BY <1>1, <1>4 DEF OnOffer, LastTaken
<1>6. Numbered(upTo)
  BY <1>1, <1>4 DEF Numbered
<1>7. InLine(upTo)
  BY <1>1 DEF InLine
<1>8. Answered(upTo)
  BY <1>1, <1>4, <1>5 DEF Answered
<1>9. InPlace(upTo)
  BY <1>1 DEF InPlace, Covers
<1> QED  BY <1>2, <1>6, <1>7, <1>8, <1>9 DEF WriteInv, Ordered

-----------------------------------------------------------------------------
(* The clock edge of the write half                                        *)

(* A later call has later numbers.                                         *)
LEMMA LaterNumbers ==
    ASSUME WriteTypes, NEW upTo, Ordered(upTo), NEW s \in Seg,
           NEW u \in 1 .. Len(writes), NEW v \in 1 .. Len(writes), u < v,
           NEW i \in 1 .. CountOf(u, s), NEW j \in 1 .. CountOf(v, s)
    PROVE  upTo[s][u - 1] + i < upTo[s][v - 1] + j
<1>1. Len(writes) \in Nat
  BY NumberType
<1>2. /\ u \in Nat /\ v \in Nat /\ u - 1 \in Nat /\ v - 1 \in Nat
      /\ u \in 0 .. Len(writes) /\ v - 1 \in 0 .. Len(writes) /\ u <= v - 1
  BY <1>1
<1>3. \A w \in Nat : upTo[s][w] \in Nat
  BY NumberType
<1>4. upTo[s][u] = upTo[s][u - 1] + CountOf(u, s)
  BY DEF Ordered, Numbered
<1>5. upTo[s][u] <= upTo[s][v - 1]
  BY <1>2 DEF Ordered, Numbered
<1>6. upTo[s][u] \in Nat /\ upTo[s][u - 1] \in Nat /\ upTo[s][v - 1] \in Nat
  BY <1>2, <1>3
<1>7. CountOf(u, s) \in Nat
  <2>1. writes[u].addr \in Nat /\ writes[u].len \in Nat
    BY CallType
  <2> QED  BY <2>1, CountNat DEF CountOf
<1>8. i \in Nat /\ j \in Nat /\ i <= CountOf(u, s) /\ j > 0
  BY <1>7
<1>9. upTo[s][u - 1] + i <= upTo[s][u]
  BY <1>4, <1>6, <1>7, <1>8
<1>10. upTo[s][v - 1] < upTo[s][v - 1] + j
  BY <1>6, <1>8
<1> DEFINE a == upTo[s][u - 1] + i
           b == upTo[s][u]
           c == upTo[s][v - 1]
           d == upTo[s][v - 1] + j
<1>11. a <= b /\ b <= c /\ c < d
  BY <1>5, <1>9, <1>10
<1>12. a \in Int /\ b \in Int /\ c \in Int /\ d \in Int
  <2>1. i \in Int /\ j \in Int /\ b \in Int /\ c \in Int
    BY <1>6, <1>8
  <2>2. a \in Int
    BY <1>6, <2>1
  <2>3. d \in Int
    BY <1>6, <2>1
  <2> QED  BY <2>1, <2>2, <2>3
<1> HIDE DEF a, b, c, d
<1>13. a < d
  BY <1>11, <1>12
<1> QED  BY <1>13 DEF a, d

(* A number is one piece.                                                  *)
LEMMA OneNumber ==
    ASSUME WriteTypes, NEW upTo, Ordered(upTo), NEW s \in Seg,
           NEW u \in 1 .. Len(writes), NEW v \in 1 .. Len(writes),
           NEW i \in 1 .. CountOf(u, s), NEW j \in 1 .. CountOf(v, s),
           upTo[s][u - 1] + i = upTo[s][v - 1] + j
    PROVE  u = v /\ i = j
<1>1. u \in Nat /\ v \in Nat /\ u - 1 \in Nat /\ v - 1 \in Nat
  BY NumberType
<1>2. upTo[s][u - 1] \in Nat /\ upTo[s][v - 1] \in Nat
  BY <1>1, NumberType
<1>3. i \in Int /\ j \in Int
  OBVIOUS
<1>4. ~(u < v)
  <2> SUFFICES ASSUME u < v PROVE FALSE
    OBVIOUS
  <2>1. upTo[s][u - 1] + i < upTo[s][v - 1] + j
    BY LaterNumbers
  <2> QED  BY <1>2, <1>3, <2>1
<1>5. ~(v < u)
  <2> SUFFICES ASSUME v < u PROVE FALSE
    OBVIOUS
  <2>1. upTo[s][v - 1] + j < upTo[s][u - 1] + i
    BY LaterNumbers
  <2> QED  BY <1>2, <1>3, <2>1
<1>6. u = v
  BY <1>1, <1>4, <1>5
<1> QED  BY <1>2, <1>3, <1>6

(* What the edge does with what a segment has on offer and queued.         *)
LEMMA EdgeMoves ==
    ASSUME WriteTypes, NEW upTo, Ordered(upTo), NEW pause, MasterWriteEdge(pause),
           writes' = writes, NEW s \in Seg
    PROVE  /\ segWrite'[s] \in Seq(Piece) /\ wrCmd'[s] \in Piece \union {None}
           /\ LastTaken(upTo, s)' = LastTaken(upTo, s) + (IF s \in Taken THEN 1 ELSE 0)
           /\ \/ /\ OnOffer(upTo, s)' = OnOffer(upTo, s) + 1
                 /\ wrCmd'[s] = segWrite[s][1] /\ Len(segWrite[s]) > 0
                 /\ \A j \in 1 .. Len(segWrite'[s]) :
                        /\ segWrite'[s][j] = segWrite[s][j + 1]
                        /\ j + 1 \in 1 .. Len(segWrite[s])
              \/ /\ OnOffer(upTo, s)' = OnOffer(upTo, s)
                 /\ wrCmd'[s] \in {None, wrCmd[s]} /\ segWrite'[s] = segWrite[s]
<1>1. /\ segWrite[s] \in Seq(Piece) /\ Len(segWrite[s]) \in Nat
      /\ wrCmd[s] \in Piece \union {None}
  BY DEF WriteTypes
<1>2. /\ wrCmd'[s] = IF Offers(s, pause) THEN Head(segWrite[s])
                     ELSE IF Moves(s) THEN None ELSE wrCmd[s]
      /\ segWrite'[s] = IF Offers(s, pause) THEN Tail(segWrite[s]) ELSE segWrite[s]
  BY DEF MasterWriteEdge
<1>3. s \in Taken <=> wrReady /\ ~afterReset /\ wrCmd[s] # None
  BY DEF Taken
<1>4. Moves(s) <=> (wrReady /\ ~afterReset) \/ wrCmd[s] = None
  BY DEF Moves
<1>5. upTo[s][Len(writes)] \in Nat
  BY NumberType
<1>6. CASE Offers(s, pause)
  <2>1. Moves(s) /\ segWrite[s] # <<>>
    BY <1>6 DEF Offers
  <2>2. wrCmd'[s] = segWrite[s][1] /\ Len(segWrite[s]) > 0 /\ segWrite[s][1] \in Piece
    BY <1>1, <1>2, <1>6, <2>1
  <2>3. /\ segWrite'[s] \in Seq(Piece) /\ Len(segWrite'[s]) = Len(segWrite[s]) - 1
        /\ \A j \in 1 .. Len(segWrite'[s]) :
                segWrite'[s][j] = segWrite[s][j + 1] /\ j + 1 \in 1 .. Len(segWrite[s])
    BY <1>1, <1>2, <1>6, <2>1
  <2>4. OnOffer(upTo, s)' = OnOffer(upTo, s) + 1
    BY <1>1, <1>5, <2>3 DEF OnOffer
  <2>5. wrCmd'[s] # None
    BY <2>2, PieceAssumption
  <2>6. OnOffer(upTo, s) \in Int /\ OnOffer(upTo, s)' \in Int
    BY <2>4, NumberType
  <2>7. LastTaken(upTo, s)' = OnOffer(upTo, s)
    BY <2>4, <2>5, <2>6 DEF LastTaken
  <2>8. LastTaken(upTo, s) = OnOffer(upTo, s) - (IF s \in Taken THEN 1 ELSE 0)
    BY <1>3, <1>4, <2>1 DEF LastTaken
  <2> QED  BY <2>2, <2>3, <2>4, <2>6, <2>7, <2>8
<1>7. CASE ~Offers(s, pause)
  <2>1. segWrite'[s] = segWrite[s] /\ wrCmd'[s] = IF Moves(s) THEN None ELSE wrCmd[s]
    BY <1>2, <1>7
  <2>2. OnOffer(upTo, s)' = OnOffer(upTo, s) /\ OnOffer(upTo, s) \in Int
    BY <2>1, NumberType DEF OnOffer
  <2>3. LastTaken(upTo, s)' = LastTaken(upTo, s) + (IF s \in Taken THEN 1 ELSE 0)
    <3>1. CASE Moves(s)
      <4>1. LastTaken(upTo, s)' = OnOffer(upTo, s)
        BY <2>1, <2>2, <3>1 DEF LastTaken
      <4>2. LastTaken(upTo, s) = OnOffer(upTo, s) - (IF s \in Taken THEN 1 ELSE 0)
        BY <1>3, <1>4, <3>1 DEF LastTaken
      <4> QED  BY <2>2, <4>1, <4>2
    <3>2. CASE ~Moves(s)
      <4>1. s \notin Taken /\ wrCmd'[s] = wrCmd[s]
        BY <1>3, <1>4, <2>1, <3>2
      <4> QED  BY <2>2, <4>1 DEF LastTaken
    <3> QED  BY <3>1, <3>2
  <2>4. wrCmd'[s] \in {None, wrCmd[s]} /\ wrCmd'[s] \in Piece \union {None}
    BY <1>1, <2>1
  <2> QED  BY <1>1, <2>1, <2>2, <2>3, <2>4
<1> QED  BY <1>6, <1>7

(* What the edge does to a byte of the RAM.                                *)
LEMMA EdgeStores ==
    ASSUME WriteTypes, NEW upTo, Ordered(upTo), NEW a \in 0 .. Size - 1
    PROVE  \/ /\ FirstSeg(a) \in Taken
              /\ \E v \in 1 .. Len(writes) : \E i \in 1 .. CountOf(v, FirstSeg(a)) :
                    /\ OnOffer(upTo, FirstSeg(a)) = upTo[FirstSeg(a)][v - 1] + i
                    /\ Covers(v, a) /\ Stored[a] = <<v, a - writes[v].addr>>
           \/ /\ Stored[a] = mem[a]
              /\ FirstSeg(a) \in Taken =>
                    \A v \in 1 .. Len(writes) : \A i \in 1 .. CountOf(v, FirstSeg(a)) :
                        Touches(v, i, a) =>
                            OnOffer(upTo, FirstSeg(a)) # upTo[FirstSeg(a)][v - 1] + i
<1>1. PICK s, lane : s = FirstSeg(a) /\ lane = a % SegBytes
  OBVIOUS
<1>2. s \in Seg
  BY <1>1, FirstSegIn, Numbers DEF Seg
<1>3. PICK hit : hit <=> /\ s \in Taken /\ lane \in DOMAIN wrCmd[s].data
                         /\ RamAddr(s, wrCmd[s].word, lane) = a
  OBVIOUS
<1>4. Stored[a] = IF hit THEN wrCmd[s].data[lane] ELSE mem[a]
  BY <1>1, <1>3 DEF Stored
<1>5. CASE s \notin Taken
  BY <1>1, <1>3, <1>4, <1>5
<1>6. CASE s \in Taken
  <2>1. IsPiece(upTo, s, OnOffer(upTo, s), wrCmd[s])
    BY <1>2, <1>6 DEF Taken, Ordered, InLine
  <2>2. PICK v \in 1 .. Len(writes) : \E i \in 1 .. CountOf(v, s) :
            OnOffer(upTo, s) = upTo[s][v - 1] + i /\ wrCmd[s] = PieceOf(v, s, i)
    BY <2>1 DEF IsPiece
  <2>3. PICK i \in 1 .. CountOf(v, s) :
            OnOffer(upTo, s) = upTo[s][v - 1] + i /\ wrCmd[s] = PieceOf(v, s, i)
    BY <2>2
  <2>4. PICK k : k = PiecesIn(writes[v].addr, writes[v].len, s)[i]
    OBVIOUS
  <2>5. /\ wrCmd[s].word = PieceWord(writes[v].addr, k)
        /\ DOMAIN wrCmd[s].data = PieceLanes(writes[v].addr, writes[v].len, k)
    <3>1. /\ PieceOf(v, s, i).word = PieceWord(writes[v].addr, k)
          /\ PieceOf(v, s, i).data
                = [j \in PieceLanes(writes[v].addr, writes[v].len, k) |->
                        <<v, ByteOfPiece(writes[v].addr, k, j)>>]
      BY <1>2, <2>4, PieceOfIs
    <3> QED  BY <2>3, <3>1
  <2>6. hit <=> Touches(v, i, a)
    BY <1>1, <1>3, <1>6, <2>4, <2>5 DEF Touches
  <2>7. CASE hit
    <3>1. Covers(v, a) /\ PieceOf(v, s, i).data[lane] = <<v, a - writes[v].addr>>
      BY <1>1, <2>6, <2>7, PieceCarries
    <3>2. Stored[a] = <<v, a - writes[v].addr>>
      BY <1>4, <2>3, <2>7, <3>1
    <3> QED  BY <1>1, <1>6, <2>3, <3>1, <3>2
  <2>8. CASE ~hit
    <3>1. Stored[a] = mem[a]
      BY <1>4, <2>8
    <3>2. ASSUME NEW u \in 1 .. Len(writes), NEW j \in 1 .. CountOf(u, s), Touches(u, j, a)
          PROVE  OnOffer(upTo, s) # upTo[s][u - 1] + j
      <4> SUFFICES ASSUME OnOffer(upTo, s) = upTo[s][u - 1] + j PROVE FALSE
        OBVIOUS
      <4>1. v = u /\ i = j
        BY <1>2, <2>3, OneNumber
      <4> QED  BY <2>6, <2>8, <3>2, <4>1
    <3> QED  BY <1>1, <3>1, <3>2
  <2> QED  BY <2>7, <2>8
<1> QED  BY <1>5, <1>6

(* At a clock edge the pieces on offer are taken, in order.                *)
LEMMA WriteEdgeStep ==
    ASSUME WriteInv, NEW masterPause, NEW ramPause, WriteEdge(masterPause, ramPause)
    PROVE  WriteInv'
<1>1. PICK upTo : Ordered(upTo)
  BY DEF WriteInv
<1>2. WriteTypes
  BY DEF WriteInv
<1>3. /\ MasterWriteEdge(masterPause) /\ mem' = Stored /\ wrDone' = Taken
      /\ UNCHANGED <<writes, written>>
  BY DEF WriteEdge, RamWriteEdge
<1>4. \A s \in Seg :
        /\ segWrite'[s] \in Seq(Piece) /\ wrCmd'[s] \in Piece \union {None}
        /\ LastTaken(upTo, s)' = LastTaken(upTo, s) + (IF s \in Taken THEN 1 ELSE 0)
  BY <1>1, <1>2, <1>3, EdgeMoves
<1>5. /\ \A s, g, p : IsPiece(upTo, s, g, p)' <=> IsPiece(upTo, s, g, p)
      /\ \A v, s : CountOf(v, s)' = CountOf(v, s)
      /\ \A v, i, a : Touches(v, i, a)' <=> Touches(v, i, a)
      /\ \A v, a : Covers(v, a)' <=> Covers(v, a)
  BY <1>3 DEF IsPiece, CountOf, PieceOf, Touches, Covers
<1>6. WriteTypes'
  <2>1. segWrite' \in [Seg -> Seq(Piece)] /\ wrCmd' \in [Seg -> Piece \union {None}]
    BY <1>3, <1>4 DEF MasterWriteEdge
  <2>2. wrTokens' \in [Seg -> Nat]
    BY <1>2, <1>3 DEF MasterWriteEdge, WriteTypes
  <2>3. wrDone' \in SUBSET Seg /\ DOMAIN mem' = 0 .. Size - 1
    BY <1>3 DEF Taken, Stored
  <2> QED  BY <1>2, <1>3, <2>1, <2>2, <2>3 DEF WriteTypes
<1>7. Numbered(upTo)'
  BY <1>1, <1>3, <1>5 DEF Ordered, Numbered
<1>8. InLine(upTo)'
  <2>1. ASSUME NEW s \in Seg
        PROVE  /\ wrCmd'[s] # None => IsPiece(upTo, s, OnOffer(upTo, s)', wrCmd'[s])
               /\ \A j \in 1 .. Len(segWrite'[s]) :
                    IsPiece(upTo, s, OnOffer(upTo, s)' + j, segWrite'[s][j])
    <3>1. /\ wrCmd[s] # None => IsPiece(upTo, s, OnOffer(upTo, s), wrCmd[s])
          /\ \A j \in 1 .. Len(segWrite[s]) :
                IsPiece(upTo, s, OnOffer(upTo, s) + j, segWrite[s][j])
      BY <1>1 DEF Ordered, InLine
    <3>2. OnOffer(upTo, s) \in Int /\ Len(segWrite[s]) \in Nat /\ Len(segWrite'[s]) \in Nat
      BY <1>1, <1>2, <1>4, NumberType
    <3>3. \/ /\ OnOffer(upTo, s)' = OnOffer(upTo, s) + 1
             /\ wrCmd'[s] = segWrite[s][1] /\ Len(segWrite[s]) > 0
             /\ \A j \in 1 .. Len(segWrite'[s]) :
                    /\ segWrite'[s][j] = segWrite[s][j + 1]
                    /\ j + 1 \in 1 .. Len(segWrite[s])
          \/ /\ OnOffer(upTo, s)' = OnOffer(upTo, s)
             /\ wrCmd'[s] \in {None, wrCmd[s]} /\ segWrite'[s] = segWrite[s]
      BY <1>1, <1>2, <1>3, EdgeMoves
    <3>4. CASE /\ OnOffer(upTo, s)' = OnOffer(upTo, s) + 1
               /\ wrCmd'[s] = segWrite[s][1] /\ Len(segWrite[s]) > 0
               /\ \A j \in 1 .. Len(segWrite'[s]) :
                    /\ segWrite'[s][j] = segWrite[s][j + 1]
                    /\ j + 1 \in 1 .. Len(segWrite[s])
      <4>1. 1 \in 1 .. Len(segWrite[s])
        BY <3>2, <3>4
      <4>2. IsPiece(upTo, s, OnOffer(upTo, s)', wrCmd'[s])
        BY <3>1, <3>4, <4>1
      <4>3. ASSUME NEW j \in 1 .. Len(segWrite'[s])
            PROVE  IsPiece(upTo, s, OnOffer(upTo, s)' + j, segWrite'[s][j])
        <5>1. IsPiece(upTo, s, OnOffer(upTo, s) + (j + 1), segWrite[s][j + 1])
          BY <3>1, <3>4
        <5>2. OnOffer(upTo, s)' + j = OnOffer(upTo, s) + (j + 1)
          BY <3>2, <3>4
        <5> QED  BY <3>4, <5>1, <5>2
      <4> QED  BY <4>2, <4>3
    <3>5. CASE /\ OnOffer(upTo, s)' = OnOffer(upTo, s)
               /\ wrCmd'[s] \in {None, wrCmd[s]} /\ segWrite'[s] = segWrite[s]
      BY <3>1, <3>5
    <3> QED  BY <3>3, <3>4, <3>5
  <2>2. ASSUME NEW s \in Seg, NEW g, NEW p, IsPiece(upTo, s, g, p)
        PROVE  IsPiece(upTo, s, g, p)'
    BY <1>5, <2>2
  <2>3. ASSUME NEW s \in Seg, wrCmd'[s] # None
        PROVE  IsPiece(upTo, s, OnOffer(upTo, s), wrCmd[s])'
    <3>1. PICK g, p : g = OnOffer(upTo, s)' /\ p = wrCmd'[s]
      OBVIOUS
    <3>2. IsPiece(upTo, s, g, p)'
      BY <2>1, <2>2, <2>3, <3>1
    <3> QED  BY <3>1, <3>2 DEF IsPiece
  <2>4. ASSUME NEW s \in Seg, NEW j \in 1 .. Len(segWrite'[s])
        PROVE  IsPiece(upTo, s, OnOffer(upTo, s) + j, segWrite[s][j])'
    <3>1. PICK g, p : g = OnOffer(upTo, s)' + j /\ p = segWrite'[s][j]
      OBVIOUS
    <3>2. IsPiece(upTo, s, g, p)'
      BY <2>1, <2>2, <3>1
    <3> QED  BY <3>1, <3>2 DEF IsPiece
  <2> QED  BY <2>3, <2>4 DEF InLine
<1>9. Answered(upTo)'
  <2> SUFFICES ASSUME NEW s \in Seg
               PROVE  upTo[s][written] + wrTokens'[s] + (IF s \in wrDone' THEN 1 ELSE 0)
                        <= LastTaken(upTo, s)'
    BY <1>3 DEF Answered
  <2>1. upTo[s][written] + wrTokens[s] + (IF s \in wrDone THEN 1 ELSE 0)
            <= LastTaken(upTo, s)
    BY <1>1 DEF Ordered, Answered
  <2>2. wrTokens'[s] = wrTokens[s] + (IF s \in wrDone THEN 1 ELSE 0)
    BY <1>3 DEF MasterWriteEdge
  <2>3. LastTaken(upTo, s)' = LastTaken(upTo, s) + (IF s \in wrDone' THEN 1 ELSE 0)
    BY <1>3, <1>4
  <2>4. upTo[s][written] \in Nat /\ LastTaken(upTo, s) \in Int /\ wrTokens[s] \in Nat
    BY <1>1, <1>2, NumberType
  <2> QED  BY <2>1, <2>2, <2>3, <2>4
<1>10. InPlace(upTo)'
  <2> SUFFICES ASSUME NEW a \in 0 .. Size - 1
               PROVE  LET w == mem'[a][1] IN
                      /\ w \in 0 .. Len(writes) /\ Covers(w, a)
                      /\ mem'[a][2] = IF w = 0 THEN a ELSE a - writes[w].addr
                      /\ \A v \in w + 1 .. Len(writes) : \A i \in 1 .. CountOf(v, FirstSeg(a)) :
                            Touches(v, i, a) =>
                                LastTaken(upTo, FirstSeg(a))' < upTo[FirstSeg(a)][v - 1] + i
    BY <1>3, <1>5 DEF InPlace
  <2>1. PICK s, w : s = FirstSeg(a) /\ w = mem'[a][1]
    OBVIOUS
  <2>2. s \in Seg
    BY <2>1, FirstSegIn, Numbers DEF Seg
  <2>3. /\ LastTaken(upTo, s) \in Int /\ OnOffer(upTo, s) \in Int /\ Len(writes) \in Nat
        /\ \A v \in Nat : upTo[s][v] \in Nat
    BY <1>1, <1>2, <2>2, NumberType
  <2>4. LastTaken(upTo, s)' = LastTaken(upTo, s) + (IF s \in Taken THEN 1 ELSE 0)
    BY <1>4, <2>2
  <2>5. s \in Taken => OnOffer(upTo, s) = LastTaken(upTo, s) + 1
    BY <2>3 DEF Taken, LastTaken
  <2>6. CASE /\ s \in Taken
             /\ \E v \in 1 .. Len(writes) : \E i \in 1 .. CountOf(v, s) :
                    /\ OnOffer(upTo, s) = upTo[s][v - 1] + i
                    /\ Covers(v, a) /\ Stored[a] = <<v, a - writes[v].addr>>
    <3>1. PICK u \in 1 .. Len(writes) : \E i \in 1 .. CountOf(u, s) :
                    /\ OnOffer(upTo, s) = upTo[s][u - 1] + i
                    /\ Covers(u, a) /\ Stored[a] = <<u, a - writes[u].addr>>
      BY <2>6
    <3>2. PICK j \in 1 .. CountOf(u, s) : OnOffer(upTo, s) = upTo[s][u - 1] + j
      BY <3>1
    <3>3. w = u /\ Covers(w, a) /\ mem'[a][2] = a - writes[w].addr /\ w \in 0 .. Len(writes) /\ w # 0
      BY <1>3, <2>1, <2>3, <3>1
    <3>4. ASSUME NEW v \in w + 1 .. Len(writes), NEW i \in 1 .. CountOf(v, s)
          PROVE  LastTaken(upTo, s)' < upTo[s][v - 1] + i
      <4>1. v \in 1 .. Len(writes) /\ u < v
        BY <2>3, <3>3
      <4>2. upTo[s][u - 1] + j < upTo[s][v - 1] + i
        BY <1>1, <1>2, <2>2, <4>1, LaterNumbers
      <4>3. LastTaken(upTo, s)' = OnOffer(upTo, s)
        BY <2>3, <2>4, <2>5, <2>6
      <4> QED  BY <3>2, <4>2, <4>3
    <3> QED  BY <2>1, <3>3, <3>4
  <2>7. CASE /\ Stored[a] = mem[a]
             /\ s \in Taken =>
                    \A v \in 1 .. Len(writes) : \A i \in 1 .. CountOf(v, s) :
                        Touches(v, i, a) => OnOffer(upTo, s) # upTo[s][v - 1] + i
    <3>1. /\ w \in 0 .. Len(writes) /\ Covers(w, a)
          /\ mem'[a][2] = IF w = 0 THEN a ELSE a - writes[w].addr
          /\ \A v \in w + 1 .. Len(writes) : \A i \in 1 .. CountOf(v, s) :
                Touches(v, i, a) => LastTaken(upTo, s) < upTo[s][v - 1] + i
      BY <1>1, <1>3, <2>1, <2>7 DEF Ordered, InPlace
    <3>2. ASSUME NEW v \in w + 1 .. Len(writes), NEW i \in 1 .. CountOf(v, s), Touches(v, i, a)
          PROVE  LastTaken(upTo, s)' < upTo[s][v - 1] + i
      <4>1. v \in 1 .. Len(writes) /\ v - 1 \in Nat /\ i \in Int
        BY <2>3, <3>1
      <4>2. LastTaken(upTo, s) < upTo[s][v - 1] + i
        BY <3>1, <3>2
      <4>3. CASE s \in Taken
        <5>1. OnOffer(upTo, s) # upTo[s][v - 1] + i
          BY <2>7, <3>2, <4>1, <4>3
        <5>2. /\ OnOffer(upTo, s) = LastTaken(upTo, s) + 1
              /\ LastTaken(upTo, s)' = LastTaken(upTo, s) + 1
          BY <2>4, <2>5, <4>3
        <5>3. LastTaken(upTo, s) \in Int /\ upTo[s][v - 1] \in Nat
          BY <2>3, <4>1
        <5>4. upTo[s][v - 1] + i \in Int /\ upTo[s][v - 1] + i # LastTaken(upTo, s) + 1
          BY <4>1, <5>1, <5>2, <5>3
        <5> QED  BY <4>2, <5>2, <5>3, <5>4
      <4>4. CASE s \notin Taken
        BY <2>3, <2>4, <4>2, <4>4
      <4> QED  BY <4>3, <4>4
    <3> QED  BY <2>1, <3>1, <3>2
  <2> QED  BY <1>1, <1>2, <2>1, <2>6, <2>7, EdgeStores
<1> QED  BY <1>6, <1>7, <1>8, <1>9, <1>10 DEF WriteInv, Ordered

-----------------------------------------------------------------------------
(* What the RAM holds                                                      *)

(* The invariant holds.                                                    *)
LEMMA WriteInvariant == Spec => []WriteInv
<1>1. Init => WriteInv
  BY WriteInvInit
<1>2. WriteInv /\ [Next]_vars => WriteInv'
  <2> SUFFICES ASSUME WriteInv, [Next]_vars PROVE WriteInv'
    OBVIOUS
  <2>1. CASE Write
    <3>1. PICK t \in Transfers : CallWrite(t[1], t[2])
      BY <2>1 DEF Write
    <3>2. t[1] \in Nat /\ t[2] \in Nat
      BY BusAssumption
    <3>3. mem' = mem
      BY <2>1 DEF Write
    <3> QED  BY <3>1, <3>2, <3>3, CallWriteStep
  <2>2. CASE Read
    BY <2>2, OtherStep DEF Read
  <2>3. CASE Return
    <3>1. CASE ReturnWrite /\ UNCHANGED <<mem, afterReset, readVars>>
      BY <3>1, ReturnWriteStep
    <3>2. CASE ReturnRead /\ UNCHANGED <<mem, afterReset, writeVars>>
      BY <3>2, OtherStep
    <3> QED  BY <2>3, <3>1, <3>2 DEF Return
  <2>4. CASE ClockEdge
    <3>1. PICK pw, pm : WriteEdge(pw, pm)
      BY <2>4 DEF ClockEdge, Edge
    <3> QED  BY <3>1, WriteEdgeStep
  <2>5. CASE ResetEdge
    BY <2>5, WriteResetStep DEF ResetEdge
  <2>6. CASE UNCHANGED vars
    BY <2>6, OtherStep DEF vars
  <2> QED  BY <2>1, <2>2, <2>3, <2>4, <2>5, <2>6 DEF Next
<1> QED  BY <1>1, <1>2, PTL DEF Spec

(* The byte that the last call to have returned wrote to an address, or a  *)
(* later call, is what the RAM has there (PsdpRamMasterWrite, PsdpRamWrite *)
(* of dma_psdp_ram.py).                                                    *)
THEOREM WritesArrive == Spec => []WritesLand
<1>1. WriteInv => WritesLand
  <2> SUFFICES ASSUME WriteInv, NEW a \in 0 .. Size - 1
               PROVE  CurrentAt(a, mem[a], written)
    BY DEF WritesLand
  <2>1. PICK upTo : Ordered(upTo)
    BY DEF WriteInv
  <2>2. WriteTypes
    BY DEF WriteInv
  <2>3. PICK s, w : s = FirstSeg(a) /\ w = mem[a][1]
    OBVIOUS
  <2>4. s \in Seg
    BY <2>3, FirstSegIn, Numbers DEF Seg
  <2>5. /\ w \in 0 .. Len(writes) /\ Covers(w, a)
        /\ mem[a][2] = IF w = 0 THEN a ELSE a - writes[w].addr
        /\ \A v \in w + 1 .. Len(writes) : \A i \in 1 .. CountOf(v, s) :
                Touches(v, i, a) => LastTaken(upTo, s) < upTo[s][v - 1] + i
    BY <2>1, <2>3 DEF Ordered, InPlace
  <2>6. ASSUME NEW later \in w + 1 .. written, Covers(later, a)
        PROVE  FALSE
    <3>1. /\ Len(writes) \in Nat /\ written \in 0 .. Len(writes) /\ written \in Nat
          /\ LastTaken(upTo, s) \in Int /\ wrTokens[s] \in Nat
          /\ \A v \in Nat : upTo[s][v] \in Nat
      BY <2>1, <2>2, <2>4, NumberType DEF WriteTypes
    <3>2. /\ later \in 1 .. Len(writes) /\ later \in w + 1 .. Len(writes)
          /\ later \in Nat /\ later - 1 \in Nat /\ later <= written
          /\ later \in 0 .. Len(writes)
      BY <2>5, <3>1
    <3>3. PICK i \in 1 .. CountOf(later, s) : Touches(later, i, a)
      BY <2>2, <2>3, <2>6, <3>2, CoversTouches
    <3>4. LastTaken(upTo, s) < upTo[s][later - 1] + i
      BY <2>5, <3>2, <3>3
    <3>5. upTo[s][later] = upTo[s][later - 1] + CountOf(later, s)
      BY <2>1, <2>4, <3>2 DEF Ordered, Numbered
    <3>6. upTo[s][later] <= upTo[s][written]
      BY <2>1, <2>4, <3>1, <3>2 DEF Ordered, Numbered
    <3>7. upTo[s][written] + wrTokens[s] + (IF s \in wrDone THEN 1 ELSE 0)
            <= LastTaken(upTo, s)
      BY <2>1, <2>4 DEF Ordered, Answered
    <3>8. CountOf(later, s) \in Nat
      <4>1. writes[later].addr \in Nat /\ writes[later].len \in Nat
        BY <2>2, <3>2, CallType
      <4> QED  BY <2>4, <4>1, CountNat DEF CountOf
    <3>9. /\ upTo[s][later] \in Nat /\ upTo[s][later - 1] \in Nat
          /\ upTo[s][written] \in Nat /\ i \in Int /\ i <= CountOf(later, s)
      BY <3>1, <3>2, <3>8
    <3>10. upTo[s][written] <= LastTaken(upTo, s) /\ LastTaken(upTo, s) \in Int
      <4>1. PICK e \in Nat : upTo[s][written] + wrTokens[s] + e <= LastTaken(upTo, s)
        BY <3>7
      <4>2. LastTaken(upTo, s) \in Int /\ wrTokens[s] \in Nat /\ upTo[s][written] \in Nat
        BY <3>1, <3>9
      <4> QED  BY <4>1, <4>2
    <3> QED  BY <3>4, <3>5, <3>6, <3>8, <3>9, <3>10
  <2> QED  BY <2>3, <2>5, <2>6 DEF CurrentAt
<1> QED  BY <1>1, WriteInvariant, PTL
-----------------------------------------------------------------------------
(* Putting together what was read                                          *)

(* Blocks of m follow each other.                                          *)
LEMMA BlockOrder ==
    ASSUME NEW m \in Nat \ {0}, NEW k \in Int, NEW l \in Int,
           NEW i \in 0 .. m - 1, NEW j \in 0 .. m - 1
    PROVE  m * k + i < m * l + j <=> k < l \/ (k = l /\ i < j)
<1>1. m * k \in Int /\ m * l \in Int
  OBVIOUS
<1>2. ASSUME NEW u \in Int, NEW v \in Int, u < v PROVE m * u + m <= m * v
  <2>1. PICK d \in Nat : v = u + 1 + d
    <3>1. v - u - 1 \in Nat /\ v = u + 1 + (v - u - 1)
      BY <1>2
    <3> QED  BY <3>1
  <2>2. m * v = m * u + m + m * d
    BY <2>1
  <2>3. m * d \in Nat /\ m * u \in Int
    BY <2>1
  <2> QED  BY <2>2, <2>3
<1>3. CASE k < l
  <2>1. m * k + m <= m * l
    BY <1>2, <1>3
  <2> QED  BY <1>1, <1>3, <2>1
<1>4. CASE l < k
  <2>1. m * l + m <= m * k
    BY <1>2, <1>4
  <2> QED  BY <1>1, <1>4, <2>1
<1>5. CASE k = l
  BY <1>1, <1>5
<1> QED  BY <1>3, <1>4, <1>5

(* The address in the RAM of a place of a transfer, and the place of an    *)
(* address.                                                                *)
AddressOf(c, p) == SegBytes * (c.addr \div SegBytes + p[1]) + p[2]
PlaceOf(c, a) == <<a \div SegBytes - c.addr \div SegBytes, a % SegBytes>>

(* A place is a lane of a piece, and its address is in the transfer.       *)
LEMMA PlaceIs ==
    ASSUME NEW c, c.addr \in Nat, c.len \in Nat, NEW p \in Places(c)
    PROVE  /\ p = <<p[1], p[2]>> /\ p[1] \in Nat /\ p[1] < SegmentsOf(c.addr, c.len)
           /\ p[2] \in PieceLanes(c.addr, c.len, p[1]) /\ p[2] \in Lane
           /\ AddressOf(c, p) \in c.addr .. c.addr + c.len - 1
           /\ PlaceOf(c, AddressOf(c, p)) = p
<1>1. PICK k \in 0 .. SegmentsOf(c.addr, c.len) - 1 :
        p \in {k} \X PieceLanes(c.addr, c.len, k)
  BY DEF Places
<1>2. SegmentsOf(c.addr, c.len) \in Nat
  BY SegmentsNat
<1>3. /\ p = <<p[1], p[2]>> /\ p[1] = k /\ k \in Nat /\ k < SegmentsOf(c.addr, c.len)
      /\ p[2] \in PieceLanes(c.addr, c.len, k)
  BY <1>1, <1>2
<1>4. PICK addr, len, j : addr = c.addr /\ len = c.len /\ j = p[2]
  OBVIOUS
<1>5. /\ j \in Lane
      /\ LET a == SegBytes * (addr \div SegBytes + k) + j IN
         addr <= a /\ a < addr + len /\ ByteOfPiece(addr, k, j) = a - addr
  BY <1>3, <1>4, PieceWithin
<1>6. PICK q : q = addr \div SegBytes
  OBVIOUS
<1>7. q \in Nat /\ SegBytes \in Nat \ {0} /\ j \in 0 .. SegBytes - 1
  BY <1>4, <1>5, <1>6, Numbers, DivNat DEF Lane
<1>8. PICK a : a = SegBytes * (q + k) + j
  OBVIOUS
<1>9. AddressOf(c, p) = a /\ addr <= a /\ a < addr + len /\ a \in Int
  <2>1. AddressOf(c, p) = a
    BY <1>3, <1>4, <1>6, <1>8 DEF AddressOf
  <2>2. addr <= a /\ a < addr + len
    BY <1>5, <1>6, <1>8
  <2>3. SegBytes * (q + k) \in Int
    BY <1>3, <1>7
  <2> QED  BY <1>7, <1>8, <2>1, <2>2, <2>3
<1>10. a \div SegBytes = q + k /\ a % SegBytes = j
  <2>1. q + k \in Int
    BY <1>3, <1>7
  <2> QED  BY <1>7, <1>8, <2>1, DivModUnique
<1>11. PlaceOf(c, a) = p
  BY <1>3, <1>4, <1>6, <1>7, <1>10 DEF PlaceOf
<1>12. a \in addr .. addr + len - 1
  BY <1>4, <1>9
<1> QED  BY <1>3, <1>4, <1>5, <1>9, <1>11, <1>12

(* Every address of the transfer has its place.                            *)
LEMMA PlaceThere ==
    ASSUME NEW c, c.addr \in Nat, c.len \in Nat, NEW a \in c.addr .. c.addr + c.len - 1
    PROVE  PlaceOf(c, a) \in Places(c) /\ AddressOf(c, PlaceOf(c, a)) = a
<1>1. PICK addr, len : addr = c.addr /\ len = c.len
  OBVIOUS
<1>2. a \in Nat /\ addr \in Nat /\ len \in Nat /\ addr <= a /\ a < addr + len
  BY <1>1
<1>3. PICK k \in Nat : /\ k < SegmentsOf(addr, len)
                       /\ a % SegBytes \in PieceLanes(addr, len, k)
                       /\ a \div SegBytes = addr \div SegBytes + k
  BY <1>2, PieceFor
<1>4. PICK q, d, j : q = addr \div SegBytes /\ d = a \div SegBytes /\ j = a % SegBytes
  OBVIOUS
<1>5. q \in Nat /\ d \in Int /\ j \in Int /\ a = SegBytes * d + j
  <2>1. SegBytes \in Nat \ {0} /\ a \in Int
    BY <1>2, Numbers
  <2>2. a \div SegBytes \in Int /\ a % SegBytes \in 0 .. SegBytes - 1
        /\ a = SegBytes * (a \div SegBytes) + (a % SegBytes)
    BY <2>1, DivMod
  <2>3. addr \div SegBytes \in Nat
    BY <1>2, <2>1, DivNat
  <2>4. q \in Nat /\ d \in Int /\ j \in 0 .. SegBytes - 1 /\ a = SegBytes * d + j
    BY <1>4, <2>2, <2>3
  <2> QED  BY <2>1, <2>4
<1>6. d - q = k /\ q + k = d
  BY <1>3, <1>4, <1>5
<1>7. k \in 0 .. SegmentsOf(addr, len) - 1
  BY <1>2, <1>3, SegmentsNat
<1>8. PlaceOf(c, a) = <<k, j>>
  BY <1>1, <1>4, <1>6 DEF PlaceOf
<1>9. <<k, j>> \in Places(c)
  BY <1>1, <1>3, <1>4, <1>7 DEF Places
<1>10. AddressOf(c, <<k, j>>) = a
  BY <1>1, <1>4, <1>5, <1>6 DEF AddressOf
<1> QED  BY <1>8, <1>9, <1>10

(* As many places as addresses lie before an address of the transfer.      *)
LEMMA PlacesCount ==
    ASSUME NEW c, c.addr \in Nat, c.len \in Nat, NEW a \in c.addr .. c.addr + c.len
    PROVE  Cardinality({p \in Places(c) : AddressOf(c, p) < a}) = a - c.addr
<1> DEFINE T == {p \in Places(c) : AddressOf(c, p) < a}
           f == [x \in c.addr .. a - 1 |-> PlaceOf(c, x)]
<1>1. PICK addr, len : addr = c.addr /\ len = c.len
  OBVIOUS
<1>2. /\ a \in Nat /\ addr \in Nat /\ len \in Nat /\ addr <= a /\ a <= addr + len
      /\ \A x \in addr .. a - 1 : x \in addr .. addr + len - 1 /\ x < a
  BY <1>1
<1>3. \A x \in c.addr .. a - 1 : f[x] \in T /\ AddressOf(c, f[x]) = x
  <2> SUFFICES ASSUME NEW x \in c.addr .. a - 1
               PROVE  f[x] \in T /\ AddressOf(c, f[x]) = x
    OBVIOUS
  <2>1. x \in c.addr .. c.addr + c.len - 1 /\ x < a
    BY <1>1, <1>2
  <2>2. PlaceOf(c, x) \in Places(c) /\ AddressOf(c, PlaceOf(c, x)) = x
    BY <2>1, PlaceThere
  <2>3. f[x] = PlaceOf(c, x)
    OBVIOUS
  <2> QED  BY <2>1, <2>2, <2>3
<1>4. f \in [c.addr .. a - 1 -> T]
  BY <1>3
<1>5. \A p \in T : \E x \in c.addr .. a - 1 : f[x] = p
  <2> SUFFICES ASSUME NEW p \in T PROVE \E x \in c.addr .. a - 1 : f[x] = p
    OBVIOUS
  <2>1. p \in Places(c) /\ AddressOf(c, p) < a
    OBVIOUS
  <2>2. AddressOf(c, p) \in c.addr .. c.addr + c.len - 1 /\ PlaceOf(c, AddressOf(c, p)) = p
    BY <2>1, PlaceIs
  <2>3. AddressOf(c, p) \in c.addr .. a - 1
    BY <1>1, <1>2, <2>1, <2>2
  <2> QED  BY <2>2, <2>3
<1>6. \A x, y \in c.addr .. a - 1 : f[x] = f[y] => x = y
  BY <1>3
<1> HIDE DEF f, T
<1>7. ExistsBijection(c.addr .. a - 1, T)
  BY <1>4, <1>5, <1>6 DEF ExistsBijection, Bijection, Injection, Surjection, IsInjective
<1>8. IsFiniteSet(c.addr .. a - 1) /\ Cardinality(c.addr .. a - 1) = a - c.addr
  <2>1. addr \in Int /\ a - 1 \in Int
    BY <1>2
  <2>2. IsFiniteSet(addr .. a - 1) /\ Cardinality(addr .. a - 1)
            = IF addr > a - 1 THEN 0 ELSE (a - 1) - addr + 1
    BY <2>1, FS_Interval
  <2> QED  BY <1>1, <1>2, <2>2
<1>9. Cardinality(T) = a - c.addr
  BY <1>7, <1>8, FS_Bijection
<1> QED  BY <1>9 DEF T

(* So the places of a transfer, in order, are its addresses.               *)
LEMMA PlacesInOrder ==
    ASSUME NEW c, c.addr \in Nat, c.len \in Nat
    PROVE  /\ Cardinality(Places(c)) = c.len
           /\ \A p \in Places(c) :
                Cardinality(PlacesBefore(Places(c), p)) = AddressOf(c, p) - c.addr
<1>1. PICK addr, len : addr = c.addr /\ len = c.len /\ addr \in Nat /\ len \in Nat
  OBVIOUS
<1>2. Cardinality(Places(c)) = c.len
  <2>1. \A p \in Places(c) : AddressOf(c, p) < addr + len
    <3> SUFFICES ASSUME NEW p \in Places(c) PROVE AddressOf(c, p) < addr + len
      OBVIOUS
    <3>1. AddressOf(c, p) \in c.addr .. c.addr + c.len - 1
      BY PlaceIs
    <3> QED  BY <1>1, <3>1
  <2>2. {p \in Places(c) : AddressOf(c, p) < addr + len} = Places(c)
    BY <2>1
  <2>3. addr + len \in c.addr .. c.addr + c.len
    BY <1>1
  <2>4. Cardinality({p \in Places(c) : AddressOf(c, p) < addr + len}) = (addr + len) - c.addr
    BY <2>3, PlacesCount
  <2>5. Cardinality(Places(c)) = (addr + len) - addr
    BY <1>1, <2>2, <2>4, Zenon
  <2> QED  BY <1>1, <2>5
<1>3. ASSUME NEW p \in Places(c)
      PROVE  Cardinality(PlacesBefore(Places(c), p)) = AddressOf(c, p) - c.addr
  <2>1. \A q \in Places(c) : AddressOf(c, q) < AddressOf(c, p)
            <=> q[1] < p[1] \/ (q[1] = p[1] /\ q[2] < p[2])
    <3> SUFFICES ASSUME NEW q \in Places(c)
                 PROVE  AddressOf(c, q) < AddressOf(c, p)
                            <=> q[1] < p[1] \/ (q[1] = p[1] /\ q[2] < p[2])
      OBVIOUS
    <3>1. PICK b, k, l, i, j : /\ b = addr \div SegBytes
                               /\ k = q[1] /\ l = p[1] /\ i = q[2] /\ j = p[2]
      OBVIOUS
    <3>2. /\ SegBytes \in Nat \ {0} /\ b \in Nat /\ k \in Nat /\ l \in Nat
          /\ i \in 0 .. SegBytes - 1 /\ j \in 0 .. SegBytes - 1
      BY <1>1, <3>1, PlaceIs, Numbers, DivNat DEF Lane
    <3>3. /\ AddressOf(c, q) = SegBytes * (b + k) + i
          /\ AddressOf(c, p) = SegBytes * (b + l) + j
      BY <1>1, <3>1 DEF AddressOf
    <3>4. b + k \in Int /\ b + l \in Int
      BY <3>2
    <3>5. SegBytes * (b + k) + i < SegBytes * (b + l) + j
            <=> b + k < b + l \/ (b + k = b + l /\ i < j)
      BY <3>2, <3>4, BlockOrder
    <3>6. (b + k < b + l <=> k < l) /\ (b + k = b + l <=> k = l)
      BY <3>2
    <3> QED  BY <3>1, <3>3, <3>5, <3>6
  <2>2. PlacesBefore(Places(c), p) = {q \in Places(c) : AddressOf(c, q) < AddressOf(c, p)}
    BY <2>1 DEF PlacesBefore
  <2>3. AddressOf(c, p) \in c.addr .. c.addr + c.len - 1
    BY PlaceIs
  <2>4. AddressOf(c, p) \in c.addr .. c.addr + c.len
    BY <1>1, <2>3
  <2> QED  BY <2>2, <2>4, PlacesCount
<1> QED  BY <1>2, <1>3
-----------------------------------------------------------------------------
(* The inductive invariant of the read half                                *)

Byte == Nat \X Int
ReadCall == [addr : Nat, len : Nat, since : Nat]

ReadTypes ==
    /\ reads \in Seq(ReadCall)
    /\ \A v \in 1 .. Len(reads) :
            reads[v].addr + reads[v].len <= Size /\ reads[v].since <= written
    /\ results \in Seq(Seq(Byte)) /\ Len(results) <= Len(reads)
    /\ segRead \in [Seg -> Seq(Nat)] /\ rdCmd \in [Seg -> Nat \union {None}]
    /\ segResp \in [Seg -> Seq(Word)]
    /\ rdResp \in [Seg -> Word \union {None}] /\ pipeline \in [Seg -> Word \union {None}]
    /\ mem \in [0 .. Size - 1 -> Byte]

(* What a segment is still to be asked, and what it has answered that no   *)
(* call has used: each in the order of the calls.                          *)
IfAny(x) == IF x = None THEN <<>> ELSE <<x>>
Questions(s) == IfAny(rdCmd[s]) \o segRead[s]
Answers(s) == segResp[s] \o IfAny(rdResp[s]) \o IfAny(pipeline[s])

(* How many pieces read v has for segment s, and the word of the i-th      *)
ReadCount(v, s) == PieceCount(reads[v].addr, reads[v].len, s)
ReadWord(v, s, i) == PieceWord(reads[v].addr, PiecesIn(reads[v].addr, reads[v].len, s)[i])

(* The questions to a segment are numbered like the pieces written to it:  *)
(* asked[s][v] is the number of the last question of read v.               *)
ReadsNumbered(asked) ==
    \A s \in Seg :
        /\ asked[s][0] = 0 /\ \A v \in Nat : asked[s][v] \in Nat
        /\ \A v \in 1 .. Len(reads) : asked[s][v] = asked[s][v - 1] + ReadCount(v, s)
        /\ \A u, v \in 0 .. Len(reads) : u <= v => asked[s][u] <= asked[s][v]

(* Each byte of the word is one that the RAM may have held since then.     *)
Fresh(s, word, answer, since) ==
    \A lane \in Lane : CurrentAt(RamAddr(s, word, lane) % Size, answer[lane], since)

IsQuestion(asked, s, number, word) ==
    \A v \in 1 .. Len(reads) : \A i \in 1 .. ReadCount(v, s) :
        number = asked[s][v - 1] + i => word = ReadWord(v, s, i)
IsAnswer(asked, s, number, answer) ==
    \A v \in 1 .. Len(reads) : \A i \in 1 .. ReadCount(v, s) :
        number = asked[s][v - 1] + i => Fresh(s, ReadWord(v, s, i), answer, reads[v].since)

(* Nothing is lost, doubled or overtaken between a call of read and its    *)
(* return.                                                                 *)
ReadsInLine(asked) ==
    \A s \in Seg :
        LET returned == asked[s][Len(results)]
            answered == returned + Len(Answers(s)) IN
        /\ answered + Len(Questions(s)) = asked[s][Len(reads)]
        /\ \A j \in 1 .. Len(Answers(s)) :
                IsAnswer(asked, s, returned + j, Answers(s)[j])
        /\ \A j \in 1 .. Len(Questions(s)) :
                IsQuestion(asked, s, answered + j, Questions(s)[j])

ReadInv ==
    /\ ReadTypes /\ ReadsSeeWrites
    /\ \E asked : ReadsNumbered(asked) /\ ReadsInLine(asked)

-----------------------------------------------------------------------------
(* What a segment is asked and answers                                     *)

(* None is neither a word nor the number of one.                           *)
LEMMA NoneIsNothing == None \notin Nat /\ None \notin Word
BY ReadAssumption

(* At most one.                                                            *)
LEMMA IfAnySeq ==
    ASSUME NEW S, NEW x \in S \union {None}
    PROVE  IfAny(x) \in Seq(S) /\ Len(IfAny(x)) = IF x = None THEN 0 ELSE 1
BY DEF IfAny

(* What is appended leaves what is there, and comes after it.              *)
LEMMA Appended ==
    ASSUME NEW S, NEW p \in Seq(S), NEW q \in Seq(S)
    PROVE  /\ p \o q \in Seq(S) /\ Len(p) \in Nat /\ Len(q) \in Nat
           /\ Len(p \o q) = Len(p) + Len(q)
           /\ \A j \in 1 .. Len(p) : (p \o q)[j] = p[j] /\ j \in 1 .. Len(p \o q)
           /\ \A j \in 1 .. Len(q) :
                (p \o q)[Len(p) + j] = q[j] /\ Len(p) + j \in 1 .. Len(p \o q)
<1>1. Len(p) \in Nat /\ Len(q) \in Nat
  BY LenProperties
<1>2. /\ p \o q \in Seq(S) /\ Len(p \o q) = Len(p) + Len(q)
      /\ \A i \in 1 .. Len(p) + Len(q) :
            (p \o q)[i] = IF i <= Len(p) THEN p[i] ELSE q[i - Len(p)]
  BY ConcatProperties
<1>3. \A j \in 1 .. Len(p) : (p \o q)[j] = p[j] /\ j \in 1 .. Len(p) + Len(q)
  BY <1>1, <1>2
<1>4. \A j \in 1 .. Len(q) : (p \o q)[Len(p) + j] = q[j] /\ Len(p) + j \in 1 .. Len(p) + Len(q)
  <2> SUFFICES ASSUME NEW j \in 1 .. Len(q)
               PROVE  (p \o q)[Len(p) + j] = q[j] /\ Len(p) + j \in 1 .. Len(p) + Len(q)
    OBVIOUS
  <2>1. /\ j \in Int /\ Len(p) + j \in 1 .. Len(p) + Len(q) /\ ~(Len(p) + j <= Len(p))
        /\ (Len(p) + j) - Len(p) = j
    BY <1>1
  <2> QED  BY <1>2, <2>1
<1> QED  BY <1>1, <1>2, <1>3, <1>4

(* Questions and answers are sequences.                                    *)
LEMMA QueuesType ==
    ASSUME ReadTypes, NEW s \in Seg
    PROVE  /\ Questions(s) \in Seq(Nat) /\ Answers(s) \in Seq(Word)
           /\ Len(Questions(s)) = Len(IfAny(rdCmd[s])) + Len(segRead[s])
           /\ Len(Answers(s)) = Len(segResp[s]) + Len(IfAny(rdResp[s])) + Len(IfAny(pipeline[s]))
           /\ \A j \in 1 .. Len(segResp[s]) : Answers(s)[j] = segResp[s][j]
<1>1. /\ segRead[s] \in Seq(Nat) /\ rdCmd[s] \in Nat \union {None}
      /\ segResp[s] \in Seq(Word) /\ rdResp[s] \in Word \union {None}
      /\ pipeline[s] \in Word \union {None}
  BY DEF ReadTypes
<1>2. /\ IfAny(rdCmd[s]) \in Seq(Nat) /\ IfAny(rdResp[s]) \in Seq(Word)
      /\ IfAny(pipeline[s]) \in Seq(Word)
  BY <1>1, IfAnySeq
<1>3. Questions(s) \in Seq(Nat) /\ Len(Questions(s)) = Len(IfAny(rdCmd[s])) + Len(segRead[s])
  BY <1>1, <1>2, ConcatProperties DEF Questions
<1>4. PICK q, r, p : q = segResp[s] /\ r = IfAny(rdResp[s]) /\ p = IfAny(pipeline[s])
  OBVIOUS
<1>5. q \in Seq(Word) /\ r \in Seq(Word) /\ p \in Seq(Word)
  BY <1>1, <1>2, <1>4
<1>6. /\ q \o r \in Seq(Word) /\ Len(q \o r) = Len(q) + Len(r)
      /\ \A j \in 1 .. Len(q) : (q \o r)[j] = q[j] /\ j \in 1 .. Len(q \o r)
  BY <1>5, Appended
<1>7. /\ q \o r \o p \in Seq(Word) /\ Len(q \o r \o p) = Len(q \o r) + Len(p)
      /\ \A j \in 1 .. Len(q \o r) : (q \o r \o p)[j] = (q \o r)[j]
  BY <1>5, <1>6, Appended
<1>8. Answers(s) = q \o r \o p
  BY <1>4 DEF Answers
<1>9. /\ Answers(s) \in Seq(Word) /\ Len(Answers(s)) = Len(q) + Len(r) + Len(p)
      /\ \A j \in 1 .. Len(q) : Answers(s)[j] = q[j]
  BY <1>6, <1>7, <1>8, Zenon
<1> QED  BY <1>3, <1>4, <1>9, Zenon
-----------------------------------------------------------------------------
(* Steps of the write half, for the read half                              *)

(* Calls of write are added and return, none is changed.                   *)
Grows ==
    /\ WriteTypes /\ WriteTypes' /\ Len(writes) <= Len(writes') /\ written <= written'
    /\ \A v \in 1 .. Len(writes) : writes'[v] = writes[v]

(* What a byte could be when a read was called it can be from then on.     *)
LEMMA StillCurrent ==
    ASSUME Grows
    PROVE  \A a, x : \A since \in 0 .. written :
                CurrentAt(a, x, since) => CurrentAt(a, x, since)'
<1> SUFFICES ASSUME NEW a, NEW x, NEW since \in 0 .. written, CurrentAt(a, x, since)
             PROVE  CurrentAt(a, x, since)'
  OBVIOUS
<1>1. Len(writes) \in Nat /\ written \in 0 .. Len(writes) /\ Len(writes') \in Nat
  BY DEF Grows, WriteTypes
<1>2. \A v \in 0 .. Len(writes) : Covers(v, a)' <=> Covers(v, a)
  BY <1>1 DEF Covers, Grows
<1>3. PICK w : w = x[1]
  OBVIOUS
<1>4. /\ w \in 0 .. Len(writes) /\ Covers(w, a)
      /\ x[2] = IF w = 0 THEN a ELSE a - writes[w].addr
      /\ ~\E later \in w + 1 .. since : Covers(later, a)
  BY <1>3 DEF CurrentAt
<1>5. w \in 0 .. Len(writes') /\ Covers(w, a)'
  BY <1>1, <1>2, <1>4 DEF Grows
<1>6. x[2] = IF w = 0 THEN a ELSE a - writes'[w].addr
  BY <1>1, <1>4 DEF Grows
<1>7. ~\E later \in w + 1 .. since : Covers(later, a)'
  <2>1. \A later \in w + 1 .. since : later \in 0 .. Len(writes)
    BY <1>1, <1>4
  <2> QED  BY <1>2, <1>4, <2>1
<1> QED  BY <1>3, <1>5, <1>6, <1>7 DEF CurrentAt

(* A call of read, as its type says.                                       *)
LEMMA ReadType ==
    ASSUME ReadTypes, WriteTypes, NEW v \in 1 .. Len(reads)
    PROVE  /\ reads[v].addr \in Nat /\ reads[v].len \in Nat
           /\ reads[v].addr + reads[v].len <= Size /\ reads[v].since \in 0 .. written
<1>1. reads[v] \in ReadCall
  BY DEF ReadTypes
<1>2. reads[v].addr + reads[v].len <= Size /\ reads[v].since <= written /\ written \in Nat
  BY DEF ReadTypes, WriteTypes
<1> QED  BY <1>1, <1>2 DEF ReadCall

(* Nor is what a segment is asked another question, or what it has         *)
(* answered no answer any more.                                            *)
LEMMA SameReads ==
    ASSUME ReadTypes, Grows, reads' = reads
    PROVE  /\ \A asked : ReadsNumbered(asked) => ReadsNumbered(asked)'
           /\ \A asked, s, n, x :
                /\ IsQuestion(asked, s, n, x) => IsQuestion(asked, s, n, x)'
                /\ IsAnswer(asked, s, n, x) => IsAnswer(asked, s, n, x)'
<1>1. \A v, s : ReadCount(v, s)' = ReadCount(v, s)
  BY DEF ReadCount
<1>2. \A v, s, i : ReadWord(v, s, i)' = ReadWord(v, s, i)
  BY DEF ReadWord
<1>3. \A asked : ReadsNumbered(asked) => ReadsNumbered(asked)'
  BY <1>1 DEF ReadsNumbered
<1>4. \A asked, s, n, x : IsQuestion(asked, s, n, x) => IsQuestion(asked, s, n, x)'
  BY <1>1, <1>2 DEF IsQuestion
<1>5. ASSUME NEW s, NEW w, NEW x, NEW since \in 0 .. written, Fresh(s, w, x, since)
      PROVE  Fresh(s, w, x, since)'
  BY <1>5, StillCurrent DEF Fresh
<1>6. ASSUME NEW asked, NEW s, NEW n, NEW x, IsAnswer(asked, s, n, x)
      PROVE  IsAnswer(asked, s, n, x)'
  <2> SUFFICES ASSUME NEW v \in 1 .. Len(reads), NEW i \in 1 .. ReadCount(v, s),
                      n = asked[s][v - 1] + i
               PROVE  Fresh(s, ReadWord(v, s, i), x, reads[v].since)'
    BY <1>1 DEF IsAnswer
  <2>1. Fresh(s, ReadWord(v, s, i), x, reads[v].since)
    BY <1>6 DEF IsAnswer
  <2>2. PICK w, since : w = ReadWord(v, s, i) /\ since = reads[v].since
    OBVIOUS
  <2>3. since \in 0 .. written
    BY <2>2, ReadType DEF Grows
  <2>4. Fresh(s, w, x, since)'
    BY <1>5, <2>1, <2>2, <2>3
  <2>5. w = ReadWord(v, s, i)' /\ since = reads'[v].since
    BY <1>2, <2>2
  <2> QED  BY <2>4, <2>5
<1> QED  BY <1>3, <1>4, <1>6

(* The calls that have returned have returned what they should.            *)
LEMMA ResultsStay ==
    ASSUME ReadTypes, Grows, Len(reads) \in Nat, Len(reads') \in Nat, Len(reads) <= Len(reads'),
           \A v \in 1 .. Len(reads) : reads'[v] = reads[v],
           results' = results, ReadsSeeWrites
    PROVE  ReadsSeeWrites'
<1> SUFFICES ASSUME NEW j \in DOMAIN results', NEW addr, NEW len, NEW since, NEW bytes,
                    addr = reads'[j].addr, len = reads'[j].len, since = reads'[j].since,
                    bytes = results'[j]
             PROVE  /\ Len(bytes) = len
                    /\ \A i \in 1 .. len : CurrentAt(addr + i - 1, bytes[i], since)'
  BY DEF ReadsSeeWrites
<1>1. j \in 1 .. Len(reads) /\ j \in DOMAIN results
  BY DEF ReadTypes
<1>2. /\ addr = reads[j].addr /\ len = reads[j].len /\ since = reads[j].since
      /\ bytes = results[j]
  BY <1>1
<1>3. Len(bytes) = len /\ \A i \in 1 .. len : CurrentAt(addr + i - 1, bytes[i], since)
  BY <1>1, <1>2 DEF ReadsSeeWrites
<1>4. since \in 0 .. written
  BY <1>1, <1>2, ReadType DEF Grows
<1> QED  BY <1>3, <1>4, StillCurrent

(* What concerns no read leaves the reads in line.                         *)
LEMMA ReadsStay ==
    ASSUME ReadInv, Grows, mem' \in [0 .. Size - 1 -> Byte],
           UNCHANGED <<reads, results, segRead, rdCmd, pipeline, rdResp, segResp>>
    PROVE  ReadInv'
<1>1. /\ ReadTypes /\ ReadsSeeWrites
      /\ UNCHANGED <<reads, results, segRead, rdCmd, pipeline, rdResp, segResp>>
  BY DEF ReadInv
<1>2. PICK asked : ReadsNumbered(asked) /\ ReadsInLine(asked)
  BY DEF ReadInv
<1>3. ReadTypes'
  <2>1. \A v \in 1 .. Len(reads) : reads[v].since <= written'
    <3> SUFFICES ASSUME NEW v \in 1 .. Len(reads) PROVE reads[v].since <= written'
      OBVIOUS
    <3>1. reads[v].since \in 0 .. written
      BY <1>1, ReadType DEF Grows
    <3>2. written \in Nat /\ written' \in Nat /\ written <= written'
      BY DEF Grows, WriteTypes
    <3> QED  BY <3>1, <3>2
  <2> QED  BY <1>1, <2>1 DEF ReadTypes
<1>4. ReadsSeeWrites'
  <2>1. Len(reads) \in Nat
    BY <1>1 DEF ReadTypes
  <2> QED  BY <1>1, <2>1, ResultsStay
<1>5. ReadsNumbered(asked)'
  BY <1>1, <1>2, SameReads
<1>6. ReadsInLine(asked)'
  <2>1. \A s : Answers(s)' = Answers(s) /\ Questions(s)' = Questions(s)
    BY <1>1 DEF Answers, Questions
  <2> QED  BY <1>1, <1>2, <2>1, SameReads DEF ReadsInLine
<1> QED  BY <1>3, <1>4, <1>5, <1>6 DEF ReadInv
-----------------------------------------------------------------------------
(* A clock edge, for the read half                                         *)

(* What the master asks next takes the place of what the segment has       *)
(* taken.                                                                  *)
LEMMA EdgeQuestions ==
    ASSUME ReadTypes, NEW s \in Seg, NEW pause,
           rdCmd'[s] = IF Asks(s, pause) THEN Head(segRead[s])
                       ELSE IF AskMoves(s) THEN None ELSE rdCmd[s],
           segRead'[s] = IF Asks(s, pause) THEN Tail(segRead[s]) ELSE segRead[s]
    PROVE  /\ segRead'[s] \in Seq(Nat) /\ rdCmd'[s] \in Nat \union {None}
           /\ ~Asked(s) => Questions(s)' = Questions(s)
           /\ Asked(s) =>
                /\ rdCmd[s] \in Nat /\ Questions(s)[1] = rdCmd[s]
                /\ Questions(s)' \in Seq(Nat)
                /\ Len(Questions(s)) = Len(Questions(s)') + 1
                /\ \A j \in 1 .. Len(Questions(s)') : Questions(s)[j + 1] = Questions(s)'[j]
<1>1. segRead[s] \in Seq(Nat) /\ rdCmd[s] \in Nat \union {None}
  BY DEF ReadTypes
<1>2. PICK x, q, y, r : x = rdCmd[s] /\ q = segRead[s] /\ y = rdCmd'[s] /\ r = segRead'[s]
  OBVIOUS
<1>3. PICK taken \in BOOLEAN, asks \in BOOLEAN :
        (taken <=> Asked(s)) /\ (asks <=> Asks(s, pause))
  OBVIOUS
<1>4. /\ x \in Nat \union {None} /\ q \in Seq(Nat) /\ (taken => x # None)
      /\ asks => (taken \/ x = None) /\ q # <<>>
      /\ y = IF asks THEN Head(q) ELSE IF taken \/ x = None THEN None ELSE x
      /\ r = IF asks THEN Tail(q) ELSE q
  <2>1. AskMoves(s) <=> taken \/ x = None
    BY <1>2, <1>3 DEF AskMoves, Asked
  <2> QED  BY <1>1, <1>2, <1>3, <2>1 DEF Asks, Asked
<1>5. /\ y \in Nat \union {None} /\ r \in Seq(Nat)
      /\ taken => IfAny(y) \o r = q
      /\ ~taken => IfAny(y) \o r = IfAny(x) \o q
  <2> USE <1>4
  <2>1. <<>> \o q = q
    BY ConcatEmptySeq
  <2>2. CASE asks
    <3>1. q # <<>> /\ (taken \/ x = None)
      BY <2>2
    <3>2. y \in Nat /\ r \in Seq(Nat) /\ y = Head(q) /\ r = Tail(q)
      BY <2>2, <3>1, HeadTailProperties
    <3>3. IfAny(y) = <<y>>
      BY <3>2, NoneIsNothing DEF IfAny
    <3>4. <<y>> \o r = q
      <4>1. <<y>> \in Seq(Nat) /\ Len(<<y>>) = 1 /\ <<y>>[1] = y
        BY <3>2
      <4>2. Len(q) \in Nat /\ Len(q) > 0 /\ Len(r) = Len(q) - 1 /\ y = q[1]
            /\ \A i \in 1 .. Len(r) : r[i] = q[i + 1]
        BY <3>1, <3>2, HeadTailProperties, EmptySeq, LenProperties
      <4>3. /\ <<y>> \o r \in Seq(Nat) /\ Len(<<y>> \o r) = Len(q)
            /\ \A i \in 1 .. Len(q) : (<<y>> \o r)[i] = IF i <= 1 THEN <<y>>[i] ELSE r[i - 1]
        BY <3>2, <4>1, <4>2, ConcatProperties
      <4>4. \A i \in 1 .. Len(q) : (<<y>> \o r)[i] = q[i]
        BY <4>1, <4>2, <4>3
      <4> QED  BY <4>3, <4>4, SeqEqual
    <3>5. ~taken => IfAny(x) = <<>>
      BY <3>1 DEF IfAny
    <3> QED  BY <2>1, <3>2, <3>3, <3>4, <3>5
  <2>3. CASE ~asks /\ (taken \/ x = None)
    <3>1. y = None /\ r = q /\ IfAny(y) = <<>>
      BY <2>3 DEF IfAny
    <3>2. ~taken => IfAny(x) = <<>>
      BY <2>3 DEF IfAny
    <3> QED  BY <2>1, <3>1, <3>2
  <2>4. CASE ~asks /\ ~(taken \/ x = None)
    BY <2>4
  <2> QED  BY <2>2, <2>3, <2>4
<1>6. Questions(s) = IfAny(x) \o q /\ Questions(s)' = IfAny(y) \o r
  BY <1>2 DEF Questions, IfAny
<1>7. ASSUME taken
      PROVE  /\ x \in Nat /\ Questions(s)' \in Seq(Nat) /\ Questions(s)[1] = x
             /\ Len(Questions(s)) = Len(Questions(s)') + 1
             /\ \A j \in 1 .. Len(Questions(s)') : Questions(s)[j + 1] = Questions(s)'[j]
  <2>1. IfAny(x) = <<x>> /\ x \in Nat /\ Questions(s)' = q
    BY <1>4, <1>5, <1>6, <1>7 DEF IfAny
  <2>2. /\ <<x>> \in Seq(Nat) /\ Len(<<x>>) = 1 /\ <<x>>[1] = x
        /\ q \in Seq(Nat) /\ Len(q) \in Nat
    BY <1>4, <2>1
  <2>3. /\ Len(<<x>> \o q) = Len(q) + 1
        /\ \A i \in 1 .. Len(q) + 1 : (<<x>> \o q)[i] = IF i <= 1 THEN <<x>>[i] ELSE q[i - 1]
    BY <2>2, ConcatProperties
  <2>4. Questions(s) = <<x>> \o q
    BY <1>6, <2>1
  <2>5. (<<x>> \o q)[1] = x
    BY <2>2, <2>3
  <2>6. \A j \in 1 .. Len(q) : (<<x>> \o q)[j + 1] = q[j]
    <3> SUFFICES ASSUME NEW j \in 1 .. Len(q) PROVE (<<x>> \o q)[j + 1] = q[j]
      OBVIOUS
    <3>1. j + 1 \in 1 .. Len(q) + 1 /\ ~(j + 1 <= 1) /\ j + 1 - 1 = j
      BY <2>2
    <3> QED  BY <2>3, <3>1
  <2> QED  BY <2>1, <2>2, <2>3, <2>4, <2>5, <2>6
<1> QED  BY <1>2, <1>3, <1>5, <1>6, <1>7

(* Answers move up, and a new one comes last.                              *)
LEMMA EdgeAnswers ==
    ASSUME ReadTypes, NoAnswerOverrun, NEW s \in Seg, NEW w, Asked(s) => w \in Word,
           segResp'[s] = IF respReady /\ rdResp[s] # None THEN Append(segResp[s], rdResp[s])
                         ELSE segResp[s],
           rdResp'[s] = IF BusFree(s) THEN pipeline[s] ELSE rdResp[s],
           pipeline'[s] = IF Asked(s) THEN w ELSE IF BusFree(s) THEN None ELSE pipeline[s]
    PROVE  /\ segResp'[s] \in Seq(Word) /\ rdResp'[s] \in Word \union {None}
           /\ pipeline'[s] \in Word \union {None}
           /\ ~Asked(s) => Answers(s)' = Answers(s)
           /\ Asked(s) => Answers(s)' = Append(Answers(s), w)
<1>1. PICK q, r, p, q1, r1, p1 :
        /\ q = segResp[s] /\ r = rdResp[s] /\ p = pipeline[s]
        /\ q1 = segResp'[s] /\ r1 = rdResp'[s] /\ p1 = pipeline'[s]
  OBVIOUS
<1>2. PICK ready \in BOOLEAN, new \in BOOLEAN : (ready <=> respReady) /\ (new <=> Asked(s))
  OBVIOUS
<1>3. /\ q \in Seq(Word) /\ r \in Word \union {None} /\ p \in Word \union {None}
      /\ new => w \in Word /\ (ready \/ r = None \/ p = None)
      /\ q1 = IF ready /\ r # None THEN Append(q, r) ELSE q
      /\ r1 = IF ready \/ r = None THEN p ELSE r
      /\ p1 = IF new THEN w ELSE IF ready \/ r = None THEN None ELSE p
  <2>1. BusFree(s) <=> ready \/ r = None
    BY <1>1, <1>2 DEF BusFree
  <2>2. new => BusFree(s) \/ p = None
    BY <1>1, <1>2 DEF NoAnswerOverrun
  <2> QED  BY <1>1, <1>2, <2>1, <2>2 DEF ReadTypes
<1>4. /\ q1 \in Seq(Word) /\ r1 \in Word \union {None} /\ p1 \in Word \union {None}
      /\ new => q1 \o IfAny(r1) \o IfAny(p1) = Append(q \o IfAny(r) \o IfAny(p), w)
      /\ ~new => q1 \o IfAny(r1) \o IfAny(p1) = q \o IfAny(r) \o IfAny(p)
  <2> USE <1>3
  <2>1. q1 \in Seq(Word) /\ r1 \in Word \union {None} /\ p1 \in Word \union {None}
    OBVIOUS
  <2>2. \A t \in Seq(Word) : t \o <<>> = t
    BY ConcatEmptySeq
  <2>3. /\ IfAny(r) \in Seq(Word) /\ IfAny(p) \in Seq(Word) /\ IfAny(r1) \in Seq(Word)
        /\ q \o IfAny(r) \in Seq(Word) /\ q1 \o IfAny(r1) \in Seq(Word)
        /\ q \o IfAny(r) \o IfAny(p) \in Seq(Word)
    BY <2>1, IfAnySeq, ConcatProperties
  <2>4. PICK t \in Seq(Word) : t = q1 \o IfAny(r1)
    BY <2>3
  <2>5. t = IF ready \/ r = None THEN q \o IfAny(r) \o IfAny(p) ELSE q \o IfAny(r)
    <3>1. CASE r = None
      <4>1. q1 = q /\ r1 = p /\ IfAny(r) = <<>>
        BY <3>1 DEF IfAny
      <4>2. q \o IfAny(r) = q
        BY <2>2, <4>1
      <4> QED  BY <2>4, <3>1, <4>1, <4>2
    <3>2. CASE r # None /\ ready
      <4>1. q1 = Append(q, r) /\ r1 = p /\ IfAny(r) = <<r>>
        BY <3>2 DEF IfAny
      <4>2. q \o <<r>> = Append(q, r)
        OBVIOUS
      <4> QED  BY <2>4, <3>2, <4>1, <4>2
    <3>3. CASE r # None /\ ~ready
      BY <2>4, <3>3
    <3> QED  BY <3>1, <3>2, <3>3
  <2>6. CASE new
    <3>1. p1 = w /\ w \in Word /\ IfAny(p1) = <<w>>
      BY <2>6, NoneIsNothing DEF IfAny
    <3>2. t \o <<w>> = Append(t, w)
      BY <3>1
    <3>3. t = q \o IfAny(r) \o IfAny(p)
      <4>1. CASE ready \/ r = None
        BY <2>5, <4>1
      <4>2. CASE ~(ready \/ r = None)
        <5>1. p = None /\ IfAny(p) = <<>>
          BY <2>6, <4>2 DEF IfAny
        <5> QED  BY <2>2, <2>3, <2>5, <4>2, <5>1
      <4> QED  BY <4>1, <4>2
    <3> QED  BY <2>1, <2>4, <2>6, <3>1, <3>2, <3>3
  <2>7. CASE ~new
    <3>1. CASE ready \/ r = None
      <4>1. p1 = None /\ IfAny(p1) = <<>>
        BY <2>7, <3>1 DEF IfAny
      <4> QED  BY <2>1, <2>2, <2>4, <2>5, <2>7, <3>1, <4>1
    <3>2. CASE ~(ready \/ r = None)
      <4>1. p1 = p
        BY <2>7, <3>2
      <4> QED  BY <2>1, <2>4, <2>5, <2>7, <3>2, <4>1
    <3> QED  BY <3>1, <3>2
  <2> QED  BY <2>6, <2>7
<1>5. /\ Answers(s) = q \o IfAny(r) \o IfAny(p)
      /\ Answers(s)' = q1 \o IfAny(r1) \o IfAny(p1)
  BY <1>1 DEF Answers, IfAny
<1> QED  BY <1>1, <1>2, <1>4, <1>5

(* The address of a lane of a word is reduced to one that there is.        *)
LEMMA RamAddrIn ==
    ASSUME NEW s \in Seg, NEW w \in Nat, NEW lane \in Lane
    PROVE  RamAddr(s, w, lane) % Size \in 0 .. Size - 1
<1>1. /\ s \in Int /\ lane \in Int /\ SegCount \in Int /\ SegBytes \in Int
      /\ Size \in Nat \ {0}
  BY Numbers DEF Seg, Lane
<1>2. w * SegCount \in Int
  BY <1>1
<1>3. PICK b \in Int : b = w * SegCount + s
  BY <1>1, <1>2
<1>4. b * SegBytes \in Int
  BY <1>1
<1>5. PICK a \in Int : a = b * SegBytes + lane
  BY <1>1, <1>4
<1>6. RamAddr(s, w, lane) = a
  BY <1>3, <1>5 DEF RamAddr
<1> QED  BY <1>1, <1>5, <1>6, DivMod

(* A segment takes a question and answers it, or neither.                  *)
LEMMA EdgeQueues ==
    ASSUME ReadTypes, NoAnswerOverrun, NEW s \in Seg, NEW m \in [0 .. Size - 1 -> Byte],
           NEW pause, NEW pauseAnswers, NEW ramPause,
           ReadEdge(pause, pauseAnswers, ramPause, m)
    PROVE  /\ segRead'[s] \in Seq(Nat) /\ rdCmd'[s] \in Nat \union {None}
           /\ segResp'[s] \in Seq(Word) /\ rdResp'[s] \in Word \union {None}
           /\ pipeline'[s] \in Word \union {None}
           /\ \/ /\ rdCmd[s] \in Nat /\ Answers(s)' = Append(Answers(s), WordOf(m, s))
                 /\ WordOf(m, s) \in Word /\ Questions(s)' \in Seq(Nat)
                 /\ Len(Questions(s)) = Len(Questions(s)') + 1 /\ Questions(s)[1] = rdCmd[s]
                 /\ \A j \in 1 .. Len(Questions(s)') : Questions(s)[j + 1] = Questions(s)'[j]
              \/ Answers(s)' = Answers(s) /\ Questions(s)' = Questions(s)
<1>1. /\ rdCmd'[s] = IF Asks(s, pause) THEN Head(segRead[s])
                     ELSE IF AskMoves(s) THEN None ELSE rdCmd[s]
      /\ segRead'[s] = IF Asks(s, pause) THEN Tail(segRead[s]) ELSE segRead[s]
      /\ segResp'[s] = IF respReady /\ rdResp[s] # None THEN Append(segResp[s], rdResp[s])
                       ELSE segResp[s]
      /\ rdResp'[s] = IF BusFree(s) THEN pipeline[s] ELSE rdResp[s]
      /\ pipeline'[s] = IF Asked(s) THEN WordOf(m, s)
                        ELSE IF BusFree(s) THEN None ELSE pipeline[s]
  BY DEF ReadEdge, MasterReadEdge, RamReadEdge
<1>2. Asked(s) => rdCmd[s] \in Nat /\ WordOf(m, s) \in Word
  <2> SUFFICES ASSUME Asked(s) PROVE rdCmd[s] \in Nat /\ WordOf(m, s) \in Word
    OBVIOUS
  <2>1. PICK w \in Nat : w = rdCmd[s]
    BY DEF ReadTypes, Asked
  <2>2. \A lane \in Lane : m[RamAddr(s, w, lane) % Size] \in Byte
    BY <2>1, RamAddrIn
  <2> QED  BY <2>1, <2>2 DEF WordOf, Word, Byte
<1>3. PICK w : w = WordOf(m, s)
  OBVIOUS
<1>4. /\ segRead'[s] \in Seq(Nat) /\ rdCmd'[s] \in Nat \union {None}
      /\ ~Asked(s) => Questions(s)' = Questions(s)
      /\ Asked(s) =>
            /\ rdCmd[s] \in Nat /\ Questions(s)[1] = rdCmd[s]
            /\ Questions(s)' \in Seq(Nat)
            /\ Len(Questions(s)) = Len(Questions(s)') + 1
            /\ \A j \in 1 .. Len(Questions(s)') : Questions(s)[j + 1] = Questions(s)'[j]
  BY <1>1, EdgeQuestions
<1>5. /\ segResp'[s] \in Seq(Word) /\ rdResp'[s] \in Word \union {None}
      /\ pipeline'[s] \in Word \union {None}
      /\ ~Asked(s) => Answers(s)' = Answers(s)
      /\ Asked(s) => Answers(s)' = Append(Answers(s), w)
  BY <1>1, <1>2, <1>3, EdgeAnswers
<1> QED  BY <1>2, <1>3, <1>4, <1>5

(* What a segment answers from a memory that is current is current.        *)
LEMMA AnswerFresh ==
    ASSUME ReadTypes, Grows, reads' = reads, written' = written,
           NEW s \in Seg, NEW m \in [0 .. Size - 1 -> Byte],
           \A a \in 0 .. Size - 1 : CurrentAt(a, m[a], written)',
           NEW asked, NEW number, NEW w \in Nat, w = rdCmd[s], IsQuestion(asked, s, number, w),
           NEW x, x = WordOf(m, s)
    PROVE  IsAnswer(asked, s, number, x)'
<1>1. \A v : ReadCount(v, s)' = ReadCount(v, s) /\ \A i : ReadWord(v, s, i)' = ReadWord(v, s, i)
  BY DEF ReadCount, ReadWord
<1> SUFFICES ASSUME NEW v \in 1 .. Len(reads), NEW i \in 1 .. ReadCount(v, s),
                    number = asked[s][v - 1] + i,
                    NEW since, since = reads[v].since
             PROVE  Fresh(s, w, x, since)'
  BY <1>1 DEF IsAnswer, IsQuestion
<1>2. since \in 0 .. written /\ written \in Nat
  BY ReadType DEF Grows, WriteTypes
<1> SUFFICES ASSUME NEW lane \in Lane
             PROVE  CurrentAt(RamAddr(s, w, lane) % Size, x[lane], since)'
  BY DEF Fresh
<1>3. PICK a : a = RamAddr(s, w, lane) % Size
  OBVIOUS
<1>4. a \in 0 .. Size - 1
  BY <1>3, RamAddrIn
<1>5. x[lane] = m[a]
  BY <1>3 DEF WordOf
<1>6. CurrentAt(a, m[a], written)'
  BY <1>4
<1>7. PICK b : b = m[a]
  OBVIOUS
<1>8. CurrentAt(a, b, since)'
  <2>1. CurrentAt(a, b, written)'
    BY <1>6, <1>7
  <2>2. b[1] \in 0 .. Len(writes') /\ Len(writes') \in Nat
    BY <2>1 DEF CurrentAt, Grows, WriteTypes
  <2>3. \A later \in b[1] + 1 .. since : later \in b[1] + 1 .. written
    BY <1>2, <2>2
  <2> QED  BY <2>1, <2>3 DEF CurrentAt
<1> QED  BY <1>3, <1>5, <1>7, <1>8

(* One more answer, one question less, and how they are then numbered.     *)
OneAnswered(as, as1, x, qs, qs1, r) ==
    /\ \A j \in 1 .. Len(as1) :
        \/ j \in 1 .. Len(as) /\ as1[j] = as[j]
        \/ r + j = r + Len(as) + 1 /\ as1[j] = x
    /\ 1 \in 1 .. Len(qs)
    /\ \A j \in 1 .. Len(qs1) :
        j + 1 \in 1 .. Len(qs) /\ r + Len(as) + (j + 1) = r + Len(as1) + j
    /\ r + Len(as1) + Len(qs1) = r + Len(as) + Len(qs)

(* A sequence with one more, x.                                            *)
OneMore(q, q1, x) ==
    /\ Len(q) \in Nat /\ Len(q1) = Len(q) + 1
    /\ \A j \in 1 .. Len(q) : q1[j] = q[j]
    /\ q1[Len(q) + 1] = x

LEMMA AppendIsOneMore ==
    ASSUME NEW S, NEW q \in Seq(S), NEW x \in S
    PROVE  OneMore(q, Append(q, x), x)
<1>1. Len(q) \in Nat
  BY LenProperties
<1>2. /\ Len(Append(q, x)) = Len(q) + 1 /\ Append(q, x)[Len(q) + 1] = x
      /\ \A j \in 1 .. Len(q) : Append(q, x)[j] = q[j]
  BY AppendProperties
<1> QED  BY <1>1, <1>2 DEF OneMore

(* Taking the first question and answering it.                             *)
LEMMA TakeOne ==
    ASSUME NEW as, NEW as1, NEW x, OneMore(as, as1, x),
           NEW qs, NEW qs1, Len(qs1) \in Nat, Len(qs) = Len(qs1) + 1, NEW r \in Nat
    PROVE  OneAnswered(as, as1, x, qs, qs1, r)
<1>1. Len(as) \in Nat /\ Len(qs1) \in Nat
  BY DEF OneMore
<1>2. /\ Len(as1) = Len(as) + 1 /\ as1[Len(as) + 1] = x
      /\ \A j \in 1 .. Len(as) : as1[j] = as[j]
  BY DEF OneMore
<1>3. PICK a, a1, q, q1 : a = Len(as) /\ a1 = Len(as1) /\ q = Len(qs) /\ q1 = Len(qs1)
  OBVIOUS
<1>4. a \in Nat /\ q1 \in Nat /\ a1 = a + 1 /\ q = q1 + 1
  BY <1>1, <1>2, <1>3
<1>5. \A j \in 1 .. a1 : j \in 1 .. a \/ j = a + 1
  BY <1>4
<1>6. \A j \in 1 .. q1 : j + 1 \in 1 .. q /\ r + a + (j + 1) = r + a1 + j
  BY <1>4
<1>7. 1 \in 1 .. q /\ r + a1 + q1 = r + a + q /\ r + (a + 1) = r + a + 1
  BY <1>4
<1> QED  BY <1>2, <1>3, <1>5, <1>6, <1>7 DEF OneAnswered

(* An edge of the clock keeps the reads in line.                           *)
LEMMA ReadEdgeStep ==
    ASSUME ReadInv, Grows, NoAnswerOverrun, NEW m \in [0 .. Size - 1 -> Byte],
           mem' \in [0 .. Size - 1 -> Byte], written' = written,
           \A a \in 0 .. Size - 1 : CurrentAt(a, m[a], written)',
           NEW pause, NEW pauseAnswers, NEW ramPause,
           ReadEdge(pause, pauseAnswers, ramPause, m)
    PROVE  ReadInv'
<1>1. /\ ReadTypes /\ ReadsSeeWrites /\ UNCHANGED <<reads, results>>
      /\ DOMAIN segRead' = Seg /\ DOMAIN rdCmd' = Seg /\ DOMAIN segResp' = Seg
      /\ DOMAIN rdResp' = Seg /\ DOMAIN pipeline' = Seg
      /\ segRead' = [s \in Seg |-> segRead'[s]] /\ rdCmd' = [s \in Seg |-> rdCmd'[s]]
      /\ segResp' = [s \in Seg |-> segResp'[s]] /\ rdResp' = [s \in Seg |-> rdResp'[s]]
      /\ pipeline' = [s \in Seg |-> pipeline'[s]]
  BY DEF ReadInv, ReadEdge, MasterReadEdge, RamReadEdge
<1>2. PICK asked : ReadsNumbered(asked) /\ ReadsInLine(asked)
  BY DEF ReadInv
<1>3. \A s \in Seg :
        /\ segRead'[s] \in Seq(Nat) /\ rdCmd'[s] \in Nat \union {None}
        /\ segResp'[s] \in Seq(Word) /\ rdResp'[s] \in Word \union {None}
        /\ pipeline'[s] \in Word \union {None}
        /\ \/ /\ rdCmd[s] \in Nat /\ Answers(s)' = Append(Answers(s), WordOf(m, s))
              /\ WordOf(m, s) \in Word /\ Questions(s)' \in Seq(Nat)
              /\ Len(Questions(s)) = Len(Questions(s)') + 1 /\ Questions(s)[1] = rdCmd[s]
              /\ \A j \in 1 .. Len(Questions(s)') : Questions(s)[j + 1] = Questions(s)'[j]
           \/ Answers(s)' = Answers(s) /\ Questions(s)' = Questions(s)
  BY <1>1, EdgeQueues
<1>4. ReadTypes'
  <2>1. /\ segRead' \in [Seg -> Seq(Nat)] /\ rdCmd' \in [Seg -> Nat \union {None}]
        /\ segResp' \in [Seg -> Seq(Word)] /\ rdResp' \in [Seg -> Word \union {None}]
        /\ pipeline' \in [Seg -> Word \union {None}]
    BY <1>1, <1>3
  <2> QED  BY <1>1, <2>1 DEF ReadTypes
<1>5. ReadsSeeWrites'
  <2>1. Len(reads) \in Nat
    BY <1>1 DEF ReadTypes
  <2> QED  BY <1>1, <2>1, ResultsStay
<1>6. ReadsNumbered(asked)'
  BY <1>1, <1>2, SameReads
<1>7. ASSUME NEW s \in Seg, NEW r, NEW as1, NEW qs1,
             r = asked[s][Len(results)], as1 = Answers(s)', qs1 = Questions(s)'
      PROVE  /\ r + Len(as1) + Len(qs1) = asked[s][Len(reads)]
             /\ \A j \in 1 .. Len(as1) : IsAnswer(asked, s, r + j, as1[j])'
             /\ \A j \in 1 .. Len(qs1) : IsQuestion(asked, s, r + Len(as1) + j, qs1[j])'
  <2>1. PICK as, qs, t : /\ as = Answers(s) /\ qs = Questions(s)
                         /\ t = asked[s][Len(reads)]
    OBVIOUS
  <2>2. /\ as \in Seq(Word) /\ qs \in Seq(Nat) /\ Len(as) \in Nat /\ Len(qs) \in Nat
    <3>1. Answers(s) \in Seq(Word) /\ Questions(s) \in Seq(Nat)
      BY <1>1, QueuesType
    <3> QED  BY <2>1, <3>1, LenProperties
  <2>3. r \in Nat
    <3>1. Len(results) \in Nat
      BY <1>1 DEF ReadTypes
    <3> QED  BY <1>2, <1>7, <3>1 DEF ReadsNumbered
  <2>4. /\ r + Len(as) + Len(qs) = t
        /\ \A j \in 1 .. Len(as) : IsAnswer(asked, s, r + j, as[j])
        /\ \A j \in 1 .. Len(qs) : IsQuestion(asked, s, r + Len(as) + j, qs[j])
    BY <1>2, <1>7, <2>1 DEF ReadsInLine
  <2>5. /\ \A j \in 1 .. Len(as) : IsAnswer(asked, s, r + j, as[j])'
        /\ \A j \in 1 .. Len(qs) : IsQuestion(asked, s, r + Len(as) + j, qs[j])'
    BY <1>1, <2>4, SameReads
  <2>6. CASE as1 = as /\ qs1 = qs
    BY <2>1, <2>4, <2>5, <2>6
  <2>7. CASE /\ rdCmd[s] \in Nat /\ as1 = Append(as, WordOf(m, s)) /\ WordOf(m, s) \in Word
             /\ qs1 \in Seq(Nat)
             /\ Len(qs) = Len(qs1) + 1 /\ qs[1] = rdCmd[s]
             /\ \A j \in 1 .. Len(qs1) : qs[j + 1] = qs1[j]
    <3>1. PICK w, x : w = rdCmd[s] /\ x = WordOf(m, s)
      OBVIOUS
    <3>2. w \in Nat /\ x \in Word /\ as1 = Append(as, x) /\ qs[1] = w
      BY <2>7, <3>1
    <3>3. OneAnswered(as, as1, x, qs, qs1, r)
      <4>1. qs1 \in Seq(Nat) /\ Len(qs) = Len(qs1) + 1
        BY <2>7
      <4>2. Len(qs1) \in Nat
        BY <4>1, LenProperties
      <4>3. OneMore(as, as1, x)
        <5>1. OneMore(as, Append(as, x), x)
          BY <2>2, <3>2, AppendIsOneMore
        <5> QED  BY <3>2, <5>1
      <4> QED  BY <2>3, <4>1, <4>2, <4>3, TakeOne
    <3>4. IsQuestion(asked, s, r + Len(as) + 1, w)
      BY <2>4, <3>2, <3>3 DEF OneAnswered
    <3>5. IsAnswer(asked, s, r + Len(as) + 1, x)'
      <4>1. PICK n : n = r + Len(as) + 1
        OBVIOUS
      <4>2. IsAnswer(asked, s, n, x)'
        BY <1>1, <3>1, <3>2, <3>4, <4>1, AnswerFresh
      <4> QED  BY <4>1, <4>2
    <3>6. \A j \in 1 .. Len(as1) : IsAnswer(asked, s, r + j, as1[j])'
      BY <2>5, <3>3, <3>5 DEF OneAnswered
    <3>7. \A j \in 1 .. Len(qs1) : IsQuestion(asked, s, r + Len(as1) + j, qs1[j])'
      <4> SUFFICES ASSUME NEW j \in 1 .. Len(qs1)
                   PROVE  IsQuestion(asked, s, r + Len(as1) + j, qs1[j])'
        OBVIOUS
      <4>1. IsQuestion(asked, s, r + Len(as) + (j + 1), qs[j + 1])'
        BY <2>5, <3>3 DEF OneAnswered
      <4>2. qs[j + 1] = qs1[j]
        BY <2>7
      <4> QED  BY <3>3, <4>1, <4>2 DEF OneAnswered
    <3>8. r + Len(as1) + Len(qs1) = t
      BY <2>4, <3>3 DEF OneAnswered
    <3> QED  BY <2>1, <3>6, <3>7, <3>8
  <2> QED  BY <1>3, <1>7, <2>1, <2>6, <2>7
<1>8. ReadsInLine(asked)'
  BY <1>1, <1>7 DEF ReadsInLine
<1> QED  BY <1>4, <1>5, <1>6, <1>8 DEF ReadInv
-----------------------------------------------------------------------------
(* A call of read                                                          *)

(* The number of a word is one.                                            *)
LEMMA PieceWordNat ==
    ASSUME NEW addr \in Nat, NEW k \in Nat
    PROVE  PieceWord(addr, k) \in Nat
<1>1. SegBytes \in Nat /\ ByteLanes \in Nat \ {0}
  BY Numbers
<1>2. k * SegBytes \in Nat
  BY <1>1
<1>3. PICK a \in Nat : a = addr + k * SegBytes
  BY <1>2
<1> QED  BY <1>1, <1>3, DivNat DEF PieceWord

(* A segment has no fewer than no pieces of a read.                        *)
LEMMA ReadCountNat ==
    ASSUME ReadTypes, NEW v \in 1 .. Len(reads), NEW s \in Seg
    PROVE  ReadCount(v, s) \in Nat
<1>1. reads[v] \in ReadCall
  BY DEF ReadTypes
<1>2. reads[v].addr \in Nat /\ reads[v].len \in Nat
  BY <1>1 DEF ReadCall
<1> QED  BY <1>2, CountNat DEF ReadCount

(* What a new call changes of reads.                                       *)
Called(c) ==
    /\ Len(reads) \in Nat /\ Len(reads') = Len(reads) + 1
    /\ reads'[Len(reads) + 1] = c /\ \A v \in 1 .. Len(reads) : reads'[v] = reads[v]
NewCount(c, s) == PieceCount(c.addr, c.len, s)

(* The numbers that a new call gets follow those there are.                *)
NumbersAdded(asked, new, c) ==
    \A s \in Seg :
        /\ new[s][Len(reads) + 1] = asked[s][Len(reads)] + NewCount(c, s)
        /\ \A v \in 0 .. Len(reads) : new[s][v] = asked[s][v]

(* They exist, and are numbered like all.                                  *)
LEMMA MoreNumbers ==
    ASSUME ReadTypes, NEW c \in ReadCall, Called(c), NEW asked, ReadsNumbered(asked)
    PROVE  \E new : NumbersAdded(asked, new, c) /\ ReadsNumbered(new)'
<1>1. PICK n : n = Len(reads)
  OBVIOUS
<1>2. PICK new : new = [s \in Seg |-> [v \in Nat |->
                        IF v = n + 1 THEN asked[s][n] + NewCount(c, s) ELSE asked[s][v]]]
  OBVIOUS
<1>3. \A s \in Seg : NewCount(c, s) \in Nat
  BY CountNat DEF NewCount, ReadCall
<1>4. n \in Nat /\ Len(reads') = n + 1 /\ reads'[n + 1] = c
      /\ \A v \in 1 .. n : reads'[v] = reads[v]
  BY <1>1 DEF Called
<1>5. \A s \in Seg : \A v \in Nat : asked[s][v] \in Nat
  BY DEF ReadsNumbered
<1>6. \A s \in Seg : /\ new[s][n + 1] = asked[s][n] + NewCount(c, s)
                     /\ \A v \in 0 .. n : new[s][v] = asked[s][v]
  BY <1>2, <1>3, <1>4, <1>5
<1>7. \A s \in Seg : \A v \in Nat : new[s][v] \in Nat
  BY <1>2, <1>3, <1>4, <1>5
<1>8. /\ \A s \in Seg : ReadCount(n + 1, s)' = NewCount(c, s)
      /\ \A v \in 1 .. n : \A s \in Seg : ReadCount(v, s)' = ReadCount(v, s)
  BY <1>4 DEF ReadCount, NewCount
<1>9. ReadsNumbered(new)'
  <2> SUFFICES ASSUME NEW s \in Seg
               PROVE  /\ new[s][0] = 0 /\ \A v \in Nat : new[s][v] \in Nat
                      /\ \A v \in 1 .. n + 1 : new[s][v] = new[s][v - 1] + ReadCount(v, s)'
                      /\ \A u, v \in 0 .. n + 1 : u <= v => new[s][u] <= new[s][v]
    BY <1>4 DEF ReadsNumbered
  <2>1. /\ asked[s][0] = 0
        /\ \A v \in 1 .. n : asked[s][v] = asked[s][v - 1] + ReadCount(v, s)
        /\ \A u, v \in 0 .. n : u <= v => asked[s][u] <= asked[s][v]
    BY <1>1 DEF ReadsNumbered
  <2>2. ASSUME NEW v \in 1 .. n + 1
        PROVE  new[s][v] = new[s][v - 1] + ReadCount(v, s)'
    <3>1. CASE v = n + 1
      BY <1>4, <1>6, <1>8, <3>1
    <3>2. CASE v # n + 1
      <4>1. v \in 1 .. n /\ v \in 0 .. n /\ v - 1 \in 0 .. n
        BY <1>4, <3>2
      <4> QED  BY <1>6, <1>8, <2>1, <4>1
    <3> QED  BY <3>1, <3>2
  <2>3. ASSUME NEW u \in 0 .. n + 1, NEW v \in 0 .. n + 1, u <= v
        PROVE  new[s][u] <= new[s][v]
    <3>1. asked[s][n] \in Nat /\ NewCount(c, s) \in Nat /\ n \in 0 .. n
      BY <1>3, <1>4, <1>5
    <3>2. CASE v = n + 1 /\ u = n + 1
      BY <1>6, <3>1, <3>2
    <3>3. CASE v = n + 1 /\ u # n + 1
      <4>1. u \in 0 .. n /\ u <= n
        BY <1>4, <3>3
      <4>2. asked[s][u] <= asked[s][n] /\ asked[s][u] \in Nat
        BY <1>4, <1>5, <2>1, <3>1, <4>1
      <4> QED  BY <1>6, <3>1, <3>3, <4>1, <4>2
    <3>4. CASE v # n + 1
      <4>1. u \in 0 .. n /\ v \in 0 .. n
        BY <1>4, <2>3, <3>4
      <4> QED  BY <1>6, <2>1, <2>3, <4>1
    <3> QED  BY <3>2, <3>3, <3>4
  <2>4. new[s][0] = 0
    BY <1>4, <1>6, <2>1
  <2>5. \A v \in Nat : new[s][v] \in Nat
    BY <1>7
  <2>6. \A v \in 1 .. n + 1 : new[s][v] = new[s][v - 1] + ReadCount(v, s)'
    BY <2>2
  <2>7. \A u, v \in 0 .. n + 1 : u <= v => new[s][u] <= new[s][v]
    BY <2>3
  <2> QED  BY <2>4, <2>5, <2>6, <2>7
<1> QED  BY <1>1, <1>6, <1>9 DEF NumbersAdded

(* A number that is taken is none of the new ones.                         *)
LEMMA OldNumbers ==
    ASSUME ReadTypes, NEW c \in ReadCall, Called(c), writes' = writes,
           NEW asked, ReadsNumbered(asked), NEW new, NumbersAdded(asked, new, c),
           NEW s \in Seg, NEW number \in Nat, number <= asked[s][Len(reads)]
    PROVE  \A x : /\ IsQuestion(asked, s, number, x) => IsQuestion(new, s, number, x)'
                  /\ IsAnswer(asked, s, number, x) => IsAnswer(new, s, number, x)'
<1>1. PICK n : n = Len(reads)
  OBVIOUS
<1>2. n \in Nat /\ Len(reads') = n + 1 /\ reads'[n + 1] = c
      /\ \A v \in 1 .. n : reads'[v] = reads[v]
  BY <1>1 DEF Called
<1>3. asked[s][n] \in Nat /\ \A v \in 0 .. n : new[s][v] = asked[s][v]
  BY <1>1, <1>2 DEF ReadsNumbered, NumbersAdded
<1>4. \A v \in 1 .. n : ReadCount(v, s)' = ReadCount(v, s)
                        /\ \A i : ReadWord(v, s, i)' = ReadWord(v, s, i)
  BY <1>2 DEF ReadCount, ReadWord
<1>5. ASSUME NEW v \in 1 .. n + 1, NEW i \in 1 .. ReadCount(v, s)',
             number = new[s][v - 1] + i
      PROVE  v \in 1 .. n /\ i \in 1 .. ReadCount(v, s) /\ number = asked[s][v - 1] + i
             /\ ReadWord(v, s, i)' = ReadWord(v, s, i) /\ reads'[v].since = reads[v].since
  <2>1. v # n + 1
    <3> SUFFICES ASSUME v = n + 1 PROVE FALSE
      OBVIOUS
    <3>1. v - 1 = n /\ n \in 0 .. n
      BY <1>2
    <3>2. number = asked[s][n] + i
      BY <1>3, <1>5, <3>1
    <3>3. i \in Int /\ 1 <= i
      BY <1>5
    <3> QED  BY <1>1, <1>3, <3>2, <3>3
  <2>2. v \in 1 .. n /\ v - 1 \in 0 .. n
    BY <1>2, <2>1
  <2> QED  BY <1>2, <1>3, <1>4, <1>5, <2>2
<1>6. ASSUME NEW x, IsQuestion(asked, s, number, x)
      PROVE  IsQuestion(new, s, number, x)'
  <2> SUFFICES ASSUME NEW v \in 1 .. n + 1, NEW i \in 1 .. ReadCount(v, s)',
                      number = new[s][v - 1] + i
               PROVE  x = ReadWord(v, s, i)'
    BY <1>2 DEF IsQuestion
  <2> QED  BY <1>1, <1>5, <1>6 DEF IsQuestion
<1>7. \A w, x, since : Fresh(s, w, x, since) => Fresh(s, w, x, since)'
  BY DEF Fresh, CurrentAt, Covers
<1>8. ASSUME NEW x, IsAnswer(asked, s, number, x)
      PROVE  IsAnswer(new, s, number, x)'
  <2> SUFFICES ASSUME NEW v \in 1 .. n + 1, NEW i \in 1 .. ReadCount(v, s)',
                      number = new[s][v - 1] + i
               PROVE  Fresh(s, ReadWord(v, s, i), x, reads[v].since)'
    BY <1>2 DEF IsAnswer
  <2>1. Fresh(s, ReadWord(v, s, i), x, reads[v].since)
    BY <1>1, <1>5, <1>8 DEF IsAnswer
  <2>2. PICK w, since : w = ReadWord(v, s, i) /\ since = reads[v].since
    OBVIOUS
  <2>3. Fresh(s, w, x, since)'
    BY <1>7, <2>1, <2>2
  <2>4. w = ReadWord(v, s, i)' /\ since = reads'[v].since
    BY <1>5, <2>2
  <2> QED  BY <2>3, <2>4
<1> QED  BY <1>6, <1>8

(* The new numbers are of the pieces of the new call.                      *)
LEMMA NewQuestions ==
    ASSUME ReadTypes, NEW c \in ReadCall, Called(c), NEW asked, ReadsNumbered(asked),
           NEW new, NumbersAdded(asked, new, c), NEW s \in Seg, NEW i \in 1 .. NewCount(c, s),
           NEW number, number = asked[s][Len(reads)] + i
    PROVE  IsQuestion(new, s, number, PieceWord(c.addr, PiecesIn(c.addr, c.len, s)[i]))'
<1>1. PICK n : n = Len(reads)
  OBVIOUS
<1>2. n \in Nat /\ Len(reads') = n + 1 /\ reads'[n + 1] = c
      /\ \A v \in 1 .. n : reads'[v] = reads[v]
  BY <1>1 DEF Called
<1>3. asked[s][n] \in Nat /\ \A v \in 0 .. n : new[s][v] = asked[s][v]
  BY <1>1, <1>2 DEF ReadsNumbered, NumbersAdded
<1>4. PICK w : w = PieceWord(c.addr, PiecesIn(c.addr, c.len, s)[i])
  OBVIOUS
<1> SUFFICES ASSUME NEW v \in 1 .. n + 1, NEW j \in 1 .. ReadCount(v, s)',
                    number = new[s][v - 1] + j
             PROVE  w = ReadWord(v, s, j)'
  BY <1>2, <1>4 DEF IsQuestion
<1>5. CASE v = n + 1
  <2>1. v - 1 = n /\ n \in 0 .. n
    BY <1>2, <1>5
  <2>2. asked[s][n] + j = asked[s][n] + i
    BY <1>1, <1>3, <2>1
  <2>3. j = i
    BY <1>3, <2>2
  <2> QED  BY <1>2, <1>4, <1>5, <2>3 DEF ReadWord
<1>6. CASE v # n + 1
  <2>1. v \in 1 .. n /\ v - 1 \in 0 .. n /\ v \in 0 .. n /\ n \in 0 .. n /\ v <= n
    BY <1>2, <1>6
  <2>2. ReadCount(v, s)' = ReadCount(v, s) /\ new[s][v - 1] = asked[s][v - 1]
    BY <1>2, <1>3, <2>1 DEF ReadCount
  <2>3. /\ asked[s][v] = asked[s][v - 1] + ReadCount(v, s) /\ asked[s][v] <= asked[s][n]
        /\ asked[s][v] \in Nat /\ asked[s][v - 1] \in Nat
    BY <1>1, <2>1 DEF ReadsNumbered
  <2>4. ReadCount(v, s) \in Nat
    BY <1>1, <2>1, ReadCountNat
  <2>5. number <= asked[s][n]
    <3>1. PICK a, b, d, e : /\ a = asked[s][v - 1] /\ b = ReadCount(v, s)
                            /\ d = asked[s][v] /\ e = asked[s][n]
      OBVIOUS
    <3>2. a \in Nat /\ b \in Nat /\ d \in Nat /\ e \in Nat /\ d = a + b /\ d <= e
      BY <1>3, <2>3, <2>4, <3>1
    <3>3. j \in 1 .. b /\ number = a + j
      BY <2>2, <3>1
    <3>4. a + j <= e
      BY <3>2, <3>3
    <3> QED  BY <3>1, <3>3, <3>4
  <2> QED  BY <1>1, <1>3, <2>5
<1> QED  BY <1>5, <1>6

(* More questions, and how they are numbered.                              *)
MoreAsked(as, qs, more, all, r, last) ==
    /\ \A j \in 1 .. Len(as) : r + j \in Nat /\ r + j <= last
    /\ \A j \in 1 .. Len(all) :
        \/ /\ j \in 1 .. Len(qs) /\ all[j] = qs[j]
           /\ r + Len(as) + j \in Nat /\ r + Len(as) + j <= last
        \/ \E i \in 1 .. Len(more) : r + Len(as) + j = last + i /\ all[j] = more[i]
    /\ r + Len(as) + Len(all) = last + Len(more)

(* What is asked and what more is asked, one after the other.              *)
LEMMA AskMore ==
    ASSUME NEW S, NEW T, NEW as \in Seq(S), NEW qs \in Seq(T), NEW more \in Seq(T),
           NEW all, all = qs \o more, NEW r \in Nat, NEW last, r + Len(as) + Len(qs) = last
    PROVE  MoreAsked(as, qs, more, all, r, last)
<1>1. Len(as) \in Nat /\ Len(qs) \in Nat /\ Len(more) \in Nat
  BY LenProperties
<1>2. /\ Len(all) = Len(qs) + Len(more)
      /\ \A j \in 1 .. Len(qs) + Len(more) :
            all[j] = IF j <= Len(qs) THEN qs[j] ELSE more[j - Len(qs)]
  BY ConcatProperties
<1>3. PICK a, q, m : a = Len(as) /\ q = Len(qs) /\ m = Len(more)
  OBVIOUS
<1>4. a \in Nat /\ q \in Nat /\ m \in Nat /\ Len(all) = q + m /\ last = r + a + q
  BY <1>1, <1>2, <1>3
<1>5. \A j \in 1 .. a : r + j \in Nat /\ r + j <= last
  BY <1>4
<1>6. ASSUME NEW j \in 1 .. q + m
      PROVE  \/ /\ j \in 1 .. q /\ all[j] = qs[j]
                /\ r + a + j \in Nat /\ r + a + j <= last
             \/ \E i \in 1 .. m : r + a + j = last + i /\ all[j] = more[i]
  <2>1. CASE j <= q
    <3>1. j \in 1 .. q /\ r + a + j \in Nat /\ r + a + j <= last
      BY <1>4, <2>1
    <3> QED  BY <1>2, <1>3, <2>1, <3>1
  <2>2. CASE ~(j <= q)
    <3>1. j - q \in 1 .. m /\ r + a + j = last + (j - q)
      BY <1>4, <2>2
    <3> QED  BY <1>2, <1>3, <2>2, <3>1
  <2> QED  BY <2>1, <2>2
<1>7. r + a + (q + m) = last + m
  BY <1>4
<1> QED  BY <1>3, <1>4, <1>5, <1>6, <1>7 DEF MoreAsked

(* A call of read asks each segment for the words of its pieces.           *)
LEMMA CallQuestions ==
    ASSUME ReadTypes, NEW s \in Seg, NEW addr \in Nat, NEW len \in Nat, NEW since,
           CallRead(addr, len, since)
    PROVE  LET more == [i \in 1 .. PieceCount(addr, len, s) |->
                            PieceWord(addr, PiecesIn(addr, len, s)[i])]
           IN  /\ more \in Seq(Nat) /\ Len(more) = PieceCount(addr, len, s)
               /\ segRead'[s] \in Seq(Nat) /\ Questions(s)' = Questions(s) \o more
<1> DEFINE more == [i \in 1 .. PieceCount(addr, len, s) |->
                        PieceWord(addr, PiecesIn(addr, len, s)[i])]
<1>1. PieceCount(addr, len, s) \in Nat
  BY CountNat
<1>2. \A i \in 1 .. PieceCount(addr, len, s) : PieceWord(addr, PiecesIn(addr, len, s)[i]) \in Nat
  <2> SUFFICES ASSUME NEW i \in 1 .. PieceCount(addr, len, s)
               PROVE  PieceWord(addr, PiecesIn(addr, len, s)[i]) \in Nat
    OBVIOUS
  <2>1. PiecesIn(addr, len, s)[i] \in Nat
    BY PiecesAre
  <2> QED  BY <2>1, PieceWordNat
<1>3. more \in Seq(Nat) /\ Len(more) = PieceCount(addr, len, s)
  BY <1>1, <1>2
<1>4. segRead'[s] = segRead[s] \o more /\ rdCmd' = rdCmd
  BY DEF CallRead, PiecesIn
<1> HIDE DEF more
<1>5. segRead[s] \in Seq(Nat) /\ IfAny(rdCmd[s]) \in Seq(Nat)
  BY IfAnySeq DEF ReadTypes
<1>6. segRead'[s] \in Seq(Nat)
  BY <1>3, <1>4, <1>5, ConcatProperties
<1>7. Questions(s)' = IfAny(rdCmd[s]) \o (segRead[s] \o more)
  BY <1>4 DEF Questions, IfAny
<1>8. (IfAny(rdCmd[s]) \o segRead[s]) \o more = IfAny(rdCmd[s]) \o (segRead[s] \o more)
  <2>1. PICK S, a, b, d : S = Nat /\ a = IfAny(rdCmd[s]) /\ b = segRead[s] /\ d = more
    OBVIOUS
  <2>2. a \in Seq(S) /\ b \in Seq(S) /\ d \in Seq(S)
    BY <1>3, <1>5, <2>1
  <2>3. (a \o b) \o d = a \o (b \o d)
    BY <2>2, ConcatAssociative
  <2> QED  BY <2>1, <2>3
<1>9. Questions(s)' = Questions(s) \o more
  BY <1>7, <1>8 DEF Questions
<1> QED  BY <1>3, <1>6, <1>9 DEF more

(* A call of read gets the next numbers, and nothing is answered yet.      *)
LEMMA CallReadStep ==
    ASSUME ReadInv, Grows, NEW addr \in Nat, NEW len \in Nat, addr + len <= Size,
           CallRead(addr, len, written), UNCHANGED <<mem, writes, written>>
    PROVE  ReadInv'
<1>1. PICK n, c : n = Len(reads) /\ c = [addr |-> addr, len |-> len, since |-> written]
  OBVIOUS
<1>2. ReadTypes /\ ReadsSeeWrites /\ written \in Nat /\ n \in Nat /\ Len(results) \in Nat
      /\ Len(results) <= n
  <2>1. ReadTypes /\ ReadsSeeWrites /\ written \in Nat
    BY DEF ReadInv, Grows, WriteTypes
  <2> QED  BY <1>1, <2>1 DEF ReadTypes
<1>3. /\ c \in ReadCall /\ c.addr = addr /\ c.len = len /\ c.since = written
  BY <1>1, <1>2 DEF ReadCall
<1>4. /\ reads' = Append(reads, c)
      /\ UNCHANGED <<results, rdCmd, pipeline, rdResp, segResp>>
      /\ segRead' = [s \in Seg |-> segRead'[s]]
  BY <1>1 DEF CallRead
<1>5. /\ Called(c) /\ reads' \in Seq(ReadCall) /\ Len(reads') = n + 1 /\ reads'[n + 1] = c
      /\ \A v \in 1 .. n : reads'[v] = reads[v]
  <2>1. reads \in Seq(ReadCall)
    BY <1>2 DEF ReadTypes
  <2>2. /\ reads' \in Seq(ReadCall) /\ Len(reads') = Len(reads) + 1
        /\ reads'[Len(reads) + 1] = c /\ \A v \in 1 .. Len(reads) : reads'[v] = reads[v]
    BY <1>3, <1>4, <2>1, AppendProperties
  <2> QED  BY <1>1, <1>2, <2>2 DEF Called
<1>6. PICK asked : ReadsNumbered(asked) /\ ReadsInLine(asked)
  BY DEF ReadInv
<1>7. PICK new : NumbersAdded(asked, new, c) /\ ReadsNumbered(new)'
  BY <1>2, <1>3, <1>5, <1>6, MoreNumbers
<1>8. ReadTypes'
  <2>1. segRead' \in [Seg -> Seq(Nat)]
    <3>1. \A s \in Seg : segRead'[s] \in Seq(Nat)
      BY <1>2, CallQuestions
    <3> QED  BY <1>4, <3>1
  <2>2. \A v \in 1 .. n + 1 :
            reads'[v].addr + reads'[v].len <= Size /\ reads'[v].since <= written
    <3> SUFFICES ASSUME NEW v \in 1 .. n + 1
                 PROVE  reads'[v].addr + reads'[v].len <= Size /\ reads'[v].since <= written
      OBVIOUS
    <3>1. CASE v = n + 1
      BY <1>2, <1>3, <1>5, <3>1
    <3>2. CASE v # n + 1
      <4>1. v \in 1 .. n
        BY <1>2, <3>2
      <4> QED  BY <1>1, <1>2, <1>5, <4>1 DEF ReadTypes
    <3> QED  BY <3>1, <3>2
  <2>3. Len(results) <= n + 1
    BY <1>2
  <2> QED  BY <1>2, <1>4, <1>5, <2>1, <2>2, <2>3 DEF ReadTypes
<1>9. ReadsSeeWrites'
  <2>1. n <= n + 1 /\ n + 1 \in Nat
    BY <1>2
  <2> QED  BY <1>1, <1>2, <1>4, <1>5, <2>1, ResultsStay
<1>10. ASSUME NEW s \in Seg, NEW r, NEW as, NEW qs1,
              r = new[s][Len(results)], as = Answers(s), qs1 = Questions(s)'
       PROVE  /\ r + Len(as) + Len(qs1) = new[s][n + 1]
              /\ \A j \in 1 .. Len(as) : IsAnswer(new, s, r + j, as[j])'
              /\ \A j \in 1 .. Len(qs1) : IsQuestion(new, s, r + Len(as) + j, qs1[j])'
  <2>1. PICK qs, last, more :
            /\ qs = Questions(s) /\ last = asked[s][n]
            /\ more = [i \in 1 .. PieceCount(addr, len, s) |->
                            PieceWord(addr, PiecesIn(addr, len, s)[i])]
    OBVIOUS
  <2>2. more \in Seq(Nat) /\ Len(more) = NewCount(c, s) /\ qs1 = qs \o more
    BY <1>2, <1>3, <1>10, <2>1, CallQuestions DEF NewCount
  <2>3. as \in Seq(Word) /\ qs \in Seq(Nat)
    BY <1>2, <1>10, <2>1, QueuesType
  <2>4. r = asked[s][Len(results)] /\ r \in Nat /\ last \in Nat
        /\ new[s][n + 1] = last + NewCount(c, s)
    <3>1. Len(results) \in 0 .. n /\ n \in Nat
      BY <1>2
    <3>2. asked[s][Len(results)] \in Nat /\ last \in Nat
      BY <1>2, <1>6, <2>1 DEF ReadsNumbered
    <3>3. /\ new[s][Len(results)] = asked[s][Len(results)]
          /\ new[s][n + 1] = asked[s][n] + NewCount(c, s)
      BY <1>1, <1>7, <3>1 DEF NumbersAdded
    <3> QED  BY <1>10, <2>1, <3>2, <3>3
  <2>5. /\ r + Len(as) + Len(qs) = last
        /\ \A j \in 1 .. Len(as) : IsAnswer(asked, s, r + j, as[j])
        /\ \A j \in 1 .. Len(qs) : IsQuestion(asked, s, r + Len(as) + j, qs[j])
    BY <1>1, <1>6, <1>10, <2>1, <2>4 DEF ReadsInLine
  <2>6. MoreAsked(as, qs, more, qs1, r, last)
    <3>1. PICK S, T : S = Word /\ T = Nat
      OBVIOUS
    <3>2. as \in Seq(S) /\ qs \in Seq(T) /\ more \in Seq(T)
      BY <2>2, <2>3, <3>1
    <3> QED  BY <2>2, <2>4, <2>5, <3>2, AskMore
  <2>7. \A number \in Nat : number <= last =>
            \A x : /\ IsQuestion(asked, s, number, x) => IsQuestion(new, s, number, x)'
                   /\ IsAnswer(asked, s, number, x) => IsAnswer(new, s, number, x)'
    BY <1>1, <1>2, <1>3, <1>5, <1>6, <1>7, <2>1, OldNumbers
  <2>8. \A i \in 1 .. Len(more) : IsQuestion(new, s, last + i, more[i])'
    <3> SUFFICES ASSUME NEW i \in 1 .. NewCount(c, s), NEW number, number = last + i
                 PROVE  IsQuestion(new, s, number, more[i])'
      BY <2>2
    <3>1. PICK x : x = PieceWord(c.addr, PiecesIn(c.addr, c.len, s)[i])
      OBVIOUS
    <3>2. IsQuestion(new, s, number, x)'
      BY <1>1, <1>2, <1>3, <1>5, <1>6, <1>7, <2>1, <3>1, NewQuestions
    <3>3. more[i] = x
      BY <1>3, <2>1, <3>1 DEF NewCount
    <3> QED  BY <3>2, <3>3
  <2>9. \A j \in 1 .. Len(as) : IsAnswer(new, s, r + j, as[j])'
    BY <2>5, <2>6, <2>7 DEF MoreAsked
  <2>10. \A j \in 1 .. Len(qs1) : IsQuestion(new, s, r + Len(as) + j, qs1[j])'
    BY <2>5, <2>6, <2>7, <2>8 DEF MoreAsked
  <2> QED  BY <2>2, <2>4, <2>6, <2>9, <2>10 DEF MoreAsked
<1>11. ReadsInLine(new)'
  <2>1. \A s : Answers(s)' = Answers(s)
    BY <1>4 DEF Answers
  <2> QED  BY <1>4, <1>5, <1>10, <2>1 DEF ReadsInLine
<1> QED  BY <1>7, <1>8, <1>9, <1>11 DEF ReadInv
-----------------------------------------------------------------------------
(* A call of read that returns                                             *)

(* Piece k is the answer with number 1 + k \div SegCount of its segment.   *)
LEMMA PieceNumber ==
    ASSUME NEW addr \in Nat, NEW len \in Nat, NEW k \in Nat, k < SegmentsOf(addr, len),
           NEW s, s = PieceSeg(addr, k)
    PROVE  /\ s \in Seg /\ 1 + (k \div SegCount) \in 1 .. PieceCount(addr, len, s)
           /\ PiecesIn(addr, len, s)[1 + (k \div SegCount)] = k
<1>1. s \in Seg
  BY PieceIsBlock
<1>2. PICK i \in 1 .. PieceCount(addr, len, s) : PiecesIn(addr, len, s)[i] = k
  BY PieceIsIn
<1>3. PICK f, n : f = FirstPiece(addr, s) /\ n = SegCount
  OBVIOUS
<1>4. n \in Nat \ {0} /\ f \in 0 .. n - 1
  <2>1. s \in Int /\ FirstSeg(addr) \in Int /\ SegCount \in Nat \ {0}
    BY <1>1, FirstSegIn, Numbers DEF Seg
  <2>2. PICK d \in Int : d = s - FirstSeg(addr)
    BY <2>1
  <2> QED  BY <1>3, <2>1, <2>2, DivMod DEF FirstPiece
<1>5. i \in Int /\ k = f + (i - 1) * n
  BY <1>2, <1>3 DEF PiecesIn
<1>6. PICK j \in Int : j = i - 1
  BY <1>5
<1>7. k = n * j + f
  <2>1. n \in Int /\ f \in Int
    BY <1>4
  <2> QED  BY <1>5, <1>6, <2>1
<1>8. k \div n = j
  BY <1>4, <1>6, <1>7, DivModUnique
<1>9. 1 + (k \div n) = i
  BY <1>5, <1>6, <1>8
<1> QED  BY <1>1, <1>2, <1>3, <1>9

(* The byte at a place is one that the RAM may have held at its address.   *)
LEMMA ByteFresh ==
    ASSUME ReadTypes, WriteTypes, NEW asked, ReadsNumbered(asked), ReadsInLine(asked),
           NEW v \in 1 .. Len(reads), v = Len(results) + 1, NEW c, c = reads[v],
           \A s \in Seg : Len(segResp[s]) >= NeedsAnswers(c, s),
           NEW p \in Places(c), NEW byte,
           byte = segResp[PieceSeg(c.addr, p[1])][1 + (p[1] \div SegCount)][p[2]]
    PROVE  byte \in Byte /\ CurrentAt(AddressOf(c, p), byte, c.since)
<1>1. c.addr \in Nat /\ c.len \in Nat /\ c.addr + c.len <= Size
  BY ReadType
<1>2. PICK addr, len, k, lane, s, i :
        /\ addr = c.addr /\ len = c.len /\ k = p[1] /\ lane = p[2]
        /\ s = PieceSeg(addr, k) /\ i = 1 + (k \div SegCount)
  OBVIOUS
<1>3. /\ k \in Nat /\ k < SegmentsOf(addr, len) /\ lane \in Lane
      /\ AddressOf(c, p) \in addr .. addr + len - 1
  BY <1>1, <1>2, PlaceIs
<1>4. /\ s \in Seg /\ i \in 1 .. PieceCount(addr, len, s) /\ PiecesIn(addr, len, s)[i] = k
  BY <1>1, <1>2, <1>3, PieceNumber
<1>5. PieceCount(addr, len, s) \in Nat /\ NeedsAnswers(c, s) = PieceCount(addr, len, s)
  <2>1. PieceCount(addr, len, s) \in Nat
    BY <1>1, <1>2, <1>4, CountNat
  <2> QED  BY <1>2, <2>1 DEF NeedsAnswers, PiecesIn
<1>6. segResp[s] \in Seq(Word) /\ Len(segResp[s]) \in Nat
  BY <1>4 DEF ReadTypes
<1>7. i \in 1 .. Len(segResp[s])
  <2>1. Len(segResp[s]) >= PieceCount(addr, len, s)
    BY <1>4, <1>5
  <2> QED  BY <1>4, <1>5, <1>6, <2>1
<1>8. PICK word \in Word : word = segResp[s][i]
  BY <1>6, <1>7
<1>9. byte = word[lane] /\ byte \in Byte
  BY <1>2, <1>3, <1>8 DEF Word, Byte
<1>10. Answers(s)[i] = word /\ i \in 1 .. Len(Answers(s))
  <2>1. /\ Len(Answers(s)) = Len(segResp[s]) + Len(IfAny(rdResp[s])) + Len(IfAny(pipeline[s]))
        /\ \A j \in 1 .. Len(segResp[s]) : Answers(s)[j] = segResp[s][j]
    BY <1>4, QueuesType
  <2>2. Len(IfAny(rdResp[s])) \in Nat /\ Len(IfAny(pipeline[s])) \in Nat
    BY <1>4, IfAnySeq DEF ReadTypes
  <2>3. Answers(s)[i] = word
    BY <1>7, <1>8, <2>1
  <2>4. PICK l, a, b : /\ l = Len(segResp[s])
                       /\ a = Len(IfAny(rdResp[s])) /\ b = Len(IfAny(pipeline[s]))
    OBVIOUS
  <2>5. l \in Nat /\ a \in Nat /\ b \in Nat /\ i \in 1 .. l
    BY <1>6, <1>7, <2>2, <2>4
  <2>6. i \in 1 .. l + a + b
    BY <2>5
  <2>7. Len(Answers(s)) = l + a + b
    BY <2>1, <2>4
  <2> QED  BY <2>3, <2>6, <2>7
<1>11. Fresh(s, PieceWord(addr, k), word, c.since)
  <2>1. IsAnswer(asked, s, asked[s][Len(results)] + i, word)
    BY <1>4, <1>10 DEF ReadsInLine
  <2>2. v - 1 = Len(results) /\ i \in 1 .. ReadCount(v, s) /\ ReadWord(v, s, i) = PieceWord(addr, k)
    <3>1. Len(results) \in Nat
      BY DEF ReadTypes
    <3> QED  BY <1>2, <1>4, <3>1 DEF ReadCount, ReadWord
  <2> QED  BY <2>1, <2>2 DEF IsAnswer
<1>12. RamAddr(s, PieceWord(addr, k), lane) % Size = AddressOf(c, p)
  <2>1. lane \in Int
    BY <1>3, Numbers DEF Lane
  <2>2. RamAddr(s, PieceWord(addr, k), lane) = AddressOf(c, p)
    BY <1>1, <1>2, <1>3, <2>1, PieceIsBlock DEF AddressOf
  <2>3. PICK a : a = AddressOf(c, p)
    OBVIOUS
  <2>4. a \in 0 .. Size - 1 /\ Size \in Nat \ {0}
    <3>1. Size \in Nat \ {0}
      BY Numbers
    <3> QED  BY <1>1, <1>2, <1>3, <2>3, <3>1
  <2>5. a % Size = a
    <3>1. (Size * 0 + a) % Size = a
      BY <2>4, DivModUnique
    <3>2. Size * 0 + a = a
      BY <2>4
    <3> QED  BY <3>1, <3>2
  <2> QED  BY <2>2, <2>3, <2>5
<1>13. CurrentAt(RamAddr(s, PieceWord(addr, k), lane) % Size, word[lane], c.since)
  BY <1>3, <1>11 DEF Fresh
<1> QED  BY <1>9, <1>12, <1>13

(* What a call of read puts together is what it was asked for.             *)
LEMMA AssembledFresh ==
    ASSUME ReadTypes, WriteTypes, NEW asked, ReadsNumbered(asked), ReadsInLine(asked),
           NEW v \in 1 .. Len(reads), v = Len(results) + 1, NEW c, c = reads[v],
           \A s \in Seg : Len(segResp[s]) >= NeedsAnswers(c, s),
           NEW bytes, bytes = Assembled(c)
    PROVE  /\ bytes \in Seq(Byte) /\ Len(bytes) = c.len
           /\ \A i \in 1 .. c.len : CurrentAt(c.addr + i - 1, bytes[i], c.since)
<1> DEFINE before(p) == Cardinality(PlacesBefore(Places(c), p))
           byte(p) == segResp[PieceSeg(c.addr, p[1])][1 + (p[1] \div SegCount)][p[2]]
           place(i) == CHOOSE p \in Places(c) : before(p) = i - 1
<1>1. c.addr \in Nat /\ c.len \in Nat
  BY ReadType
<1>2. /\ Cardinality(Places(c)) = c.len
      /\ \A p \in Places(c) : before(p) = AddressOf(c, p) - c.addr
  BY <1>1, PlacesInOrder
<1>3. bytes = [i \in 1 .. c.len |-> byte(place(i))]
  BY <1>2 DEF Assembled
<1>4. \A p \in Places(c) : byte(p) \in Byte /\ CurrentAt(AddressOf(c, p), byte(p), c.since)
  BY ByteFresh
<1> HIDE DEF before, byte
<1>5. ASSUME NEW i \in 1 .. c.len
      PROVE  place(i) \in Places(c) /\ AddressOf(c, place(i)) = c.addr + i - 1
  <2>1. PICK a : a = c.addr + i - 1
    OBVIOUS
  <2>2. a \in c.addr .. c.addr + c.len - 1 /\ a - c.addr = i - 1 /\ i - 1 \in Int
    BY <1>1, <2>1
  <2>3. PlaceOf(c, a) \in Places(c) /\ AddressOf(c, PlaceOf(c, a)) = a
    BY <1>1, <2>2, PlaceThere
  <2>4. before(PlaceOf(c, a)) = i - 1
    BY <1>2, <2>2, <2>3
  <2>5. place(i) \in Places(c) /\ before(place(i)) = i - 1
    BY <2>3, <2>4
  <2> HIDE DEF place
  <2>6. AddressOf(c, place(i)) \in c.addr .. c.addr + c.len - 1
    BY <1>1, <2>5, PlaceIs
  <2>7. AddressOf(c, place(i)) - c.addr = i - 1
    BY <1>2, <2>5
  <2> QED  BY <1>1, <2>5, <2>6, <2>7
<1> HIDE DEF place
<1>6. \A i \in 1 .. c.len : byte(place(i)) \in Byte
                            /\ CurrentAt(c.addr + i - 1, byte(place(i)), c.since)
  BY <1>4, <1>5
<1>7. bytes \in Seq(Byte) /\ Len(bytes) = c.len
  BY <1>1, <1>3, <1>6
<1>8. \A i \in 1 .. c.len : CurrentAt(c.addr + i - 1, bytes[i], c.since)
  BY <1>3, <1>6
<1> QED  BY <1>7, <1>8

(* Without the first n.                                                    *)
Behind(q, q1, n) == Len(q) = Len(q1) + n /\ \A j \in 1 .. Len(q1) : q1[j] = q[n + j]

(* What is taken from the front is gone from the front of all.             *)
LEMMA FrontGone ==
    ASSUME NEW S, NEW q \in Seq(S), NEW r \in Seq(S), NEW q1 \in Seq(S), NEW n \in Nat,
           Behind(q, q1, n)
    PROVE  q \o r \in Seq(S) /\ q1 \o r \in Seq(S) /\ Behind(q \o r, q1 \o r, n)
<1>1. Len(q) \in Nat /\ Len(q1) \in Nat /\ Len(r) \in Nat
  BY LenProperties
<1>2. /\ q \o r \in Seq(S) /\ Len(q \o r) = Len(q) + Len(r)
      /\ \A j \in 1 .. Len(q) + Len(r) :
            (q \o r)[j] = IF j <= Len(q) THEN q[j] ELSE r[j - Len(q)]
  BY ConcatProperties
<1>3. /\ q1 \o r \in Seq(S) /\ Len(q1 \o r) = Len(q1) + Len(r)
      /\ \A j \in 1 .. Len(q1) + Len(r) :
            (q1 \o r)[j] = IF j <= Len(q1) THEN q1[j] ELSE r[j - Len(q1)]
  BY ConcatProperties
<1>4. PICK l, l1, m : l = Len(q) /\ l1 = Len(q1) /\ m = Len(r)
  OBVIOUS
<1>5. l1 \in Nat /\ m \in Nat /\ l = l1 + n
  BY <1>1, <1>4 DEF Behind
<1>6. ASSUME NEW j \in 1 .. l1 + m
      PROVE  (q1 \o r)[j] = (q \o r)[n + j]
  <2>1. n + j \in 1 .. l + m /\ (n + j <= l <=> j <= l1) /\ (n + j) - l = j - l1
    BY <1>5
  <2>2. (q \o r)[n + j] = IF n + j <= l THEN q[n + j] ELSE r[(n + j) - l]
    BY <1>2, <1>4, <2>1
  <2>3. (q1 \o r)[j] = IF j <= l1 THEN q1[j] ELSE r[j - l1]
    BY <1>3, <1>4
  <2>4. CASE j <= l1
    <3>1. j \in 1 .. l1
      BY <1>5, <2>4
    <3>2. q1[j] = q[n + j]
      BY <1>4, <3>1 DEF Behind
    <3> QED  BY <2>1, <2>2, <2>3, <2>4, <3>2
  <2>5. CASE ~(j <= l1)
    BY <2>1, <2>2, <2>3, <2>5
  <2> QED  BY <2>4, <2>5
<1>7. l + m = (l1 + m) + n
  BY <1>5
<1> QED  BY <1>2, <1>3, <1>4, <1>6, <1>7 DEF Behind

(* A call that returns takes its answers from the front.                   *)
LEMMA AnswersTaken ==
    ASSUME ReadTypes, NEW s \in Seg, NEW n \in Nat, Len(segResp[s]) >= n,
           segResp'[s] = SubSeq(segResp[s], n + 1, Len(segResp[s])),
           UNCHANGED <<rdResp, pipeline>>
    PROVE  /\ segResp'[s] \in Seq(Word)
           /\ Answers(s) \in Seq(Word) /\ Answers(s)' \in Seq(Word)
           /\ Behind(Answers(s), Answers(s)', n)
<1>1. PICK q, q1, r, p, S : /\ q = segResp[s] /\ q1 = segResp'[s]
                            /\ r = IfAny(rdResp[s]) /\ p = IfAny(pipeline[s]) /\ S = Word
  OBVIOUS
<1>2. q \in Seq(S) /\ r \in Seq(S) /\ p \in Seq(S) /\ Len(q) \in Nat
  BY <1>1, IfAnySeq DEF ReadTypes
<1>3. q1 \in Seq(S) /\ Behind(q, q1, n)
  <2>1. PICK l \in Nat : l = Len(q)
    BY <1>2
  <2>2. n <= l /\ q1 = SubSeq(q, n + 1, l)
    BY <1>1, <2>1
  <2>3. \A i \in n + 1 .. l : q[i] \in S
    BY <1>2, <2>1
  <2>4. n + 1 \in Int /\ l \in Int
    OBVIOUS
  <2>5. /\ q1 \in Seq(S) /\ Len(q1) = IF n + 1 <= l THEN l - (n + 1) + 1 ELSE 0
        /\ \A i \in 1 .. l - (n + 1) + 1 : q1[i] = q[(n + 1) + i - 1]
    BY <2>2, <2>3, <2>4, SubSeqProperties
  <2>6. Len(q1) = l - n /\ l - (n + 1) + 1 = l - n /\ l = (l - n) + n
    BY <2>2, <2>5
  <2>7. \A i \in 1 .. l - n : (n + 1) + i - 1 = n + i
    OBVIOUS
  <2> QED  BY <2>1, <2>5, <2>6, <2>7 DEF Behind
<1>4. q \o r \in Seq(S) /\ q1 \o r \in Seq(S) /\ Behind(q \o r, q1 \o r, n)
  BY <1>2, <1>3, FrontGone
<1>5. PICK t, t1 : t = q \o r /\ t1 = q1 \o r
  OBVIOUS
<1>6. t \o p \in Seq(S) /\ t1 \o p \in Seq(S) /\ Behind(t \o p, t1 \o p, n)
  BY <1>2, <1>4, <1>5, FrontGone
<1>7. Answers(s) = t \o p /\ Answers(s)' = t1 \o p
  BY <1>1, <1>5 DEF Answers, IfAny
<1> QED  BY <1>1, <1>3, <1>6, <1>7

(* A call of read that returns leaves the others in line.                  *)
LEMMA ReturnReadStep ==
    ASSUME ReadInv, Grows, ReturnRead, UNCHANGED <<mem, writes, written>>
    PROVE  ReadInv'
<1>1. PICK v, c : v = Len(results) + 1 /\ c = reads[v]
  OBVIOUS
<1>2. /\ ReadTypes /\ ReadsSeeWrites /\ WriteTypes
      /\ Len(results) \in Nat /\ v - 1 = Len(results) /\ v \in 1 .. Len(reads)
      /\ v <= Len(reads) /\ Len(reads) \in Nat /\ results \in Seq(Seq(Byte))
  <2>1. ReadTypes /\ ReadsSeeWrites /\ WriteTypes
    BY DEF ReadInv, Grows
  <2>2. Len(results) \in Nat /\ Len(reads) \in Nat /\ Len(results) < Len(reads)
        /\ results \in Seq(Seq(Byte))
    BY <2>1 DEF ReadTypes, ReturnRead
  <2> QED  BY <1>1, <2>1, <2>2
<1>3. /\ \A s \in Seg : Len(segResp[s]) >= NeedsAnswers(c, s)
      /\ results' = Append(results, Assembled(c))
      /\ segResp' = [s \in Seg |-> SubSeq(segResp[s], NeedsAnswers(c, s) + 1, Len(segResp[s]))]
      /\ UNCHANGED <<reads, segRead, rdCmd, pipeline, rdResp>>
  BY <1>1 DEF ReturnRead
<1>4. PICK asked : ReadsNumbered(asked) /\ ReadsInLine(asked)
  BY DEF ReadInv
<1>5. PICK bytes : bytes = Assembled(c)
  OBVIOUS
<1>6. /\ bytes \in Seq(Byte) /\ Len(bytes) = c.len
      /\ \A i \in 1 .. c.len : CurrentAt(c.addr + i - 1, bytes[i], c.since)
  BY <1>1, <1>2, <1>3, <1>4, <1>5, AssembledFresh
<1>7. /\ results' \in Seq(Seq(Byte)) /\ Len(results') = v /\ results'[v] = bytes
      /\ \A j \in 1 .. v - 1 : results'[j] = results[j]
  BY <1>1, <1>2, <1>3, <1>5, <1>6, AppendProperties
<1>8. \A s \in Seg : NeedsAnswers(c, s) \in Nat /\ NeedsAnswers(c, s) = ReadCount(v, s)
  <2> SUFFICES ASSUME NEW s \in Seg
               PROVE  NeedsAnswers(c, s) \in Nat /\ NeedsAnswers(c, s) = ReadCount(v, s)
    OBVIOUS
  <2>1. ReadCount(v, s) \in Nat
    BY <1>2, ReadCountNat
  <2> QED  BY <1>1, <2>1 DEF NeedsAnswers, PiecesIn, ReadCount
<1>9. ASSUME NEW s \in Seg
      PROVE  /\ segResp'[s] \in Seq(Word)
             /\ Answers(s) \in Seq(Word) /\ Answers(s)' \in Seq(Word)
             /\ Behind(Answers(s), Answers(s)', ReadCount(v, s))
  <2>1. PICK n \in Nat : n = NeedsAnswers(c, s)
    BY <1>8
  <2>2. Len(segResp[s]) >= n /\ segResp'[s] = SubSeq(segResp[s], n + 1, Len(segResp[s]))
    BY <1>3, <2>1
  <2>3. /\ segResp'[s] \in Seq(Word)
        /\ Answers(s) \in Seq(Word) /\ Answers(s)' \in Seq(Word)
        /\ Behind(Answers(s), Answers(s)', n)
    BY <1>2, <1>3, <2>2, AnswersTaken
  <2> QED  BY <1>8, <2>1, <2>3
<1>10. ReadTypes'
  <2>1. segResp' \in [Seg -> Seq(Word)]
    BY <1>3, <1>9
  <2> QED  BY <1>2, <1>3, <1>7, <2>1 DEF ReadTypes
<1>11. ReadsSeeWrites'
  <2>1. \A a, x, since : CurrentAt(a, x, since)' <=> CurrentAt(a, x, since)
    BY DEF CurrentAt, Covers
  <2> SUFFICES ASSUME NEW j \in DOMAIN results', NEW d, NEW x, d = reads[j], x = results'[j]
               PROVE  Len(x) = d.len
                      /\ \A i \in 1 .. d.len : CurrentAt(d.addr + i - 1, x[i], d.since)
    BY <1>3, <2>1 DEF ReadsSeeWrites
  <2>2. j \in 1 .. v
    BY <1>7
  <2>3. CASE j = v
    BY <1>1, <1>6, <1>7, <2>3
  <2>4. CASE j # v
    <3>1. j \in 1 .. v - 1 /\ j \in DOMAIN results
      BY <1>2, <2>2, <2>4
    <3> QED  BY <1>2, <1>7, <3>1 DEF ReadsSeeWrites
  <2> QED  BY <2>3, <2>4
<1>12. ReadsNumbered(asked)'
  BY <1>2, <1>3, <1>4, SameReads
<1>13. ASSUME NEW s \in Seg, NEW as1, as1 = Answers(s)', NEW r1, r1 = asked[s][v],
              NEW qs, qs = Questions(s)
       PROVE  /\ r1 + Len(as1) + Len(qs) = asked[s][Len(reads)]
              /\ \A j \in 1 .. Len(as1) : IsAnswer(asked, s, r1 + j, as1[j])'
              /\ \A j \in 1 .. Len(qs) : IsQuestion(asked, s, r1 + Len(as1) + j, qs[j])'
  <2>1. PICK as, r, n : as = Answers(s) /\ r = asked[s][Len(results)] /\ n = ReadCount(v, s)
    OBVIOUS
  <2>2. /\ r + Len(as) + Len(qs) = asked[s][Len(reads)]
        /\ \A j \in 1 .. Len(as) : IsAnswer(asked, s, r + j, as[j])'
        /\ \A j \in 1 .. Len(qs) : IsQuestion(asked, s, r + Len(as) + j, qs[j])'
    <3>1. /\ r + Len(as) + Len(qs) = asked[s][Len(reads)]
          /\ \A j \in 1 .. Len(as) : IsAnswer(asked, s, r + j, as[j])
          /\ \A j \in 1 .. Len(qs) : IsQuestion(asked, s, r + Len(as) + j, qs[j])
      BY <1>4, <1>13, <2>1 DEF ReadsInLine
    <3> QED  BY <1>2, <1>3, <3>1, SameReads
  <2>3. PICK a, a1 : a = Len(as) /\ a1 = Len(as1)
    OBVIOUS
  <2>4. /\ a1 \in Nat /\ a = a1 + n /\ n \in Nat
        /\ \A j \in 1 .. a1 : as1[j] = as[n + j]
    <3>1. as1 \in Seq(Word) /\ Behind(as, as1, n)
      BY <1>9, <1>13, <2>1
    <3>2. Len(as1) \in Nat /\ n \in Nat
      BY <1>8, <2>1, <3>1, LenProperties
    <3> QED  BY <2>3, <3>1, <3>2 DEF Behind
  <2>5. r \in Nat /\ r1 = r + n
    BY <1>2, <1>4, <1>13, <2>1 DEF ReadsNumbered
  <2>6. r1 + a1 = r + a
    BY <2>4, <2>5
  <2>7. ASSUME NEW j \in 1 .. a1 PROVE IsAnswer(asked, s, r1 + j, as1[j])'
    <3>1. n + j \in 1 .. a /\ r + (n + j) = r1 + j
      BY <2>4, <2>5
    <3>2. IsAnswer(asked, s, r + (n + j), as[n + j])'
      BY <2>2, <2>3, <3>1
    <3> QED  BY <2>4, <3>1, <3>2
  <2> QED  BY <2>2, <2>3, <2>6, <2>7
<1>14. ReadsInLine(asked)'
  <2>1. \A s : Questions(s)' = Questions(s)
    BY <1>3 DEF Questions
  <2> QED  BY <1>3, <1>7, <1>13, <2>1 DEF ReadsInLine
<1> QED  BY <1>10, <1>11, <1>12, <1>14 DEF ReadInv
-----------------------------------------------------------------------------
(* Every step                                                              *)

(* At first nothing is asked.                                              *)
LEMMA ReadInvInit == Init => ReadInv
<1> SUFFICES ASSUME Init PROVE ReadInv
  OBVIOUS
<1>1. /\ reads = <<>> /\ results = <<>> /\ segRead = [s \in Seg |-> <<>>]
      /\ rdCmd = [s \in Seg |-> None] /\ pipeline = [s \in Seg |-> None]
      /\ rdResp = [s \in Seg |-> None] /\ segResp = [s \in Seg |-> <<>>]
      /\ mem = [a \in 0 .. Size - 1 |-> <<0, a>>] /\ Len(reads) = 0 /\ Len(results) = 0
  BY DEF Init, ReadInit
<1>2. ReadTypes
  <2>1. mem \in [0 .. Size - 1 -> Byte]
    <3>1. \A a \in 0 .. Size - 1 : <<0, a>> \in Byte
      BY DEF Byte
    <3> QED  BY <1>1, <3>1
  <2> QED  BY <1>1, <2>1 DEF ReadTypes
<1>3. ReadsSeeWrites
  BY <1>1 DEF ReadsSeeWrites
<1>4. PICK asked : asked = [s \in Seg |-> [v \in Nat |-> 0]]
  OBVIOUS
<1>5. ReadsNumbered(asked)
  BY <1>1, <1>4 DEF ReadsNumbered
<1>6. ReadsInLine(asked)
  <2> SUFFICES ASSUME NEW s \in Seg
               PROVE  Len(Answers(s)) = 0 /\ Len(Questions(s)) = 0 /\ asked[s][0] = 0
    BY <1>1 DEF ReadsInLine
  <2>1. Answers(s) = <<>> \o <<>> \o <<>> /\ Questions(s) = <<>> \o <<>>
    BY <1>1 DEF Answers, Questions, IfAny
  <2>2. <<>> \o <<>> = <<>>
    BY ConcatEmptySeq
  <2> QED  BY <1>4, <2>1, <2>2
<1> QED  BY <1>2, <1>3, <1>5, <1>6 DEF ReadInv

(* What the RAM holds is of the type that it should be.                    *)
LEMMA StoredType ==
    ASSUME WriteTypes, mem \in [0 .. Size - 1 -> Byte]
    PROVE  Stored \in [0 .. Size - 1 -> Byte]
<1> SUFFICES ASSUME NEW a \in 0 .. Size - 1 PROVE Stored[a] \in Byte
  BY DEF Stored
<1>1. PICK s, lane : s = FirstSeg(a) /\ lane = a % SegBytes
  OBVIOUS
<1>2. CASE /\ s \in Taken /\ lane \in DOMAIN wrCmd[s].data
           /\ RamAddr(s, wrCmd[s].word, lane) = a
  <2>1. wrCmd[s] \in Piece
    BY <1>2 DEF Taken, WriteTypes
  <2>2. PICK lanes \in SUBSET Lane : wrCmd[s].data \in [lanes -> Nat \X Int]
    BY <2>1 DEF Piece
  <2>3. wrCmd[s].data[lane] \in Byte
    BY <1>2, <2>2 DEF Byte
  <2> QED  BY <1>1, <1>2, <2>3 DEF Stored
<1>3. CASE ~(/\ s \in Taken /\ lane \in DOMAIN wrCmd[s].data
             /\ RamAddr(s, wrCmd[s].word, lane) = a)
  <2>1. Stored[a] = mem[a]
    BY <1>1, <1>3 DEF Stored
  <2> QED  BY <2>1
<1> QED  BY <1>2, <1>3

(* A clock edge: the RAM reads before or after it writes.                  *)
LEMMA ReadClockStep ==
    ASSUME ReadInv, Grows, NoAnswerOverrun, WritesLand, WritesLand', ClockEdge
    PROVE  ReadInv'
<1>1. PICK pw, pm, pr, pa, pq : Edge(pw, pm, pr, pa, pq)
  BY DEF ClockEdge
<1>2. PICK m \in {mem, Stored} : ReadEdge(pr, pa, pq, m)
  BY <1>1 DEF Edge
<1>3. mem' = Stored /\ writes' = writes /\ written' = written
  BY <1>1 DEF Edge, WriteEdge, RamWriteEdge
<1>4. mem \in [0 .. Size - 1 -> Byte] /\ Stored \in [0 .. Size - 1 -> Byte]
  BY StoredType DEF ReadInv, ReadTypes, Grows
<1>5. \A a \in 0 .. Size - 1 : CurrentAt(a, m[a], written)'
  <2>1. CASE m = mem
    <3>1. \A a \in 0 .. Size - 1 : CurrentAt(a, mem[a], written)
      BY DEF WritesLand
    <3>2. \A a, x : CurrentAt(a, x, written) => CurrentAt(a, x, written)'
      BY <1>3 DEF CurrentAt, Covers
    <3> QED  BY <2>1, <3>1, <3>2
  <2>2. CASE m = Stored
    <3>1. m = mem'
      BY <1>3, <2>2
    <3> QED  BY <3>1 DEF WritesLand, CurrentAt
  <2> QED  BY <2>1, <2>2
<1>6. m \in [0 .. Size - 1 -> Byte] /\ mem' \in [0 .. Size - 1 -> Byte]
  BY <1>3, <1>4
<1> QED  BY <1>2, <1>3, <1>5, <1>6, ReadEdgeStep

(* Reset comes when nothing is asked and nothing is to be answered.        *)
LEMMA ReadResetStep ==
    ASSUME ReadInv, Grows, ResetEdge
    PROVE  ReadInv'
<1>1. /\ ReadTypes /\ Len(results) = Len(reads)
      /\ UNCHANGED <<reads, results, segRead, pipeline, segResp, mem>>
      /\ rdCmd' = [s \in Seg |-> None] /\ rdResp' = [s \in Seg |-> None]
  BY DEF ReadInv, ResetEdge, ReadIdle, ReadReset
<1>2. PICK asked : ReadsNumbered(asked) /\ ReadsInLine(asked)
  BY DEF ReadInv
<1>3. ASSUME NEW s \in Seg PROVE rdCmd[s] = None /\ rdResp[s] = None
  <2>1. PICK r, a, q : /\ r = asked[s][Len(results)]
                       /\ a = Len(Answers(s)) /\ q = Len(Questions(s))
    OBVIOUS
  <2>2. r + a + q = r
    BY <1>1, <1>2, <2>1 DEF ReadsInLine
  <2>3. PICK x, y, z, u, v :
            /\ x = Len(IfAny(rdCmd[s])) /\ y = Len(segRead[s])
            /\ z = Len(segResp[s]) /\ u = Len(IfAny(rdResp[s])) /\ v = Len(IfAny(pipeline[s]))
    OBVIOUS
  <2>4. /\ x \in Nat /\ y \in Nat /\ z \in Nat /\ u \in Nat /\ v \in Nat
        /\ x = (IF rdCmd[s] = None THEN 0 ELSE 1) /\ u = (IF rdResp[s] = None THEN 0 ELSE 1)
    <3>1. /\ rdCmd[s] \in Nat \union {None} /\ rdResp[s] \in Word \union {None}
          /\ pipeline[s] \in Word \union {None}
          /\ segRead[s] \in Seq(Nat) /\ segResp[s] \in Seq(Word)
      BY <1>1 DEF ReadTypes
    <3>2. y \in Nat /\ z \in Nat
      BY <2>3, <3>1, LenProperties
    <3>3. /\ x = (IF rdCmd[s] = None THEN 0 ELSE 1) /\ u = (IF rdResp[s] = None THEN 0 ELSE 1)
          /\ v = (IF pipeline[s] = None THEN 0 ELSE 1)
      BY <2>3, <3>1, IfAnySeq
    <3> QED  BY <3>2, <3>3
  <2>5. q = x + y /\ a = z + u + v
    BY <1>1, <2>1, <2>3, QueuesType
  <2>6. r \in Nat
    <3>1. Len(results) \in Nat
      BY <1>1 DEF ReadTypes
    <3> QED  BY <1>2, <2>1, <3>1 DEF ReadsNumbered
  <2>7. x = 0 /\ u = 0
    BY <2>2, <2>4, <2>5, <2>6
  <2> QED  BY <2>4, <2>7
<1>4. rdCmd' = rdCmd /\ rdResp' = rdResp
  BY <1>1, <1>3 DEF ReadTypes
<1>5. mem' \in [0 .. Size - 1 -> Byte]
  BY <1>1 DEF ReadTypes
<1> QED  BY <1>1, <1>4, <1>5, ReadsStay

(* Calls of write are added and return, none is changed.                   *)
LEMMA StepGrows ==
    ASSUME WriteTypes, WriteTypes', [Next]_vars
    PROVE  Grows
<1>1. Len(writes) \in Nat /\ written \in Nat /\ writes \in Seq(Call)
  BY DEF WriteTypes
<1>2. CASE Write
  <2>1. PICK addr, len : writes' = Append(writes, [addr |-> addr, len |-> len])
                         /\ written' = written
    BY <1>2 DEF Write, CallWrite
  <2>2. PICK x : x = [addr |-> addr, len |-> len]
    OBVIOUS
  <2>3. Len(writes') = Len(writes) + 1 /\ \A v \in 1 .. Len(writes) : writes'[v] = writes[v]
    BY <1>1, <2>1, <2>2
  <2> QED  BY <1>1, <2>1, <2>3 DEF Grows
<1>3. CASE ReturnWrite
  <2>1. writes' = writes /\ written' = written + 1
    BY <1>3 DEF ReturnWrite
  <2> QED  BY <1>1, <2>1 DEF Grows
<1>4. CASE UNCHANGED <<writes, written>>
  BY <1>1, <1>4 DEF Grows
<1>5. Write \/ ReturnWrite \/ UNCHANGED <<writes, written>>
  BY DEF Next, Read, Return, ClockEdge, Edge, WriteEdge, ResetEdge, WriteReset, vars, writeVars
<1> QED  BY <1>2, <1>3, <1>4, <1>5

(* Every step keeps the reads in line.                                     *)
LEMMA ReadInvKept ==
        /\ ReadInv /\ WriteTypes /\ WriteTypes' /\ NoAnswerOverrun
        /\ WritesLand /\ WritesLand' /\ [Next]_vars
    => ReadInv'
<1> SUFFICES ASSUME ReadInv, WriteTypes, WriteTypes', NoAnswerOverrun,
                    WritesLand, WritesLand', [Next]_vars
             PROVE  ReadInv'
  OBVIOUS
<1>1. Grows
  BY StepGrows
<1>2. mem \in [0 .. Size - 1 -> Byte]
  BY DEF ReadInv, ReadTypes
<1>3. CASE Write
  BY <1>1, <1>2, <1>3, ReadsStay DEF Write, readVars
<1>4. CASE Read
  <2>1. PICK t \in Transfers : CallRead(t[1], t[2], written)
    BY <1>4 DEF Read
  <2>2. t[1] \in Nat /\ t[2] \in Nat /\ t[1] + t[2] <= Size
    BY BusAssumption DEF Size, ByteLanes
  <2> QED  BY <1>1, <1>4, <2>1, <2>2, CallReadStep DEF Read, writeVars
<1>5. CASE Return
  <2>1. CASE ReturnWrite /\ UNCHANGED <<mem, afterReset, readVars>>
    BY <1>1, <1>2, <2>1, ReadsStay DEF readVars
  <2>2. CASE ReturnRead /\ UNCHANGED <<mem, afterReset, writeVars>>
    BY <1>1, <2>2, ReturnReadStep DEF writeVars
  <2> QED  BY <1>5, <2>1, <2>2 DEF Return
<1>6. CASE ClockEdge
  BY <1>1, <1>6, ReadClockStep
<1>7. CASE ResetEdge
  BY <1>1, <1>7, ReadResetStep
<1>8. CASE UNCHANGED vars
  BY <1>1, <1>2, <1>8, ReadsStay DEF vars, readVars
<1> QED  BY <1>3, <1>4, <1>5, <1>6, <1>7, <1>8 DEF Next

(* A read returns what it was asked for, and no byte of it is older than   *)
(* the writes that had returned when it was called (PsdpRamMasterRead,     *)
(* PsdpRamRead of dma_psdp_ram.py).                                        *)
THEOREM ReadsAreCurrent == Spec => []ReadsSeeWrites
<1>1. WriteInv => WriteTypes
  BY DEF WriteInv
<1>2. ReadInv => ReadsSeeWrites
  BY DEF ReadInv
<1> QED
  BY <1>1, <1>2, ReadInvInit, ReadInvKept, WriteInvariant, WritesArrive, AnswersSafe, PTL DEF Spec
=============================================================================
