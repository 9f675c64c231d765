------------------------------ MODULE PsdpBus -------------------------------
(***************************************************************************)
(* What the write and the read half of the simulated DMA RAM have in       *)
(* common (dma_psdp_ram.py).  A RAM word is divided into segments          *)
(* with an address and a handshake of their own; a transfer of bytes is    *)
(* cut into pieces, one for each segment word that it touches, in          *)
(* ascending order and round robin over the segments.                      *)
(***************************************************************************)
EXTENDS Integers, Sequences, FiniteSets

CONSTANTS
    SegCount,       \* seg_count
    SegBytes,       \* seg_byte_lanes
    Words,          \* words of each segment
    Transfers,      \* <<address, length>> of the calls of read and write
    ResetBusy,      \* may reset come while writes are under way?
    None            \* Python's None, and a bus with valid low

ASSUME BusAssumption ==
    /\ SegCount \in Nat \ {0} /\ SegBytes \in Nat \ {0} /\ Words \in Nat \ {0}
    /\ ResetBusy \in BOOLEAN
    /\ \A t \in Transfers : t[1] \in 0 .. SegCount * SegBytes * Words - 1 /\ t[2] \in Nat
                            /\ t[1] + t[2] <= SegCount * SegBytes * Words

VARIABLES
    mem,            \* Memory.mem
    afterReset      \* the last clock edge saw reset: all valid, ready and done are low

Seg == 0 .. SegCount - 1
Lane == 0 .. SegBytes - 1
ByteLanes == SegCount * SegBytes
Size == ByteLanes * Words

FirstSeg(addr) == (addr \div SegBytes) % SegCount
SegmentsOf(addr, len) == (len + (addr % SegBytes) + (SegBytes - 1)) \div SegBytes

(* Piece k: its segment, its word there, and the lanes it uses *)
PieceSeg(addr, k) == (FirstSeg(addr) + k) % SegCount
WrongPieceWord(addr, k) == addr \div ByteLanes
PieceWord(addr, k) == (addr + k * SegBytes) \div ByteLanes

FirstLane(addr, k) == IF k = 0 THEN addr % SegBytes ELSE 0
LastLane(addr, len, k) ==
    IF k = SegmentsOf(addr, len) - 1 THEN (addr + len - 1) % SegBytes ELSE SegBytes - 1
WrongPieceLanes(addr, len, k) == FirstLane(addr, k) .. SegBytes - 1
PieceLanes(addr, len, k) == FirstLane(addr, k) .. LastLane(addr, len, k)

(* The byte of the transfer that piece k has in lane j *)
ByteOfPiece(addr, k, j) == (k * SegBytes + j) - (addr % SegBytes)

(* The pieces that the loop over the segments gives to segment s: the      *)
(* first that falls to it, and every SegCount-th after that                *)
FirstPiece(addr, s) == (s - FirstSeg(addr)) % SegCount
PieceCount(addr, len, s) ==
    (SegmentsOf(addr, len) - FirstPiece(addr, s) + SegCount - 1) \div SegCount
PiecesIn(addr, len, s) ==
    [i \in 1 .. PieceCount(addr, len, s) |-> FirstPiece(addr, s) + (i - 1) * SegCount]

(* The address a segment word has in the RAM *)
RamAddr(s, word, lane) == (word * SegCount + s) * SegBytes + lane
=============================================================================
