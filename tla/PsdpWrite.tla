----------------------------- MODULE PsdpWrite ------------------------------
(***************************************************************************)
(* Writing to the simulated DMA RAM: PsdpRamMasterWrite and PsdpRamWrite   *)
(* of tb/tx_core/dma_psdp_ram.py.  A call of write is cut into pieces at   *)
(* once; on each clock edge the master offers the next piece of every      *)
(* segment, the RAM takes what it has promised to take, and reports it     *)
(* done one edge later.  Both sample the bus as it was before the edge.    *)
(*                                                                         *)
(* Byte i of the w-th call of write is the pair <<w, i>>; bytes the RAM    *)
(* starts with are <<0, address>>.                                         *)
(***************************************************************************)
EXTENDS PsdpBus

CONSTANT MaxWrites      \* bound: calls of write

VARIABLES
    writes,         \* calls of write so far
    written,        \* how many of them have returned; they return in order
    segWrite,       \* seg_write_queue
    wrCmd,          \* the piece each segment offers, also after a reset
    wrReady,        \* the RAM's cmd_ready
    wrDone,         \* segments with wr_done high
    wrTokens        \* seg_write_resp_queue: how many

(* What the RAM is offered: a word, and bytes for some of its lanes *)
Piece == [word : Nat, data : UNION {[lanes -> Nat \X Int] : lanes \in SUBSET Lane}]

ASSUME PieceAssumption == None \notin Piece

writeVars == <<writes, written, segWrite, wrCmd, wrReady, wrDone, wrTokens>>

WriteInit ==
    /\ writes = <<>> /\ written = 0
    /\ segWrite = [s \in Seg |-> <<>>]
    /\ wrCmd = [s \in Seg |-> None]
    /\ wrReady = FALSE
    /\ wrDone = {}
    /\ wrTokens = [s \in Seg |-> 0]

-----------------------------------------------------------------------------
(* write and _process_write: queue every piece, with the lanes that are    *)
(* enabled and the bytes for them                                          *)
WritePiece(w, addr, len, k) ==
    [word |-> PieceWord(addr, k),
     data |-> [j \in PieceLanes(addr, len, k) |-> <<w, ByteOfPiece(addr, k, j)>>]]

CallWrite(addr, len) ==
    LET w == Len(writes) + 1
        pieces(s) == PiecesIn(addr, len, s) IN
    /\ Len(writes) < MaxWrites
    /\ writes' = Append(writes, [addr |-> addr, len |-> len])
    /\ segWrite' = [s \in Seg |-> segWrite[s] \o
            [i \in DOMAIN pieces(s) |-> WritePiece(w, addr, len, pieces(s)[i])]]
    /\ UNCHANGED <<written, wrCmd, wrReady, wrDone, wrTokens>>

(* _process_write_resp: one token of its segment for every piece of the    *)
(* oldest call, then the call returns                                      *)
NeedsTokens(c, s) == Len(PiecesIn(c.addr, c.len, s))
Complete(c) == \A s \in Seg : wrTokens[s] >= NeedsTokens(c, s)

ReturnWrite ==
    LET c == writes[written + 1] IN
    /\ written < Len(writes)
    /\ Complete(c)
    /\ wrTokens' = [s \in Seg |-> wrTokens[s] - NeedsTokens(c, s)]
    /\ written' = written + 1
    /\ UNCHANGED <<writes, segWrite, wrCmd, wrReady, wrDone>>

WriteIdle == written = Len(writes)

-----------------------------------------------------------------------------
(* One clock edge of the master: where the RAM was ready or nothing was    *)
(* offered, the next piece is offered unless the master pauses.            *)
WrongMoves(s) == wrReady
Moves(s) == (wrReady /\ ~afterReset) \/ wrCmd[s] = None
Offers(s, pause) == Moves(s) /\ segWrite[s] # <<>> /\ ~pause

MasterWriteEdge(pause) ==
    /\ wrCmd' = [s \in Seg |->
            IF Offers(s, pause) THEN Head(segWrite[s])
            ELSE IF Moves(s) THEN None ELSE wrCmd[s]]
    /\ segWrite' = [s \in Seg |->
            IF Offers(s, pause) THEN Tail(segWrite[s]) ELSE segWrite[s]]
    /\ wrTokens' = [s \in Seg |-> wrTokens[s] + (IF s \in wrDone THEN 1 ELSE 0)]

(* The same edge at the RAM *)
Taken == {s \in Seg : wrReady /\ ~afterReset /\ wrCmd[s] # None}
Stored ==
    [a \in 0 .. Size - 1 |->
        LET s == FirstSeg(a)
            lane == a % SegBytes IN
        IF /\ s \in Taken
           /\ lane \in DOMAIN wrCmd[s].data
           /\ RamAddr(s, wrCmd[s].word, lane) = a
        THEN wrCmd[s].data[lane] ELSE mem[a]]

RamWriteEdge(pause) ==
    /\ mem' = Stored
    /\ wrDone' = Taken
    /\ wrReady' = ~pause

WriteEdge(masterPause, ramPause) ==
    /\ MasterWriteEdge(masterPause)
    /\ RamWriteEdge(ramPause)
    /\ UNCHANGED <<writes, written>>

(* An edge with reset high: the signals go low.  Neither side forgets what *)
(* it has offered or promised, only the done that was on its way is lost.  *)
WriteReset ==
    /\ wrDone' = {}
    /\ UNCHANGED <<writes, written, segWrite, wrCmd, wrReady, wrTokens>>

-----------------------------------------------------------------------------
Covers(w, a) == w > 0 => writes[w].addr <= a /\ a < writes[w].addr + writes[w].len

(* What byte a may hold: the start value or the byte that a call of write  *)
(* has for it, but none that a later call had replaced when it returned.   *)
CurrentAt(a, value, returned) ==
    LET w == value[1] IN
    /\ w \in 0 .. Len(writes)
    /\ Covers(w, a)
    /\ value[2] = IF w = 0 THEN a ELSE a - writes[w].addr
    /\ ~\E later \in w + 1 .. returned : Covers(later, a)

(* Every byte goes where it belongs and nowhere else, calls that overlap   *)
(* take effect in the order in which they were made although segments run  *)
(* at their own pace, and a call that has returned is in the RAM           *)
(* (_process_write, _process_write_resp, PsdpRamWrite._run).               *)
WritesLand == \A a \in 0 .. Size - 1 : CurrentAt(a, mem[a], written)
=============================================================================
