------------------------------ MODULE PsdpRead ------------------------------
(***************************************************************************)
(* Reading from the simulated DMA RAM: PsdpRamMasterRead and PsdpRamRead   *)
(* of tb/rx_core/dma_psdp_ram.py.  The RAM has room for two answers per    *)
(* segment: one on the bus and one behind it.                              *)
(***************************************************************************)
EXTENDS PsdpBus

CONSTANTS
    MaxReads,       \* bound: calls of read
    OnePause        \* is the reader PsdpRamMasterRead?  It has one pause for what
                    \* it asks and for what it takes; hardware may have two.

(* What a segment answers *)
Word == [Lane -> Nat \X Int]

ASSUME ReadAssumption == OnePause \in BOOLEAN /\ None \notin Nat \union Word

VARIABLES
    reads,          \* calls of read so far
    results,        \* what those that have returned returned, in order
    segRead,        \* seg_read_queue
    rdCmd,          \* the word each segment asks for
    rdReady,        \* the RAM's cmd_ready
    pipeline,       \* the RAM's pipeline
    rdResp,         \* the RAM's answers on the bus
    respReady,      \* the master's resp_ready
    segResp         \* seg_read_resp_queue

readVars == <<reads, results, segRead, rdCmd, rdReady, pipeline, rdResp, respReady, segResp>>

ReadInit ==
    /\ reads = <<>> /\ results = <<>>
    /\ segRead = [s \in Seg |-> <<>>]
    /\ rdCmd = [s \in Seg |-> None]
    /\ rdReady = [s \in Seg |-> FALSE]
    /\ pipeline = [s \in Seg |-> None]
    /\ rdResp = [s \in Seg |-> None]
    /\ respReady = FALSE
    /\ segResp = [s \in Seg |-> <<>>]

-----------------------------------------------------------------------------
(* read and _process_read; since is what the caller knows to be written *)
CallRead(addr, len, since) ==
    LET pieces(s) == PiecesIn(addr, len, s) IN
    /\ Len(reads) < MaxReads
    /\ reads' = Append(reads, [addr |-> addr, len |-> len, since |-> since])
    /\ segRead' = [s \in Seg |-> segRead[s] \o
            [i \in DOMAIN pieces(s) |-> PieceWord(addr, pieces(s)[i])]]
    /\ UNCHANGED <<results, rdCmd, rdReady, pipeline, rdResp, respReady, segResp>>

(* _process_read_resp: the answers of all pieces of the oldest call, put   *)
(* together piece after piece, of each the lanes that it uses              *)
NeedsAnswers(c, s) == Len(PiecesIn(c.addr, c.len, s))

Places(c) ==
    UNION {{k} \X PieceLanes(c.addr, c.len, k) : k \in 0 .. SegmentsOf(c.addr, c.len) - 1}
PlacesBefore(places, p) == {q \in places : q[1] < p[1] \/ (q[1] = p[1] /\ q[2] < p[2])}

Assembled(c) ==
    LET places == Places(c)
        byte(p) == segResp[PieceSeg(c.addr, p[1])][1 + p[1] \div SegCount][p[2]]
    IN  [i \in 1 .. Cardinality(places) |->
            byte(CHOOSE p \in places : Cardinality(PlacesBefore(places, p)) = i - 1)]

ReturnRead ==
    LET c == reads[Len(results) + 1] IN
    /\ Len(results) < Len(reads)
    /\ \A s \in Seg : Len(segResp[s]) >= NeedsAnswers(c, s)
    /\ results' = Append(results, Assembled(c))
    /\ segResp' = [s \in Seg |->
            SubSeq(segResp[s], NeedsAnswers(c, s) + 1, Len(segResp[s]))]
    /\ UNCHANGED <<reads, segRead, rdCmd, rdReady, pipeline, rdResp, respReady>>

ReadIdle == Len(results) = Len(reads)

-----------------------------------------------------------------------------
(* One clock edge of the master.  It may hold back what it asks and what   *)
(* it takes.                                                               *)
AskMoves(s) == rdReady[s] \/ rdCmd[s] = None
Asks(s, pause) == AskMoves(s) /\ segRead[s] # <<>> /\ ~pause

MasterReadEdge(pause, pauseAnswers) ==
    /\ rdCmd' = [s \in Seg |->
            IF Asks(s, pause) THEN Head(segRead[s])
            ELSE IF AskMoves(s) THEN None ELSE rdCmd[s]]
    /\ segRead' = [s \in Seg |-> IF Asks(s, pause) THEN Tail(segRead[s]) ELSE segRead[s]]
    /\ segResp' = [s \in Seg |->
            IF respReady /\ rdResp[s] # None THEN Append(segResp[s], rdResp[s]) ELSE segResp[s]]
    /\ respReady' = ~pauseAnswers

(* The same edge at the RAM, which reads from memory m: the answer behind  *)
(* moves up if the bus is free or being read, then a question is taken.    *)
BusFree(s) == respReady \/ rdResp[s] = None
Asked(s) == rdReady[s] /\ rdCmd[s] # None
WordOf(m, s) == [lane \in Lane |-> m[RamAddr(s, rdCmd[s], lane) % Size]]

WrongHasRoom(resp, behind) == TRUE
HasRoom(resp, behind) == resp = None \/ behind = None

RamReadEdge(pause, m) ==
    /\ rdResp' = [s \in Seg |-> IF BusFree(s) THEN pipeline[s] ELSE rdResp[s]]
    /\ pipeline' = [s \in Seg |->
            IF Asked(s) THEN WordOf(m, s) ELSE IF BusFree(s) THEN None ELSE pipeline[s]]
    /\ rdReady' = [s \in Seg |-> ~pause /\ HasRoom(rdResp'[s], pipeline'[s])]

ReadEdge(pause, pauseAnswers, ramPause, m) ==
    /\ OnePause => pause = pauseAnswers
    /\ MasterReadEdge(pause, pauseAnswers)
    /\ RamReadEdge(ramPause, m)
    /\ UNCHANGED <<reads, results>>

(* An edge with reset high: questions on the bus and answers on the bus    *)
(* are forgotten, but not the answer behind.                               *)
ReadReset ==
    /\ rdCmd' = [s \in Seg |-> None]
    /\ rdReady' = [s \in Seg |-> FALSE]
    /\ rdResp' = [s \in Seg |-> None]
    /\ respReady' = FALSE
    /\ UNCHANGED <<reads, results, segRead, pipeline, segResp>>

-----------------------------------------------------------------------------
(* The RAM takes a question only when the answer has somewhere to go: it   *)
(* promises to on the edge before, when it does not know yet whether the   *)
(* master takes the answer on the bus (cmd_ready, dma_psdp_ram.py:961).    *)
NoAnswerOverrun == \A s \in Seg : Asked(s) => BusFree(s) \/ pipeline[s] = None
=============================================================================
