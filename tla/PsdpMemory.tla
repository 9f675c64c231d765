----------------------------- MODULE PsdpMemory -----------------------------
(***************************************************************************)
(* The simulated DMA RAM connected to both of its masters                  *)
(* (tb/rxtx_core/dma_psdp_ram.py: PsdpRam, WritePsdpRamMaster,             *)
(* ReadPsdpRamMaster).  In test_rxtx_core.py the masters are connected to  *)
(* ports of the design under test and the design to the RAM; the two ends  *)
(* of the protocol are the same.  All coroutines run on the same clock     *)
(* edges; within an edge the RAM may read before or after it writes.       *)
(***************************************************************************)
EXTENDS PsdpWrite, PsdpRead

CONSTANT MaxCalls       \* bound: calls of write and read together

ASSUME CallsAssumption == MaxCalls \in Nat

vars == <<mem, afterReset, writeVars, readVars>>

Init ==
    /\ mem = [a \in 0 .. Size - 1 |-> <<0, a>>]
    /\ afterReset = FALSE
    /\ WriteInit
    /\ ReadInit

Write ==
    /\ Len(writes) + Len(reads) < MaxCalls
    /\ \E t \in Transfers : CallWrite(t[1], t[2])
    /\ UNCHANGED <<mem, afterReset, readVars>>

Read ==
    /\ Len(writes) + Len(reads) < MaxCalls
    /\ \E t \in Transfers : CallRead(t[1], t[2], written)
    /\ UNCHANGED <<mem, afterReset, writeVars>>

Return ==
    \/ ReturnWrite /\ UNCHANGED <<mem, afterReset, readVars>>
    \/ ReturnRead /\ UNCHANGED <<mem, afterReset, writeVars>>

(* A clock edge; the pause generators may hold back each side *)
Edge(pauseWriter, pauseRamWrite, pauseReader, pauseAnswers, pauseRamRead) ==
    /\ WriteEdge(pauseWriter, pauseRamWrite)
    /\ \E m \in {mem, Stored} : ReadEdge(pauseReader, pauseAnswers, pauseRamRead, m)
    /\ afterReset' = FALSE

(* A pause of a master that has nothing to offer makes no difference and   *)
(* is not chosen.                                                          *)
MasterPauses(offers) == IF offers THEN BOOLEAN ELSE {FALSE}

ClockEdge ==
    \E pw \in MasterPauses(\E s \in Seg : Offers(s, FALSE)), pm \in BOOLEAN,
      pr \in MasterPauses(OnePause \/ \E s \in Seg : Asks(s, FALSE)), pa, pq \in BOOLEAN :
        Edge(pw, pm, pr, pa, pq)

Idle == WriteIdle /\ ReadIdle

(* Reset while reads are under way loses answers on the bus and leaves     *)
(* others in the pipeline, so that is left out; writes it may interrupt.   *)
ResetEdge ==
    /\ ReadIdle /\ (ResetBusy \/ WriteIdle)
    /\ WriteReset
    /\ ReadReset
    /\ afterReset' = TRUE
    /\ UNCHANGED mem

Next == Write \/ Read \/ Return \/ ClockEdge \/ ResetEdge

Spec == Init /\ [][Next]_vars

(* The clock runs, there is always again an edge at which no side pauses   *)
(* (the repository sets no pause generator on these classes), and the      *)
(* coroutines that wait for answers go on when they have them.             *)
Fairness == WF_vars(Edge(FALSE, FALSE, FALSE, FALSE, FALSE)) /\ WF_vars(Return)

FairSpec == Spec /\ Fairness

-----------------------------------------------------------------------------
(* A read returns as many bytes as it asked for, and each is one that the  *)
(* RAM may have held since the call: never older than a write that had     *)
(* returned before the read was called, never a byte of another address.   *)
ReadsSeeWrites ==
    \A j \in DOMAIN results :
        /\ Len(results[j]) = reads[j].len
        /\ \A i \in 1 .. reads[j].len :
            CurrentAt(reads[j].addr + i - 1, results[j][i], reads[j].since)

(* Every call returns, whatever the pauses, unless reset comes while one   *)
(* is under way and its done pulse is lost.                                *)
CallsReturn == <>(afterReset /\ ~Idle) \/ (~Idle ~> Idle)
=============================================================================
