---------------------------- MODULE DequeueTable ----------------------------
(***************************************************************************)
(* The descriptor half of rtl/tx_queue_manager_change.v: producer and      *)
(* consumer pointers of the transmit queues, and the operation table that  *)
(* lets several dequeues be under way.  A dequeue takes wqe descriptors,   *)
(* is recorded in the next slot of the table, and moves the consumer       *)
(* pointer in host-visible state only after desc_fetch has committed it    *)
(* and every older operation.                                              *)
(*                                                                         *)
(* Of desc_fetch the module keeps the descriptor table: one entry per      *)
(* descriptor, so that a dequeue of several is committed several times.    *)
(*                                                                         *)
(* As in DoorbellRing an operation carries what it read from the queue RAM *)
(* when the pipeline accepted it, and writes when it is performed.         *)
(***************************************************************************)
EXTENDS Naturals, Sequences, FiniteSets

CONSTANTS
    Queue,          \* the transmit queues
    Wqe,            \* how many descriptors a doorbell may cover
    RingSize,       \* descriptors in a queue's host ring
    PtrMod,         \* 2^QUEUE_PTR_WIDTH
    OpTableSize,    \* OP_TABLE_SIZE
    DescTableSize,  \* DESC_TABLE_SIZE of desc_fetch
    Pipeline,       \* PIPELINE
    None            \* the response register is empty

ASSUME WqeAssumption == Wqe \subseteq 1 .. RingSize
ASSUME SizeAssumption ==
    /\ RingSize \in Nat \ {0}
    /\ PtrMod \in Nat /\ RingSize < PtrMod
    /\ OpTableSize \in Nat \ {0}
    /\ DescTableSize \in 1 .. OpTableSize
    /\ Pipeline \in Nat \ {0}
ASSUME NoneAssumption ==
    /\ None \notin [queue : Queue, ptr : Nat, slot : Nat, wqe : Nat,
                    status : {"ok", "empty", "error"}]
    /\ None \notin [queue : Queue, ptr : Nat, wqe : Nat, granted : BOOLEAN]

VARIABLES
    prodPtr, consPtr,       \* queue RAM, bits 15:0 and 31:16
    enabled,                \* queue RAM, bit 55
    opIndex,                \* queue RAM, bits 63:56: slot of the latest dequeue
    opActive, opCommit,     \* op_table_active, op_table_commit
    opQueue, opPtr,         \* op_table_queue, op_table_queue_ptr
    startPtr, finishPtr,    \* op_table_start_ptr_reg, op_table_finish_ptr_reg
    pipe,                   \* operations accepted and not performed, oldest first
    resp,                   \* m_axis_dequeue_resp
    fetch,                  \* entries of desc_fetch's table not yet read, in order
    rung                    \* per queue, descriptors whose doorbell is still to
                            \* be turned into a dequeue request

queueVars == <<prodPtr, consPtr, enabled, opIndex>>
tableVars == <<opActive, opCommit, opQueue, opPtr, startPtr, finishPtr>>
vars == <<queueVars, tableVars, pipe, resp, fetch, rung>>

-----------------------------------------------------------------------------
OpSlot == 0 .. OpTableSize - 1
(* Operators named Wrong... are deliberate errors: each is what one edit of *)
(* the code would make of the definition after it, kept to show that the   *)
(* properties notice.                                                      *)
NextSlot(s) == (s + 1) % OpTableSize
Plus(p, n) == (p + n) % PtrMod
Minus(p, r) == (p + PtrMod - r) % PtrMod

WriteKind == {"prod", "cons", "enable"}

WrongHazard(q) == FALSE
Hazard(q) == \E i \in DOMAIN pipe : pipe[i].queue = q
InPipe(kinds) == \E i \in DOMAIN pipe : pipe[i].kind \in kinds

Read(kind, q, data) ==
    [kind |-> kind, queue |-> q, prod |-> prodPtr[q], cons |-> consPtr[q],
     enabled |-> enabled[q], index |-> opIndex[q], data |-> data]

(* queue_active: the slot the queue used last still belongs to it.         *)
Active(op) == opActive[op.index] /\ opQueue[op.index] = op.queue
ActiveConsPtr(op) == IF Active(op) THEN opPtr[op.index] ELSE op.cons

Init ==
    /\ prodPtr = [q \in Queue |-> 0] /\ consPtr = [q \in Queue |-> 0]
    /\ enabled = [q \in Queue |-> FALSE]
    /\ opIndex = [q \in Queue |-> 0]
    /\ opActive = [s \in OpSlot |-> FALSE]
    /\ opCommit = [s \in OpSlot |-> FALSE]
    /\ opQueue \in [OpSlot -> Queue]
    /\ opPtr = [s \in OpSlot |-> 0]
    /\ startPtr = 0 /\ finishPtr = 0
    /\ pipe = <<>> /\ resp = None
    /\ fetch = <<>> /\ rung = [q \in Queue |-> 0]

-----------------------------------------------------------------------------
(* The host's register writes, one at a time.                              *)
AcceptWrite(kind, q, data) ==
    /\ Len(pipe) < Pipeline
    /\ ~InPipe(WriteKind)
    /\ ~Hazard(q)
    /\ pipe' = Append(pipe, Read(kind, q, data))
    /\ UNCHANGED <<queueVars, tableVars, resp, fetch, rung>>

(* mqnic_start_xmit: publish n descriptors of an open queue while the ring *)
(* has room.  The doorbell for them follows the pointer.                   *)
HostPublish(q, n) ==
    /\ enabled[q]
    /\ Minus(prodPtr[q], consPtr[q]) + n <= RingSize
    /\ AcceptWrite("prod", q, Plus(prodPtr[q], n))

(* mqnic_disable_tx_ring, at any time.                                     *)
HostDisable(q) ==
    /\ enabled[q]
    /\ AcceptWrite("enable", q, 0)

(* mqnic_stop_port waits 20 ms between disabling the rings and closing     *)
(* them, long enough for the hardware to be done with the queue; the next  *)
(* open rewinds the pointers and enables it again.                         *)
Settled(q) ==
    /\ ~enabled[q] /\ rung[q] = 0
    /\ \A s \in OpSlot : opActive[s] => opQueue[s] # q
HostRewindProd(q) == Settled(q) /\ prodPtr[q] # 0 /\ AcceptWrite("prod", q, 0)
HostRewindCons(q) == Settled(q) /\ consPtr[q] # 0 /\ AcceptWrite("cons", q, 0)
HostEnable(q) ==
    /\ Settled(q) /\ prodPtr[q] = 0 /\ consPtr[q] = 0
    /\ AcceptWrite("enable", q, 1)

(* Commit finalize: the oldest operation of the table, once committed,     *)
(* gives up its slot at once and its queue's consumer pointer is written   *)
(* at the end of the pipeline.  (That the code does not accept two in      *)
(* consecutive cycles has no effect on the state and is left out.)         *)
WrongFinishableSlot == opActive[finishPtr] /\ opCommit[startPtr]
Finishable == opActive[finishPtr] /\ opCommit[finishPtr]
AcceptCommit ==
    /\ Len(pipe) < Pipeline
    /\ Finishable
    /\ ~Hazard(opQueue[finishPtr])
    /\ pipe' = Append(pipe, Read("commit", opQueue[finishPtr], opPtr[finishPtr]))
    /\ opActive' = [opActive EXCEPT ![finishPtr] = FALSE]
    /\ finishPtr' = NextSlot(finishPtr)
    /\ UNCHANGED <<queueVars, opCommit, opQueue, opPtr, startPtr, resp, fetch, rung>>

(* Dequeue request, after host writes and commits.  desc_fetch passes one  *)
(* on while it counts fewer than DESC_TABLE_SIZE descriptors.  (It counts  *)
(* them a little longer than the model, until they are read completely.)   *)
Requested ==
    LET reqs == {i \in DOMAIN pipe : pipe[i].kind = "req"} IN
    Len(fetch) + (IF resp = None THEN 0 ELSE resp.wqe)
      + (IF reqs = {} THEN 0 ELSE pipe[CHOOSE i \in reqs : TRUE].data)
WrongRoom == TRUE
Room == Requested < DescTableSize
WrongSlotFree == TRUE
SlotFree == ~opActive[startPtr]
AcceptReq(q, n) ==
    /\ Len(pipe) < Pipeline
    /\ Room
    /\ ~(Finishable /\ ~Hazard(opQueue[finishPtr]))
    /\ SlotFree /\ resp = None /\ ~InPipe({"req"})
    /\ ~Hazard(q)
    /\ n <= rung[q]
    /\ rung' = [rung EXCEPT ![q] = @ - n]
    /\ pipe' = Append(pipe, Read("req", q, n))
    /\ UNCHANGED <<queueVars, tableVars, resp, fetch>>

-----------------------------------------------------------------------------
(* The last stage of the pipeline.  A dequeue that is granted is recorded  *)
(* in the slot at startPtr, and its queue remembers the slot.              *)
SlotToRemember == startPtr
PerformReq ==
    /\ pipe # <<>> /\ Head(pipe).kind = "req"
    /\ LET op == Head(pipe)
           ptr == ActiveConsPtr(op)
           status == IF ~op.enabled THEN "error"
                     ELSE IF op.prod = ptr THEN "empty" ELSE "ok"
       IN  /\ resp' = [queue |-> op.queue, ptr |-> ptr, slot |-> startPtr,
                       wqe |-> op.data, status |-> status]
           /\ IF status = "ok"
                THEN /\ opIndex' = [opIndex EXCEPT ![op.queue] = SlotToRemember]
                     /\ opActive' = [opActive EXCEPT ![startPtr] = TRUE]
                     /\ opCommit' = [opCommit EXCEPT ![startPtr] = FALSE]
                     /\ opQueue' = [opQueue EXCEPT ![startPtr] = op.queue]
                     /\ opPtr' = [opPtr EXCEPT ![startPtr] = Plus(ptr, op.data)]
                     /\ startPtr' = NextSlot(startPtr)
                ELSE UNCHANGED <<opIndex, opActive, opCommit, opQueue, opPtr, startPtr>>
    /\ pipe' = Tail(pipe)
    /\ UNCHANGED <<prodPtr, consPtr, enabled, finishPtr, fetch, rung>>

PerformCommit ==
    /\ pipe # <<>> /\ Head(pipe).kind = "commit"
    /\ consPtr' = [consPtr EXCEPT ![Head(pipe).queue] = Head(pipe).data]
    /\ pipe' = Tail(pipe)
    /\ UNCHANGED <<prodPtr, enabled, opIndex, tableVars, resp, fetch, rung>>

(* The producer pointer may always be written, the consumer pointer only   *)
(* while the queue is disabled.                                            *)
PerformProd ==
    /\ pipe # <<>> /\ Head(pipe).kind = "prod"
    /\ LET op == Head(pipe) IN
         /\ prodPtr' = [prodPtr EXCEPT ![op.queue] = op.data]
         /\ rung' = [rung EXCEPT ![op.queue] =
                       IF op.enabled THEN @ + Minus(op.data, op.prod) ELSE @]
    /\ pipe' = Tail(pipe)
    /\ UNCHANGED <<consPtr, enabled, opIndex, tableVars, resp, fetch>>

PerformCons ==
    /\ pipe # <<>> /\ Head(pipe).kind = "cons"
    /\ consPtr' = IF Head(pipe).enabled THEN consPtr
                  ELSE [consPtr EXCEPT ![Head(pipe).queue] = Head(pipe).data]
    /\ pipe' = Tail(pipe)
    /\ UNCHANGED <<prodPtr, enabled, opIndex, tableVars, resp, fetch, rung>>

PerformEnable ==
    /\ pipe # <<>> /\ Head(pipe).kind = "enable"
    /\ enabled' = [enabled EXCEPT ![Head(pipe).queue] = (Head(pipe).data = 1)]
    /\ pipe' = Tail(pipe)
    /\ UNCHANGED <<prodPtr, consPtr, opIndex, tableVars, resp, fetch, rung>>

-----------------------------------------------------------------------------
(* desc_fetch takes the response and enters every descriptor of it in its  *)
(* table; as it reads the entries one after the other it commits, for each,*)
(* the operation the entry belongs to.                                     *)
TakeResp ==
    /\ resp # None
    /\ Len(fetch) < DescTableSize
    /\ fetch' = IF resp.status = "ok"
                  THEN fetch \o [i \in 1 .. resp.wqe |->
                                   [slot |-> resp.slot, first |-> i = 1]]
                  ELSE fetch
    /\ resp' = None
    /\ UNCHANGED <<queueVars, tableVars, pipe, rung>>

RecordCommit ==
    /\ fetch # <<>>
    /\ opCommit' = [opCommit EXCEPT ![Head(fetch).slot] = TRUE]
    /\ fetch' = Tail(fetch)
    /\ UNCHANGED <<queueVars, opActive, opQueue, opPtr, startPtr, finishPtr,
                   pipe, resp, rung>>

-----------------------------------------------------------------------------
HostWrite ==
    \E q \in Queue :
        \/ \E n \in Wqe : HostPublish(q, n)
        \/ HostDisable(q)
        \/ HostRewindProd(q)
        \/ HostRewindCons(q)
        \/ HostEnable(q)

Hardware ==
    \/ AcceptCommit
    \/ \E q \in Queue, n \in Wqe : AcceptReq(q, n)
    \/ PerformReq
    \/ PerformCommit
    \/ PerformProd
    \/ PerformCons
    \/ PerformEnable
    \/ TakeResp
    \/ RecordCommit

Next == HostWrite \/ Hardware

Spec == Init /\ [][Next]_vars

(* The pipeline runs every clock cycle and desc_fetch finishes every fetch *)
(* it starts.  Nothing is assumed of the host or of the scheduler.         *)
Perform == PerformReq \/ PerformCommit \/ PerformProd \/ PerformCons \/ PerformEnable
Fairness ==
    /\ WF_vars(AcceptCommit) /\ WF_vars(Perform) /\ WF_vars(TakeResp)
    /\ WF_vars(RecordCommit)
FairSpec == Spec /\ Fairness

-----------------------------------------------------------------------------
(* Slot s is k slots after finishPtr.                                      *)
Age(s) == (s + OpTableSize - finishPtr) % OpTableSize
ActiveSlots == {s \in OpSlot : opActive[s]}

(* The slots in use are the window from finishPtr to startPtr, so the      *)
(* table is a queue: the slot about to be finished is the oldest.  A queue *)
(* with operations in the table remembers the newest of them: otherwise    *)
(* the next dequeue would start from an old pointer and fetch descriptors  *)
(* a second time.                                                          *)
TableIsQueue ==
    /\ \A s \in OpSlot : opActive[s] <=> Age(s) < Cardinality(ActiveSlots)
    /\ startPtr = (finishPtr + Cardinality(ActiveSlots)) % OpTableSize
    /\ \A s \in ActiveSlots :
        LET newest == opIndex[opQueue[s]] IN
        opActive[newest] /\ opQueue[newest] = opQueue[s] /\ Age(s) <= Age(newest)

(* A commit never reaches another dequeue than the one it is meant for.    *)
(* The first descriptor of a dequeue commits it; the commits of the others *)
(* come when its slot may already be free, and would commit whichever      *)
(* dequeue took the slot since, before its descriptors have been read.     *)
(* None can: DESC_TABLE_SIZE entries do not reach around the table.        *)
CommitsStayHome ==
    \A i \in DOMAIN fetch :
        LET s == fetch[i].slot
            ahead == \E j \in 1 .. i - 1 : fetch[j] = [slot |-> s, first |-> TRUE]
        IN  IF fetch[i].first THEN opActive[s] /\ ~opCommit[s]
            ELSE ahead \/ ~opActive[s] \/ opCommit[s]

-----------------------------------------------------------------------------
(* Seen by the host and by desc_fetch, a queue is a row of descriptors     *)
(* that are handed out once each, in order, never beyond the producer      *)
(* pointer, and given back in order.                                       *)
InPipeline(q) == {op \in {pipe[i] : i \in DOMAIN pipe} : op.queue = q}
SlotsOf(q) == {s \in OpSlot : opActive[s] /\ opQueue[s] = q}
Leaving(q) == {op \in InPipeline(q) : op.kind = "commit"}
TakenOps(q) ==
    {[upto |-> opPtr[s], done |-> opCommit[s]] : s \in SlotsOf(q)}
      \union {[upto |-> op.data, done |-> TRUE] : op \in Leaving(q)}
(* Where the dequeues granted so far end.                                  *)
NextPtr(q) ==
    IF opIndex[q] \in SlotsOf(q) THEN opPtr[opIndex[q]]
    ELSE IF Leaving(q) = {} THEN consPtr[q]
    ELSE (CHOOSE op \in Leaving(q) : TRUE).data

DR == INSTANCE DescriptorRow
        WITH prod <- prodPtr, cons <- consPtr,
             next <- [q \in Queue |-> NextPtr(q)],
             taken <- [q \in Queue |-> TakenOps(q)],
             answer <- IF resp = None THEN None
                       ELSE [queue |-> resp.queue, ptr |-> resp.ptr, wqe |-> resp.wqe,
                             granted |-> resp.status = "ok"]
ImplementsDescriptorRow == DR!Spec

(* Once the host stops writing registers (its writes come before commits in *)
(* the pipeline and could hold them off for good), every dequeue is given  *)
(* back and the whole table is free again.                                 *)
SlotsReturn == []<><<HostWrite>>_vars \/ <>[](ActiveSlots = {})
=============================================================================
