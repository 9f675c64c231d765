---------------------------- MODULE DoorbellRing ----------------------------
(***************************************************************************)
(* The scheduling half of rtl/tx_queue_manager_change.v: every transmit    *)
(* queue keeps a ring of doorbells (rank and wqe words) in doorbell_ram,   *)
(* and shows the scheduler only the doorbell at the head of the ring.  The *)
(* head travels as a token: fifo, arbiter, PIFO, completion fifo, and back *)
(* into the pipeline, which frees the head and sends the next doorbell.    *)
(*                                                                         *)
(* The queue manager's pipeline reads the RAMs when it accepts an          *)
(* operation and writes them PIPELINE cycles later.  An operation in the   *)
(* model carries what it read, and accepting one and performing one are    *)
(* separate steps, so that a missing hazard check shows.  Operations on    *)
(* queue pointers (module DequeueTable) touch none of this state and only  *)
(* delay the ones here.                                                    *)
(***************************************************************************)
EXTENDS Naturals, Sequences, FiniteSets, SequencesExt

CONSTANTS
    Queue,          \* the transmit queues, QUEUE_COUNT of them
    Doorbell,       \* the {rank, wqe} words the host writes
    ZeroWord,       \* the word doorbell_ram is initialised with
    DoorbellDepth,  \* DOORBELL_DEPTH, slots in a queue's ring
    FifoDepth,      \* DEPTH of queue_fifo, doorbell_fifo and pifo_comp_fifo
    Pipeline,       \* PIPELINE
    None            \* an empty register

ASSUME WordAssumption == ZeroWord \in Doorbell
ASSUME DepthAssumption == DoorbellDepth \in Nat \ {0}
ASSUME FifoAssumption == FifoDepth \in Nat \ {0}
ASSUME PipelineAssumption == Pipeline \in Nat \ {0}

VARIABLES
    doorbellRam,    \* doorbell_ram: the ring of every queue
    prodTag,        \* doorbell_addr_prod_ram: index and wrap bit
    consTag,        \* doorbell_addr_cons_ram: index and wrap bit
    pipe,           \* operations accepted and not yet performed, oldest first
    queueFifo,      \* queue_fifo: doorbells rung on an idle queue
    doorbellFifo,   \* doorbell_fifo: next doorbells of queues just served
    queueReg,       \* input register of axis_arb_mux for queueFifo
    doorbellReg,    \* input register of axis_arb_mux for doorbellFifo
    grant,          \* grant of its arbiter: the input register that sends next
    arbOut,         \* output and temp register of axis_arb_mux
    pifo,           \* tokens the PIFO holds
    txResp,         \* the token the scheduler handed out last
    compFifo        \* pifo_comp_fifo

ringVars == <<doorbellRam, prodTag, consTag>>
outVars == <<queueFifo, doorbellFifo, queueReg, doorbellReg, grant, arbOut, pifo>>
vars == <<ringVars, pipe, outVars, txResp, compFifo>>

-----------------------------------------------------------------------------
Tag == 0 .. 2 * DoorbellDepth - 1
Slot == 0 .. DoorbellDepth - 1
Token == [queue : Queue, tag : Tag, doorbell : Doorbell]
Comp == [queue : Queue, tag : Tag]

ASSUME NoneAssumption == None \notin Token \union {"doorbell", "queue"}

(* What an operation knows while it is in the pipeline: the addressed      *)
(* queue, the tags it read, and the word it wrote or read.                 *)
DoorbellOp == [kind : {"axil_doorbell"}, queue : Queue, prod : Tag,
               cons : Tag, word : Doorbell]
CompOp == [kind : {"pifo_comp"}, queue : Queue, prod : Tag,
           cons : Tag, word : Doorbell]
Op == DoorbellOp \union CompOp

(* Operators named Wrong... are deliberate errors: each is what one edit of *)
(* the code would make of the definition after it, kept to show that the   *)
(* properties notice.                                                      *)
WrongNextTag(t) == t + 1
NextTag(t) == (t + 1) % (2 * DoorbellDepth)
SlotOf(t) == t % DoorbellDepth
WrongNextSlot(t) == SlotOf(t)
NextSlot(t) == SlotOf(t + 1)

(* doorbell_empty_idle and doorbell_full *)
WrongIdle(prod, cons) == SlotOf(prod) = SlotOf(cons)
Idle(prod, cons) == prod = cons
WrongFull(prod, cons) == FALSE
Full(prod, cons) == prod # cons /\ SlotOf(prod) = SlotOf(cons)

(* The fifos' s_axis_tready is not looked at: a word offered to a full     *)
(* fifo is lost.                                                           *)
WrongPut(fifo, x) == IF Len(fifo) + 1 < FifoDepth THEN Append(fifo, x) ELSE fifo
Put(fifo, x) == IF Len(fifo) < FifoDepth THEN Append(fifo, x) ELSE fifo

(* op_*_pipe_hazard: some operation in the pipeline addresses the queue.   *)
WrongHazard(q) == FALSE
Hazard(q) == \E i \in DOMAIN pipe : pipe[i].queue = q
AxilWriteInPipe == \E i \in DOMAIN pipe : pipe[i].kind = "axil_doorbell"

Init ==
    /\ doorbellRam = [q \in Queue |-> [s \in Slot |-> ZeroWord]]
    /\ prodTag = [q \in Queue |-> 0]
    /\ consTag = [q \in Queue |-> 0]
    /\ pipe = <<>>
    /\ queueFifo = <<>> /\ doorbellFifo = <<>>
    /\ queueReg = None /\ doorbellReg = None /\ grant = None /\ arbOut = <<>>
    /\ pifo = <<>> /\ txResp = None /\ compFifo = <<>>

-----------------------------------------------------------------------------
(* Pipeline stage 0: the host's write of the rank/wqe register.            *)
AcceptDoorbell(q, d) ==
    /\ Len(pipe) < Pipeline
    /\ ~AxilWriteInPipe
    /\ ~Hazard(q)
    /\ pipe' = Append(pipe, [kind |-> "axil_doorbell", queue |-> q,
                             prod |-> prodTag[q], cons |-> consTag[q],
                             word |-> d])
    /\ UNCHANGED <<ringVars, outVars, txResp, compFifo>>

(* Pipeline stage 0: the scheduler has taken the head of a queue's ring.   *)
(* The slot behind the head is read along with the tags.                   *)
AcceptComp ==
    /\ Len(pipe) < Pipeline
    /\ compFifo # <<>>
    /\ LET c == Head(compFifo) IN
         /\ ~Hazard(c.queue)
         /\ pipe' = Append(pipe,
              [kind |-> "pifo_comp", queue |-> c.queue,
               prod |-> prodTag[c.queue], cons |-> consTag[c.queue],
               word |-> doorbellRam[c.queue][NextSlot(c.tag)]])
    /\ compFifo' = Tail(compFifo)
    /\ UNCHANGED <<ringVars, outVars, txResp>>

(* Last stage, AXI-Lite register 5: store the doorbell unless the ring is  *)
(* full; on an idle queue it goes to the scheduler at once and stays in    *)
(* its slot until the scheduler has taken it.                              *)
PerformDoorbell ==
    /\ pipe # <<>>
    /\ LET op == Head(pipe) IN
         /\ op.kind = "axil_doorbell"
         /\ IF Full(op.prod, op.cons)
              THEN UNCHANGED <<doorbellRam, prodTag>>
              ELSE /\ doorbellRam' =
                        [doorbellRam EXCEPT ![op.queue][SlotOf(op.prod)] = op.word]
                   /\ prodTag' = [prodTag EXCEPT ![op.queue] = NextTag(op.prod)]
         /\ queueFifo' =
              IF Idle(op.prod, op.cons)
                THEN Put(queueFifo, [queue |-> op.queue, tag |-> op.prod,
                                     doorbell |-> op.word])
                ELSE queueFifo
    /\ pipe' = Tail(pipe)
    /\ UNCHANGED <<consTag, doorbellFifo, queueReg, doorbellReg, grant, arbOut, pifo,
                   txResp, compFifo>>

(* Last stage, PIFO completion: free the head; send the next, if any.      *)
PerformComp ==
    /\ pipe # <<>>
    /\ LET op == Head(pipe)
           next == NextTag(op.cons) IN
         /\ op.kind = "pifo_comp"
         /\ consTag' = [consTag EXCEPT ![op.queue] = next]
         /\ doorbellFifo' =
              IF next # op.prod
                THEN Put(doorbellFifo, [queue |-> op.queue, tag |-> next,
                                        doorbell |-> op.word])
                ELSE doorbellFifo
    /\ pipe' = Tail(pipe)
    /\ UNCHANGED <<doorbellRam, prodTag, queueFifo, queueReg, doorbellReg,
                   grant, arbOut, pifo, txResp, compFifo>>

-----------------------------------------------------------------------------
(* axis_arb_mux: an input register per fifo, an arbiter that prefers      *)
(* doorbell_fifo and holds its grant until the word has been sent, and two *)
(* output registers.  A grant is a clock cycle older than its use, so that *)
(* a doorbell may find the other register granted.                         *)
LoadQueueReg ==
    /\ queueReg = None /\ queueFifo # <<>>
    /\ queueReg' = Head(queueFifo)
    /\ queueFifo' = Tail(queueFifo)
    /\ UNCHANGED <<ringVars, pipe, doorbellFifo, doorbellReg, grant, arbOut, pifo,
                   txResp, compFifo>>

LoadDoorbellReg ==
    /\ doorbellReg = None /\ doorbellFifo # <<>>
    /\ doorbellReg' = Head(doorbellFifo)
    /\ doorbellFifo' = Tail(doorbellFifo)
    /\ UNCHANGED <<ringVars, pipe, queueFifo, queueReg, grant, arbOut, pifo,
                   txResp, compFifo>>

Arbitrate ==
    /\ grant = None
    /\ doorbellReg # None \/ queueReg # None
    /\ grant' = IF doorbellReg # None THEN "doorbell" ELSE "queue"
    /\ UNCHANGED <<ringVars, pipe, queueFifo, doorbellFifo, queueReg, doorbellReg,
                   arbOut, pifo, txResp, compFifo>>

SendDoorbell ==
    /\ grant = "doorbell" /\ Len(arbOut) < 2
    /\ arbOut' = Append(arbOut, doorbellReg)
    /\ doorbellReg' = None /\ grant' = None
    /\ UNCHANGED <<ringVars, pipe, queueFifo, doorbellFifo, queueReg, pifo,
                   txResp, compFifo>>

SendQueue ==
    /\ grant = "queue" /\ Len(arbOut) < 2
    /\ arbOut' = Append(arbOut, queueReg)
    /\ queueReg' = None /\ grant' = None
    /\ UNCHANGED <<ringVars, pipe, queueFifo, doorbellFifo, doorbellReg, pifo,
                   txResp, compFifo>>

(* The handshake into the PIFO (tx_doorbell_valid and tx_doorbell_ready).  *)
PushPifo ==
    /\ arbOut # <<>>
    /\ pifo' = Append(pifo, Head(arbOut))
    /\ arbOut' = Tail(arbOut)
    /\ UNCHANGED <<ringVars, pipe, queueFifo, doorbellFifo, queueReg,
                   doorbellReg, grant, txResp, compFifo>>

(* The handshake out of the PIFO (tx_resp_valid and tx_resp_ready) is also *)
(* the completion that enters pifo_comp_fifo.  Which token leaves is the   *)
(* business of module PifoTree: here it may be any.                        *)
PopPifo(i) ==
    /\ txResp' = pifo[i]
    /\ pifo' = RemoveAt(pifo, i)
    /\ compFifo' = Put(compFifo, [queue |-> pifo[i].queue, tag |-> pifo[i].tag])
    /\ UNCHANGED <<ringVars, pipe, queueFifo, doorbellFifo, queueReg,
                   doorbellReg, grant, arbOut>>

-----------------------------------------------------------------------------
HostRings == \E q \in Queue, d \in Doorbell : AcceptDoorbell(q, d)

Hardware ==
    \/ AcceptComp
    \/ PerformDoorbell
    \/ PerformComp
    \/ LoadQueueReg
    \/ LoadDoorbellReg
    \/ Arbitrate
    \/ SendDoorbell
    \/ SendQueue
    \/ PushPifo
    \/ \E i \in DOMAIN pifo : PopPifo(i)

Next == HostRings \/ Hardware

Spec == Init /\ [][Next]_vars

(* The pipeline, the fifos, the arbiter and the PIFO advance every clock   *)
(* cycle.  Nothing is assumed of the host, nor of which token the PIFO     *)
(* prefers: it orders by rank and may keep a token as long as better ones  *)
(* arrive.                                                                 *)
Fairness ==
    /\ WF_vars(AcceptComp) /\ WF_vars(PerformDoorbell) /\ WF_vars(PerformComp)
    /\ WF_vars(LoadQueueReg) /\ WF_vars(LoadDoorbellReg)
    /\ WF_vars(Arbitrate) /\ WF_vars(SendDoorbell) /\ WF_vars(SendQueue)
    /\ WF_vars(PushPifo)
    /\ WF_vars(\E i \in DOMAIN pifo : PopPifo(i))

FairSpec == Spec /\ Fairness

-----------------------------------------------------------------------------
(* The tags, fifos, registers and pipeline hold what their widths allow.   *)
TypeOK ==
    /\ doorbellRam \in [Queue -> [Slot -> Doorbell]]
    /\ prodTag \in [Queue -> Tag] /\ consTag \in [Queue -> Tag]
    /\ pipe \in Seq(Op) /\ Len(pipe) <= Pipeline
    /\ queueFifo \in Seq(Token) /\ Len(queueFifo) <= FifoDepth
    /\ doorbellFifo \in Seq(Token) /\ Len(doorbellFifo) <= FifoDepth
    /\ queueReg \in Token \union {None} /\ doorbellReg \in Token \union {None}
    /\ grant \in {None, "doorbell", "queue"}
    /\ grant = "doorbell" => doorbellReg # None
    /\ grant = "queue" => queueReg # None
    /\ arbOut \in Seq(Token) /\ Len(arbOut) <= 2
    /\ pifo \in Seq(Token)
    /\ txResp \in Token \union {None}
    /\ compFifo \in Seq(Comp) /\ Len(compFifo) <= FifoDepth

(* Where a queue's token can be: in the fifos and registers on the way to  *)
(* the scheduler, in the scheduler, in the completion fifo, and in the     *)
(* pipeline as a completion.                                               *)
Register(r) == IF r = None THEN <<>> ELSE <<r>>
At == [queueFifo    |-> queueFifo,
       doorbellFifo |-> doorbellFifo,
       queueReg     |-> Register(queueReg),
       doorbellReg  |-> Register(doorbellReg),
       arbOut       |-> arbOut,
       pifo         |-> pifo,
       compFifo     |-> compFifo,
       pipe         |-> pipe]
Place == DOMAIN At
Served == {"compFifo", "pipe"}      \* behind the scheduler

IsTokenOf(q, p, i) ==
    /\ At[p][i].queue = q
    /\ p = "pipe" => At[p][i].kind = "pifo_comp"
TokensOf(q) ==
    UNION {{p} \X {i \in DOMAIN At[p] : IsTokenOf(q, p, i)} : p \in Place}

(* A queue competes in the scheduler with one token exactly as long as its *)
(* ring holds a doorbell: a second token would send descriptors twice and  *)
(* out of order, and without one the queue is stuck for good, since only   *)
(* the completion of a token sends the next (tx_queue_manager_change.v     *)
(* 844-858, 951-957).                                                      *)
OneToken ==
    \A q \in Queue :
        LET here == TokensOf(q) IN
        IF prodTag[q] = consTag[q] THEN here = {} ELSE \E x \in here : here = {x}

(* The token is the head of the ring: it carries the consumer tag and,     *)
(* until the scheduler has taken it, the word in the head slot.            *)
TokenIsHead ==
    \A p \in Place \ {"pipe"} : \A i \in DOMAIN At[p] :
        LET t == At[p][i] IN
          /\ t.tag = consTag[t.queue]
          /\ p \notin Served =>
               t.doorbell = doorbellRam[t.queue][SlotOf(t.tag)]

(* The tags never describe more than DOORBELL_DEPTH doorbells, so a new    *)
(* doorbell never overwrites one the scheduler has not taken.              *)
Occupancy(q) == (prodTag[q] + 2 * DoorbellDepth - consTag[q]) % (2 * DoorbellDepth)
RingWithinDepth == \A q \in Queue : Occupancy(q) <= DoorbellDepth

-----------------------------------------------------------------------------
(* The ring, the token and the fifos implement one fifo of doorbells per   *)
(* queue: the scheduler hands out every doorbell once, in the order rung.  *)
HeadServed(q) == \E p \in Served : \E i \in DOMAIN At[p] : IsTokenOf(q, p, i)
Pending(q) ==
    LET served == IF HeadServed(q) THEN 1 ELSE 0 IN
    [i \in 1 .. Occupancy(q) - served |->
        doorbellRam[q][SlotOf(consTag[q] + served + i - 1)]]

DQ == INSTANCE DoorbellQueue
        WITH pending <- [q \in Queue |-> Pending(q)],
             granted <- IF txResp = None THEN None
                        ELSE [queue |-> txResp.queue, doorbell |-> txResp.doorbell]

ImplementsDoorbellQueue == DQ!Spec

(* Once the host stops writing doorbells, the scheduler is given all of    *)
(* them and every ring runs empty.                                         *)
Drained == \A q \in Queue : prodTag[q] = consTag[q]
RingsDrain == []<><<HostRings>>_vars \/ <>[]Drained
=============================================================================
