------------------------- MODULE DoorbellRing_proofs -------------------------
(***************************************************************************)
(* Theorems about DoorbellRing, for any number of queues, ring size, fifo  *)
(* depth and pipeline length: that a ring never holds more than its depth, *)
(* that whatever competes in the scheduler is the head of its ring, and    *)
(* that a queue with doorbells has exactly one token, and that the rings,  *)
(* tokens and fifos implement one fifo of doorbells per queue (module      *)
(* DoorbellQueue).  The last two need fifos with an entry for every queue; *)
(* the others do not.                                                      *)
(***************************************************************************)
EXTENDS DoorbellRing, FiniteSetTheorems, SequenceTheorems, TLAPS

(* The tag arithmetic of the code stays within the width of a tag.         *)
LEMMA TagArithmetic ==
    ASSUME NEW t \in Tag
    PROVE  NextTag(t) \in Tag /\ SlotOf(t) \in Slot /\ NextSlot(t) \in Slot
BY DepthAssumption, SMT DEF NextTag, NextSlot, SlotOf, Tag, Slot

(* A fifo keeps its type and its depth whatever is offered to it.          *)
LEMMA PutType ==
    ASSUME NEW S, NEW fifo \in Seq(S), Len(fifo) <= FifoDepth, NEW x \in S
    PROVE  Put(fifo, x) \in Seq(S) /\ Len(Put(fifo, x)) <= FifoDepth
BY FifoAssumption, SMT DEF Put

(* Taking the head of a nonempty sequence.                                 *)
LEMMA TailType ==
    ASSUME NEW S, NEW s \in Seq(S), s # <<>>
    PROVE  /\ Head(s) \in S /\ Tail(s) \in Seq(S)
           /\ Len(Tail(s)) = Len(s) - 1 /\ Len(s) \in Nat \ {0}
OBVIOUS

(* Taking any element of a sequence.                                       *)
LEMMA RemoveAtType ==
    ASSUME NEW S, NEW s \in Seq(S), NEW i \in DOMAIN s
    PROVE  RemoveAt(s, i) \in Seq(S)
<1>1. SubSeq(s, 1, i - 1) \in Seq(S) /\ SubSeq(s, i + 1, Len(s)) \in Seq(S)
  OBVIOUS
<1> QED  BY <1>1 DEF RemoveAt

-----------------------------------------------------------------------------
(* The tables start at zero and everything else is empty.                  *)
LEMMA TypeInit == Init => TypeOK
BY WordAssumption, DepthAssumption, FifoAssumption, PipelineAssumption, NoneAssumption
   DEF Init, TypeOK, Tag, Slot

(* Every step of the pipeline, the arbiter and the PIFO keeps the types.   *)
LEMMA TypeNext == TypeOK /\ [Next]_vars => TypeOK'
<1> SUFFICES ASSUME TypeOK, [Next]_vars PROVE TypeOK'
  OBVIOUS
<1> USE DEF TypeOK
<1>1. ASSUME NEW q \in Queue, NEW d \in Doorbell, AcceptDoorbell(q, d)
      PROVE  TypeOK'
  <2> DEFINE op == [kind |-> "axil_doorbell", queue |-> q,
                    prod |-> prodTag[q], cons |-> consTag[q], word |-> d]
  <2>1. op \in Op
    BY <1>1 DEF Op, DoorbellOp
  <2>2. pipe' = Append(pipe, op) /\ Len(pipe) < Pipeline
    BY <1>1 DEF AcceptDoorbell
  <2>3. pipe' \in Seq(Op) /\ Len(pipe') <= Pipeline
    BY <2>1, <2>2, PipelineAssumption
  <2> QED  BY <1>1, <2>3 DEF AcceptDoorbell, ringVars, outVars
<1>2. CASE AcceptComp
  <2> DEFINE c == Head(compFifo)
             op == [kind |-> "pifo_comp", queue |-> c.queue,
                    prod |-> prodTag[c.queue], cons |-> consTag[c.queue],
                    word |-> doorbellRam[c.queue][NextSlot(c.tag)]]
  <2>1. c \in Comp /\ compFifo' \in Seq(Comp) /\ Len(compFifo') <= FifoDepth
    BY <1>2, TailType, FifoAssumption DEF AcceptComp
  <2>2. c.queue \in Queue /\ NextSlot(c.tag) \in Slot
    BY <2>1, TagArithmetic DEF Comp
  <2>3. op \in Op
    BY <2>2 DEF Op, CompOp
  <2>4. pipe' = Append(pipe, op) /\ Len(pipe) < Pipeline
    BY <1>2 DEF AcceptComp
  <2>5. pipe' \in Seq(Op) /\ Len(pipe') <= Pipeline
    BY <2>3, <2>4, PipelineAssumption
  <2> QED  BY <1>2, <2>1, <2>5 DEF AcceptComp, ringVars, outVars
<1>3. CASE PerformDoorbell
  <2> DEFINE op == Head(pipe)
             token == [queue |-> op.queue, tag |-> op.prod, doorbell |-> op.word]
  <2>1. op \in Op /\ pipe' \in Seq(Op) /\ Len(pipe') <= Pipeline
    BY <1>3, TailType, PipelineAssumption DEF PerformDoorbell
  <2>2. /\ op.queue \in Queue /\ op.prod \in Tag /\ op.word \in Doorbell
        /\ NextTag(op.prod) \in Tag /\ SlotOf(op.prod) \in Slot
    BY <2>1, TagArithmetic DEF Op, DoorbellOp, CompOp
  <2>3. prodTag' \in [Queue -> Tag] /\ doorbellRam' \in [Queue -> [Slot -> Doorbell]]
    <3>1. CASE Full(op.prod, op.cons)
      BY <1>3, <3>1 DEF PerformDoorbell
    <3>2. CASE ~Full(op.prod, op.cons)
      <4>1. /\ prodTag' = [prodTag EXCEPT ![op.queue] = NextTag(op.prod)]
            /\ doorbellRam' = [doorbellRam EXCEPT ![op.queue][SlotOf(op.prod)] = op.word]
        BY <1>3, <3>2 DEF PerformDoorbell
      <4>2. [doorbellRam[op.queue] EXCEPT ![SlotOf(op.prod)] = op.word] \in [Slot -> Doorbell]
        BY <2>2
      <4> QED  BY <2>2, <4>1, <4>2
    <3> QED  BY <3>1, <3>2
  <2>4. token \in Token
    BY <2>2 DEF Token
  <2>5. queueFifo' \in Seq(Token) /\ Len(queueFifo') <= FifoDepth
    BY <1>3, <2>4, PutType DEF PerformDoorbell
  <2>6. UNCHANGED <<consTag, doorbellFifo, queueReg, doorbellReg, grant, arbOut,
                    pifo, txResp, compFifo>>
    BY <1>3 DEF PerformDoorbell
  <2> QED  BY <2>1, <2>3, <2>5, <2>6
<1>4. CASE PerformComp
  <2> DEFINE op == Head(pipe)
             token == [queue |-> op.queue, tag |-> NextTag(op.cons),
                       doorbell |-> op.word]
  <2>1. op \in Op /\ pipe' \in Seq(Op) /\ Len(pipe') <= Pipeline
    BY <1>4, TailType, PipelineAssumption DEF PerformComp
  <2>2. op.queue \in Queue /\ NextTag(op.cons) \in Tag /\ op.word \in Doorbell
    BY <2>1, TagArithmetic DEF Op, DoorbellOp, CompOp
  <2>3. consTag' \in [Queue -> Tag]
    BY <1>4, <2>2 DEF PerformComp
  <2>4. token \in Token
    BY <2>2 DEF Token
  <2>5. doorbellFifo' \in Seq(Token) /\ Len(doorbellFifo') <= FifoDepth
    BY <1>4, <2>4, PutType DEF PerformComp
  <2> QED  BY <1>4, <2>1, <2>3, <2>5 DEF PerformComp
<1>5. CASE LoadQueueReg
  <2>1. /\ Head(queueFifo) \in Token
        /\ queueFifo' \in Seq(Token) /\ Len(queueFifo') <= FifoDepth
    BY <1>5, TailType, FifoAssumption DEF LoadQueueReg
  <2> QED  BY <1>5, <2>1 DEF LoadQueueReg, ringVars
<1>6. CASE LoadDoorbellReg
  <2>1. /\ Head(doorbellFifo) \in Token
        /\ doorbellFifo' \in Seq(Token) /\ Len(doorbellFifo') <= FifoDepth
    BY <1>6, TailType, FifoAssumption DEF LoadDoorbellReg
  <2> QED  BY <1>6, <2>1 DEF LoadDoorbellReg, ringVars
<1>7. CASE Arbitrate
  BY <1>7, NoneAssumption DEF Arbitrate, ringVars
<1>8. CASE SendDoorbell
  <2>1. doorbellReg \in Token
    BY <1>8 DEF SendDoorbell
  <2>2. arbOut' \in Seq(Token) /\ Len(arbOut') <= 2
    BY <1>8, <2>1 DEF SendDoorbell
  <2> QED  BY <1>8, <2>2, NoneAssumption DEF SendDoorbell, ringVars
<1>8a. CASE SendQueue
  <2>1. queueReg \in Token
    BY <1>8a DEF SendQueue
  <2>2. arbOut' \in Seq(Token) /\ Len(arbOut') <= 2
    BY <1>8a, <2>1 DEF SendQueue
  <2> QED  BY <1>8a, <2>2, NoneAssumption DEF SendQueue, ringVars
<1>9. CASE PushPifo
  <2>1. /\ Head(arbOut) \in Token
        /\ arbOut' \in Seq(Token) /\ Len(arbOut') <= 2
    BY <1>9, TailType DEF PushPifo
  <2>2. pifo' \in Seq(Token)
    BY <1>9, <2>1 DEF PushPifo
  <2> QED  BY <1>9, <2>1, <2>2 DEF PushPifo, ringVars
<1>10. ASSUME NEW i \in DOMAIN pifo, PopPifo(i) PROVE TypeOK'
  <2>1. pifo[i] \in Token /\ pifo' \in Seq(Token)
    BY <1>10, RemoveAtType DEF PopPifo
  <2>2. [queue |-> pifo[i].queue, tag |-> pifo[i].tag] \in Comp
    BY <2>1 DEF Token, Comp
  <2>3. compFifo' \in Seq(Comp) /\ Len(compFifo') <= FifoDepth
    BY <1>10, <2>2, PutType DEF PopPifo
  <2> QED  BY <1>10, <2>1, <2>3 DEF PopPifo, ringVars
<1>11. CASE UNCHANGED vars
  BY <1>11 DEF vars, ringVars, outVars
<1> QED
  BY <1>1, <1>2, <1>3, <1>4, <1>5, <1>6, <1>7, <1>8, <1>8a, <1>9, <1>10, <1>11 DEF Next, HostRings, Hardware

(* The tags, fifos and pipeline never leave their widths, for every number *)
(* of queues and every depth (tx_queue_manager_change.v 194-276, 427-607). *)
THEOREM TypeCorrect == Spec => []TypeOK
<1> QED  BY TypeInit, TypeNext, PTL DEF Spec

-----------------------------------------------------------------------------
(* The inductive invariant.                                                *)

(* The queues that a sequence of tokens, completions or operations names.  *)
Queues(s) == {t.queue : t \in Range(s)}
Distinct(s) == \A i, j \in DOMAIN s : s[i].queue = s[j].queue => i = j

PlaceName == {"queueFifo", "doorbellFifo", "queueReg", "doorbellReg", "arbOut",
              "pifo", "compFifo", "pipe"}

(* A token of q is at p.                                                   *)
Holds(p, q) ==
    \/ p = "queueFifo" /\ q \in Queues(queueFifo)
    \/ p = "doorbellFifo" /\ q \in Queues(doorbellFifo)
    \/ p = "queueReg" /\ queueReg # None /\ queueReg.queue = q
    \/ p = "doorbellReg" /\ doorbellReg # None /\ doorbellReg.queue = q
    \/ p = "arbOut" /\ q \in Queues(arbOut)
    \/ p = "pifo" /\ q \in Queues(pifo)
    \/ p = "compFifo" /\ q \in Queues(compFifo)
    \/ p = "pipe" /\ \E op \in Range(pipe) : op.kind = "pifo_comp" /\ op.queue = q

(* No place has two tokens of a queue, and the pipeline no two operations. *)
AllDistinct ==
    /\ Distinct(queueFifo) /\ Distinct(doorbellFifo) /\ Distinct(arbOut)
    /\ Distinct(pifo) /\ Distinct(compFifo) /\ Distinct(pipe)

(* No two places have tokens of the same queue.                            *)
Apart ==
    \A q \in Queue, p1, p2 \in PlaceName : Holds(p1, q) /\ Holds(p2, q) => p1 = p2

(* Only queues with doorbells have tokens.                                 *)
OnlyNonempty ==
    \A q \in Queue, p \in PlaceName : Holds(p, q) => prodTag[q] # consTag[q]

(* The tokens on their way to the scheduler and in it.                     *)
Tokens ==
    Range(queueFifo) \union Range(doorbellFifo) \union Range(arbOut) \union Range(pifo)
      \union ({queueReg, doorbellReg} \ {None})
IsHead(t) ==
    /\ t.tag = consTag[t.queue]
    /\ t.doorbell = doorbellRam[t.queue][SlotOf(t.tag)]
Heads ==
    /\ \A t \in Tokens : IsHead(t)
    /\ \A c \in Range(compFifo) : c.tag = consTag[c.queue]

(* What an operation has read is still true when it is performed.          *)
Fresh(op) ==
    /\ op.prod = prodTag[op.queue] /\ op.cons = consTag[op.queue]
    /\ op.kind = "pifo_comp" /\ NextTag(op.cons) # op.prod =>
         op.word = doorbellRam[op.queue][SlotOf(NextTag(op.cons))]
PipeFresh == \A op \in Range(pipe) : Fresh(op)

IInv ==
    /\ TypeOK
    /\ AllDistinct
    /\ Apart
    /\ OnlyNonempty
    /\ Heads
    /\ PipeFresh
    /\ RingWithinDepth

(* A queue with doorbells has a token.                                     *)
AllServed ==
    \A q \in Queue : prodTag[q] # consTag[q] => \E p \in PlaceName : Holds(p, q)

-----------------------------------------------------------------------------
(* Arithmetic of tags, without the modulus.                                *)
LEMMA ModValue ==
    ASSUME NEW m \in Nat \ {0}, NEW r \in 0 .. m - 1
    PROVE  r % m = r /\ (r + m) % m = r
OBVIOUS

(* Tags count up to twice the depth and start again.                       *)
LEMMA NextTagValue ==
    ASSUME NEW t \in Tag
    PROVE  NextTag(t) = IF t = 2 * DoorbellDepth - 1 THEN 0 ELSE t + 1
<1> DEFINE m == 2 * DoorbellDepth
<1>1. m \in Nat \ {0}
  BY DepthAssumption
<1>2. CASE t = m - 1
  <2>1. t + 1 = 0 + m /\ 0 \in 0 .. m - 1
    BY <1>1, <1>2
  <2> HIDE DEF m
  <2>2. (0 + m) % m = 0
    BY <1>1, <2>1, ModValue
  <2> QED  BY <1>1, <1>2, <2>1, <2>2 DEF NextTag, m
<1>3. CASE t # m - 1
  <2>1. t + 1 \in 0 .. m - 1
    BY <1>1, <1>3, DepthAssumption DEF Tag
  <2> HIDE DEF m
  <2>2. (t + 1) % m = t + 1
    BY <1>1, <2>1, ModValue
  <2> QED  BY <1>3, <2>2 DEF NextTag, m
<1> QED  BY <1>2, <1>3

(* The slot of a tag is the tag without its wrap bit.                      *)
LEMMA SlotValue ==
    ASSUME NEW t \in Tag
    PROVE  SlotOf(t) = IF t < DoorbellDepth THEN t ELSE t - DoorbellDepth
<1>1. CASE t < DoorbellDepth
  BY <1>1, DepthAssumption, ModValue DEF SlotOf, Tag
<1>2. CASE ~(t < DoorbellDepth)
  <2> DEFINE r == t - DoorbellDepth
  <2>1. r \in 0 .. DoorbellDepth - 1 /\ t = r + DoorbellDepth
    BY <1>2, DepthAssumption DEF Tag
  <2>2. (r + DoorbellDepth) % DoorbellDepth = r
    BY <2>1, DepthAssumption, ModValue
  <2> QED  BY <1>2, <2>1, <2>2 DEF SlotOf
<1> QED  BY <1>1, <1>2

(* The slot read for the next doorbell is the slot of the next tag.        *)
LEMMA NextSlotValue ==
    ASSUME NEW t \in Tag
    PROVE  NextSlot(t) = SlotOf(NextTag(t))
<1>1. CASE t = 2 * DoorbellDepth - 1
  <2>1. NextTag(t) = 0 /\ 0 \in Tag
    BY <1>1, NextTagValue, DepthAssumption DEF Tag
  <2>2. SlotOf(0) = 0
    BY <2>1, SlotValue, DepthAssumption
  <2>3. (0 + DoorbellDepth) % DoorbellDepth = 0 /\ DoorbellDepth \in Tag
    BY DepthAssumption, ModValue DEF Tag
  <2>4. (2 * DoorbellDepth) % DoorbellDepth = 0
    BY DepthAssumption
  <2> QED  BY <1>1, <2>1, <2>2, <2>4, DepthAssumption DEF NextSlot, SlotOf
<1>2. CASE t # 2 * DoorbellDepth - 1
  BY <1>2, NextTagValue DEF NextSlot
<1> QED  BY <1>1, <1>2

(* How many doorbells two tags describe.                                   *)
Between(prod, cons) == (prod + 2 * DoorbellDepth - cons) % (2 * DoorbellDepth)

(* The distance of two tags, whichever is ahead.                           *)
LEMMA BetweenValue ==
    ASSUME NEW prod \in Tag, NEW cons \in Tag
    PROVE  Between(prod, cons) =
             IF cons <= prod THEN prod - cons ELSE prod + 2 * DoorbellDepth - cons
<1> DEFINE m == 2 * DoorbellDepth
<1>1. m \in Nat \ {0} /\ prod \in Int /\ cons \in Int
  BY DepthAssumption DEF Tag
<1>2. CASE cons <= prod
  <2> DEFINE r == prod - cons
  <2>1. r \in 0 .. m - 1 /\ prod + m - cons = r + m
    BY <1>1, <1>2, DepthAssumption DEF Tag
  <2> HIDE DEF m
  <2>2. (r + m) % m = r
    BY <1>1, <2>1, ModValue
  <2> QED  BY <1>2, <2>1, <2>2 DEF Between, m
<1>3. CASE ~(cons <= prod)
  <2>1. prod + m - cons \in 0 .. m - 1
    BY <1>1, <1>3, DepthAssumption DEF Tag
  <2> HIDE DEF m
  <2>2. (prod + m - cons) % m = prod + m - cons
    BY <1>1, <2>1, ModValue
  <2> QED  BY <1>3, <2>2 DEF Between, m
<1> QED  BY <1>2, <1>3

(* A ring that is not full takes a doorbell: its tags stay within the      *)
(* depth, become unequal, and the slot written is not the head's.          *)
LEMMA Produce ==
    ASSUME NEW prod \in Tag, NEW cons \in Tag,
           Between(prod, cons) <= DoorbellDepth, ~Full(prod, cons)
    PROVE  /\ Between(NextTag(prod), cons) <= DoorbellDepth
           /\ NextTag(prod) # cons
           /\ prod # cons => SlotOf(prod) # SlotOf(cons)
<1>1. /\ NextTag(prod) \in Tag
      /\ NextTag(prod) = IF prod = 2 * DoorbellDepth - 1 THEN 0 ELSE prod + 1
  BY TagArithmetic, NextTagValue
<1>2. /\ SlotOf(prod) = IF prod < DoorbellDepth THEN prod ELSE prod - DoorbellDepth
      /\ SlotOf(cons) = IF cons < DoorbellDepth THEN cons ELSE cons - DoorbellDepth
  BY SlotValue
<1>3. Between(prod, cons) =
        IF cons <= prod THEN prod - cons ELSE prod + 2 * DoorbellDepth - cons
  BY BetweenValue
<1>4. Between(NextTag(prod), cons) =
        IF cons <= NextTag(prod) THEN NextTag(prod) - cons
        ELSE NextTag(prod) + 2 * DoorbellDepth - cons
  BY <1>1, BetweenValue
<1>5. prod # cons => SlotOf(prod) # SlotOf(cons)
  BY DEF Full
<1> QED
  BY <1>1, <1>2, <1>3, <1>4, <1>5, DepthAssumption DEF Tag

(* A ring that is not idle gives up its head.                              *)
LEMMA Consume ==
    ASSUME NEW prod \in Tag, NEW cons \in Tag,
           Between(prod, cons) <= DoorbellDepth, prod # cons
    PROVE  Between(prod, NextTag(cons)) <= DoorbellDepth
<1>1. /\ NextTag(cons) \in Tag
      /\ NextTag(cons) = IF cons = 2 * DoorbellDepth - 1 THEN 0 ELSE cons + 1
  BY TagArithmetic, NextTagValue
<1>2. Between(prod, cons) =
        IF cons <= prod THEN prod - cons ELSE prod + 2 * DoorbellDepth - cons
  BY BetweenValue
<1>3. Between(prod, NextTag(cons)) =
        IF NextTag(cons) <= prod THEN prod - NextTag(cons)
        ELSE prod + 2 * DoorbellDepth - NextTag(cons)
  BY <1>1, BetweenValue
<1> QED
  BY <1>1, <1>2, <1>3, DepthAssumption DEF Tag

-----------------------------------------------------------------------------
(* Sequences whose elements name different queues.                         *)
LEMMA TakeHead ==
    ASSUME NEW S, NEW s \in Seq(S), s # <<>>, Distinct(s)
    PROVE  /\ Distinct(Tail(s))
           /\ Range(s) = Range(Tail(s)) \union {Head(s)}
           /\ \A x \in Range(Tail(s)) : x.queue # Head(s).queue
           /\ Queues(s) = Queues(Tail(s)) \union {Head(s).queue}
           /\ Head(s).queue \notin Queues(Tail(s))
<1>1. /\ Len(s) \in Nat \ {0} /\ DOMAIN s = 1 .. Len(s) /\ Head(s) = s[1]
      /\ DOMAIN Tail(s) = 1 .. Len(s) - 1
      /\ \A i \in 1 .. Len(s) - 1 : Tail(s)[i] = s[i + 1]
  OBVIOUS
<1>2. Distinct(Tail(s))
  BY <1>1 DEF Distinct
<1>3. ASSUME NEW x \in Range(s), x # Head(s) PROVE x \in Range(Tail(s))
  <2>1. PICK i \in 1 .. Len(s) : x = s[i] /\ i # 1
    BY <1>1, <1>3 DEF Range
  <2>2. i - 1 \in 1 .. Len(s) - 1 /\ Tail(s)[i - 1] = x
    BY <1>1, <2>1
  <2> QED  BY <1>1, <2>2 DEF Range
<1>4. ASSUME NEW x \in Range(Tail(s))
      PROVE  x \in Range(s) /\ x.queue # Head(s).queue
  <2>1. PICK i \in 1 .. Len(s) - 1 : x = s[i + 1]
    BY <1>1 DEF Range
  <2>2. i + 1 \in DOMAIN s /\ 1 \in DOMAIN s /\ i + 1 # 1
    BY <1>1
  <2>3. x \in Range(s)
    BY <2>1, <2>2 DEF Range
  <2>4. s[i + 1].queue # s[1].queue
    BY <2>2 DEF Distinct
  <2> QED  BY <1>1, <2>1, <2>3, <2>4
<1>5. Head(s) \in Range(s)
  BY <1>1 DEF Range
<1>6. Range(s) = Range(Tail(s)) \union {Head(s)}
  BY <1>3, <1>4, <1>5
<1> QED  BY <1>2, <1>4, <1>6 DEF Queues

(* Appending a token of q adds q to the queues in a fifo, once.            *)
LEMMA AddLast ==
    ASSUME NEW S, NEW s \in Seq(S), NEW x \in S, Distinct(s),
           x.queue \notin Queues(s)
    PROVE  /\ Distinct(Append(s, x))
           /\ Range(Append(s, x)) = Range(s) \union {x}
           /\ Queues(Append(s, x)) = Queues(s) \union {x.queue}
<1> DEFINE t == Append(s, x)
           n == Len(s)
<1>1. /\ n \in Nat /\ DOMAIN s = 1 .. n /\ DOMAIN t = 1 .. n + 1
      /\ t[n + 1] = x /\ \A i \in 1 .. n : t[i] = s[i]
  OBVIOUS
<1> HIDE DEF t, n
<1>2. \A i \in 1 .. n : s[i] \in Range(s) /\ s[i].queue # x.queue
  BY <1>1 DEF Range, Queues
<1>3. Distinct(t)
  BY <1>1, <1>2 DEF Distinct
<1>4. ASSUME NEW y \in Range(t) PROVE y \in Range(s) \union {x}
  <2>1. PICK i \in 1 .. n + 1 : y = t[i]
    BY <1>1 DEF Range
  <2>2. i \in 1 .. n \/ i = n + 1
    BY <1>1
  <2> QED  BY <1>1, <1>2, <2>1, <2>2
<1>5. ASSUME NEW y \in Range(s) \union {x} PROVE y \in Range(t)
  <2>1. CASE y = x
    <3>1. n + 1 \in DOMAIN t
      BY <1>1
    <3> QED  BY <1>1, <2>1, <3>1 DEF Range
  <2>2. CASE y # x
    <3>1. PICK i \in 1 .. n : y = s[i]
      BY <1>1, <2>2 DEF Range
    <3>2. i \in DOMAIN t /\ t[i] = y
      BY <1>1, <3>1
    <3> QED  BY <3>2 DEF Range
  <2> QED  BY <2>1, <2>2
<1>6. Range(t) = Range(s) \union {x}
  BY <1>4, <1>5
<1> QED  BY <1>3, <1>6 DEF t, Queues

(* Taking a token out of a fifo takes its queue out.                       *)
LEMMA TakeAny ==
    ASSUME NEW S, NEW s \in Seq(S), NEW k \in DOMAIN s, Distinct(s)
    PROVE  /\ Distinct(RemoveAt(s, k))
           /\ Range(s) = Range(RemoveAt(s, k)) \union {s[k]}
           /\ \A x \in Range(RemoveAt(s, k)) : x.queue # s[k].queue
           /\ Queues(s) = Queues(RemoveAt(s, k)) \union {s[k].queue}
           /\ s[k].queue \notin Queues(RemoveAt(s, k))
<1> DEFINE t == RemoveAt(s, k)
           n == Len(s)
<1>1. n \in Nat /\ DOMAIN s = 1 .. n /\ k \in 1 .. n
  OBVIOUS
<1>2. /\ DOMAIN t = 1 .. n - 1
      /\ \A i \in 1 .. n - 1 : t[i] = IF i < k THEN s[i] ELSE s[i + 1]
  <2>1. /\ SubSeq(s, 1, k - 1) \in Seq(S) /\ Len(SubSeq(s, 1, k - 1)) = k - 1
        /\ \A i \in 1 .. k - 1 : SubSeq(s, 1, k - 1)[i] = s[i]
    BY <1>1
  <2>2. /\ SubSeq(s, k + 1, n) \in Seq(S) /\ Len(SubSeq(s, k + 1, n)) = n - k
        /\ \A i \in 1 .. n - k : SubSeq(s, k + 1, n)[i] = s[k + i]
    BY <1>1
  <2> DEFINE a == SubSeq(s, 1, k - 1)
             b == SubSeq(s, k + 1, n)
  <2>3. t = a \o b
    BY DEF RemoveAt
  <2> HIDE DEF a, b, t, n
  <2>4. a \in Seq(S) /\ b \in Seq(S) /\ Len(a) = k - 1 /\ Len(b) = n - k
    BY <2>1, <2>2 DEF a, b
  <2>4a. /\ a \o b \in Seq(S) /\ Len(a \o b) = n - 1
         /\ \A i \in 1 .. n - 1 : (a \o b)[i] = IF i <= k - 1 THEN a[i] ELSE b[i - (k - 1)]
    <3>1. Len(a) + Len(b) = n - 1
      BY <1>1, <2>4
    <3>2. /\ a \o b \in Seq(S) /\ Len(a \o b) = Len(a) + Len(b)
          /\ \A i \in 1 .. Len(a) + Len(b) :
               (a \o b)[i] = IF i <= Len(a) THEN a[i] ELSE b[i - Len(a)]
      BY <2>4, ConcatProperties
    <3> QED  BY <2>4, <3>1, <3>2
  <2>4b. DOMAIN (a \o b) = 1 .. n - 1
    BY <2>4a
  <2>5. ASSUME NEW i \in 1 .. n - 1
        PROVE  t[i] = IF i < k THEN s[i] ELSE s[i + 1]
    <3>1. CASE i < k
      <4>1. i <= k - 1 /\ i \in 1 .. k - 1
        BY <1>1, <3>1
      <4>2. t[i] = a[i]
        BY <2>3, <2>4a, <4>1
      <4> QED  BY <2>1, <3>1, <4>1, <4>2 DEF a
    <3>2. CASE ~(i < k)
      <4>1. i - (k - 1) \in 1 .. n - k /\ k + (i - (k - 1)) = i + 1
        BY <1>1, <3>2
      <4>2. ~(i <= k - 1)
        BY <1>1, <3>2
      <4>3. t[i] = b[i - (k - 1)]
        BY <2>3, <2>4a, <4>2
      <4> QED  BY <2>2, <3>2, <4>1, <4>3 DEF b
    <3> QED  BY <3>1, <3>2
  <2> QED  BY <2>3, <2>4b, <2>5
<1> HIDE DEF t, n
<1> DEFINE from(i) == IF i < k THEN i ELSE i + 1
<1>2a. \A i \in 1 .. n - 1 : from(i) \in 1 .. n /\ from(i) # k /\ t[i] = s[from(i)]
  BY <1>1, <1>2
<1>2b. \A i, j \in 1 .. n - 1 : from(i) = from(j) => i = j
  BY <1>1
<1> HIDE DEF from
<1>3. Distinct(t)
  BY <1>1, <1>2, <1>2a, <1>2b DEF Distinct
<1>4. ASSUME NEW x \in Range(t) PROVE x \in Range(s) /\ x.queue # s[k].queue
  <2>1. PICK i \in 1 .. n - 1 : x = t[i]
    BY <1>2 DEF Range
  <2>2. from(i) \in DOMAIN s /\ from(i) # k /\ x = s[from(i)]
    BY <1>1, <1>2a, <2>1
  <2> QED  BY <1>1, <2>2 DEF Range, Distinct
<1>5. ASSUME NEW x \in Range(s), x # s[k] PROVE x \in Range(t)
  <2>1. PICK j \in 1 .. n : x = s[j] /\ j # k
    BY <1>1, <1>5 DEF Range
  <2>2. CASE j < k
    <3>1. j \in 1 .. n - 1 /\ t[j] = x
      BY <1>1, <1>2, <2>1, <2>2
    <3> QED  BY <1>2, <3>1 DEF Range
  <2>3. CASE ~(j < k)
    <3>1. j - 1 \in 1 .. n - 1 /\ t[j - 1] = x
      BY <1>1, <1>2, <2>1, <2>3
    <3> QED  BY <1>2, <3>1 DEF Range
  <2> QED  BY <2>2, <2>3
<1>6. s[k] \in Range(s)
  BY DEF Range
<1>7. Range(s) = Range(t) \union {s[k]}
  BY <1>4, <1>5, <1>6
<1> QED  BY <1>3, <1>4, <1>7 DEF t, Queues

-----------------------------------------------------------------------------
(* A step takes the token of q to another place, or, when that is not the  *)
(* name of a place, out of the system.                                     *)
Relocates(q, to) ==
    \A p \in PlaceName, r \in Queue :
        Holds(p, r)' <=> IF r = q THEN p = to ELSE Holds(p, r)

(* A token that moves leaves every queue's tokens apart.                   *)
LEMMA Relocated ==
    ASSUME Apart, NEW q \in Queue, NEW to, Relocates(q, to)
    PROVE  Apart'
BY DEF Apart, Relocates

(* The steps that move a token without touching its ring.                  *)
LEMMA MoveLoadQueueReg ==
    ASSUME IInv, LoadQueueReg
    PROVE  /\ AllDistinct' /\ Tokens' \subseteq Tokens
           /\ \E q \in Queue : Holds("queueFifo", q) /\ Relocates(q, "queueReg")
<1> DEFINE t == Head(queueFifo)
<1>1. /\ queueFifo \in Seq(Token) /\ queueFifo # <<>> /\ Distinct(queueFifo)
      /\ queueReg = None /\ queueReg' = t /\ queueFifo' = Tail(queueFifo)
  BY DEF IInv, TypeOK, AllDistinct, LoadQueueReg
<1>2. UNCHANGED <<pipe, doorbellFifo, doorbellReg, arbOut, pifo, compFifo>>
  BY DEF LoadQueueReg
<1>3. /\ Distinct(queueFifo') /\ Range(queueFifo) = Range(queueFifo') \union {t}
      /\ Queues(queueFifo) = Queues(queueFifo') \union {t.queue}
      /\ t.queue \notin Queues(queueFifo')
  BY <1>1, TakeHead
<1>4. t \in Token /\ t # None /\ t.queue \in Queue
  <2>1. t \in Token
    BY <1>1, TailType
  <2> QED  BY <2>1, NoneAssumption DEF Token
<1> HIDE DEF t
<1>5. AllDistinct'
  BY <1>2, <1>3 DEF IInv, AllDistinct
<1>6. Tokens' \subseteq Tokens
  BY <1>1, <1>2, <1>3 DEF Tokens
<1>7. Holds("queueFifo", t.queue)
  BY <1>3 DEF Holds
<1>8. ASSUME NEW p \in PlaceName, NEW r \in Queue
      PROVE  Holds(p, r)' <=> IF r = t.queue THEN p = "queueReg" ELSE Holds(p, r)
  <2>1. CASE p = "queueFifo"
    BY <1>3, <2>1 DEF Holds
  <2>2. CASE p = "queueReg"
    BY <1>1, <1>4, <2>2 DEF Holds
  <2>3. CASE p \notin {"queueFifo", "queueReg"}
    <3>1. Holds(p, r)' <=> Holds(p, r)
      BY <1>2, <2>3 DEF Holds
    <3>2. ~Holds(p, t.queue)
      BY <1>4, <1>7, <2>3 DEF IInv, Apart, PlaceName
    <3> QED  BY <2>3, <3>1, <3>2
  <2> QED  BY <2>1, <2>2, <2>3
<1> QED  BY <1>4, <1>5, <1>6, <1>7, <1>8 DEF Relocates

(* The arbiter's register takes the head of the doorbell fifo.             *)
LEMMA MoveLoadDoorbellReg ==
    ASSUME IInv, LoadDoorbellReg
    PROVE  /\ AllDistinct' /\ Tokens' \subseteq Tokens
           /\ \E q \in Queue : Holds("doorbellFifo", q) /\ Relocates(q, "doorbellReg")
<1> DEFINE t == Head(doorbellFifo)
<1>1. /\ doorbellFifo \in Seq(Token) /\ doorbellFifo # <<>> /\ Distinct(doorbellFifo)
      /\ doorbellReg = None /\ doorbellReg' = t /\ doorbellFifo' = Tail(doorbellFifo)
  BY DEF IInv, TypeOK, AllDistinct, LoadDoorbellReg
<1>2. UNCHANGED <<pipe, queueFifo, queueReg, arbOut, pifo, compFifo>>
  BY DEF LoadDoorbellReg
<1>3. /\ Distinct(doorbellFifo')
      /\ Range(doorbellFifo) = Range(doorbellFifo') \union {t}
      /\ Queues(doorbellFifo) = Queues(doorbellFifo') \union {t.queue}
      /\ t.queue \notin Queues(doorbellFifo')
  BY <1>1, TakeHead
<1>4. t \in Token /\ t # None /\ t.queue \in Queue
  <2>1. t \in Token
    BY <1>1, TailType
  <2> QED  BY <2>1, NoneAssumption DEF Token
<1> HIDE DEF t
<1>5. AllDistinct'
  BY <1>2, <1>3 DEF IInv, AllDistinct
<1>6. Tokens' \subseteq Tokens
  BY <1>1, <1>2, <1>3 DEF Tokens
<1>7. Holds("doorbellFifo", t.queue)
  BY <1>3 DEF Holds
<1>8. ASSUME NEW p \in PlaceName, NEW r \in Queue
      PROVE  Holds(p, r)' <=> IF r = t.queue THEN p = "doorbellReg" ELSE Holds(p, r)
  <2>1. CASE p = "doorbellFifo"
    BY <1>1, <1>3, <1>4, <2>1 DEF Holds
  <2>2. CASE p = "doorbellReg"
    BY <1>1, <1>3, <1>4, <2>2 DEF Holds
  <2>3. CASE p \notin {"doorbellFifo", "doorbellReg"}
    <3>1. Holds(p, r)' <=> Holds(p, r)
      BY <1>2, <2>3 DEF Holds
    <3>2. ~Holds(p, t.queue)
      BY <1>4, <1>7, <2>3 DEF IInv, Apart, PlaceName
    <3> QED  BY <2>3, <3>1, <3>2
  <2> QED  BY <2>1, <2>2, <2>3
<1> QED  BY <1>4, <1>5, <1>6, <1>7, <1>8 DEF Relocates

(* The token in the doorbell register goes out of the arbiter.             *)
LEMMA MoveSendDoorbell ==
    ASSUME IInv, SendDoorbell
    PROVE  /\ AllDistinct' /\ Tokens' \subseteq Tokens
           /\ \E q \in Queue : Holds("doorbellReg", q) /\ Relocates(q, "arbOut")
<1> DEFINE t == doorbellReg
<1>1. /\ arbOut \in Seq(Token) /\ Distinct(arbOut) /\ t \in Token
      /\ doorbellReg' = None /\ arbOut' = Append(arbOut, t)
  BY DEF IInv, TypeOK, AllDistinct, SendDoorbell
<1>2. UNCHANGED <<pipe, queueFifo, doorbellFifo, queueReg, pifo, compFifo>>
  BY DEF SendDoorbell
<1>4. t # None /\ t.queue \in Queue
  BY <1>1, NoneAssumption DEF Token
<1>7. Holds("doorbellReg", t.queue)
  BY <1>4 DEF Holds
<1>3. /\ Distinct(arbOut') /\ Range(arbOut') = Range(arbOut) \union {t}
      /\ Queues(arbOut') = Queues(arbOut) \union {t.queue}
      /\ t.queue \notin Queues(arbOut)
  <2>1. ~Holds("arbOut", t.queue)
    BY <1>4, <1>7 DEF IInv, Apart, PlaceName
  <2>2. t.queue \notin Queues(arbOut)
    BY <2>1 DEF Holds
  <2> QED  BY <1>1, <2>2, AddLast
<1>5. AllDistinct'
  BY <1>2, <1>3 DEF IInv, AllDistinct
<1>6. Tokens' \subseteq Tokens
  BY <1>1, <1>2, <1>3, <1>4 DEF Tokens
<1>8. ASSUME NEW p \in PlaceName, NEW r \in Queue
      PROVE  Holds(p, r)' <=> IF r = t.queue THEN p = "arbOut" ELSE Holds(p, r)
  <2>1. CASE p = "doorbellReg"
    BY <1>1, <1>3, <1>4, <2>1 DEF Holds
  <2>2. CASE p = "arbOut"
    BY <1>1, <1>3, <1>4, <2>2 DEF Holds
  <2>3. CASE p \notin {"doorbellReg", "arbOut"}
    <3>1. Holds(p, r)' <=> Holds(p, r)
      BY <1>2, <2>3 DEF Holds
    <3>2. ~Holds(p, t.queue)
      BY <1>4, <1>7, <2>3 DEF IInv, Apart, PlaceName
    <3> QED  BY <2>3, <3>1, <3>2
  <2> QED  BY <2>1, <2>2, <2>3
<1> QED  BY <1>4, <1>5, <1>6, <1>7, <1>8 DEF Relocates

(* The token in the queue register goes out of the arbiter.                *)
LEMMA MoveSendQueue ==
    ASSUME IInv, SendQueue
    PROVE  /\ AllDistinct' /\ Tokens' \subseteq Tokens
           /\ \E q \in Queue : Holds("queueReg", q) /\ Relocates(q, "arbOut")
<1> DEFINE t == queueReg
<1>1. /\ arbOut \in Seq(Token) /\ Distinct(arbOut) /\ t \in Token
      /\ queueReg' = None /\ arbOut' = Append(arbOut, t)
  BY DEF IInv, TypeOK, AllDistinct, SendQueue
<1>2. UNCHANGED <<pipe, queueFifo, doorbellFifo, doorbellReg, pifo, compFifo>>
  BY DEF SendQueue
<1>4. t # None /\ t.queue \in Queue
  BY <1>1, NoneAssumption DEF Token
<1>7. Holds("queueReg", t.queue)
  BY <1>4 DEF Holds
<1>3. /\ Distinct(arbOut') /\ Range(arbOut') = Range(arbOut) \union {t}
      /\ Queues(arbOut') = Queues(arbOut) \union {t.queue}
      /\ t.queue \notin Queues(arbOut)
  <2>1. ~Holds("arbOut", t.queue)
    BY <1>4, <1>7 DEF IInv, Apart, PlaceName
  <2>2. t.queue \notin Queues(arbOut)
    BY <2>1 DEF Holds
  <2> QED  BY <1>1, <2>2, AddLast
<1>5. AllDistinct'
  BY <1>2, <1>3 DEF IInv, AllDistinct
<1>6. Tokens' \subseteq Tokens
  BY <1>1, <1>2, <1>3, <1>4 DEF Tokens
<1>8. ASSUME NEW p \in PlaceName, NEW r \in Queue
      PROVE  Holds(p, r)' <=> IF r = t.queue THEN p = "arbOut" ELSE Holds(p, r)
  <2>1. CASE p = "queueReg"
    BY <1>1, <1>3, <1>4, <2>1 DEF Holds
  <2>2. CASE p = "arbOut"
    BY <1>1, <1>3, <1>4, <2>2 DEF Holds
  <2>3. CASE p \notin {"queueReg", "arbOut"}
    <3>1. Holds(p, r)' <=> Holds(p, r)
      BY <1>2, <2>3 DEF Holds
    <3>2. ~Holds(p, t.queue)
      BY <1>4, <1>7, <2>3 DEF IInv, Apart, PlaceName
    <3> QED  BY <2>3, <3>1, <3>2
  <2> QED  BY <2>1, <2>2, <2>3
<1> QED  BY <1>4, <1>5, <1>6, <1>7, <1>8 DEF Relocates

(* The token out of the arbiter goes into the PIFO.                        *)
LEMMA MovePushPifo ==
    ASSUME IInv, PushPifo
    PROVE  /\ AllDistinct' /\ Tokens' \subseteq Tokens
           /\ \E q \in Queue : Holds("arbOut", q) /\ Relocates(q, "pifo")
<1> DEFINE t == Head(arbOut)
<1>1. /\ arbOut \in Seq(Token) /\ arbOut # <<>> /\ Distinct(arbOut)
      /\ arbOut' = Tail(arbOut)
  BY DEF IInv, TypeOK, AllDistinct, PushPifo
<1>1a. pifo \in Seq(Token) /\ Distinct(pifo) /\ pifo' = Append(pifo, t)
  BY DEF IInv, TypeOK, AllDistinct, PushPifo
<1>2. UNCHANGED <<pipe, queueFifo, doorbellFifo, queueReg, doorbellReg, compFifo>>
  BY DEF PushPifo
<1>4. t \in Token /\ t.queue \in Queue
  <2>1. t \in Token
    BY <1>1, TailType
  <2> QED  BY <2>1 DEF Token
<1>3a. /\ Distinct(arbOut') /\ Range(arbOut) = Range(arbOut') \union {t}
       /\ Queues(arbOut) = Queues(arbOut') \union {t.queue}
       /\ t.queue \notin Queues(arbOut')
  BY <1>1, TakeHead
<1> HIDE DEF t
<1>7. Holds("arbOut", t.queue)
  BY <1>3a DEF Holds
<1>3b. /\ Distinct(pifo') /\ Range(pifo') = Range(pifo) \union {t}
       /\ Queues(pifo') = Queues(pifo) \union {t.queue}
       /\ t.queue \notin Queues(pifo)
  <2>1. ~Holds("pifo", t.queue)
    BY <1>4, <1>7 DEF IInv, Apart, PlaceName
  <2>2. t.queue \notin Queues(pifo)
    BY <2>1 DEF Holds
  <2> QED  BY <1>1a, <1>4, <2>2, AddLast
<1>5. AllDistinct'
  BY <1>2, <1>3a, <1>3b DEF IInv, AllDistinct
<1>6. Tokens' \subseteq Tokens
  BY <1>2, <1>3a, <1>3b DEF Tokens
<1>8. ASSUME NEW p \in PlaceName, NEW r \in Queue
      PROVE  Holds(p, r)' <=> IF r = t.queue THEN p = "pifo" ELSE Holds(p, r)
  <2>1. CASE p = "arbOut"
    BY <1>3a, <1>3b, <2>1 DEF Holds
  <2>2. CASE p = "pifo"
    BY <1>3a, <1>3b, <2>2 DEF Holds
  <2>3. CASE p \notin {"arbOut", "pifo"}
    <3>1. Holds(p, r)' <=> Holds(p, r)
      BY <1>2, <2>3 DEF Holds
    <3>2. ~Holds(p, t.queue)
      BY <1>4, <1>7, <2>3 DEF IInv, Apart, PlaceName
    <3> QED  BY <2>3, <3>1, <3>2
  <2> QED  BY <2>1, <2>2, <2>3
<1> QED  BY <1>4, <1>5, <1>6, <1>7, <1>8 DEF Relocates

(* A token on its way is at some place before the completions.             *)
LEMMA TokenPlace ==
    ASSUME TypeOK, NEW t \in Tokens
    PROVE  /\ t \in Token /\ t.queue \in Queue
           /\ \E p \in PlaceName \ {"compFifo", "pipe"} : Holds(p, t.queue)
<1>1. /\ Range(queueFifo) \subseteq Token /\ Range(doorbellFifo) \subseteq Token
      /\ Range(arbOut) \subseteq Token /\ Range(pifo) \subseteq Token
  BY DEF TypeOK, Range
<1>2. t \in Token
  BY <1>1 DEF Tokens, TypeOK
<1>3. t.queue \in Queue
  BY <1>2 DEF Token
<1>4. CASE t \in Range(queueFifo)
  <2>1. Holds("queueFifo", t.queue)
    BY <1>4 DEF Holds, Queues
  <2> QED  BY <1>2, <1>3, <2>1 DEF PlaceName
<1>5. CASE t \in Range(doorbellFifo)
  <2>1. Holds("doorbellFifo", t.queue)
    BY <1>5 DEF Holds, Queues
  <2> QED  BY <1>2, <1>3, <2>1 DEF PlaceName
<1>6. CASE t \in Range(arbOut)
  <2>1. Holds("arbOut", t.queue)
    BY <1>6 DEF Holds, Queues
  <2> QED  BY <1>2, <1>3, <2>1 DEF PlaceName
<1>7. CASE t \in Range(pifo)
  <2>1. Holds("pifo", t.queue)
    BY <1>7 DEF Holds, Queues
  <2> QED  BY <1>2, <1>3, <2>1 DEF PlaceName
<1>8. CASE t \in {queueReg, doorbellReg} \ {None}
  <2>1. Holds("queueReg", t.queue) \/ Holds("doorbellReg", t.queue)
    BY <1>8 DEF Holds
  <2> QED  BY <1>2, <1>3, <2>1 DEF PlaceName
<1> QED  BY <1>2, <1>3, <1>4, <1>5, <1>6, <1>7, <1>8 DEF Tokens

(* A fifo takes the word or drops it.                                      *)
LEMMA PutDistinct ==
    ASSUME NEW S, NEW s \in Seq(S), NEW x \in S, Distinct(s),
           x.queue \notin Queues(s)
    PROVE  /\ Distinct(Put(s, x))
           /\ Range(Put(s, x)) \subseteq Range(s) \union {x}
           /\ Queues(Put(s, x)) =
                IF Len(s) < FifoDepth THEN Queues(s) \union {x.queue} ELSE Queues(s)
<1>1. CASE Len(s) < FifoDepth
  <2>1. /\ Distinct(Append(s, x)) /\ Range(Append(s, x)) = Range(s) \union {x}
        /\ Queues(Append(s, x)) = Queues(s) \union {x.queue}
    BY AddLast
  <2> QED  BY <1>1, <2>1 DEF Put
<1>2. CASE ~(Len(s) < FifoDepth)
  BY <1>2 DEF Put
<1> QED  BY <1>1, <1>2

(* Where a word offered to a fifo goes.                                    *)
Into(fifo, name) == IF Len(fifo) < FifoDepth THEN name ELSE "lost"

(* A token of the PIFO goes to the completion fifo.                        *)
LEMMA MovePopPifo ==
    ASSUME IInv, NEW i \in DOMAIN pifo, PopPifo(i)
    PROVE  /\ AllDistinct' /\ Tokens' \subseteq Tokens
           /\ \A c \in Range(compFifo') : c.tag = consTag[c.queue]
           /\ \E q \in Queue :
                Holds("pifo", q) /\ Relocates(q, Into(compFifo, "compFifo"))
<1> DEFINE t == pifo[i]
           c == [queue |-> t.queue, tag |-> t.tag]
<1>1. pifo \in Seq(Token) /\ Distinct(pifo) /\ pifo' = RemoveAt(pifo, i)
  BY DEF IInv, TypeOK, AllDistinct, PopPifo
<1>2. compFifo \in Seq(Comp) /\ Distinct(compFifo) /\ compFifo' = Put(compFifo, c)
  BY DEF IInv, TypeOK, AllDistinct, PopPifo
<1>3. UNCHANGED <<pipe, queueFifo, doorbellFifo, queueReg, doorbellReg, arbOut>>
  BY DEF PopPifo, outVars
<1>4. t \in Token
  BY <1>1
<1>5. t.queue \in Queue /\ c \in Comp /\ c.queue = t.queue /\ c.tag = t.tag
  BY <1>4 DEF Token, Comp
<1>6. /\ Distinct(pifo') /\ Range(pifo) = Range(pifo') \union {t}
      /\ Queues(pifo) = Queues(pifo') \union {t.queue}
      /\ t.queue \notin Queues(pifo')
  BY <1>1, TakeAny
<1> HIDE DEF t, c
<1>7. Holds("pifo", t.queue)
  BY <1>6 DEF Holds
<1>8. t.queue \notin Queues(compFifo)
  <2>1. ~Holds("compFifo", t.queue)
    BY <1>5, <1>7 DEF IInv, Apart, PlaceName
  <2> QED  BY <2>1 DEF Holds
<1>9. /\ Distinct(compFifo') /\ Range(compFifo') \subseteq Range(compFifo) \union {c}
      /\ Queues(compFifo') = IF Len(compFifo) < FifoDepth
                               THEN Queues(compFifo) \union {t.queue} ELSE Queues(compFifo)
  BY <1>2, <1>5, <1>8, PutDistinct
<1>10. AllDistinct'
  BY <1>3, <1>6, <1>9 DEF IInv, AllDistinct
<1>11. Tokens' \subseteq Tokens
  BY <1>3, <1>6 DEF Tokens
<1>12. \A x \in Range(compFifo') : x.tag = consTag[x.queue]
  <2>1. t.tag = consTag[t.queue]
    BY <1>6 DEF IInv, Heads, Tokens, IsHead
  <2> QED  BY <1>5, <1>9, <2>1 DEF IInv, Heads
<1>13. ASSUME NEW p \in PlaceName, NEW r \in Queue
       PROVE  Holds(p, r)' <=>
                IF r = t.queue THEN p = Into(compFifo, "compFifo") ELSE Holds(p, r)
  <2>1. CASE p = "pifo"
    BY <1>6, <2>1 DEF Holds, Into
  <2>2. CASE p = "compFifo"
    BY <1>8, <1>9, <2>2 DEF Holds, Into
  <2>3. CASE p \notin {"pifo", "compFifo"}
    <3>1. Holds(p, r)' <=> Holds(p, r)
      BY <1>3, <2>3 DEF Holds
    <3>2. ~Holds(p, t.queue)
      BY <1>5, <1>7, <2>3 DEF IInv, Apart, PlaceName
    <3>3. p # Into(compFifo, "compFifo")
      BY <2>3 DEF Into, PlaceName
    <3> QED  BY <3>1, <3>2, <3>3
  <2> QED  BY <2>1, <2>2, <2>3
<1> QED  BY <1>5, <1>7, <1>10, <1>11, <1>12, <1>13 DEF Relocates

(* The head of the completion fifo enters the pipeline.                    *)
LEMMA MoveAcceptComp ==
    ASSUME IInv, AcceptComp
    PROVE  /\ AllDistinct' /\ PipeFresh'
           /\ \A c \in Range(compFifo') : c.tag = consTag[c.queue]
           /\ \E q \in Queue : Holds("compFifo", q) /\ Relocates(q, "pipe")
<1> DEFINE c == Head(compFifo)
           op == [kind |-> "pifo_comp", queue |-> c.queue,
                  prod |-> prodTag[c.queue], cons |-> consTag[c.queue],
                  word |-> doorbellRam[c.queue][NextSlot(c.tag)]]
<1>1. /\ compFifo \in Seq(Comp) /\ compFifo # <<>> /\ Distinct(compFifo)
      /\ compFifo' = Tail(compFifo)
  BY DEF IInv, TypeOK, AllDistinct, AcceptComp
<1>2. pipe \in Seq(Op) /\ Distinct(pipe) /\ pipe' = Append(pipe, op) /\ ~Hazard(c.queue)
  BY DEF IInv, TypeOK, AllDistinct, AcceptComp
<1>3. UNCHANGED <<ringVars, queueFifo, doorbellFifo, queueReg, doorbellReg, arbOut, pifo>>
  BY DEF AcceptComp, outVars
<1>4. c \in Comp
  BY <1>1, TailType
<1>5. /\ c.queue \in Queue /\ c.tag \in Tag
      /\ prodTag[c.queue] \in Tag /\ consTag[c.queue] \in Tag
  BY <1>4 DEF Comp, IInv, TypeOK
<1>6. op \in Op
  <2>1. doorbellRam[c.queue][NextSlot(c.tag)] \in Doorbell
    BY <1>5, TagArithmetic DEF IInv, TypeOK
  <2> QED  BY <1>5, <2>1 DEF Op, CompOp
<1>7. /\ Distinct(compFifo') /\ Range(compFifo) = Range(compFifo') \union {c}
      /\ Queues(compFifo) = Queues(compFifo') \union {c.queue}
      /\ c.queue \notin Queues(compFifo')
  BY <1>1, TakeHead
<1>8. /\ op.kind = "pifo_comp" /\ op.queue = c.queue
      /\ op.prod = prodTag[c.queue] /\ op.cons = consTag[c.queue]
      /\ op.word = doorbellRam[c.queue][SlotOf(NextTag(consTag[c.queue]))]
  <2>1. c.tag = consTag[c.queue]
    BY <1>7 DEF IInv, Heads
  <2>2. NextSlot(c.tag) = SlotOf(NextTag(consTag[c.queue]))
    BY <1>5, <2>1, NextSlotValue
  <2> QED  BY <2>2
<1> HIDE DEF c, op
<1>9. Holds("compFifo", c.queue)
  BY <1>7 DEF Holds
<1>10. c.queue \notin Queues(pipe)
  BY <1>2 DEF Hazard, Queues, Range
<1>11. Distinct(pipe') /\ Range(pipe') = Range(pipe) \union {op}
  BY <1>2, <1>6, <1>8, <1>10, AddLast
<1>12. AllDistinct'
  BY <1>3, <1>7, <1>11 DEF IInv, AllDistinct
<1>13. PipeFresh'
  <2>1. \A x \in Range(pipe) : Fresh(x)'
    BY <1>3 DEF IInv, PipeFresh, Fresh, ringVars
  <2>2. ASSUME NEW x, x = op PROVE Fresh(x)'
    BY <1>3, <1>8, <2>2 DEF Fresh, ringVars
  <2> QED  BY <1>11, <2>1, <2>2 DEF PipeFresh
<1>14. \A x \in Range(compFifo') : x.tag = consTag[x.queue]
  BY <1>7 DEF IInv, Heads
<1>15. ASSUME NEW p \in PlaceName, NEW r \in Queue
       PROVE  Holds(p, r)' <=> IF r = c.queue THEN p = "pipe" ELSE Holds(p, r)
  <2>1. CASE p = "compFifo"
    BY <1>7, <2>1 DEF Holds
  <2>2. CASE p = "pipe"
    BY <1>8, <1>11, <2>2 DEF Holds
  <2>3. CASE p \notin {"compFifo", "pipe"}
    <3>1. Holds(p, r)' <=> Holds(p, r)
      BY <1>3, <2>3 DEF Holds
    <3>2. ~Holds(p, c.queue)
      BY <1>5, <1>9, <2>3 DEF IInv, Apart, PlaceName
    <3> QED  BY <2>3, <3>1, <3>2
  <2> QED  BY <2>1, <2>2, <2>3
<1> QED  BY <1>5, <1>9, <1>12, <1>13, <1>14, <1>15 DEF Relocates

-----------------------------------------------------------------------------
(* The completion: the ring loses its head, the token moves on to the next *)
(* doorbell or, when there is none, ends here.                             *)
LEMMA CompPerformed ==
    ASSUME IInv, PerformComp
    PROVE  /\ AllDistinct' /\ OnlyNonempty' /\ Heads' /\ PipeFresh' /\ RingWithinDepth'
           /\ \E q \in Queue :
                /\ Holds("pipe", q)
                /\ \A r \in Queue \ {q} :
                      prodTag'[r] = prodTag[r] /\ consTag'[r] = consTag[r]
                /\ Relocates(q, IF prodTag'[q] = consTag'[q] THEN "none"
                                ELSE Into(doorbellFifo, "doorbellFifo"))
<1> DEFINE op == Head(pipe)
           q == op.queue
           next == NextTag(op.cons)
           t == [queue |-> q, tag |-> next, doorbell |-> op.word]
           to == IF prodTag[q] = next THEN "none" ELSE Into(doorbellFifo, "doorbellFifo")
<1>1. /\ pipe \in Seq(Op) /\ pipe # <<>> /\ Distinct(pipe)
      /\ pipe' = Tail(pipe) /\ op.kind = "pifo_comp"
  BY DEF IInv, TypeOK, AllDistinct, PerformComp
<1>2. /\ doorbellFifo \in Seq(Token) /\ Distinct(doorbellFifo)
      /\ doorbellFifo' = IF next # op.prod THEN Put(doorbellFifo, t) ELSE doorbellFifo
      /\ consTag \in [Queue -> Tag] /\ prodTag \in [Queue -> Tag]
      /\ consTag' = [consTag EXCEPT ![q] = next]
  BY DEF IInv, TypeOK, AllDistinct, PerformComp
<1>3. UNCHANGED <<doorbellRam, prodTag, queueFifo, queueReg, doorbellReg, arbOut, pifo,
                  compFifo>>
  BY DEF PerformComp
<1>4. op \in Op
  BY <1>1, TailType
<1>5. q \in Queue /\ op.cons \in Tag /\ op.prod \in Tag /\ op.word \in Doorbell
  BY <1>4 DEF Op, DoorbellOp, CompOp
<1>6. next \in Tag /\ t \in Token /\ t.queue = q /\ t.tag = next /\ t.doorbell = op.word
  BY <1>5, TagArithmetic DEF Token
<1>7. /\ Distinct(pipe') /\ Range(pipe) = Range(pipe') \union {op}
      /\ \A x \in Range(pipe') : x.queue # q
  BY <1>1, TakeHead
<1>8. Fresh(op)
  BY <1>7 DEF IInv, PipeFresh
<1> HIDE DEF op, t, next
<1>9. op.prod = prodTag[q] /\ op.cons = consTag[q] /\ next = NextTag(consTag[q])
  BY <1>8 DEF Fresh, next
<1>10. next # op.prod => op.word = doorbellRam[q][SlotOf(next)]
  BY <1>1, <1>8 DEF Fresh, next
<1>11. Holds("pipe", q)
  BY <1>1, <1>7 DEF Holds
<1>12. \A p \in PlaceName : Holds(p, q) => p = "pipe"
  BY <1>5, <1>11 DEF IInv, Apart, PlaceName
<1>13. q \notin Queues(doorbellFifo)
  BY <1>12 DEF Holds, PlaceName
<1>14. /\ consTag'[q] = next /\ prodTag' = prodTag
       /\ \A r \in Queue \ {q} : consTag'[r] = consTag[r]
  BY <1>2, <1>3, <1>5
<1>15. /\ Distinct(doorbellFifo')
       /\ \A x \in Range(doorbellFifo') :
             x \in Range(doorbellFifo) \/ (x = t /\ next # op.prod)
       /\ \A r : r \in Queues(doorbellFifo') <=>
                 r \in Queues(doorbellFifo) \/ (r = q /\ to = "doorbellFifo")
  <2>1. CASE next = op.prod
    <3>1. doorbellFifo' = doorbellFifo /\ to = "none"
      BY <1>2, <1>9, <2>1
    <3> QED  BY <1>2, <3>1
  <2>2. CASE next # op.prod
    <3>1. doorbellFifo' = Put(doorbellFifo, t) /\ to = Into(doorbellFifo, "doorbellFifo")
      BY <1>2, <1>9, <2>2
    <3>2. /\ Distinct(doorbellFifo')
          /\ Range(doorbellFifo') \subseteq Range(doorbellFifo) \union {t}
          /\ Queues(doorbellFifo') =
                IF Len(doorbellFifo) < FifoDepth
                  THEN Queues(doorbellFifo) \union {q} ELSE Queues(doorbellFifo)
      <4>1. doorbellFifo \in Seq(Token) /\ Distinct(doorbellFifo)
        BY <1>2
      <4> QED  BY <1>6, <1>13, <3>1, <4>1, PutDistinct
    <3> QED  BY <2>2, <3>1, <3>2 DEF Into
  <2> QED  BY <2>1, <2>2
<1>16. to # "pipe" /\ (to = "doorbellFifo" => next # op.prod)
       /\ to \notin PlaceName \ {"doorbellFifo"}
  BY <1>9 DEF Into, PlaceName
<1>17. to = IF prodTag'[q] = consTag'[q] THEN "none" ELSE Into(doorbellFifo, "doorbellFifo")
  BY <1>14
<1> HIDE DEF to
<1>18. ASSUME NEW p \in PlaceName, NEW r \in Queue
       PROVE  Holds(p, r)' <=> IF r = q THEN p = to ELSE Holds(p, r)
  <2>1. CASE p = "pipe"
    BY <1>7, <1>16, <2>1 DEF Holds
  <2>2. CASE p = "doorbellFifo"
    BY <1>13, <1>15, <2>2 DEF Holds
  <2>3. CASE p \notin {"pipe", "doorbellFifo"}
    <3>1. Holds(p, r)' <=> Holds(p, r)
      BY <1>3, <2>3 DEF Holds
    <3>2. ~Holds(p, q) /\ p # to
      BY <1>12, <1>16, <2>3
    <3> QED  BY <3>1, <3>2
  <2> QED  BY <2>1, <2>2, <2>3
<1>19. AllDistinct'
  BY <1>3, <1>7, <1>15 DEF IInv, AllDistinct
<1>20. OnlyNonempty'
  <2> SUFFICES ASSUME NEW r \in Queue, NEW p \in PlaceName, Holds(p, r)'
               PROVE  prodTag'[r] # consTag'[r]
    BY DEF OnlyNonempty
  <2>1. CASE r = q
    <3>1. p = to
      BY <1>18, <2>1
    <3>2. next # op.prod
      BY <1>16, <3>1
    <3> QED  BY <1>9, <1>14, <2>1, <3>2
  <2>2. CASE r # q
    BY <1>14, <1>18, <2>2 DEF IInv, OnlyNonempty
  <2> QED  BY <2>1, <2>2
<1>21. Heads'
  <2>1. ASSUME NEW x \in Tokens' PROVE IsHead(x)'
    <3>1. x \in Tokens \/ (x = t /\ next # op.prod)
      BY <1>3, <1>15 DEF Tokens
    <3>2. CASE x \in Tokens
      <4>1. x.queue \in Queue /\ x.queue # q
        BY <1>12, <3>2, TokenPlace DEF IInv
      <4> QED  BY <1>3, <1>14, <3>2, <4>1 DEF IInv, Heads, IsHead
    <3>3. CASE x = t /\ next # op.prod
      BY <1>3, <1>6, <1>10, <1>14, <3>3 DEF IsHead
    <3> QED  BY <3>1, <3>2, <3>3
  <2>2. ASSUME NEW c \in Range(compFifo) PROVE c.tag = consTag'[c.queue]
    <3>0. compFifo \in Seq(Comp)
      BY DEF IInv, TypeOK
    <3>1. c.queue \in Queue
      <4>1. c \in Comp
        BY <3>0 DEF Range
      <4> QED  BY <4>1 DEF Comp
    <3>2. Holds("compFifo", c.queue)
      BY DEF Holds, Queues
    <3>3. c.queue # q
      BY <1>12, <3>2 DEF PlaceName
    <3> QED  BY <1>14, <3>1, <3>3 DEF IInv, Heads
  <2> QED  BY <1>3, <2>1, <2>2 DEF Heads
<1>22. PipeFresh'
  <2> SUFFICES ASSUME NEW x \in Range(pipe') PROVE Fresh(x)'
    BY DEF PipeFresh
  <2>1. Fresh(x) /\ x.queue # q
    BY <1>7 DEF IInv, PipeFresh
  <2>2. x \in Op /\ x.queue \in Queue
    <3>1. x \in Op
      BY <1>1, <1>7 DEF Range
    <3> QED  BY <3>1 DEF Op, DoorbellOp, CompOp
  <2> QED  BY <1>3, <1>14, <2>1, <2>2 DEF Fresh
<1>23. RingWithinDepth'
  <2> SUFFICES ASSUME NEW r \in Queue PROVE Between(prodTag[r], consTag'[r]) <= DoorbellDepth
    BY <1>14 DEF RingWithinDepth, Occupancy, Between
  <2>1. Between(prodTag[r], consTag[r]) <= DoorbellDepth
    BY DEF IInv, RingWithinDepth, Occupancy, Between
  <2>2. CASE r = q
    <3>1. prodTag[q] # consTag[q]
      BY <1>5, <1>11 DEF IInv, OnlyNonempty, PlaceName
    <3>2. prodTag[q] \in Tag /\ consTag[q] \in Tag
      BY <1>2, <1>5
    <3> QED  BY <1>9, <1>14, <2>1, <2>2, <3>1, <3>2, Consume
  <2>3. CASE r # q
    BY <1>14, <2>1, <2>3
  <2> QED  BY <2>2, <2>3
<1> QED
  BY <1>5, <1>11, <1>14, <1>17, <1>18, <1>19, <1>20, <1>21, <1>22, <1>23 DEF Relocates

(* The doorbell: the ring grows unless it is full, and a token appears     *)
(* exactly when the ring was idle.                                         *)
LEMMA DoorbellPerformed ==
    ASSUME IInv, PerformDoorbell
    PROVE  /\ AllDistinct' /\ Apart' /\ OnlyNonempty' /\ Heads' /\ PipeFresh'
           /\ RingWithinDepth'
           /\ \E q \in Queue :
                /\ \A r \in Queue \ {q} :
                      prodTag'[r] = prodTag[r] /\ consTag'[r] = consTag[r]
                /\ \A r \in Queue \ {q}, p \in PlaceName : Holds(p, r)' <=> Holds(p, r)
                /\ IF prodTag[q] = consTag[q]
                     THEN /\ q \notin Queues(queueFifo)
                          /\ Len(queueFifo) < FifoDepth => Holds("queueFifo", q)'
                     ELSE \A p \in PlaceName : Holds(p, q)' <=> Holds(p, q)
<1> DEFINE op == Head(pipe)
           q == op.queue
           next == NextTag(op.prod)
           t == [queue |-> q, tag |-> op.prod, doorbell |-> op.word]
<1>1. /\ pipe \in Seq(Op) /\ pipe # <<>> /\ Distinct(pipe)
      /\ pipe' = Tail(pipe) /\ op.kind = "axil_doorbell"
  BY DEF IInv, TypeOK, AllDistinct, PerformDoorbell
<1>2. /\ IF Full(op.prod, op.cons)
           THEN doorbellRam' = doorbellRam /\ prodTag' = prodTag
           ELSE /\ doorbellRam' = [doorbellRam EXCEPT ![q][SlotOf(op.prod)] = op.word]
                /\ prodTag' = [prodTag EXCEPT ![q] = next]
      /\ queueFifo' = IF Idle(op.prod, op.cons) THEN Put(queueFifo, t) ELSE queueFifo
  BY DEF PerformDoorbell
<1>2a. /\ doorbellRam \in [Queue -> [Slot -> Doorbell]]
       /\ consTag \in [Queue -> Tag] /\ prodTag \in [Queue -> Tag]
  BY DEF IInv, TypeOK
<1>2b. queueFifo \in Seq(Token) /\ Distinct(queueFifo)
  BY DEF IInv, TypeOK, AllDistinct
<1>3. UNCHANGED <<consTag, doorbellFifo, queueReg, doorbellReg, arbOut, pifo, compFifo>>
  BY DEF PerformDoorbell
<1>4. op \in Op
  BY <1>1, TailType
<1>5. q \in Queue /\ op.cons \in Tag /\ op.prod \in Tag /\ op.word \in Doorbell
  BY <1>4 DEF Op, DoorbellOp, CompOp
<1>6. /\ SlotOf(op.prod) \in Slot
      /\ t \in Token /\ t.queue = q /\ t.tag = op.prod /\ t.doorbell = op.word
  BY <1>5, TagArithmetic DEF Token
<1>7. /\ Distinct(pipe') /\ Range(pipe) = Range(pipe') \union {op}
      /\ \A x \in Range(pipe') : x.queue # q
  BY <1>1, TakeHead
<1>8. Fresh(op)
  BY <1>7 DEF IInv, PipeFresh
<1> HIDE DEF op, t, next
<1>9. op.prod = prodTag[q] /\ op.cons = consTag[q] /\ next = NextTag(prodTag[q])
  BY <1>8 DEF Fresh, next
<1>10. prodTag[q] \in Tag /\ consTag[q] \in Tag /\ SlotOf(prodTag[q]) \in Slot
  BY <1>2a, <1>5, TagArithmetic
<1>11. Between(prodTag[q], consTag[q]) <= DoorbellDepth
  BY <1>5 DEF IInv, RingWithinDepth, Occupancy, Between

(* What the ring has become.                                               *)
<1>12. \A r \in Queue \ {q} : prodTag'[r] = prodTag[r] /\ doorbellRam'[r] = doorbellRam[r]
  BY <1>2, <1>2a, <1>5
<1>13. /\ Between(prodTag'[q], consTag[q]) <= DoorbellDepth
       /\ prodTag[q] # consTag[q] => prodTag'[q] # consTag[q]
       /\ prodTag[q] = consTag[q] => prodTag'[q] # consTag[q]
       /\ prodTag[q] # consTag[q] =>
             doorbellRam'[q][SlotOf(consTag[q])] = doorbellRam[q][SlotOf(consTag[q])]
       /\ prodTag[q] = consTag[q] => doorbellRam'[q][SlotOf(consTag[q])] = op.word
  <2>1. CASE Full(op.prod, op.cons)
    BY <1>2, <1>9, <1>11, <2>1 DEF Full
  <2>2. CASE ~Full(op.prod, op.cons)
    <3>1. prodTag'[q] = next
      BY <1>2, <1>2a, <1>5, <2>2
    <3>2. /\ doorbellRam'[q][SlotOf(prodTag[q])] = op.word
          /\ \A s \in Slot \ {SlotOf(prodTag[q])} : doorbellRam'[q][s] = doorbellRam[q][s]
      <4>1. doorbellRam' = [doorbellRam EXCEPT ![q][SlotOf(prodTag[q])] = op.word]
        BY <1>2, <1>9, <2>2
      <4>2. doorbellRam[q] \in [Slot -> Doorbell]
        BY <1>2a, <1>5
      <4>3. doorbellRam'[q] = [doorbellRam[q] EXCEPT ![SlotOf(prodTag[q])] = op.word]
        BY <1>2a, <1>5, <4>1
      <4> QED  BY <1>10, <4>2, <4>3
    <3>3. /\ Between(next, consTag[q]) <= DoorbellDepth /\ next # consTag[q]
          /\ prodTag[q] # consTag[q] => SlotOf(prodTag[q]) # SlotOf(consTag[q])
      BY <1>9, <1>10, <1>11, <2>2, Produce
    <3>4. SlotOf(consTag[q]) \in Slot
      BY <1>10, TagArithmetic
    <3> QED  BY <3>1, <3>2, <3>3, <3>4
  <2> QED  BY <2>1, <2>2

(* Where the tokens are.                                                   *)
<1>14. prodTag[q] = consTag[q] => \A p \in PlaceName : ~Holds(p, q)
  BY <1>5 DEF IInv, OnlyNonempty
<1>15. prodTag[q] = consTag[q] => q \notin Queues(queueFifo)
  BY <1>14 DEF Holds, PlaceName
<1>16. /\ Distinct(queueFifo')
       /\ \A x \in Range(queueFifo') :
             x \in Range(queueFifo) \/ (x = t /\ prodTag[q] = consTag[q])
       /\ \A r : r \in Queues(queueFifo') <=>
                 \/ r \in Queues(queueFifo)
                 \/ r = q /\ prodTag[q] = consTag[q] /\ Len(queueFifo) < FifoDepth
  <2>1. CASE prodTag[q] # consTag[q]
    BY <1>2, <1>2b, <1>9, <2>1 DEF Idle
  <2>2. CASE prodTag[q] = consTag[q]
    <3>1. queueFifo' = Put(queueFifo, t)
      BY <1>2, <1>9, <2>2 DEF Idle
    <3>2. /\ Distinct(queueFifo')
          /\ Range(queueFifo') \subseteq Range(queueFifo) \union {t}
          /\ Queues(queueFifo') = IF Len(queueFifo) < FifoDepth
                THEN Queues(queueFifo) \union {q} ELSE Queues(queueFifo)
      BY <1>2b, <1>6, <1>15, <2>2, <3>1, PutDistinct
    <3> QED  BY <2>2, <3>2
  <2> QED  BY <2>1, <2>2
<1>17. \A r : Holds("pipe", r)' <=> Holds("pipe", r)
  <2>1. op.kind # "pifo_comp"
    BY <1>1
  <2> QED  BY <1>7, <2>1 DEF Holds
<1>18. ASSUME NEW p \in PlaceName, NEW r \in Queue
       PROVE  Holds(p, r)' <=>
                \/ Holds(p, r)
                \/ /\ p = "queueFifo" /\ r = q
                   /\ prodTag[q] = consTag[q] /\ Len(queueFifo) < FifoDepth
  <2>1. CASE p = "queueFifo"
    BY <1>16, <2>1 DEF Holds
  <2>2. CASE p = "pipe"
    BY <1>17, <2>2
  <2>3. CASE p \notin {"pipe", "queueFifo"}
    BY <1>3, <2>3 DEF Holds
  <2> QED  BY <2>1, <2>2, <2>3

<1>19. AllDistinct'
  BY <1>3, <1>7, <1>16 DEF IInv, AllDistinct
<1>20. Apart'
  BY <1>14, <1>18 DEF IInv, Apart
<1>21. OnlyNonempty'
  <2> SUFFICES ASSUME NEW r \in Queue, NEW p \in PlaceName, Holds(p, r)'
               PROVE  prodTag'[r] # consTag'[r]
    BY DEF OnlyNonempty
  <2>1. CASE r = q
    BY <1>3, <1>13, <2>1
  <2>2. CASE r # q
    BY <1>3, <1>12, <1>18, <2>2 DEF IInv, OnlyNonempty
  <2> QED  BY <2>1, <2>2
<1>22. Heads'
  <2>1. ASSUME NEW x \in Tokens' PROVE IsHead(x)'
    <3>1. x \in Tokens \/ (x = t /\ prodTag[q] = consTag[q])
      BY <1>3, <1>16 DEF Tokens
    <3>2. CASE x \in Tokens
      <4>1. IsHead(x) /\ x.queue \in Queue
        BY <3>2, TokenPlace DEF IInv, Heads
      <4>2. CASE x.queue # q
        BY <1>3, <1>12, <4>1, <4>2 DEF IsHead
      <4>3. CASE x.queue = q
        <5>1. prodTag[q] # consTag[q]
          BY <1>14, <3>2, <4>3, TokenPlace DEF IInv
        <5>2. x.tag = consTag[q] /\ x.doorbell = doorbellRam[q][SlotOf(consTag[q])]
          BY <4>1, <4>3 DEF IsHead
        <5> QED  BY <1>3, <1>13, <4>3, <5>1, <5>2 DEF IsHead
      <4> QED  BY <4>2, <4>3
    <3>3. CASE x = t /\ prodTag[q] = consTag[q]
      BY <1>3, <1>6, <1>9, <1>13, <3>3 DEF IsHead
    <3> QED  BY <3>1, <3>2, <3>3
  <2> QED  BY <1>3, <2>1 DEF IInv, Heads
<1>23. PipeFresh'
  <2> SUFFICES ASSUME NEW x \in Range(pipe') PROVE Fresh(x)'
    BY DEF PipeFresh
  <2>1. Fresh(x) /\ x.queue # q
    BY <1>7 DEF IInv, PipeFresh
  <2>2. x.queue \in Queue
    <3>1. x \in Op
      BY <1>1, <1>7 DEF Range
    <3> QED  BY <3>1 DEF Op, DoorbellOp, CompOp
  <2> QED  BY <1>3, <1>12, <2>1, <2>2 DEF Fresh
<1>24. RingWithinDepth'
  <2> SUFFICES ASSUME NEW r \in Queue PROVE Between(prodTag'[r], consTag[r]) <= DoorbellDepth
    BY <1>3 DEF RingWithinDepth, Occupancy, Between
  <2>1. Between(prodTag[r], consTag[r]) <= DoorbellDepth
    BY DEF IInv, RingWithinDepth, Occupancy, Between
  <2> QED  BY <1>12, <1>13, <2>1
<1>25. \A r \in Queue \ {q}, p \in PlaceName : Holds(p, r)' <=> Holds(p, r)
  BY <1>18
<1>26. \A r \in Queue \ {q} : prodTag'[r] = prodTag[r] /\ consTag'[r] = consTag[r]
  BY <1>3, <1>12
<1> HIDE DEF q
<1>27. PICK r \in Queue : r = q
  BY <1>5
<1>28. prodTag[r] = consTag[r] /\ Len(queueFifo) < FifoDepth => Holds("queueFifo", r)'
  BY <1>18, <1>27 DEF PlaceName
<1>29. prodTag[r] # consTag[r] => \A p \in PlaceName : Holds(p, r)' <=> Holds(p, r)
  BY <1>18, <1>27
<1> QED
  BY <1>15, <1>19, <1>20, <1>21, <1>22, <1>23, <1>24, <1>25, <1>26, <1>27, <1>28, <1>29

(* The doorbell enters the pipeline, which holds nothing of its queue.     *)
LEMMA DoorbellAccepted ==
    ASSUME IInv, NEW q \in Queue, NEW d \in Doorbell, AcceptDoorbell(q, d)
    PROVE  /\ AllDistinct' /\ PipeFresh' /\ Tokens' = Tokens
           /\ \A p \in PlaceName, r \in Queue : Holds(p, r)' <=> Holds(p, r)
<1> DEFINE op == [kind |-> "axil_doorbell", queue |-> q,
                  prod |-> prodTag[q], cons |-> consTag[q], word |-> d]
<1>1. pipe \in Seq(Op) /\ Distinct(pipe) /\ pipe' = Append(pipe, op) /\ ~Hazard(q)
  BY DEF IInv, TypeOK, AllDistinct, AcceptDoorbell
<1>2. UNCHANGED <<ringVars, queueFifo, doorbellFifo, queueReg, doorbellReg, arbOut, pifo,
                  compFifo>>
  BY DEF AcceptDoorbell, outVars
<1>3. op \in Op
  BY DEF Op, DoorbellOp, IInv, TypeOK
<1>4. /\ op.kind # "pifo_comp" /\ op.queue = q
      /\ op.prod = prodTag[q] /\ op.cons = consTag[q]
  OBVIOUS
<1> HIDE DEF op
<1>5. q \notin Queues(pipe)
  BY <1>1 DEF Hazard, Queues, Range
<1>6. Distinct(pipe') /\ Range(pipe') = Range(pipe) \union {op}
  BY <1>1, <1>3, <1>4, <1>5, AddLast
<1>7. AllDistinct'
  BY <1>2, <1>6 DEF IInv, AllDistinct
<1>8. PipeFresh'
  <2>1. \A x \in Range(pipe) : Fresh(x)'
    BY <1>2 DEF IInv, PipeFresh, Fresh, ringVars
  <2>2. ASSUME NEW x, x = op PROVE Fresh(x)'
    BY <1>2, <1>4, <2>2 DEF Fresh, ringVars
  <2> QED  BY <1>6, <2>1, <2>2 DEF PipeFresh
<1>9. Tokens' = Tokens
  BY <1>2 DEF Tokens
<1>10. ASSUME NEW p \in PlaceName, NEW r \in Queue PROVE Holds(p, r)' <=> Holds(p, r)
  <2>1. CASE p = "pipe"
    BY <1>4, <1>6, <2>1 DEF Holds
  <2>2. CASE p # "pipe"
    BY <1>2, <2>2 DEF Holds
  <2> QED  BY <2>1, <2>2
<1> QED  BY <1>7, <1>8, <1>9, <1>10

-----------------------------------------------------------------------------
(* All rings start empty and without a token.                              *)
LEMMA IInvInit == Init => IInv /\ AllServed
<1> SUFFICES ASSUME Init PROVE IInv /\ AllServed
  OBVIOUS
<1>1. TypeOK
  BY TypeInit
<1>2. AllDistinct
  BY DEF Init, AllDistinct, Distinct
<1>3. \A p, q : ~Holds(p, q)
  BY DEF Init, Holds, Queues, Range
<1>4. Apart /\ OnlyNonempty
  BY <1>3 DEF Apart, OnlyNonempty
<1>5. Heads /\ PipeFresh
  BY DEF Init, Heads, PipeFresh, Tokens, Range
<1>6. RingWithinDepth
  <2> SUFFICES ASSUME NEW q \in Queue PROVE Between(prodTag[q], consTag[q]) <= DoorbellDepth
    BY DEF RingWithinDepth, Occupancy, Between
  <2>1. prodTag[q] = 0 /\ consTag[q] = 0 /\ 0 \in Tag
    BY DepthAssumption DEF Init, Tag
  <2> QED  BY <2>1, BetweenValue, DepthAssumption
<1>7. AllServed
  BY DEF Init, AllServed
<1> QED  BY <1>1, <1>2, <1>4, <1>5, <1>6, <1>7 DEF IInv

(* A step that moves a token and leaves rings and pipeline alone.          *)
LEMMA MovedKeeps ==
    ASSUME IInv, TypeOK', UNCHANGED ringVars, UNCHANGED pipe,
           AllDistinct', Tokens' \subseteq Tokens,
           \A c \in Range(compFifo') : c.tag = consTag[c.queue],
           NEW from \in PlaceName, NEW to,
           NEW q \in Queue, Holds(from, q), Relocates(q, to)
    PROVE  IInv'
<1>1. Apart'
  BY Relocated DEF IInv
<1>2. OnlyNonempty'
  BY DEF IInv, OnlyNonempty, Relocates, ringVars
<1>3. Heads'
  BY DEF IInv, Heads, IsHead, ringVars
<1>4. PipeFresh'
  BY DEF IInv, PipeFresh, Fresh, ringVars
<1>5. RingWithinDepth'
  BY DEF IInv, RingWithinDepth, Occupancy, ringVars
<1> QED  BY <1>1, <1>2, <1>3, <1>4, <1>5 DEF IInv

(* Every step keeps the invariant.                                         *)
LEMMA IInvNext == IInv /\ [Next]_vars => IInv'
<1> SUFFICES ASSUME IInv, [Next]_vars PROVE IInv'
  OBVIOUS
<1>0. TypeOK'
  BY TypeNext DEF IInv
<1>1. ASSUME NEW q \in Queue, NEW d \in Doorbell, AcceptDoorbell(q, d) PROVE IInv'
  <2>1. /\ AllDistinct' /\ PipeFresh' /\ Tokens' = Tokens
        /\ \A p \in PlaceName, r \in Queue : Holds(p, r)' <=> Holds(p, r)
    BY <1>1, DoorbellAccepted
  <2>2. UNCHANGED ringVars /\ UNCHANGED compFifo
    BY <1>1 DEF AcceptDoorbell
  <2>3. Apart' /\ OnlyNonempty'
    BY <2>1, <2>2 DEF IInv, Apart, OnlyNonempty, ringVars
  <2>4. Heads'
    BY <2>1, <2>2 DEF IInv, Heads, IsHead, ringVars
  <2>5. RingWithinDepth'
    BY <2>2 DEF IInv, RingWithinDepth, Occupancy, ringVars
  <2> QED  BY <1>0, <2>1, <2>3, <2>4, <2>5 DEF IInv
<1>2. CASE AcceptComp
  <2>1. PICK q \in Queue : Holds("compFifo", q) /\ Relocates(q, "pipe")
    BY <1>2, MoveAcceptComp
  <2>2. /\ AllDistinct' /\ PipeFresh'
        /\ \A c \in Range(compFifo') : c.tag = consTag[c.queue]
    BY <1>2, MoveAcceptComp
  <2>3. UNCHANGED ringVars /\ Tokens' = Tokens
    BY <1>2 DEF AcceptComp, outVars, Tokens
  <2>4. Apart'
    BY <2>1, Relocated DEF IInv
  <2>5. OnlyNonempty'
    BY <2>1, <2>3 DEF IInv, OnlyNonempty, Relocates, ringVars, PlaceName
  <2>6. Heads'
    BY <2>2, <2>3 DEF IInv, Heads, IsHead, ringVars
  <2>7. RingWithinDepth'
    BY <2>3 DEF IInv, RingWithinDepth, Occupancy, ringVars
  <2> QED  BY <1>0, <2>2, <2>4, <2>5, <2>6, <2>7 DEF IInv
<1>3. CASE PerformDoorbell
  BY <1>0, <1>3, DoorbellPerformed DEF IInv
<1>4. CASE PerformComp
  <2>1. AllDistinct' /\ OnlyNonempty' /\ Heads' /\ PipeFresh' /\ RingWithinDepth'
    BY <1>4, CompPerformed
  <2>2. \E q \in Queue : \E to : Relocates(q, to)
    BY <1>4, CompPerformed
  <2>3. Apart'
    BY <2>2, Relocated DEF IInv
  <2> QED  BY <1>0, <2>1, <2>3 DEF IInv
<1>5. CASE LoadQueueReg
  <2>1. AllDistinct' /\ Tokens' \subseteq Tokens
    BY <1>5, MoveLoadQueueReg
  <2>2. PICK q \in Queue : Holds("queueFifo", q) /\ Relocates(q, "queueReg")
    BY <1>5, MoveLoadQueueReg
  <2>3. UNCHANGED ringVars /\ UNCHANGED pipe /\ UNCHANGED compFifo
    BY <1>5 DEF LoadQueueReg
  <2>4. "queueFifo" \in PlaceName /\ \A c \in Range(compFifo') : c.tag = consTag[c.queue]
    BY <2>3 DEF PlaceName, IInv, Heads
  <2> QED  BY <1>0, <2>1, <2>2, <2>3, <2>4, MovedKeeps
<1>6. CASE LoadDoorbellReg
  <2>1. AllDistinct' /\ Tokens' \subseteq Tokens
    BY <1>6, MoveLoadDoorbellReg
  <2>2. PICK q \in Queue : Holds("doorbellFifo", q) /\ Relocates(q, "doorbellReg")
    BY <1>6, MoveLoadDoorbellReg
  <2>3. UNCHANGED ringVars /\ UNCHANGED pipe /\ UNCHANGED compFifo
    BY <1>6 DEF LoadDoorbellReg
  <2>4. "doorbellFifo" \in PlaceName /\ \A c \in Range(compFifo') : c.tag = consTag[c.queue]
    BY <2>3 DEF PlaceName, IInv, Heads
  <2> QED  BY <1>0, <2>1, <2>2, <2>3, <2>4, MovedKeeps
<1>7. CASE Arbitrate
  <2>1. UNCHANGED <<ringVars, pipe, queueFifo, doorbellFifo, queueReg, doorbellReg,
                    arbOut, pifo, compFifo>>
    BY <1>7 DEF Arbitrate
  <2> QED
    BY <1>0, <2>1 DEF IInv, AllDistinct, Apart, OnlyNonempty, Heads, PipeFresh,
       RingWithinDepth, Occupancy, Holds, Tokens, IsHead, Fresh, ringVars
<1>8. CASE SendDoorbell
  <2>1. AllDistinct' /\ Tokens' \subseteq Tokens
    BY <1>8, MoveSendDoorbell
  <2>2. PICK q \in Queue : Holds("doorbellReg", q) /\ Relocates(q, "arbOut")
    BY <1>8, MoveSendDoorbell
  <2>3. UNCHANGED ringVars /\ UNCHANGED pipe /\ UNCHANGED compFifo
    BY <1>8 DEF SendDoorbell
  <2>4. "doorbellReg" \in PlaceName /\ \A c \in Range(compFifo') : c.tag = consTag[c.queue]
    BY <2>3 DEF PlaceName, IInv, Heads
  <2> QED  BY <1>0, <2>1, <2>2, <2>3, <2>4, MovedKeeps
<1>9. CASE SendQueue
  <2>1. AllDistinct' /\ Tokens' \subseteq Tokens
    BY <1>9, MoveSendQueue
  <2>2. PICK q \in Queue : Holds("queueReg", q) /\ Relocates(q, "arbOut")
    BY <1>9, MoveSendQueue
  <2>3. UNCHANGED ringVars /\ UNCHANGED pipe /\ UNCHANGED compFifo
    BY <1>9 DEF SendQueue
  <2>4. "queueReg" \in PlaceName /\ \A c \in Range(compFifo') : c.tag = consTag[c.queue]
    BY <2>3 DEF PlaceName, IInv, Heads
  <2> QED  BY <1>0, <2>1, <2>2, <2>3, <2>4, MovedKeeps
<1>10. CASE PushPifo
  <2>1. AllDistinct' /\ Tokens' \subseteq Tokens
    BY <1>10, MovePushPifo
  <2>2. PICK q \in Queue : Holds("arbOut", q) /\ Relocates(q, "pifo")
    BY <1>10, MovePushPifo
  <2>3. UNCHANGED ringVars /\ UNCHANGED pipe /\ UNCHANGED compFifo
    BY <1>10 DEF PushPifo
  <2>4. "arbOut" \in PlaceName /\ \A c \in Range(compFifo') : c.tag = consTag[c.queue]
    BY <2>3 DEF PlaceName, IInv, Heads
  <2> QED  BY <1>0, <2>1, <2>2, <2>3, <2>4, MovedKeeps
<1>11. ASSUME NEW i \in DOMAIN pifo, PopPifo(i) PROVE IInv'
  <2>1. /\ AllDistinct' /\ Tokens' \subseteq Tokens
        /\ \A c \in Range(compFifo') : c.tag = consTag[c.queue]
    BY <1>11, MovePopPifo
  <2>2. PICK q \in Queue : Holds("pifo", q) /\ Relocates(q, Into(compFifo, "compFifo"))
    BY <1>11, MovePopPifo
  <2>3. UNCHANGED ringVars /\ UNCHANGED pipe /\ "pifo" \in PlaceName
    BY <1>11 DEF PopPifo, PlaceName
  <2>4. PICK to : to = Into(compFifo, "compFifo")
    OBVIOUS
  <2> QED  BY <1>0, <2>1, <2>2, <2>3, <2>4, MovedKeeps
<1>12. CASE UNCHANGED vars
  BY <1>0, <1>12 DEF IInv, AllDistinct, Apart, OnlyNonempty, Heads, PipeFresh,
     RingWithinDepth, Occupancy, Holds, Tokens, IsHead, Fresh, vars, ringVars, outVars
<1> QED
  BY <1>1, <1>2, <1>3, <1>4, <1>5, <1>6, <1>7, <1>8, <1>9, <1>10, <1>11, <1>12 DEF Next, HostRings, Hardware

-----------------------------------------------------------------------------
(* With a fifo entry for every queue no token is ever dropped.             *)
Capacity == IsFiniteSet(Queue) /\ Cardinality(Queue) <= FifoDepth

(* A fifo without a token of q has a free entry.                           *)
LEMMA HasRoom ==
    ASSUME Capacity, NEW S, NEW s \in Seq(S), \A x \in S : x.queue \in Queue,
           Distinct(s), NEW q \in Queue, q \notin Queues(s)
    PROVE  Len(s) < FifoDepth
<1> DEFINE n == Len(s)
           f == [i \in 1 .. n |-> s[i].queue]
<1>1. n \in Nat /\ DOMAIN s = 1 .. n /\ \A i \in 1 .. n : s[i] \in S
  OBVIOUS
<1>2. \A i \in 1 .. n : s[i].queue \in Queue \ {q}
  BY <1>1 DEF Queues, Range
<1>3. f \in Injection(1 .. n, Queue \ {q})
  BY <1>1, <1>2 DEF Injection, IsInjective, Distinct
<1>4. /\ IsFiniteSet(Queue \ {q})
      /\ Cardinality(Queue \ {q}) = Cardinality(Queue) - 1
  BY FS_RemoveElement DEF Capacity
<1>5. Cardinality(1 .. n) <= Cardinality(Queue \ {q})
  BY <1>3, <1>4, FS_Injection
<1>6. Cardinality(1 .. n) = n
  BY <1>1, FS_Interval
<1>7. Cardinality(Queue) \in Nat
  BY FS_CardinalityType DEF Capacity
<1> QED  BY <1>1, <1>4, <1>5, <1>6, <1>7, FifoAssumption DEF Capacity

(* A token that moves to a place serves its queue there.                   *)
LEMMA MovedServed ==
    ASSUME AllServed, NEW q \in Queue, NEW to \in PlaceName, Relocates(q, to),
           \A r \in Queue \ {q} : prodTag'[r] = prodTag[r] /\ consTag'[r] = consTag[r]
    PROVE  AllServed'
BY DEF AllServed, Relocates

(* With room in the fifos no queue with doorbells is left without a token. *)
LEMMA ServedNext == Capacity /\ IInv /\ AllServed /\ [Next]_vars => AllServed'
<1> SUFFICES ASSUME Capacity, IInv, AllServed, [Next]_vars PROVE AllServed'
  OBVIOUS
<1>0. /\ \A t \in Token : t.queue \in Queue
      /\ \A c \in Comp : c.queue \in Queue
  BY DEF Token, Comp
<1>1. ASSUME NEW q \in Queue, NEW d \in Doorbell, AcceptDoorbell(q, d) PROVE AllServed'
  <2>1. \A p \in PlaceName, r \in Queue : Holds(p, r)' <=> Holds(p, r)
    BY <1>1, DoorbellAccepted
  <2>2. UNCHANGED ringVars
    BY <1>1 DEF AcceptDoorbell
  <2> QED  BY <2>1, <2>2 DEF AllServed, ringVars
<1>2. CASE AcceptComp
  <2>1. PICK q \in Queue : Relocates(q, "pipe")
    BY <1>2, MoveAcceptComp
  <2>2. UNCHANGED ringVars /\ "pipe" \in PlaceName
    BY <1>2 DEF AcceptComp, PlaceName
  <2> QED  BY <2>1, <2>2, MovedServed DEF ringVars
<1>3. CASE PerformDoorbell
  <2>1. PICK q \in Queue :
          /\ \A r \in Queue \ {q} :
                prodTag'[r] = prodTag[r] /\ consTag'[r] = consTag[r]
          /\ \A r \in Queue \ {q}, p \in PlaceName : Holds(p, r)' <=> Holds(p, r)
          /\ IF prodTag[q] = consTag[q]
               THEN /\ q \notin Queues(queueFifo)
                    /\ Len(queueFifo) < FifoDepth => Holds("queueFifo", q)'
               ELSE \A p \in PlaceName : Holds(p, q)' <=> Holds(p, q)
    BY <1>3, DoorbellPerformed
  <2>2. \E p \in PlaceName : Holds(p, q)'
    <3>1. CASE prodTag[q] = consTag[q]
      <4>1. queueFifo \in Seq(Token) /\ Distinct(queueFifo) /\ q \notin Queues(queueFifo)
        BY <2>1, <3>1 DEF IInv, TypeOK, AllDistinct
      <4>2. Len(queueFifo) < FifoDepth
        BY <1>0, <4>1, HasRoom
      <4> QED  BY <2>1, <3>1, <4>2 DEF PlaceName
    <3>2. CASE prodTag[q] # consTag[q]
      BY <2>1, <3>2 DEF AllServed
    <3> QED  BY <3>1, <3>2
  <2> QED  BY <2>1, <2>2 DEF AllServed
<1>4. CASE PerformComp
  <2>1. PICK q \in Queue :
          /\ Holds("pipe", q)
          /\ \A r \in Queue \ {q} :
                prodTag'[r] = prodTag[r] /\ consTag'[r] = consTag[r]
          /\ Relocates(q, IF prodTag'[q] = consTag'[q] THEN "none"
                          ELSE Into(doorbellFifo, "doorbellFifo"))
    BY <1>4, CompPerformed
  <2>2. CASE prodTag'[q] = consTag'[q]
    <3>1. PICK to : to = "none" /\ Relocates(q, to)
      BY <2>1, <2>2
    <3> QED  BY <2>1, <2>2, <3>1 DEF AllServed, Relocates
  <2>3. CASE prodTag'[q] # consTag'[q]
    <3>1. ~Holds("doorbellFifo", q)
      BY <2>1 DEF IInv, Apart, PlaceName
    <3>2. /\ doorbellFifo \in Seq(Token) /\ Distinct(doorbellFifo)
          /\ q \notin Queues(doorbellFifo)
      BY <3>1 DEF IInv, TypeOK, AllDistinct, Holds
    <3>3. Len(doorbellFifo) < FifoDepth
      BY <1>0, <3>2, HasRoom
    <3>4. Relocates(q, "doorbellFifo") /\ "doorbellFifo" \in PlaceName
      BY <2>1, <2>3, <3>3 DEF Into, PlaceName
    <3> QED  BY <2>1, <3>4, MovedServed
  <2> QED  BY <2>2, <2>3
<1>5. CASE LoadQueueReg
  <2>1. PICK q \in Queue : Relocates(q, "queueReg")
    BY <1>5, MoveLoadQueueReg
  <2>2. UNCHANGED ringVars /\ "queueReg" \in PlaceName
    BY <1>5 DEF LoadQueueReg, PlaceName
  <2> QED  BY <2>1, <2>2, MovedServed DEF ringVars
<1>6. CASE LoadDoorbellReg
  <2>1. PICK q \in Queue : Relocates(q, "doorbellReg")
    BY <1>6, MoveLoadDoorbellReg
  <2>2. UNCHANGED ringVars /\ "doorbellReg" \in PlaceName
    BY <1>6 DEF LoadDoorbellReg, PlaceName
  <2> QED  BY <2>1, <2>2, MovedServed DEF ringVars
<1>7. CASE Arbitrate
  <2>1. UNCHANGED <<ringVars, pipe, queueFifo, doorbellFifo, queueReg, doorbellReg,
                    arbOut, pifo, compFifo>>
    BY <1>7 DEF Arbitrate
  <2> QED  BY <2>1 DEF AllServed, Holds, ringVars
<1>8. CASE SendDoorbell
  <2>1. PICK q \in Queue : Relocates(q, "arbOut")
    BY <1>8, MoveSendDoorbell
  <2>2. UNCHANGED ringVars /\ "arbOut" \in PlaceName
    BY <1>8 DEF SendDoorbell, PlaceName
  <2> QED  BY <2>1, <2>2, MovedServed DEF ringVars
<1>9. CASE SendQueue
  <2>1. PICK q \in Queue : Relocates(q, "arbOut")
    BY <1>9, MoveSendQueue
  <2>2. UNCHANGED ringVars /\ "arbOut" \in PlaceName
    BY <1>9 DEF SendQueue, PlaceName
  <2> QED  BY <2>1, <2>2, MovedServed DEF ringVars
<1>10. CASE PushPifo
  <2>1. PICK q \in Queue : Relocates(q, "pifo")
    BY <1>10, MovePushPifo
  <2>2. UNCHANGED ringVars /\ "pifo" \in PlaceName
    BY <1>10 DEF PushPifo, PlaceName
  <2> QED  BY <2>1, <2>2, MovedServed DEF ringVars
<1>11. ASSUME NEW i \in DOMAIN pifo, PopPifo(i) PROVE AllServed'
  <2>1. PICK q \in Queue : Holds("pifo", q) /\ Relocates(q, Into(compFifo, "compFifo"))
    BY <1>11, MovePopPifo
  <2>2. ~Holds("compFifo", q)
    BY <2>1 DEF IInv, Apart, PlaceName
  <2>3. compFifo \in Seq(Comp) /\ Distinct(compFifo) /\ q \notin Queues(compFifo)
    BY <2>2 DEF IInv, TypeOK, AllDistinct, Holds
  <2>4. Len(compFifo) < FifoDepth
    BY <1>0, <2>3, HasRoom
  <2>5. Relocates(q, "compFifo") /\ "compFifo" \in PlaceName
    BY <2>1, <2>4 DEF Into, PlaceName
  <2>6. UNCHANGED ringVars
    BY <1>11 DEF PopPifo
  <2> QED  BY <2>5, <2>6, MovedServed DEF ringVars
<1>12. CASE UNCHANGED vars
  BY <1>12 DEF AllServed, Holds, vars, ringVars, outVars
<1> QED
  BY <1>1, <1>2, <1>3, <1>4, <1>5, <1>6, <1>7, <1>8, <1>9, <1>10, <1>11, <1>12 DEF Next, HostRings, Hardware

-----------------------------------------------------------------------------
(* From the invariant to the properties.                                   *)
LEMMA PlaceValue == Place = PlaceName
BY DEF Place, PlaceName, At

(* What the places of the model hold, by the names the proof uses.         *)
LEMMA AtValue ==
    /\ At["queueFifo"] = queueFifo /\ At["doorbellFifo"] = doorbellFifo
    /\ At["queueReg"] = Register(queueReg) /\ At["doorbellReg"] = Register(doorbellReg)
    /\ At["arbOut"] = arbOut /\ At["pifo"] = pifo
    /\ At["compFifo"] = compFifo /\ At["pipe"] = pipe
BY DEF At

(* The invariant says that tokens are heads.                               *)
LEMMA HeadsSeen == IInv => TokenIsHead
<1> SUFFICES ASSUME IInv, NEW p \in Place \ {"pipe"}, NEW i \in DOMAIN At[p]
             PROVE  /\ At[p][i].tag = consTag[At[p][i].queue]
                    /\ p \notin Served =>
                         At[p][i].doorbell =
                           doorbellRam[At[p][i].queue][SlotOf(At[p][i].tag)]
  BY DEF TokenIsHead
<1>1. CASE p = "compFifo"
  BY <1>1, AtValue DEF IInv, Heads, Range, Served
<1>2. CASE p # "compFifo"
  <2>1. At[p][i] \in Tokens
    <3>1. CASE p \in {"queueFifo", "doorbellFifo", "arbOut", "pifo"}
      BY <3>1, AtValue DEF Tokens, Range
    <3>2. CASE p \in {"queueReg", "doorbellReg"}
      BY <3>2, AtValue DEF Tokens, Register
    <3> QED  BY <1>2, <3>1, <3>2, PlaceValue DEF PlaceName
  <2> QED  BY <2>1 DEF IInv, Heads, IsHead
<1> QED  BY <1>1, <1>2

(* Holds says the same as the tokens that OneToken counts.                 *)
LEMMA TokenSeen ==
    ASSUME NEW q \in Queue, NEW p \in PlaceName
    PROVE  Holds(p, q) <=> \E i \in DOMAIN At[p] : IsTokenOf(q, p, i)
<1>1. CASE p \in {"queueFifo", "doorbellFifo", "arbOut", "pifo", "compFifo"}
  BY <1>1, AtValue DEF Holds, Queues, Range, IsTokenOf
<1>2. CASE p \in {"queueReg", "doorbellReg"}
  BY <1>2, AtValue DEF Holds, IsTokenOf, Register
<1>3. CASE p = "pipe"
  BY <1>3, AtValue DEF Holds, Range, IsTokenOf
<1> QED  BY <1>1, <1>2, <1>3 DEF PlaceName

(* A queue's token is in one position of one place.                        *)
LEMMA TokenUnique ==
    ASSUME IInv, NEW q \in Queue, NEW p \in PlaceName, NEW r \in PlaceName,
           NEW i \in DOMAIN At[p], NEW j \in DOMAIN At[r],
           IsTokenOf(q, p, i), IsTokenOf(q, r, j)
    PROVE  p = r /\ i = j
<1>1. p = r
  BY TokenSeen DEF IInv, Apart
<1>2. At[p][i].queue = q /\ At[p][j].queue = q
  BY <1>1 DEF IsTokenOf
<1>3. CASE p \in {"queueFifo", "doorbellFifo", "arbOut", "pifo", "compFifo", "pipe"}
  BY <1>1, <1>2, <1>3, AtValue DEF IInv, AllDistinct, Distinct
<1>4. CASE p \in {"queueReg", "doorbellReg"}
  BY <1>1, <1>4, AtValue DEF Register
<1> QED  BY <1>1, <1>3, <1>4 DEF PlaceName

(* Hence a queue with doorbells has exactly one token.                     *)
LEMMA OneTokenSeen == IInv /\ AllServed => OneToken
<1> SUFFICES ASSUME IInv, AllServed, NEW q \in Queue
             PROVE  IF prodTag[q] = consTag[q] THEN TokensOf(q) = {}
                    ELSE \E x \in TokensOf(q) : TokensOf(q) = {x}
  BY DEF OneToken
<1>1. ASSUME NEW x \in TokensOf(q)
      PROVE  \E p \in PlaceName : \E i \in DOMAIN At[p] :
                x = <<p, i>> /\ IsTokenOf(q, p, i)
  BY PlaceValue DEF TokensOf
<1>2. ASSUME NEW p \in PlaceName, NEW i \in DOMAIN At[p], IsTokenOf(q, p, i)
      PROVE  <<p, i>> \in TokensOf(q)
  BY <1>2, PlaceValue DEF TokensOf
<1>3. CASE prodTag[q] = consTag[q]
  <2>1. \A p \in PlaceName : ~Holds(p, q)
    BY <1>3 DEF IInv, OnlyNonempty
  <2> QED  BY <1>1, <1>3, <2>1, TokenSeen
<1>4. CASE prodTag[q] # consTag[q]
  <2>1. PICK p \in PlaceName : Holds(p, q)
    BY <1>4 DEF AllServed
  <2>2. PICK i \in DOMAIN At[p] : IsTokenOf(q, p, i)
    BY <2>1, TokenSeen
  <2>3. <<p, i>> \in TokensOf(q)
    BY <1>2, <2>2
  <2>4. ASSUME NEW x \in TokensOf(q) PROVE x = <<p, i>>
    <3>1. PICK r \in PlaceName : \E j \in DOMAIN At[r] :
                x = <<r, j>> /\ IsTokenOf(q, r, j)
      BY <1>1
    <3>2. PICK j \in DOMAIN At[r] : x = <<r, j>> /\ IsTokenOf(q, r, j)
      BY <3>1
    <3> QED  BY <2>2, <3>2, TokenUnique
  <2>5. TokensOf(q) = {<<p, i>>}
    BY <2>3, <2>4
  <2> QED  BY <1>4, <2>3, <2>5
<1> QED  BY <1>3, <1>4

-----------------------------------------------------------------------------
(* A ring never describes more doorbells than it has slots, so none is     *)
(* overwritten before the scheduler has taken it, whatever the fifos lose  *)
(* (tx_queue_manager_change.v 330-332, 938-945).                           *)
THEOREM RingBounded == Spec => []RingWithinDepth
<1>1. Init => IInv
  BY IInvInit
<1>2. IInv => RingWithinDepth
  BY DEF IInv
<1> QED  BY <1>1, <1>2, IInvNext, PTL DEF Spec

(* Whatever competes in the scheduler for a queue, or returns from it, is  *)
(* the head of the queue's ring (tx_queue_manager_change.v 798, 851-866).  *)
THEOREM TokensAreHeads == Spec => []TokenIsHead
<1>1. Init => IInv
  BY IInvInit
<1> QED  BY <1>1, HeadsSeen, IInvNext, PTL DEF Spec

(* With a fifo entry for every queue, a queue has exactly one token while  *)
(* its ring holds a doorbell and none otherwise, for any number of queues  *)
(* (tx_queue_manager_change.v 844-866, 947-957).                           *)
THEOREM ExactlyOneToken == Capacity => (Spec => []OneToken)
<1> SUFFICES ASSUME Capacity PROVE Spec => []OneToken
  OBVIOUS
<1>1. Init => IInv /\ AllServed
  BY IInvInit
<1>2. IInv /\ AllServed /\ [Next]_vars => (IInv /\ AllServed)'
  BY IInvNext, ServedNext
<1>3. IInv /\ AllServed => OneToken
  BY OneTokenSeen
<1> QED  BY <1>1, <1>2, <1>3, PTL DEF Spec

-----------------------------------------------------------------------------
(* Slots of a ring.                                                        *)

(* One round further is the same slot.                                     *)
LEMMA SameSlot ==
    ASSUME NEW S \in Nat \ {0}, NEW p \in Nat
    PROVE  (p + S) % S = p % S
<1> DEFINE a == p \div S
           r == p % S
           b == (p + S) \div S
           t == (p + S) % S
<1>1. a \in Nat /\ r \in 0 .. S - 1 /\ p = S * a + r
  OBVIOUS
<1>2. b \in Nat /\ t \in 0 .. S - 1 /\ p + S = S * b + t
  OBVIOUS
<1> HIDE DEF a, b, r, t
<1>3. S * (a + 1) = S * a + S /\ S * a \in Nat /\ S * b \in Nat
  BY <1>1, <1>2
<1>4. CASE b = a + 1
  BY <1>1, <1>2, <1>3, <1>4 DEF r, t
<1>5. CASE b < a + 1
  <2>1. PICK d \in Nat : a = b + d
    <3>1. a - b \in Nat /\ a = b + (a - b)
      BY <1>1, <1>2, <1>5
    <3> QED  BY <3>1
  <2>2. S * a = S * b + S * d /\ S * d \in Nat
    BY <1>1, <1>2, <2>1
  <2> QED  BY <1>1, <1>2, <1>3, <2>2
<1>6. CASE b > a + 1
  <2>1. PICK d \in Nat : b = a + 2 + d
    <3>1. b - a - 2 \in Nat /\ b = a + 2 + (b - a - 2)
      BY <1>1, <1>2, <1>6
    <3> QED  BY <3>1
  <2>2. S * b = S * a + S + S + S * d /\ S * d \in Nat
    BY <1>1, <1>2, <2>1
  <2> QED  BY <1>1, <1>2, <1>3, <2>2
<1> QED  BY <1>1, <1>2, <1>4, <1>5, <1>6

(* Positions less than a ring apart have different slots.                  *)
LEMMA OtherSlot ==
    ASSUME NEW S \in Nat \ {0}, NEW p \in Nat, NEW q \in Nat, p < q, q < p + S
    PROVE  p % S # q % S
<1> DEFINE a == p \div S
           b == q \div S
           r == p % S
           t == q % S
<1>1. a \in Nat /\ r \in 0 .. S - 1 /\ p = S * a + r
  OBVIOUS
<1>2. b \in Nat /\ t \in 0 .. S - 1 /\ q = S * b + t
  OBVIOUS
<1>3. SUFFICES ASSUME r = t PROVE FALSE
  OBVIOUS
<1> HIDE DEF a, b, r, t
<1>4. S * a \in Nat /\ S * b \in Nat
  BY <1>1, <1>2
<1>5. CASE a = b
  BY <1>1, <1>2, <1>3, <1>4, <1>5
<1>6. CASE a < b
  <2>1. PICK d \in Nat : b = a + 1 + d
    <3>1. b - a - 1 \in Nat /\ b = a + 1 + (b - a - 1)
      BY <1>1, <1>2, <1>6
    <3> QED  BY <3>1
  <2>2. S * b = S * a + S + S * d /\ S * d \in Nat
    BY <1>1, <1>2, <2>1
  <2> QED  BY <1>1, <1>2, <1>3, <1>4, <2>2
<1>7. CASE b < a
  <2>1. PICK d \in Nat : a = b + 1 + d
    <3>1. a - b - 1 \in Nat /\ a = b + 1 + (a - b - 1)
      BY <1>1, <1>2, <1>7
    <3> QED  BY <3>1
  <2>2. S * a = S * b + S + S * d /\ S * d \in Nat
    BY <1>1, <1>2, <2>1
  <2> QED  BY <1>1, <1>2, <1>3, <1>4, <2>2
<1> QED  BY <1>1, <1>2, <1>5, <1>6, <1>7

(* Every position has a slot.                                              *)
LEMMA SlotInRing == \A p \in Nat : SlotOf(p) \in Slot
BY DepthAssumption DEF SlotOf, Slot

(* The wrap bit of a tag does not matter to the slots that follow.         *)
LEMMA SlotAfterNext ==
    ASSUME NEW t \in Tag, NEW k \in Nat
    PROVE  SlotOf(NextTag(t) + k) = SlotOf(t + 1 + k)
<1>1. CASE t = 2 * DoorbellDepth - 1
  <2>1. NextTag(t) = 0 /\ t + 1 + k = (k + DoorbellDepth) + DoorbellDepth
    BY <1>1, NextTagValue, DepthAssumption
  <2>2. k + DoorbellDepth \in Nat /\ DoorbellDepth \in Nat \ {0} /\ 0 + k = k
    BY DepthAssumption
  <2>3. ((k + DoorbellDepth) + DoorbellDepth) % DoorbellDepth = (k + DoorbellDepth) % DoorbellDepth
    BY <2>2, SameSlot
  <2>4. (k + DoorbellDepth) % DoorbellDepth = k % DoorbellDepth
    BY <2>2, SameSlot
  <2> QED  BY <2>1, <2>2, <2>3, <2>4 DEF SlotOf
<1>2. CASE t # 2 * DoorbellDepth - 1
  BY <1>2, NextTagValue
<1> QED  BY <1>1, <1>2

(* The producer's slot is as many slots behind the consumer's as the ring  *)
(* holds doorbells.                                                        *)
LEMMA ProducerSlot ==
    ASSUME NEW prod \in Tag, NEW cons \in Tag
    PROVE  SlotOf(cons + Between(prod, cons)) = SlotOf(prod)
<1>1. CASE cons <= prod
  <2>1. cons + Between(prod, cons) = prod
    BY <1>1, BetweenValue DEF Tag
  <2> QED  BY <2>1
<1>2. CASE ~(cons <= prod)
  <2>1. cons + Between(prod, cons) = (prod + DoorbellDepth) + DoorbellDepth
    BY <1>2, BetweenValue, DepthAssumption DEF Tag
  <2>2. prod \in Nat /\ prod + DoorbellDepth \in Nat /\ DoorbellDepth \in Nat \ {0}
    BY DepthAssumption DEF Tag
  <2>3. ((prod + DoorbellDepth) + DoorbellDepth) % DoorbellDepth = (prod + DoorbellDepth) % DoorbellDepth
    BY <2>2, SameSlot
  <2>4. (prod + DoorbellDepth) % DoorbellDepth = prod % DoorbellDepth
    BY <2>2, SameSlot
  <2> QED  BY <2>1, <2>3, <2>4 DEF SlotOf
<1> QED  BY <1>1, <1>2

(* The distance of two tags is a number.                                   *)
LEMMA BetweenType ==
    ASSUME NEW prod \in Tag, NEW cons \in Tag
    PROVE  Between(prod, cons) \in Nat
<1>1. Between(prod, cons) =
        IF cons <= prod THEN prod - cons ELSE prod + 2 * DoorbellDepth - cons
  BY BetweenValue
<1> QED  BY <1>1, DepthAssumption DEF Tag

(* The number of doorbells in a ring, before and after a doorbell is       *)
(* written or taken.                                                       *)
LEMMA RingGrows ==
    ASSUME NEW prod \in Tag, NEW cons \in Tag,
           Between(prod, cons) <= DoorbellDepth, ~Full(prod, cons)
    PROVE  /\ Between(prod, cons) \in 0 .. DoorbellDepth - 1
           /\ Between(NextTag(prod), cons) = Between(prod, cons) + 1
<1>1. /\ NextTag(prod) \in Tag
      /\ NextTag(prod) = IF prod = 2 * DoorbellDepth - 1 THEN 0 ELSE prod + 1
  BY TagArithmetic, NextTagValue
<1>2. /\ SlotOf(prod) = IF prod < DoorbellDepth THEN prod ELSE prod - DoorbellDepth
      /\ SlotOf(cons) = IF cons < DoorbellDepth THEN cons ELSE cons - DoorbellDepth
  BY SlotValue
<1>3. Between(prod, cons) =
        IF cons <= prod THEN prod - cons ELSE prod + 2 * DoorbellDepth - cons
  BY BetweenValue
<1>4. Between(NextTag(prod), cons) =
        IF cons <= NextTag(prod) THEN NextTag(prod) - cons
        ELSE NextTag(prod) + 2 * DoorbellDepth - cons
  BY <1>1, BetweenValue
<1>5. prod # cons => SlotOf(prod) # SlotOf(cons)
  BY DEF Full
<1> QED
  BY <1>1, <1>2, <1>3, <1>4, <1>5, DepthAssumption DEF Tag

(* A taken doorbell leaves one doorbell less behind it.                    *)
LEMMA RingShrinks ==
    ASSUME NEW prod \in Tag, NEW cons \in Tag, prod # cons
    PROVE  /\ Between(prod, cons) \in Nat \ {0}
           /\ Between(prod, NextTag(cons)) = Between(prod, cons) - 1
<1>1. /\ NextTag(cons) \in Tag
      /\ NextTag(cons) = IF cons = 2 * DoorbellDepth - 1 THEN 0 ELSE cons + 1
  BY TagArithmetic, NextTagValue
<1>2. Between(prod, cons) =
        IF cons <= prod THEN prod - cons ELSE prod + 2 * DoorbellDepth - cons
  BY BetweenValue
<1>3. Between(prod, NextTag(cons)) =
        IF NextTag(cons) <= prod THEN prod - NextTag(cons)
        ELSE prod + 2 * DoorbellDepth - NextTag(cons)
  BY <1>1, BetweenValue
<1> QED
  BY <1>1, <1>2, <1>3, DepthAssumption DEF Tag

-----------------------------------------------------------------------------
(* The words of n slots of a ring, from a position on.                     *)
Window(ram, first, n) == [i \in 1 .. n |-> ram[SlotOf(first + i - 1)]]

(* A window is a sequence of doorbells.                                    *)
LEMMA WindowIsSeq ==
    ASSUME NEW ram \in [Slot -> Doorbell], NEW first \in Nat, NEW n \in Nat
    PROVE  /\ Window(ram, first, n) \in Seq(Doorbell)
           /\ Len(Window(ram, first, n)) = n
           /\ \A i \in 1 .. n : Window(ram, first, n)[i] = ram[SlotOf(first + i - 1)]
<1>1. ASSUME NEW i \in 1 .. n PROVE ram[SlotOf(first + i - 1)] \in Doorbell
  <2>1. first + i - 1 \in Nat
    OBVIOUS
  <2> QED  BY <2>1, SlotInRing
<1>2. Window(ram, first, n) \in [1 .. n -> Doorbell]
  BY <1>1 DEF Window
<1>3. \A i \in 1 .. n : Window(ram, first, n)[i] = ram[SlotOf(first + i - 1)]
  BY DEF Window
<1> HIDE DEF Window
<1> QED  BY <1>2, <1>3

(* A word more, in the slot behind the last.                               *)
LEMMA WindowAppend ==
    ASSUME NEW ram \in [Slot -> Doorbell], NEW ram2 \in [Slot -> Doorbell],
           NEW first \in Nat, NEW n \in Nat,
           \A i \in 1 .. n : ram2[SlotOf(first + i - 1)] = ram[SlotOf(first + i - 1)]
    PROVE  Window(ram2, first, n + 1) = Append(Window(ram, first, n), ram2[SlotOf(first + n)])
<1>0. PICK m \in Nat : m = n + 1
  OBVIOUS
<1> DEFINE long == Window(ram2, first, m)
           short == Window(ram, first, n)
           b == ram2[SlotOf(first + n)]
           app == Append(short, b)
<1>2. /\ long \in Seq(Doorbell) /\ Len(long) = n + 1
      /\ \A i \in 1 .. n + 1 : long[i] = ram2[SlotOf(first + i - 1)]
  BY <1>0, WindowIsSeq
<1>3. /\ short \in Seq(Doorbell) /\ Len(short) = n
      /\ \A i \in 1 .. n : short[i] = ram[SlotOf(first + i - 1)]
  BY WindowIsSeq
<1>4. b \in Doorbell
  <2>1. first + n \in Nat
    OBVIOUS
  <2> QED  BY <2>1, SlotInRing
<1> HIDE DEF long, short, b
<1>5. /\ app \in Seq(Doorbell) /\ Len(app) = n + 1
      /\ \A i \in 1 .. n : app[i] = short[i]
      /\ app[n + 1] = b
  BY <1>3, <1>4, AppendProperties
<1> HIDE DEF app
<1>6. ASSUME NEW i \in 1 .. Len(long) PROVE long[i] = app[i]
  <2>1. CASE i \in 1 .. n
    BY <1>2, <1>3, <1>5, <2>1
  <2>2. CASE i = n + 1
    <3>1. first + i - 1 = first + n /\ i \in 1 .. n + 1
      BY <2>2
    <3>2. long[i] = ram2[SlotOf(first + n)]
      BY <1>2, <3>1
    <3> QED  BY <1>5, <2>2, <3>2 DEF b
  <2> QED  BY <1>2, <2>1, <2>2
<1>7. long = app
  BY <1>2, <1>5, <1>6, SeqEqual
<1> QED  BY <1>0, <1>7 DEF long, app, short, b

(* The first word less.                                                    *)
LEMMA WindowTail ==
    ASSUME NEW ram \in [Slot -> Doorbell], NEW first \in Nat, NEW n \in Nat \ {0}
    PROVE  /\ Window(ram, first, n) # <<>>
           /\ Head(Window(ram, first, n)) = ram[SlotOf(first)]
           /\ Tail(Window(ram, first, n)) = Window(ram, first + 1, n - 1)
<1> DEFINE long == Window(ram, first, n)
           short == Window(ram, first + 1, n - 1)
<1>1. /\ long \in Seq(Doorbell) /\ Len(long) = n
      /\ \A i \in 1 .. n : long[i] = ram[SlotOf(first + i - 1)]
  BY WindowIsSeq
<1>2. /\ short \in Seq(Doorbell) /\ Len(short) = n - 1
      /\ \A i \in 1 .. n - 1 : short[i] = ram[SlotOf(first + 1 + i - 1)]
  <2>1. PICK f \in Nat, m \in Nat : f = first + 1 /\ m = n - 1
    OBVIOUS
  <2>2. /\ Window(ram, f, m) \in Seq(Doorbell) /\ Len(Window(ram, f, m)) = m
        /\ \A i \in 1 .. m : Window(ram, f, m)[i] = ram[SlotOf(f + i - 1)]
    BY WindowIsSeq
  <2> QED  BY <2>1, <2>2
<1> HIDE DEF long, short
<1>3. long # <<>>
  BY <1>1
<1>4. Head(long) = ram[SlotOf(first)]
  <2>1. Head(long) = long[1] /\ 1 \in 1 .. n /\ first + 1 - 1 = first
    BY <1>1, <1>3
  <2>2. long[1] = ram[SlotOf(first + 1 - 1)]
    BY <1>1, <2>1
  <2> QED  BY <2>1, <2>2
<1>5. /\ Tail(long) \in Seq(Doorbell) /\ Len(Tail(long)) = n - 1
      /\ \A i \in 1 .. n - 1 : Tail(long)[i] = long[i + 1]
  BY <1>1, <1>3, HeadTailProperties
<1>6. ASSUME NEW i \in 1 .. Len(short) PROVE short[i] = Tail(long)[i]
  <2>1. i \in 1 .. n - 1 /\ i + 1 \in 1 .. n /\ first + (i + 1) - 1 = first + 1 + i - 1
    BY <1>2
  <2>2. long[i + 1] = ram[SlotOf(first + (i + 1) - 1)]
    BY <1>1, <2>1
  <2> QED  BY <1>2, <1>5, <2>1, <2>2
<1>7. Tail(long) = short
  BY <1>2, <1>5, <1>6, SeqEqual
<1> QED  BY <1>3, <1>4, <1>7 DEF long, short

(* A ring whose consumer tag moves on keeps the words behind its head.     *)
LEMMA WindowNext ==
    ASSUME NEW ram, NEW t \in Tag, NEW n \in Nat
    PROVE  Window(ram, NextTag(t), n) = Window(ram, t + 1, n)
<1>1. ASSUME NEW i \in 1 .. n
      PROVE  SlotOf(NextTag(t) + i - 1) = SlotOf(t + 1 + i - 1)
  <2>1. i - 1 \in Nat /\ NextTag(t) \in Tag
    BY TagArithmetic
  <2>2. NextTag(t) + i - 1 = NextTag(t) + (i - 1) /\ t + 1 + i - 1 = t + 1 + (i - 1)
    BY <2>1 DEF Tag
  <2> QED  BY <2>1, <2>2, SlotAfterNext
<1> QED  BY <1>1 DEF Window

-----------------------------------------------------------------------------
(* What DoorbellQueue sees of queue q: the doorbells in its ring, without  *)
(* the head once the scheduler has taken it.                               *)
Behind(q) == Holds("compFifo", q) \/ Holds("pipe", q)
Taken(q) == IF Behind(q) THEN 1 ELSE 0
PendingOf(q) ==
    Window(doorbellRam[q], consTag[q] + Taken(q),
           Between(prodTag[q], consTag[q]) - Taken(q))
Granted ==
    IF txResp = None THEN None
    ELSE [queue |-> txResp.queue, doorbell |-> txResp.doorbell]

(* This is what the refinement mapping of DoorbellRing computes.           *)
LEMMA PendingSeen == \A q \in Queue : Pending(q) = PendingOf(q)
<1> SUFFICES ASSUME NEW q \in Queue PROVE Pending(q) = PendingOf(q)
  OBVIOUS
<1>1. HeadServed(q) <=> Behind(q)
  BY TokenSeen DEF HeadServed, Served, Behind, PlaceName
<1>2. (IF HeadServed(q) THEN 1 ELSE 0) = Taken(q)
  BY <1>1 DEF Taken
<1> QED  BY <1>2 DEF Pending, PendingOf, Window, Occupancy, Between

(* The same of all queues at once.                                         *)
LEMMA Seen == [q \in Queue |-> Pending(q)] = [q \in Queue |-> PendingOf(q)]
BY PendingSeen

(* The same of the next state.                                             *)
LEMMA SeenNext ==
    [q \in Queue |-> Pending(q)]' = [q \in Queue |-> PendingOf(q)]'
<1>1. ([q \in Queue |-> Pending(q)] = [q \in Queue |-> PendingOf(q)])'
  BY Seen, PTL
<1> QED  BY <1>1

(* The three things a step may look like to DoorbellQueue.                 *)
LEMMA LooksLikeNothing ==
    ASSUME \A q \in Queue : PendingOf(q)' = PendingOf(q), txResp' = txResp
    PROVE  UNCHANGED DQ!vars
<1>1. [q \in Queue |-> PendingOf(q)]' = [q \in Queue |-> PendingOf(q)]
  OBVIOUS
<1>2. [q \in Queue |-> Pending(q)]' = [q \in Queue |-> Pending(q)]
  BY <1>1, Seen, SeenNext
<1> QED  BY <1>2 DEF DQ!vars

(* A doorbell has been written.                                            *)
LEMMA LooksLikeRing ==
    ASSUME NEW q \in Queue, NEW d \in Doorbell,
           Len(PendingOf(q)) < DoorbellDepth,
           PendingOf(q)' = Append(PendingOf(q), d),
           \A r \in Queue : r # q => PendingOf(r)' = PendingOf(r),
           txResp' = txResp
    PROVE  DQ!Next
<1> DEFINE pend == [r \in Queue |-> PendingOf(r)]
<1>1. pend' = [pend EXCEPT ![q] = Append(@, d)]
  OBVIOUS
<1>2. Len(pend[q]) < DoorbellDepth
  OBVIOUS
<1>3. pend = [r \in Queue |-> Pending(r)] /\ pend' = [r \in Queue |-> Pending(r)]'
  BY Seen, SeenNext
<1> HIDE DEF pend
<1>4. Granted' = Granted
  BY DEF Granted
<1>5. DQ!Ring(q, d)
  BY <1>1, <1>2, <1>3, <1>4 DEF DQ!Ring, Granted
<1> QED  BY <1>5 DEF DQ!Next

(* The scheduler has taken a doorbell.                                     *)
LEMMA LooksLikeGrant ==
    ASSUME NEW q \in Queue, PendingOf(q) # <<>>,
           txResp' # None, txResp'.queue = q, txResp'.doorbell = Head(PendingOf(q)),
           PendingOf(q)' = Tail(PendingOf(q)),
           \A r \in Queue : r # q => PendingOf(r)' = PendingOf(r)
    PROVE  DQ!Next
<1> DEFINE pend == [r \in Queue |-> PendingOf(r)]
<1>1. pend' = [pend EXCEPT ![q] = Tail(@)]
  OBVIOUS
<1>2. pend[q] # <<>> /\ Granted' = [queue |-> q, doorbell |-> Head(pend[q])]
  BY DEF Granted
<1>3. pend = [r \in Queue |-> Pending(r)] /\ pend' = [r \in Queue |-> Pending(r)]'
  BY Seen, SeenNext
<1> HIDE DEF pend
<1>4. DQ!Grant(q)
  BY <1>1, <1>2, <1>3 DEF DQ!Grant, Granted
<1> QED  BY <1>4 DEF DQ!Next

-----------------------------------------------------------------------------
(* What the invariant says of one ring.                                    *)
LEMMA RingFacts ==
    ASSUME IInv, NEW q \in Queue
    PROVE  /\ prodTag[q] \in Tag /\ consTag[q] \in Tag
           /\ doorbellRam[q] \in [Slot -> Doorbell]
           /\ Between(prodTag[q], consTag[q]) \in 0 .. DoorbellDepth
           /\ Taken(q) \in {0, 1} /\ Taken(q) <= Between(prodTag[q], consTag[q])
<1>1. /\ prodTag[q] \in Tag /\ consTag[q] \in Tag
      /\ doorbellRam[q] \in [Slot -> Doorbell]
  BY DEF IInv, TypeOK
<1>2. Between(prodTag[q], consTag[q]) <= DoorbellDepth
  BY DEF IInv, RingWithinDepth, Occupancy, Between
<1>3. Between(prodTag[q], consTag[q]) \in Nat
  BY <1>1, BetweenType
<1>4. Behind(q) => Between(prodTag[q], consTag[q]) \in Nat \ {0}
  <2>1. Behind(q) => prodTag[q] # consTag[q]
    BY DEF IInv, OnlyNonempty, Behind, PlaceName
  <2> QED  BY <1>1, <2>1, RingShrinks
<1> QED  BY <1>1, <1>2, <1>3, <1>4, DepthAssumption DEF Taken

(* A ring in the next state.                                               *)
LEMMA PendingNext ==
    ASSUME NEW q \in Queue, NEW ram, NEW first, NEW n, NEW k,
           doorbellRam'[q] = ram, consTag'[q] = first, Taken(q)' = k,
           Between(prodTag'[q], consTag'[q]) = n
    PROVE  PendingOf(q)' = Window(ram, first + k, n - k)
BY DEF PendingOf, Between

(* A step that leaves a ring and the places behind the scheduler alone.    *)
LEMMA SameRing ==
    ASSUME NEW q \in Queue, Behind(q)' <=> Behind(q),
           doorbellRam'[q] = doorbellRam[q], prodTag'[q] = prodTag[q],
           consTag'[q] = consTag[q]
    PROVE  PendingOf(q)' = PendingOf(q)
BY DEF PendingOf, Taken, Between

(* The tokens that a doorbell's operation leaves behind the scheduler.     *)
LEMMA DoorbellLeavesTokens ==
    ASSUME IInv, PerformDoorbell, NEW q \in Queue
    PROVE  Behind(q)' <=> Behind(q)
<1>1. /\ pipe \in Seq(Op) /\ pipe # <<>> /\ Distinct(pipe)
      /\ pipe' = Tail(pipe) /\ Head(pipe).kind = "axil_doorbell"
      /\ compFifo' = compFifo
  BY DEF IInv, TypeOK, AllDistinct, PerformDoorbell
<1>2. Range(pipe) = Range(pipe') \union {Head(pipe)}
  BY <1>1, TakeHead
<1>3. \A op \in Range(pipe) : op.kind = "pifo_comp" => op \in Range(pipe')
  BY <1>1, <1>2
<1> QED  BY <1>1, <1>2, <1>3 DEF Behind, Holds

(* A doorbell is Ring, or nothing when the ring is full.                   *)
LEMMA SimulateDoorbell ==
    ASSUME IInv, PerformDoorbell
    PROVE  [DQ!Next]_(DQ!vars)
<1>1. pipe \in Seq(Op) /\ pipe # <<>> /\ Distinct(pipe)
  BY DEF IInv, TypeOK, AllDistinct, PerformDoorbell
<1>2. PICK op : op = Head(pipe) /\ op \in Op /\ op \in Range(pipe)
  BY <1>1, TailType, TakeHead
<1>2a. PICK q : q = op.queue
  OBVIOUS
<1> DEFINE prod == prodTag[q]
           cons == consTag[q]
           n == Between(prod, cons)
           k == Taken(q)
           ram == doorbellRam[q]
           ram2 == doorbellRam'[q]
<1>3. q \in Queue /\ op.word \in Doorbell /\ op.prod = prod /\ op.cons = cons
  BY <1>2, <1>2a DEF Op, DoorbellOp, CompOp, IInv, PipeFresh, Fresh
<1>4. UNCHANGED <<consTag, txResp>>
  BY DEF PerformDoorbell
<1>5. CASE Full(prod, cons)
  <2>1. UNCHANGED <<doorbellRam, prodTag>>
    BY <1>2, <1>2a, <1>3, <1>5 DEF PerformDoorbell
  <2>2. \A r \in Queue : PendingOf(r)' = PendingOf(r)
    BY <1>4, <2>1, DoorbellLeavesTokens, SameRing
  <2> QED  BY <1>4, <2>2, LooksLikeNothing
<1>6. CASE ~Full(prod, cons)
  <2>1. /\ doorbellRam' = [doorbellRam EXCEPT ![q][SlotOf(prod)] = op.word]
        /\ prodTag' = [prodTag EXCEPT ![q] = NextTag(prod)]
    BY <1>2, <1>2a, <1>3, <1>6 DEF PerformDoorbell
  <2>2. /\ prodTag \in [Queue -> Tag]
        /\ doorbellRam \in [Queue -> [Slot -> Doorbell]]
    BY DEF IInv, TypeOK
  <2>3. /\ prod \in Tag /\ cons \in Tag /\ ram \in [Slot -> Doorbell]
        /\ n \in 0 .. DoorbellDepth /\ k \in {0, 1} /\ k <= n
    BY <1>3, RingFacts
  <2>4. SlotOf(prod) \in Slot
    BY <2>3, TagArithmetic
  <2>5. /\ prodTag'[q] = NextTag(prod) /\ consTag'[q] = cons
        /\ ram2 = [ram EXCEPT ![SlotOf(prod)] = op.word]
    BY <1>3, <1>4, <2>1, <2>2
  <2>6. \A r \in Queue : r # q => /\ doorbellRam'[r] = doorbellRam[r]
                                  /\ prodTag'[r] = prodTag[r] /\ consTag'[r] = consTag[r]
    BY <1>3, <1>4, <2>1, <2>2
  <2>7. ram2 \in [Slot -> Doorbell] /\ ram2[SlotOf(prod)] = op.word
    BY <1>3, <2>3, <2>4, <2>5
  <2>8. Taken(q)' = k
    BY <1>3, DoorbellLeavesTokens DEF Taken
  <2>9. n \in 0 .. DoorbellDepth - 1 /\ Between(NextTag(prod), cons) = n + 1
    <3>1. n <= DoorbellDepth
      BY <2>3, DepthAssumption
    <3> QED  BY <1>6, <2>3, <3>1, RingGrows
  <2>10. SlotOf(cons + n) = SlotOf(prod)
    BY <2>3, ProducerSlot
  <2>11. PendingOf(q) = Window(ram, cons + k, n - k)
    BY DEF PendingOf
  <2>12. PendingOf(q)' = Window(ram2, cons + k, n + 1 - k)
    <3>1. Between(prodTag'[q], consTag'[q]) = n + 1
      BY <2>5, <2>9
    <3>2. doorbellRam'[q] = ram2
      OBVIOUS
    <3>3. PICK c, b, t, w : c = cons /\ b = n + 1 /\ t = k /\ w = ram2
      OBVIOUS
    <3>4. /\ doorbellRam'[q] = w /\ consTag'[q] = c /\ Taken(q)' = t
          /\ Between(prodTag'[q], consTag'[q]) = b
      BY <2>5, <2>8, <3>1, <3>2, <3>3
    <3>5. PendingOf(q)' = Window(w, c + t, b - t)
      BY <1>3, <3>4, PendingNext
    <3>6. c + t = cons + k
      BY <3>3
    <3>7. b - t = n + 1 - k
      <4>1. n \in Int /\ k \in Int
        BY <2>3, DepthAssumption
      <4> HIDE DEF n, k
      <4> QED  BY <3>3, <4>1
    <3> QED  BY <3>3, <3>5, <3>6, <3>7
  <2> HIDE DEF prod, cons, n, k, ram, ram2
  <2>13. PICK f \in Nat, m \in Nat :
            f = cons + k /\ m = n - k /\ n + 1 - k = m + 1 /\ f + m = cons + n
    BY <2>3, DepthAssumption DEF Tag
  <2>14. ASSUME NEW i \in 1 .. m
         PROVE  ram2[SlotOf(f + i - 1)] = ram[SlotOf(f + i - 1)]
    <3>1. /\ f + i - 1 \in Nat /\ cons + n \in Nat
          /\ f + i - 1 < cons + n /\ cons + n < f + i - 1 + DoorbellDepth
      BY <2>3, <2>9, <2>13, DepthAssumption DEF Tag
    <3>2. SlotOf(f + i - 1) # SlotOf(cons + n)
      <4>1. PICK a \in Nat, b \in Nat : a = f + i - 1 /\ b = cons + n
        BY <3>1
      <4>2. a % DoorbellDepth # b % DoorbellDepth
        BY <3>1, <4>1, OtherSlot, DepthAssumption
      <4> QED  BY <4>1, <4>2 DEF SlotOf
    <3>3. SlotOf(f + i - 1) \in Slot
      BY <3>1, SlotInRing
    <3> QED  BY <2>3, <2>5, <2>10, <3>2, <3>3
  <2>15. Window(ram2, f, m + 1) = Append(Window(ram, f, m), ram2[SlotOf(f + m)])
    <3>1. PICK a \in [Slot -> Doorbell], b \in [Slot -> Doorbell] : a = ram /\ b = ram2
      BY <2>3, <2>7
    <3>2. \A i \in 1 .. m : b[SlotOf(f + i - 1)] = a[SlotOf(f + i - 1)]
      BY <2>14, <3>1
    <3>3. Window(b, f, m + 1) = Append(Window(a, f, m), b[SlotOf(f + m)])
      BY <3>2, WindowAppend
    <3> QED  BY <3>1, <3>3
  <2>16. PendingOf(q)' = Append(PendingOf(q), op.word)
    BY <2>7, <2>10, <2>11, <2>12, <2>13, <2>15
  <2>17. Len(PendingOf(q)) < DoorbellDepth
    <3>1. Len(Window(ram, f, m)) = m
      BY <2>3, WindowIsSeq
    <3>2. m < DoorbellDepth
      BY <2>3, <2>9, <2>13, DepthAssumption
    <3> QED  BY <2>11, <2>13, <3>1, <3>2
  <2>18. \A r \in Queue : r # q => PendingOf(r)' = PendingOf(r)
    BY <2>6, DoorbellLeavesTokens, SameRing
  <2> QED  BY <1>3, <1>4, <2>16, <2>17, <2>18, LooksLikeRing
<1> QED  BY <1>5, <1>6

(* A completion frees the slot of a head that was taken before: nothing.   *)
LEMMA SimulateComp ==
    ASSUME IInv, PerformComp
    PROVE  UNCHANGED DQ!vars
<1>1. PICK q \in Queue :
        /\ Holds("pipe", q)
        /\ \A r \in Queue \ {q} : prodTag'[r] = prodTag[r] /\ consTag'[r] = consTag[r]
        /\ Relocates(q, IF prodTag'[q] = consTag'[q] THEN "none"
                        ELSE Into(doorbellFifo, "doorbellFifo"))
  BY CompPerformed
<1> DEFINE to == IF prodTag'[q] = consTag'[q] THEN "none"
                 ELSE Into(doorbellFifo, "doorbellFifo")
           op == Head(pipe)
           prod == prodTag[q]
           cons == consTag[q]
           n == Between(prod, cons)
           ram == doorbellRam[q]
<1>2. to \notin {"compFifo", "pipe"}
  BY DEF Into
<1>3. UNCHANGED <<doorbellRam, prodTag, txResp>>
  BY DEF PerformComp
<1>4. Behind(q) /\ ~Behind(q)'
  BY <1>1, <1>2 DEF Behind, Relocates, PlaceName
<1>5. \A r \in Queue \ {q} : Behind(r)' <=> Behind(r)
  BY <1>1 DEF Behind, Relocates, PlaceName
<1>6. prod \in Tag /\ cons \in Tag /\ prod # cons
  BY <1>1, RingFacts DEF IInv, OnlyNonempty, PlaceName
<1>7. consTag'[q] = NextTag(cons)
  <2>1. /\ pipe \in Seq(Op) /\ pipe # <<>> /\ Distinct(pipe)
        /\ consTag \in [Queue -> Tag]
        /\ consTag' = [consTag EXCEPT ![op.queue] = NextTag(op.cons)]
        /\ pipe' = Tail(pipe)
    BY DEF IInv, TypeOK, AllDistinct, PerformComp
  <2>2. Range(pipe) = Range(pipe') \union {op}
    BY <2>1, TakeHead
  <2>3. op.queue = q
    <3>1. PICK x \in Range(pipe) : x.kind = "pifo_comp" /\ x.queue = q
      BY <1>1 DEF Holds
    <3>2. ~Holds("pipe", q)'
      BY <1>1, <1>2 DEF Relocates, PlaceName
    <3>3. x \notin Range(pipe')
      BY <3>1, <3>2 DEF Holds
    <3> QED  BY <2>2, <3>1, <3>3
  <2>4. op.cons = cons
    BY <2>2, <2>3 DEF IInv, PipeFresh, Fresh
  <2> QED  BY <2>1, <2>3, <2>4
<1>8. n \in Nat \ {0} /\ Between(prod, NextTag(cons)) = n - 1
  BY <1>6, RingShrinks
<1>9. PendingOf(q)' = Window(ram, NextTag(cons) + 0, n - 1 - 0)
  <2>1. Taken(q)' = 0
    BY <1>4 DEF Taken
  <2> QED  BY <1>3, <1>7, <1>8, <2>1 DEF PendingOf, Between
<1>10. PendingOf(q) = Window(ram, cons + 1, n - 1)
  BY <1>4 DEF PendingOf, Taken
<1> HIDE DEF to, op, prod, cons, n, ram
<1>11. PendingOf(q)' = PendingOf(q)
  <2>1. PICK m \in Nat : m = n - 1 /\ n - 1 - 0 = m
    BY <1>8
  <2>2. NextTag(cons) + 0 = NextTag(cons)
    BY <1>6, TagArithmetic DEF Tag
  <2>3. Window(ram, NextTag(cons), m) = Window(ram, cons + 1, m)
    BY <1>6, WindowNext
  <2> QED  BY <1>9, <1>10, <2>1, <2>2, <2>3
<1>12. \A r \in Queue : r # q => PendingOf(r)' = PendingOf(r)
  BY <1>1, <1>3, <1>5, SameRing
<1> QED  BY <1>3, <1>11, <1>12, LooksLikeNothing

(* The handshake out of the PIFO is Grant.                                 *)
LEMMA SimulatePop ==
    ASSUME Capacity, IInv, NEW i \in DOMAIN pifo, PopPifo(i)
    PROVE  DQ!Next
<1>0. pifo \in Seq(Token)
  BY DEF IInv, TypeOK
<1>1. PICK t \in Token : t = pifo[i] /\ t \in Range(pifo)
  BY <1>0 DEF Range
<1> DEFINE q == t.queue
           cons == consTag[q]
           n == Between(prodTag[q], cons)
           ram == doorbellRam[q]
<1>2. q \in Queue /\ t # None
  BY <1>1, NoneAssumption DEF Token
<1>3. t.tag = cons /\ t.doorbell = ram[SlotOf(cons)]
  <2>1. IsHead(t)
    BY <1>1 DEF IInv, Heads, Tokens
  <2> QED  BY <2>1 DEF IsHead
<1>4. UNCHANGED ringVars /\ txResp' = t
  BY <1>1 DEF PopPifo
<1>5. Holds("pifo", q)
  BY <1>1 DEF Holds, Queues
<1>6. ~Behind(q) /\ prodTag[q] # cons
  BY <1>2, <1>5 DEF IInv, Apart, OnlyNonempty, Behind, PlaceName
<1>7. PICK p \in Queue : Holds("pifo", p) /\ Relocates(p, Into(compFifo, "compFifo"))
  BY MovePopPifo
<1>8. p = q
  <2>1. ~Holds("pifo", q)'
    <3>1. Distinct(pifo) /\ pifo' = RemoveAt(pifo, i)
      BY DEF IInv, AllDistinct, PopPifo
    <3>2. q \notin Queues(pifo')
      BY <1>0, <1>1, <3>1, TakeAny
    <3> QED  BY <3>2 DEF Holds
  <2>2. "pifo" \in PlaceName
    BY DEF PlaceName
  <2> QED  BY <1>2, <1>5, <1>7, <2>1, <2>2 DEF Relocates
<1>9. Len(compFifo) < FifoDepth
  <2>1. q \notin Queues(compFifo)
    BY <1>6 DEF Behind, Holds
  <2>2. compFifo \in Seq(Comp) /\ Distinct(compFifo) /\ \A c \in Comp : c.queue \in Queue
    BY DEF IInv, TypeOK, AllDistinct, Comp
  <2> QED  BY <1>2, <2>1, <2>2, HasRoom
<1>10. Relocates(q, "compFifo")
  BY <1>7, <1>8, <1>9 DEF Into
<1>11. Behind(q)' /\ \A r \in Queue : r # q => (Behind(r)' <=> Behind(r))
  BY <1>2, <1>10 DEF Behind, Relocates, PlaceName
<1>12. PendingOf(q) = Window(ram, cons + 0, n - 0)
  BY <1>6 DEF PendingOf, Taken
<1>13. PendingOf(q)' = Window(ram, cons + 1, n - 1)
  <2>1. Taken(q)' = 1
    BY <1>11 DEF Taken
  <2> QED  BY <1>4, <2>1 DEF PendingOf, Between, ringVars
<1>14. cons \in Tag /\ ram \in [Slot -> Doorbell] /\ n \in Nat \ {0}
  BY <1>2, <1>6, RingFacts, RingShrinks
<1>15. \A r \in Queue : r # q => PendingOf(r)' = PendingOf(r)
  BY <1>4, <1>11, SameRing DEF ringVars
<1> HIDE DEF q, cons, n, ram
<1>16. cons \in Nat /\ cons + 0 = cons /\ n - 0 = n
  BY <1>14 DEF Tag
<1>17. /\ Window(ram, cons, n) # <<>>
       /\ Head(Window(ram, cons, n)) = ram[SlotOf(cons)]
       /\ Tail(Window(ram, cons, n)) = Window(ram, cons + 1, n - 1)
  BY <1>14, <1>16, WindowTail
<1>18. /\ PendingOf(q) # <<>> /\ Head(PendingOf(q)) = t.doorbell
       /\ PendingOf(q)' = Tail(PendingOf(q))
  BY <1>3, <1>12, <1>13, <1>16, <1>17
<1>19. txResp' # None /\ txResp'.queue = q /\ txResp'.doorbell = Head(PendingOf(q))
  BY <1>2, <1>4, <1>18 DEF q
<1> QED  BY <1>2, <1>15, <1>18, <1>19, LooksLikeGrant

(* Every step of the queue manager, the arbiter and the PIFO is a step of  *)
(* DoorbellQueue, or a stutter of it.                                      *)
LEMMA Simulates ==
    Capacity /\ IInv /\ [Next]_vars => [DQ!Next]_(DQ!vars)
<1> SUFFICES ASSUME Capacity, IInv, [Next]_vars PROVE [DQ!Next]_(DQ!vars)
  OBVIOUS
<1>1. ASSUME NEW q \in Queue, NEW d \in Doorbell, AcceptDoorbell(q, d)
      PROVE  UNCHANGED DQ!vars
  <2>1. \A r \in Queue : Behind(r)' <=> Behind(r)
    BY <1>1, DoorbellAccepted DEF Behind, PlaceName
  <2>2. UNCHANGED ringVars /\ UNCHANGED txResp
    BY <1>1 DEF AcceptDoorbell
  <2> QED  BY <2>1, <2>2, SameRing, LooksLikeNothing DEF ringVars
<1>2. CASE AcceptComp
  <2>1. PICK q \in Queue : Holds("compFifo", q) /\ Relocates(q, "pipe")
    BY <1>2, MoveAcceptComp
  <2>2. \A r \in Queue : Behind(r)' <=> Behind(r)
    BY <2>1 DEF Behind, Relocates, PlaceName
  <2>3. UNCHANGED ringVars /\ UNCHANGED txResp
    BY <1>2 DEF AcceptComp
  <2> QED  BY <2>2, <2>3, SameRing, LooksLikeNothing DEF ringVars
<1>3. ASSUME UNCHANGED <<ringVars, pipe, compFifo, txResp>> PROVE UNCHANGED DQ!vars
  <2>1. \A r \in Queue : Behind(r)' <=> Behind(r)
    BY <1>3 DEF Behind, Holds
  <2> QED  BY <1>3, <2>1, SameRing, LooksLikeNothing DEF ringVars
<1>4. ASSUME LoadQueueReg \/ LoadDoorbellReg \/ Arbitrate \/ SendDoorbell \/ SendQueue
               \/ PushPifo \/ UNCHANGED vars
      PROVE  UNCHANGED <<ringVars, pipe, compFifo, txResp>>
  BY <1>4 DEF LoadQueueReg, LoadDoorbellReg, Arbitrate, SendDoorbell, SendQueue, PushPifo, vars
<1> QED
  BY <1>1, <1>2, <1>3, <1>4, SimulateDoorbell, SimulateComp, SimulatePop
  DEF Next, HostRings, Hardware

(* Every ring starts empty.                                                *)
LEMMA SimulatesInit == Init => DQ!Init
<1> SUFFICES ASSUME Init PROVE DQ!Init
  OBVIOUS
<1>1. ASSUME NEW q \in Queue PROVE PendingOf(q) = <<>>
  <2>1. prodTag[q] = 0 /\ consTag[q] = 0 /\ 0 \in Tag
    BY DepthAssumption DEF Init, Tag
  <2>2. Between(prodTag[q], consTag[q]) = 0
    BY <2>1, BetweenValue
  <2>3. Taken(q) = 0
    BY DEF Init, Taken, Behind, Holds, Queues, Range
  <2>4. 1 .. Between(prodTag[q], consTag[q]) - Taken(q) = {}
    BY <2>2, <2>3
  <2> QED  BY <2>4 DEF PendingOf, Window
<1>2. [q \in Queue |-> Pending(q)] = [q \in Queue |-> <<>>]
  BY <1>1, PendingSeen
<1>3. txResp = None
  BY DEF Init
<1> QED  BY <1>2, <1>3 DEF DQ!Init

(* With a fifo entry for every queue, the scheduler is handed each         *)
(* doorbell that found room in its ring exactly once and in the order in   *)
(* which the host rang, whatever the pipeline, the arbiter and the PIFO do *)
(* in between (tx_queue_manager_change.v 844-866, 938-957).                *)
THEOREM KeepsDoorbells == Capacity => (Spec => ImplementsDoorbellQueue)
<1> SUFFICES ASSUME Capacity PROVE Spec => ImplementsDoorbellQueue
  OBVIOUS
<1>1. Init => IInv
  BY IInvInit
<1>2. IInv /\ [Next]_vars => [DQ!Next]_(DQ!vars)
  BY Simulates
<1> QED  BY <1>1, <1>2, IInvNext, SimulatesInit, PTL DEF Spec, ImplementsDoorbellQueue, DQ!Spec
=============================================================================
