---------------------------- MODULE DescriptorRow ---------------------------
(***************************************************************************)
(* What a transmit queue promises about its descriptors: they are handed   *)
(* out in order, each once, only when the host has published them, and the *)
(* consumer pointer passes them in order, only when they have been read.   *)
(***************************************************************************)
EXTENDS Naturals

CONSTANTS Queue, Wqe, PtrMod, None

VARIABLES
    prod, cons,     \* the pointers of each queue
    next,           \* per queue, the descriptor to be handed out next
    taken,          \* per queue, the hand-outs not given back: where each ends
                    \* and whether it has been read
    answer          \* the answer to the request made last

vars == <<prod, cons, next, taken, answer>>

Plus(p, n) == (p + n) % PtrMod
Minus(p, r) == (p + PtrMod - r) % PtrMod

Init ==
    /\ prod = [q \in Queue |-> 0] /\ cons = [q \in Queue |-> 0]
    /\ next = [q \in Queue |-> 0]
    /\ taken = [q \in Queue |-> {}]
    /\ answer = None

Publish(q, n) ==
    /\ Minus(prod[q], cons[q]) + n < PtrMod
    /\ prod' = [prod EXCEPT ![q] = Plus(@, n)]
    /\ UNCHANGED <<cons, next, taken, answer>>

HandOut(q, n) ==
    /\ answer = None /\ n <= Minus(prod[q], next[q])
    /\ answer' = [queue |-> q, ptr |-> next[q], wqe |-> n, granted |-> TRUE]
    /\ next' = [next EXCEPT ![q] = Plus(@, n)]
    /\ taken' = [taken EXCEPT ![q] =
                   @ \union {[upto |-> Plus(next[q], n), done |-> FALSE]}]
    /\ UNCHANGED <<prod, cons>>

Refuse(q, n) ==
    /\ answer = None
    /\ answer' = [queue |-> q, ptr |-> next[q], wqe |-> n, granted |-> FALSE]
    /\ UNCHANGED <<prod, cons, next, taken>>

Collect ==
    /\ answer # None /\ answer' = None
    /\ UNCHANGED <<prod, cons, next, taken>>

MarkRead(q, o) ==
    /\ ~o.done
    /\ taken' = [taken EXCEPT ![q] =
                   (@ \ {o}) \union {[upto |-> o.upto, done |-> TRUE]}]
    /\ UNCHANGED <<prod, cons, next, answer>>

(* The hand-out nearest to the consumer pointer is the oldest.             *)
GiveBack(q, o) ==
    /\ o.done
    /\ \A p \in taken[q] : Minus(o.upto, cons[q]) <= Minus(p.upto, cons[q])
    /\ cons' = [cons EXCEPT ![q] = o.upto]
    /\ taken' = [taken EXCEPT ![q] = @ \ {o}]
    /\ UNCHANGED <<prod, next, answer>>

(* Reopening a queue nobody uses.                                          *)
Rewind(q) ==
    /\ taken[q] = {}
    /\ \/ prod' = [prod EXCEPT ![q] = 0] /\ UNCHANGED <<cons, next>>
       \/ /\ cons' = [cons EXCEPT ![q] = 0] /\ next' = [next EXCEPT ![q] = 0]
          /\ UNCHANGED prod
    /\ UNCHANGED <<taken, answer>>

Next ==
    \/ Collect
    \/ \E q \in Queue :
         \/ \E n \in Wqe : Publish(q, n) \/ HandOut(q, n) \/ Refuse(q, n)
         \/ \E o \in taken[q] : MarkRead(q, o) \/ GiveBack(q, o)
         \/ Rewind(q)

Spec == Init /\ [][Next]_vars
=============================================================================
