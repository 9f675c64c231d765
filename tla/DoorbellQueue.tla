---------------------------- MODULE DoorbellQueue ---------------------------
(***************************************************************************)
(* What a transmit queue promises the host about its doorbells: they are   *)
(* kept in a bounded fifo per queue, and the scheduler is handed each of   *)
(* them once and in the order the host wrote them.  A doorbell the host    *)
(* writes while the fifo is full leaves no trace.                          *)
(***************************************************************************)
EXTENDS Naturals, Sequences

CONSTANTS Queue, Doorbell, DoorbellDepth, None

VARIABLES
    pending,    \* doorbells of each queue the scheduler has not handed out
    granted     \* the doorbell handed out last

vars == <<pending, granted>>

Init ==
    /\ pending = [q \in Queue |-> <<>>]
    /\ granted = None

Ring(q, d) ==
    /\ Len(pending[q]) < DoorbellDepth
    /\ pending' = [pending EXCEPT ![q] = Append(@, d)]
    /\ UNCHANGED granted

Grant(q) ==
    /\ pending[q] # <<>>
    /\ granted' = [queue |-> q, doorbell |-> Head(pending[q])]
    /\ pending' = [pending EXCEPT ![q] = Tail(@)]

Next ==
    \/ \E q \in Queue, d \in Doorbell : Ring(q, d)
    \/ \E q \in Queue : Grant(q)

Spec == Init /\ [][Next]_vars
=============================================================================
