----------------------------- MODULE PacketRing -----------------------------
(***************************************************************************)
(* What a transmit ring promises its callers: packets leave in the order   *)
(* they were submitted, a packet buffer is given back only after its       *)
(* packet has left, and no buffer is handed to a second packet before.     *)
(***************************************************************************)
EXTENDS Naturals, Sequences, SequencesExt

CONSTANTS Ring, Buffer, Capacity

VARIABLES
    queued,     \* buffers of each ring the hardware has yet to send
    sent        \* buffers whose packet has left, not yet given back

vars == <<queued, sent>>

InUse == UNION {ToSet(queued[r]) \union ToSet(sent[r]) : r \in Ring}

Init ==
    /\ queued = [r \in Ring |-> <<>>]
    /\ sent = [r \in Ring |-> <<>>]

Submit(r, b) ==
    /\ Len(queued[r]) + Len(sent[r]) < Capacity
    /\ b \notin InUse
    /\ queued' = [queued EXCEPT ![r] = Append(@, b)]
    /\ UNCHANGED sent

Send(r) ==
    /\ queued[r] # <<>>
    /\ queued' = [queued EXCEPT ![r] = Tail(@)]
    /\ sent' = [sent EXCEPT ![r] = Append(@, Head(queued[r]))]

Reclaim(r) ==
    /\ \E n \in 1 .. Len(sent[r]) :
        sent' = [sent EXCEPT ![r] = SubSeq(@, n + 1, Len(@))]
    /\ UNCHANGED queued

Next ==
    \/ \E r \in Ring, b \in Buffer : Submit(r, b)
    \/ \E r \in Ring : Send(r) \/ Reclaim(r)

Spec == Init /\ [][Next]_vars
=============================================================================
