--------------------------- MODULE MCDoorbellRing ---------------------------
(* Small instances of DoorbellRing. *)
EXTENDS DoorbellRing

CONSTANTS q1, q2, low, high

TwoQueues == {q1, q2}
TwoDoorbells == {low, high}

(* The host writes either word to q1 and only one of them to q2: the words *)
(* that travel through q1's ring can be told apart, and each queue's token *)
(* meets the other's everywhere.                                           *)
MCHostRings == \E d \in Doorbell : AcceptDoorbell(q1, d)
MCHostRingsOther == AcceptDoorbell(q2, low)
MCNext == MCHostRings \/ MCHostRingsOther \/ Hardware
MCFairSpec == Init /\ [][MCNext]_vars /\ Fairness
=============================================================================
