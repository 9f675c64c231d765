--------------------------- MODULE MCDequeueTable ---------------------------
(* Small instances of DequeueTable. *)
EXTENDS DequeueTable

CONSTANTS q1, q2

TwoQueues == {q1, q2}

(* The host uses both queues and closes and opens q1 again and again, while *)
(* the traffic of q2 goes on.                                              *)
MCHostWrite ==
    \/ \E q \in Queue, n \in Wqe : HostPublish(q, n)
    \/ \E q \in Queue : HostEnable(q)
    \/ HostDisable(q1)
    \/ HostRewindProd(q1)
    \/ HostRewindCons(q1)
MCNext == MCHostWrite \/ Hardware
MCFairSpec == Init /\ [][MCNext]_vars /\ Fairness
=============================================================================
