----------------------------- MODULE MCMqnicTx ------------------------------
(* Small instances of MqnicTx. *)
EXTENDS MqnicTx

CONSTANTS r1, s1, s2

OneRing == {r1}
TwoSenders == {s1, s2}
=============================================================================
