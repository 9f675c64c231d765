----------------------------- MODULE MCMqnicRx ------------------------------
(* Small instances of MqnicRx. *)
EXTENDS MqnicRx

CONSTANT v1

OneReceiver == {v1}
=============================================================================
