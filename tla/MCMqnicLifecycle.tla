------------------------- MODULE MCMqnicLifecycle ---------------------------
(* Small instances of MqnicLifecycle. *)
EXTENDS MqnicLifecycle
=============================================================================
