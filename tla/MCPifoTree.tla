----------------------------- MODULE MCPifoTree -----------------------------
(* Small instances of PifoTree. *)
EXTENDS PifoTree

CONSTANTS m1, m2
OneMeta == {m1}
TwoMetas == {m1, m2}
=============================================================================
