--------------------------- MODULE MCPifoTieBreak ---------------------------
(* Small instances of PifoTieBreak. *)
EXTENDS PifoTieBreak

CONSTANTS m1, m2, m3
ThreeMetas == {m1, m2, m3}
=============================================================================
