---------------------------- MODULE MCPsdpMemory ----------------------------
(* Small instances of PsdpMemory: two segments of two bytes, two words.    *)
EXTENDS PsdpMemory

(* Overlapping transfers that start or end in the middle of a segment and  *)
(* wrap over the segments                                                  *)
FewTransfers == {<<1, 5>>, <<3, 2>>}
=============================================================================
