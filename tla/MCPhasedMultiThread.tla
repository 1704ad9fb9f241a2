------------------------- MODULE MCPhasedMultiThread -------------------------
(* Instances of PhasedMultiThread for TLC: segmentations of three and five *)
(* blocks and pools of one or two workers.                                 *)
EXTENDS PhasedMultiThreadInv, TLC

NetList(list) == [b \in 0 .. Len(list) - 1 |-> list[b + 1]]

Net3 == NetList(<<0, 0, 0>>)                \* first, inner, last
NetBorders == NetList(<<0, 0, 0, 0, 1>>)    \* two inner blocks, one isolated

WorkerSymmetry == Permutations(Workers)
=============================================================================
