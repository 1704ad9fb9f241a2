---------------------------- MODULE PhasedBlocks ----------------------------
(***************************************************************************)
(* The blocks of a segmented network.  A segmentation file is a list of    *)
(* blocks, each tagged with the contiguous network it belongs to           *)
(* (v_ContiguousNetList_).  Neighbouring blocks with the same tag share    *)
(* junction stations; the phased adjustment carries information between    *)
(* them and nowhere else.                                                  *)
(***************************************************************************)
EXTENDS Integers

CONSTANTS
    BlockCount,     \* blockCount_, the number of blocks of the segmentation
    NetOf           \* v_ContiguousNetList_, the network of each block

Blocks == 0 .. BlockCount - 1

ASSUME BlockCountAssumption == BlockCount \in Nat \ {0}
ASSUME NetOfAssumption == NetOf \in [Blocks -> Nat]

BlockFirst(b) == b = 0 \/ NetOf[b] # NetOf[b - 1]

BlockLast(b) == b = BlockCount - 1 \/ NetOf[b] # NetOf[b + 1]

BlockIsolated(b) == BlockFirst(b) /\ BlockLast(b)

BlockIntermediate(b) == ~BlockFirst(b) /\ ~BlockLast(b)

(* Needs a combination adjustment: neither the reverse run (first block)   *)
(* nor the forward run (last or isolated block) is rigorous for it.        *)
CombineRequired(b) == ~BlockLast(b) /\ ~BlockIsolated(b) /\ ~BlockFirst(b)

CombinationThreadRequired == \E b \in Blocks : BlockIntermediate(b)

(* CarryForwardJunctions hands junctions on to b+1 unless one of its early *)
(* returns applies.                                                        *)
CarriesForward(b) ==
    /\ ~BlockIsolated(b)
    /\ ~BlockLast(b)
    /\ ~BlockIsolated(b + 1)

(* CarryReverseJunctions hands junctions on to b-1. *)
CarriesReverse(b) == ~BlockIsolated(b) /\ ~BlockFirst(b)
=============================================================================
