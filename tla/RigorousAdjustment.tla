------------------------- MODULE RigorousAdjustment -------------------------
(***************************************************************************)
(* What a phased adjustment promises: in every iteration the stations of   *)
(* each block get coordinates as a simultaneous adjustment of everything   *)
(* joined to the block would compute them, and no block goes into the next *)
(* iteration before all blocks have finished this one.                     *)
(***************************************************************************)
EXTENDS NetworkInformation

VARIABLES
    promised,       \* the blocks rigorous coordinates are promised for
    rigorous        \* their coordinates, [round, info]

vars == <<stations, promised, rigorous>>

Apriori == [round |-> 0, info |-> Nothing]

Init ==
    /\ stations \in Placements
    /\ promised \in SUBSET Blocks
    /\ rigorous = [b \in promised |-> Apriori]

AdjustBlock(b) ==
    /\ \A c \in promised : rigorous[c].round >= rigorous[b].round
    /\ rigorous' = [rigorous EXCEPT ![b] =
                       [round |-> rigorous[b].round + 1, info |-> Whole(b)]]
    /\ UNCHANGED <<stations, promised>>

Next == \E b \in promised : AdjustBlock(b)

Spec == Init /\ [][Next]_vars
=============================================================================
