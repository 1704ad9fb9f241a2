------------------------------ MODULE BlockChain ------------------------------
(***************************************************************************)
(* What the phased adjustment needs of a segmentation, without saying how  *)
(* it is found.  Blocks are added one after the other.  A block takes over *)
(* all junctions of the block before it; its inner stations are finished,  *)
(* all their measurements being in this block or an earlier one; its       *)
(* junctions are not.  A new network starts where nothing is handed on.    *)
(***************************************************************************)
EXTENDS Integers, Sequences

CONSTANTS
    Stns, Msrs,
    ForceContiguous     \* TRUE if all blocks count as one network

VARIABLES
    msrStations,        \* the stations of each measurement
    observed,           \* those that some non-ignored element refers to
    blocks,             \* the blocks found so far
    netList             \* the network of each block

vars == <<msrStations, observed, blocks, netList>>

StationsOf(b) == b.inner \cup b.junctions

InnerSoFar == UNION {blocks[i].inner : i \in DOMAIN blocks}

Used == UNION {blocks[i].msrs : i \in DOMAIN blocks}

HandedOn == IF blocks = <<>> THEN {} ELSE blocks[Len(blocks)].junctions

MsrsOf(s) == {m \in Msrs : observed[m] # {} /\ s \in msrStations[m]}

Init ==
    /\ msrStations \in [Msrs -> SUBSET Stns]
    /\ observed \in [Msrs -> SUBSET Stns]
    /\ blocks = <<>>
    /\ netList = <<>>

(* The block b may follow the blocks found so far. *)
MayFollow(b) ==
    /\ b.inner \cap b.junctions = {}
    /\ HandedOn \subseteq StationsOf(b)
    /\ StationsOf(b) \cap InnerSoFar = {}
    /\ b.msrs \cap Used = {}
    /\ \A m \in b.msrs : observed[m] # {} /\ observed[m] \subseteq StationsOf(b)
    /\ \A s \in b.inner : MsrsOf(s) \subseteq Used \cup b.msrs
    /\ \A s \in b.junctions : ~(MsrsOf(s) \subseteq Used \cup b.msrs)
    /\ \A s \in b.inner : MsrsOf(s) \cap b.msrs # {}

(* The number of the network of the next block. *)
NextNet ==
    IF blocks = <<>>
    THEN 0
    ELSE LET net == netList[Len(netList)]
         IN  IF HandedOn = {} /\ ~ForceContiguous THEN net + 1 ELSE net

AddBlock(b) ==
    /\ blocks' = Append(blocks, b)
    /\ MayFollow(b)
    /\ netList' = Append(netList, NextNet)
    /\ UNCHANGED <<msrStations, observed>>

Block == [inner : SUBSET Stns, junctions : SUBSET Stns, msrs : SUBSET Msrs]

(* The block that a step adds is the one it leaves in the list. *)
Next == \E i \in DOMAIN blocks' : blocks'[i] \in Block /\ AddBlock(blocks'[i])

Spec == Init /\ [][Next]_vars
=============================================================================
