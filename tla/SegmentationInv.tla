--------------------------- MODULE SegmentationInv ---------------------------
(***************************************************************************)
(* The inductive invariant of Segmentation: why the blocks found one by    *)
(* one form a chain.                                                       *)
(***************************************************************************)
EXTENDS Segmentation

(* A block is being built; otherwise the current lists are those of the    *)
(* last block.                                                             *)
Building == pc \in {"first", "initial", "extend", "finalise"}

OpenInner == IF Building THEN inner ELSE {}

OpenMsrs == IF Building THEN msrs ELSE {}

ClosedInner == UNION {blocks[i].inner : i \in DOMAIN blocks}

ClosedMsrs == UNION {blocks[i].msrs : i \in DOMAIN blocks}

LastJunctions == IF blocks = <<>> THEN {} ELSE blocks[Len(blocks)].junctions

(* A valid station is in exactly one of four lists. *)
StationsApart ==
    /\ free \cap junctions = {}
    /\ free \cap OpenInner = {}
    /\ free \cap ClosedInner = {}
    /\ junctions \cap OpenInner = {}
    /\ junctions \cap ClosedInner = {}
    /\ OpenInner \cap ClosedInner = {}
    /\ Valid = free \cup junctions \cup OpenInner \cup ClosedInner

(* So is a live measurement. *)
MeasurementsApart ==
    /\ available \cap OpenMsrs = {}
    /\ available \cap ClosedMsrs = {}
    /\ OpenMsrs \cap ClosedMsrs = {}
    /\ Live = available \cup OpenMsrs \cup ClosedMsrs

(* Inner stations have no measurement left, and free ones have not been    *)
(* reached by any that was used.                                           *)
UsedUp ==
    /\ \A m \in available :
          msrStations[m] \cap (OpenInner \cup ClosedInner) = {}
    /\ \A m \in OpenMsrs : observed[m] \subseteq OpenInner \cup junctions
    /\ \A m \in ClosedMsrs : observed[m] \cap free = {}

(* Stations of the open block owe their place to a measurement of it, or,  *)
(* the junctions, to one still to be used.                                 *)
Connections ==
    /\ \A s \in OpenInner : \E m \in OpenMsrs : s \in msrStations[m]
    /\ \A s \in junctions :
          \E m \in available \cup OpenMsrs : s \in msrStations[m]

(* What the last block handed on has not got lost. *)
HandedOver ==
    /\ LastJunctions \subseteq OpenInner \cup junctions
    /\ pc \in {"next", "verify"} => junctions = LastJunctions
    /\ pc \in {"next", "verify"} => blocks # <<>>
    /\ pc \in {"first", "initial"} => blocks = <<>>
    /\ pc = "first" => inner = {} /\ msrs = {}
    /\ pc = "initial" => initialStns \subseteq Valid

NumbersCorrect ==
    LET n == Len(blocks) IN
    /\ Building => Len(netList) = n + 1
    /\ pc \in {"next", "verify"} => Len(netList) = n
    /\ Building /\ n = 0 => netList[1] = 0
    /\ \A i \in DOMAIN blocks :
          i + 1 \in DOMAIN netList =>
              netList[i + 1] = IF blocks[i].junctions = {}
                               THEN NewNetwork(netList[i])
                               ELSE netList[i]

(* Blocks already found. *)
BlocksApart ==
    \A i, j \in DOMAIN blocks :
        i # j => /\ blocks[i].inner \cap blocks[j].inner = {}
                 /\ blocks[i].msrs \cap blocks[j].msrs = {}

ChainSoFar ==
    /\ BlocksApart
    /\ StationsConsecutive
    /\ \A i \in DOMAIN blocks, s \in Stns :
          s \in StationsOf(blocks[i]) =>
              \/ s \in ClosedInner
              \/ \A k \in i .. Len(blocks) : s \in blocks[k].junctions
    /\ \A i \in DOMAIN blocks : Unconnected(blocks[i]) = {}

(* The blocks are complete when no station is free and no measurement is   *)
(* left between the junctions.                                             *)
Complete ==
    pc = "verify" \/ Finished =>
        /\ free = {}
        /\ blocks # <<>> /\ junctions = LastJunctions
        /\ \A m \in available : ~(msrStations[m] \subseteq junctions)
        /\ \A s \in junctions : \E m \in available : s \in msrStations[m]

(* The segmentation keeps the lists of stations and measurements apart and *)
(* hands on everything that is not finished: the invariant from which all  *)
(* its properties follow.                                                  *)
ChainInv ==
    /\ StationsApart
    /\ MeasurementsApart
    /\ UsedUp
    /\ Connections
    /\ HandedOver
    /\ NumbersCorrect
    /\ ChainSoFar
    /\ Complete
    /\ \A m \in Msrs : observed[m] \subseteq msrStations[m]

(* No block is empty, its lists are apart, and so far each block that is   *)
(* being built has a station.                                              *)
BlocksProper ==
    /\ \A i \in DOMAIN blocks :
          /\ blocks[i].inner \cap blocks[i].junctions = {}
          /\ StationsOf(blocks[i]) # {}
          /\ StationsOf(blocks[i]) \subseteq Valid
    /\ pc = "initial" =>
          /\ initialStns # {}
          /\ initialStns \subseteq free \/ inner \cup junctions # {}
    /\ pc \in {"extend", "finalise"} => inner \cup junctions # {}
    /\ Finished => Len(netList) = Len(blocks)

(* The blocks from the first to the last in which a station may appear.    *)
Appearance ==
    {a \in [first : DOMAIN blocks, last : DOMAIN blocks] :
        /\ a.first <= a.last
        /\ \A i \in a.first .. a.last : netList[i] = netList[a.first]}

(* What the models of the phased adjustment assume of their blocks         *)
(* (PhasedBlocks, NetworkInformation): there is a block and each has a     *)
(* network number; each station appears in consecutive blocks of one       *)
(* number, as an inner station of the last and a junction of the others;   *)
(* no block is without stations.                                           *)
FitsAdjustment ==
    Finished =>
        /\ blocks # <<>> /\ Len(netList) = Len(blocks)
        /\ \A s \in Valid : \E a \in Appearance : \A i \in DOMAIN blocks :
              /\ s \in StationsOf(blocks[i]) <=> i \in a.first .. a.last
              /\ s \in blocks[i].junctions <=> i \in a.first .. a.last - 1
        /\ \A i \in DOMAIN blocks : \E s \in Valid : s \in StationsOf(blocks[i])
=============================================================================
