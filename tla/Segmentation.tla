----------------------------- MODULE Segmentation -----------------------------
(***************************************************************************)
(* The segmentation of a network into blocks (dnasegment.cpp).  Starting   *)
(* from some stations, a block takes in the stations that share            *)
(* measurements with them; it is closed once it is large enough, and the   *)
(* stations at its border, the junctions, start the next block.  A station *)
(* whose measurements have all been used is an inner station of its block. *)
(*                                                                         *)
(* Measurements and stations are numbered as in the binary files.  A       *)
(* cluster of measurements counts as one measurement.                      *)
(***************************************************************************)
EXTENDS Integers, Sequences, FiniteSets

CONSTANTS
    Stns,               \* station indices, bstBinaryRecords_
    Msrs,               \* indices of the first record of each measurement
    MinInner,           \* projectSettings_.s.min_inner_stations
    MaxTotal,           \* projectSettings_.s.max_total_stations
    ForceContiguous,    \* projectSettings_.s.force_contiguous_blocks
    SearchLevel,        \* projectSettings_.s.seg_search_level
    NetworkSet          \* the networks that may have been imported

ASSUME StnsAssumption == Stns \subseteq Nat /\ IsFiniteSet(Stns)
ASSUME MsrsAssumption == IsFiniteSet(Msrs)
ASSUME SettingsAssumption ==
    /\ MinInner \in Nat
    /\ MaxTotal \in Nat
    /\ ForceContiguous \in BOOLEAN
    /\ SearchLevel \in Nat

(* A measurement refers to at least one station.  Of the elements of a     *)
(* live cluster only directions can be ignored one by one; an instrument,  *)
(* a reference and a target that are observed always remain.               *)
Network ==
    [stations : [Msrs -> (SUBSET Stns) \ {{}}], observed : [Msrs -> SUBSET Stns]]

ASSUME NetworkSetAssumption ==
    /\ NetworkSet \subseteq Network
    /\ \A n \in NetworkSet, m \in Msrs :
          \/ n.observed[m] \in {{}, n.stations[m]}
          \/ /\ n.observed[m] \subseteq n.stations[m]
             /\ Cardinality(n.observed[m]) >= 3

VARIABLES
    msrStations,    \* GetMsrStations: the stations of each measurement
    observed,       \* those of them some non-ignored element refers to
    initialStns,    \* vinitialStns_ still to be dealt with
    available,      \* vAssocFreeMsrList_: measurements not yet consumed
    free,           \* vfreeStnList_
    inner,          \* vCurrInnerStnList_
    junctions,      \* vCurrJunctStnList_
    msrs,           \* vCurrMeasurementList_
    blocks,         \* vISL_, vJSL_ and vCML_
    netList,        \* v_ContiguousNetList_
    pc,             \* what the program does next
    segmentStatus   \* segmentStatus_

network == <<msrStations, observed>>
vars == <<network, initialStns, available, free, inner, junctions, msrs,
          blocks, netList, pc, segmentStatus>>

Block == [inner : SUBSET Stns, junctions : SUBSET Stns, msrs : SUBSET Msrs]

Labels == {"first", "initial", "next", "extend", "finalise", "verify", "done"}

TypeOK ==
    /\ msrStations \in [Msrs -> SUBSET Stns]
    /\ observed \in [Msrs -> SUBSET Stns]
    /\ initialStns \subseteq Stns
    /\ available \subseteq Msrs
    /\ free \subseteq Stns
    /\ inner \subseteq Stns
    /\ junctions \subseteq Stns
    /\ msrs \subseteq Msrs
    /\ blocks \in Seq(Block)
    /\ netList \in Seq(Nat)
    /\ pc \in Labels
    /\ segmentStatus \in {"SEGMENT_SUCCESS", "SEGMENT_EXCEPTION_RAISED"}

(* A measurement is ignored as a whole if no element of it is observed. *)
Ignored == {m \in Msrs : observed[m] = {}}

Live == Msrs \ Ignored

AllStations == Stns                                                 \* mutant

(* CompleteAssociationLists calls a station valid if some non-ignored      *)
(* element refers to it.                                                   *)
Valid == UNION {observed[m] : m \in Msrs}



(* PrepareSegmentation: stations that are not valid leave the free list,   *)
(* ignored measurements are consumed; SegmentNetwork starts network 0.     *)
Init ==
    /\ \E n \in NetworkSet :
          /\ msrStations = n.stations
          /\ observed = n.observed
    /\ Live # {}
    /\ initialStns \in SUBSET Stns
    /\ available = Live
    /\ free = Valid
    /\ inner = {}
    /\ junctions = {}
    /\ msrs = {}
    /\ blocks = <<>>
    /\ netList = <<0>>
    /\ pc = "first"
    /\ segmentStatus = "SEGMENT_SUCCESS"

-----------------------------------------------------------------------------

Unused(s) == {m \in available : s \in msrStations[m]}

(* GetAssocMsrCount also counts the ignored measurements. *)
AssocMsrCount(s) ==
    Cardinality({m \in available \cup Ignored : s \in msrStations[m]})

Precedes(s, t) ==
    \/ AssocMsrCount(s) < AssocMsrCount(t)
    \/ AssocMsrCount(s) = AssocMsrCount(t) /\ s < t

(* SortbyMeasurementCount: the station it leaves at the front.  A deeper   *)
(* search promotes one of the first five; which one is left open.          *)
Foremost(list) ==
    LET rank(s) == Cardinality({t \in list : Precedes(t, s)})
    IN  {s \in list : rank(s) < IF SearchLevel = 0 THEN 1 ELSE 5}

KeepInList(list, s) == list                                         \* mutant

(* MoveStation takes a station off the list of junctions. *)
TakeOff(list, s) == list \ {s}

(* MoveFreeStn takes a station off the free list for good. *)
Consume(s) == free \ {s}

(* AddtoJunctionStnList: the free stations of some measurements. *)
Connected(used, freeStns) ==
    (UNION {msrStations[m] : m \in used}) \cap freeStns

(* GetInnerMeasurements: the measurements of a station are consumed and    *)
(* the free stations they refer to become junctions.                       *)
UseMeasurements(s, freeStns, junctionStns) ==
    LET used == Unused(s)
        connected == Connected(used, freeStns)
    IN  /\ msrs' = msrs \cup used
        /\ available' = available \ used
        /\ free' = freeStns \ connected
        /\ junctions' = junctionStns \cup connected

(* BuildFirstBlock chooses a station if none was specified, and validates  *)
(* the specified ones.                                                     *)
BuildFirstBlock ==
    /\ pc = "first"
    /\ \/ /\ initialStns = {}
          /\ \E s \in Foremost(free) : initialStns' = {s}
          /\ pc' = "initial"
          /\ UNCHANGED segmentStatus
       \/ /\ initialStns # {}
          /\ initialStns \subseteq free
          /\ pc' = "initial"
          /\ UNCHANGED <<initialStns, segmentStatus>>
       \/ /\ ~(initialStns \subseteq free)
          /\ pc' = "done"
          /\ segmentStatus' = "SEGMENT_EXCEPTION_RAISED"
          /\ UNCHANGED initialStns
    /\ UNCHANGED <<network, available, free, inner, junctions, msrs, blocks,
                   netList>>

(* One station of VerifyStationsandBuildBlock.  If an earlier one has made *)
(* it a junction it stays one, but its measurements are used all the same. *)
AddInitialStation(s) ==
    /\ pc = "initial"
    /\ s \in initialStns
    /\ initialStns' = initialStns \ {s}
    /\ inner' = inner \cup ({s} \cap free)
    /\ UseMeasurements(s, Consume(s), junctions)
    /\ pc' = IF initialStns = {s} THEN "finalise" ELSE "initial"
    /\ UNCHANGED <<network, blocks, netList, segmentStatus>>

NoMeasurements == {}                                                \* mutant

(* FindCommonMeasurements: those that refer to junctions only. *)
CommonMeasurements == {m \in available : msrStations[m] \subseteq junctions}

AllNeeded(left) == junctions                                         \* mutant

(* MoveJunctiontoISL leaves the junctions some measurement of left needs. *)
StillNeeded(left) ==
    {s \in junctions : \E m \in left : s \in msrStations[m]}

FinaliseBlock ==
    LET common == CommonMeasurements
        left == available \ common
        remaining == StillNeeded(left)
    IN
    /\ pc = "finalise"
    /\ available' = left
    /\ msrs' = msrs \cup common
    /\ inner' = inner \cup (junctions \ remaining)
    /\ junctions' = remaining
    /\ blocks' = Append(blocks, [inner |-> inner', junctions |-> junctions',
                                 msrs |-> msrs'])
    /\ pc' = IF free = {} THEN "verify" ELSE "next"
    /\ UNCHANGED <<network, initialStns, free, netList, segmentStatus>>

SameNetwork(current) == current                                     \* mutant

(* The number of a network that shares no station with those before. *)
NewNetwork(current) == IF ForceContiguous THEN current ELSE current + 1

KeptInner == inner                                                  \* mutant

(* vCurrInnerStnList_ at the start of a block. *)
ClearedInner == {}

(* BuildNextBlock up to its loop.  Without junctions a new network starts, *)
(* unless blocks are to be treated as contiguous.                          *)
BuildNextBlock ==
    LET current == netList[Len(netList)]
    IN
    /\ pc = "next"
    /\ inner' = ClearedInner
    /\ msrs' = {}
    /\ \/ /\ junctions # {}
          /\ netList' = Append(netList, current)
          /\ UNCHANGED <<free, junctions>>
       \/ /\ junctions = {}
          /\ netList' = Append(netList, NewNetwork(current))
          /\ \E s \in Foremost(free) :
                /\ junctions' = {s}
                /\ free' = Consume(s)
    /\ pc' = "extend"
    /\ UNCHANGED <<network, initialStns, available, blocks, segmentStatus>>

BlockComplete == free = {} \/ (junctions = {} /\ ~ForceContiguous)

(* One pass of the loop of BuildNextBlock: SelectJunction if there is no   *)
(* junction left, SelectInner, GetInnerMeasurements, and the test of the   *)
(* block size.                                                             *)
ExtendBlock ==
    /\ pc = "extend"
    /\ ~BlockComplete
    /\ \E s \in Foremost(IF junctions = {} THEN free ELSE junctions) :
          /\ inner' = inner \cup {s}
          /\ UseMeasurements(s, Consume(s), TakeOff(junctions, s))
    /\ pc' = IF /\ Cardinality(inner') + Cardinality(junctions') >= MaxTotal
                /\ Cardinality(inner') >= MinInner
             THEN "finalise"
             ELSE "extend"
    /\ UNCHANGED <<network, initialStns, blocks, netList, segmentStatus>>

CompleteBlock ==
    /\ pc = "extend"
    /\ BlockComplete
    /\ pc' = "finalise"
    /\ UNCHANGED <<network, initialStns, available, free, inner, junctions,
                   msrs, blocks, netList, segmentStatus>>

(* VerifyStationConnections. *)
Unconnected(b) == b.inner \ UNION {msrStations[m] : m \in b.msrs}

VerifyStationConnections ==
    /\ pc = "verify"
    /\ segmentStatus' = IF \A i \in DOMAIN blocks : Unconnected(blocks[i]) = {}
                        THEN "SEGMENT_SUCCESS"
                        ELSE "SEGMENT_EXCEPTION_RAISED"
    /\ pc' = "done"
    /\ UNCHANGED <<network, initialStns, available, free, inner, junctions,
                   msrs, blocks, netList>>

Terminated == pc = "done" /\ UNCHANGED vars

Next ==
    \/ BuildFirstBlock
    \/ \E s \in Stns : AddInitialStation(s)
    \/ FinaliseBlock
    \/ BuildNextBlock
    \/ ExtendBlock
    \/ CompleteBlock
    \/ VerifyStationConnections
    \/ Terminated

Spec == Init /\ [][Next]_vars

FairSpec == Spec /\ WF_vars(Next)

-----------------------------------------------------------------------------
(* Properties. *)

StationsOf(b) == b.inner \cup b.junctions

Finished == pc = "done" /\ segmentStatus = "SEGMENT_SUCCESS"

(* Every measurement that is not ignored is in exactly one block when the  *)
(* segmentation succeeds.  Two blocks would count its weight twice; no     *)
(* block would leave it out of the adjustment without a word.              *)
EveryMeasurementInOneBlock ==
    Finished => \A m \in Live :
                    Cardinality({i \in DOMAIN blocks : m \in blocks[i].msrs}) = 1

(* Every valid station is inner station of exactly one block when the      *)
(* segmentation succeeds: that block gives its final coordinates.          *)
EveryStationInnerOnce ==
    Finished => \A s \in Valid :
                    Cardinality({i \in DOMAIN blocks : s \in blocks[i].inner}) = 1

(* A station is in consecutive blocks only, as a junction in all but the   *)
(* last of them, so that what the adjustment carries from block to block   *)
(* always reaches it.                                                      *)
StationsConsecutive ==
    \A s \in Stns : \A i, j \in DOMAIN blocks :
        i < j /\ s \in StationsOf(blocks[i]) /\ s \in StationsOf(blocks[j]) =>
            \A k \in i .. j - 1 : s \in blocks[k].junctions

(* BlockFirst and BlockLast of the adjustment look at the network numbers  *)
(* only.  They are right: a block hands junctions on if and only if the    *)
(* next block has its number.                                              *)
NetworkNumbersTellJunctions ==
    \A i \in DOMAIN blocks :
        i + 1 \in DOMAIN netList /\ ~ForceContiguous =>
            (blocks[i].junctions # {} <=> netList[i] = netList[i + 1])

(* VerifyStationConnections never has anything to complain about: even a   *)
(* station handed on through several blocks, whose measurements other      *)
(* stations use up, is observed in the block where it is an inner station. *)
VerificationPasses ==
    pc = "verify" => \A i \in DOMAIN blocks : Unconnected(blocks[i]) = {}

(* The segmentation comes to an end. *)
Termination == <>(pc = "done")

(* The segmentation implements the chain of blocks that the adjustment     *)
(* relies on.  The number of a network is assigned when its block is       *)
(* begun, one step before the chain sees it.                               *)
Chain == INSTANCE BlockChain
             WITH netList <- [i \in 1 .. Len(blocks) |-> netList[i]]

ImplementsBlockChain == Chain!Spec
=============================================================================
