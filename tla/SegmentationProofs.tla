-------------------------- MODULE SegmentationProofs --------------------------
(***************************************************************************)
(* Proofs about Segmentation, for every network and all settings.          *)
(***************************************************************************)
EXTENDS SegmentationInv, FiniteSetTheorems, WellFoundedInduction, TLAPS

(* Only the stations of a list come to its front. *)
LEMMA ForemostInList == ASSUME NEW list PROVE Foremost(list) \subseteq list
  BY DEF Foremost

(* The initial state satisfies the type and the inductive invariant. *)
LEMMA InitCorrect == Init => TypeOK /\ ChainInv
  <1> SUFFICES ASSUME Init PROVE TypeOK /\ ChainInv
    OBVIOUS
  <1> PICK n \in NetworkSet : msrStations = n.stations /\ observed = n.observed
    BY DEF Init
  <1>1. /\ msrStations \in [Msrs -> SUBSET Stns]
        /\ observed \in [Msrs -> SUBSET Stns]
        /\ \A m \in Msrs : observed[m] \subseteq msrStations[m]
    BY NetworkSetAssumption DEF Network
  <1>2. Valid \subseteq Stns /\ Live \subseteq Msrs
    BY <1>1 DEF Valid, Live
  <1>3. TypeOK
    BY <1>1, <1>2 DEF Init, TypeOK, Labels
  <1>4. ClosedInner = {} /\ ClosedMsrs = {} /\ LastJunctions = {}
    BY DEF Init, ClosedInner, ClosedMsrs, LastJunctions
  <1>5. ChainInv
    BY <1>1, <1>2, <1>4 DEF Init, ChainInv, StationsApart, MeasurementsApart,
      UsedUp, Connections, HandedOver, NumbersCorrect, ChainSoFar, BlocksApart,
      StationsConsecutive, Complete, Finished, Building,
      OpenInner, OpenMsrs
  <1> QED
    BY <1>3, <1>5

(* The blocks found so far, and the network, change only together with the *)
(* variables they are made of.                                             *)
LEMMA SameBlocks ==
  ASSUME UNCHANGED <<network, blocks>>
  PROVE  /\ ClosedInner' = ClosedInner
         /\ ClosedMsrs' = ClosedMsrs
         /\ LastJunctions' = LastJunctions
         /\ Valid' = Valid
         /\ Live' = Live
         /\ UNCHANGED <<msrStations, observed>>
         /\ ChainSoFar => ChainSoFar'
  <1> USE DEF network
  <1>1. /\ ClosedInner' = ClosedInner
        /\ ClosedMsrs' = ClosedMsrs
        /\ LastJunctions' = LastJunctions
    BY DEF ClosedInner, ClosedMsrs, LastJunctions
  <1>2. Valid' = Valid /\ Live' = Live
    BY DEF Valid, Live, Ignored
  <1>3. ChainSoFar => ChainSoFar'
    BY <1>1 DEF ChainSoFar, BlocksApart, StationsConsecutive, StationsOf,
      Unconnected
  <1> QED
    BY <1>1, <1>2, <1>3

(* Choosing the starting stations changes no list. *)
LEMMA FirstStep ==
  ASSUME TypeOK, ChainInv, BuildFirstBlock
  PROVE  TypeOK' /\ ChainInv'
  <1> USE DEF BuildFirstBlock, TypeOK, Labels, ChainInv
  <1>1. /\ initialStns' \subseteq Stns
        /\ pc' = "initial" => initialStns' \subseteq Valid
        /\ pc' \in {"initial", "done"}
        /\ pc' = "done" => segmentStatus' = "SEGMENT_EXCEPTION_RAISED"
        /\ UNCHANGED <<network, available, free, inner, junctions, msrs, blocks,
                       netList>>
    BY ForemostInList, SameBlocks DEF StationsApart
  <1>2. TypeOK'
    BY <1>1 DEF network
  <1>3. /\ OpenInner = {} /\ OpenInner' = {}
        /\ OpenMsrs = {} /\ OpenMsrs' = {}
        /\ blocks = <<>>
    BY <1>1 DEF OpenInner, OpenMsrs, Building, HandedOver
  <1> HIDE DEF BuildFirstBlock, TypeOK
  <1>4. StationsApart'
    BY <1>1, <1>3, SameBlocks DEF StationsApart
  <1>5. MeasurementsApart'
    BY <1>1, <1>3, SameBlocks DEF MeasurementsApart
  <1>6. UsedUp'
    BY <1>1, <1>3, SameBlocks DEF UsedUp
  <1>7. Connections'
    BY <1>1, <1>3, SameBlocks DEF Connections
  <1>8. HandedOver'
    BY <1>1, <1>3, SameBlocks DEF HandedOver
  <1>9. NumbersCorrect'
    BY <1>1, <1>3, SameBlocks DEF NumbersCorrect, NewNetwork, Building,
      BuildFirstBlock
  <1> QED
    BY <1>1, <1>2, <1>4, <1>5, <1>6, <1>7, <1>8, <1>9, SameBlocks
    DEF Complete, Finished

(* A free station has a measurement that has not been used. *)
LEMMA FreeStationHasMeasurement ==
  ASSUME TypeOK, ChainInv, NEW t \in free
  PROVE  \E m \in available : t \in msrStations[m]
  <1>1. PICK m \in Msrs : t \in observed[m]
    BY DEF ChainInv, StationsApart, Valid
  <1>2. m \in Live /\ t \in msrStations[m]
    BY <1>1 DEF Live, Ignored, ChainInv
  <1>3. m \notin OpenMsrs \cup ClosedMsrs
    BY <1>1 DEF ChainInv, UsedUp, StationsApart
  <1> QED
    BY <1>2, <1>3 DEF ChainInv, MeasurementsApart

(* A station takes its measurements into the open block: as an inner       *)
(* station if it was free or is taken off the junctions (kept is the       *)
(* station then, and empty otherwise).                                     *)
LEMMA UseMeasurementsCorrect ==
  ASSUME TypeOK, ChainInv, NEW s \in Stns, NEW kept,
         kept \subseteq {s} \cap (free \cup junctions),
         {s} \cap free \subseteq kept,
         pc \in {"initial", "extend"},
         pc' \in {"initial", "extend", "finalise"},
         inner' = inner \cup kept,
         UseMeasurements(s, Consume(s), junctions \ kept),
         UNCHANGED <<network, blocks>>
  PROVE  /\ StationsApart' /\ MeasurementsApart' /\ UsedUp' /\ Connections'
         /\ LastJunctions' \subseteq OpenInner' \cup junctions'
         /\ available' \subseteq Msrs /\ free' \subseteq Stns
         /\ inner' \subseteq Stns /\ junctions' \subseteq Stns
         /\ msrs' \subseteq Msrs
  <1> DEFINE used == Unused(s)
             connected == Connected(used, free \ {s})
  <1>1. /\ msrs' = msrs \cup used
        /\ available' = available \ used
        /\ free' = (free \ {s}) \ connected
        /\ junctions' = (junctions \ kept) \cup connected
    BY DEF UseMeasurements, Consume
  <1>2. /\ used \subseteq available
        /\ \A m \in available : m \in used <=> s \in msrStations[m]
        /\ connected \subseteq free \ {s}
        /\ \A t \in connected : \E m \in used : t \in msrStations[m]
        /\ \A m \in used : msrStations[m] \cap (free \ {s}) \subseteq connected
    <2>1. used \subseteq available /\ \A m \in available :
                                       m \in used <=> s \in msrStations[m]
      BY DEF Unused
    <2>2. connected \subseteq free \ {s}
      BY DEF Connected
    <2> HIDE DEF used
    <2>3. \A t \in connected : \E m \in used : t \in msrStations[m]
      BY DEF Connected
    <2>4. \A m \in used : msrStations[m] \cap (free \ {s}) \subseteq connected
      BY DEF Connected
    <2> QED
      BY <2>1, <2>2, <2>3, <2>4
  <1>3. /\ OpenInner = inner /\ OpenInner' = inner'
        /\ OpenMsrs = msrs /\ OpenMsrs' = msrs'
    BY DEF OpenInner, OpenMsrs, Building
  <1>4. /\ available \subseteq Msrs /\ free \subseteq Stns
        /\ inner \subseteq Stns /\ junctions \subseteq Stns
        /\ msrs \subseteq Msrs
        /\ \A m \in Msrs : observed[m] \subseteq msrStations[m]
        /\ StationsApart /\ MeasurementsApart /\ UsedUp /\ Connections
        /\ LastJunctions \subseteq OpenInner \cup junctions
    BY DEF TypeOK, ChainInv, HandedOver
  <1> HIDE DEF used, connected
  <1>5. StationsApart'
    BY <1>1, <1>2, <1>3, <1>4, SameBlocks DEF StationsApart
  <1>6. MeasurementsApart'
    BY <1>1, <1>2, <1>3, <1>4, SameBlocks DEF MeasurementsApart
  <1>7. ASSUME NEW m \in used
        PROVE  observed[m] \subseteq inner' \cup junctions'
    <2>1. observed[m] \subseteq Valid /\ observed[m] \subseteq msrStations[m]
      BY <1>2, <1>4 DEF Valid
    <2>2. observed[m] \cap ClosedInner = {}
      BY <2>1, <1>2, <1>4 DEF UsedUp
    <2> QED
      BY <2>1, <2>2, <1>1, <1>2, <1>3, <1>4 DEF StationsApart
  <1>8. UsedUp'
    BY <1>1, <1>2, <1>3, <1>4, <1>7, SameBlocks DEF UsedUp
  <1>9. ASSUME NEW t \in kept
        PROVE  \E m \in msrs' : t \in msrStations[m]
    <2>1. CASE t \in junctions
      BY <2>1, <1>1, <1>2, <1>3, <1>4 DEF Connections
    <2>2. CASE t \in free
      BY <2>2, <1>1, <1>2, FreeStationHasMeasurement
    <2> QED
      BY <2>1, <2>2
  <1>10. Connections'
    BY <1>1, <1>2, <1>3, <1>4, <1>9, SameBlocks DEF Connections
  <1> QED
    BY <1>1, <1>2, <1>3, <1>4, <1>5, <1>6, <1>8, <1>10, SameBlocks

(* The first block grows by one starting station. *)
LEMMA InitialStep ==
  ASSUME TypeOK, ChainInv, NEW s \in Stns, AddInitialStation(s)
  PROVE  TypeOK' /\ ChainInv'
  <1> DEFINE kept == {s} \cap free
  <1>1. /\ pc = "initial" /\ pc' \in {"initial", "finalise"}
        /\ s \in initialStns /\ initialStns' \subseteq initialStns
        /\ inner' = inner \cup kept
        /\ UseMeasurements(s, Consume(s), junctions)
        /\ UNCHANGED <<network, blocks, netList, segmentStatus>>
    BY DEF AddInitialStation
  <1>2. junctions \ kept = junctions
    BY DEF ChainInv, StationsApart
  <1> HIDE DEF AddInitialStation
  <1>3. UseMeasurements(s, Consume(s), junctions \ kept)
    BY <1>1, <1>2
  <1>4. /\ StationsApart' /\ MeasurementsApart' /\ UsedUp' /\ Connections'
        /\ LastJunctions' \subseteq OpenInner' \cup junctions'
        /\ available' \subseteq Msrs /\ free' \subseteq Stns
        /\ inner' \subseteq Stns /\ junctions' \subseteq Stns
        /\ msrs' \subseteq Msrs
    BY <1>1, <1>3, UseMeasurementsCorrect
  <1>5. TypeOK'
    BY <1>1, <1>4 DEF TypeOK, Labels, network
  <1>6. HandedOver'
    BY <1>1, <1>4, SameBlocks DEF HandedOver, ChainInv
  <1>7. NumbersCorrect'
    BY <1>1, SameBlocks DEF NumbersCorrect, ChainInv, Building, NewNetwork
  <1> QED
    BY <1>1, <1>4, <1>5, <1>6, <1>7, SameBlocks
    DEF ChainInv, Complete, Finished

(* A later block grows by one junction, or by one free station. *)
LEMMA ExtendStep ==
  ASSUME TypeOK, ChainInv, ExtendBlock
  PROVE  TypeOK' /\ ChainInv'
  <1>1. PICK s \in Foremost(IF junctions = {} THEN free ELSE junctions) :
            /\ inner' = inner \cup {s}
            /\ UseMeasurements(s, Consume(s), TakeOff(junctions, s))
    BY DEF ExtendBlock
  <1>2. /\ pc = "extend" /\ pc' \in {"extend", "finalise"}
        /\ UNCHANGED <<network, initialStns, blocks, netList, segmentStatus>>
    BY DEF ExtendBlock
  <1>3. s \in free \cup junctions /\ s \in Stns
    BY <1>1, ForemostInList DEF TypeOK
  <1>4. UseMeasurements(s, Consume(s), junctions \ {s})
    BY <1>1 DEF TakeOff
  <1>5. /\ StationsApart' /\ MeasurementsApart' /\ UsedUp' /\ Connections'
        /\ LastJunctions' \subseteq OpenInner' \cup junctions'
        /\ available' \subseteq Msrs /\ free' \subseteq Stns
        /\ inner' \subseteq Stns /\ junctions' \subseteq Stns
        /\ msrs' \subseteq Msrs
    BY <1>1, <1>2, <1>3, <1>4, UseMeasurementsCorrect
  <1>6. TypeOK'
    BY <1>2, <1>5 DEF TypeOK, Labels, network
  <1>7. HandedOver'
    BY <1>2, <1>5, SameBlocks DEF HandedOver, ChainInv
  <1>8. NumbersCorrect'
    BY <1>2, SameBlocks DEF NumbersCorrect, ChainInv, Building, NewNetwork
  <1> QED
    BY <1>2, <1>5, <1>6, <1>7, <1>8, SameBlocks
    DEF ChainInv, Complete, Finished

(* A block that cannot grow any more is closed. *)
LEMMA CompleteStep ==
  ASSUME TypeOK, ChainInv, CompleteBlock
  PROVE  TypeOK' /\ ChainInv'
  <1>1. /\ pc = "extend" /\ pc' = "finalise"
        /\ UNCHANGED <<network, initialStns, available, free, inner, junctions,
                       msrs, blocks, netList, segmentStatus>>
    BY DEF CompleteBlock
  <1>2. TypeOK'
    BY <1>1 DEF TypeOK, Labels, network
  <1>3. OpenInner' = OpenInner /\ OpenMsrs' = OpenMsrs
    BY <1>1 DEF OpenInner, OpenMsrs, Building
  <1>4. StationsApart' /\ MeasurementsApart' /\ UsedUp' /\ Connections'
    BY <1>1, <1>3, SameBlocks
    DEF ChainInv, StationsApart, MeasurementsApart, UsedUp, Connections
  <1>5. HandedOver'
    BY <1>1, <1>3, SameBlocks DEF HandedOver, ChainInv
  <1>6. NumbersCorrect'
    BY <1>1, SameBlocks DEF NumbersCorrect, ChainInv, Building, NewNetwork
  <1> QED
    BY <1>1, <1>2, <1>4, <1>5, <1>6, SameBlocks
    DEF ChainInv, Complete, Finished

(* The verification looks at the blocks and changes none. *)
LEMMA VerifyStep ==
  ASSUME TypeOK, ChainInv, VerifyStationConnections
  PROVE  TypeOK' /\ ChainInv'
  <1>1. /\ pc = "verify" /\ pc' = "done"
        /\ segmentStatus' \in {"SEGMENT_SUCCESS", "SEGMENT_EXCEPTION_RAISED"}
        /\ UNCHANGED <<network, initialStns, available, free, inner, junctions,
                       msrs, blocks, netList>>
    BY DEF VerifyStationConnections
  <1>2. TypeOK'
    BY <1>1 DEF TypeOK, Labels, network
  <1>3. OpenInner' = OpenInner /\ OpenMsrs' = OpenMsrs
    BY <1>1 DEF OpenInner, OpenMsrs, Building
  <1>4. StationsApart' /\ MeasurementsApart' /\ UsedUp' /\ Connections'
    BY <1>1, <1>3, SameBlocks
    DEF ChainInv, StationsApart, MeasurementsApart, UsedUp, Connections
  <1>5. HandedOver'
    BY <1>1, <1>3, SameBlocks DEF HandedOver, ChainInv
  <1>6. NumbersCorrect'
    BY <1>1, SameBlocks DEF NumbersCorrect, ChainInv, Building, NewNetwork
  <1> QED
    BY <1>1, <1>2, <1>4, <1>5, <1>6, SameBlocks
    DEF ChainInv, Complete, Finished

(* A block is begun with the junctions of the one before it, or with a     *)
(* free station.                                                           *)
LEMMA NextStep ==
  ASSUME TypeOK, ChainInv, BuildNextBlock
  PROVE  TypeOK' /\ ChainInv'
  <1> DEFINE n == Len(blocks)
  <1>1. /\ pc = "next" /\ pc' = "extend"
        /\ inner' = {} /\ msrs' = {}
        /\ UNCHANGED <<network, initialStns, available, blocks, segmentStatus>>
        /\ \/ /\ junctions # {}
              /\ netList' = Append(netList, netList[Len(netList)])
              /\ UNCHANGED <<free, junctions>>
           \/ /\ junctions = {}
              /\ netList' = Append(netList, NewNetwork(netList[Len(netList)]))
              /\ \E s \in free : junctions' = {s} /\ free' = free \ {s}
    BY ForemostInList DEF BuildNextBlock, ClearedInner, Consume
  <1>2. /\ OpenInner = {} /\ OpenInner' = {}
        /\ OpenMsrs = {} /\ OpenMsrs' = {}
    BY <1>1 DEF OpenInner, OpenMsrs, Building
  <1>3. /\ n \in Nat \ {0} /\ Len(netList) = n
        /\ junctions = LastJunctions
    BY <1>1 DEF TypeOK, ChainInv, HandedOver, NumbersCorrect
  <1>4. /\ netList[n] \in Nat /\ NewNetwork(netList[n]) \in Nat
        /\ netList \in Seq(Nat)
    BY <1>3 DEF TypeOK, NewNetwork
  <1> HIDE DEF n
  <1>5. /\ netList' \in Seq(Nat)
        /\ Len(netList') = n + 1
        /\ netList'[n + 1] = IF LastJunctions = {} THEN NewNetwork(netList[n])
                                                   ELSE netList[n]
        /\ netList'[n] = netList[n]
    <2>1. CASE junctions # {}
      BY <1>1, <1>3, <1>4, <2>1
    <2>2. CASE junctions = {}
      BY <1>1, <1>3, <1>4, <2>2
    <2> QED
      BY <2>1, <2>2
  <1>6. TypeOK'
    BY <1>1, <1>5 DEF TypeOK, Labels, network
  <1>7. StationsApart'
    BY <1>1, <1>2, SameBlocks DEF ChainInv, StationsApart
  <1>8. MeasurementsApart'
    BY <1>1, <1>2, SameBlocks DEF ChainInv, MeasurementsApart
  <1>9. UsedUp'
    BY <1>1, <1>2, SameBlocks DEF ChainInv, UsedUp
  <1>10. Connections'
    BY <1>1, <1>2, SameBlocks, FreeStationHasMeasurement
    DEF ChainInv, Connections
  <1>11. HandedOver'
    BY <1>1, <1>2, <1>3, SameBlocks DEF HandedOver, ChainInv
  <1>12. NumbersCorrect'
    <2>1. ASSUME NEW i \in 1 .. n
          PROVE  netList'[i + 1] = IF blocks[i].junctions = {}
                                   THEN NewNetwork(netList'[i])
                                   ELSE netList'[i]
      <3>1. CASE i = n
        BY <3>1, <1>3, <1>5 DEF LastJunctions, n
      <3>2. CASE i < n
        <4>1. i \in DOMAIN blocks /\ i \in DOMAIN netList /\ i + 1 \in DOMAIN netList
          BY <3>2, <1>3, <1>4 DEF n, TypeOK
        <4>2. netList'[i] = netList[i] /\ netList'[i + 1] = netList[i + 1]
          <5>1. PICK x \in Nat : netList' = Append(netList, x)
            BY <1>1, <1>3, <1>4
          <5> QED
            BY <4>1, <5>1, <1>4
        <4> QED
          BY <4>1, <4>2 DEF ChainInv, NumbersCorrect
      <3> QED
        BY <3>1, <3>2, <1>3
    <2>2. /\ blocks' = blocks /\ DOMAIN blocks = 1 .. n
          /\ Len(blocks') = n
      BY <1>1 DEF n, TypeOK
    <2> QED
      BY <2>1, <2>2, <1>1, <1>3, <1>5 DEF NumbersCorrect, Building, NewNetwork
  <1> QED
    BY <1>1, <1>6, <1>7, <1>8, <1>9, <1>10, <1>11, <1>12, SameBlocks
    DEF ChainInv, Complete, Finished

(* A block is closed: what no measurement needs any more becomes inner.    *)
LEMMA FinaliseStep ==
  ASSUME TypeOK, ChainInv, FinaliseBlock
  PROVE  TypeOK' /\ ChainInv'
  <1> DEFINE b == [inner |-> inner', junctions |-> junctions', msrs |-> msrs']
             n == Len(blocks)
  <1>1. /\ pc = "finalise" /\ pc' \in {"verify", "next"}
        /\ blocks' = Append(blocks, b)
        /\ UNCHANGED <<network, initialStns, free, netList, segmentStatus>>
    BY DEF FinaliseBlock
  <1>2. /\ available' \subseteq available
        /\ msrs' = msrs \cup (available \ available')
        /\ junctions' \subseteq junctions
        /\ inner' = inner \cup (junctions \ junctions')
    BY DEF FinaliseBlock, CommonMeasurements, StillNeeded
  <1>3. /\ \A m \in available \ available' : msrStations[m] \subseteq junctions
        /\ \A s \in junctions :
              s \in junctions' <=> \E m \in available' : s \in msrStations[m]
    BY DEF FinaliseBlock, CommonMeasurements, StillNeeded
  <1>4. /\ OpenInner = inner /\ OpenInner' = {}
        /\ OpenMsrs = msrs /\ OpenMsrs' = {}
    BY <1>1 DEF OpenInner, OpenMsrs, Building
  <1>5. /\ n \in Nat /\ Len(blocks') = n + 1
        /\ b \in Block
        /\ blocks \in Seq(Block)
        /\ \A i \in 1 .. n : blocks'[i] = blocks[i]
        /\ blocks'[n + 1] = b
        /\ DOMAIN blocks = 1 .. n /\ DOMAIN blocks' = 1 .. n + 1
    BY <1>1, <1>2 DEF TypeOK, Block
  <1>6. TypeOK'
    BY <1>1, <1>2, <1>5 DEF TypeOK, Labels, network
  <1>7. /\ b.inner = inner' /\ b.junctions = junctions' /\ b.msrs = msrs'
    OBVIOUS
  <1>8. /\ available \subseteq Msrs /\ msrs \subseteq Msrs
        /\ \A m \in Msrs : observed[m] \subseteq msrStations[m]
    BY DEF TypeOK, ChainInv
  <1> HIDE DEF b, n
  <1>9. ClosedInner' = ClosedInner \cup inner'
    BY <1>5, <1>7 DEF ClosedInner
  <1>10. ClosedMsrs' = ClosedMsrs \cup msrs'
    BY <1>5, <1>7 DEF ClosedMsrs
  <1>11. LastJunctions' = junctions' /\ blocks' # <<>>
    BY <1>5, <1>7 DEF LastJunctions
  <1>12. UNCHANGED <<msrStations, observed, Valid, Live>>
    BY <1>1 DEF network, Valid, Live, Ignored
  <1>13. StationsApart'
    BY <1>1, <1>2, <1>4, <1>9, <1>12 DEF ChainInv, StationsApart
  <1>14. MeasurementsApart'
    BY <1>2, <1>4, <1>10, <1>12 DEF ChainInv, MeasurementsApart
  <1>15. UsedUp'
    <2>1. ASSUME NEW m \in available'
          PROVE  msrStations[m] \cap (ClosedInner \cup inner') = {}
      BY <1>2, <1>3, <1>4 DEF ChainInv, UsedUp
    <2>2. ASSUME NEW m \in msrs'
          PROVE  observed[m] \cap free = {}
      BY <1>2, <1>3, <1>4, <1>8 DEF ChainInv, UsedUp, StationsApart
    <2> QED
      BY <2>1, <2>2, <1>1, <1>4, <1>9, <1>10, <1>12 DEF ChainInv, UsedUp
  <1>16. Connections'
    BY <1>2, <1>3, <1>4, <1>12 DEF Connections
  <1>17. HandedOver'
    BY <1>1, <1>11 DEF HandedOver
  <1>18. NumbersCorrect'
    BY <1>1, <1>5 DEF ChainInv, NumbersCorrect, Building, n
  <1>19. \A i \in DOMAIN blocks', s \in Stns :
            s \in StationsOf(blocks'[i]) =>
                \/ s \in ClosedInner'
                \/ \A k \in i .. n + 1 : s \in blocks'[k].junctions
    <2> SUFFICES ASSUME NEW i \in 1 .. n + 1, NEW s \in Stns,
                        s \in StationsOf(blocks'[i]), s \notin ClosedInner',
                        NEW k \in i .. n + 1
                 PROVE  s \in blocks'[k].junctions
      BY <1>5
    <2>1. CASE i = n + 1
      BY <2>1, <1>5, <1>7, <1>9 DEF StationsOf
    <2>2. CASE i \in 1 .. n
      <3>1. \A j \in i .. n : s \in blocks[j].junctions
        BY <2>2, <1>5, <1>9 DEF ChainInv, ChainSoFar, n
      <3>2. s \in LastJunctions
        BY <3>1, <2>2, <1>5 DEF LastJunctions, n
      <3>3. s \in junctions'
        BY <3>2, <1>2, <1>4, <1>9 DEF ChainInv, HandedOver
      <3> QED
        BY <3>1, <3>3, <2>2, <1>5, <1>7
    <2> QED
      BY <2>1, <2>2, <1>5
  <1>20. \A s \in inner' : \E m \in msrs' : s \in msrStations[m]
    BY <1>2, <1>3, <1>4 DEF ChainInv, Connections
  <1>21. ChainSoFar'
    <2>1. ASSUME NEW i \in 1 .. n + 1
          PROVE  blocks'[i].inner
                     \ UNION {msrStations[m] : m \in blocks'[i].msrs} = {}
      <3>1. CASE i = n + 1
        BY <3>1, <1>5, <1>7, <1>20
      <3>2. CASE i \in 1 .. n
        BY <3>2, <1>5 DEF ChainInv, ChainSoFar, Unconnected
      <3> QED
        BY <3>1, <3>2, <1>5
    <2>2. \A i \in DOMAIN blocks' : Unconnected(blocks[i])' = {}
      BY <2>1, <1>5, <1>12 DEF Unconnected
    <2>3. Len(blocks') = n + 1
      BY <1>5
    <2>4. /\ inner' \cap ClosedInner = {}
          /\ msrs' \cap ClosedMsrs = {}
      BY <1>2, <1>4
      DEF ChainInv, StationsApart, MeasurementsApart
    <2>5. BlocksApart'
      <3> SUFFICES ASSUME NEW i \in 1 .. n + 1, NEW j \in 1 .. n + 1, i # j
                   PROVE  /\ blocks'[i].inner \cap blocks'[j].inner = {}
                          /\ blocks'[i].msrs \cap blocks'[j].msrs = {}
        BY <1>5 DEF BlocksApart
      <3>1. \A k \in 1 .. n : /\ blocks'[k].inner \subseteq ClosedInner
                              /\ blocks'[k].msrs \subseteq ClosedMsrs
        BY <1>5 DEF ClosedInner, ClosedMsrs
      <3>2. CASE i \in 1 .. n /\ j \in 1 .. n
        BY <3>2, <1>5 DEF ChainInv, ChainSoFar, BlocksApart
      <3>3. CASE i = n + 1
        BY <3>1, <3>3, <2>4, <1>5, <1>7
      <3>4. CASE j = n + 1
        BY <3>1, <3>4, <2>4, <1>5, <1>7
      <3> QED
        BY <3>2, <3>3, <3>4, <1>5
    <2>6. StationsConsecutive'
      <3> SUFFICES ASSUME NEW s \in Stns,
                          NEW i \in 1 .. n + 1, NEW j \in 1 .. n + 1, i < j,
                          s \in StationsOf(blocks'[i]),
                          s \in StationsOf(blocks'[j]),
                          NEW k \in i .. j - 1
                   PROVE  s \in blocks'[k].junctions
        BY <1>5 DEF StationsConsecutive, StationsOf
      <3>1. CASE j \in 1 .. n
        BY <3>1, <1>5 DEF ChainInv, ChainSoFar, StationsConsecutive
      <3>2. CASE j = n + 1
        <4>1. s \in inner' \cup junctions'
          BY <3>2, <1>5, <1>7 DEF StationsOf
        <4>2. s \notin ClosedInner
          BY <4>1, <1>2, <1>4 DEF ChainInv, StationsApart
        <4>3. i \in 1 .. n /\ k \in i .. n
          BY <3>2, <1>5
        <4>4. \A l \in i .. n : s \in blocks[l].junctions
          BY <4>2, <4>3, <1>5 DEF ChainInv, ChainSoFar, n
        <4> QED
          BY <4>3, <4>4, <1>5
      <3> QED
        BY <3>1, <3>2, <1>5
    <2> QED
      BY <2>2, <2>3, <2>5, <2>6, <1>19 DEF ChainSoFar, StationsOf
  <1>22. Complete'
    <2>1. pc' = "verify" => free' = {}
      BY DEF FinaliseBlock
    <2>2. \A m \in available' : ~(msrStations[m] \subseteq junctions)
      BY DEF FinaliseBlock, CommonMeasurements
    <2>3. \A s \in junctions' : \E m \in available' : s \in msrStations[m]
      BY <1>2, <1>3
    <2> QED
      BY <2>1, <2>2, <2>3, <1>1, <1>2, <1>11, <1>12 DEF Complete, Finished
  <1> QED
    BY <1>6, <1>8, <1>12, <1>13, <1>14, <1>15, <1>16, <1>17, <1>18, <1>21,
      <1>22
    DEF ChainInv


(* Every step preserves the type and the inductive invariant. *)
LEMMA NextCorrect ==
  ASSUME TypeOK, ChainInv, [Next]_vars
  PROVE  TypeOK' /\ ChainInv'
  <1>1. CASE BuildFirstBlock
    BY <1>1, FirstStep
  <1>2. ASSUME NEW s \in Stns, AddInitialStation(s)
        PROVE  TypeOK' /\ ChainInv'
    BY <1>2, InitialStep
  <1>3. CASE FinaliseBlock
    BY <1>3, FinaliseStep
  <1>4. CASE BuildNextBlock
    BY <1>4, NextStep
  <1>5. CASE ExtendBlock
    BY <1>5, ExtendStep
  <1>6. CASE CompleteBlock
    BY <1>6, CompleteStep
  <1>7. CASE VerifyStationConnections
    BY <1>7, VerifyStep
  <1>8. CASE UNCHANGED vars
    <2>1. UNCHANGED <<network, initialStns, available, free, inner, junctions,
                      msrs, blocks, netList, pc, segmentStatus>>
      BY <1>8 DEF vars
    <2>2. TypeOK'
      BY <2>1 DEF TypeOK, network
    <2>3. OpenInner' = OpenInner /\ OpenMsrs' = OpenMsrs
      BY <2>1 DEF OpenInner, OpenMsrs, Building
    <2>4. StationsApart' /\ MeasurementsApart' /\ UsedUp' /\ Connections'
      BY <2>1, <2>3, SameBlocks
      DEF ChainInv, StationsApart, MeasurementsApart, UsedUp, Connections
    <2>5. HandedOver' /\ Complete'
      BY <2>1, <2>3, SameBlocks DEF HandedOver, ChainInv, Complete, Finished
    <2>6. NumbersCorrect'
      BY <2>1, SameBlocks DEF NumbersCorrect, ChainInv, Building, NewNetwork
    <2> QED
      BY <2>1, <2>2, <2>4, <2>5, <2>6, SameBlocks DEF ChainInv
  <1> QED
    BY <1>1, <1>2, <1>3, <1>4, <1>5, <1>6, <1>7, <1>8 DEF Next, Terminated

-----------------------------------------------------------------------------
(* Every variable keeps its type: stations and measurements never leave    *)
(* the network, and the lists of blocks stay sequences.                    *)
THEOREM TypeCorrect == Spec => []TypeOK
  BY InitCorrect, NextCorrect, PTL DEF Spec

(* The lists of stations and measurements the segmentation works with stay *)
(* apart, and nothing it passes to the next block is forgotten.            *)
THEOREM ChainCorrect == Spec => []ChainInv
  BY InitCorrect, NextCorrect, PTL DEF Spec

(* Every station is in consecutive blocks only, and a junction in all but  *)
(* the last of them.                                                       *)
THEOREM Consecutive == Spec => []StationsConsecutive
  <1>1. ChainInv => StationsConsecutive
    BY DEF ChainInv, ChainSoFar
  <1> QED
    BY <1>1, ChainCorrect, PTL

(* VerifyStationConnections finds no station without a measurement.        *)
THEOREM Verified == Spec => []VerificationPasses
  <1>1. ChainInv => VerificationPasses
    BY DEF ChainInv, ChainSoFar, VerificationPasses
  <1> QED
    BY <1>1, ChainCorrect, PTL

(* The network numbers, which are all BlockFirst and BlockLast look at,    *)
(* tell where junctions are handed on.                                     *)
THEOREM NumbersTellJunctions == Spec => []NetworkNumbersTellJunctions
  <1>1. TypeOK /\ ChainInv => NetworkNumbersTellJunctions
    <2> SUFFICES ASSUME TypeOK, ChainInv, NEW i \in DOMAIN blocks,
                        i + 1 \in DOMAIN netList, ~ForceContiguous
                 PROVE  blocks[i].junctions # {} <=> netList[i] = netList[i + 1]
      BY DEF NetworkNumbersTellJunctions
    <2>1. netList[i + 1] = IF blocks[i].junctions = {}
                           THEN netList[i] + 1 ELSE netList[i]
      BY DEF ChainInv, NumbersCorrect, NewNetwork
    <2>2. netList[i] \in Nat
      BY DEF TypeOK
    <2> QED
      BY <2>1, <2>2
  <1> QED
    BY <1>1, TypeCorrect, ChainCorrect, PTL

-----------------------------------------------------------------------------
(* If every measurement is observed as a whole or not at all, no           *)
(* measurement and no station is left over.                                *)
ObservedAsAWhole ==
    \A n \in NetworkSet, m \in Msrs : n.observed[m] \in {{}, n.stations[m]}

WholeInv == \A m \in Msrs : observed[m] \in {{}, msrStations[m]}

(* The network never changes. *)
LEMMA WholeCorrect == ASSUME ObservedAsAWhole PROVE Spec => []WholeInv
  <1>1. Init => WholeInv
    BY DEF Init, WholeInv, ObservedAsAWhole
  <1>2. WholeInv /\ [Next]_vars => WholeInv'
    BY DEF WholeInv, Next, vars, network, BuildFirstBlock, AddInitialStation,
      FinaliseBlock, BuildNextBlock, ExtendBlock, CompleteBlock,
      VerifyStationConnections, Terminated
  <1> QED
    BY <1>1, <1>2, PTL DEF Spec

(* Nothing is left at the end. *)
LEMMA NothingLeft ==
  ASSUME TypeOK, ChainInv, WholeInv, Finished
  PROVE  available = {} /\ junctions = {} /\ free = {}
  <1>1. /\ free = {}
        /\ \A m \in available : ~(msrStations[m] \subseteq junctions)
        /\ \A s \in junctions : \E m \in available : s \in msrStations[m]
    BY DEF ChainInv, Complete
  <1>2. ASSUME NEW m \in available
        PROVE  FALSE
    <2>1. m \in Live
      BY DEF ChainInv, MeasurementsApart
    <2>2. msrStations[m] \subseteq Valid
      BY <2>1 DEF WholeInv, Live, Ignored, Valid
    <2>3. msrStations[m] \cap (OpenInner \cup ClosedInner) = {}
      BY DEF ChainInv, UsedUp
    <2>4. msrStations[m] \subseteq junctions
      BY <2>2, <2>3, <1>1 DEF ChainInv, StationsApart
    <2> QED
      BY <2>4, <1>1
  <1> QED
    BY <1>1, <1>2

(* In a network whose measurements are observed as a whole, every live     *)
(* measurement is in exactly one block of a successful segmentation.       *)
THEOREM MeasurementsInOneBlock ==
  ASSUME ObservedAsAWhole PROVE Spec => []EveryMeasurementInOneBlock
  <1>1. TypeOK /\ ChainInv /\ WholeInv => EveryMeasurementInOneBlock
    <2> SUFFICES ASSUME TypeOK, ChainInv, WholeInv, Finished, NEW m \in Live
                 PROVE  Cardinality({i \in DOMAIN blocks :
                                        m \in blocks[i].msrs}) = 1
      BY DEF EveryMeasurementInOneBlock
    <2>1. m \in ClosedMsrs
      BY NothingLeft DEF ChainInv, MeasurementsApart, OpenMsrs, Building,
        Finished
    <2>2. PICK i \in DOMAIN blocks : m \in blocks[i].msrs
      BY <2>1 DEF ClosedMsrs
    <2>3. {j \in DOMAIN blocks : m \in blocks[j].msrs} = {i}
      BY <2>2 DEF ChainInv, ChainSoFar, BlocksApart
    <2> QED
      BY <2>3, FS_Singleton
  <1> QED
    BY <1>1, TypeCorrect, ChainCorrect, WholeCorrect, PTL

(* In such a network every valid station is inner station of exactly one   *)
(* block of a successful segmentation.                                     *)
THEOREM StationsInnerOnce ==
  ASSUME ObservedAsAWhole PROVE Spec => []EveryStationInnerOnce
  <1>1. TypeOK /\ ChainInv /\ WholeInv => EveryStationInnerOnce
    <2> SUFFICES ASSUME TypeOK, ChainInv, WholeInv, Finished, NEW s \in Valid
                 PROVE  Cardinality({i \in DOMAIN blocks :
                                        s \in blocks[i].inner}) = 1
      BY DEF EveryStationInnerOnce
    <2>1. s \in ClosedInner
      BY NothingLeft DEF ChainInv, StationsApart, OpenInner, Building, Finished
    <2>2. PICK i \in DOMAIN blocks : s \in blocks[i].inner
      BY <2>1 DEF ClosedInner
    <2>3. {j \in DOMAIN blocks : s \in blocks[j].inner} = {i}
      BY <2>2 DEF ChainInv, ChainSoFar, BlocksApart
    <2> QED
      BY <2>3, FS_Singleton
  <1> QED
    BY <1>1, TypeCorrect, ChainCorrect, WholeCorrect, PTL

-----------------------------------------------------------------------------
(* What the adjustment assumes of the blocks. *)

(* A block that is added has stations, each in one of its lists. *)
LEMMA FinaliseProper ==
  ASSUME TypeOK, ChainInv, BlocksProper, FinaliseBlock
  PROVE  BlocksProper'
  <1> DEFINE b == [inner |-> inner', junctions |-> junctions', msrs |-> msrs']
             n == Len(blocks)
  <1>1. /\ pc = "finalise" /\ pc' \in {"verify", "next"}
        /\ blocks' = Append(blocks, b)
        /\ junctions' \subseteq junctions
        /\ inner' = inner \cup (junctions \ junctions')
        /\ UNCHANGED network
    BY DEF FinaliseBlock, StillNeeded
  <1>2. /\ inner \cap junctions = {}
        /\ inner \cup junctions \subseteq Valid
        /\ inner \cup junctions # {}
    BY <1>1 DEF ChainInv, StationsApart, OpenInner, Building, BlocksProper
  <1>3. /\ b.inner \cap b.junctions = {}
        /\ StationsOf(b) # {} /\ StationsOf(b) \subseteq Valid
    BY <1>1, <1>2 DEF StationsOf
  <1>4. /\ DOMAIN blocks = 1 .. n /\ DOMAIN blocks' = 1 .. n + 1
        /\ blocks'[n + 1] = b
        /\ \A i \in 1 .. n : blocks'[i] = blocks[i]
    BY <1>1 DEF TypeOK
  <1>5. Valid' = Valid
    BY <1>1 DEF Valid, network
  <1>6. ASSUME NEW i \in DOMAIN blocks'
        PROVE  /\ blocks'[i].inner \cap blocks'[i].junctions = {}
               /\ StationsOf(blocks'[i]) # {} /\ StationsOf(blocks'[i]) \subseteq Valid
    <2>1. CASE i = n + 1
      BY <1>3, <1>4, <2>1
    <2>2. CASE i \in 1 .. n
      BY <1>4, <2>2 DEF BlocksProper
    <2>3. n \in Nat
      BY DEF TypeOK
    <2> QED
      BY <1>4, <2>1, <2>2, <2>3
  <1> HIDE DEF b
  <1>7. ~Finished'
    BY <1>1 DEF Finished
  <1> QED
    BY <1>1, <1>5, <1>6, <1>7 DEF BlocksProper, StationsOf

(* The other steps leave the blocks alone, and the one that is being built *)
(* gets a station before anything else happens to it.                      *)
LEMMA ProperNext ==
  ASSUME TypeOK, ChainInv, BlocksProper, [Next]_vars
  PROVE  BlocksProper'
  <1> DEFINE Kept == \A i \in DOMAIN blocks' :
                        /\ blocks'[i].inner \cap blocks'[i].junctions = {}
                        /\ StationsOf(blocks'[i]) # {}
                        /\ StationsOf(blocks'[i]) \subseteq Valid'
  <1>1. ASSUME UNCHANGED <<network, blocks>>
        PROVE  Kept
    BY <1>1 DEF BlocksProper, Valid, network
  <1>2. CASE BuildFirstBlock
    <2>1. /\ pc' \in {"initial", "done"}
          /\ UNCHANGED <<network, blocks, free, netList>>
          /\ pc' = "initial" => initialStns' # {} /\ initialStns' \subseteq free
          /\ pc' = "done" => segmentStatus' = "SEGMENT_EXCEPTION_RAISED"
      BY <1>2, ForemostInList DEF BuildFirstBlock
    <2>2. ~Finished'
      BY <2>1 DEF Finished
    <2> QED
      BY <1>1, <2>1, <2>2 DEF BlocksProper, StationsOf
  <1>3. ASSUME NEW s \in Stns, AddInitialStation(s)
        PROVE  BlocksProper'
    <2>1. /\ pc = "initial" /\ pc' \in {"initial", "finalise"}
          /\ s \in initialStns /\ initialStns' = initialStns \ {s}
          /\ inner' = inner \cup ({s} \cap free)
          /\ junctions \subseteq junctions'
          /\ UNCHANGED <<network, blocks>>
          /\ pc' = "initial" => initialStns # {s}
      BY <1>3 DEF AddInitialStation, UseMeasurements
    <2>2. inner' \cup junctions' # {}
      BY <2>1 DEF BlocksProper
    <2>3. ~Finished'
      BY <2>1 DEF Finished
    <2> QED
      BY <1>1, <2>1, <2>2, <2>3 DEF BlocksProper, StationsOf
  <1>4. CASE FinaliseBlock
    BY <1>4, FinaliseProper
  <1>5. CASE BuildNextBlock
    <2>1. /\ pc' = "extend" /\ junctions' # {}
          /\ UNCHANGED <<network, blocks>>
      BY <1>5 DEF BuildNextBlock
    <2>2. ~Finished'
      BY <2>1 DEF Finished
    <2> QED
      BY <1>1, <2>1, <2>2 DEF BlocksProper, StationsOf
  <1>6. CASE ExtendBlock
    <2>1. /\ pc' \in {"extend", "finalise"} /\ inner' # {}
          /\ UNCHANGED <<network, blocks>>
      BY <1>6 DEF ExtendBlock
    <2>2. ~Finished'
      BY <2>1 DEF Finished
    <2> QED
      BY <1>1, <2>1, <2>2 DEF BlocksProper, StationsOf
  <1>7. CASE CompleteBlock
    <2>1. /\ pc = "extend" /\ pc' = "finalise"
          /\ UNCHANGED <<network, blocks, inner, junctions>>
      BY <1>7 DEF CompleteBlock
    <2>2. ~Finished'
      BY <2>1 DEF Finished
    <2> QED
      BY <1>1, <2>1, <2>2 DEF BlocksProper, StationsOf
  <1>8. CASE VerifyStationConnections
    <2>1. /\ pc = "verify" /\ pc' = "done"
          /\ UNCHANGED <<network, blocks, netList>>
      BY <1>8 DEF VerifyStationConnections
    <2>2. Len(netList) = Len(blocks)
      BY <2>1 DEF ChainInv, NumbersCorrect
    <2> QED
      BY <1>1, <2>1, <2>2 DEF BlocksProper, StationsOf
  <1>9. CASE UNCHANGED vars
    BY <1>1, <1>9 DEF vars, network, BlocksProper, StationsOf, Finished
  <1> QED
    BY <1>2, <1>3, <1>4, <1>5, <1>6, <1>7, <1>8, <1>9 DEF Next, Terminated

(* No block is empty, and no station is in both lists of a block.          *)
THEOREM BlocksAreProper == Spec => []BlocksProper
  <1>1. Init => BlocksProper
    BY DEF Init, BlocksProper, Finished
  <1>2. TypeOK /\ ChainInv /\ BlocksProper /\ [Next]_vars => BlocksProper'
    BY ProperNext
  <1> QED
    BY <1>1, <1>2, TypeCorrect, ChainCorrect, PTL DEF Spec

(* The first of some numbers. *)
LEMMA LeastNat ==
  ASSUME NEW T \in SUBSET Nat, T # {}
  PROVE  \E x \in T : \A y \in T : x <= y
  <1>1. \E x \in T : \A y \in T : <<y, x>> \notin OpToRel(<, Nat)
    BY NatLessThanWellFounded, WFMin
  <1>2. ASSUME NEW x \in Nat, NEW y \in Nat, <<y, x>> \notin OpToRel(<, Nat)
        PROVE  x <= y
    BY <1>2 DEF OpToRel
  <1> QED
    BY <1>1, <1>2

(* Where each block has the number of the one before, all have that of the *)
(* first.                                                                  *)
LEMMA SameNumber ==
  ASSUME NEW nets, NEW first \in Nat, NEW last \in Nat,
         \A i \in first .. last - 1 : nets[i + 1] = nets[i]
  PROVE  \A i \in first .. last : nets[i] = nets[first]
  <1> DEFINE T == {i \in first .. last : nets[i] # nets[first]}
  <1> SUFFICES ASSUME T # {} PROVE FALSE
    OBVIOUS
  <1>0. T \in SUBSET Nat
    OBVIOUS
  <1>1. PICK i \in T : \A j \in T : i <= j
    <2> HIDE DEF T
    <2> QED
      BY <1>0, LeastNat
  <1>2. i \in first + 1 .. last /\ i - 1 \notin T
    BY <1>1
  <1>3. i - 1 \in first .. last - 1 /\ nets[i - 1] = nets[first]
    BY <1>2
  <1> QED
    BY <1>1, <1>3

(* A station appears from the first block that has it to the one in which  *)
(* it is an inner station.                                                 *)
LEMMA Appears ==
  ASSUME TypeOK, ChainInv, WholeInv, BlocksProper, Finished, NEW s \in Valid
  PROVE  \E a \in Appearance : \A i \in DOMAIN blocks :
            /\ s \in StationsOf(blocks[i]) <=> i \in a.first .. a.last
            /\ s \in blocks[i].junctions <=> i \in a.first .. a.last - 1
  <1> DEFINE n == Len(blocks)
             S == {i \in 1 .. n : s \in StationsOf(blocks[i])}
  <1>1. n \in Nat /\ DOMAIN blocks = 1 .. n /\ DOMAIN netList = 1 .. n
    BY DEF TypeOK, BlocksProper
  <1>2. s \in ClosedInner
    BY NothingLeft DEF ChainInv, StationsApart, OpenInner, Building, Finished
  <1>3. PICK last \in 1 .. n : s \in blocks[last].inner
    BY <1>1, <1>2 DEF ClosedInner
  <1>4. S \in SUBSET Nat /\ last \in S
    BY <1>1, <1>3 DEF StationsOf
  <1>5. PICK first \in S : \A i \in S : first <= i
    BY <1>4, LeastNat
  <1>6. s \notin blocks[last].junctions
    BY <1>1, <1>3 DEF BlocksProper
  <1>7. \A i, j \in 1 .. n :
           i < j /\ s \in StationsOf(blocks[i]) /\ s \in StationsOf(blocks[j]) =>
              \A k \in i .. j - 1 : s \in blocks[k].junctions
    <2>1. Valid \subseteq Stns
      BY DEF TypeOK, Valid
    <2> QED
      BY <1>1, <2>1 DEF ChainInv, ChainSoFar, StationsConsecutive
  <1>8. \A i \in S : i <= last
    <2> SUFFICES ASSUME NEW i \in S, last < i PROVE FALSE
      BY <1>1, <1>4
    <2>1. last \in last .. i - 1
      BY <1>1
    <2> QED
      BY <1>4, <1>6, <1>7, <2>1
  <1>9. first \in 1 .. n /\ first <= last
    BY <1>4, <1>5
  <1>10. \A i \in first .. last - 1 : i \in 1 .. n /\ s \in blocks[i].junctions
    <2> SUFFICES ASSUME NEW i \in first .. last - 1
                 PROVE  i \in 1 .. n /\ s \in blocks[i].junctions
      OBVIOUS
    <2>1. i \in 1 .. n /\ first < last
      BY <1>1, <1>9
    <2> QED
      BY <1>4, <1>5, <1>7, <2>1
  <1>11. ASSUME NEW i \in DOMAIN blocks
         PROVE  /\ s \in StationsOf(blocks[i]) <=> i \in first .. last
                /\ s \in blocks[i].junctions <=> i \in first .. last - 1
    <2>1. i \in 1 .. n
      BY <1>1
    <2>2. s \in StationsOf(blocks[i]) => i \in first .. last
      BY <1>5, <1>8, <2>1
    <2>3. i \in first .. last => i = last \/ i \in first .. last - 1
      BY <1>9
    <2>4. s \in blocks[i].junctions => s \in StationsOf(blocks[i]) /\ i # last
      BY <1>6 DEF StationsOf
    <2>5. i \in first .. last => s \in StationsOf(blocks[i])
      BY <1>4, <1>10, <2>3 DEF StationsOf
    <2> QED
      BY <1>10, <2>2, <2>3, <2>4, <2>5
  <1>12. \A i \in first .. last - 1 : netList[i + 1] = netList[i]
    <2> SUFFICES ASSUME NEW i \in first .. last - 1
                 PROVE  netList[i + 1] = netList[i]
      OBVIOUS
    <2>1. i + 1 \in DOMAIN netList /\ i \in DOMAIN blocks
      BY <1>1, <1>9
    <2> QED
      BY <1>10, <2>1 DEF ChainInv, NumbersCorrect
  <1>13. \A i \in first .. last : netList[i] = netList[first]
    <2>1. first \in Nat /\ last \in Nat
      BY <1>9
    <2> QED
      BY <1>12, <2>1, SameNumber
  <1>14. [first |-> first, last |-> last] \in Appearance
    BY <1>1, <1>9, <1>13 DEF Appearance
  <1> QED
    BY <1>11, <1>14

(* A successful segmentation of a network whose measurements are observed  *)
(* as a whole gives the phased adjustment the blocks its models assume.    *)
THEOREM BlocksFitAdjustment ==
  ASSUME ObservedAsAWhole PROVE Spec => []FitsAdjustment
  <1>1. TypeOK /\ ChainInv /\ WholeInv /\ BlocksProper => FitsAdjustment
    <2> SUFFICES ASSUME TypeOK, ChainInv, WholeInv, BlocksProper, Finished
                 PROVE  /\ blocks # <<>> /\ Len(netList) = Len(blocks)
                        /\ \A s \in Valid : \E a \in Appearance :
                              \A i \in DOMAIN blocks :
                                /\ s \in StationsOf(blocks[i]) <=> i \in a.first .. a.last
                                /\ s \in blocks[i].junctions
                                      <=> i \in a.first .. a.last - 1
                        /\ \A i \in DOMAIN blocks :
                              \E s \in Valid : s \in StationsOf(blocks[i])
      BY DEF FitsAdjustment
    <2>1. blocks # <<>> /\ Len(netList) = Len(blocks)
      BY DEF ChainInv, Complete, BlocksProper
    <2>2. \A i \in DOMAIN blocks : \E s \in Valid : s \in StationsOf(blocks[i])
      BY DEF BlocksProper
    <2> QED
      BY <2>1, <2>2, Appears
  <1> QED
    BY <1>1, TypeCorrect, ChainCorrect, WholeCorrect, BlocksAreProper, PTL

-----------------------------------------------------------------------------
(* The network numbers as the chain of blocks sees them. *)
Nets == [i \in 1 .. Len(blocks) |-> netList[i]]

(* The initial state is one of the chain. *)
LEMMA ChainInit == Init => Chain!Init
  <1> SUFFICES ASSUME Init PROVE Chain!Init
    OBVIOUS
  <1>1. TypeOK
    BY InitCorrect
  <1>2. blocks = <<>>
    BY DEF Init
  <1>3. Nets = <<>>
    BY <1>2 DEF Nets
  <1> QED
    BY <1>1, <1>2, <1>3 DEF Chain!Init, TypeOK, Nets

(* The last block closed may follow those before it. *)
LEMMA BlockMayFollow ==
  ASSUME TypeOK, ChainInv, FinaliseBlock
  PROVE  Chain!MayFollow([inner |-> inner', junctions |-> junctions',
                          msrs |-> msrs'])
  <1>1. TypeOK' /\ ChainInv'
    BY FinaliseStep
  <1>2. /\ pc = "finalise" /\ pc' \in {"verify", "next"}
        /\ UNCHANGED <<network, free>>
        /\ available' \subseteq available
        /\ msrs' = msrs \cup (available \ available')
        /\ inner' = inner \cup (junctions \ junctions')
        /\ junctions' \subseteq junctions
        /\ \A m \in available \ available' : msrStations[m] \subseteq junctions
        /\ \A s \in junctions :
              s \in junctions' <=> \E m \in available' : s \in msrStations[m]
    BY DEF FinaliseBlock, CommonMeasurements, StillNeeded
  <1>3. OpenInner = inner /\ OpenMsrs = msrs
    BY <1>2 DEF OpenInner, OpenMsrs, Building
  <1>4. /\ Chain!InnerSoFar = ClosedInner /\ Chain!Used = ClosedMsrs
        /\ Chain!HandedOn = LastJunctions
    BY DEF Chain!InnerSoFar, ClosedInner, Chain!Used, ClosedMsrs,
      Chain!HandedOn, LastJunctions
  <1>5. /\ inner' \cap junctions' = {}
        /\ LastJunctions \subseteq inner' \cup junctions'
        /\ (inner' \cup junctions') \cap ClosedInner = {}
        /\ msrs' \cap ClosedMsrs = {}
    BY <1>2, <1>3
    DEF ChainInv, StationsApart, MeasurementsApart, HandedOver
  <1>6. Live = available' \cup ClosedMsrs \cup msrs'
    BY <1>2, <1>3 DEF ChainInv, MeasurementsApart
  <1>7. /\ available' \cap msrs' = {}
        /\ available' \cap ClosedMsrs = {}
    BY <1>2, <1>3 DEF ChainInv, MeasurementsApart
  <1>8. \A m \in Msrs : m \in Live <=> observed[m] # {}
    BY DEF Live, Ignored
  <1>9. /\ msrs' \subseteq Msrs /\ available' \subseteq Msrs
        /\ \A m \in Msrs : observed[m] \subseteq msrStations[m]
    BY <1>1 DEF TypeOK, ChainInv
  <1>10. \A m \in msrs' : observed[m] \subseteq inner' \cup junctions'
    BY <1>2, <1>3, <1>9 DEF ChainInv, UsedUp
  <1>11. \A m \in available' : msrStations[m] \cap inner' = {}
    BY <1>2, <1>3 DEF ChainInv, UsedUp
  <1>12. \A s \in inner' : \E m \in msrs' : s \in msrStations[m]
    BY <1>2, <1>3 DEF ChainInv, Connections
  <1> DEFINE b == [inner |-> inner', junctions |-> junctions', msrs |-> msrs']
  <1>13. /\ b.inner = inner' /\ b.junctions = junctions' /\ b.msrs = msrs'
         /\ Chain!StationsOf(b) = inner' \cup junctions'
    BY DEF Chain!StationsOf
  <1> HIDE DEF b
  <1>14. \A s \in b.inner : Chain!MsrsOf(s) \subseteq Chain!Used \cup b.msrs
    BY <1>4, <1>6, <1>8, <1>11, <1>13 DEF Chain!MsrsOf
  <1>15. \A s \in b.junctions :
            ~(Chain!MsrsOf(s) \subseteq Chain!Used \cup b.msrs)
    BY <1>2, <1>4, <1>6, <1>7, <1>8, <1>9, <1>13 DEF Chain!MsrsOf
  <1>16. \A s \in b.inner : Chain!MsrsOf(s) \cap b.msrs # {}
    BY <1>6, <1>8, <1>9, <1>12, <1>13 DEF Chain!MsrsOf
  <1>17. \A m \in b.msrs :
            observed[m] # {} /\ observed[m] \subseteq Chain!StationsOf(b)
    BY <1>6, <1>8, <1>9, <1>10, <1>13
  <1>18. Chain!MayFollow(b)
    BY <1>4, <1>5, <1>13, <1>14, <1>15, <1>16, <1>17 DEF Chain!MayFollow
  <1> QED
    BY <1>18 DEF b

(* Every step adds a block to the chain or leaves it alone. *)
LEMMA ChainStep ==
  ASSUME TypeOK, ChainInv, [Next]_vars
  PROVE  [Chain!Next]_Chain!vars
  <1> DEFINE n == Len(blocks)
  <1>1. CASE FinaliseBlock
    <2> DEFINE b == [inner |-> inner', junctions |-> junctions', msrs |-> msrs']
    <2>1. /\ blocks' = Append(blocks, b) /\ UNCHANGED <<network, netList>>
          /\ pc = "finalise"
      BY <1>1 DEF FinaliseBlock
    <2>2. Chain!MayFollow(b)
      BY <1>1, BlockMayFollow
    <2>3. b \in Chain!Block
      <3>1. /\ inner' \subseteq Stns /\ junctions' \subseteq Stns
            /\ msrs' \subseteq Msrs
        BY <1>1, FinaliseStep DEF TypeOK
      <3> QED
        BY <3>1 DEF Chain!Block
    <2> HIDE DEF b
    <2>4. /\ n \in Nat /\ Len(blocks') = n + 1
          /\ n + 1 \in DOMAIN blocks' /\ blocks'[n + 1] = b
      BY <2>1 DEF TypeOK
    <2>5. Len(netList) = n + 1 /\ netList \in Seq(Nat)
      BY <2>1 DEF ChainInv, NumbersCorrect, Building, TypeOK
    <2>6. /\ n = 0 => netList[1] = 0
          /\ n > 0 => netList[n + 1] = IF blocks[n].junctions = {}
                                       THEN NewNetwork(netList[n])
                                       ELSE netList[n]
      <3>1. n = 0 => netList[1] = 0
        BY <2>1 DEF ChainInv, NumbersCorrect, Building
      <3>2. n > 0 => n \in DOMAIN blocks /\ n + 1 \in DOMAIN netList
        BY <2>4, <2>5 DEF TypeOK
      <3> QED
        BY <3>1, <3>2 DEF ChainInv, NumbersCorrect
    <2>7. Nets \in Seq(Nat) /\ Len(Nets) = n
          /\ (n > 0 => Nets[n] = netList[n])
      BY <2>4, <2>5 DEF Nets
    <2>8. Chain!NextNet = netList[n + 1]
      <3>1. CASE blocks = <<>>
        BY <3>1, <2>6 DEF Chain!NextNet
      <3>2. CASE blocks # <<>>
        <4>1. n > 0
          BY <3>2, <2>4 DEF TypeOK
        <4> QED
          BY <4>1, <3>2, <2>4, <2>6, <2>7, SettingsAssumption
          DEF Chain!NextNet, Chain!HandedOn, NewNetwork, Nets
      <3> QED
        BY <3>1, <3>2
    <2>9. Nets' = Append(Nets, netList[n + 1])
      BY <2>1, <2>4, <2>5, <2>7 DEF Nets
    <2>10. Chain!AddBlock(b)
      BY <2>1, <2>2, <2>8, <2>9 DEF Chain!AddBlock, Nets, network
    <2>11. \E i \in DOMAIN blocks' :
               blocks'[i] \in Chain!Block /\ Chain!AddBlock(blocks'[i])
      BY <2>3, <2>4, <2>10 DEF Chain!AddBlock, Chain!MayFollow, Chain!StationsOf
    <2> QED
      BY <2>11 DEF Chain!Next
  <1>2. CASE UNCHANGED <<network, blocks>>
             /\ \/ UNCHANGED netList
                \/ /\ pc = "next"
                   /\ \E x : netList' = Append(netList, x)
    <2>1. UNCHANGED <<msrStations, observed, blocks>>
      BY <1>2 DEF network
    <2>2. Nets' = Nets
      <3>1. CASE UNCHANGED netList
        BY <3>1, <2>1 DEF Nets
      <3>2. CASE /\ pc = "next"
                 /\ \E x : netList' = Append(netList, x)
        <4>1. n \in Nat /\ Len(netList) = n /\ netList \in Seq(Nat)
          BY <3>2 DEF TypeOK, ChainInv, NumbersCorrect
        <4>2. PICK x : netList' = Append(netList, x)
          BY <3>2
        <4>3. \A i \in 1 .. n : netList'[i] = netList[i]
          BY <4>1, <4>2
        <4> QED
          BY <4>3, <2>1 DEF Nets
      <3> QED
        BY <1>2, <3>1, <3>2
    <2> QED
      BY <2>1, <2>2 DEF Chain!vars, Nets
  <1>3. CASE ~FinaliseBlock
    <2>1. CASE BuildNextBlock
      BY <2>1, <1>2 DEF BuildNextBlock
    <2>2. CASE ~BuildNextBlock
      BY <2>2, <1>2, <1>3 DEF Next, vars, network, BuildFirstBlock,
        AddInitialStation, ExtendBlock, CompleteBlock,
        VerifyStationConnections, Terminated
    <2> QED
      BY <2>1, <2>2
  <1> QED
    BY <1>1, <1>3

(* The segmentation implements the chain of blocks the adjustment relies   *)
(* on, for every network: each block finishes its inner stations, takes    *)
(* over all junctions of the block before it and carries the right network *)
(* number.                                                                 *)
THEOREM ChainImplemented == Spec => ImplementsBlockChain
  <1>1. TypeOK /\ ChainInv /\ [Next]_vars => [Chain!Next]_Chain!vars
    BY ChainStep
  <1> QED
    BY <1>1, ChainInit, TypeCorrect, ChainCorrect, PTL
    DEF Spec, ImplementsBlockChain, Chain!Spec
=============================================================================
