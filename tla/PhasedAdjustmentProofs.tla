------------------------ MODULE PhasedAdjustmentProofs ------------------------
(***************************************************************************)
(* Proofs about PhasedAdjustment, for all segmentations, placements of      *)
(* stations, numbers of iterations, in memory, staged or for block 1 only.  *)
(***************************************************************************)
EXTENDS PhasedAdjustmentInv, SequenceTheorems, TLAPS

-----------------------------------------------------------------------------
(* Blocks and networks.                                                     *)

LEMMA BlockFacts ==
  /\ BlockCount \in Nat /\ BlockCount >= 1
  /\ Blocks = 0 .. BlockCount - 1
  /\ 0 \in Blocks /\ BlockCount - 1 \in Blocks
  /\ \A b \in Blocks : /\ b \in Nat /\ NetOf[b] \in Nat
                       /\ b # 0 => b - 1 \in Blocks
                       /\ b # BlockCount - 1 => b + 1 \in Blocks
  BY BlockCountAssumption, NetOfAssumption DEF Blocks

(* Only within a network is anything carried.                               *)
LEMMA Neighbours ==
  ASSUME NEW b \in Blocks
  PROVE  /\ CarriesForward(b) <=> ~BlockLast(b)
         /\ CarriesReverse(b) <=> ~BlockFirst(b)
         /\ ~BlockLast(b) => b + 1 \in Blocks /\ ~BlockFirst(b + 1)
         /\ ~BlockFirst(b) => b > 0 /\ b - 1 \in Blocks /\ ~BlockLast(b - 1)
         /\ b > 0 => (BlockLast(b - 1) <=> BlockFirst(b))
         /\ b < BlockCount - 1 => (BlockLast(b) <=> BlockFirst(b + 1))
  BY BlockFacts DEF CarriesForward, CarriesReverse, BlockLast, BlockFirst, BlockIsolated
-----------------------------------------------------------------------------
(* Information.                                                             *)

(* Where a station appears.                                                 *)
LEMMA Place ==
  ASSUME stations \in Placements, NEW s \in Stns
  PROVE  /\ stations[s].first \in Blocks /\ stations[s].last \in Blocks
         /\ stations[s].first <= stations[s].last
         /\ \A i \in Blocks : stations[s].first <= i /\ i <= stations[s].last =>
                NetOf[i] = NetOf[stations[s].first]
  <1>1. stations[s] \in Appearance
    BY PlacementsAssumption
  <1>2. /\ stations[s].first \in Blocks /\ stations[s].last \in Blocks
        /\ stations[s].first <= stations[s].last
        /\ \A b \in stations[s].first .. stations[s].last : NetOf[b] = NetOf[stations[s].first]
    BY <1>1 DEF Appearance
  <1> QED
    BY <1>2, BlockFacts

(* A junction station joins two blocks of a network.                        *)
LEMMA JunctionNet ==
  ASSUME stations \in Placements, NEW b \in Blocks, Junctions(b) # {}
  PROVE  ~BlockLast(b) /\ b + 1 \in Blocks
  <1>1. PICK s \in Stns : /\ stations[s].first <= b /\ b <= stations[s].last
                          /\ stations[s].last # b
    BY DEF Junctions, StationsOf
  <1>2. stations[s].last \in Blocks /\ stations[s].last \in Int /\ stations[s].last >= b + 1
    BY <1>1, Place, BlockFacts
  <1>3. b + 1 \in Blocks /\ b # BlockCount - 1
    BY <1>2, BlockFacts
  <1>4. NetOf[b] = NetOf[b + 1]
    BY <1>1, <1>2, <1>3, Place, BlockFacts
  <1> QED
    BY <1>3, <1>4, BlockFacts DEF BlockLast

LEMMA StationJoins ==
  ASSUME stations \in Placements, NEW s \in Stns, NEW i \in Blocks,
         stations[s].first <= i, i < stations[s].last
  PROVE  Junctions(i) # {}
  <1>1. s \in Junctions(i)
    BY Place, BlockFacts DEF Junctions, StationsOf
  <1> QED
    BY <1>1

LEMMA BackStep ==
  ASSUME NEW b \in Blocks
  PROVE  /\ Back(b) = IF b > 0 /\ Junctions(b - 1) # {} THEN Back(b - 1) \cup {b} ELSE {b}
         /\ b > 0 => b \notin Back(b - 1)
  BY BlockFacts DEF Back

LEMMA AheadStep ==
  ASSUME NEW b \in Blocks
  PROVE  /\ Ahead(b) = IF b < BlockCount - 1 /\ Junctions(b) # {} THEN Ahead(b + 1) \cup {b} ELSE {b}
         /\ b < BlockCount - 1 => b \notin Ahead(b + 1)
  BY BlockFacts DEF Ahead

LEMMA JoinedBoth ==
  ASSUME NEW b \in Blocks
  PROVE  Joined(b) = Back(b) \cup Ahead(b)
  BY BlockFacts DEF Joined, Back, Ahead

LEMMA InformationType ==
  /\ \A S : Once(S) \in Information
  /\ Nothing \in Information
  /\ \A i, j \in Information : Plus(i, j) \in Information /\ Minus(i, j) \in Information
  BY DEF Information, Once, Nothing, Plus, Minus

LEMMA SourcesTold ==
  /\ \A b \in Blocks : b \in Sources /\ b \notin Stns
  /\ \A s \in Stns : s \in Sources /\ s \notin Blocks
  BY StnsAssumption DEF Sources

(* What a station says is known forwards from its first block, backwards    *)
(* from its last.                                                           *)
LEMMA StationBack ==
  ASSUME stations \in Placements, NEW b \in Blocks, NEW s \in Stns, s \in StationsOf(b)
  PROVE  stations[s].first \in Back(b) /\ stations[s].last \in Ahead(b)
  BY Place, StationJoins, BlockFacts DEF StationsOf, Back, Ahead

LEMMA ForwardsFirst ==
  ASSUME NEW b \in Blocks, ~(b > 0 /\ Junctions(b - 1) # {})
  PROVE  Plus(Once({b}), Once(FirstForward(b))) = Forwards(b)
  <1>1. Back(b) = {b}
    BY BackStep
  <1>2. ASSUME NEW c \in Sources
        PROVE  Plus(Once({b}), Once(FirstForward(b)))[c] = Forwards(b)[c]
    BY <1>1, SourcesTold DEF Plus, Once, FirstForward, Forwards, Sources
  <1> QED
    BY <1>2 DEF Plus, Forwards, Once

LEMMA ForwardsNext ==
  ASSUME NEW b \in Blocks, b > 0, Junctions(b - 1) # {}
  PROVE  Plus(Plus(Once({b}), Once(FirstForward(b))), Forwards(b - 1)) = Forwards(b)
  <1>1. Back(b) = Back(b - 1) \cup {b} /\ b \notin Back(b - 1)
    BY BackStep
  <1>2. ASSUME NEW c \in Sources
        PROVE  Plus(Plus(Once({b}), Once(FirstForward(b))), Forwards(b - 1))[c] = Forwards(b)[c]
    <2>1. CASE c \in Blocks
      BY <1>1, <2>1, SourcesTold DEF Plus, Once, FirstForward, Forwards, Sources
    <2>2. CASE c \in Stns
      <3>1. /\ Once({b})[c] = 0
            /\ Once(FirstForward(b))[c] = IF stations[c].first = b THEN 1 ELSE 0
            /\ Forwards(b - 1)[c] = IF stations[c].first \in Back(b - 1) THEN 1 ELSE 0
            /\ Forwards(b)[c] = IF stations[c].first \in Back(b) THEN 1 ELSE 0
        BY <2>2, SourcesTold DEF Once, FirstForward, Forwards, Back
      <3>2. Plus(Plus(Once({b}), Once(FirstForward(b))), Forwards(b - 1))[c]
              = Once({b})[c] + Once(FirstForward(b))[c] + Forwards(b - 1)[c]
        BY DEF Plus
      <3> QED
        BY <1>1, <3>1, <3>2
    <2> QED
      BY <2>1, <2>2 DEF Sources
  <1> QED
    BY <1>2 DEF Plus, Forwards, Once

LEMMA BackwardsFirst ==
  ASSUME NEW b \in Blocks, Junctions(b) = {}
  PROVE  Plus(Once({b}), Once(FirstReverse(b))) = Backwards(b)
  <1>1. Ahead(b) = {b}
    BY AheadStep
  <1>2. ASSUME NEW c \in Sources
        PROVE  Plus(Once({b}), Once(FirstReverse(b)))[c] = Backwards(b)[c]
    BY <1>1, SourcesTold DEF Plus, Once, FirstReverse, Backwards, Sources
  <1> QED
    BY <1>2 DEF Plus, Backwards, Once

LEMMA BackwardsNext ==
  ASSUME stations \in Placements, NEW b \in Blocks, Junctions(b) # {}
  PROVE  Plus(Plus(Once({b}), Backwards(b + 1)), Once(FirstReverse(b))) = Backwards(b)
  <1>1. Ahead(b) = Ahead(b + 1) \cup {b} /\ b \notin Ahead(b + 1)
    BY AheadStep, JunctionNet, BlockFacts DEF BlockLast
  <1>2. ASSUME NEW c \in Sources
        PROVE  Plus(Plus(Once({b}), Backwards(b + 1)), Once(FirstReverse(b)))[c] = Backwards(b)[c]
    <2>1. CASE c \in Blocks
      BY <1>1, <2>1, SourcesTold DEF Plus, Once, FirstReverse, Backwards, Sources
    <2>2. CASE c \in Stns
      <3>1. /\ Once({b})[c] = 0
            /\ Once(FirstReverse(b))[c] = IF stations[c].last = b THEN 1 ELSE 0
            /\ Backwards(b + 1)[c] = IF stations[c].last \in Ahead(b + 1) THEN 1 ELSE 0
            /\ Backwards(b)[c] = IF stations[c].last \in Ahead(b) THEN 1 ELSE 0
        BY <2>2, SourcesTold DEF Once, FirstReverse, Backwards, Ahead
      <3>2. Plus(Plus(Once({b}), Backwards(b + 1)), Once(FirstReverse(b)))[c]
              = Once({b})[c] + Backwards(b + 1)[c] + Once(FirstReverse(b))[c]
        BY DEF Plus
      <3> QED
        BY <1>1, <3>1, <3>2
    <2> QED
      BY <2>1, <2>2 DEF Sources
  <1> QED
    BY <1>2 DEF Plus, Backwards, Once

(* All that bears on a block is known to the last block of a network        *)
(* forwards, to the first backwards, and to the others from both sides,     *)
(* less the constraints of the stations that both have seen.                *)
LEMMA WholeOf ==
  ASSUME stations \in Placements, NEW b \in Blocks, NEW c \in Sources
  PROVE  /\ Whole(b)[c] = IF \/ c \in Back(b) \cup Ahead(b)
                             \/ c \in Stns /\ \/ stations[c].first \in Back(b)
                                              \/ stations[c].last \in Ahead(b)
                          THEN 1 ELSE 0
  <1>1. CASE c \in Blocks
    BY <1>1, JoinedBoth, SourcesTold DEF Whole, Once, StationsOf
  <1>2. CASE c \in Stns
    <2>1. ASSUME NEW d \in Back(b), c \in StationsOf(d)
          PROVE  stations[c].first \in Back(b)
      <3>1. d \in Blocks /\ stations[c].first \in Back(d)
        BY <1>2, <2>1, StationBack DEF Back
      <3> QED
        BY <2>1, <3>1, BlockFacts DEF Back
    <2>2. ASSUME NEW d \in Ahead(b), c \in StationsOf(d)
          PROVE  stations[c].last \in Ahead(b)
      <3>1. d \in Blocks /\ stations[c].last \in Ahead(d)
        BY <1>2, <2>2, StationBack DEF Ahead
      <3> QED
        BY <2>2, <3>1, BlockFacts DEF Ahead
    <2>3. /\ stations[c].first \in Back(b) => c \in StationsOf(stations[c].first)
          /\ stations[c].last \in Ahead(b) => c \in StationsOf(stations[c].last)
      BY <1>2, Place, BlockFacts DEF StationsOf
    <2>4. /\ c \in UNION {StationsOf(d) : d \in Joined(b)}
             <=> stations[c].first \in Back(b) \/ stations[c].last \in Ahead(b)
          /\ c \notin Joined(b)
      BY <1>2, <2>1, <2>2, <2>3, JoinedBoth, SourcesTold DEF Joined
    <2> QED
      BY <1>2, <2>4, JoinedBoth, SourcesTold DEF Whole, Once, Back, Ahead
  <1> QED
    BY <1>1, <1>2 DEF Sources

LEMMA WholeForwards ==
  ASSUME stations \in Placements, NEW b \in Blocks, BlockLast(b)
  PROVE  Forwards(b) = Whole(b) /\ Junctions(b) = {}
  <1>1. Junctions(b) = {}
    BY JunctionNet
  <1>2. Ahead(b) = {b} /\ b \in Back(b)
    BY <1>1, AheadStep, BackStep
  <1>3. ASSUME NEW c \in Sources
        PROVE  Forwards(b)[c] = Whole(b)[c]
    <2>1. c \in Stns /\ stations[c].last = b => stations[c].first \in Back(b)
      BY Place, StationBack, BlockFacts DEF StationsOf
    <2> QED
      BY <1>2, <2>1, WholeOf, SourcesTold DEF Forwards, Once, Sources, Back
  <1> QED
    BY <1>1, <1>3 DEF Forwards, Whole, Once

LEMMA WholeBackwards ==
  ASSUME stations \in Placements, NEW b \in Blocks, BlockFirst(b)
  PROVE  Backwards(b) = Whole(b) /\ (b > 0 => Junctions(b - 1) = {})
  <1>1. b > 0 => Junctions(b - 1) = {}
    BY JunctionNet, Neighbours, BlockFacts
  <1>2. Back(b) = {b} /\ b \in Ahead(b)
    BY <1>1, AheadStep, BackStep
  <1>3. ASSUME NEW c \in Sources
        PROVE  Backwards(b)[c] = Whole(b)[c]
    <2>1. c \in Stns /\ stations[c].first = b => stations[c].last \in Ahead(b)
      BY Place, StationBack, BlockFacts DEF StationsOf
    <2> QED
      BY <1>2, <2>1, WholeOf, SourcesTold DEF Backwards, Once, Sources, Ahead
  <1> QED
    BY <1>1, <1>3 DEF Backwards, Whole, Once

LEMMA WholeCombined ==
  ASSUME stations \in Placements, NEW b \in Blocks, b > 0
  PROVE  LET R == Backwards(b)
             repeated == Once(StationsOf(b) \ FirstForward(b))
         IN  /\ Junctions(b - 1) # {} =>
                   Minus(Plus(R, Forwards(b - 1)), repeated) = Whole(b)
             /\ Junctions(b - 1) = {} => Minus(R, repeated) = Whole(b)
  <1> DEFINE rep == StationsOf(b) \ FirstForward(b)
  <1>0. b - 1 \in Blocks /\ b \in Nat
    BY BlockFacts
  <1>1. ASSUME NEW s \in Stns
        PROVE  s \in rep <=> /\ stations[s].first \in Back(b) /\ stations[s].first # b
                             /\ stations[s].last \in Ahead(b)
    <2>1. s \in rep <=> s \in StationsOf(b) /\ stations[s].first # b
      BY DEF FirstForward
    <2>2. stations[s].first \in Back(b) /\ stations[s].last \in Ahead(b) => s \in StationsOf(b)
      BY DEF Back, Ahead, StationsOf
    <2> QED
      BY <2>1, <2>2, StationBack
  <1>2. ASSUME NEW s \in Stns, stations[s].first = b
        PROVE  stations[s].last \in Ahead(b)
    <2>1. s \in StationsOf(b)
      BY <1>2, Place, BlockFacts DEF StationsOf
    <2> QED
      BY <2>1, StationBack
  <1>3. rep \subseteq Stns /\ b \in Ahead(b) /\ b \in Back(b)
    BY AheadStep, BackStep DEF StationsOf
  <1>4. CASE Junctions(b - 1) # {}
    <2>1. Back(b) = Back(b - 1) \cup {b} /\ b \notin Back(b - 1)
      BY <1>4, BackStep
    <2>a. Back(b - 1) \subseteq Blocks /\ Ahead(b) \subseteq Blocks
      BY DEF Back, Ahead
    <2>b. \A d \in Back(b - 1) : d \notin Ahead(b)
      BY BlockFacts DEF Back, Ahead
    <2>2. ASSUME NEW c \in Sources
          PROVE  Minus(Plus(Backwards(b), Forwards(b - 1)), Once(rep))[c] = Whole(b)[c]
      <3> HIDE DEF rep
      <3>1. CASE c \in Blocks
        BY <1>3, <2>1, <2>a, <2>b, <3>1, WholeOf, SourcesTold
           DEF Minus, Plus, Once, Forwards, Backwards
      <3>2. CASE c \in Stns
        BY <1>1, <1>2, <2>1, <2>a, <3>2, WholeOf, SourcesTold
           DEF Minus, Plus, Once, Forwards, Backwards
      <3> QED
        BY <3>1, <3>2 DEF Sources
    <2>3. Minus(Plus(Backwards(b), Forwards(b - 1)), Once(rep)) = Whole(b)
      BY <2>2 DEF Minus, Whole, Once
    <2> QED
      BY <1>4, <2>3
  <1>5. CASE Junctions(b - 1) = {}
    <2>1. Back(b) = {b}
      BY <1>5, BackStep
    <2>a. Ahead(b) \subseteq Blocks
      BY DEF Ahead
    <2>2. ASSUME NEW c \in Sources
          PROVE  Minus(Backwards(b), Once(rep))[c] = Whole(b)[c]
      <3> HIDE DEF rep
      <3>1. CASE c \in Blocks
        BY <1>3, <2>1, <2>a, <3>1, WholeOf, SourcesTold DEF Minus, Once, Backwards
      <3>2. CASE c \in Stns
        BY <1>1, <1>2, <2>1, <2>a, <3>2, WholeOf, SourcesTold DEF Minus, Once, Backwards
      <3> QED
        BY <3>1, <3>2 DEF Sources
    <2>3. Minus(Backwards(b), Once(rep)) = Whole(b)
      BY <2>2 DEF Minus, Whole, Once
    <2> QED
      BY <1>5, <2>3
  <1> QED
    BY <1>4, <1>5
-----------------------------------------------------------------------------
(* What is done to the matrices of a block.                                 *)

LEMMA Types ==
  /\ \A info \in Information, n \in Int : From(info, n) \in Coordinates
  /\ \A info \in Information : Plain(info) \in Variances /\ Inverted(info) \in Variances
  /\ \A b : Whole(b) \in Information /\ Forwards(b) \in Information /\ Backwards(b) \in Information
  /\ \A b : \A r \in Int : Known(b, r) \in Coordinates
  /\ \A b : Measured(b) \in Variances /\ Measured(b) = Plain(Once({b}))
  /\ Apriori \in Coordinates /\ NotFormed \in Coordinates /\ Zero \in Variances
  /\ <<>> \in Seq(Rows)
  /\ \A v \in Variances, info \in Information :
        Add(v, info) \in Variances /\ Add(v, info).info = Plus(v.info, info)
                                   /\ Add(v, info).inverted = v.inverted
  <1>1. \A b : Whole(b) \in Information /\ Forwards(b) \in Information /\ Backwards(b) \in Information
    BY InformationType DEF Whole, Forwards, Backwards
  <1>2. Apriori \in Coordinates /\ NotFormed \in Coordinates /\ Zero \in Variances
    BY InformationType DEF Apriori, NotFormed, Zero, Coordinates, Variances
  <1>3. \A info \in Information, n \in Int : From(info, n) \in Coordinates
    BY DEF From, Coordinates
  <1>4. \A info \in Information : Plain(info) \in Variances /\ Inverted(info) \in Variances
    BY DEF Plain, Inverted, Variances
  <1>5. \A b : Measured(b) \in Variances /\ Measured(b) = Plain(Once({b}))
    BY InformationType, <1>4 DEF Measured, Plain
  <1>6. \A v \in Variances, info \in Information :
           Add(v, info) \in Variances /\ Add(v, info).info = Plus(v.info, info)
                                      /\ Add(v, info).inverted = v.inverted
    BY InformationType DEF Add, Variances
  <1>7. \A b : \A r \in Int : Known(b, r) \in Coordinates
    BY <1>1, <1>2, <1>3 DEF Known
  <1> QED
    BY <1>1, <1>2, <1>3, <1>4, <1>5, <1>6, <1>7

LEMMA VariancesTold ==
  ASSUME NEW v \in Variances, NEW x
  PROVE  /\ [v EXCEPT !.inverted = x] = [info |-> v.info, inverted |-> x]
         /\ [v EXCEPT !.info = x] = [info |-> x, inverted |-> v.inverted]
         /\ v = [info |-> v.info, inverted |-> v.inverted]
  BY DEF Variances

LEMMA PlainAdd ==
  ASSUME NEW i \in Information, NEW j \in Information
  PROVE  Add(Plain(i), j) = Plain(Plus(i, j))
  <1>1. Plain(i) \in Variances /\ Plain(i).info = i
    BY Types DEF Plain
  <1>2. \A x : [Plain(i) EXCEPT !.info = x] = [info |-> x, inverted |-> Plain(i).inverted]
    BY <1>1, VariancesTold
  <1>3. Plain(i).inverted = FALSE
    BY DEF Plain
  <1>4. Add(Plain(i), j) = [info |-> Plus(i, j), inverted |-> Plain(i).inverted]
    BY <1>1, <1>2 DEF Add
  <1> QED
    BY <1>3, <1>4 DEF Plain

LEMMA UnloadedType == Unloaded \in Matrices /\ Unloaded.rigorous.round = -1
  <1>1. Unloaded.rigorous.round = -1
    BY DEF Unloaded, NotFormed
  <1> QED
    BY <1>1, Types, InformationType DEF Unloaded, Matrices

LEMMA Forming ==
  ASSUME NEW b \in Blocks, NEW m \in Matrices
  PROVE  LET f == FormForward(b, m)
         IN  /\ f \in Matrices
             /\ f.normals = Plain(Plus(Once({b}), Once(FirstForward(b))))
             /\ f.normalsR = Measured(b)
             /\ f.design = m.estimated /\ f.computed = m.estimated
             /\ f.estimated = m.estimated /\ f.original = m.original
             /\ f.rigorous = m.rigorous /\ f.variances = m.variances /\ f.rows = m.rows
  <1>1. FillDesign(m) \in Matrices
    BY DEF FillDesign, Matrices
  <1>2. /\ Add(Measured(b), Once(FirstForward(b))) \in Variances
        /\ Add(Measured(b), Once(FirstForward(b)))
             = Plain(Plus(Once({b}), Once(FirstForward(b))))
    BY Types, InformationType, PlainAdd
  <1>3. Measured(b) \in Variances
    BY Types
  <1> QED
    BY <1>1, <1>2, <1>3 DEF FormForward, FillDesign, Matrices

(* A block loaded from its mapped file.                                     *)
LEMMA Deserialised ==
  ASSUME NEW b \in Blocks, disk[b] \in Matrices
  PROVE  LET d == DeserialiseBlock(b)
         IN  /\ d \in Matrices
             /\ d.normalsR = disk[b].normalsR /\ d.computed = disk[b].computed
             /\ d.estimated = disk[b].estimated /\ d.original = disk[b].original
             /\ d.rigorous = disk[b].rigorous /\ d.variances = disk[b].variances
             /\ d.rows = disk[b].rows /\ d.corrections = disk[b].corrections
             /\ d.junctionInfo = disk[b].junctionInfo
             /\ d.junctionEstimates = disk[b].junctionEstimates
  BY Types, InformationType DEF DeserialiseBlock, Matrices

LEMMA Appending ==
  ASSUME NEW m \in Matrices, NEW S, NEW info \in Information, NEW estimates \in Coordinates
  PROVE  LET a == AppendJunctions(m, S, info, estimates)
         IN  /\ a \in Matrices
             /\ a.normals = IF S = {} THEN m.normals ELSE Add(m.normals, info)
             /\ a.rows = IF S = {}
                         THEN m.rows
                         ELSE Append(m.rows, [info |-> info, estimates |-> estimates,
                                              computed |-> m.estimated])
             /\ a.normalsR = m.normalsR /\ a.estimated = m.estimated
             /\ a.original = m.original /\ a.rigorous = m.rigorous
             /\ a.variances = m.variances /\ a.design = m.design /\ a.computed = m.computed
             /\ a.corrections = m.corrections /\ a.correctionsR = m.correctionsR
             /\ a.junctionInfo = m.junctionInfo /\ a.junctionEstimates = m.junctionEstimates
  <1> DEFINE row == [info |-> info, estimates |-> estimates, computed |-> m.estimated]
  <1>1. row \in Rows
    BY DEF Rows, Matrices
  <1> HIDE DEF row
  <1>2. Append(m.rows, row) \in Seq(Rows) /\ Add(m.normals, info) \in Variances
    BY <1>1, Types, AppendProperties DEF Matrices
  <1> QED
    BY <1>2 DEF AppendJunctions, Matrices, row

(* The solution of the normal equations of a block.                         *)
LEMMA Solving ==
  ASSUME NEW m \in Matrices, iteration \in Int
  PROVE  LET s == UpdateEstimates(Solve(m))
         IN  /\ s \in Matrices
             /\ s.normals = Inverted(m.normals.info)
             /\ s.corrections = m.normals.info
             /\ s.estimated = From(m.normals.info, iteration)
             /\ s.normalsR = m.normalsR /\ s.original = m.original /\ s.rigorous = m.rigorous
             /\ s.variances = m.variances /\ s.design = m.design /\ s.computed = m.computed
             /\ s.rows = m.rows /\ s.correctionsR = m.correctionsR
             /\ s.junctionInfo = m.junctionInfo /\ s.junctionEstimates = m.junctionEstimates
  <1>1. /\ m.normals \in Variances
        /\ [m.normals EXCEPT !.inverted = TRUE] = Inverted(m.normals.info)
    BY VariancesTold DEF Matrices, Inverted
  <1>2. m.normals.info \in Information /\ Inverted(m.normals.info) \in Variances
        /\ From(m.normals.info, iteration) \in Coordinates
    BY <1>1, Types DEF Variances
  <1>3. Solve(m) = [m EXCEPT !.normals = Inverted(m.normals.info), !.corrections = m.normals.info]
    BY <1>1 DEF Solve, Matrices
  <1> QED
    BY <1>2, <1>3 DEF UpdateEstimates, From, Matrices

(* Rows that were appended last are the ones taken off.                     *)
LEMMA Shrinking ==
  ASSUME NEW m \in Matrices, NEW S
  PROVE  LET s == ShrinkBy(m, S)
         IN  /\ s \in Matrices
             /\ s.rows = IF S = {} THEN m.rows ELSE Front(m.rows)
             /\ s.normals = m.normals /\ s.normalsR = m.normalsR
             /\ s.estimated = m.estimated /\ s.original = m.original /\ s.rigorous = m.rigorous
             /\ s.variances = m.variances /\ s.design = m.design /\ s.computed = m.computed
             /\ s.corrections = m.corrections /\ s.correctionsR = m.correctionsR
             /\ s.junctionInfo = m.junctionInfo /\ s.junctionEstimates = m.junctionEstimates
  <1>1. Front(m.rows) \in Seq(Rows)
    BY SubSeqProperties, LenProperties DEF Front, Matrices
  <1> QED
    BY <1>1 DEF ShrinkBy, Matrices

LEMMA FrontOfOne ==
  ASSUME NEW x
  PROVE  Front(<<x>>) = <<>>
  BY DEF Front
-----------------------------------------------------------------------------
(* Blocks in memory and on disk, before and after a step.                   *)

LEMMA LatestIs ==
  ASSUME NEW b \in Blocks
  PROVE  /\ b \in Loaded <=> memory[b] # Unloaded
         /\ b \in Loaded => Latest(b) = memory[b]
         /\ b \notin Loaded => Latest(b) = disk[b]
         /\ b \in Loaded' <=> memory'[b] # Unloaded
         /\ memory'[b] = memory[b] /\ disk'[b] = disk[b] => Latest(b)' = Latest(b)
         /\ memory'[b] # Unloaded => Latest(b)' = memory'[b]
         /\ memory'[b] = Unloaded => Latest(b)' = disk'[b]
  <1>1. Unloaded' = Unloaded
    BY DEF Unloaded, Zero, NotFormed, Nothing
  <1> QED
    BY <1>1 DEF Loaded, Latest

(* The predicates on matrices depend on nothing that a step changes.        *)
LEMMA RigidInformation ==
  ASSUME stations' = stations, mode' = mode
  PROVE  /\ \A b : Junctions(b)' = Junctions(b)
         /\ \A b : Whole(b)' = Whole(b)
         /\ \A b : Forwards(b)' = Forwards(b)
         /\ \A b : Backwards(b)' = Backwards(b)
         /\ \A b : FirstForward(b)' = FirstForward(b)
         /\ \A b : Once({b})' = Once({b})
         /\ \A b : SolvedLast(b)' = SolvedLast(b)
         /\ Promised' = Promised
  <1>1. \A b : Junctions(b)' = Junctions(b)
    BY DEF Junctions, StationsOf
  <1>2. \A b : StationsOf(b)' = StationsOf(b)
    BY DEF StationsOf
  <1>3. \A b : Joined(b)' = Joined(b) /\ Back(b)' = Back(b) /\ Ahead(b)' = Ahead(b)
    BY <1>1 DEF Joined, Back, Ahead
  <1>4. \A b : Whole(b)' = Whole(b)
    BY <1>2, <1>3 DEF Whole, Once
  <1>5. \A b : Forwards(b)' = Forwards(b) /\ Backwards(b)' = Backwards(b)
    BY <1>3 DEF Forwards, Backwards, Once
  <1>6. \A b : SolvedLast(b)' = SolvedLast(b)
    BY <1>4 DEF SolvedLast, FirstReverse, Once, Plus
  <1> QED
    BY <1>1, <1>4, <1>5, <1>6 DEF FirstForward, Promised, Once

LEMMA Rigid ==
  ASSUME stations' = stations, mode' = mode
  PROVE  /\ \A m, b, r : Fresh(m, b, r)' <=> Fresh(m, b, r)
         /\ \A m, b, r : ReadyForward(m, b, r)' <=> ReadyForward(m, b, r)
         /\ \A m, b, r : ForwardDone(m, b, r)' <=> ForwardDone(m, b, r)
         /\ \A m, b, r : Waiting(m, b, r)' <=> Waiting(m, b, r)
         /\ \A m, b, r : ReadyReverse(m, b, r)' <=> ReadyReverse(m, b, r)
         /\ \A m, b, r : ReverseDone(m, b, r)' <=> ReverseDone(m, b, r)
         /\ \A m, b, r : ReadyCombine(m, b, r)' <=> ReadyCombine(m, b, r)
         /\ \A m, b, r : ReadyFinal(m, b, r)' <=> ReadyFinal(m, b, r)
         /\ \A m, b, r : Finished(m, b, r)' <=> Finished(m, b, r)
         /\ \A m, b, r : Final(m, b, r)' <=> Final(m, b, r)
  <1>1. \A b, r : Known(b, r)' = Known(b, r)
    BY RigidInformation DEF Known, From, Apriori, Nothing
  <1>2. /\ \A b, r : ForwardRows(b, r)' = ForwardRows(b, r)
        /\ \A b, r : BackwardRows(b, r)' = BackwardRows(b, r)
    BY <1>1, RigidInformation DEF ForwardRows, BackwardRows, Row, From
  <1>3. \A m, b, r : Fresh(m, b, r)' <=> Fresh(m, b, r)
    <2> SUFFICES ASSUME NEW m, NEW b, NEW r
                 PROVE  Fresh(m, b, r)' <=> Fresh(m, b, r)
      OBVIOUS
    <2>1. /\ Known(b, r)' = Known(b, r)
          /\ Measured(b)' = Measured(b)
          /\ Plain(Plus(Once({b}), Once(FirstForward(b))))'
             = Plain(Plus(Once({b}), Once(FirstForward(b))))
      BY <1>1, RigidInformation DEF Plain, Plus, Measured, Once, FirstForward
    <2> QED
      BY <2>1 DEF Fresh, FormedAt
  <1>4. \A m, b, r : ReadyForward(m, b, r)' <=> ReadyForward(m, b, r)
    <2> SUFFICES ASSUME NEW m, NEW b, NEW r
                 PROVE  ReadyForward(m, b, r)' <=> ReadyForward(m, b, r)
      OBVIOUS
    <2>1. /\ Known(b, r)' = Known(b, r) /\ ForwardRows(b, r)' = ForwardRows(b, r)
          /\ Measured(b)' = Measured(b)
          /\ Plain(Forwards(b))' = Plain(Forwards(b))
      BY <1>1, <1>2, RigidInformation DEF Plain, Measured
    <2> QED
      BY <2>1 DEF ReadyForward, FormedAt
  <1>5. \A m, b, r : Result(m, b, r)' <=> Result(m, b, r)
    BY <1>1, RigidInformation DEF Result, From, Inverted
  <1>6. \A m, b, r : ForwardDone(m, b, r)' <=> ForwardDone(m, b, r)
    <2> SUFFICES ASSUME NEW m, NEW b, NEW r
                 PROVE  ForwardDone(m, b, r)' <=> ForwardDone(m, b, r)
      OBVIOUS
    <2>1. /\ Known(b, r)' = Known(b, r) /\ (Result(m, b, r)' <=> Result(m, b, r))
          /\ Measured(b)' = Measured(b) /\ Forwards(b)' = Forwards(b)
          /\ From(Forwards(b), r + 1)' = From(Forwards(b), r + 1)
          /\ Inverted(Forwards(b))' = Inverted(Forwards(b))
      BY <1>1, <1>5, RigidInformation DEF From, Inverted, Measured
    <2> QED
      BY <2>1 DEF ForwardDone, FormedAt
  <1>7. \A m, b, r : HandedOn(m, b, r)' <=> HandedOn(m, b, r)
    BY RigidInformation DEF HandedOn, From
  <1>8. \A m, b, r : Waiting(m, b, r)' <=> Waiting(m, b, r)
    BY <1>3, <1>6, <1>7 DEF Waiting
  <1>9. \A m, b, r : ReadyReverse(m, b, r)' <=> ReadyReverse(m, b, r)
    BY <1>1, <1>2, <1>5, <1>7, RigidInformation DEF ReadyReverse, FormedAt, Measured
  <1>10. \A m, b, r : ReverseDone(m, b, r)' <=> ReverseDone(m, b, r)
    BY <1>1, <1>2, <1>5, RigidInformation DEF ReverseDone, FormedAt
  <1>11. \A m, b, r : ReadyCombine(m, b, r)' <=> ReadyCombine(m, b, r)
    BY <1>1, <1>2, RigidInformation DEF ReadyCombine, FormedAt
  <1>12. \A m, b, r : ReadyFinal(m, b, r)' <=> ReadyFinal(m, b, r)
    BY <1>1, <1>2, <1>5, RigidInformation DEF ReadyFinal, FormedAt
  <1>13. \A m, b, r : Finished(m, b, r)' <=> Finished(m, b, r)
    <2> SUFFICES ASSUME NEW m, NEW b, NEW r
                 PROVE  Finished(m, b, r)' <=> Finished(m, b, r)
      OBVIOUS
    <2>1. /\ Inverted(Whole(b))' = Inverted(Whole(b))
          /\ Inverted(Backwards(b))' = Inverted(Backwards(b))
          /\ From(Whole(b), r + 1)' = From(Whole(b), r + 1)
          /\ From(Backwards(b), r + 1)' = From(Backwards(b), r + 1)
          /\ Whole(b)' = Whole(b) /\ Promised' = Promised
      BY RigidInformation DEF From, Inverted
    <2> QED
      BY <2>1 DEF Finished
  <1>14. \A m, b, r : Final(m, b, r)' <=> Final(m, b, r)
    BY RigidInformation DEF Final, From, Inverted
  <1> QED
    BY <1>3, <1>4, <1>6, <1>8, <1>9, <1>10, <1>11, <1>12, <1>13, <1>14

(* Matrices that hold any of this are not unloaded ones.                    *)
LEMMA Real ==
  ASSUME NEW m, NEW b, NEW r \in Nat,
         \/ Fresh(m, b, r) \/ ReadyForward(m, b, r) \/ ForwardDone(m, b, r) \/ Waiting(m, b, r)
         \/ ReadyReverse(m, b, r) \/ ReverseDone(m, b, r) \/ ReadyCombine(m, b, r)
         \/ ReadyFinal(m, b, r) \/ Finished(m, b, r) \/ Final(m, b, r)
  PROVE  m.rigorous.round >= 0 /\ m # Unloaded
  <1>1. Known(b, r).round = r
    BY DEF Known, Apriori, From
  <1>2. From(Whole(b), r + 1).round = r + 1
    BY DEF From
  <1>3. Result(m, b, r) => m.rigorous.round >= 0
    BY <1>1, <1>2 DEF Result
  <1>4. m.rigorous.round >= 0
    BY <1>1, <1>2, <1>3 DEF Fresh, ReadyForward, ForwardDone, Waiting, ReadyReverse,
                            ReverseDone, ReadyCombine, ReadyFinal, Finished, Final
  <1> QED
    BY <1>4, UnloadedType
-----------------------------------------------------------------------------
(* A block in the forward run.                                              *)

Typed == memory \in [Blocks -> Matrices] /\ disk \in [Blocks -> Matrices]

(* A block that is formed, before the junctions of its neighbours come.     *)
Prepared(m, b, r) ==
    /\ FormedAt(m, b, r) /\ m.normalsR = Measured(b)
    /\ m.estimated = Known(b, r) /\ m.rigorous = Known(b, r)
    /\ m.normals = Plain(Plus(Once({b}), Once(FirstForward(b))))
    /\ m.rows = <<>>

LEMMA LoadedForward ==
  ASSUME Typed, NEW b \in Blocks, NEW r \in Nat, Fresh(Latest(b), b, r),
         IF Stage THEN b \notin Loaded ELSE b \in Loaded
  PROVE  LET next == IF Stage THEN FormForward(b, DeserialiseBlock(b)) ELSE memory[b]
         IN  next \in Matrices /\ Prepared(next, b, r)
  <1>1. memory[b] \in Matrices /\ disk[b] \in Matrices
    BY DEF Typed
  <1>2. CASE Stage
    <2> DEFINE d == DeserialiseBlock(b)
    <2>1. Fresh(disk[b], b, r)
      BY <1>2, LatestIs
    <2>2. /\ d \in Matrices
          /\ d.estimated = disk[b].estimated /\ d.original = disk[b].original
          /\ d.rigorous = disk[b].rigorous /\ d.rows = disk[b].rows
      BY <1>1, Deserialised
    <2> HIDE DEF d
    <2> DEFINE f == FormForward(b, d)
    <2>3. /\ f \in Matrices
          /\ f.normals = Plain(Plus(Once({b}), Once(FirstForward(b))))
          /\ f.normalsR = Measured(b)
          /\ f.design = d.estimated /\ f.computed = d.estimated
          /\ f.estimated = d.estimated /\ f.original = d.original
          /\ f.rigorous = d.rigorous /\ f.rows = d.rows
      BY <2>2, Forming
    <2> HIDE DEF f
    <2>4. f \in Matrices /\ Prepared(f, b, r)
      BY <2>1, <2>2, <2>3 DEF Fresh, Prepared, FormedAt
    <2> QED
      BY <1>2, <2>4 DEF f, d
  <1>3. CASE ~Stage
    BY <1>1, <1>3, LatestIs DEF Fresh, Prepared, FormedAt
  <1> QED
    BY <1>2, <1>3

(* The first block of a network has all it needs; another one takes over    *)
(* the junctions of the block before.                                       *)
LEMMA ForwardFirst ==
  ASSUME NEW b \in Blocks, NEW r \in Nat, NEW m \in Matrices, Prepared(m, b, r),
         ~(b > 0 /\ Junctions(b - 1) # {})
  PROVE  ReadyForward(m, b, r)
  BY ForwardsFirst DEF Prepared, ReadyForward, ForwardRows

LEMMA ForwardNext ==
  ASSUME NEW b \in Blocks, NEW r \in Nat, NEW m \in Matrices, Prepared(m, b, r), b > 0
  PROVE  LET a == AppendJunctions(m, Junctions(b - 1), Forwards(b - 1),
                                  From(Forwards(b - 1), r + 1))
         IN  a \in Matrices /\ ReadyForward(a, b, r)
  <1> DEFINE S == Junctions(b - 1)
             info == Forwards(b - 1)
             a == AppendJunctions(m, S, info, From(info, r + 1))
  <1>1. info \in Information /\ From(info, r + 1) \in Coordinates
    BY Types
  <1>2. /\ a \in Matrices
        /\ a.normals = IF S = {} THEN m.normals ELSE Add(m.normals, info)
        /\ a.rows = IF S = {}
                    THEN m.rows
                    ELSE Append(m.rows, [info |-> info, estimates |-> From(info, r + 1),
                                         computed |-> m.estimated])
        /\ a.normalsR = m.normalsR /\ a.estimated = m.estimated
        /\ a.original = m.original /\ a.rigorous = m.rigorous
        /\ a.design = m.design /\ a.computed = m.computed
    BY <1>1, Appending
  <1>3. CASE S = {}
    <2>1. a = m
      BY <1>3 DEF AppendJunctions
    <2> QED
      BY <1>3, <2>1, ForwardFirst
  <1>4. CASE S # {}
    <2>1. Plus(Once({b}), Once(FirstForward(b))) \in Information
      BY InformationType
    <2>2. a.normals = Plain(Forwards(b))
      <3>1. a.normals = Add(Plain(Plus(Once({b}), Once(FirstForward(b)))), info)
        BY <1>2, <1>4 DEF Prepared
      <3> QED
        BY <1>1, <1>4, <2>1, <3>1, PlainAdd, ForwardsNext
    <2>3. a.rows = ForwardRows(b, r)
      BY <1>2, <1>4 DEF Prepared, ForwardRows, Row
    <2> HIDE DEF a, info, S
    <2>4. ReadyForward(a, b, r)
      BY <1>2, <2>2, <2>3 DEF Prepared, ReadyForward, FormedAt
    <2> QED
      BY <1>2, <2>4 DEF a, info, S
  <1> QED
    BY <1>3, <1>4

(* The solution, with its rows taken off again.                             *)
LEMMA ForwardSolved ==
  ASSUME stations \in Placements, mode = "phased", NEW b \in Blocks, NEW r \in Nat,
         iteration = r + 1, NEW m \in Matrices, ReadyForward(m, b, r)
  PROVE  LET s == ShrinkForwardMatrices(b, UpdateEstimatesForward(b, Solve(m)))
         IN  s \in Matrices /\ ForwardDone(s, b, r)
  <1> DEFINE u == UpdateEstimates(Solve(m))
             v == UpdateEstimatesForward(b, Solve(m))
             s == ShrinkForwardMatrices(b, v)
  <1>1. /\ u \in Matrices
        /\ u.normals = Inverted(m.normals.info)
        /\ u.corrections = m.normals.info
        /\ u.estimated = From(m.normals.info, iteration)
        /\ u.normalsR = m.normalsR /\ u.original = m.original /\ u.rigorous = m.rigorous
        /\ u.design = m.design /\ u.computed = m.computed
        /\ u.rows = m.rows
    BY Solving
  <1>2. m.normals.info = Forwards(b)
    BY DEF ReadyForward, Plain
  <1> HIDE DEF u
  <1>3. /\ v \in Matrices
        /\ v.normals = u.normals /\ v.corrections = u.corrections /\ v.estimated = u.estimated
        /\ v.normalsR = u.normalsR /\ v.original = u.original /\ v.design = u.design
        /\ v.computed = u.computed /\ v.rows = u.rows
        /\ IF BlockLast(b)
           THEN /\ v.rigorous = u.estimated /\ v.variances = u.normals
                /\ v.correctionsR = u.corrections
           ELSE v.rigorous = u.rigorous
    BY <1>1 DEF UpdateEstimatesForward, u, Matrices
  <1> HIDE DEF v
  <1>4. /\ s \in Matrices
        /\ s.rows = IF BlockFirst(b) \/ Junctions(b - 1) = {} THEN v.rows ELSE Front(v.rows)
        /\ s.normals = v.normals /\ s.normalsR = v.normalsR
        /\ s.estimated = v.estimated /\ s.original = v.original /\ s.rigorous = v.rigorous
        /\ s.variances = v.variances /\ s.design = v.design /\ s.computed = v.computed
        /\ s.corrections = v.corrections /\ s.correctionsR = v.correctionsR
    BY <1>3, Shrinking DEF ShrinkForwardMatrices
  <1> HIDE DEF s
  <1>5. s.rows = <<>>
    <2>1. v.rows = ForwardRows(b, r)
      BY <1>1, <1>3 DEF ReadyForward
    <2>2. CASE BlockFirst(b)
      <3>1. ~(b > 0 /\ Junctions(b - 1) # {})
        BY <2>2, WholeBackwards
      <3> QED
        BY <1>4, <2>1, <2>2, <3>1 DEF ForwardRows
    <2>3. CASE ~BlockFirst(b)
      BY <1>4, <2>1, <2>3, Neighbours, FrontOfOne DEF ForwardRows
    <2> QED
      BY <2>2, <2>3
  <1>6. FormedAt(s, b, r) /\ s.normalsR = Measured(b)
    BY <1>1, <1>3, <1>4 DEF ReadyForward, FormedAt
  <1>7. s.corrections = Forwards(b) /\ s.estimated = From(Forwards(b), r + 1)
        /\ s.normals = Inverted(Forwards(b))
    BY <1>1, <1>2, <1>3, <1>4
  <1>8. Result(s, b, r)
    <2>1. CASE BlockLast(b)
      <3>1. Forwards(b) = Whole(b)
        BY <2>1, WholeForwards
      <3> QED
        BY <1>3, <1>4, <1>7, <2>1, <3>1 DEF Result
    <2>2. CASE ~BlockLast(b)
      BY <1>1, <1>3, <1>4, <2>2 DEF Result, ReadyForward
    <2> QED
      BY <2>1, <2>2
  <1> QED
    BY <1>4, <1>5, <1>6, <1>7, <1>8 DEF ForwardDone, s, v

(* The junctions it hands on are kept with the block.                       *)
LEMMA ForwardHanded ==
  ASSUME mode = "phased", NEW b \in Blocks, NEW r \in Nat, NEW m \in Matrices,
         ForwardDone(m, b, r)
  PROVE  LET h == [m EXCEPT !.junctionInfo = m.normals.info, !.junctionEstimates = m.estimated]
         IN  /\ h \in Matrices
             /\ h.junctionInfo = Forwards(b) /\ h.junctionEstimates = From(Forwards(b), r + 1)
             /\ ForwardDone(h, b, r) /\ HandedOn(h, b, r) /\ Waiting(h, b, r)
  <1> DEFINE h == [m EXCEPT !.junctionInfo = m.normals.info, !.junctionEstimates = m.estimated]
  <1>1. m.normals.info = Forwards(b) /\ m.estimated = From(Forwards(b), r + 1)
    BY DEF ForwardDone, Inverted
  <1>2. Forwards(b) \in Information /\ From(Forwards(b), r + 1) \in Coordinates
    BY Types
  <1>3. /\ h \in Matrices
        /\ h.junctionInfo = Forwards(b) /\ h.junctionEstimates = From(Forwards(b), r + 1)
        /\ h.normals = m.normals /\ h.normalsR = m.normalsR
        /\ h.estimated = m.estimated /\ h.original = m.original /\ h.rigorous = m.rigorous
        /\ h.variances = m.variances /\ h.design = m.design /\ h.computed = m.computed
        /\ h.corrections = m.corrections /\ h.correctionsR = m.correctionsR
        /\ h.rows = m.rows
    BY <1>1, <1>2 DEF Matrices
  <1> HIDE DEF h
  <1>4. ForwardDone(h, b, r)
    BY <1>3 DEF ForwardDone, FormedAt, Result
  <1>5. HandedOn(h, b, r)
    BY <1>3 DEF HandedOn
  <1> QED
    BY <1>3, <1>4, <1>5 DEF Waiting, h-----------------------------------------------------------------------------
(* A block in the reverse run.                                              *)

Modal == mode \in {"phased", "block1"} /\ (mode = "block1" => ~Stage)

(* What the reverse run finds of a block, whichever way it was waiting.     *)
Settled(m, b, r) ==
    /\ FormedAt(m, b, r) /\ m.normalsR = Measured(b)
    /\ m.rows = <<>>
    /\ HandedOn(m, b, r)
    /\ Result(m, b, r)

LEMMA WaitingSettled ==
  ASSUME Modal, NEW m, NEW b, NEW r, Waiting(m, b, r)
  PROVE  Settled(m, b, r)
  <1>1. CASE mode = "phased"
    BY <1>1 DEF Waiting, Settled, ForwardDone
  <1>2. CASE mode # "phased"
    BY <1>2 DEF Waiting, Settled, Modal, Fresh, Result, HandedOn
  <1> QED
    BY <1>1, <1>2

(* The last block of a network begins it with its own measurements.         *)
LEMMA ReverseLast ==
  ASSUME stations \in Placements, NEW b \in Blocks, NEW r \in Nat, NEW m \in Matrices,
         BlockLast(b), Settled(m, b, r)
  PROVE  LET s == [m EXCEPT !.normals = Add(m.normalsR, Once(FirstReverse(b))),
                            !.estimated = m.original]
         IN  s \in Matrices /\ ReadyReverse(s, b, r)
  <1> DEFINE s == [m EXCEPT !.normals = Add(m.normalsR, Once(FirstReverse(b))),
                            !.estimated = m.original]
  <1>1. Junctions(b) = {}
    BY WholeForwards
  <1>2. Add(m.normalsR, Once(FirstReverse(b))) = Plain(Backwards(b))
    <2>1. m.normalsR = Plain(Once({b}))
      BY Types DEF Settled
    <2> QED
      BY <1>1, <2>1, PlainAdd, BackwardsFirst, InformationType
  <1>3. Plain(Backwards(b)) \in Variances
    BY Types
  <1>4. /\ s \in Matrices
        /\ s.normals = Plain(Backwards(b)) /\ s.estimated = m.original
        /\ s.normalsR = m.normalsR /\ s.original = m.original /\ s.rigorous = m.rigorous
        /\ s.variances = m.variances /\ s.design = m.design /\ s.computed = m.computed
        /\ s.correctionsR = m.correctionsR /\ s.rows = m.rows
        /\ s.junctionInfo = m.junctionInfo /\ s.junctionEstimates = m.junctionEstimates
    BY <1>2, <1>3 DEF Matrices
  <1> HIDE DEF s
  <1>5. s.rows = BackwardRows(b, r)
    BY <1>1, <1>4 DEF Settled, BackwardRows
  <1> QED
    BY <1>4, <1>5 DEF ReadyReverse, Settled, FormedAt, HandedOn, Result, s

(* A block that the reverse run goes on to, before the junctions come.      *)
SetUp(m, b, r) ==
    /\ FormedAt(m, b, r) /\ m.normalsR = Measured(b)
    /\ m.estimated = Known(b, r)
    /\ m.normals = Plain(Once({b}))
    /\ m.rows = <<>>
    /\ HandedOn(m, b, r)
    /\ Result(m, b, r)

LEMMA LoadedReverse ==
  ASSUME Typed, NEW b \in Blocks, NEW r \in Nat, ~BlockLast(b), Settled(Latest(b), b, r),
         IF Stage THEN b \notin Loaded ELSE b \in Loaded
  PROVE  LET next == IF Stage
                     THEN DeserialiseBlock(b)
                     ELSE [memory[b] EXCEPT !.normals = memory[b].normalsR]
             reset == [next EXCEPT !.estimated = next.original]
             formed == IF Stage
                       THEN [FillDesign(reset) EXCEPT !.normals = Measured(b)]
                       ELSE reset
         IN  formed \in Matrices /\ SetUp(formed, b, r)
  <1>1. memory[b] \in Matrices /\ disk[b] \in Matrices
    BY DEF Typed
  <1>0. Measured(b) \in Variances /\ Measured(b) = Plain(Once({b}))
    BY Types
  <1>2. CASE Stage
    <2> DEFINE d == DeserialiseBlock(b)
               f == [FillDesign([d EXCEPT !.estimated = d.original]) EXCEPT !.normals = Measured(b)]
    <2>1. Settled(disk[b], b, r)
      BY <1>2, LatestIs
    <2>2. /\ d \in Matrices
          /\ d.normalsR = disk[b].normalsR
          /\ d.original = disk[b].original
          /\ d.rigorous = disk[b].rigorous
          /\ d.rows = disk[b].rows
          /\ d.junctionInfo = disk[b].junctionInfo
          /\ d.junctionEstimates = disk[b].junctionEstimates
      BY <1>1, Deserialised
    <2> HIDE DEF d
    <2>3. /\ f \in Matrices
          /\ f.normals = Measured(b) /\ f.normalsR = d.normalsR
          /\ f.design = d.original /\ f.computed = d.original
          /\ f.estimated = d.original /\ f.original = d.original
          /\ f.rigorous = d.rigorous /\ f.rows = d.rows
          /\ f.junctionInfo = d.junctionInfo /\ f.junctionEstimates = d.junctionEstimates
      BY <1>0, <2>2 DEF FillDesign, Matrices
    <2> HIDE DEF f
    <2>4. SetUp(f, b, r)
      BY <1>0, <2>1, <2>2, <2>3 DEF Settled, SetUp, FormedAt, HandedOn, Result
    <2> QED
      BY <1>2, <2>3, <2>4 DEF f, d
  <1>3. CASE ~Stage
    <2> DEFINE n == [memory[b] EXCEPT !.normals = memory[b].normalsR]
               f == [n EXCEPT !.estimated = n.original]
    <2>1. Settled(memory[b], b, r)
      BY <1>3, LatestIs
    <2>2. /\ f \in Matrices
          /\ f.normals = memory[b].normalsR /\ f.normalsR = memory[b].normalsR
          /\ f.design = memory[b].design /\ f.computed = memory[b].computed
          /\ f.estimated = memory[b].original /\ f.original = memory[b].original
          /\ f.rigorous = memory[b].rigorous /\ f.rows = memory[b].rows
          /\ f.junctionInfo = memory[b].junctionInfo
          /\ f.junctionEstimates = memory[b].junctionEstimates
      BY <1>1 DEF Matrices
    <2> HIDE DEF f
    <2>3. SetUp(f, b, r)
      BY <1>0, <2>1, <2>2 DEF Settled, SetUp, FormedAt, HandedOn, Result
    <2> QED
      BY <1>3, <2>2, <2>3 DEF f
  <1> QED
    BY <1>2, <1>3

LEMMA ReverseJoined ==
  ASSUME stations \in Placements, NEW b \in Blocks, ~BlockLast(b), NEW r \in Nat,
         NEW m \in Matrices, SetUp(m, b, r)
  PROVE  LET a == AppendJunctions(m, Junctions(b), Backwards(b + 1),
                                  From(Backwards(b + 1), r + 1))
             n == [a EXCEPT !.normals = Add(@, Once(FirstReverse(b)))]
         IN  n \in Matrices /\ ReadyReverse(n, b, r)
  <1> DEFINE S == Junctions(b)
             info == Backwards(b + 1)
             a == AppendJunctions(m, S, info, From(info, r + 1))
             n == [a EXCEPT !.normals = Add(@, Once(FirstReverse(b)))]
  <1>1. info \in Information /\ From(info, r + 1) \in Coordinates
    BY Types
  <1>2. /\ a \in Matrices
        /\ a.normals = IF S = {} THEN m.normals ELSE Add(m.normals, info)
        /\ a.rows = IF S = {}
                    THEN m.rows
                    ELSE Append(m.rows, [info |-> info, estimates |-> From(info, r + 1),
                                         computed |-> m.estimated])
        /\ a.normalsR = m.normalsR /\ a.estimated = m.estimated
        /\ a.original = m.original /\ a.rigorous = m.rigorous
        /\ a.variances = m.variances /\ a.design = m.design /\ a.computed = m.computed
        /\ S = {} => a.correctionsR = m.correctionsR
        /\ a.correctionsR = m.correctionsR
        /\ a.junctionInfo = m.junctionInfo /\ a.junctionEstimates = m.junctionEstimates
    BY <1>1, Appending
  <1>3. a.rows = BackwardRows(b, r)
    BY <1>2 DEF SetUp, BackwardRows, Row
  <1> HIDE DEF a
  <1>4. /\ Add(a.normals, Once(FirstReverse(b))) = Plain(Backwards(b))
        /\ Plain(Backwards(b)) \in Variances
    <2>0. Once({b}) \in Information /\ Once(FirstReverse(b)) \in Information
          /\ Plus(Once({b}), info) \in Information
      BY <1>1, InformationType
    <2>1. CASE S = {}
      <3>1. a.normals = Plain(Once({b}))
        BY <1>2, <2>1 DEF SetUp
      <3>2. Plus(Once({b}), Once(FirstReverse(b))) = Backwards(b)
        BY <2>1, BackwardsFirst
      <3> QED
        BY <2>0, <3>1, <3>2, PlainAdd, Types
    <2>2. CASE S # {}
      <3>1. a.normals = Add(Plain(Once({b})), info)
        BY <1>2, <2>2 DEF SetUp
      <3>2. a.normals = Plain(Plus(Once({b}), info))
        BY <1>1, <2>0, <3>1, PlainAdd
      <3>3. Plus(Plus(Once({b}), info), Once(FirstReverse(b))) = Backwards(b)
        BY <2>2, BackwardsNext
      <3> QED
        BY <2>0, <3>2, <3>3, PlainAdd, Types
    <2> QED
      BY <2>1, <2>2, Types
  <1>5. /\ n \in Matrices
        /\ n.normals = Plain(Backwards(b)) /\ n.rows = a.rows
        /\ n.normalsR = a.normalsR /\ n.estimated = a.estimated
        /\ n.original = a.original /\ n.rigorous = a.rigorous
        /\ n.variances = a.variances /\ n.design = a.design /\ n.computed = a.computed
        /\ n.correctionsR = a.correctionsR
        /\ n.junctionInfo = a.junctionInfo /\ n.junctionEstimates = a.junctionEstimates
    BY <1>2, <1>4 DEF Matrices
  <1> HIDE DEF n
  <1>6. ReadyReverse(n, b, r)
    BY <1>2, <1>3, <1>5 DEF SetUp, ReadyReverse, FormedAt, HandedOn, Result
  <1> QED
    BY <1>5, <1>6 DEF n, a

LEMMA ReverseNext ==
  ASSUME stations \in Placements, Typed, NEW b \in Blocks, NEW r \in Nat, ~BlockFirst(b),
         Settled(Latest(b - 1), b - 1, r), ReverseDone(memory[b], b, r),
         IF Stage THEN b - 1 \notin Loaded ELSE b - 1 \in Loaded
  PROVE  CarriedReverse(b) \in Matrices /\ ReadyReverse(CarriedReverse(b), b - 1, r)
  <1>1. b - 1 \in Blocks /\ ~BlockLast(b - 1) /\ (b - 1) + 1 = b
    BY Neighbours, BlockFacts
  <1>2. memory[b].normals.info = Backwards(b) /\ memory[b].estimated = From(Backwards(b), r + 1)
    BY DEF ReverseDone, Inverted
  <1> DEFINE next == IF Stage
                     THEN DeserialiseBlock(b - 1)
                     ELSE [memory[b - 1] EXCEPT !.normals = memory[b - 1].normalsR]
             reset == [next EXCEPT !.estimated = next.original]
             formed == IF Stage
                       THEN [FillDesign(reset) EXCEPT !.normals = Measured(b - 1)]
                       ELSE reset
  <1>3. formed \in Matrices /\ SetUp(formed, b - 1, r)
    BY <1>1, LoadedReverse
  <1>4. CarriedReverse(b) =
          [AppendJunctions(formed, Junctions(b - 1), Backwards(b), From(Backwards(b), r + 1))
             EXCEPT !.normals = Add(@, Once(FirstReverse(b - 1)))]
    BY <1>2 DEF CarriedReverse
  <1> HIDE DEF formed
  <1> QED
    BY <1>1, <1>3, <1>4, ReverseJoined
LEMMA ReverseSolved ==
  ASSUME NEW b \in Blocks, NEW r \in Nat, iteration = r + 1,
         NEW m \in Matrices, ReadyReverse(m, b, r)
  PROVE  LET s == UpdateEstimates(Solve(BackupNormals(b, m)))
         IN  s \in Matrices /\ ReverseDone(s, b, r)
  <1> DEFINE k == BackupNormals(b, m)
             s == UpdateEstimates(Solve(k))
  <1>1. /\ k \in Matrices
        /\ CombineRequired(b) /\ mode = "phased" => k.normalsR = m.normals
        /\ k.normals = m.normals /\ k.original = m.original /\ k.rigorous = m.rigorous
        /\ k.variances = m.variances /\ k.design = m.design /\ k.computed = m.computed
        /\ k.rows = m.rows /\ k.correctionsR = m.correctionsR
    BY DEF BackupNormals, Matrices
  <1> HIDE DEF k
  <1>2. /\ s \in Matrices
        /\ s.normals = Inverted(k.normals.info)
        /\ s.corrections = k.normals.info
        /\ s.estimated = From(k.normals.info, iteration)
        /\ s.normalsR = k.normalsR /\ s.original = k.original /\ s.rigorous = k.rigorous
        /\ s.variances = k.variances /\ s.design = k.design /\ s.computed = k.computed
        /\ s.rows = k.rows /\ s.correctionsR = k.correctionsR
    BY <1>1, Solving
  <1> HIDE DEF s
  <1>3. k.normals.info = Backwards(b)
    BY <1>1 DEF ReadyReverse, Plain
  <1>4. ReverseDone(s, b, r)
    BY <1>1, <1>2, <1>3 DEF ReadyReverse, ReverseDone, FormedAt, Result
  <1> QED
    BY <1>2, <1>4 DEF s, k

(* Of a block that is not combined, the reverse run leaves what it has to.  *)
LEMMA NotCombined ==
  ASSUME stations \in Placements, NEW b \in Blocks, NEW r \in Nat, NEW m,
         ReverseDone(m, b, r), ~(CombineRequired(b) /\ mode = "phased")
  PROVE  ReadyFinal(m, b, r)
  <1>0. m.estimated.round = r + 1
    BY DEF ReverseDone, From
  <1>1. CASE BlockLast(b)
    BY <1>0, <1>1, WholeForwards DEF ReverseDone, ReadyFinal, BackwardRows
  <1>2. CASE ~BlockLast(b) /\ BlockFirst(b)
    BY <1>0, <1>2, WholeBackwards DEF ReverseDone, ReadyFinal
  <1>3. CASE ~BlockLast(b) /\ ~BlockFirst(b)
    <2>1. mode # "phased"
      BY <1>3 DEF CombineRequired, BlockIsolated
    <2> QED
      BY <1>0, <1>3, <2>1 DEF ReverseDone, ReadyFinal
  <1> QED
    BY <1>1, <1>2, <1>3

LEMMA RowsJoined ==
  ASSUME NEW b, NEW r, NEW x
  PROVE  /\ BackwardRows(b, r) \o <<>> = BackwardRows(b, r)
         /\ BackwardRows(b, r) \o <<x>> = Append(BackwardRows(b, r), x)
  <1>1. \A y : /\ <<y>> \o <<>> = <<y>> /\ <<>> \o <<>> = <<>>
              /\ <<y>> \o <<x>> = Append(<<y>>, x) /\ <<>> \o <<x>> = Append(<<>>, x)
    OBVIOUS
  <1> QED
    BY <1>1 DEF BackwardRows

(* The combination starts from the normals of the reverse run and takes     *)
(* over the junctions the forward run has kept with the block before.       *)
LEMMA CombinePrepared ==
  ASSUME stations \in Placements, mode = "phased", NEW b \in Blocks, NEW r \in Nat,
         CombineRequired(b), memory[b] \in Matrices, ReverseDone(memory[b], b, r),
         NEW p \in Matrices, HandedOn(p, b - 1, r)
  PROVE  PreparedCombine(b, p) \in Matrices /\ ReadyCombine(PreparedCombine(b, p), b, r)
  <1> DEFINE S == Junctions(b - 1)
             info == Forwards(b - 1)
             reset == [memory[b] EXCEPT !.estimated = memory[b].original,
                                        !.normals = memory[b].normalsR]
             a == AppendJunctions(reset, S, info, From(info, r + 1))
             repeated == Once(StationsOf(b) \ FirstForward(b))
             n == [a EXCEPT !.normals.info = Minus(@, repeated)]
  <1>1. b > 0 /\ b - 1 \in Blocks /\ ~BlockLast(b - 1) /\ ~BlockLast(b)
    BY Neighbours DEF CombineRequired
  <1>2. p.junctionInfo = info /\ p.junctionEstimates = From(info, r + 1)
    BY <1>1 DEF HandedOn
  <1>3. PreparedCombine(b, p) = n
    BY <1>2 DEF PreparedCombine
  <1>4. info \in Information /\ From(info, r + 1) \in Coordinates /\ repeated \in Information
        /\ Backwards(b) \in Information
    <2>1. info \in Information /\ Backwards(b) \in Information
      BY Types
    <2>2. repeated \in Information
      BY InformationType
    <2> QED
      BY <2>1, <2>2, Types
  <1>5. /\ reset \in Matrices
        /\ reset.normals = memory[b].normalsR /\ reset.estimated = memory[b].original
        /\ reset.original = memory[b].original /\ reset.rigorous = memory[b].rigorous
        /\ reset.design = memory[b].design /\ reset.computed = memory[b].computed
        /\ reset.rows = memory[b].rows
    BY DEF Matrices
  <1> HIDE DEF reset, repeated
  <1>6. /\ a \in Matrices
        /\ a.normals = IF S = {} THEN reset.normals ELSE Add(reset.normals, info)
        /\ a.rows = IF S = {}
                    THEN reset.rows
                    ELSE Append(reset.rows, [info |-> info, estimates |-> From(info, r + 1),
                                             computed |-> reset.estimated])
        /\ a.estimated = reset.estimated
        /\ a.original = reset.original /\ a.rigorous = reset.rigorous
        /\ a.design = reset.design /\ a.computed = reset.computed
    BY <1>4, <1>5, Appending
  <1> HIDE DEF a
  <1>7. reset.normals = Plain(Backwards(b)) /\ reset.estimated = Known(b, r)
    BY <1>5 DEF ReverseDone, FormedAt
  <1>8. /\ [a.normals EXCEPT !.info = Minus(@, repeated)] = Plain(Whole(b))
        /\ Plain(Whole(b)) \in Variances
    <2>0. \A i \in Information : Plain(i) \in Variances /\ Plain(i).info = i
                                 /\ Plain(i).inverted = FALSE
      BY Types DEF Plain
    <2>1. ASSUME NEW i \in Information, a.normals = Plain(i)
          PROVE  [a.normals EXCEPT !.info = Minus(@, repeated)] = Plain(Minus(i, repeated))
      <3>1. [a.normals EXCEPT !.info = Minus(@, repeated)]
               = [a.normals EXCEPT !.info = Minus(i, repeated)]
        BY <2>0, <2>1
      <3>2. [a.normals EXCEPT !.info = Minus(i, repeated)]
               = [info |-> Minus(i, repeated), inverted |-> a.normals.inverted]
        BY <2>0, <2>1, VariancesTold
      <3> QED
        BY <2>0, <2>1, <3>1, <3>2 DEF Plain
    <2>2. CASE S = {}
      <3>1. Minus(Backwards(b), repeated) = Whole(b)
        BY <1>1, <2>2, WholeCombined DEF repeated
      <3> QED
        BY <1>4, <1>6, <1>7, <2>1, <2>2, <3>1, Types
    <2>3. CASE S # {}
      <3>1. Minus(Plus(Backwards(b), info), repeated) = Whole(b)
        BY <1>1, <2>3, WholeCombined DEF repeated
      <3>2. a.normals = Plain(Plus(Backwards(b), info)) /\ Plus(Backwards(b), info) \in Information
        BY <1>4, <1>6, <1>7, <2>3, PlainAdd, InformationType
      <3> QED
        BY <2>1, <3>1, <3>2, Types
    <2> QED
      BY <2>2, <2>3
  <1>9. a.rows = BackwardRows(b, r) \o ForwardRows(b, r)
    <2>1. reset.rows = BackwardRows(b, r)
      BY <1>5 DEF ReverseDone
    <2>2. CASE S = {}
      <3>1. a.rows = BackwardRows(b, r) /\ ForwardRows(b, r) = <<>>
        BY <1>6, <2>1, <2>2 DEF ForwardRows
      <3> QED
        BY <3>1, RowsJoined
    <2>3. CASE S # {}
      <3>1. ForwardRows(b, r) = <<Row(info, b, r)>>
        BY <1>1, <2>3 DEF ForwardRows
      <3>2. a.rows = Append(BackwardRows(b, r), Row(info, b, r))
        BY <1>6, <1>7, <2>1, <2>3 DEF Row
      <3> QED
        BY <3>1, <3>2, RowsJoined
    <2> QED
      BY <2>2, <2>3
  <1>10. /\ n \in Matrices
         /\ n.normals = Plain(Whole(b)) /\ n.rows = a.rows
         /\ n.estimated = a.estimated /\ n.original = a.original /\ n.rigorous = a.rigorous
         /\ n.design = a.design /\ n.computed = a.computed
    BY <1>6, <1>8 DEF Matrices
  <1> HIDE DEF n
  <1>11. ReadyCombine(n, b, r)
    BY <1>1, <1>5, <1>6, <1>7, <1>9, <1>10 DEF ReverseDone, ReadyCombine, FormedAt, Result
  <1> QED
    BY <1>3, <1>10, <1>11

LEMMA CombineSolved ==
  ASSUME mode = "phased", NEW b \in Blocks, NEW r \in Nat, iteration = r + 1,
         CombineRequired(b), NEW m \in Matrices, ReadyCombine(m, b, r)
  PROVE  LET s == [UpdateEstimates(Solve(m)) EXCEPT !.rows = <<>>]
         IN  s \in Matrices /\ ReadyFinal(s, b, r)
  <1> DEFINE u == UpdateEstimates(Solve(m))
             s == [u EXCEPT !.rows = <<>>]
  <1>1. /\ u \in Matrices
        /\ u.normals = Inverted(m.normals.info)
        /\ u.corrections = m.normals.info
        /\ u.estimated = From(m.normals.info, iteration)
        /\ u.original = m.original /\ u.rigorous = m.rigorous
        /\ u.design = m.design /\ u.computed = m.computed
    BY Solving
  <1>2. m.normals.info = Whole(b)
    BY DEF ReadyCombine, Plain
  <1> HIDE DEF u
  <1>3. /\ s \in Matrices /\ s.rows = <<>>
        /\ s.normals = u.normals /\ s.corrections = u.corrections
        /\ s.estimated = u.estimated /\ s.original = u.original /\ s.rigorous = u.rigorous
        /\ s.design = u.design /\ s.computed = u.computed
    BY <1>1, Types DEF Matrices
  <1> HIDE DEF s
  <1>4. s.estimated.round = r + 1
    BY <1>1, <1>3 DEF From
  <1>5. ReadyFinal(s, b, r)
    BY <1>1, <1>2, <1>3, <1>4
       DEF ReadyCombine, ReadyFinal, FormedAt, Result, CombineRequired
  <1> QED
    BY <1>3, <1>5 DEF s, u

LEMMA FinishedBlock ==
  ASSUME Modal, stations \in Placements, NEW b \in Blocks, NEW r \in Nat, NEW m \in Matrices,
         ReadyFinal(m, b, r)
  PROVE  LET f == UpdateEstimatesFinal(b, m)
         IN  f \in Matrices /\ Finished(f, b, r)
  <1> DEFINE s == ShrinkBy(m, Junctions(b))
             k == IF BlockFirst(b) THEN s ELSE m
             f == UpdateEstimatesFinal(b, m)
  <1>1. Known(b, r).round = r /\ From(Whole(b), r + 1).round = r + 1
    BY DEF Known, Apriori, From
  <1>2. CASE BlockLast(b)
    <2>1. b \notin Promised \/ mode = "phased"
      BY <1>2 DEF Promised, BlockIsolated
    <2>2. CASE mode = "phased"
      <3>1. /\ f \in Matrices
            /\ f.corrections = m.correctionsR /\ f.rigorous = m.rigorous
            /\ f.variances = m.variances /\ f.rows = m.rows
            /\ f.computed = m.computed /\ f.design = m.design
            /\ f.estimated = m.estimated /\ f.normals = m.normals
        BY <1>2, <2>2 DEF UpdateEstimatesFinal, Matrices
      <3> HIDE DEF f
      <3>2. /\ f.rigorous = From(Whole(b), r + 1) /\ f.variances = Inverted(Whole(b))
            /\ f.corrections = Whole(b) /\ f.rows = <<>>
            /\ f.computed = Known(b, r) /\ f.design = Known(b, r)
            /\ f.estimated = From(Backwards(b), r + 1) /\ f.normals = Inverted(Backwards(b))
        BY <1>2, <2>2, <3>1 DEF ReadyFinal, Result, FormedAt
      <3>3. Finished(f, b, r)
        BY <1>1, <1>2, <3>2 DEF Finished
      <3> QED
        BY <3>1, <3>3 DEF f
    <2>3. CASE mode = "block1"
      BY <1>1, <1>2, <2>1, <2>3 DEF UpdateEstimatesFinal, ReadyFinal, Finished, Result
    <2> QED
      BY <2>2, <2>3 DEF Modal
  <1>3. CASE ~BlockLast(b)
    <2>1. /\ s \in Matrices
          /\ s.rows = IF Junctions(b) = {} THEN m.rows ELSE Front(m.rows)
          /\ s.normals = m.normals /\ s.estimated = m.estimated
          /\ s.corrections = m.corrections /\ s.computed = m.computed /\ s.design = m.design
      BY Shrinking
    <2> HIDE DEF s
    <2>2. /\ k \in Matrices
          /\ k.rows = IF BlockFirst(b) THEN s.rows ELSE m.rows
          /\ k.normals = m.normals /\ k.estimated = m.estimated
          /\ k.corrections = m.corrections /\ k.computed = m.computed /\ k.design = m.design
      BY <2>1
    <2>a. f = [k EXCEPT !.rigorous = m.estimated, !.variances = m.normals,
                        !.original = m.estimated]
      BY <1>3 DEF UpdateEstimatesFinal, s
    <2> HIDE DEF k
    <2>3. /\ f \in Matrices
          /\ f.rigorous = m.estimated /\ f.variances = m.normals /\ f.original = m.estimated
          /\ f.estimated = m.estimated /\ f.normals = m.normals /\ f.rows = k.rows
          /\ f.corrections = m.corrections /\ f.computed = m.computed /\ f.design = m.design
      BY <2>2, <2>a DEF Matrices
    <2> HIDE DEF f
    <2>4. CASE mode = "phased" \/ BlockFirst(b)
      <3>1. f.rows = <<>>
        <4>1. CASE BlockFirst(b)
          BY <1>3, <2>1, <2>2, <2>3, <2>4, <4>1, FrontOfOne DEF ReadyFinal, BackwardRows
        <4>2. CASE ~BlockFirst(b)
          BY <1>3, <2>2, <2>3, <2>4, <4>2 DEF ReadyFinal
        <4> QED
          BY <4>1, <4>2
      <3>2. /\ f.rigorous = From(Whole(b), r + 1) /\ f.variances = Inverted(Whole(b))
            /\ f.corrections = Whole(b)
            /\ f.computed = Known(b, r) /\ f.design = Known(b, r)
        BY <1>3, <2>3, <2>4 DEF ReadyFinal, FormedAt
      <3>3. Finished(f, b, r)
        BY <1>1, <1>3, <2>3, <3>1, <3>2 DEF Finished
      <3> QED
        BY <2>3, <3>3 DEF f
    <2>5. CASE mode = "block1" /\ ~BlockFirst(b)
      <3>1. Finished(f, b, r)
        BY <2>3, <2>5 DEF ReadyFinal, Finished, Promised
      <3> QED
        BY <2>3, <3>1 DEF f
    <2> QED
      BY <2>4, <2>5 DEF Modal, f
  <1> QED
    BY <1>2, <1>3

(* An isolated block is rigorous after the forward run; block 1 only does   *)
(* not adjust it.                                                           *)
LEMMA IsolatedFinished ==
  ASSUME Modal, stations \in Placements, NEW b \in Blocks, NEW r \in Nat, NEW m,
         BlockIsolated(b), Waiting(m, b, r)
  PROVE  Finished(m, b, r)
  <1>1. Known(b, r).round = r /\ From(Whole(b), r + 1).round = r + 1
    BY DEF Known, Apriori, From
  <1>2. BlockLast(b)
    BY DEF BlockIsolated
  <1>3. CASE mode = "phased"
    <2>1. Forwards(b) = Whole(b) /\ Backwards(b) = Whole(b)
      BY <1>2, WholeForwards, WholeBackwards DEF BlockIsolated
    <2> QED
      BY <1>1, <1>2, <1>3, <2>1 DEF Waiting, ForwardDone, Finished, Result, FormedAt
  <1>4. CASE mode = "block1"
    BY <1>1, <1>4 DEF Waiting, Fresh, Finished, Promised
  <1> QED
    BY <1>3, <1>4 DEF Modal-----------------------------------------------------------------------------
(* A block between two iterations, and before the statistics.               *)

LEMMA RestoredBlock ==
  ASSUME mode = "phased", NEW b \in Blocks, NEW r \in Nat, NEW m \in Matrices,
         Finished(m, b, r)
  PROVE  LET s == RestoreLast(b, m)
         IN  /\ s \in Matrices
             /\ s.rigorous = From(Whole(b), r + 1)
             /\ s.estimated = s.rigorous /\ s.original = s.rigorous
             /\ s.variances = Inverted(Whole(b)) /\ s.normals = s.variances
             /\ s.rows = <<>> /\ s.computed = m.computed /\ s.computed.round = r
  <1> DEFINE s == RestoreLast(b, m)
  <1>1. /\ s \in Matrices
        /\ s.rigorous = m.rigorous /\ s.variances = m.variances
        /\ s.rows = m.rows /\ s.computed = m.computed
        /\ BlockLast(b) => /\ s.estimated = m.rigorous /\ s.original = m.rigorous
                           /\ s.normals = m.variances
        /\ ~BlockLast(b) => /\ s.estimated = m.estimated /\ s.original = m.original
                            /\ s.normals = m.normals
    BY DEF RestoreLast, Matrices
  <1> HIDE DEF s
  <1>2. b \in Promised
    BY DEF Promised
  <1> QED
    BY <1>1, <1>2 DEF Finished, s

LEMMA KnownNext ==
  ASSUME NEW b, NEW r \in Nat
  PROVE  Known(b, r + 1) = From(Whole(b), r + 1)
  BY DEF Known

LEMMA FreshAgain ==
  ASSUME mode = "phased", NEW b \in Blocks, NEW r \in Nat, NEW m \in Matrices,
         Finished(m, b, r)
  PROVE  /\ RestoreLast(b, m) \in Matrices
         /\ Stage => Fresh(RestoreLast(b, m), b, r + 1)
         /\ FormForward(b, RestoreLast(b, m)) \in Matrices
         /\ Fresh(FormForward(b, RestoreLast(b, m)), b, r + 1)
  <1> DEFINE s == RestoreLast(b, m)
             f == FormForward(b, s)
  <1>1. /\ s \in Matrices
        /\ s.rigorous = Known(b, r + 1)
        /\ s.estimated = Known(b, r + 1) /\ s.original = Known(b, r + 1)
        /\ s.rows = <<>>
    BY RestoredBlock, KnownNext
  <1> HIDE DEF s
  <1>2. Stage => Fresh(s, b, r + 1)
    BY <1>1 DEF Fresh
  <1>3. /\ f \in Matrices
        /\ f.normals = Plain(Plus(Once({b}), Once(FirstForward(b))))
        /\ f.normalsR = Measured(b)
        /\ f.design = s.estimated /\ f.computed = s.estimated
        /\ f.estimated = s.estimated /\ f.original = s.original
        /\ f.rigorous = s.rigorous /\ f.rows = s.rows
    BY <1>1, Forming
  <1> HIDE DEF f
  <1>4. Fresh(f, b, r + 1)
    BY <1>1, <1>3 DEF Fresh, FormedAt
  <1> QED
    BY <1>1, <1>2, <1>3, <1>4 DEF f, s

LEMMA FinalBlock ==
  ASSUME mode = "phased", NEW b \in Blocks, NEW r \in Nat, NEW m \in Matrices,
         Finished(m, b, r)
  PROVE  /\ RestoreLast(b, m) \in Matrices
         /\ RestoreLast(b, m).rigorous = From(Whole(b), r + 1)
         /\ Stage => Final(RestoreLast(b, m), b, r)
         /\ FillDesign(RestoreLast(b, m)) \in Matrices
         /\ FillDesign(RestoreLast(b, m)).rigorous = From(Whole(b), r + 1)
         /\ ~Stage => Final(FillDesign(RestoreLast(b, m)), b, r)
  <1> DEFINE s == RestoreLast(b, m)
             f == FillDesign(s)
  <1>1. /\ s \in Matrices
        /\ s.rigorous = From(Whole(b), r + 1)
        /\ s.estimated = s.rigorous /\ s.original = s.rigorous
        /\ s.variances = Inverted(Whole(b)) /\ s.normals = s.variances
        /\ s.computed.round = r
    BY RestoredBlock
  <1> HIDE DEF s
  <1>2. Stage => Final(s, b, r)
    BY <1>1 DEF Final
  <1>3. /\ f \in Matrices
        /\ f.rigorous = s.rigorous /\ f.estimated = s.estimated
        /\ f.variances = s.variances /\ f.normals = s.normals
        /\ f.design = s.estimated /\ f.computed = s.estimated
    BY <1>1 DEF FillDesign, Matrices
  <1> HIDE DEF f
  <1>4. ~Stage => Final(f, b, r)
    BY <1>1, <1>3 DEF Final
  <1> QED
    BY <1>1, <1>2, <1>3, <1>4 DEF f, s

(* What a block has that the last update does not reach.                    *)
LEMMA UnreachedBlock ==
  ASSUME mode = "phased", stations \in Placements, NEW b \in Blocks, NEW r \in Nat, NEW m,
         Finished(m, b, r)
  PROVE  /\ m.variances = Inverted(Whole(b))
         /\ m.normals = Inverted(SolvedLast(b))
         /\ m.estimated = From(SolvedLast(b), r + 1)
         /\ m.design.round = r /\ m.computed.round = r
  <1>1. b \in Promised
    BY DEF Promised
  <1>2. CASE BlockLast(b)
    <2>1. SolvedLast(b) = Backwards(b)
      BY <1>2, WholeForwards, BackwardsFirst DEF SolvedLast
    <2> QED
      BY <1>2, <2>1 DEF Finished
  <1>3. CASE ~BlockLast(b)
    BY <1>1, <1>3 DEF Finished, SolvedLast
  <1> QED
    BY <1>2, <1>3

LEMMA StartingBlock ==
  ASSUME NEW b \in Blocks
  PROVE  PrepareAdjustmentBlock(b) \in Matrices /\ Fresh(PrepareAdjustmentBlock(b), b, 0)
  <1> DEFINE m == PopulateEstimatedStationMatrix
             f == FormForward(b, m)
  <1>1. /\ m \in Matrices
        /\ m.estimated = Apriori /\ m.original = Apriori /\ m.rigorous = Apriori
        /\ m.rows = <<>>
    <2>1. Unloaded.rows = <<>>
      BY DEF Unloaded
    <2> QED
      BY <2>1, UnloadedType, Types DEF PopulateEstimatedStationMatrix, Matrices
  <1>2. Known(b, 0) = Apriori
    BY DEF Known
  <1> HIDE DEF m
  <1>3. /\ f \in Matrices
        /\ f.normals = Plain(Plus(Once({b}), Once(FirstForward(b))))
        /\ f.normalsR = Measured(b)
        /\ f.design = m.estimated /\ f.computed = m.estimated
        /\ f.estimated = m.estimated /\ f.original = m.original
        /\ f.rigorous = m.rigorous /\ f.rows = m.rows
    BY <1>1, Forming
  <1> HIDE DEF f
  <1>4. CASE Stage
    BY <1>1, <1>2, <1>4 DEF PrepareAdjustmentBlock, Fresh, m
  <1>5. CASE ~Stage
    <2>1. Fresh(f, b, 0)
      BY <1>1, <1>2, <1>3 DEF Fresh, FormedAt
    <2> QED
      BY <1>3, <1>5, <2>1 DEF PrepareAdjustmentBlock, f, m
  <1> QED
    BY <1>4, <1>5
-----------------------------------------------------------------------------
(* The steps.                                                               *)

LEMMA Basics ==
  ASSUME PhasedInv
  PROVE  /\ stations \in Placements /\ mode \in {"phased", "block1"}
         /\ Modal /\ Typed /\ block \in Blocks /\ iteration \in Nat
         /\ \A b \in Blocks : memory[b] \in Matrices /\ disk[b] \in Matrices
         /\ \A b \in Blocks : Latest(b) \in Matrices
         /\ Stage => NetOf[block] = NetOf[0] /\ mode = "phased"
  <1>1. mode \in {"phased", "block1"} /\ (Stage => mode = "phased")
    BY ModesAssumption DEF PhasedInv, TypeOK
  <1>2. \A b \in Blocks : memory[b] \in Matrices /\ disk[b] \in Matrices
    BY DEF PhasedInv, TypeOK
  <1>3. \A b \in Blocks : Latest(b) \in Matrices
    BY <1>2 DEF Latest
  <1>4. stations \in Placements /\ block \in Blocks /\ iteration \in Nat /\ Typed
    <2>1. stations \in Placements /\ block \in Blocks /\ iteration \in 0 .. MaxIterations
          /\ memory \in [Blocks -> Matrices] /\ disk \in [Blocks -> Matrices]
      BY DEF PhasedInv, TypeOK
    <2> QED
      BY <2>1, MaxIterationsAssumption DEF Typed
  <1>5. Modal
    BY <1>1 DEF Modal
  <1>6. Stage => NetOf[block] = NetOf[0] /\ mode = "phased"
    BY <1>1, <1>4, StageAssumption
  <1> QED
    BY <1>1, <1>2, <1>3, <1>4, <1>5, <1>6

(* All blocks of a staged adjustment are of one network.                    *)
LEMMA StagedNet ==
  ASSUME Stage, NEW b \in Blocks
  PROVE  /\ BlockFirst(b) <=> b = 0
         /\ BlockLast(b) <=> b = BlockCount - 1
  BY BlockFacts, StageAssumption DEF BlockFirst, BlockLast

LEMMA OnlyForward ==
  ASSUME pc' \in {"forward", "carry forward"}
  PROVE  Starting' /\ ReverseRun' /\ Ending' /\ Updating' /\ Validating' /\ Publishing' /\ Computed'
  BY DEF Starting, ReverseRun, ReversePcs, Ending, Updating, Validating, Publishing,
         AfterAdjustment, Computed

LEMMA OnlyReverse ==
  ASSUME pc' \in ReversePcs
  PROVE  Starting' /\ ForwardRun' /\ Ending' /\ Updating' /\ Validating' /\ Publishing' /\ Computed'
  BY DEF Starting, ForwardRun, ReversePcs, Ending, Updating, Validating, Publishing,
         AfterAdjustment, Computed

LEMMA StartIterationStep ==
  ASSUME PhasedInv, StartIteration
  PROVE  PhasedInv'
  <1>0. /\ pc = "start" /\ pc' = "forward" /\ ~cancelled /\ iteration < MaxIterations
        /\ block' = 0 /\ iteration' = iteration + 1 /\ judged' = {} /\ converged' = TRUE
        /\ stations' = stations /\ mode' = mode /\ disk' = disk
        /\ cancelled' = cancelled /\ status' = status /\ statistics' = statistics
    BY DEF StartIteration
  <1>1. /\ stations \in Placements /\ Typed /\ iteration \in Nat /\ 0 \in Blocks
        /\ \A b \in Blocks : memory[b] \in Matrices /\ disk[b] \in Matrices
        /\ mode = "phased"
    BY <1>0, Basics, BlockFacts DEF PhasedInv, Position, ReversePcs
  <1>2. \A b \in Blocks : Fresh(Latest(b), b, iteration)
    BY <1>0 DEF PhasedInv, Starting
  <1>3. IF Stage THEN Loaded = {} ELSE Loaded = Blocks
    BY <1>0 DEF PhasedInv, Loading
  <1> DEFINE next == IF Stage THEN FormForward(0, DeserialiseBlock(0)) ELSE memory[0]
  <1>4. next \in Matrices /\ Prepared(next, 0, iteration)
    BY <1>1, <1>2, <1>3, LoadedForward
  <1>5. ReadyForward(next, 0, iteration)
    BY <1>1, <1>4, ForwardFirst
  <1>6. memory' = [memory EXCEPT ![0] = next]
    BY <1>1 DEF StartIteration, Typed
  <1>7. next # Unloaded
    BY <1>1, <1>5, Real
  <1> HIDE DEF next
  <1>8. /\ memory' \in [Blocks -> Matrices] /\ memory'[0] = next
        /\ \A b \in Blocks : b # 0 => memory'[b] = memory[b]
    BY <1>1, <1>4, <1>6 DEF Typed
  <1>9. /\ Latest(0)' = next
        /\ \A b \in Blocks : b # 0 => Latest(b)' = Latest(b)
        /\ Loaded' = IF Stage THEN {0} ELSE Blocks
    <2>1. Latest(0)' = next
      BY <1>0, <1>1, <1>7, <1>8, LatestIs
    <2>2. \A b \in Blocks : b # 0 => Latest(b)' = Latest(b)
      BY <1>0, <1>8, LatestIs
    <2>3. \A b \in Blocks : b \in Loaded' <=> memory'[b] # Unloaded
      BY LatestIs
    <2>4. Loaded' \subseteq Blocks
      BY DEF Loaded
    <2>5. \A b \in Blocks : b \in Loaded <=> memory[b] # Unloaded
      BY LatestIs
    <2> QED
      BY <1>1, <1>3, <1>7, <1>8, <2>1, <2>2, <2>3, <2>4, <2>5
  <1>10. TypeOK'
    BY <1>0, <1>1, <1>8, MaxIterationsAssumption DEF PhasedInv, TypeOK
  <1>11. Position' /\ Reported'
    BY <1>0, <1>1 DEF PhasedInv, Position, Reported, AfterAdjustment
  <1>12. Loading'
    BY <1>0, <1>1, <1>9 DEF Loading
  <1>13. Judging'
    <2>1. \A b \in Blocks : ~(b < 0)
      BY BlockFacts
    <2> QED
      BY <1>0, <2>1 DEF Judging, Judged, ReversePcs
  <1>14. ForwardRun'
    <2>1. ASSUME NEW b \in Blocks
          PROVE  b > 0 => Fresh(Latest(b), b, iteration - 1)'
      BY <1>0, <1>1, <1>2, <1>9, Rigid
    <2>2. ReadyForward(Latest(block), block, iteration - 1)'
      BY <1>0, <1>1, <1>5, <1>9, Rigid
    <2> QED
      BY <1>0, <2>1, <2>2, BlockFacts DEF ForwardRun
  <1> QED
    BY <1>0, <1>10, <1>11, <1>12, <1>13, <1>14, OnlyForward DEF PhasedInv
LEMMA NoneChanged ==
  ASSUME memory' = memory, disk' = disk
  PROVE  Loaded' = Loaded /\ \A c \in Blocks : Latest(c)' = Latest(c)
  <1>1. \A c \in Blocks : Latest(c)' = Latest(c)
    BY LatestIs
  <1>2. Unloaded' = Unloaded
    BY DEF Unloaded, Zero, NotFormed, Nothing
  <1> QED
    BY <1>1, <1>2 DEF Loaded

LEMMA OneChanged ==
  ASSUME Typed, NEW b \in Blocks, NEW x \in Matrices, x # Unloaded,
         memory' = [memory EXCEPT ![b] = x], disk' = disk
  PROVE  /\ memory' \in [Blocks -> Matrices] /\ disk' \in [Blocks -> Matrices]
         /\ Latest(b)' = x
         /\ \A c \in Blocks : c # b => Latest(c)' = Latest(c)
         /\ Loaded' = Loaded \cup {b}
  <1>1. /\ memory' \in [Blocks -> Matrices] /\ memory'[b] = x
        /\ \A c \in Blocks : c # b => memory'[c] = memory[c]
    BY DEF Typed
  <1>2. Latest(b)' = x
    BY <1>1, LatestIs
  <1>3. \A c \in Blocks : c # b => Latest(c)' = Latest(c)
    BY <1>1, LatestIs
  <1>4. \A c \in Blocks : c \in Loaded' <=> c \in Loaded \/ c = b
    BY <1>1, LatestIs
  <1>5. Loaded \subseteq Blocks /\ Loaded' \subseteq Blocks
    BY DEF Loaded
  <1>6. Loaded' = Loaded \cup {b}
    BY <1>4, <1>5
  <1> QED
    BY <1>1, <1>2, <1>3, <1>6 DEF Typed

LEMMA AdjustForwardStep ==
  ASSUME PhasedInv, AdjustForward
  PROVE  PhasedInv'
  <1>0. /\ pc = "forward" /\ pc' = "carry forward" /\ ~cancelled
        /\ block' = block /\ iteration' = iteration
        /\ stations' = stations /\ mode' = mode /\ disk' = disk /\ converged' = converged
        /\ cancelled' = cancelled /\ status' = status /\ statistics' = statistics
    BY DEF AdjustForward
  <1>1. /\ stations \in Placements /\ Typed /\ iteration \in Nat /\ block \in Blocks
        /\ \A b \in Blocks : memory[b] \in Matrices /\ disk[b] \in Matrices
        /\ mode = "phased" /\ iteration >= 1
    BY <1>0, Basics DEF PhasedInv, Position, ReversePcs
  <1>2. /\ \A b \in Blocks : b < block => Waiting(Latest(b), b, iteration - 1)
        /\ \A b \in Blocks : b > block => Fresh(Latest(b), b, iteration - 1)
        /\ ReadyForward(Latest(block), block, iteration - 1)
    BY <1>0 DEF PhasedInv, ForwardRun
  <1>3. block \in Loaded /\ (Stage => Loaded = {block}) /\ (~Stage => Loaded = Blocks)
    BY <1>0, <1>1 DEF PhasedInv, Loading
  <1>4. Latest(block) = memory[block] /\ iteration - 1 \in Nat /\ iteration = (iteration - 1) + 1
    BY <1>1, <1>3, LatestIs
  <1> DEFINE s == ShrinkForwardMatrices(block, UpdateEstimatesForward(block, Solve(memory[block])))
  <1>5. s \in Matrices /\ ForwardDone(s, block, iteration - 1)
    BY <1>1, <1>2, <1>4, ForwardSolved
  <1>6. memory' = [memory EXCEPT ![block] = s]
    BY DEF AdjustForward
  <1> HIDE DEF s
  <1>7. s # Unloaded
    BY <1>4, <1>5, Real
  <1>8. /\ memory' \in [Blocks -> Matrices]
        /\ Latest(block)' = s
        /\ \A b \in Blocks : b # block => Latest(b)' = Latest(b)
        /\ Loaded' = Loaded \cup {block}
    BY <1>0, <1>1, <1>5, <1>6, <1>7, OneChanged
  <1>9. judged' = IF BlockLast(block) THEN judged \cup {<<block, Whole(block)>>} ELSE judged
    <2>1. memory[block].normals.info = Forwards(block)
      BY <1>2, <1>4 DEF ReadyForward, Plain
    <2> QED
      BY <1>1, <2>1, WholeForwards DEF AdjustForward
  <1>10. Whole(block) \in Information
    BY Types
  <1>11. TypeOK'
    <2>0. judged \subseteq Blocks \X Information
      BY DEF PhasedInv, TypeOK
    <2>1. judged' \subseteq Blocks \X Information
      BY <1>1, <1>9, <1>10, <2>0
    <2> QED
      BY <1>0, <1>1, <1>8, <2>1 DEF PhasedInv, TypeOK
  <1>12. Position' /\ Reported'
    BY <1>0, <1>1 DEF PhasedInv, Position, Reported, AfterAdjustment
  <1>13. Loading'
    BY <1>0, <1>1, <1>3, <1>8 DEF Loading
  <1>14. Judging'
    <2>1. judged = Judged({b \in Blocks : BlockLast(b) /\ b < block})
      BY <1>0 DEF PhasedInv, Judging
    <2> DEFINE S == {b \in Blocks : /\ BlockLast(b)
                                    /\ \/ b < block'
                                       \/ b = block' /\ pc' = "carry forward"}
    <2>2. S = {b \in Blocks : BlockLast(b) /\ b < block} \cup {b \in {block} : BlockLast(b)}
      BY <1>0, <1>1
    <2>3. judged' = Judged(S)
      BY <1>1, <1>9, <2>1, <2>2 DEF Judged
    <2>4. \A T : Judged(T)' = Judged(T)
      BY <1>0, RigidInformation DEF Judged
    <2> QED
      BY <1>0, <2>3, <2>4 DEF Judging, ReversePcs
  <1>15. ForwardRun'
    <2>0. \A b \in Blocks : b < block \/ b > block => b # block
      BY <1>1, BlockFacts
    <2>1. ASSUME NEW b \in Blocks
          PROVE  /\ b < block => Waiting(Latest(b), b, iteration - 1)'
                 /\ b > block => Fresh(Latest(b), b, iteration - 1)'
      <3>1. b # block => Latest(b)' = Latest(b)
        BY <1>8
      <3> QED
        BY <1>0, <1>2, <2>0, <3>1, Rigid
    <2>2. ForwardDone(Latest(block), block, iteration - 1)'
      BY <1>0, <1>5, <1>8, Rigid
    <2> QED
      BY <1>0, <2>1, <2>2 DEF ForwardRun
  <1> QED
    BY <1>0, <1>11, <1>12, <1>13, <1>14, <1>15, OnlyForward DEF PhasedInv
LEMMA TwoChanged ==
  ASSUME Typed, NEW b \in Blocks, NEW c \in Blocks, b # c,
         NEW mem \in [Blocks -> Matrices], mem[b] # Unloaded, mem[c] # Unloaded,
         \A d \in Blocks : d # b /\ d # c => mem[d] = memory[d],
         \/ memory' = mem /\ disk' = disk
         \/ /\ memory' = [mem EXCEPT ![b] = Unloaded]
            /\ disk' = [disk EXCEPT ![b] = mem[b]]
  PROVE  /\ memory' \in [Blocks -> Matrices] /\ disk' \in [Blocks -> Matrices]
         /\ Latest(b)' = mem[b] /\ Latest(c)' = mem[c]
         /\ \A d \in Blocks : d # b /\ d # c => Latest(d)' = Latest(d)
         /\ Loaded' = IF memory' = mem THEN Loaded \cup {b, c} ELSE (Loaded \cup {c}) \ {b}
  <1>0. Loaded \subseteq Blocks /\ Loaded' \subseteq Blocks
    BY DEF Loaded
  <1>2. CASE memory' = mem /\ disk' = disk
    <2>1. Latest(b)' = mem[b] /\ Latest(c)' = mem[c]
      BY <1>2, LatestIs
    <2>2. \A d \in Blocks : d # b /\ d # c => Latest(d)' = Latest(d)
      BY <1>2, LatestIs
    <2>3. \A d \in Blocks : d \in Loaded' <=> d \in Loaded \cup {b, c}
      BY <1>2, LatestIs
    <2>4. Loaded' = Loaded \cup {b, c}
      BY <1>0, <2>3
    <2> QED
      BY <1>2, <2>1, <2>2, <2>4 DEF Typed
  <1>3. CASE /\ memory' = [mem EXCEPT ![b] = Unloaded]
             /\ disk' = [disk EXCEPT ![b] = mem[b]]
    <2>0. /\ memory' \in [Blocks -> Matrices] /\ memory'[b] = Unloaded /\ memory' # mem
          /\ disk' \in [Blocks -> Matrices] /\ disk'[b] = mem[b]
          /\ memory'[c] = mem[c]
          /\ \A d \in Blocks : d # b /\ d # c => memory'[d] = memory[d] /\ disk'[d] = disk[d]
      BY <1>3, UnloadedType DEF Typed
    <2>1. Latest(b)' = mem[b] /\ Latest(c)' = mem[c]
      BY <2>0, LatestIs
    <2>2. \A d \in Blocks : d # b /\ d # c => Latest(d)' = Latest(d)
      BY <2>0, LatestIs
    <2>3. \A d \in Blocks : d \in Loaded' <=> d \in (Loaded \cup {c}) \ {b}
      BY <2>0, LatestIs
    <2>4. Loaded' = (Loaded \cup {c}) \ {b}
      BY <1>0, <2>3
    <2> QED
      BY <2>0, <2>1, <2>2, <2>4
  <1> QED
    BY <1>2, <1>3

(* What block b and the one after it hold once the junctions are carried.   *)
LEMMA CarriedForward ==
  ASSUME stations \in Placements, mode = "phased", Typed, NEW b \in Blocks, NEW r \in Nat,
         CarriesForward(b), b \in Loaded, ForwardDone(Latest(b), b, r),
         Fresh(Latest(b + 1), b + 1, r),
         IF Stage THEN b + 1 \notin Loaded ELSE b + 1 \in Loaded
  PROVE  \E x, y \in Matrices :
            /\ Carried(b) = [memory EXCEPT ![b] = x, ![b + 1] = y]
            /\ Waiting(x, b, r) /\ ReadyForward(y, b + 1, r)
  <1>1. b + 1 \in Blocks /\ b + 1 > 0 /\ (b + 1) - 1 = b
    BY Neighbours, BlockFacts
  <1>2. memory[b] \in Matrices /\ ForwardDone(memory[b], b, r)
    BY LatestIs DEF Typed
  <1> DEFINE x == [memory[b] EXCEPT !.junctionInfo = memory[b].normals.info,
                                    !.junctionEstimates = memory[b].estimated]
             next == IF Stage THEN FormForward(b + 1, DeserialiseBlock(b + 1)) ELSE memory[b + 1]
             y == AppendJunctions(next, Junctions(b), Forwards(b), From(Forwards(b), r + 1))
  <1>3. /\ x \in Matrices /\ Waiting(x, b, r)
        /\ x.junctionInfo = Forwards(b) /\ x.junctionEstimates = From(Forwards(b), r + 1)
    BY <1>2, ForwardHanded
  <1>4. next \in Matrices /\ Prepared(next, b + 1, r)
    BY <1>1, LoadedForward
  <1>5. y \in Matrices /\ ReadyForward(y, b + 1, r)
    <2> HIDE DEF next
    <2> QED
      BY <1>1, <1>4, ForwardNext
  <1>6. Carried(b) = [memory EXCEPT ![b] = x, ![b + 1] = y]
    BY <1>3 DEF Carried
  <1> HIDE DEF x, y
  <1> QED
    BY <1>3, <1>5, <1>6

LEMMA CarryForwardStep ==
  ASSUME PhasedInv, CarryForward
  PROVE  PhasedInv'
  <1>0. /\ pc = "carry forward" /\ iteration' = iteration
        /\ stations' = stations /\ mode' = mode
        /\ judged' = judged /\ converged' = converged
        /\ cancelled' = cancelled /\ status' = status /\ statistics' = statistics
        /\ block = BlockCount - 1 => pc' = "prepare reverse" /\ block' = block
        /\ block # BlockCount - 1 => pc' = "forward" /\ block' = block + 1
    BY DEF CarryForward, results
  <1>1. /\ stations \in Placements /\ Typed /\ iteration \in Nat /\ block \in Blocks
        /\ \A b \in Blocks : memory[b] \in Matrices /\ disk[b] \in Matrices
        /\ mode = "phased" /\ iteration >= 1
    BY <1>0, Basics DEF PhasedInv, Position, ReversePcs
  <1>2. /\ \A b \in Blocks : b < block => Waiting(Latest(b), b, iteration - 1)
        /\ \A b \in Blocks : b > block => Fresh(Latest(b), b, iteration - 1)
        /\ ForwardDone(Latest(block), block, iteration - 1)
    BY <1>0 DEF PhasedInv, ForwardRun
  <1>3. block \in Loaded /\ (Stage => Loaded = {block}) /\ (~Stage => Loaded = Blocks)
    BY <1>0, <1>1 DEF PhasedInv, Loading
  <1>4. iteration - 1 \in Nat
    BY <1>1
  <1>5. block' \in Blocks
    BY <1>0, <1>1, BlockFacts
  <1>6. judged = Judged({b \in Blocks : BlockLast(b) /\ (b < block \/ b = block)})
    BY <1>0 DEF PhasedInv, Judging
  <1>7. Position' /\ Reported'
    BY <1>0, <1>1 DEF PhasedInv, Position, Reported, AfterAdjustment, ReversePcs
  <1>8. Judging'
    <2> DEFINE F == {b \in Blocks : /\ BlockLast(b)
                                    /\ \/ b < block'
                                       \/ b = block' /\ pc' = "carry forward"}
               R == {b \in Blocks : BlockLast(b) \/ b > block'}
    <2>1. \A T : Judged(T)' = Judged(T)
      BY <1>0, RigidInformation DEF Judged
    <2>2. CASE block = BlockCount - 1
      <3>b. block' = block
        BY <1>0, <2>2
      <3>0. \A b \in Blocks : ~(b > block') /\ (b < block \/ b = block)
        BY <2>2, <3>b, BlockFacts
      <3>1. R = {b \in Blocks : BlockLast(b) /\ (b < block \/ b = block)}
        BY <3>0
      <3> QED
        BY <1>0, <1>6, <2>1, <2>2, <3>1 DEF Judging, ReversePcs
    <2>3. CASE block # BlockCount - 1
      <3>b. block' = block + 1 /\ pc' = "forward" /\ block \in Nat
        BY <1>0, <1>1, <2>3, BlockFacts
      <3>0. \A b \in Blocks : /\ b < block' <=> b < block \/ b = block
                              /\ ~(b = block' /\ pc' = "carry forward")
        BY <3>b, BlockFacts
      <3>1. F = {b \in Blocks : BlockLast(b) /\ (b < block \/ b = block)}
        BY <3>0
      <3> QED
        BY <1>0, <1>6, <2>1, <2>3, <3>1 DEF Judging, ReversePcs
    <2> QED
      BY <2>2, <2>3
  <1>9. CASE block = BlockCount - 1
    <2>0. pc' = "prepare reverse" /\ block' = block /\ BlockLast(block) /\ ~CarriesForward(block)
      BY <1>0, <1>1, <1>9, Neighbours DEF BlockLast
    <2>1. memory' = memory /\ disk' = disk
      BY <1>9, <2>0 DEF CarryForward, Keep
    <2>2. Loaded' = Loaded /\ \A b \in Blocks : Latest(b)' = Latest(b)
      BY <2>1, NoneChanged
    <2>3. TypeOK'
      BY <1>0, <1>5, <2>0, <2>1 DEF PhasedInv, TypeOK
    <2>4. Loading'
      BY <1>1, <1>3, <2>0, <2>2 DEF Loading
    <2>5. ReverseRun'
      <3>1. Waiting(Latest(block), block, iteration - 1)
        BY <1>1, <1>2, <2>0 DEF Waiting, HandedOn
      <3>2. Waiting(Latest(block), block, iteration - 1)'
        BY <1>0, <1>1, <2>0, <2>2, <3>1, Rigid
      <3>4. ASSUME NEW b \in Blocks
            PROVE  ~(b > block)
        BY <1>9, BlockFacts
      <3>6. ASSUME NEW b \in Blocks
            PROVE  b < block => ToCome(b, pc \in {"combine", "final"})'
        BY <1>0, <1>2, <2>0, <2>2, Rigid DEF ToCome
      <3> QED
        BY <2>0, <3>2, <3>4, <3>6 DEF ReverseRun
    <2> QED
      BY <1>7, <1>8, <2>0, <2>3, <2>4, <2>5, OnlyReverse DEF PhasedInv, ReversePcs
  <1>10. CASE block # BlockCount - 1
    <2>k. PICK k \in Blocks : k = block
      BY <1>1
    <2>0. pc' = "forward" /\ block' = k + 1 /\ k + 1 \in Blocks /\ k + 1 # k
          /\ (k + 1) - 1 = k /\ k \in Nat
      <3>1. k \in Nat /\ k + 1 \in Blocks
        BY <1>10, <2>k, BlockFacts
      <3>2. pc' = "forward" /\ block' = block + 1
        BY <1>0, <1>10
      <3> QED
        BY <2>k, <3>1, <3>2
    <2> USE <2>k
    <2>1. SUFFICES /\ memory' \in [Blocks -> Matrices] /\ disk' \in [Blocks -> Matrices]
                   /\ Waiting(Latest(k)', k, iteration - 1)
                   /\ ReadyForward(Latest(k + 1)', k + 1, iteration - 1)
                   /\ \A b \in Blocks : b # k /\ b # k + 1 => Latest(b)' = Latest(b)
                   /\ Loaded' = IF Stage THEN {k + 1} ELSE Blocks
      <3>1. TypeOK'
        BY <1>0, <1>5, <2>0, <2>1 DEF PhasedInv, TypeOK
      <3>2. Loading'
        BY <1>1, <2>0, <2>1 DEF Loading
      <3>3. ForwardRun'
        <4>1. ASSUME NEW b \in Blocks
              PROVE  /\ b < block' => Waiting(Latest(b), b, iteration - 1)'
                     /\ b > block' => Fresh(Latest(b), b, iteration - 1)'
          <5>1. /\ b < block' => b < block \/ b = k
                /\ b > block' => b > block /\ b # k /\ b # k + 1
                /\ b < block => b # k /\ b # k + 1
            BY <1>1, <2>0, BlockFacts
          <5>2. CASE b < block
            <6>1. Latest(b)' = Latest(b) /\ ~(b > block')
              BY <1>1, <2>0, <2>1, <5>1, <5>2, BlockFacts
            <6> QED
              BY <1>0, <1>2, <5>2, <6>1, Rigid
          <5>3. CASE b = k
            <6>1. ~(b > block')
              BY <1>1, <2>0, <5>3, BlockFacts
            <6> QED
              BY <1>0, <2>1, <5>3, <6>1, Rigid
          <5>4. CASE b > block'
            <6>1. Latest(b)' = Latest(b) /\ ~(b < block') /\ b > block
              BY <1>1, <2>0, <2>1, <5>1, <5>4, BlockFacts
            <6> QED
              BY <1>0, <1>2, <6>1, Rigid
          <5> QED
            BY <5>1, <5>2, <5>3, <5>4
        <4>2. ReadyForward(Latest(block), block, iteration - 1)'
          BY <1>0, <2>0, <2>1, Rigid
        <4> QED
          BY <2>0, <4>1, <4>2 DEF ForwardRun
      <3> QED
        BY <1>7, <1>8, <2>0, <3>1, <3>2, <3>3, OnlyForward DEF PhasedInv
    <2>2. CASE CarriesForward(k)
      <3>1. PICK x, y \in Matrices :
               /\ Carried(k) = [memory EXCEPT ![k] = x, ![k + 1] = y]
               /\ Waiting(x, k, iteration - 1) /\ ReadyForward(y, k + 1, iteration - 1)
        <4>1. Fresh(Latest(k + 1), k + 1, iteration - 1)
          BY <1>1, <1>2, <2>0, BlockFacts
        <4>2. IF Stage THEN k + 1 \notin Loaded ELSE k + 1 \in Loaded
          BY <1>1, <1>3, <2>0, BlockFacts
        <4> QED
          BY <1>1, <1>2, <1>3, <1>4, <2>2, <4>1, <4>2, CarriedForward
      <3>2. x # Unloaded /\ y # Unloaded
        BY <1>1, <1>4, <3>1, Real
      <3> DEFINE mem == Carried(k)
      <3>3. \/ Stage /\ memory' = [mem EXCEPT ![k] = Unloaded]
                     /\ disk' = [disk EXCEPT ![k] = mem[k]]
            \/ ~Stage /\ memory' = mem /\ disk' = disk
        BY <1>10, <2>2 DEF CarryForward, Keep, Offload
      <3>4. Stage => memory' # mem
        <4>1. mem[k] = x
          BY <1>1, <2>0, <3>1 DEF Typed
        <4>2. mem \in [Blocks -> Matrices]
          BY <1>1, <2>0, <3>1 DEF Typed
        <4> QED
          BY <1>1, <3>2, <3>3, <4>1, <4>2
      <3> HIDE DEF mem
      <3>5. /\ memory' \in [Blocks -> Matrices] /\ disk' \in [Blocks -> Matrices]
            /\ Latest(k)' = x /\ Latest(k + 1)' = y
            /\ \A d \in Blocks : d # k /\ d # k + 1 => Latest(d)' = Latest(d)
            /\ Loaded' = IF memory' = mem
                         THEN Loaded \cup {k, k + 1}
                         ELSE (Loaded \cup {k + 1}) \ {k}
        <4>1. mem = [memory EXCEPT ![k] = x, ![k + 1] = y]
          BY <3>1 DEF mem
        <4>2. \/ memory' = mem /\ disk' = disk
              \/ /\ memory' = [mem EXCEPT ![k] = Unloaded]
                 /\ disk' = [disk EXCEPT ![k] = mem[k]]
          BY <3>3
        <4>3. x \in Matrices /\ y \in Matrices /\ k \in Blocks /\ k + 1 \in Blocks /\ k # k + 1
              /\ Typed
          BY <1>1, <2>0, <3>1
        <4>4. /\ mem \in [Blocks -> Matrices] /\ mem[k] = x /\ mem[k + 1] = y
              /\ \A d \in Blocks : d # k /\ d # k + 1 => mem[d] = memory[d]
          BY <4>1, <4>3 DEF Typed
        <4> QED
          BY <3>2, <4>2, <4>3, <4>4, TwoChanged
      <3>6. Loaded' = IF Stage THEN {k + 1} ELSE Blocks
        <4>1. CASE Stage
          BY <1>3, <2>0, <3>4, <3>5, <4>1
        <4>2. CASE ~Stage
          BY <1>3, <2>0, <3>3, <3>5, <4>2
        <4> QED
          BY <4>1, <4>2
      <3> QED
        BY <3>1, <3>5, <3>6
    <2>3. CASE ~CarriesForward(k)
      <3>0. BlockLast(k) /\ BlockFirst(k + 1) /\ ~Stage
        <4>1. BlockLast(k) /\ BlockFirst(k + 1)
          BY <1>1, <1>10, <2>0, <2>3, Neighbours, BlockFacts
        <4> QED
          BY <1>1, <1>10, <4>1, StagedNet
      <3>1. memory' = memory /\ disk' = disk
        BY <2>3, <3>0 DEF CarryForward, Keep
      <3>2. Loaded' = Loaded /\ \A b \in Blocks : Latest(b)' = Latest(b)
        BY <3>1, NoneChanged
      <3>3. Waiting(Latest(k), k, iteration - 1)
        BY <1>1, <1>2, <3>0 DEF Waiting, HandedOn
      <3>4. ReadyForward(Latest(k + 1), k + 1, iteration - 1)
        <4>1. Fresh(Latest(k + 1), k + 1, iteration - 1) /\ k + 1 \in Loaded
          BY <1>1, <1>2, <1>3, <2>0, <3>0, BlockFacts
        <4>2. memory[k + 1] \in Matrices /\ Prepared(memory[k + 1], k + 1, iteration - 1)
          BY <1>1, <1>4, <2>0, <3>0, <4>1, LoadedForward
        <4>3. ~(k + 1 > 0 /\ Junctions((k + 1) - 1) # {})
          BY <1>1, <2>0, <3>0, WholeBackwards
        <4>4. ReadyForward(memory[k + 1], k + 1, iteration - 1)
          BY <1>4, <2>0, <4>2, <4>3, ForwardFirst
        <4> QED
          BY <2>0, <4>1, <4>4, LatestIs
      <3> QED
        BY <1>1, <1>3, <2>0, <3>0, <3>1, <3>2, <3>3, <3>4 DEF Typed
    <2> QED
      BY <2>2, <2>3
  <1> QED
    BY <1>9, <1>10
LEMMA OneOffloaded ==
  ASSUME Typed, NEW b \in Blocks, NEW mem \in [Blocks -> Matrices], mem[b] # Unloaded,
         \A d \in Blocks : d # b => mem[d] = memory[d],
         memory' = [mem EXCEPT ![b] = Unloaded], disk' = [disk EXCEPT ![b] = mem[b]]
  PROVE  /\ memory' \in [Blocks -> Matrices] /\ disk' \in [Blocks -> Matrices]
         /\ Latest(b)' = mem[b]
         /\ \A d \in Blocks : d # b => Latest(d)' = Latest(d)
         /\ Loaded' = Loaded \ {b}
  <1>0. /\ memory' \in [Blocks -> Matrices] /\ memory'[b] = Unloaded
        /\ disk' \in [Blocks -> Matrices] /\ disk'[b] = mem[b]
        /\ \A d \in Blocks : d # b => memory'[d] = memory[d] /\ disk'[d] = disk[d]
    BY UnloadedType DEF Typed
  <1>1. Latest(b)' = mem[b]
    BY <1>0, LatestIs
  <1>2. \A d \in Blocks : d # b => Latest(d)' = Latest(d)
    BY <1>0, LatestIs
  <1>3. \A d \in Blocks : d \in Loaded' <=> d \in Loaded \ {b}
    BY <1>0, LatestIs
  <1>4. Loaded \subseteq Blocks /\ Loaded' \subseteq Blocks
    BY DEF Loaded
  <1>5. Loaded' = Loaded \ {b}
    BY <1>3, <1>4
  <1> QED
    BY <1>0, <1>1, <1>2, <1>5

(* The reverse run is through with block k.                                 *)
LEMMA Reversed ==
  ASSUME NEW k \in Blocks, k = block, NextReverse,
         stations' = stations, mode' = mode, iteration' = iteration,
         \A b \in Blocks : b >= k => Finished(Latest(b)', b, iteration - 1),
         \A b \in Blocks : b < k =>
            IF b = k - 1 /\ ~BlockLast(b)
            THEN ReadyReverse(Latest(b)', b, iteration - 1)
            ELSE Waiting(Latest(b)', b, iteration - 1),
         mode = "phased" => judged' = Judged({b \in Blocks : BlockLast(b) \/ b >= k}),
         Stage => Loaded' = IF k = 0 THEN {} ELSE {k - 1},
         ~Stage => Loaded' = Blocks
  PROVE  /\ block' \in Blocks /\ pc' \in {"end", "prepare reverse"}
         /\ Loading' /\ Judging' /\ ReverseRun' /\ Ending'
         /\ Starting' /\ ForwardRun' /\ Updating' /\ Validating' /\ Publishing' /\ Computed'
  <1>0. k \in Nat /\ (k # 0 => k - 1 \in Blocks /\ k - 1 \in Nat)
    BY BlockFacts
  <1>1. /\ k = 0 => pc' = "end" /\ block' = k
        /\ k # 0 => pc' = "prepare reverse" /\ block' = k - 1
    BY DEF NextReverse
  <1>2. \A T : Judged(T)' = Judged(T)
    BY RigidInformation DEF Judged
  <1>3. /\ block' \in Blocks /\ pc' \in {"end", "prepare reverse"}
        /\ Starting' /\ ForwardRun' /\ Updating' /\ Validating' /\ Publishing' /\ Computed'
    BY <1>0, <1>1 DEF Starting, ForwardRun, ReversePcs, Ending, Updating, Validating, Publishing,
                      AfterAdjustment, Computed
  <1>4. CASE k = 0
    <2>0. pc' = "end" /\ \A b \in Blocks : b >= k
      BY <1>1, <1>4, BlockFacts
    <2>1. Loading'
      BY <1>3, <1>4, <2>0 DEF Loading
    <2>2. Judging'
      <3>1. {b \in Blocks : BlockLast(b) \/ b >= k} = Blocks
        BY <2>0
      <3> QED
        BY <1>2, <2>0, <3>1 DEF Judging, ReversePcs
    <2>3. ReverseRun'
      BY <2>0 DEF ReverseRun, ReversePcs
    <2>4. Ending'
      <3>1. ASSUME NEW b \in Blocks
            PROVE  Finished(Latest(b), b, iteration - 1)'
        BY <2>0, Rigid
      <3> QED
        BY <3>1 DEF Ending
    <2> QED
      BY <1>3, <2>1, <2>2, <2>3, <2>4
  <1>5. CASE k # 0
    <2>0. /\ pc' = "prepare reverse" /\ block' = k - 1 /\ k - 1 \in Blocks
          /\ \A b \in Blocks : /\ b >= k <=> b > k - 1
                               /\ b < k - 1 => b < k /\ b # k - 1
          /\ k - 1 < k
      <3>1. \A b \in Blocks : b \in Nat
        BY BlockFacts
      <3>2. pc' = "prepare reverse" /\ block' = k - 1 /\ k - 1 \in Blocks
        BY <1>0, <1>1, <1>5
      <3>3. ASSUME NEW b \in Blocks
            PROVE  /\ b >= k <=> b > k - 1
                   /\ b < k - 1 => b < k /\ b # k - 1
        BY <1>0, <3>1
      <3>4. k - 1 < k
        BY <1>0
      <3> QED
        BY <3>2, <3>3, <3>4
    <2>1. Loading'
      BY <1>3, <1>5, <2>0 DEF Loading
    <2>2. Judging'
      <3>1. {b \in Blocks : BlockLast(b) \/ b >= k} = {b \in Blocks : BlockLast(b) \/ b > block'}
        BY <2>0
      <3> QED
        BY <1>2, <2>0, <3>1 DEF Judging, ReversePcs
    <2>3. ReverseRun'
      <3>1. ASSUME NEW b \in Blocks
            PROVE  b > block' => Finished(Latest(b), b, iteration - 1)'
        BY <2>0, Rigid
      <3>2. ASSUME NEW b \in Blocks
            PROVE  b < block' => ToCome(b, pc \in {"combine", "final"})'
        BY <2>0, Rigid DEF ToCome
      <3>3. PICK l \in Blocks : l = k - 1
        BY <2>0
      <3>4. /\ BlockLast(l) => Waiting(Latest(l)', l, iteration - 1)
            /\ ~BlockLast(l) => ReadyReverse(Latest(l)', l, iteration - 1)
        BY <2>0, <3>3
      <3>5. IF BlockLast(block)'
            THEN Waiting(Latest(block), block, iteration - 1)'
            ELSE ReadyReverse(Latest(block), block, iteration - 1)'
        BY <2>0, <3>3, <3>4, Rigid
      <3> QED
        BY <2>0, <3>1, <3>2, <3>5 DEF ReverseRun
    <2>4. Ending'
      BY <2>0 DEF Ending
    <2> QED
      BY <1>3, <2>1, <2>2, <2>3, <2>4
  <1> QED
    BY <1>4, <1>5
(* What a step of the reverse run finds.                                    *)
LEMMA InReverse ==
  ASSUME PhasedInv, pc \in ReversePcs
  PROVE  /\ stations \in Placements /\ Typed /\ Modal /\ block \in Blocks
         /\ iteration \in Nat /\ iteration >= 1 /\ iteration - 1 \in Nat
         /\ iteration = (iteration - 1) + 1
         /\ mode \in {"phased", "block1"} /\ (Stage => mode = "phased")
         /\ \A b \in Blocks : memory[b] \in Matrices
         /\ block \in Loaded /\ Latest(block) = memory[block]
         /\ ~Stage => Loaded = Blocks
         /\ Stage => Loaded = IF pc \in {"combine", "final"}
                              THEN {b \in Blocks : b = block \/ b = block - 1}
                              ELSE {block}
         /\ \A b \in Blocks : b > block => Finished(Latest(b), b, iteration - 1)
         /\ \A b \in Blocks : b < block => ToCome(b, pc \in {"combine", "final"})
         /\ mode = "phased" => judged = Judged({b \in Blocks : BlockLast(b) \/ b > block})
         /\ status = "ADJUST_SUCCESS"
         /\ mode = "block1" => iteration = 1 /\ pc # "combine"
  <1>1. /\ stations \in Placements /\ Typed /\ Modal /\ block \in Blocks /\ iteration \in Nat
        /\ mode \in {"phased", "block1"} /\ (Stage => mode = "phased")
        /\ \A b \in Blocks : memory[b] \in Matrices
    BY Basics
  <1>2. iteration >= 1 /\ (mode = "block1" => iteration = 1 /\ pc # "combine")
    BY DEF PhasedInv, Position, ReversePcs
  <1>3. /\ ~Stage => Loaded = Blocks
        /\ Stage => Loaded = IF pc \in {"combine", "final"}
                             THEN {b \in Blocks : b = block \/ b = block - 1}
                             ELSE {block}
    BY DEF PhasedInv, Loading, ReversePcs
  <1>4. block \in Loaded /\ Latest(block) = memory[block]
    <2>1. block \in Loaded
      BY <1>1, <1>3
    <2> QED
      BY <1>1, <2>1, LatestIs
  <1>5. /\ \A b \in Blocks : b > block => Finished(Latest(b), b, iteration - 1)
        /\ \A b \in Blocks : b < block => ToCome(b, pc \in {"combine", "final"})
    BY DEF PhasedInv, ReverseRun
  <1>6. mode = "phased" => judged = Judged({b \in Blocks : BlockLast(b) \/ b > block})
    BY DEF PhasedInv, Judging
  <1>7. status = "ADJUST_SUCCESS"
    BY DEF PhasedInv, Reported, AfterAdjustment, ReversePcs
  <1>8. iteration - 1 \in Nat /\ iteration = (iteration - 1) + 1
    BY <1>1, <1>2
  <1> QED
    BY <1>1, <1>2, <1>3, <1>4, <1>5, <1>6, <1>7, <1>8

(* A step at a block of the reverse run that goes on with the same block.   *)
LEMMA SameBlock ==
  ASSUME PhasedInv, pc \in ReversePcs, pc' \in ReversePcs \ {"prepare reverse"},
         block' = block, stations' = stations, mode' = mode, iteration' = iteration,
         judged' = judged, converged' = converged, cancelled' = cancelled,
         status' = status, statistics' = statistics,
         mode = "block1" => pc' # "combine"
  PROVE  /\ Position' /\ Reported' /\ Judging'
         /\ Starting' /\ ForwardRun' /\ Ending' /\ Updating' /\ Validating' /\ Publishing'
         /\ Computed'
  <1>1. Position' /\ Reported'
    BY InReverse DEF PhasedInv, Position, Reported, ReversePcs, AfterAdjustment
  <1>2. Judging'
    <2>1. \A T : Judged(T)' = Judged(T)
      BY RigidInformation DEF Judged
    <2> QED
      BY <2>1, InReverse DEF Judging, ReversePcs
  <1> QED
    BY <1>1, <1>2, OnlyReverse

LEMMA PrepareAdjustmentReverseStep ==
  ASSUME PhasedInv, PrepareAdjustmentReverse
  PROVE  PhasedInv'
  <1>0. /\ pc = "prepare reverse" /\ pc \in ReversePcs /\ pc \notin {"combine", "final"}
        /\ stations' = stations /\ mode' = mode /\ iteration' = iteration
        /\ judged' = judged /\ converged' = converged
        /\ cancelled' = cancelled /\ status' = status /\ statistics' = statistics
    BY DEF PrepareAdjustmentReverse, results, ReversePcs
  <1> DEFINE r == iteration - 1
  <1>1. /\ stations \in Placements /\ Typed /\ Modal /\ block \in Blocks /\ r \in Nat
        /\ \A b \in Blocks : memory[b] \in Matrices
        /\ block \in Loaded /\ Latest(block) = memory[block]
        /\ ~Stage => Loaded = Blocks
        /\ Stage => Loaded = {block}
        /\ iteration >= 1 /\ iteration \in Nat
    BY <1>0, InReverse
  <1>2. /\ \A b \in Blocks : b > block => Finished(Latest(b), b, r)
        /\ \A b \in Blocks : b < block => Waiting(Latest(b), b, r)
    BY <1>0, InReverse DEF ToCome
  <1>3. IF BlockLast(block)
        THEN Waiting(Latest(block), block, r)
        ELSE ReadyReverse(Latest(block), block, r)
    BY <1>0 DEF PhasedInv, ReverseRun
  <1>4. PICK k \in Blocks : k = block
    BY <1>1
  <1>5. CASE BlockIsolated(block)
    <2>0. BlockLast(k) /\ BlockFirst(k) /\ Finished(Latest(k), k, r) /\ NextReverse
      BY <1>1, <1>3, <1>4, <1>5, IsolatedFinished DEF BlockIsolated, PrepareAdjustmentReverse
    <2>1. /\ memory' \in [Blocks -> Matrices] /\ disk' \in [Blocks -> Matrices]
          /\ \A b \in Blocks : Latest(b)' = Latest(b)
          /\ Stage => Loaded' = {} /\ k = 0
          /\ ~Stage => Loaded' = Blocks
      <3>1. CASE Stage
        <4>1. /\ memory' = [memory EXCEPT ![k] = Unloaded]
              /\ disk' = [disk EXCEPT ![k] = memory[k]]
          BY <1>4, <1>5, <3>1 DEF PrepareAdjustmentReverse, Offload
        <4>2. memory[k] # Unloaded /\ memory \in [Blocks -> Matrices] /\ Latest(k) = memory[k]
          BY <1>1, <1>4, LatestIs DEF Typed
        <4>3. /\ memory' \in [Blocks -> Matrices] /\ disk' \in [Blocks -> Matrices]
              /\ Latest(k)' = memory[k]
              /\ \A d \in Blocks : d # k => Latest(d)' = Latest(d)
              /\ Loaded' = Loaded \ {k}
          BY <1>1, <4>1, <4>2, OneOffloaded
        <4>4. k = 0
          BY <2>0, <3>1, StagedNet
        <4>5. Loaded' = {}
          BY <1>1, <1>4, <3>1, <4>3
        <4>6. \A b \in Blocks : Latest(b)' = Latest(b)
          BY <4>2, <4>3
        <4> QED
          BY <3>1, <4>3, <4>4, <4>5, <4>6
      <3>2. CASE ~Stage
        <4>1. memory' = memory /\ disk' = disk
          BY <1>5, <3>2 DEF PrepareAdjustmentReverse, Keep
        <4> QED
          BY <1>1, <3>2, <4>1, NoneChanged DEF Typed
      <3> QED
        BY <3>1, <3>2
    <2>2. ASSUME NEW b \in Blocks
          PROVE  /\ b >= k => Finished(Latest(b)', b, r)
                 /\ b < k => /\ Waiting(Latest(b)', b, r)
                             /\ b = k - 1 => BlockLast(b)
      <3>0. b \in Nat /\ k \in Nat
        BY BlockFacts
      <3>1. b >= k => b > k \/ b = k
        BY <3>0
      <3>2. b = k - 1 => BlockLast(b)
        BY <2>0, <3>0, Neighbours
      <3> QED
        BY <1>2, <1>4, <2>0, <2>1, <3>1, <3>2
    <2>3. mode = "phased" => judged' = Judged({b \in Blocks : BlockLast(b) \/ b >= k})
      <3>1. \A b \in Blocks : b >= k <=> b > k \/ b = k
        BY BlockFacts
      <3>2. {b \in Blocks : BlockLast(b) \/ b >= k} = {b \in Blocks : BlockLast(b) \/ b > block}
        BY <1>4, <2>0, <3>1
      <3> QED
        BY <1>0, <3>2, InReverse
    <2>4. /\ block' \in Blocks /\ pc' \in {"end", "prepare reverse"}
          /\ Loading' /\ Judging' /\ ReverseRun' /\ Ending'
          /\ Starting' /\ ForwardRun' /\ Updating' /\ Validating' /\ Publishing' /\ Computed'
      BY <1>0, <1>4, <2>0, <2>1, <2>2, <2>3, Reversed
    <2>5. TypeOK'
      BY <1>0, <2>1, <2>4 DEF PhasedInv, TypeOK
    <2>6. Position' /\ Reported'
      BY <1>0, <1>1, <2>4 DEF PhasedInv, Position, Reported, AfterAdjustment, ReversePcs
    <2> QED
      BY <2>4, <2>5, <2>6 DEF PhasedInv
  <1>6. CASE ~BlockIsolated(block)
    <2>0. pc' = "reverse" /\ block' = block
      BY <1>6 DEF PrepareAdjustmentReverse
    <2>1. /\ memory' \in [Blocks -> Matrices] /\ disk' \in [Blocks -> Matrices]
          /\ ReadyReverse(Latest(k)', k, r)
          /\ \A d \in Blocks : d # k => Latest(d)' = Latest(d)
          /\ Loaded' = Loaded
      <3>1. CASE BlockLast(block)
        <4> DEFINE s == [memory[k] EXCEPT !.normals = Add(memory[k].normalsR, Once(FirstReverse(k))),
                                          !.estimated = memory[k].original]
        <4>1. Settled(memory[k], k, r)
          BY <1>1, <1>3, <1>4, <3>1, WaitingSettled
        <4>2. s \in Matrices /\ ReadyReverse(s, k, r)
          BY <1>1, <1>4, <3>1, <4>1, ReverseLast
        <4>3. memory' = [memory EXCEPT ![k] = s] /\ disk' = disk
          BY <1>1, <1>4, <1>6, <3>1 DEF PrepareAdjustmentReverse, Keep, Typed
        <4> HIDE DEF s
        <4>4. s # Unloaded
          BY <1>1, <4>2, Real
        <4>5. /\ memory' \in [Blocks -> Matrices] /\ disk' \in [Blocks -> Matrices]
              /\ Latest(k)' = s
              /\ \A d \in Blocks : d # k => Latest(d)' = Latest(d)
              /\ Loaded' = Loaded \cup {k}
          BY <1>1, <4>2, <4>3, <4>4, OneChanged
        <4>6. Loaded' = Loaded
          BY <1>1, <1>4, <4>5
        <4> QED
          BY <4>2, <4>5, <4>6
      <3>2. CASE ~BlockLast(block)
        <4>1. memory' = memory /\ disk' = disk
          BY <1>6, <3>2 DEF PrepareAdjustmentReverse, Keep
        <4> QED
          BY <1>1, <1>3, <1>4, <3>2, <4>1, NoneChanged DEF Typed
      <3> QED
        BY <3>1, <3>2
    <2>2. TypeOK'
      BY <1>0, <1>1, <2>0, <2>1 DEF PhasedInv, TypeOK
    <2>3. Loading'
      BY <1>1, <2>0, <2>1 DEF Loading
    <2>4. ReverseRun'
      <3>1. ASSUME NEW b \in Blocks
            PROVE  b > block => Finished(Latest(b), b, iteration - 1)'
        <4>1. b > block => b # k
          BY <1>4, BlockFacts
        <4> QED
          BY <1>0, <1>2, <2>0, <2>1, <4>1, Rigid
      <3>2. ASSUME NEW b \in Blocks
            PROVE  b < block => ToCome(b, pc \in {"combine", "final"})'
        <4>1. b < block => b # k
          BY <1>4, BlockFacts
        <4> QED
          BY <1>0, <1>2, <2>0, <2>1, <4>1, Rigid DEF ToCome
      <3>3. ReadyReverse(Latest(block), block, iteration - 1)'
        BY <1>0, <1>4, <2>0, <2>1, Rigid
      <3> QED
        BY <1>6, <2>0, <3>1, <3>2, <3>3 DEF ReverseRun
    <2> QED
      BY <1>0, <2>0, <2>2, <2>3, <2>4, SameBlock DEF PhasedInv, ReversePcs
  <1> QED
    BY <1>5, <1>6
LEMMA AdjustReverseStep ==
  ASSUME PhasedInv, AdjustReverse
  PROVE  PhasedInv'
  <1>0. /\ pc = "reverse" /\ pc \in ReversePcs /\ pc \notin {"combine", "final"}
        /\ pc' = "carry reverse" /\ block' = block
        /\ stations' = stations /\ mode' = mode /\ iteration' = iteration
        /\ judged' = judged /\ converged' = converged
        /\ cancelled' = cancelled /\ status' = status /\ statistics' = statistics
    BY DEF AdjustReverse, results, ReversePcs
  <1> DEFINE r == iteration - 1
  <1>1. /\ stations \in Placements /\ Typed /\ block \in Blocks /\ r \in Nat /\ iteration = r + 1
        /\ \A b \in Blocks : memory[b] \in Matrices
        /\ block \in Loaded /\ Latest(block) = memory[block]
        /\ ~Stage => Loaded = Blocks
        /\ Stage => Loaded = {block}
        /\ \A b \in Blocks : b > block => Finished(Latest(b), b, r)
        /\ \A b \in Blocks : b < block => Waiting(Latest(b), b, r)
    BY <1>0, InReverse DEF ToCome
  <1>2. PICK k \in Blocks : k = block
    BY <1>1
  <1>3. ReadyReverse(memory[k], k, r) /\ ~BlockIsolated(k)
    BY <1>0, <1>1, <1>2 DEF PhasedInv, ReverseRun
  <1> DEFINE s == UpdateEstimates(Solve(BackupNormals(k, memory[k])))
  <1>4. s \in Matrices /\ ReverseDone(s, k, r)
    BY <1>1, <1>3, ReverseSolved
  <1>5. memory' = [memory EXCEPT ![k] = s] /\ disk' = disk
    BY <1>1, <1>2 DEF AdjustReverse, Keep, Typed
  <1> HIDE DEF s
  <1>6. s # Unloaded
    BY <1>1, <1>4, Real
  <1>7. /\ memory' \in [Blocks -> Matrices] /\ disk' \in [Blocks -> Matrices]
        /\ Latest(k)' = s
        /\ \A d \in Blocks : d # k => Latest(d)' = Latest(d)
        /\ Loaded' = Loaded \cup {k}
    BY <1>1, <1>4, <1>5, <1>6, OneChanged
  <1>8. TypeOK'
    BY <1>0, <1>7 DEF PhasedInv, TypeOK
  <1>9. Loading'
    <2>1. Loaded' = Loaded
      BY <1>1, <1>2, <1>7
    <2> QED
      BY <1>0, <1>1, <2>1 DEF Loading
  <1>10. ReverseRun'
    <2>1. ASSUME NEW b \in Blocks
          PROVE  b > block => Finished(Latest(b), b, iteration - 1)'
      <3>1. b > block => b # k
        BY <1>2, BlockFacts
      <3> QED
        BY <1>0, <1>1, <1>7, <3>1, Rigid
    <2>2. ASSUME NEW b \in Blocks
          PROVE  b < block => ToCome(b, pc \in {"combine", "final"})'
      <3>1. b < block => b # k
        BY <1>2, BlockFacts
      <3> QED
        BY <1>0, <1>1, <1>7, <3>1, Rigid DEF ToCome
    <2>3. ReverseDone(Latest(block), block, iteration - 1)'
      BY <1>0, <1>2, <1>4, <1>7, Rigid
    <2> QED
      BY <1>0, <1>2, <1>3, <2>1, <2>2, <2>3 DEF ReverseRun
  <1> QED
    BY <1>0, <1>8, <1>9, <1>10, SameBlock DEF PhasedInv, ReversePcs

LEMMA AdjustCombineStep ==
  ASSUME PhasedInv, AdjustCombine
  PROVE  PhasedInv'
  <1>0. /\ pc = "combine" /\ pc \in ReversePcs
        /\ pc' = "final" /\ block' = block
        /\ stations' = stations /\ mode' = mode /\ iteration' = iteration
        /\ judged' = judged /\ converged' = converged
        /\ cancelled' = cancelled /\ status' = status /\ statistics' = statistics
    BY DEF AdjustCombine, results, ReversePcs
  <1> DEFINE r == iteration - 1
  <1>1. /\ stations \in Placements /\ Typed /\ block \in Blocks /\ r \in Nat /\ iteration = r + 1
        /\ \A b \in Blocks : memory[b] \in Matrices
        /\ block \in Loaded /\ Latest(block) = memory[block]
        /\ ~Stage => Loaded = Blocks
        /\ Stage => Loaded = {b \in Blocks : b = block \/ b = block - 1}
        /\ \A b \in Blocks : b > block => Finished(Latest(b), b, r)
        /\ \A b \in Blocks : b < block => ToCome(b, TRUE)
        /\ mode = "phased"
    BY <1>0, InReverse
  <1>2. PICK k \in Blocks : k = block
    BY <1>1
  <1>3. ReadyCombine(memory[k], k, r) /\ ~BlockIsolated(k) /\ CombineRequired(k)
    BY <1>0, <1>1, <1>2 DEF PhasedInv, ReverseRun
  <1> DEFINE s == [UpdateEstimates(Solve(memory[k])) EXCEPT !.rows = <<>>]
  <1>4. s \in Matrices /\ ReadyFinal(s, k, r)
    BY <1>1, <1>3, CombineSolved
  <1>5. memory' = [memory EXCEPT ![k] = s] /\ disk' = disk
    BY <1>1, <1>2 DEF AdjustCombine, Keep, Typed
  <1> HIDE DEF s
  <1>6. s # Unloaded
    BY <1>1, <1>4, Real
  <1>7. /\ memory' \in [Blocks -> Matrices] /\ disk' \in [Blocks -> Matrices]
        /\ Latest(k)' = s
        /\ \A d \in Blocks : d # k => Latest(d)' = Latest(d)
        /\ Loaded' = Loaded \cup {k}
    BY <1>1, <1>4, <1>5, <1>6, OneChanged
  <1>8. TypeOK'
    BY <1>0, <1>7 DEF PhasedInv, TypeOK
  <1>9. Loading'
    <2>1. Loaded' = Loaded
      BY <1>1, <1>2, <1>7
    <2> QED
      BY <1>0, <1>1, <2>1 DEF Loading
  <1>10. ReverseRun'
    <2>1. ASSUME NEW b \in Blocks
          PROVE  b > block => Finished(Latest(b), b, iteration - 1)'
      <3>1. b > block => b # k
        BY <1>2, BlockFacts
      <3> QED
        BY <1>0, <1>1, <1>7, <3>1, Rigid
    <2>2. ASSUME NEW b \in Blocks
          PROVE  b < block => ToCome(b, pc \in {"combine", "final"})'
      <3>1. b < block => b # k
        BY <1>2, BlockFacts
      <3> QED
        BY <1>0, <1>1, <1>7, <3>1, Rigid DEF ToCome
    <2>3. ReadyFinal(Latest(block), block, iteration - 1)'
      BY <1>0, <1>2, <1>4, <1>7, Rigid
    <2> QED
      BY <1>0, <1>2, <1>3, <2>1, <2>2, <2>3 DEF ReverseRun
  <1> QED
    BY <1>0, <1>8, <1>9, <1>10, SameBlock DEF PhasedInv, ReversePcs

LEMMA CarryReverseStep ==
  ASSUME PhasedInv, CarryReverse
  PROVE  PhasedInv'
  <1>0. /\ pc = "carry reverse" /\ pc \in ReversePcs /\ pc \notin {"combine", "final"}
        /\ block' = block
        /\ stations' = stations /\ mode' = mode /\ iteration' = iteration
        /\ judged' = judged /\ converged' = converged
        /\ cancelled' = cancelled /\ status' = status /\ statistics' = statistics
    BY DEF CarryReverse, results, ReversePcs
  <1> DEFINE r == iteration - 1
  <1>1. /\ stations \in Placements /\ Typed /\ Modal /\ block \in Blocks /\ r \in Nat
        /\ iteration = r + 1
        /\ \A b \in Blocks : memory[b] \in Matrices
        /\ block \in Loaded /\ Latest(block) = memory[block]
        /\ ~Stage => Loaded = Blocks
        /\ Stage => Loaded = {block}
        /\ mode \in {"phased", "block1"}
    BY <1>0, InReverse
  <1>2. /\ \A b \in Blocks : b > block => Finished(Latest(b), b, r)
        /\ \A b \in Blocks : b < block => Waiting(Latest(b), b, r)
    BY <1>0, InReverse DEF ToCome
  <1>3. PICK k \in Blocks : k = block
    BY <1>1
  <1>4. ReverseDone(memory[k], k, r) /\ ~BlockIsolated(k)
    BY <1>0, <1>1, <1>3 DEF PhasedInv, ReverseRun
  <1> DEFINE combine == CombineRequired(k) /\ mode = "phased"
  <1>5. SUFFICES /\ memory' \in [Blocks -> Matrices] /\ disk' \in [Blocks -> Matrices]
                 /\ pc' = IF ~BlockFirst(k) /\ combine THEN "combine" ELSE "final"
                 /\ IF ~BlockFirst(k) /\ combine
                    THEN ReadyCombine(Latest(k)', k, r)
                    ELSE ReadyFinal(Latest(k)', k, r)
                 /\ ~BlockFirst(k) => ReadyReverse(Latest(k - 1)', k - 1, r)
                 /\ \A d \in Blocks : d # k /\ (BlockFirst(k) \/ d # k - 1) => Latest(d)' = Latest(d)
                 /\ Loaded' = IF BlockFirst(k) THEN Loaded ELSE Loaded \cup {k, k - 1}
    <2>0. pc' \in {"combine", "final"} /\ (mode = "block1" => pc' # "combine")
      BY <1>5
    <2>1. TypeOK'
      BY <1>0, <1>5, <2>0 DEF PhasedInv, TypeOK
    <2>2. Loading'
      <3>1. Stage => Loaded' = {b \in Blocks : b = block \/ b = block - 1}
        <4>1. CASE BlockFirst(k) /\ Stage
          <5>1. k = 0 /\ \A b \in Blocks : b # k - 1
            BY <4>1, StagedNet, BlockFacts
          <5> QED
            BY <1>1, <1>3, <1>5, <4>1, <5>1
        <4>2. CASE ~BlockFirst(k) /\ Stage
          <5>1. k - 1 \in Blocks
            BY <4>2, Neighbours
          <5> QED
            BY <1>1, <1>3, <1>5, <4>2, <5>1
        <4> QED
          BY <4>1, <4>2
      <3>2. ~Stage => Loaded' = Blocks
        <4>1. ~BlockFirst(k) => k - 1 \in Blocks
          BY Neighbours
        <4> QED
          BY <1>1, <1>5, <4>1
      <3> QED
        BY <1>0, <1>1, <2>0, <3>1, <3>2 DEF Loading
    <2>3. ReverseRun'
      <3>0. \A b \in Blocks : /\ b > block => b # k /\ b # k - 1
                              /\ b < block => b # k
        BY <1>3, BlockFacts
      <3>1. ASSUME NEW b \in Blocks
            PROVE  b > block => Finished(Latest(b), b, iteration - 1)'
        BY <1>0, <1>2, <1>5, <3>0, Rigid
      <3>2. ASSUME NEW b \in Blocks
            PROVE  b < block => ToCome(b, pc \in {"combine", "final"})'
        <4>1. ASSUME b < block
              PROVE  IF b = k - 1 /\ ~BlockLast(b)
                     THEN ReadyReverse(Latest(b)', b, r)
                     ELSE Waiting(Latest(b)', b, r)
          <5>1. CASE b = k - 1
            <6>1. BlockLast(b) <=> BlockFirst(k)
              BY <5>1, <1>3, <4>1, Neighbours, BlockFacts
            <6>2. CASE BlockFirst(k)
              BY <1>2, <1>5, <3>0, <4>1, <6>1, <6>2
            <6>3. CASE ~BlockFirst(k)
              BY <1>5, <5>1, <6>1, <6>3
            <6> QED
              BY <6>2, <6>3
          <5>2. CASE b # k - 1
            BY <1>2, <1>5, <3>0, <4>1, <5>2
          <5> QED
            BY <5>1, <5>2
        <4> QED
          BY <1>0, <1>3, <2>0, <4>1, Rigid DEF ToCome
      <3>3. /\ pc' = "combine" => CombineRequired(k) /\ ReadyCombine(Latest(block), block, iteration - 1)'
            /\ pc' = "final" => ReadyFinal(Latest(block), block, iteration - 1)'
        BY <1>0, <1>3, <1>5, Rigid
      <3> QED
        BY <1>0, <1>3, <1>4, <2>0, <3>1, <3>2, <3>3 DEF ReverseRun
    <2> QED
      BY <1>0, <2>0, <2>1, <2>2, <2>3, SameBlock DEF PhasedInv, ReversePcs
  <1>6. CASE BlockFirst(k)
    <2>1. memory' = memory /\ disk' = disk /\ pc' = "final"
      BY <1>3, <1>6 DEF CarryReverse, Keep, CarriesReverse
    <2>2. Loaded' = Loaded /\ \A c \in Blocks : Latest(c)' = Latest(c)
      BY <2>1, NoneChanged
    <2>3. ~CombineRequired(k)
      BY <1>6 DEF CombineRequired
    <2>4. ReadyFinal(memory[k], k, r)
      BY <1>1, <1>4, <2>3, NotCombined
    <2> QED
      BY <1>1, <1>3, <1>6, <2>1, <2>2, <2>4 DEF Typed
  <1>7. CASE ~BlockFirst(k)
    <2>0. k - 1 \in Blocks /\ k - 1 # k /\ k - 1 < k /\ ~BlockLast(k - 1)
      BY <1>7, Neighbours, BlockFacts
    <2> DEFINE next == CarriedReverse(k)
               this == IF combine THEN PreparedCombine(k, next) ELSE memory[k]
               mem == [memory EXCEPT ![k - 1] = next, ![k] = this]
    <2>1. next \in Matrices /\ ReadyReverse(next, k - 1, r)
      <3>1. Settled(Latest(k - 1), k - 1, r)
        BY <1>1, <1>2, <1>3, <2>0, WaitingSettled
      <3>2. IF Stage THEN k - 1 \notin Loaded ELSE k - 1 \in Loaded
        BY <1>1, <1>3, <2>0
      <3> QED
        BY <1>1, <1>4, <1>7, <3>1, <3>2, ReverseNext
    <2>2. memory' = mem /\ disk' = disk /\ pc' = IF combine THEN "combine" ELSE "final"
      <3>1. CarriesReverse(k)
        BY <1>7, Neighbours
      <3>2. block = k /\ memory[block] = memory[k]
        BY <1>3
      <3> QED
        BY <1>1, <2>0, <3>1, <3>2 DEF CarryReverse, Keep, Typed
    <2> HIDE DEF next
    <2>3. /\ this \in Matrices /\ this # Unloaded
          /\ IF combine THEN ReadyCombine(this, k, r) ELSE ReadyFinal(this, k, r)
      <3>1. CASE combine
        <4>1. HandedOn(next, k - 1, r)
          BY <2>1 DEF ReadyReverse
        <4>2. this \in Matrices /\ ReadyCombine(this, k, r)
          BY <1>1, <1>4, <2>1, <3>1, <4>1, CombinePrepared
        <4> QED
          BY <1>1, <3>1, <4>2, Real
      <3>2. CASE ~combine
        <4>1. this \in Matrices /\ ReadyFinal(this, k, r)
          BY <1>1, <1>4, <3>2, NotCombined
        <4> QED
          BY <1>1, <3>2, <4>1, Real
      <3> QED
        BY <3>1, <3>2
    <2> HIDE DEF this
    <2>4. next # Unloaded
      BY <1>1, <2>1, Real
    <2>5. /\ mem \in [Blocks -> Matrices] /\ mem[k] = this /\ mem[k - 1] = next
          /\ \A d \in Blocks : d # k /\ d # k - 1 => mem[d] = memory[d]
      BY <1>1, <2>0, <2>1, <2>3 DEF Typed
    <2> HIDE DEF mem, combine
    <2>6. /\ memory' \in [Blocks -> Matrices] /\ disk' \in [Blocks -> Matrices]
          /\ Latest(k)' = this /\ Latest(k - 1)' = next
          /\ \A d \in Blocks : d # k /\ d # k - 1 => Latest(d)' = Latest(d)
          /\ Loaded' = Loaded \cup {k, k - 1}
      BY <1>1, <2>0, <2>2, <2>3, <2>4, <2>5, TwoChanged
    <2> QED
      BY <1>7, <2>1, <2>2, <2>3, <2>6
  <1> QED
    BY <1>6, <1>7
LEMMA FinishReverseStep ==
  ASSUME PhasedInv, FinishReverse
  PROVE  PhasedInv'
  <1>0. /\ pc = "final" /\ pc \in ReversePcs
        /\ stations' = stations /\ mode' = mode /\ iteration' = iteration
        /\ converged' = converged
        /\ cancelled' = cancelled /\ status' = status /\ statistics' = statistics
        /\ NextReverse
    BY DEF FinishReverse, ReversePcs
  <1> DEFINE r == iteration - 1
  <1>1. /\ stations \in Placements /\ Typed /\ Modal /\ block \in Blocks /\ r \in Nat
        /\ iteration >= 1 /\ iteration \in Nat
        /\ \A b \in Blocks : memory[b] \in Matrices
        /\ block \in Loaded /\ Latest(block) = memory[block]
        /\ ~Stage => Loaded = Blocks
        /\ Stage => Loaded = {b \in Blocks : b = block \/ b = block - 1}
        /\ mode \in {"phased", "block1"}
    BY <1>0, InReverse
  <1>2. /\ \A b \in Blocks : b > block => Finished(Latest(b), b, r)
        /\ \A b \in Blocks : b < block => ToCome(b, TRUE)
    BY <1>0, InReverse
  <1>3. PICK k \in Blocks : k = block
    BY <1>1
  <1>4. ReadyFinal(memory[k], k, r)
    BY <1>0, <1>1, <1>3 DEF PhasedInv, ReverseRun
  <1> DEFINE s == UpdateEstimatesFinal(k, memory[k])
             final == [memory EXCEPT ![k] = s]
  <1>5. s \in Matrices /\ Finished(s, k, r)
    BY <1>1, <1>4, FinishedBlock
  <1>6. IF Stage
        THEN memory' = [final EXCEPT ![k] = Unloaded] /\ disk' = [disk EXCEPT ![k] = final[k]]
        ELSE memory' = final /\ disk' = disk
    <2>1. final = [memory EXCEPT ![block] = UpdateEstimatesFinal(block, @)]
      BY <1>1, <1>3 DEF Typed
    <2> HIDE DEF final
    <2> QED
      BY <1>3, <2>1 DEF FinishReverse, Offload, Keep
  <1> HIDE DEF s
  <1>7. s # Unloaded
    BY <1>1, <1>5, Real
  <1>8. /\ memory' \in [Blocks -> Matrices] /\ disk' \in [Blocks -> Matrices]
        /\ Latest(k)' = s
        /\ \A d \in Blocks : d # k => Latest(d)' = Latest(d)
        /\ Loaded' = IF Stage THEN Loaded \ {k} ELSE Loaded \cup {k}
    <2>1. CASE Stage
      <3>1. /\ final \in [Blocks -> Matrices] /\ final[k] = s
            /\ \A d \in Blocks : d # k => final[d] = memory[d]
        BY <1>1, <1>5 DEF Typed
      <3> HIDE DEF final
      <3>2. /\ memory' \in [Blocks -> Matrices] /\ disk' \in [Blocks -> Matrices]
            /\ Latest(k)' = final[k]
            /\ \A d \in Blocks : d # k => Latest(d)' = Latest(d)
            /\ Loaded' = Loaded \ {k}
        BY <1>1, <1>6, <1>7, <2>1, <3>1, OneOffloaded
      <3> QED
        BY <2>1, <3>1, <3>2
    <2>2. CASE ~Stage
      <3>1. /\ memory' \in [Blocks -> Matrices] /\ disk' \in [Blocks -> Matrices]
            /\ Latest(k)' = s
            /\ \A d \in Blocks : d # k => Latest(d)' = Latest(d)
            /\ Loaded' = Loaded \cup {k}
        BY <1>1, <1>5, <1>6, <1>7, <2>2, OneChanged
      <3> QED
        BY <2>2, <3>1
    <2> QED
      BY <2>1, <2>2
  <1>9. ASSUME NEW b \in Blocks
        PROVE  /\ b >= k => Finished(Latest(b)', b, r)
               /\ b < k => IF b = k - 1 /\ ~BlockLast(b)
                           THEN ReadyReverse(Latest(b)', b, r)
                           ELSE Waiting(Latest(b)', b, r)
    <2>0. (b >= k <=> b > k \/ b = k) /\ (b > k => b # k) /\ (b < k => b # k)
      BY BlockFacts
    <2>1. b >= k => Finished(Latest(b)', b, r)
      BY <1>2, <1>3, <1>5, <1>8, <2>0
    <2>2. b < k => IF b = k - 1 /\ ~BlockLast(b)
                   THEN ReadyReverse(Latest(b)', b, r)
                   ELSE Waiting(Latest(b)', b, r)
      BY <1>2, <1>3, <1>8, <2>0 DEF ToCome
    <2> QED
      BY <2>1, <2>2
  <1>10. Stage => Loaded' = IF k = 0 THEN {} ELSE {k - 1}
    <2>1. k # 0 => k - 1 \in Blocks /\ k - 1 # k
      BY BlockFacts
    <2>2. k = 0 => \A b \in Blocks : b # k - 1
      BY BlockFacts
    <2> QED
      BY <1>1, <1>3, <1>8, <2>1, <2>2
  <1>11. ~Stage => Loaded' = Blocks
    BY <1>1, <1>8
  <1>12. judged' = IF BlockLast(k) THEN judged ELSE judged \cup {<<k, memory[k].corrections>>}
    BY <1>3 DEF FinishReverse
  <1>13. mode = "phased" => judged' = Judged({b \in Blocks : BlockLast(b) \/ b >= k})
    <2>0. \A b \in Blocks : b >= k <=> b > k \/ b = k
      BY BlockFacts
    <2>1. mode = "phased" => judged = Judged({b \in Blocks : BlockLast(b) \/ b > k})
      BY <1>0, <1>3, InReverse
    <2>2. CASE BlockLast(k)
      <3>1. {b \in Blocks : BlockLast(b) \/ b >= k} = {b \in Blocks : BlockLast(b) \/ b > k}
        BY <2>0, <2>2
      <3> QED
        BY <1>12, <2>1, <2>2, <3>1
    <2>3. CASE ~BlockLast(k) /\ mode = "phased"
      <3>1. {b \in Blocks : BlockLast(b) \/ b >= k} = {b \in Blocks : BlockLast(b) \/ b > k} \cup {k}
        BY <2>0
      <3>2. memory[k].corrections = Whole(k)
        BY <1>4, <2>3 DEF ReadyFinal
      <3> QED
        BY <1>12, <2>1, <2>3, <3>1, <3>2 DEF Judged
    <2> QED
      BY <2>2, <2>3
  <1>14. /\ block' \in Blocks /\ pc' \in {"end", "prepare reverse"}
         /\ Loading' /\ Judging' /\ ReverseRun' /\ Ending'
         /\ Starting' /\ ForwardRun' /\ Updating' /\ Validating' /\ Publishing' /\ Computed'
    BY <1>0, <1>3, <1>9, <1>10, <1>11, <1>13, Reversed
  <1>15. TypeOK'
    <2>1. judged \subseteq Blocks \X Information
      BY DEF PhasedInv, TypeOK
    <2>2. memory[k].corrections \in Information
      BY <1>1 DEF Matrices
    <2>3. judged' \subseteq Blocks \X Information
      BY <1>12, <2>1, <2>2
    <2> QED
      BY <1>0, <1>8, <1>14, <2>3 DEF PhasedInv, TypeOK
  <1>16. Position' /\ Reported'
    BY <1>0, <1>1, <1>14 DEF PhasedInv, Position, Reported, AfterAdjustment, ReversePcs
  <1> QED
    BY <1>14, <1>15, <1>16 DEF PhasedInv
-----------------------------------------------------------------------------
(* After the reverse run.                                                   *)

LEMMA EndIterationStep ==
  ASSUME PhasedInv, EndIteration
  PROVE  PhasedInv'
  <1>0. /\ pc = "end" /\ ~cancelled /\ block' = 0
        /\ stations' = stations /\ mode' = mode /\ iteration' = iteration
        /\ memory' = memory /\ disk' = disk /\ judged' = judged
        /\ cancelled' = cancelled /\ statistics' = statistics
        /\ converged' \in BOOLEAN
        /\ pc' = IF converged' \/ mode = "block1" THEN "validate" ELSE "update"
        /\ status' = IF ~converged' /\ mode = "block1" THEN "ADJUST_THRESHOLD_EXCEEDED" ELSE status
    BY DEF EndIteration
  <1>1. /\ iteration \in Nat /\ 0 \in Blocks /\ status = "ADJUST_SUCCESS" /\ iteration >= 1
        /\ mode \in {"phased", "block1"} /\ (Stage => mode = "phased")
    BY <1>0, Basics, BlockFacts DEF PhasedInv, Position, Reported, AfterAdjustment
  <1>2. Loaded' = Loaded /\ \A b \in Blocks : Latest(b)' = Latest(b)
    BY <1>0, NoneChanged
  <1>3. \A b \in Blocks : Finished(Latest(b), b, iteration - 1)
    BY <1>0 DEF PhasedInv, Ending
  <1>4. \A b \in Blocks : Finished(Latest(b), b, iteration - 1)'
    BY <1>0, <1>2, <1>3, Rigid
  <1>5. TypeOK'
    BY <1>0, <1>1 DEF PhasedInv, TypeOK
  <1>6. Position'
    BY <1>0, <1>1 DEF PhasedInv, Position
  <1>7. Reported'
    BY <1>0, <1>1 DEF Reported, AfterAdjustment
  <1>8. Loading'
    <2>1. (~Stage => Loaded = Blocks) /\ (Stage => Loaded = {})
      BY <1>0 DEF PhasedInv, Loading
    <2> QED
      BY <1>0, <1>1, <1>2, <2>1 DEF Loading
  <1>9. Judging' /\ Starting' /\ ForwardRun' /\ ReverseRun' /\ Ending'
    BY <1>0 DEF Judging, Starting, ForwardRun, ReverseRun, ReversePcs, Ending
  <1>10. Updating'
    <2>1. \A b \in Blocks : ~(b < 0)
      BY BlockFacts
    <2> QED
      BY <1>0, <1>4, <2>1 DEF Updating
  <1>11. Validating'
    BY <1>0, <1>4 DEF Validating
  <1>12. Publishing' /\ Computed'
    BY <1>0 DEF Publishing, Computed, AfterAdjustment
  <1> QED
    BY <1>5, <1>6, <1>7, <1>8, <1>9, <1>10, <1>11, <1>12 DEF PhasedInv

LEMMA LeaveLoopStep ==
  ASSUME PhasedInv, LeaveLoop
  PROVE  PhasedInv'
  <1>0. /\ pc = "start" /\ pc' = "validate" /\ iteration = MaxIterations
        /\ stations' = stations /\ mode' = mode /\ iteration' = iteration /\ block' = block
        /\ memory' = memory /\ disk' = disk /\ judged' = judged /\ converged' = converged
        /\ cancelled' = cancelled /\ statistics' = statistics /\ status' = status
    BY DEF LeaveLoop, results
  <1>1. /\ iteration \in Nat /\ iteration >= 1 /\ status = "ADJUST_SUCCESS" /\ ~converged
        /\ mode = "phased"
    BY <1>0, Basics, MaxIterationsAssumption
       DEF PhasedInv, Position, Reported, AfterAdjustment, ReversePcs
  <1>2. Loaded' = Loaded /\ \A b \in Blocks : Latest(b)' = Latest(b)
    BY <1>0, NoneChanged
  <1>3. \A b \in Blocks : Fresh(Latest(b), b, iteration)'
    BY <1>0, <1>2, Rigid DEF PhasedInv, Starting
  <1>5. TypeOK'
    BY <1>0 DEF PhasedInv, TypeOK
  <1>6. Position' /\ Reported'
    BY <1>0, <1>1 DEF Position, Reported, AfterAdjustment
  <1>8. Loading'
    <2>1. (~Stage => Loaded = Blocks) /\ (Stage => Loaded = {})
      BY <1>0 DEF PhasedInv, Loading
    <2> QED
      BY <1>0, <1>2, <2>1, BlockFacts DEF Loading
  <1>9. Judging' /\ Starting' /\ ForwardRun' /\ ReverseRun' /\ Ending' /\ Updating'
    BY <1>0 DEF Judging, Starting, ForwardRun, ReverseRun, ReversePcs, Ending, Updating
  <1>11. Validating'
    BY <1>0, <1>1, <1>3 DEF Validating
  <1>12. Publishing' /\ Computed'
    BY <1>0 DEF Publishing, Computed, AfterAdjustment
  <1> QED
    BY <1>5, <1>6, <1>8, <1>9, <1>11, <1>12 DEF PhasedInv

LEMMA LeaveCancelledStep ==
  ASSUME PhasedInv, LeaveCancelled
  PROVE  PhasedInv'
  <1>0. /\ pc \in {"start", "forward", "prepare reverse", "end", "update"} /\ pc' = "validate"
        /\ cancelled
        /\ stations' = stations /\ mode' = mode /\ iteration' = iteration /\ block' = block
        /\ memory' = memory /\ disk' = disk /\ judged' = judged /\ converged' = converged
        /\ cancelled' = cancelled /\ statistics' = statistics /\ status' = status
    BY DEF LeaveCancelled, results
  <1>1. Loaded' = Loaded
    BY <1>0, NoneChanged
  <1>2. TypeOK'
    BY <1>0 DEF PhasedInv, TypeOK
  <1>3. Position' /\ Reported'
    BY <1>0 DEF PhasedInv, Position, Reported, AfterAdjustment
  <1>4. Loading'
    BY <1>0, <1>1 DEF PhasedInv, Loading
  <1>5. Judging' /\ Starting' /\ ForwardRun' /\ ReverseRun' /\ Ending' /\ Updating'
    BY <1>0 DEF Judging, Starting, ForwardRun, ReverseRun, ReversePcs, Ending, Updating
  <1>6. Validating' /\ Publishing' /\ Computed'
    BY <1>0 DEF Validating, Publishing, Computed, AfterAdjustment
  <1> QED
    BY <1>2, <1>3, <1>4, <1>5, <1>6 DEF PhasedInv

LEMMA SolveFailsStep ==
  ASSUME PhasedInv, SolveFails
  PROVE  PhasedInv'
  <1>0. /\ pc \in {"forward", "reverse", "combine"} /\ pc' = "done"
        /\ status' = "ADJUST_EXCEPTION_RAISED"
        /\ stations' = stations /\ mode' = mode /\ iteration' = iteration /\ block' = block
        /\ memory' = memory /\ disk' = disk /\ judged' = judged /\ converged' = converged
        /\ cancelled' = cancelled /\ statistics' = statistics
    BY DEF SolveFails
  <1>1. Loaded' = Loaded
    BY <1>0, NoneChanged
  <1>2. TypeOK'
    BY <1>0 DEF PhasedInv, TypeOK, AfterAdjustment
  <1>3. Position' /\ Reported'
    BY <1>0 DEF PhasedInv, Position, Reported, AfterAdjustment
  <1>4. Loading'
    BY <1>0, <1>1 DEF PhasedInv, Loading
  <1>5. Judging' /\ Starting' /\ ForwardRun' /\ ReverseRun' /\ Ending' /\ Updating'
    BY <1>0 DEF Judging, Starting, ForwardRun, ReverseRun, ReversePcs, Ending, Updating
  <1>6. Validating' /\ Publishing' /\ Computed'
    BY <1>0 DEF Validating, Publishing, Computed, AfterAdjustment
  <1> QED
    BY <1>2, <1>3, <1>4, <1>5, <1>6 DEF PhasedInv
(* One block of UpdateAdjustment, in memory or on disk.                     *)
LEMMA BlockUpdated ==
  ASSUME Typed, NEW k \in Blocks, k = block, NEW iterate \in BOOLEAN,
         UpdateAdjustment(iterate),
         ~Stage => Loaded = Blocks, Stage => Loaded = {},
         NEW x \in Matrices, x # Unloaded,
         x = IF Stage
             THEN RestoreLast(k, disk[k])
             ELSE IF iterate
                  THEN FormForward(k, RestoreLast(k, memory[k]))
                  ELSE FillDesign(RestoreLast(k, memory[k]))
  PROVE  /\ memory' \in [Blocks -> Matrices] /\ disk' \in [Blocks -> Matrices]
         /\ Latest(k)' = x
         /\ \A d \in Blocks : d # k => Latest(d)' = Latest(d)
         /\ Loaded' = Loaded
  <1>1. CASE Stage
    <2>1. memory' = memory /\ disk' = [disk EXCEPT ![k] = x]
      BY <1>1 DEF UpdateAdjustment, Typed
    <2>2. /\ disk' \in [Blocks -> Matrices] /\ disk'[k] = x
          /\ \A d \in Blocks : d # k => disk'[d] = disk[d]
      BY <2>1 DEF Typed
    <2>3. Unloaded' = Unloaded
      BY DEF Unloaded, Zero, NotFormed, Nothing
    <2>4. Loaded' = Loaded
      BY <2>1, <2>3 DEF Loaded
    <2>5. memory'[k] = Unloaded
      BY <1>1, <2>1 DEF Loaded
    <2>6. Latest(k)' = x
      BY <2>2, <2>5, LatestIs
    <2>7. \A d \in Blocks : d # k => Latest(d)' = Latest(d)
      BY <2>1, <2>2, LatestIs
    <2> QED
      BY <2>1, <2>2, <2>4, <2>6, <2>7 DEF Typed
  <1>2. CASE ~Stage
    <2>1. memory' = [memory EXCEPT ![k] = x] /\ disk' = disk
      BY <1>2 DEF UpdateAdjustment, Keep
    <2>2. /\ memory' \in [Blocks -> Matrices] /\ disk' \in [Blocks -> Matrices]
          /\ Latest(k)' = x
          /\ \A d \in Blocks : d # k => Latest(d)' = Latest(d)
          /\ Loaded' = Loaded \cup {k}
      BY <2>1, OneChanged
    <2> QED
      BY <1>2, <2>2
  <1> QED
    BY <1>1, <1>2

LEMMA UpdateBlockStep ==
  ASSUME PhasedInv, UpdateBlock
  PROVE  PhasedInv'
  <1>0. /\ pc = "update" /\ ~cancelled /\ UpdateAdjustment(TRUE)
        /\ block = BlockCount - 1 => pc' = "start" /\ block' = 0
        /\ block # BlockCount - 1 => pc' = "update" /\ block' = block + 1
        /\ stations' = stations /\ mode' = mode /\ iteration' = iteration
        /\ judged' = judged /\ converged' = converged
        /\ cancelled' = cancelled /\ statistics' = statistics /\ status' = status
    BY DEF UpdateBlock, NextBlock, results
  <1>1. /\ Typed /\ block \in Blocks /\ iteration \in Nat /\ iteration >= 1 /\ ~converged
        /\ mode = "phased" /\ status = "ADJUST_SUCCESS" /\ 0 \in Blocks
        /\ iteration - 1 \in Nat /\ (iteration - 1) + 1 = iteration
        /\ \A b \in Blocks : memory[b] \in Matrices /\ disk[b] \in Matrices
    BY <1>0, Basics, BlockFacts DEF PhasedInv, Position, Reported, AfterAdjustment, ReversePcs
  <1>2. /\ \A b \in Blocks : b < block => Fresh(Latest(b), b, iteration)
        /\ \A b \in Blocks : b >= block => Finished(Latest(b), b, iteration - 1)
    BY <1>0 DEF PhasedInv, Updating
  <1>3. (~Stage => Loaded = Blocks) /\ (Stage => Loaded = {})
    BY <1>0 DEF PhasedInv, Loading
  <1>4. PICK k \in Blocks : k = block
    BY <1>1
  <1>5. k \in Nat /\ Finished(Latest(k), k, iteration - 1)
    BY <1>2, <1>4, BlockFacts
  <1> DEFINE x == IF Stage
                  THEN RestoreLast(k, disk[k])
                  ELSE FormForward(k, RestoreLast(k, memory[k]))
  <1>6. x \in Matrices /\ Fresh(x, k, iteration)
    <2>1. CASE Stage
      <3>1. Finished(disk[k], k, iteration - 1)
        BY <1>3, <1>5, <2>1, LatestIs
      <3> QED
        BY <1>1, <2>1, <3>1, FreshAgain
    <2>2. CASE ~Stage
      <3>1. Finished(memory[k], k, iteration - 1)
        BY <1>3, <1>5, <2>2, LatestIs
      <3> QED
        BY <1>1, <2>2, <3>1, FreshAgain
    <2> QED
      BY <2>1, <2>2
  <1>7. x # Unloaded
    BY <1>1, <1>6, Real
  <1>8. /\ memory' \in [Blocks -> Matrices] /\ disk' \in [Blocks -> Matrices]
        /\ Latest(k)' = x
        /\ \A d \in Blocks : d # k => Latest(d)' = Latest(d)
        /\ Loaded' = Loaded
    BY <1>0, <1>1, <1>3, <1>4, <1>6, <1>7, BlockUpdated
  <1> HIDE DEF x
  <1>9. ASSUME NEW b \in Blocks
        PROVE  /\ b <= k => Fresh(Latest(b)', b, iteration)
               /\ b > k => Finished(Latest(b)', b, iteration - 1)
    <2>1. b \in Nat
      BY BlockFacts
    <2>2. (b <= k <=> b < k \/ b = k) /\ (b < k => b # k) /\ (b > k => b >= k /\ b # k)
      BY <1>5, <2>1
    <2> QED
      BY <1>2, <1>4, <1>6, <1>8, <2>2
  <1>10. Loading' /\ Position' /\ Reported' /\ block' \in Blocks
    <2>1. block' \in Blocks
      BY <1>0, <1>1, BlockFacts
    <2>2. Position'
      BY <1>0, <1>1 DEF Position, ReversePcs
    <2>3. Reported'
      BY <1>0, <1>1 DEF Reported, AfterAdjustment
    <2>4. Loading'
      BY <1>0, <1>1, <1>3, <1>8 DEF Loading
    <2> QED
      BY <2>1, <2>2, <2>3, <2>4
  <1>11. TypeOK'
    BY <1>0, <1>8, <1>10 DEF PhasedInv, TypeOK
  <1>12. /\ Judging' /\ ForwardRun' /\ ReverseRun' /\ Ending'
         /\ Validating' /\ Publishing' /\ Computed'
    BY <1>0 DEF Judging, ForwardRun, ReverseRun, ReversePcs, Ending, Validating, Publishing,
                Computed, AfterAdjustment
  <1>13. Starting' /\ Updating'
    <2>1. CASE block = BlockCount - 1
      <3>1. \A b \in Blocks : b <= k
        BY <1>4, <2>1, BlockFacts
      <3>2. \A b \in Blocks : Fresh(Latest(b), b, iteration)'
        BY <1>0, <1>9, <3>1, Rigid
      <3> QED
        BY <1>0, <2>1, <3>2 DEF Starting, Updating
    <2>2. CASE block # BlockCount - 1
      <3>1. pc' = "update" /\ block' = k + 1
        BY <1>0, <1>4, <2>2
      <3>2. ASSUME NEW b \in Blocks
            PROVE  (b < block' <=> b <= k) /\ (b >= block' <=> b > k)
        BY <1>5, <3>1, BlockFacts
      <3>3. ASSUME NEW b \in Blocks
            PROVE  /\ b < block' => Fresh(Latest(b), b, iteration)'
                   /\ b >= block' => Finished(Latest(b), b, iteration - 1)'
        BY <1>0, <1>9, <3>2, Rigid
      <3> QED
        BY <3>1, <3>3 DEF Starting, Updating
    <2> QED
      BY <2>1, <2>2
  <1> QED
    BY <1>10, <1>11, <1>12, <1>13 DEF PhasedInv

LEMMA ValidateStep ==
  ASSUME PhasedInv, Validate
  PROVE  PhasedInv'
  <1>0. /\ pc = "validate" /\ block' = 0
        /\ pc' = IF cancelled \/ mode = "block1" THEN "done" ELSE "last update"
        /\ status' = IF cancelled
                     THEN "ADJUST_CANCELLED"
                     ELSE IF iteration = MaxIterations /\ ~converged
                          THEN "ADJUST_MAX_ITERATIONS_EXCEEDED"
                          ELSE status
        /\ stations' = stations /\ mode' = mode /\ iteration' = iteration
        /\ memory' = memory /\ disk' = disk /\ judged' = judged /\ converged' = converged
        /\ cancelled' = cancelled /\ statistics' = statistics
    BY DEF Validate
  <1>1. /\ iteration \in Nat /\ mode \in {"phased", "block1"} /\ 0 \in Blocks
        /\ cancelled \in BOOLEAN /\ (Stage => mode = "phased")
        /\ ~cancelled => iteration >= 1
        /\ mode = "block1" => iteration = 1
        /\ \/ status = "ADJUST_SUCCESS"
           \/ status = "ADJUST_THRESHOLD_EXCEEDED" /\ mode = "block1"
    <2>1. cancelled \in BOOLEAN
      BY DEF PhasedInv, TypeOK
    <2>2. /\ ~cancelled => iteration >= 1
          /\ mode = "block1" => iteration = 1
      BY <1>0 DEF PhasedInv, Position
    <2>3. \/ status = "ADJUST_SUCCESS"
          \/ status = "ADJUST_THRESHOLD_EXCEEDED" /\ mode = "block1"
      BY <1>0 DEF PhasedInv, Reported, AfterAdjustment
    <2> QED
      BY <2>1, <2>2, <2>3, Basics, BlockFacts
  <1>2. Loaded' = Loaded /\ \A b \in Blocks : Latest(b)' = Latest(b)
    BY <1>0, NoneChanged
  <1>3. ~cancelled =>
           IF converged \/ mode = "block1"
           THEN \A b \in Blocks : Finished(Latest(b), b, iteration - 1)
           ELSE iteration = MaxIterations /\ \A b \in Blocks : Fresh(Latest(b), b, iteration)
    BY <1>0 DEF PhasedInv, Validating
  <1>4. TypeOK'
    BY <1>0, <1>1 DEF PhasedInv, TypeOK, AfterAdjustment
  <1>5. Position'
    BY <1>0, <1>1 DEF PhasedInv, Position, ReversePcs
  <1>6. Reported'
    BY <1>0, <1>1 DEF Reported, AfterAdjustment
  <1>7. Loading'
    BY <1>0, <1>1, <1>2 DEF PhasedInv, Loading
  <1>8. /\ Judging' /\ Starting' /\ ForwardRun' /\ ReverseRun' /\ Ending' /\ Updating'
        /\ Validating'
    BY <1>0 DEF Judging, Starting, ForwardRun, ReverseRun, ReversePcs, Ending, Updating, Validating
  <1>9. Computed'
    BY <1>0, <1>1 DEF Computed
  <1>10. Publishing'
    <2>1. CASE cancelled
      BY <1>0, <2>1 DEF Publishing
    <2>2. CASE ~cancelled
      <3>0. iteration \in Nat /\ iteration >= 1 /\ (iteration - 1) + 1 = iteration
        BY <1>1, <2>2
      <3>1. \A b \in Promised : b \in Blocks
        BY DEF Promised
      <3>2. ASSUME NEW b \in Promised
            PROVE  Latest(b).rigorous = From(Whole(b), iteration)
        <4>1. CASE converged \/ mode = "block1"
          BY <1>3, <2>2, <3>0, <3>1, <4>1 DEF Finished
        <4>2. CASE ~(converged \/ mode = "block1")
          <5>1. Fresh(Latest(b), b, iteration)
            BY <1>3, <2>2, <3>1, <4>2
          <5> QED
            BY <3>0, <5>1 DEF Fresh, Known
        <4> QED
          BY <4>1, <4>2
      <3>3. ASSUME NEW b \in Promised'
            PROVE  (Latest(b).rigorous = From(Whole(b), iteration))'
        <4>1. b \in Promised
          BY <1>0, RigidInformation
        <4>2. Latest(b)'.rigorous = From(Whole(b), iteration)
          BY <1>2, <3>1, <3>2, <4>1
        <4> QED
          BY <1>0, <4>2, RigidInformation DEF From
      <3>4. ASSUME status' = "ADJUST_SUCCESS", mode = "phased", NEW b \in Blocks
            PROVE  Finished(Latest(b), b, iteration - 1)'
        <4>1. converged
          BY <1>0, <1>1, <1>3, <2>2, <3>4
        <4> QED
          BY <1>0, <1>2, <1>3, <2>2, <4>1, Rigid
      <3>5. \A b \in Blocks : ~(b < 0)
        BY BlockFacts
      <3>6. status' = "ADJUST_SUCCESS" /\ mode = "phased" => Restored(block)'
        BY <1>0, <3>4, <3>5 DEF Restored
      <3> QED
        BY <1>0, <3>3, <3>6 DEF Publishing
    <2> QED
      BY <2>1, <2>2
  <1> QED
    BY <1>4, <1>5, <1>6, <1>7, <1>8, <1>9, <1>10 DEF PhasedInv

-----------------------------------------------------------------------------
(* The statistics.                                                          *)

LEMMA RoundBefore ==
  ASSUME NEW n \in Nat, n >= 1
  PROVE  n - 1 \in Nat /\ (n - 1) + 1 = n
  OBVIOUS

(* What a step that computes them finds.                                    *)
LEMMA InStatistics ==
  ASSUME PhasedInv, pc \in {"last update", "precision", "chi-square"}
  PROVE  /\ Typed /\ block \in Blocks /\ iteration \in Nat /\ iteration >= 1 /\ mode = "phased"
         /\ iteration - 1 \in Nat /\ (iteration - 1) + 1 = iteration
         /\ \A b \in Blocks : memory[b] \in Matrices /\ disk[b] \in Matrices
         /\ status \in {"ADJUST_SUCCESS", "ADJUST_MAX_ITERATIONS_EXCEEDED"}
         /\ (~Stage => Loaded = Blocks) /\ (Stage => Loaded = {})
         /\ \A b \in Blocks : Latest(b).rigorous = From(Whole(b), iteration)
         /\ pc = "last update" /\ status = "ADJUST_SUCCESS" => Restored(block)
         /\ pc # "last update" /\ status = "ADJUST_SUCCESS" =>
               \E n \in 0 .. BlockCount : ComputedAfter(n)
         /\ 0 \in Blocks /\ stations \in Placements
  <1>1. Typed /\ block \in Blocks /\ iteration \in Nat
        /\ \A b \in Blocks : memory[b] \in Matrices /\ disk[b] \in Matrices
    BY Basics
  <1>2. iteration >= 1 /\ mode = "phased"
    BY Basics DEF PhasedInv, Position, ReversePcs
  <1>3. status \in {"ADJUST_SUCCESS", "ADJUST_MAX_ITERATIONS_EXCEEDED"}
    BY DEF PhasedInv, Reported, AfterAdjustment
  <1>4. (~Stage => Loaded = Blocks) /\ (Stage => Loaded = {})
    BY DEF PhasedInv, Loading
  <1>5. Promised = Blocks
    BY <1>2 DEF Promised
  <1>6. pc \in AfterAdjustment
    BY DEF AfterAdjustment
  <1>7. \A b \in Blocks : Latest(b).rigorous = From(Whole(b), iteration)
    BY <1>3, <1>5, <1>6 DEF PhasedInv, Publishing
  <1>8. /\ pc = "last update" /\ status = "ADJUST_SUCCESS" => Restored(block)
        /\ pc # "last update" /\ status = "ADJUST_SUCCESS" =>
              \E n \in 0 .. BlockCount : ComputedAfter(n)
    BY <1>2 DEF PhasedInv, Publishing, Computed
  <1>9. iteration - 1 \in Nat /\ (iteration - 1) + 1 = iteration
    <2>1. iteration \in Nat /\ iteration >= 1
      BY <1>1, <1>2
    <2> QED
      BY <2>1, RoundBefore
  <1>10. 0 \in Blocks /\ stations \in Placements
    BY BlockFacts DEF PhasedInv, TypeOK
  <1> QED
    BY <1>1, <1>2, <1>3, <1>4, <1>7, <1>8, <1>9, <1>10

(* Most of the invariant is about what comes before.                        *)
LEMMA OnlyStatistics ==
  ASSUME pc' \in {"last update", "precision", "chi-square", "done"}
  PROVE  /\ Judging' /\ Starting' /\ ForwardRun' /\ ReverseRun' /\ Ending' /\ Updating'
         /\ Validating'
  BY DEF Judging, Starting, ForwardRun, ReverseRun, ReversePcs, Ending, Updating, Validating

LEMMA RestoredKept ==
  ASSUME stations' = stations, mode' = mode, iteration' = iteration, memory' = memory,
         disk' = disk, NEW n
  PROVE  Restored(n)' <=> Restored(n)
  <1>1. \A b \in Blocks : Latest(b)' = Latest(b)
    BY NoneChanged
  <1> QED
    BY <1>1, Rigid DEF Restored

LEMMA RigorousKept ==
  ASSUME NEW b \in Blocks, NEW m \in Matrices
  PROVE  /\ RestoreLast(b, m) \in Matrices /\ RestoreLast(b, m).rigorous = m.rigorous
         /\ FillDesign(RestoreLast(b, m)) \in Matrices
         /\ FillDesign(RestoreLast(b, m)).rigorous = m.rigorous
  <1>1. RestoreLast(b, m) \in Matrices /\ RestoreLast(b, m).rigorous = m.rigorous
    BY DEF RestoreLast, Matrices
  <1> QED
    BY <1>1 DEF FillDesign, Matrices

LEMMA LastUpdateStep ==
  ASSUME PhasedInv, LastUpdate
  PROVE  PhasedInv'
  <1>0. /\ pc = "last update" /\ UpdateAdjustment(FALSE) /\ ~cancelled
        /\ block = BlockCount - 1 => pc' = "precision" /\ block' = 0
        /\ block # BlockCount - 1 => pc' = "last update" /\ block' = block + 1
        /\ stations' = stations /\ mode' = mode /\ iteration' = iteration
        /\ judged' = judged /\ converged' = converged
        /\ cancelled' = cancelled /\ statistics' = statistics /\ status' = status
    BY DEF LastUpdate, NextBlock, results
  <1>1. /\ Typed /\ block \in Blocks /\ iteration \in Nat /\ iteration >= 1 /\ mode = "phased"
        /\ iteration - 1 \in Nat /\ (iteration - 1) + 1 = iteration
        /\ \A b \in Blocks : memory[b] \in Matrices /\ disk[b] \in Matrices
        /\ status \in {"ADJUST_SUCCESS", "ADJUST_MAX_ITERATIONS_EXCEEDED"}
        /\ (~Stage => Loaded = Blocks) /\ (Stage => Loaded = {})
        /\ 0 \in Blocks
    BY <1>0, InStatistics
  <1>2. /\ \A b \in Blocks : Latest(b).rigorous = From(Whole(b), iteration)
        /\ status = "ADJUST_SUCCESS" => \A b \in Blocks :
              IF b < block
              THEN Final(Latest(b), b, iteration - 1)
              ELSE Finished(Latest(b), b, iteration - 1)
    BY <1>0, InStatistics DEF Restored
  <1>3. PICK k \in Blocks : k = block
    BY <1>1
  <1>4. k \in Nat
    BY BlockFacts
  <1> DEFINE m == IF Stage THEN disk[k] ELSE memory[k]
             x == IF Stage
                  THEN RestoreLast(k, disk[k])
                  ELSE FillDesign(RestoreLast(k, memory[k]))
  <1>5. Latest(k) = m /\ m \in Matrices
    BY <1>1, LatestIs
  <1>6. x \in Matrices /\ x.rigorous = From(Whole(k), iteration)
    BY <1>1, <1>2, <1>5, RigorousKept
  <1>7. x # Unloaded
    BY <1>1, <1>6, UnloadedType DEF From
  <1>8. status = "ADJUST_SUCCESS" => Final(x, k, iteration - 1)
    <2>1. status = "ADJUST_SUCCESS" => Finished(m, k, iteration - 1)
      BY <1>2, <1>3, <1>4, <1>5
    <2>2. CASE Stage
      BY <1>1, <1>5, <2>1, <2>2, FinalBlock
    <2>3. CASE ~Stage
      BY <1>1, <1>5, <2>1, <2>3, FinalBlock
    <2> QED
      BY <2>2, <2>3
  <1>9. /\ memory' \in [Blocks -> Matrices] /\ disk' \in [Blocks -> Matrices]
        /\ Latest(k)' = x
        /\ \A d \in Blocks : d # k => Latest(d)' = Latest(d)
        /\ Loaded' = Loaded
    <2>1. x = IF Stage
              THEN RestoreLast(k, disk[k])
              ELSE IF FALSE
                   THEN FormForward(k, RestoreLast(k, memory[k]))
                   ELSE FillDesign(RestoreLast(k, memory[k]))
      OBVIOUS
    <2> HIDE DEF x
    <2> QED
      BY <1>0, <1>1, <1>3, <1>6, <1>7, <2>1, BlockUpdated
  <1> HIDE DEF x, m
  <1>10. \A b \in Blocks : Latest(b)'.rigorous = From(Whole(b), iteration)
    BY <1>2, <1>6, <1>9
  <1>11. ASSUME status = "ADJUST_SUCCESS", NEW b \in Blocks
         PROVE  /\ b <= k => Final(Latest(b)', b, iteration - 1)
                /\ b > k => Finished(Latest(b)', b, iteration - 1)
    <2>1. b \in Nat
      BY BlockFacts
    <2>2. /\ b <= k => b = k \/ (b # k /\ b < k)
          /\ b > k => b # k /\ ~(b < k)
      BY <1>4, <2>1
    <2> QED
      BY <1>2, <1>3, <1>8, <1>9, <1>11, <2>2
  <1>12. block' \in Blocks /\ pc' \in {"last update", "precision"}
    BY <1>0, <1>1, BlockFacts
  <1>13. TypeOK'
    BY <1>0, <1>9, <1>12 DEF PhasedInv, TypeOK, AfterAdjustment
  <1>14. Position' /\ Reported'
    BY <1>0, <1>1, <1>12 DEF Position, Reported, AfterAdjustment
  <1>15. Loading'
    BY <1>0, <1>1, <1>9, <1>12 DEF Loading
  <1>16. ASSUME status = "ADJUST_SUCCESS", NEW n \in 0 .. BlockCount, n = k + 1
         PROVE  Restored(n)'
    <2>1. ASSUME NEW b \in Blocks
          PROVE  (b < n <=> b <= k) /\ (~(b < n) <=> b > k)
      BY <1>4, <1>16, BlockFacts
    <2> QED
      BY <1>0, <1>11, <1>16, <2>1, Rigid DEF Restored
  <1>17. PICK n \in 0 .. BlockCount : n = k + 1
    BY BlockFacts DEF Blocks
  <1>18. Computed'
    <2>1. \A b \in Blocks : ~(b < 0)
      BY BlockFacts
    <2>2. ASSUME status = "ADJUST_SUCCESS", pc' = "precision"
          PROVE  ComputedAfter(n)'
      <3>1. block' = 0 /\ k = BlockCount - 1
        BY <1>0, <1>3, <2>2
      <3>2. n = BlockCount
        BY <1>17, <3>1, BlockFacts
      <3> QED
        BY <1>16, <1>17, <2>1, <2>2, <3>1, <3>2 DEF ComputedAfter
    <2> QED
      BY <1>0, <1>12, <2>2 DEF Computed
  <1>19. Publishing'
    <2>1. ASSUME NEW b \in Promised'
          PROVE  (Latest(b).rigorous = From(Whole(b), iteration))'
      <3>1. b \in Blocks
        BY DEF Promised
      <3> QED
        BY <1>0, <1>10, <3>1, RigidInformation DEF From
    <2>2. ASSUME status' = "ADJUST_SUCCESS", pc' = "last update"
          PROVE  Restored(block)'
      <3>1. block' = n /\ status = "ADJUST_SUCCESS"
        BY <1>0, <1>3, <1>17, <2>2
      <3> QED
        BY <1>16, <1>17, <3>1 DEF Restored
    <2> QED
      BY <2>1, <2>2 DEF Publishing
  <1> QED
    BY <1>12, <1>13, <1>14, <1>15, <1>18, <1>19, OnlyStatistics DEF PhasedInv

(* The blocks that the last update has reached when it breaks off are those *)
(* before the one it was at.                                                *)
LEMMA LeaveLastUpdateStep ==
  ASSUME PhasedInv, LeaveLastUpdate
  PROVE  PhasedInv'
  <1>0. /\ pc = "last update" /\ cancelled /\ pc' = "precision" /\ block' = 0
        /\ stations' = stations /\ mode' = mode /\ iteration' = iteration
        /\ memory' = memory /\ disk' = disk /\ judged' = judged /\ converged' = converged
        /\ cancelled' = cancelled /\ statistics' = statistics /\ status' = status
    BY DEF LeaveLastUpdate, results
  <1>1. /\ iteration \in Nat /\ iteration >= 1 /\ mode = "phased" /\ 0 \in Blocks
        /\ status \in {"ADJUST_SUCCESS", "ADJUST_MAX_ITERATIONS_EXCEEDED"}
        /\ (~Stage => Loaded = Blocks) /\ (Stage => Loaded = {})
        /\ \A b \in Blocks : Latest(b).rigorous = From(Whole(b), iteration)
        /\ status = "ADJUST_SUCCESS" => Restored(block)
    BY <1>0, InStatistics
  <1>2. PICK n \in 0 .. BlockCount : n = block
    BY Basics, BlockFacts
  <1>3. Loaded' = Loaded /\ \A b \in Blocks : Latest(b)' = Latest(b)
    BY <1>0, NoneChanged
  <1>4. TypeOK'
    BY <1>0, <1>1 DEF PhasedInv, TypeOK, AfterAdjustment
  <1>5. Position' /\ Reported'
    BY <1>0, <1>1 DEF Position, Reported, AfterAdjustment
  <1>6. Loading'
    BY <1>0, <1>1, <1>3 DEF Loading
  <1>7. Publishing'
    <2>1. ASSUME NEW b \in Promised'
          PROVE  (Latest(b).rigorous = From(Whole(b), iteration))'
      <3>1. b \in Blocks
        BY DEF Promised
      <3> QED
        BY <1>0, <1>1, <1>3, <3>1, RigidInformation DEF From
    <2> QED
      BY <1>0, <2>1 DEF Publishing
  <1>8. Computed'
    <2>1. status = "ADJUST_SUCCESS" => Restored(n)
      BY <1>1, <1>2
    <2>2. status = "ADJUST_SUCCESS" => Restored(n)'
      BY <1>0, <2>1, RestoredKept
    <2>3. \A b \in Blocks : ~(b < 0)
      BY BlockFacts
    <2>4. status = "ADJUST_SUCCESS" => ComputedAfter(n)'
      BY <1>0, <2>2, <2>3 DEF ComputedAfter
    <2> QED
      BY <1>0, <2>4 DEF Computed
  <1> QED
    BY <1>0, <1>4, <1>5, <1>6, <1>7, <1>8, OnlyStatistics DEF PhasedInv

LEMMA ChiSquareTyped ==
  ASSUME statistics \in [Blocks -> Statistics], NEW k \in Blocks,
         NEW d \in Coordinates, NEW p, p = [statistics EXCEPT ![k].chiSquare = d]
  PROVE  /\ p \in [Blocks -> Statistics]
         /\ p[k].chiSquare = d
         /\ p[k].variances = statistics[k].variances
         /\ p[k].design = statistics[k].design
         /\ p[k].residuals = statistics[k].residuals
         /\ \A c \in Blocks : c # k => p[c] = statistics[c]
  BY DEF Statistics

(* A step that only adds to the statistics.                                 *)
LEMMA MatricesKept ==
  ASSUME PhasedInv, pc \in {"precision", "chi-square"}, pc' \in {"precision", "chi-square", "done"},
         stations' = stations, mode' = mode, iteration' = iteration, memory' = memory,
         disk' = disk, judged' = judged, converged' = converged, cancelled' = cancelled,
         status' = status, block' \in Blocks, statistics' \in [Blocks -> Statistics]
  PROVE  /\ TypeOK' /\ Position' /\ Reported' /\ Loading' /\ Publishing'
         /\ Judging' /\ Starting' /\ ForwardRun' /\ ReverseRun' /\ Ending' /\ Updating'
         /\ Validating'
  <1>1. Loaded' = Loaded /\ \A b \in Blocks : Latest(b)' = Latest(b)
    BY NoneChanged
  <1>2. TypeOK'
    BY DEF PhasedInv, TypeOK, AfterAdjustment
  <1>3. Position' /\ Reported'
    BY InStatistics DEF Position, Reported, AfterAdjustment
  <1>4. Loading'
    BY <1>1, InStatistics, BlockFacts DEF Loading
  <1>5. Publishing'
    <2>1. ASSUME NEW b \in Promised'
          PROVE  (Latest(b).rigorous = From(Whole(b), iteration))'
      <3>1. b \in Blocks
        BY DEF Promised
      <3> QED
        BY <1>1, <3>1, InStatistics, RigidInformation DEF From
    <2> QED
      BY <2>1 DEF Publishing
  <1> QED
    BY <1>2, <1>3, <1>4, <1>5, OnlyStatistics

LEMMA RigidStatistics ==
  ASSUME stations' = stations, mode' = mode, iteration' = iteration
  PROVE  /\ \A b, y : /\ statistics'[b].variances =
                            Inverted(IF Stage \/ y THEN Whole(b) ELSE SolvedLast(b))
                      /\ FormedFor(b, y, statistics'[b].design)
                      /\ FormedFor(b, y, statistics'[b].residuals)
                      => Precise(b, y)'
         /\ \A b, y : statistics'[b] = statistics[b] /\ Precise(b, y) => Precise(b, y)'
         /\ \A b, y : statistics'[b] = statistics[b] /\ ChiSquared(b, y) => ChiSquared(b, y)'
  BY RigidInformation DEF Precise, FormedFor, ChiSquared, From, Inverted

(* A statistics step has the statistics of one more block.                  *)
LEMMA FinalStatistics ==
  ASSUME mode = "phased", iteration \in Nat, iteration >= 1, stations \in Placements,
         NEW b \in Blocks, NEW y \in BOOLEAN, NEW m,
         IF y THEN Final(m, b, iteration - 1) ELSE Finished(m, b, iteration - 1)
  PROVE  /\ Stage => /\ m.variances = Inverted(Whole(b))
                     /\ FormedFor(b, y, m.estimated)
                     /\ m.computed.round = iteration - 1
         /\ ~Stage => /\ m.normals = Inverted(IF y THEN Whole(b) ELSE SolvedLast(b))
                      /\ FormedFor(b, y, m.design) /\ FormedFor(b, y, m.computed)
                      /\ IF y
                         THEN m.computed = From(Whole(b), iteration)
                         ELSE m.computed.round = iteration - 1
  <1>1. PICK r \in Nat : r = iteration - 1 /\ r + 1 = iteration
    BY RoundBefore
  <1>2. CASE y
    BY <1>1, <1>2 DEF Final, FormedFor
  <1>3. CASE ~y
    <2>1. /\ m.variances = Inverted(Whole(b))
          /\ m.normals = Inverted(SolvedLast(b))
          /\ m.estimated = From(SolvedLast(b), iteration)
          /\ m.design.round = r /\ m.computed.round = r
      BY <1>1, <1>3, UnreachedBlock
    <2> QED
      BY <1>1, <1>3, <2>1 DEF FormedFor
  <1> QED
    BY <1>2, <1>3

LEMMA PrecisionStep ==
  ASSUME PhasedInv, ComputeAdjustedMsrPrecisions
  PROVE  PhasedInv'
  <1> DEFINE m == IF Stage
                  THEN [FillDesign(DeserialiseBlock(block)) EXCEPT !.normals = disk[block].variances]
                  ELSE memory[block]
  <1>0. /\ pc = "precision"
        /\ statistics' = [statistics EXCEPT ![block] =
               [@ EXCEPT !.variances = m.normals, !.design = m.design, !.residuals = m.computed]]
        /\ block = BlockCount - 1 => pc' = "chi-square" /\ block' = 0
        /\ block # BlockCount - 1 => pc' = "precision" /\ block' = block + 1
        /\ stations' = stations /\ mode' = mode /\ iteration' = iteration
        /\ memory' = memory /\ disk' = disk /\ judged' = judged /\ converged' = converged
        /\ cancelled' = cancelled /\ status' = status
    BY DEF ComputeAdjustedMsrPrecisions, NextBlock
  <1>1. /\ Typed /\ block \in Blocks /\ iteration \in Nat /\ iteration >= 1 /\ mode = "phased"
        /\ iteration - 1 \in Nat /\ (iteration - 1) + 1 = iteration
        /\ memory[block] \in Matrices /\ disk[block] \in Matrices
        /\ (~Stage => Loaded = Blocks) /\ (Stage => Loaded = {})
        /\ 0 \in Blocks /\ block \in Nat /\ stations \in Placements
    BY <1>0, InStatistics, BlockFacts
  <1>2. status = "ADJUST_SUCCESS" => \E n \in 0 .. BlockCount : ComputedAfter(n)
    BY <1>0, InStatistics
  <1>3. /\ m.normals \in Variances /\ m.design \in Coordinates /\ m.computed \in Coordinates
        /\ Stage => /\ Latest(block).variances = m.normals
                    /\ Latest(block).estimated = m.design /\ m.computed = m.design
        /\ ~Stage => Latest(block) = m
    <2>1. CASE Stage
      <3> DEFINE d == DeserialiseBlock(block)
                 f == [FillDesign(d) EXCEPT !.normals = disk[block].variances]
      <3>1. d \in Matrices /\ d.estimated = disk[block].estimated
        BY <1>1, Deserialised
      <3> HIDE DEF d
      <3>2. /\ f \in Matrices
            /\ f.normals = disk[block].variances
            /\ f.design = d.estimated /\ f.computed = d.estimated
        BY <1>1, <3>1 DEF FillDesign, Matrices
      <3>3. m = f
        BY <2>1 DEF d
      <3> HIDE DEF f, m
      <3>4. Latest(block) = disk[block]
        BY <1>1, <2>1, LatestIs
      <3>5. /\ f.normals \in Variances /\ f.design \in Coordinates /\ f.computed \in Coordinates
        BY <3>2 DEF Matrices
      <3> QED
        BY <2>1, <3>1, <3>2, <3>3, <3>4, <3>5
    <2>2. CASE ~Stage
      <3>1. m = memory[block]
        BY <2>2
      <3> HIDE DEF m
      <3>2. Latest(block) = memory[block]
        BY <1>1, <2>2, LatestIs
      <3>3. m.normals \in Variances /\ m.design \in Coordinates /\ m.computed \in Coordinates
        BY <1>1, <3>1 DEF Matrices
      <3> QED
        BY <2>2, <3>1, <3>2, <3>3
    <2> QED
      BY <2>1, <2>2
  <1> HIDE DEF m
  <1>4. PICK k \in Blocks : k = block
    BY <1>1
  <1>5. /\ statistics' \in [Blocks -> Statistics]
        /\ statistics'[k].variances = m.normals
        /\ statistics'[k].design = m.design
        /\ statistics'[k].residuals = m.computed
        /\ \A c \in Blocks : c # k => statistics'[c] = statistics[c]
    <2>1. statistics \in [Blocks -> Statistics]
      BY DEF PhasedInv, TypeOK
    <2>2. statistics' = [statistics EXCEPT ![k] =
               [@ EXCEPT !.variances = m.normals, !.design = m.design, !.residuals = m.computed]]
      BY <1>0, <1>4
    <2>3. PICK v \in Variances, d \in Coordinates, e \in Coordinates :
             v = m.normals /\ d = m.design /\ e = m.computed
      BY <1>3
    <2> DEFINE x == [statistics[k] EXCEPT !.variances = v, !.design = d, !.residuals = e]
    <2>4. statistics' = [statistics EXCEPT ![k] = x]
      BY <2>2, <2>3
    <2>6. x \in Statistics /\ x.variances = v /\ x.design = d /\ x.residuals = e
      <3>1. statistics[k] \in Statistics
        BY <2>1
      <3> QED
        BY <3>1 DEF Statistics
    <2> HIDE DEF x
    <2>5. /\ statistics' \in [Blocks -> Statistics]
          /\ statistics'[k].variances = v
          /\ statistics'[k].design = d
          /\ statistics'[k].residuals = e
          /\ \A c \in Blocks : c # k => statistics'[c] = statistics[c]
      BY <2>1, <2>4, <2>6
    <2> QED
      BY <2>3, <2>5
  <1>6. block' \in Blocks /\ pc' \in {"precision", "chi-square"}
    BY <1>0, <1>1, BlockFacts
  <1>7. ASSUME status = "ADJUST_SUCCESS", NEW n \in 0 .. BlockCount, ComputedAfter(n)
        PROVE  ComputedAfter(n)'
    <2>1. Precise(k, k < n)'
      <3>1. IF k < n
            THEN Final(Latest(k), k, iteration - 1)
            ELSE Finished(Latest(k), k, iteration - 1)
        BY <1>7 DEF ComputedAfter, Restored
      <3>2. (k < n) \in BOOLEAN
        OBVIOUS
      <3>3. /\ m.normals = Inverted(IF Stage \/ k < n THEN Whole(k) ELSE SolvedLast(k))
            /\ FormedFor(k, k < n, m.design) /\ FormedFor(k, k < n, m.computed)
        BY <1>1, <1>3, <1>4, <3>1, <3>2, FinalStatistics
      <3> QED
        BY <1>0, <1>5, <3>3, RigidStatistics
    <2>2. ASSUME NEW b \in Blocks, b <= k
          PROVE  Precise(b, b < n)'
      <3>1. b = k \/ (b < k /\ b # k)
        BY <2>2, BlockFacts
      <3>2. CASE b < k /\ b # k
        <4>1. Precise(b, b < n)
          BY <1>4, <1>7, <3>2 DEF ComputedAfter
        <4> QED
          BY <1>0, <1>5, <3>2, <4>1, RigidStatistics
      <3> QED
        BY <2>1, <3>1, <3>2
    <2>3. Restored(n)' /\ (~cancelled' => n = BlockCount)
      BY <1>0, <1>7, RestoredKept DEF ComputedAfter
    <2>4. CASE block = BlockCount - 1
      <3>1. pc' = "chi-square" /\ block' = 0 /\ \A b \in Blocks : b <= k /\ ~(b < 0)
        BY <1>0, <1>4, <2>4, BlockFacts
      <3> QED
        BY <2>2, <2>3, <3>1 DEF ComputedAfter
    <2>5. CASE block # BlockCount - 1
      <3>1. pc' = "precision" /\ block' = k + 1
        BY <1>0, <1>4, <2>5
      <3>2. \A b \in Blocks : b < block' => b <= k
        BY <3>1, BlockFacts
      <3> QED
        BY <2>2, <2>3, <3>1, <3>2 DEF ComputedAfter
    <2> QED
      BY <2>4, <2>5
  <1>8. Computed'
    BY <1>0, <1>2, <1>7 DEF Computed
  <1>9. /\ TypeOK' /\ Position' /\ Reported' /\ Loading' /\ Publishing'
        /\ Judging' /\ Starting' /\ ForwardRun' /\ ReverseRun' /\ Ending' /\ Updating'
        /\ Validating'
    BY <1>0, <1>5, <1>6, MatricesKept
  <1> QED
    BY <1>8, <1>9 DEF PhasedInv

LEMMA ChiSquareStep ==
  ASSUME PhasedInv, ComputeChiSquareNetwork
  PROVE  PhasedInv'
  <1> DEFINE c == IF Stage THEN disk[block].computed ELSE memory[block].computed
  <1>0. /\ pc = "chi-square"
        /\ statistics' = [statistics EXCEPT ![block].chiSquare = c]
        /\ block = BlockCount - 1 => pc' = "done" /\ block' = 0
        /\ block # BlockCount - 1 => pc' = "chi-square" /\ block' = block + 1
        /\ stations' = stations /\ mode' = mode /\ iteration' = iteration
        /\ memory' = memory /\ disk' = disk /\ judged' = judged /\ converged' = converged
        /\ cancelled' = cancelled /\ status' = status
    BY DEF ComputeChiSquareNetwork, NextBlock
  <1>1. /\ Typed /\ block \in Blocks /\ iteration \in Nat /\ iteration >= 1 /\ mode = "phased"
        /\ iteration - 1 \in Nat /\ (iteration - 1) + 1 = iteration
        /\ memory[block] \in Matrices /\ disk[block] \in Matrices
        /\ (~Stage => Loaded = Blocks) /\ (Stage => Loaded = {})
        /\ 0 \in Blocks /\ block \in Nat /\ stations \in Placements
    BY <1>0, InStatistics, BlockFacts
  <1>2. status = "ADJUST_SUCCESS" => \E n \in 0 .. BlockCount : ComputedAfter(n)
    BY <1>0, InStatistics
  <1>3. c \in Coordinates /\ c = Latest(block).computed
    <2>1. Latest(block) = IF Stage THEN disk[block] ELSE memory[block]
      BY <1>1, LatestIs
    <2> QED
      BY <1>1, <2>1 DEF Matrices
  <1> HIDE DEF c
  <1>4. PICK k \in Blocks : k = block
    BY <1>1
  <1>5. /\ statistics' \in [Blocks -> Statistics]
        /\ statistics'[k].chiSquare = c
        /\ statistics'[k].variances = statistics[k].variances
        /\ statistics'[k].design = statistics[k].design
        /\ statistics'[k].residuals = statistics[k].residuals
        /\ \A b \in Blocks : b # k => statistics'[b] = statistics[b]
    <2>1. statistics \in [Blocks -> Statistics]
      BY DEF PhasedInv, TypeOK
    <2>2. statistics' = [statistics EXCEPT ![k].chiSquare = c] /\ c \in Coordinates
      BY <1>0, <1>3, <1>4
    <2> QED
      BY <2>1, <2>2, ChiSquareTyped
  <1>6. block' \in Blocks /\ pc' \in {"chi-square", "done"}
    BY <1>0, <1>1, BlockFacts
  <1>7. ASSUME status = "ADJUST_SUCCESS", NEW n \in 0 .. BlockCount, ComputedAfter(n)
        PROVE  ComputedAfter(n)'
    <2>1. ASSUME NEW b \in Blocks
          PROVE  Precise(b, b < n)'
      <3>1. Precise(b, b < n)
        BY <1>0, <1>7 DEF ComputedAfter
      <3>2. CASE b = k
        <4>1. /\ statistics'[b].variances =
                    Inverted(IF Stage \/ b < n THEN Whole(b) ELSE SolvedLast(b))
              /\ FormedFor(b, b < n, statistics'[b].design)
              /\ FormedFor(b, b < n, statistics'[b].residuals)
          BY <1>5, <3>1, <3>2 DEF Precise
        <4> QED
          BY <1>0, <4>1, RigidStatistics
      <3>3. CASE b # k
        BY <1>0, <1>5, <3>1, <3>3, RigidStatistics
      <3> QED
        BY <3>2, <3>3
    <2>2. ChiSquared(k, k < n)'
      <3>1. IF k < n
            THEN Final(Latest(k), k, iteration - 1)
            ELSE Finished(Latest(k), k, iteration - 1)
        BY <1>7 DEF ComputedAfter, Restored
      <3>2. (k < n) \in BOOLEAN
        OBVIOUS
      <3>3. IF Stage \/ ~(k < n)
            THEN c.round = iteration - 1
            ELSE c = From(Whole(k), iteration)
        BY <1>1, <1>3, <1>4, <3>1, <3>2, FinalStatistics
      <3>4. IF Stage \/ ~(k < n)
            THEN statistics'[k].chiSquare.round = iteration - 1
            ELSE statistics'[k].chiSquare = From(Whole(k), iteration)
        BY <1>5, <3>3
      <3> QED
        BY <1>0, <3>4, RigidInformation DEF ChiSquared, From
    <2>3. ASSUME NEW b \in Blocks, b <= k
          PROVE  ChiSquared(b, b < n)'
      <3>1. b = k \/ (b < k /\ b # k)
        BY <2>3, BlockFacts
      <3>2. CASE b < k /\ b # k
        <4>1. ChiSquared(b, b < n)
          BY <1>0, <1>4, <1>7, <3>2 DEF ComputedAfter
        <4> QED
          BY <1>0, <1>5, <3>2, <4>1, RigidStatistics
      <3> QED
        BY <2>2, <3>1, <3>2
    <2>4. Restored(n)' /\ (~cancelled' => n = BlockCount)
      BY <1>0, <1>7, RestoredKept DEF ComputedAfter
    <2>5. CASE block = BlockCount - 1
      <3>1. pc' = "done" /\ block' = 0 /\ \A b \in Blocks : b <= k
        BY <1>0, <1>4, <2>5, BlockFacts
      <3> QED
        BY <2>1, <2>3, <2>4, <3>1 DEF ComputedAfter
    <2>6. CASE block # BlockCount - 1
      <3>1. pc' = "chi-square" /\ block' = k + 1
        BY <1>0, <1>4, <2>6
      <3>2. \A b \in Blocks : b < block' => b <= k
        BY <3>1, BlockFacts
      <3> QED
        BY <2>1, <2>3, <2>4, <3>1, <3>2 DEF ComputedAfter
    <2> QED
      BY <2>5, <2>6
  <1>8. Computed'
    BY <1>0, <1>2, <1>7 DEF Computed
  <1>9. /\ TypeOK' /\ Position' /\ Reported' /\ Loading' /\ Publishing'
        /\ Judging' /\ Starting' /\ ForwardRun' /\ ReverseRun' /\ Ending' /\ Updating'
        /\ Validating'
    BY <1>0, <1>5, <1>6, MatricesKept
  <1> QED
    BY <1>8, <1>9 DEF PhasedInv
-----------------------------------------------------------------------------
(* All steps together.                                                      *)

(* A step that changes nothing, or is told to stop.                         *)
LEMMA QuietStep ==
  ASSUME PhasedInv,
         stations' = stations, mode' = mode, pc' = pc, block' = block, iteration' = iteration,
         memory' = memory, disk' = disk, judged' = judged, converged' = converged,
         status' = status, statistics' = statistics,
         cancelled' = cancelled \/ cancelled' = TRUE
  PROVE  PhasedInv'
  <1>1. Loaded' = Loaded /\ \A b \in Blocks : Latest(b)' = Latest(b)
    BY NoneChanged
  <1>2. PICK k \in Blocks : k = block
    BY Basics
  <1>3. \A T : Judged(T)' = Judged(T)
    BY RigidInformation DEF Judged
  <1>4. cancelled \in BOOLEAN
    BY DEF PhasedInv, TypeOK
  <1>5. TypeOK'
    BY <1>4 DEF PhasedInv, TypeOK, AfterAdjustment
  <1>6. Position' /\ Reported'
    <2>1. CASE cancelled' = cancelled
      BY <2>1 DEF PhasedInv, Position, Reported, AfterAdjustment, ReversePcs
    <2>2. CASE cancelled' = TRUE
      BY <2>2 DEF PhasedInv, Position, Reported, AfterAdjustment, ReversePcs
    <2> QED
      BY <2>1, <2>2
  <1>7. Loading'
    BY <1>1, <1>4 DEF PhasedInv, Loading
  <1>8. Judging'
    BY <1>3 DEF PhasedInv, Judging, ReversePcs
  <1>9. Starting' /\ Ending'
    BY <1>1, Rigid DEF PhasedInv, Starting, Ending
  <1>10. ForwardRun'
    <2>1. ASSUME pc \in {"forward", "carry forward"}
          PROVE  /\ \A b \in Blocks : b < k => Waiting(Latest(b), b, iteration - 1)'
                 /\ \A b \in Blocks : b > k => Fresh(Latest(b), b, iteration - 1)'
                 /\ IF pc = "forward"
                    THEN ReadyForward(Latest(k), k, iteration - 1)'
                    ELSE ForwardDone(Latest(k), k, iteration - 1)'
      BY <1>1, <1>2, <2>1, Rigid DEF PhasedInv, ForwardRun
    <2> QED
      BY <1>2, <2>1 DEF ForwardRun
  <1>11. ReverseRun'
    <2>1. ASSUME pc \in ReversePcs
          PROVE  /\ \A b \in Blocks : b > k => Finished(Latest(b), b, iteration - 1)'
                 /\ \A b \in Blocks : b < k => ToCome(b, pc \in {"combine", "final"})'
      <3>1. /\ \A b \in Blocks : b > k => Finished(Latest(b), b, iteration - 1)
            /\ \A b \in Blocks : b < k => ToCome(b, pc \in {"combine", "final"})
        BY <1>2, <2>1 DEF PhasedInv, ReverseRun
      <3> QED
        BY <1>1, <3>1, Rigid DEF ToCome
    <2>2. ASSUME pc \in ReversePcs
          PROVE  /\ pc # "prepare reverse" => ~BlockIsolated(k)
                 /\ pc = "prepare reverse" =>
                       IF BlockLast(k)
                       THEN Waiting(Latest(k), k, iteration - 1)'
                       ELSE ReadyReverse(Latest(k), k, iteration - 1)'
                 /\ pc = "reverse" => ReadyReverse(Latest(k), k, iteration - 1)'
                 /\ pc = "carry reverse" => ReverseDone(Latest(k), k, iteration - 1)'
                 /\ pc = "combine" => /\ CombineRequired(k)
                                      /\ ReadyCombine(Latest(k), k, iteration - 1)'
                 /\ pc = "final" => ReadyFinal(Latest(k), k, iteration - 1)'
      BY <1>1, <1>2, <2>2, Rigid DEF PhasedInv, ReverseRun
    <2> QED
      BY <1>2, <2>1, <2>2 DEF ReverseRun, ReversePcs
  <1>12. Updating'
    BY <1>1, Rigid DEF PhasedInv, Updating
  <1>13. Validating'
    BY <1>1, <1>4, Rigid DEF PhasedInv, Validating
  <1>14. Publishing'
    <2>1. Promised' = Promised /\ \A b \in Promised : b \in Blocks
      BY RigidInformation DEF Promised
    <2>2. \A b \in Promised : (Latest(b).rigorous = From(Whole(b), iteration))
                              => (Latest(b).rigorous = From(Whole(b), iteration))'
      BY <1>1, <2>1, RigidInformation DEF From
    <2>3. Restored(k) => Restored(k)'
      BY RestoredKept
    <2>4. Restored(block) => Restored(block)'
      BY <1>2, <2>3 DEF Restored
    <2> QED
      BY <2>1, <2>2, <2>4 DEF PhasedInv, Publishing
  <1>15. Computed'
    <2>1. ASSUME NEW n \in 0 .. BlockCount, ComputedAfter(n)
          PROVE  ComputedAfter(n)'
      <3>1. Restored(n)' /\ (~cancelled' => n = BlockCount)
        BY <1>4, <2>1, RestoredKept DEF ComputedAfter
      <3> QED
        BY <2>1, <3>1, RigidStatistics DEF ComputedAfter
    <2> QED
      BY <2>1 DEF PhasedInv, Computed
  <1> QED
    BY <1>5, <1>6, <1>7, <1>8, <1>9, <1>10, <1>11, <1>12, <1>13, <1>14, <1>15 DEF PhasedInv

LEMMA NextStep ==
  ASSUME PhasedInv, [Next]_vars
  PROVE  PhasedInv'
  <1>1. CASE UNCHANGED vars
    BY <1>1, QuietStep DEF vars, results
  <1>2. CASE Terminated
    BY <1>2, QuietStep DEF Terminated, vars, results
  <1>3. CASE CancelAdjustment
    BY <1>3, QuietStep DEF CancelAdjustment
  <1> QED
    BY <1>1, <1>2, <1>3, StartIterationStep, LeaveLoopStep, AdjustForwardStep, CarryForwardStep,
       PrepareAdjustmentReverseStep, AdjustReverseStep, CarryReverseStep, AdjustCombineStep,
       FinishReverseStep, EndIterationStep, UpdateBlockStep, ValidateStep, LastUpdateStep,
       LeaveLastUpdateStep, PrecisionStep, ChiSquareStep, SolveFailsStep, LeaveCancelledStep DEF Next

LEMMA InitStep ==
  ASSUME Init
  PROVE  PhasedInv
  <1>0. /\ stations \in Placements /\ mode \in Modes /\ mode \in {"phased", "block1"}
        /\ Stage => mode = "phased"
        /\ mode = "block1" => pc = "prepare reverse" /\ iteration = 1
        /\ mode = "phased" => pc = "start" /\ iteration = 0
        /\ block = BlockCount - 1 /\ judged = {} /\ converged = FALSE /\ cancelled = FALSE
        /\ status = "ADJUST_SUCCESS"
        /\ statistics = [b \in Blocks |-> NoStatistics]
    BY ModesAssumption DEF Init
  <1>1. /\ \A b \in Blocks : memory[b] = IF Stage THEN Unloaded ELSE PrepareAdjustmentBlock(b)
        /\ \A b \in Blocks : disk[b] = IF Stage THEN PrepareAdjustmentBlock(b) ELSE Unloaded
        /\ memory \in [Blocks -> Matrices] /\ disk \in [Blocks -> Matrices]
    <2>1. /\ memory = [b \in Blocks |-> IF Stage THEN Unloaded ELSE PrepareAdjustmentBlock(b)]
          /\ disk = [b \in Blocks |-> IF Stage THEN PrepareAdjustmentBlock(b) ELSE Unloaded]
      BY DEF Init
    <2>2. Unloaded \in Matrices /\ \A b \in Blocks : PrepareAdjustmentBlock(b) \in Matrices
      BY UnloadedType, StartingBlock
    <2> QED
      BY <2>1, <2>2
  <1>2. ASSUME NEW b \in Blocks
        PROVE  Fresh(Latest(b), b, 0) /\ (b \in Loaded <=> ~Stage)
    <2>1. Fresh(PrepareAdjustmentBlock(b), b, 0) /\ PrepareAdjustmentBlock(b) # Unloaded
      BY StartingBlock, Real
    <2> QED
      BY <1>1, <2>1, LatestIs
  <1>3. Loaded = IF Stage THEN {} ELSE Blocks
    <2>1. Loaded \subseteq Blocks
      BY DEF Loaded
    <2> QED
      BY <1>2, <2>1
  <1>4. PICK k \in Blocks : k = block
    BY <1>0, BlockFacts
  <1>5. BlockLast(k)
    BY <1>0, <1>4, BlockFacts DEF BlockLast
  <1>6. TypeOK
    <2>1. NoStatistics \in Statistics
      BY Types DEF NoStatistics, Statistics
    <2>2. statistics \in [Blocks -> Statistics]
      BY <1>0, <2>1
    <2>3. iteration \in 0 .. MaxIterations
      <3>1. iteration = 0 \/ iteration = 1
        BY <1>0
      <3> QED
        BY <3>1, MaxIterationsAssumption
    <2>4. pc \in {"start", "prepare reverse"} /\ block \in Blocks
      BY <1>0, <1>4
    <2>5. judged \subseteq Blocks \X Information
      BY <1>0
    <2> QED
      BY <1>0, <1>1, <2>2, <2>3, <2>4, <2>5 DEF TypeOK
  <1>7. Position /\ Reported
    <2>1. mode = "block1" => pc = "prepare reverse" /\ iteration = 1 /\ ~Stage
      BY <1>0
    <2>2. mode # "block1" => pc = "start" /\ iteration = 0
      BY <1>0
    <2>3. PICK i : i = iteration
      OBVIOUS
    <2>5. /\ mode = "block1" => pc = "prepare reverse" /\ i = 1 /\ ~Stage
          /\ mode # "block1" => pc = "start" /\ i = 0
      BY <2>1, <2>2, <2>3
    <2>6. /\ mode = "block1" => /\ ~Stage /\ i = 1
                               /\ pc \in (ReversePcs \ {"combine"}) \cup {"end", "validate", "done"}
          /\ pc \notin {"start"} => i >= 1
          /\ pc = "start" => ~(i > 0)
          /\ pc # "update"
      <3>1. i = 1 => i >= 1
        OBVIOUS
      <3>2. i = 0 => ~(i > 0)
        OBVIOUS
      <3>3. mode = "block1" => pc # "start" /\ pc # "update"
        BY <2>5
      <3>4. mode # "block1" => pc = "start"
        BY <2>5
      <3>5. mode = "block1" => /\ ~Stage /\ i = 1
                               /\ pc \in (ReversePcs \ {"combine"}) \cup {"end", "validate", "done"}
        BY <2>5 DEF ReversePcs
      <3>6. pc \notin {"start"} => i >= 1
        BY <2>5, <3>1
      <3>7. pc = "start" => ~(i > 0)
        BY <2>5, <3>2
      <3> QED
        BY <3>3, <3>4, <3>5, <3>6, <3>7
    <2>7. Position
      BY <2>3, <2>6 DEF Position
    <2>4. Reported
      BY <1>0, <2>1, <2>2 DEF Reported, AfterAdjustment
    <2> QED
      BY <2>4, <2>7
  <1>8. Loading
    BY <1>0, <1>3, BlockFacts DEF Loading
  <1>9. Judging /\ Ending /\ Updating /\ Validating /\ ForwardRun
    BY <1>0 DEF Judging, Ending, Updating, Validating, ForwardRun, ReversePcs
  <1>10. Starting
    BY <1>0, <1>2 DEF Starting
  <1>11. ReverseRun
    <2>1. ASSUME mode = "block1"
          PROVE  ReverseRun
      <3> DEFINE r == iteration - 1
      <3>1. pc = "prepare reverse" /\ r = 0
        <4>1. pc = "prepare reverse" /\ iteration = 1
          BY <1>0, <2>1
        <4>2. PICK i : i = iteration
          OBVIOUS
        <4>3. i = 1
          BY <4>1, <4>2
        <4>4. i - 1 = 0
          BY <4>3
        <4> QED
          BY <4>1, <4>2, <4>4
      <3> HIDE DEF r
      <3>2. mode # "phased"
        BY <2>1
      <3>3. \A b \in Blocks : Waiting(Latest(b), b, r)
        BY <1>2, <3>1, <3>2 DEF Waiting
      <3>4. \A b \in Blocks : ~(b > BlockCount - 1)
        BY BlockFacts
      <3>5. \A b \in Blocks : ~(b > block)
        BY <1>0, <3>4
      <3>6. BlockLast(block) /\ block \in Blocks
        BY <1>4, <1>5
      <3>7. \A b \in Blocks : ToCome(b, pc \in {"combine", "final"})
        BY <3>1, <3>3 DEF ToCome, r
      <3> QED
        BY <3>1, <3>3, <3>5, <3>6, <3>7 DEF ReverseRun, r
    <2> QED
      BY <1>0, <2>1 DEF ReverseRun, ReversePcs
  <1>12. Publishing /\ Computed
    BY <1>0 DEF Publishing, Computed, AfterAdjustment
  <1> QED
    BY <1>6, <1>7, <1>8, <1>9, <1>10, <1>11, <1>12 DEF PhasedInv
-----------------------------------------------------------------------------
(* What follows from the invariant.                                         *)

(* What every block holds at every point of a phased adjustment, in memory  *)
(* and on disk.                                                             *)
THEOREM PhasedInvariant == Spec => []PhasedInv
  <1>1. Init => PhasedInv
    BY InitStep
  <1>2. PhasedInv /\ [Next]_vars => PhasedInv'
    BY NextStep
  <1> QED
    BY <1>1, <1>2, PTL DEF Spec

(* TypeOK: the matrices of all blocks, the position in the algorithm and    *)
(* what is reported have their types (the members of dna_adjust).           *)
THEOREM TypeCorrect == Spec => []TypeOK
  <1>1. PhasedInv => TypeOK
    BY DEF PhasedInv
  <1> QED
    BY <1>1, PhasedInvariant, PTL

(* CorrectionsJudged: maxCorr_ is taken over the rigorous corrections of    *)
(* every block (UpdateEstimatesFinal, AdjustPhasedForward).                 *)
THEOREM CorrectionsAreJudged == Spec => []CorrectionsJudged
  <1>1. PhasedInv => CorrectionsJudged
    BY DEF PhasedInv, Ending, Finished, Judging, Judged, CorrectionsJudged
  <1> QED
    BY <1>1, PhasedInvariant, PTL

(* CompleteOnSuccess: a run that goes on to print its results has rigorous  *)
(* coordinates of its last iteration for every promised block               *)
(* (AdjustPhased, ValidateandFinaliseAdjustment).                           *)
THEOREM SuccessIsComplete == Spec => []CompleteOnSuccess
  <1>1. PhasedInv => CompleteOnSuccess
    BY DEF PhasedInv, Publishing, CompleteOnSuccess, From
  <1> QED
    BY <1>1, PhasedInvariant, PTL

(* StatisticsRigorous: precisions and residuals of a converged adjustment   *)
(* come from its result, except, if it was cancelled after the status was   *)
(* decided, those of the blocks the last update has not reached, which come *)
(* from the last solution (UpdateAdjustment, ComputeStatistics).            *)
THEOREM StatisticsAreRigorous == Spec => []StatisticsRigorous
  <1>1. PhasedInv => StatisticsRigorous
    <2> SUFFICES ASSUME PhasedInv, pc = "done", mode = "phased", status = "ADJUST_SUCCESS"
                 PROVE  \E reached \in 0 .. BlockCount :
                           /\ ~cancelled => reached = BlockCount
                           /\ \A b \in Blocks :
                                 IF b < reached THEN OfResult(b) ELSE OfLastSolution(b)
      BY DEF StatisticsRigorous
    <2>1. PICK n \in 0 .. BlockCount : ComputedAfter(n)
      BY DEF PhasedInv, Computed
    <2>2. ASSUME NEW b \in Blocks
          PROVE  IF b < n THEN OfResult(b) ELSE OfLastSolution(b)
      <3>1. Precise(b, b < n) /\ ChiSquared(b, b < n)
        BY <2>1 DEF ComputedAfter
      <3>2. CASE b < n
        <4>1. Latest(b).rigorous = From(Whole(b), iteration)
          BY DEF PhasedInv, Publishing, AfterAdjustment, Promised
        <4> QED
          BY <3>1, <3>2, <4>1 DEF Precise, FormedFor, ChiSquared, Inverted, OfResult
      <3>3. CASE ~(b < n)
        BY <3>1, <3>3 DEF Precise, FormedFor, ChiSquared, Inverted, From, OfLastSolution
      <3> QED
        BY <3>2, <3>3
    <2> QED
      BY <2>1, <2>2 DEF ComputedAfter
  <1> QED
    BY <1>1, PhasedInvariant, PTL

(* BlocksInMemory: a staged adjustment holds at most two neighbouring       *)
(* blocks, and the one it works on (OffloadBlockToMappedFile,               *)
(* DeserialiseBlockFromMappedFile).                                         *)
THEOREM FewBlocksInMemory == Spec => []BlocksInMemory
  <1>1. PhasedInv => BlocksInMemory
    <2> SUFFICES ASSUME PhasedInv
                 PROVE  BlocksInMemory
      OBVIOUS
    <2>1. Loaded \subseteq Blocks /\ block \in Blocks
      BY Basics DEF Loaded
    <2>2. Stage => \A b, c \in Loaded : b - c \in -1 .. 1
      <3> SUFFICES ASSUME Stage, NEW b \in Loaded, NEW c \in Loaded
                   PROVE  b - c \in -1 .. 1
        OBVIOUS
      <3>1. PICK k \in Blocks : Loaded \subseteq {d \in Blocks : d = k \/ d = k - 1}
        BY DEF PhasedInv, Loading
      <3>2. k \in Int /\ (b = k \/ b = k - 1) /\ (c = k \/ c = k - 1)
        BY <3>1, BlockFacts
      <3> QED
        BY <3>2
    <2>3. Stage /\ pc \in {"forward", "carry forward", "reverse", "carry reverse", "combine", "final"}
            => block \in Loaded
      BY <2>1 DEF PhasedInv, Loading
    <2>4. ~Stage => block \in Loaded
      BY <2>1 DEF PhasedInv, Loading
    <2> QED
      BY <2>2, <2>3, <2>4 DEF BlocksInMemory
  <1> QED
    BY <1>1, PhasedInvariant, PTL
-----------------------------------------------------------------------------
(* The equations.                                                           *)

NoRow(rows) == Len(rows) = 0 /\ DOMAIN rows = {}

OneRow(rows, x) == Len(rows) = 1 /\ DOMAIN rows = {1} /\ rows[1] = x

TwoRows(rows, x, y) == Len(rows) = 2 /\ DOMAIN rows = {1, 2} /\ rows[1] = x /\ rows[2] = y

LEMMA RowsTold ==
  ASSUME NEW x, NEW y
  PROVE  NoRow(<<>>) /\ OneRow(<<x>>, x) /\ TwoRows(<<x>> \o <<y>>, x, y)
  <1>1. NoRow(<<>>) /\ OneRow(<<x>>, x)
    BY DEF NoRow, OneRow
  <1>2. <<x>> \in Seq({x, y}) /\ Len(<<x>>) = 1 /\ <<x>>[1] = x
    OBVIOUS
  <1>3. PICK s \in Seq({x, y}) : s = <<x>> /\ Len(s) = 1 /\ s[1] = x
    BY <1>2
  <1>4. /\ Append(s, y)[1] = x /\ Append(s, y)[2] = y /\ Len(Append(s, y)) = 2
        /\ Append(s, y) \in Seq({x, y})
    BY <1>3
  <1>5. DOMAIN Append(s, y) = {1, 2}
    BY <1>4
  <1>6. <<x>> \o <<y>> = Append(<<x>>, y)
    OBVIOUS
  <1>7. TwoRows(Append(s, y), x, y)
    BY <1>4, <1>5 DEF TwoRows
  <1> QED
    BY <1>1, <1>3, <1>6, <1>7

(* What EquationsAgree asks of the matrices m of block b in iteration r + 1. *)
Agree(m, b, r) ==
    /\ ~m.normals.inverted
    /\ m.estimated.round = r
    /\ m.design = m.estimated
    /\ m.computed = m.estimated
    /\ Len(m.rows) <= 2
    /\ \A i \in DOMAIN m.rows :
          /\ m.rows[i].estimates = [round |-> r + 1, info |-> m.rows[i].info]
          /\ m.rows[i].computed = m.estimated
    /\ \A c \in Blocks : m.normals.info[c] = Once({b})[c] + FromRows(m, c)

LEMMA Agreeing ==
  ASSUME NEW m, NEW b \in Blocks, NEW r \in Nat, NEW i, NEW j \in Information, NEW k \in Information,
         FormedAt(m, b, r), m.estimated = Known(b, r), m.normals = Plain(i),
         \/ NoRow(m.rows) /\ \A c \in Blocks : i[c] = Once({b})[c]
         \/ OneRow(m.rows, Row(j, b, r)) /\ \A c \in Blocks : i[c] = Once({b})[c] + j[c]
         \/ /\ TwoRows(m.rows, Row(k, b, r), Row(j, b, r))
            /\ \A c \in Blocks : i[c] = Once({b})[c] + (k[c] + j[c])
  PROVE  Agree(m, b, r)
  <1>1. ~m.normals.inverted /\ m.normals.info = i
    BY DEF Plain
  <1>2. m.estimated.round = r /\ m.design = m.estimated /\ m.computed = m.estimated
    BY DEF FormedAt, Known, Apriori, From
  <1>3. \A l : /\ Row(l, b, r).info = l
               /\ Row(l, b, r).estimates = [round |-> r + 1, info |-> l]
               /\ Row(l, b, r).computed = m.estimated
    BY DEF Row, From
  <1>4. \A c \in Blocks : j[c] \in Int /\ k[c] \in Int /\ Once({b})[c] \in Int
    BY InformationType, SourcesTold DEF Information
  <1>5. CASE NoRow(m.rows) /\ \A c \in Blocks : i[c] = Once({b})[c]
    <2>1. Len(m.rows) = 0 /\ DOMAIN m.rows = {}
      BY <1>5 DEF NoRow
    <2>2. \A c \in Blocks : FromRows(m, c) = 0
      BY <2>1 DEF FromRows
    <2>3. \A c \in Blocks : m.normals.info[c] = Once({b})[c] + FromRows(m, c)
      <3> SUFFICES ASSUME NEW c \in Blocks
                   PROVE  m.normals.info[c] = Once({b})[c] + FromRows(m, c)
        OBVIOUS
      <3>1. m.normals.info[c] = Once({b})[c] /\ Once({b})[c] \in Int
        BY <1>1, <1>4, <1>5
      <3> QED
        BY <2>2, <3>1
    <2>4. Len(m.rows) <= 2 /\ DOMAIN m.rows = {}
      BY <2>1
    <2> QED
      BY <1>1, <1>2, <2>3, <2>4 DEF Agree
  <1>6. CASE OneRow(m.rows, Row(j, b, r)) /\ \A c \in Blocks : i[c] = Once({b})[c] + j[c]
    <2>1. PICK x : x = Row(j, b, r)
      OBVIOUS
    <2>3. Len(m.rows) = 1 /\ DOMAIN m.rows = {1} /\ m.rows[1] = x
      BY <1>6, <2>1 DEF OneRow
    <2>4. /\ x.info = j /\ x.estimates = [round |-> r + 1, info |-> j]
          /\ x.computed = m.estimated
      BY <1>3, <2>1
    <2>5. \A c \in Blocks : FromRows(m, c) = j[c]
      BY <1>4, <2>3, <2>4 DEF FromRows
    <2>6. \A c \in Blocks : m.normals.info[c] = Once({b})[c] + FromRows(m, c)
      BY <1>1, <1>6, <2>5
    <2>7. Len(m.rows) <= 2
      BY <2>3
    <2>8. \A n \in DOMAIN m.rows :
             /\ m.rows[n].estimates = [round |-> r + 1, info |-> m.rows[n].info]
             /\ m.rows[n].computed = m.estimated
      BY <2>3, <2>4
    <2> QED
      BY <1>1, <1>2, <2>6, <2>7, <2>8 DEF Agree
  <1>7. CASE /\ TwoRows(m.rows, Row(k, b, r), Row(j, b, r))
             /\ \A c \in Blocks : i[c] = Once({b})[c] + (k[c] + j[c])
    <2>1. PICK x : x = Row(j, b, r)
      OBVIOUS
    <2>2. PICK y : y = Row(k, b, r)
      OBVIOUS
    <2>4. Len(m.rows) = 2 /\ DOMAIN m.rows = {1, 2} /\ m.rows[1] = y /\ m.rows[2] = x
      BY <1>7, <2>1, <2>2 DEF TwoRows
    <2>5. /\ x.info = j /\ x.estimates = [round |-> r + 1, info |-> j]
          /\ x.computed = m.estimated
          /\ y.info = k /\ y.estimates = [round |-> r + 1, info |-> k]
          /\ y.computed = m.estimated
      BY <1>3, <2>1, <2>2
    <2>6. \A c \in Blocks : FromRows(m, c) = k[c] + j[c]
      BY <1>4, <2>4, <2>5 DEF FromRows
    <2>7. \A c \in Blocks : m.normals.info[c] = Once({b})[c] + FromRows(m, c)
      BY <1>1, <1>7, <2>6
    <2>8. Len(m.rows) <= 2
      BY <2>4
    <2>9. \A n \in DOMAIN m.rows :
             /\ m.rows[n].estimates = [round |-> r + 1, info |-> m.rows[n].info]
             /\ m.rows[n].computed = m.estimated
      BY <2>4, <2>5
    <2> QED
      BY <1>1, <1>2, <2>7, <2>8, <2>9 DEF Agree
  <1> QED
    BY <1>5, <1>6, <1>7

LEMMA ForwardAgrees ==
  ASSUME NEW b \in Blocks, NEW r \in Nat, NEW m, ReadyForward(m, b, r)
  PROVE  Agree(m, b, r)
  <1>0. /\ FormedAt(m, b, r) /\ m.estimated = Known(b, r) /\ m.normals = Plain(Forwards(b))
        /\ m.rows = ForwardRows(b, r)
    BY DEF ReadyForward
  <1>1. \A d \in Blocks, c \in Blocks : Forwards(d)[c] = IF c \in Back(d) THEN 1 ELSE 0
    BY SourcesTold DEF Forwards, Once
  <1>2. \A c \in Blocks : Once({b})[c] = IF c = b THEN 1 ELSE 0
    BY SourcesTold DEF Once
  <1>3. \A d : Forwards(d) \in Information
    BY InformationType DEF Forwards
  <1>4. CASE b > 0 /\ Junctions(b - 1) # {}
    <2>1. b - 1 \in Blocks /\ Back(b) = Back(b - 1) \cup {b} /\ b \notin Back(b - 1)
      BY <1>4, BackStep, BlockFacts
    <2>2. \A c \in Blocks : Forwards(b)[c] = Once({b})[c] + Forwards(b - 1)[c]
      <3>1. PICK p \in Blocks : p = b - 1
        BY <2>1
      <3>2. \A c \in Blocks : Forwards(b)[c] = Once({b})[c] + Forwards(p)[c]
        <4>1. \A c \in Blocks : c \in Back(b) <=> c \in Back(p) \/ c = b
          BY <2>1, <3>1
        <4>2. b \notin Back(p)
          BY <2>1, <3>1
        <4>3. \A c \in Blocks : /\ Forwards(b)[c] = IF c \in Back(b) THEN 1 ELSE 0
                                /\ Forwards(p)[c] = IF c \in Back(p) THEN 1 ELSE 0
          BY <1>1
        <4> QED
          BY <1>2, <4>1, <4>2, <4>3
      <3> QED
        BY <3>1, <3>2
    <2>3. OneRow(m.rows, Row(Forwards(b - 1), b, r))
      BY <1>0, <1>4, RowsTold DEF ForwardRows
    <2> QED
      BY <1>0, <1>3, <2>2, <2>3, Agreeing
  <1>5. CASE ~(b > 0 /\ Junctions(b - 1) # {})
    <2>1. Back(b) = {b}
      BY <1>5, BackStep
    <2>2. \A c \in Blocks : Forwards(b)[c] = Once({b})[c]
      BY <1>1, <1>2, <2>1
    <2>3. NoRow(m.rows)
      BY <1>0, <1>5, RowsTold DEF ForwardRows
    <2> QED
      BY <1>0, <1>3, <2>2, <2>3, Agreeing
  <1> QED
    BY <1>4, <1>5

LEMMA ReverseAgrees ==
  ASSUME stations \in Placements, NEW b \in Blocks, NEW r \in Nat, NEW m, ReadyReverse(m, b, r)
  PROVE  Agree(m, b, r)
  <1>0. /\ FormedAt(m, b, r) /\ m.estimated = Known(b, r) /\ m.normals = Plain(Backwards(b))
        /\ m.rows = BackwardRows(b, r)
    BY DEF ReadyReverse
  <1>1. \A d \in Blocks, c \in Blocks : Backwards(d)[c] = IF c \in Ahead(d) THEN 1 ELSE 0
    BY SourcesTold DEF Backwards, Once
  <1>2. \A c \in Blocks : Once({b})[c] = IF c = b THEN 1 ELSE 0
    BY SourcesTold DEF Once
  <1>3. \A d : Backwards(d) \in Information
    BY InformationType DEF Backwards
  <1>4. CASE Junctions(b) # {}
    <2>1. b + 1 \in Blocks /\ Ahead(b) = Ahead(b + 1) \cup {b} /\ b \notin Ahead(b + 1)
      <3>1. b + 1 \in Blocks
        BY <1>4, JunctionNet
      <3>2. b < BlockCount - 1
        BY <3>1, BlockFacts
      <3> QED
        BY <1>4, <3>1, <3>2, AheadStep
    <2>2. \A c \in Blocks : Backwards(b)[c] = Once({b})[c] + Backwards(b + 1)[c]
      <3>1. PICK n \in Blocks : n = b + 1
        BY <2>1
      <3>2. \A c \in Blocks : Backwards(b)[c] = Once({b})[c] + Backwards(n)[c]
        BY <1>1, <1>2, <2>1, <3>1
      <3> QED
        BY <3>1, <3>2
    <2>3. OneRow(m.rows, Row(Backwards(b + 1), b, r))
      BY <1>0, <1>4, RowsTold DEF BackwardRows
    <2> QED
      BY <1>0, <1>3, <2>2, <2>3, Agreeing
  <1>5. CASE Junctions(b) = {}
    <2>1. Ahead(b) = {b}
      BY <1>5, AheadStep
    <2>2. \A c \in Blocks : Backwards(b)[c] = Once({b})[c]
      BY <1>1, <1>2, <2>1
    <2>3. NoRow(m.rows)
      BY <1>0, <1>5, RowsTold DEF BackwardRows
    <2> QED
      BY <1>0, <1>3, <2>2, <2>3, Agreeing
  <1> QED
    BY <1>4, <1>5
LEMMA CombineAgrees ==
  ASSUME stations \in Placements, NEW b \in Blocks, NEW r \in Nat, NEW m, ReadyCombine(m, b, r)
  PROVE  Agree(m, b, r)
  <1> DEFINE back == b > 0 /\ Junctions(b - 1) # {}
             ahead == Junctions(b) # {}
  <1>0. /\ FormedAt(m, b, r) /\ m.estimated = Known(b, r) /\ m.normals = Plain(Whole(b))
        /\ m.rows = BackwardRows(b, r) \o ForwardRows(b, r)
    BY DEF ReadyCombine
  <1>1. /\ \A d \in Blocks, c \in Blocks : /\ Backwards(d)[c] = IF c \in Ahead(d) THEN 1 ELSE 0
                                           /\ Forwards(d)[c] = IF c \in Back(d) THEN 1 ELSE 0
        /\ \A c \in Blocks : Once({b})[c] = IF c = b THEN 1 ELSE 0
        /\ \A c \in Blocks : Whole(b)[c] = IF c \in Back(b) \/ c \in Ahead(b) THEN 1 ELSE 0
    <2>1. \A d \in Blocks, c \in Blocks : /\ Backwards(d)[c] = IF c \in Ahead(d) THEN 1 ELSE 0
                                          /\ Forwards(d)[c] = IF c \in Back(d) THEN 1 ELSE 0
      BY SourcesTold DEF Backwards, Forwards, Once
    <2>2. \A c \in Blocks : Once({b})[c] = IF c = b THEN 1 ELSE 0
      BY SourcesTold DEF Once
    <2>3. \A c \in Blocks : Whole(b)[c] = IF c \in Back(b) \/ c \in Ahead(b) THEN 1 ELSE 0
      BY WholeOf, SourcesTold
    <2> QED
      BY <2>1, <2>2, <2>3
  <1>2. \A d : Backwards(d) \in Information /\ Forwards(d) \in Information
    BY InformationType DEF Backwards, Forwards
  <1>3. /\ \A c \in Blocks : c \in Back(b) /\ c \in Ahead(b) => c = b
        /\ b \in Back(b) /\ b \in Ahead(b)
    BY BlockFacts DEF Back, Ahead
  <1>4. back => \E p \in Blocks : /\ p = b - 1 /\ b \notin Back(p)
                                  /\ \A c \in Blocks : c \in Back(b) <=> c \in Back(p) \/ c = b
    BY BackStep, BlockFacts
  <1>5. ~back => Back(b) = {b}
    BY BackStep
  <1>6. ahead => \E n \in Blocks : /\ n = b + 1 /\ b \notin Ahead(n)
                                   /\ \A c \in Blocks : c \in Ahead(b) <=> c \in Ahead(n) \/ c = b
    <2>1. ahead => b + 1 \in Blocks /\ b < BlockCount - 1
      BY JunctionNet, BlockFacts
    <2> QED
      BY <2>1, AheadStep
  <1>7. ~ahead => Ahead(b) = {b}
    BY AheadStep
  <1>8. /\ BackwardRows(b, r) = IF ahead THEN <<Row(Backwards(b + 1), b, r)>> ELSE <<>>
        /\ ForwardRows(b, r) = IF back THEN <<Row(Forwards(b - 1), b, r)>> ELSE <<>>
    BY DEF BackwardRows, ForwardRows
  <1> HIDE DEF back, ahead
  <1>9. \A x : /\ <<>> \o <<>> = <<>> /\ <<>> \o <<x>> = <<x>> /\ <<x>> \o <<>> = <<x>>
    OBVIOUS
  <1>10. CASE ~back /\ ~ahead
    <2>1. NoRow(m.rows)
      BY <1>0, <1>8, <1>9, <1>10, RowsTold
    <2>2. \A c \in Blocks : Whole(b)[c] = Once({b})[c]
      BY <1>1, <1>5, <1>7, <1>10
    <2> QED
      BY <1>0, <1>2, <2>1, <2>2, Agreeing
  <1>11. CASE back /\ ~ahead
    <2>1. PICK p \in Blocks : /\ p = b - 1 /\ b \notin Back(p)
                              /\ \A c \in Blocks : c \in Back(b) <=> c \in Back(p) \/ c = b
      BY <1>4, <1>11
    <2>2. OneRow(m.rows, Row(Forwards(p), b, r))
      BY <1>0, <1>8, <1>9, <1>11, <2>1, RowsTold
    <2>3. \A c \in Blocks : Whole(b)[c] = Once({b})[c] + Forwards(p)[c]
      <3>1. \A c \in Blocks : c \in Back(b) \/ c \in Ahead(b) <=> c \in Back(p) \/ c = b
        BY <1>7, <1>11, <2>1
      <3>2. \A c \in Blocks : Forwards(p)[c] = IF c \in Back(p) THEN 1 ELSE 0
        BY <1>1
      <3>3. b \notin Back(p)
        BY <2>1
      <3> SUFFICES ASSUME NEW c \in Blocks
                   PROVE  Whole(b)[c] = Once({b})[c] + Forwards(p)[c]
        OBVIOUS
      <3>4. Whole(b)[c] = IF c \in Back(p) \/ c = b THEN 1 ELSE 0
        BY <1>1, <3>1
      <3>5. Once({b})[c] = IF c = b THEN 1 ELSE 0
        BY <1>1
      <3>6. Forwards(p)[c] = IF c \in Back(p) THEN 1 ELSE 0
        BY <3>2
      <3> QED
        BY <3>3, <3>4, <3>5, <3>6
    <2> QED
      BY <1>0, <1>2, <2>2, <2>3, Agreeing
  <1>12. CASE ~back /\ ahead
    <2>1. PICK n \in Blocks : /\ n = b + 1 /\ b \notin Ahead(n)
                              /\ \A c \in Blocks : c \in Ahead(b) <=> c \in Ahead(n) \/ c = b
      BY <1>6, <1>12
    <2>2. OneRow(m.rows, Row(Backwards(n), b, r))
      BY <1>0, <1>8, <1>9, <1>12, <2>1, RowsTold
    <2>3. \A c \in Blocks : Whole(b)[c] = Once({b})[c] + Backwards(n)[c]
      BY <1>1, <1>5, <1>12, <2>1
    <2> QED
      BY <1>0, <1>2, <2>2, <2>3, Agreeing
  <1>13. CASE back /\ ahead
    <2>1. PICK p \in Blocks : /\ p = b - 1 /\ b \notin Back(p)
                              /\ \A c \in Blocks : c \in Back(b) <=> c \in Back(p) \/ c = b
      BY <1>4, <1>13
    <2>2. PICK n \in Blocks : /\ n = b + 1 /\ b \notin Ahead(n)
                              /\ \A c \in Blocks : c \in Ahead(b) <=> c \in Ahead(n) \/ c = b
      BY <1>6, <1>13
    <2>3. TwoRows(m.rows, Row(Backwards(n), b, r), Row(Forwards(p), b, r))
      BY <1>0, <1>8, <1>13, <2>1, <2>2, RowsTold
    <2>4. \A c \in Blocks : Whole(b)[c] = Once({b})[c] + (Backwards(n)[c] + Forwards(p)[c])
      <3>1. \A c \in Blocks : c \in Back(b) \/ c \in Ahead(b)
                                 <=> c \in Back(p) \/ c \in Ahead(n) \/ c = b
        BY <2>1, <2>2
      <3>2. \A c \in Blocks : /\ Forwards(p)[c] = IF c \in Back(p) THEN 1 ELSE 0
                              /\ Backwards(n)[c] = IF c \in Ahead(n) THEN 1 ELSE 0
        BY <1>1
      <3>3. b \notin Back(p) /\ b \notin Ahead(n)
        BY <2>1, <2>2
      <3>4. \A c \in Blocks : ~(c \in Back(p) /\ c \in Ahead(n))
        BY <1>3, <2>1, <2>2, <3>3
      <3> SUFFICES ASSUME NEW c \in Blocks
                   PROVE  Whole(b)[c] = Once({b})[c] + (Backwards(n)[c] + Forwards(p)[c])
        OBVIOUS
      <3>5. Whole(b)[c] = IF c \in Back(p) \/ c \in Ahead(n) \/ c = b THEN 1 ELSE 0
        BY <1>1, <3>1
      <3>6. Once({b})[c] = IF c = b THEN 1 ELSE 0
        BY <1>1
      <3>7. /\ Forwards(p)[c] = IF c \in Back(p) THEN 1 ELSE 0
            /\ Backwards(n)[c] = IF c \in Ahead(n) THEN 1 ELSE 0
        BY <3>2
      <3> QED
        BY <3>3, <3>4, <3>5, <3>6, <3>7
    <2> QED
      BY <1>0, <1>2, <2>3, <2>4, Agreeing
  <1> QED
    BY <1>10, <1>11, <1>12, <1>13

(* EquationsAgree: the normal equations a block is solved with belong       *)
(* together, whatever was appended, taken off, put aside and restored       *)
(* (AddMsrtoMeasMinusComp, shrink, v_normalsR_, the mapped files).          *)
THEOREM EquationsDoAgree == Spec => []EquationsAgree
  <1>1. PhasedInv => EquationsAgree
    <2> SUFFICES ASSUME PhasedInv, pc \in {"forward", "reverse", "combine"}
                 PROVE  Agree(memory[block], block, iteration - 1) /\ (iteration - 1) + 1 = iteration
      BY DEF EquationsAgree, Agree
    <2>1. /\ stations \in Placements /\ block \in Blocks /\ iteration \in Nat
          /\ iteration >= 1
      BY Basics DEF PhasedInv, Position
    <2>2. iteration - 1 \in Nat /\ (iteration - 1) + 1 = iteration
      BY <2>1, RoundBefore
    <2>3. block \in Loaded
      BY <2>1 DEF PhasedInv, Loading
    <2>4. Latest(block) = memory[block]
      BY <2>1, <2>3, LatestIs
    <2>5. CASE pc = "forward"
      BY <2>1, <2>2, <2>4, <2>5, ForwardAgrees DEF PhasedInv, ForwardRun
    <2>6. CASE pc = "reverse"
      BY <2>1, <2>2, <2>4, <2>6, ReverseAgrees DEF PhasedInv, ReverseRun, ReversePcs
    <2>7. CASE pc = "combine"
      BY <2>1, <2>2, <2>4, <2>7, CombineAgrees DEF PhasedInv, ReverseRun, ReversePcs
    <2> QED
      BY <2>2, <2>5, <2>6, <2>7
  <1> QED
    BY <1>1, PhasedInvariant, PTL
-----------------------------------------------------------------------------
(* Refinement.                                                              *)

(* Blocks that have the rigorous coordinates of the present iteration.      *)
Adjusted(b) ==
    \/ pc \in {"end", "update", "last update", "precision", "chi-square"}
    \/ pc \in ReversePcs /\ (b > block \/ (mode = "phased" /\ BlockLast(b)))
    \/ /\ pc \in {"forward", "carry forward"} /\ BlockLast(b)
       /\ b < block \/ (b = block /\ pc = "carry forward")

(* The rigorous coordinates of b at present.                                *)
Current(b) ==
    IF pc = "start"
    THEN Known(b, iteration)
    ELSE IF Adjusted(b) THEN From(Whole(b), iteration) ELSE Known(b, iteration - 1)

LEMMA ResultIs ==
  ASSUME NEW m, NEW b, NEW r
  PROVE  /\ Result(m, b, r) => m.rigorous = IF mode = "phased" /\ BlockLast(b)
                                            THEN From(Whole(b), r + 1) ELSE Known(b, r)
         /\ Waiting(m, b, r) => m.rigorous = IF mode = "phased" /\ BlockLast(b)
                                             THEN From(Whole(b), r + 1) ELSE Known(b, r)
         /\ ReadyReverse(m, b, r) => Result(m, b, r)
         /\ ReverseDone(m, b, r) => Result(m, b, r)
         /\ ReadyFinal(m, b, r) => Result(m, b, r)
         /\ ForwardDone(m, b, r) => Result(m, b, r)
         /\ Fresh(m, b, r) => m.rigorous = Known(b, r)
         /\ ReadyForward(m, b, r) => m.rigorous = Known(b, r)
         /\ ReadyCombine(m, b, r) => m.rigorous = Known(b, r)
         /\ Finished(m, b, r) /\ b \in Promised => m.rigorous = From(Whole(b), r + 1)
  BY DEF Result, Waiting, ReadyReverse, ReverseDone, ReadyFinal, ForwardDone, Fresh,
         ReadyForward, ReadyCombine, Finished

LEMMA RigorousIs ==
  ASSUME PhasedInv, pc \notin {"validate", "done"}, NEW b \in Promised
  PROVE  Latest(b).rigorous = Current(b)
  <1>1. /\ b \in Blocks /\ b \in Nat /\ block \in Blocks /\ block \in Nat /\ iteration \in Nat
        /\ mode \in {"phased", "block1"}
        /\ mode = "block1" => ~BlockLast(b)
    <2>1. b \in Blocks /\ (mode # "phased" => ~BlockLast(b))
      BY DEF Promised, BlockIsolated
    <2> QED
      BY <2>1, Basics, BlockFacts
  <1>2. pc # "start" => iteration >= 1
    BY DEF PhasedInv, Position
  <1>3. pc # "start" => (iteration - 1) + 1 = iteration
    BY <1>1, <1>2, RoundBefore
  <1>4. pc \in {"forward", "carry forward", "update", "last update", "precision", "chi-square"}
          => mode = "phased"
    BY <1>1 DEF PhasedInv, Position, ReversePcs
  <1>5. CASE pc = "start"
    BY <1>1, <1>5, ResultIs DEF PhasedInv, Starting, Current
  <1>6. CASE pc \in {"forward", "carry forward"}
    <2> DEFINE r == iteration - 1
    <2>1. /\ b < block => Waiting(Latest(b), b, r)
          /\ b > block => Fresh(Latest(b), b, r)
          /\ b = block /\ pc = "forward" => ReadyForward(Latest(b), b, r)
          /\ b = block /\ pc # "forward" => ForwardDone(Latest(b), b, r)
      BY <1>1, <1>6 DEF PhasedInv, ForwardRun
    <2>2. b < block \/ b = block \/ b > block
      BY <1>1
    <2>3. /\ b < block => ~(b = block) /\ ~(b > block)
          /\ b > block => ~(b = block) /\ ~(b < block)
      BY <1>1
    <2>4. r + 1 = iteration /\ mode = "phased"
      BY <1>3, <1>4, <1>6
    <2>5. Current(b) = IF BlockLast(b) /\ (b < block \/ (b = block /\ pc = "carry forward"))
                       THEN From(Whole(b), iteration) ELSE Known(b, r)
      BY <1>6 DEF Current, Adjusted, ReversePcs
    <2> HIDE DEF r
    <2>6. CASE b < block
      BY <2>1, <2>3, <2>4, <2>5, <2>6, ResultIs
    <2>7. CASE b > block
      BY <2>1, <2>3, <2>5, <2>7, ResultIs
    <2>8. CASE b = block
      <3>1. ~(b < block)
        BY <1>1, <2>8
      <3> QED
        BY <1>6, <2>1, <2>4, <2>5, <2>8, <3>1, ResultIs
    <2> QED
      BY <2>2, <2>6, <2>7, <2>8
  <1>7. CASE pc \in ReversePcs
    <2> DEFINE r == iteration - 1
    <2>1. /\ b > block => Finished(Latest(b), b, r)
          /\ b < block => Waiting(Latest(b), b, r) \/ ReadyReverse(Latest(b), b, r)
          /\ b = block => \/ Waiting(Latest(b), b, r)
                          \/ ReadyReverse(Latest(b), b, r)
                          \/ ReverseDone(Latest(b), b, r)
                          \/ ReadyFinal(Latest(b), b, r)
                          \/ CombineRequired(b) /\ ReadyCombine(Latest(b), b, r)
      BY <1>1, <1>7 DEF PhasedInv, ReverseRun, ReversePcs, ToCome
    <2>2. b < block \/ b = block \/ b > block
      BY <1>1
    <2>3. /\ b < block => ~(b = block) /\ ~(b > block)
          /\ b = block => ~(b > block)
      BY <1>1
    <2>4. r + 1 = iteration
      BY <1>3, <1>7 DEF ReversePcs
    <2>5. Current(b) = IF b > block \/ (mode = "phased" /\ BlockLast(b))
                       THEN From(Whole(b), iteration) ELSE Known(b, r)
      BY <1>7 DEF Current, Adjusted, ReversePcs
    <2>6. CombineRequired(b) => ~BlockLast(b)
      BY DEF CombineRequired
    <2> HIDE DEF r
    <2>7. CASE b > block
      BY <2>1, <2>4, <2>5, <2>7, ResultIs
    <2>8. CASE b < block
      BY <2>1, <2>3, <2>4, <2>5, <2>8, ResultIs
    <2>9. CASE b = block
      BY <2>1, <2>3, <2>4, <2>5, <2>6, <2>9, ResultIs
    <2> QED
      BY <2>2, <2>7, <2>8, <2>9
  <1>8. CASE pc = "end"
    BY <1>1, <1>3, <1>8, ResultIs DEF PhasedInv, Ending, Current, Adjusted
  <1>9. CASE pc = "update"
    <2>1. Current(b) = From(Whole(b), iteration) /\ iteration # 0
      BY <1>1, <1>2, <1>9 DEF Current, Adjusted
    <2>2. Fresh(Latest(b), b, iteration) \/ Finished(Latest(b), b, iteration - 1)
      BY <1>1, <1>9 DEF PhasedInv, Updating
    <2> QED
      BY <1>3, <1>9, <2>1, <2>2, ResultIs DEF Known
  <1>10. CASE pc \in {"last update", "precision", "chi-square"}
    <2>1. status \notin {"ADJUST_EXCEPTION_RAISED", "ADJUST_CANCELLED"} /\ pc \in AfterAdjustment
      BY <1>10 DEF PhasedInv, Reported, AfterAdjustment
    <2> QED
      BY <1>10, <2>1 DEF PhasedInv, Publishing, Current, Adjusted
  <1> QED
    BY <1>5, <1>6, <1>7, <1>8, <1>9, <1>10 DEF PhasedInv, TypeOK, ReversePcs, AfterAdjustment
AllCurrent ==
    pc \notin {"validate", "done"} => \A b \in Promised : Latest(b).rigorous = Current(b)

LEMMA CurrentAlways == PhasedInv => AllCurrent
  BY RigorousIs DEF AllCurrent

LEMMA CurrentNext == PhasedInv' => AllCurrent'
  BY CurrentAlways, PTL

(* What a step does to the rigorous coordinates: nothing, or block k gets   *)
(* those of the next iteration while no block is behind it.                 *)
Unmoved ==
    /\ stations' = stations /\ Promised' = Promised
    /\ \A b \in Promised : Latest(b)'.rigorous = Latest(b).rigorous

Moved(k) ==
    /\ stations' = stations /\ Promised' = Promised
    /\ \A c \in Promised : Latest(c).rigorous.round >= Latest(k).rigorous.round
    /\ Latest(k)'.rigorous = [round |-> Latest(k).rigorous.round + 1, info |-> Whole(k)]
    /\ \A c \in Promised : c # k => Latest(c)'.rigorous = Latest(c).rigorous

LEMMA MatricesUnmoved ==
  ASSUME stations' = stations, mode' = mode, memory' = memory, disk' = disk
  PROVE  Unmoved
  <1>1. Promised \subseteq Blocks
    BY DEF Promised
  <1> QED
    BY <1>1, NoneChanged, RigidInformation DEF Unmoved

LEMMA CurrentUnmoved ==
  ASSUME PhasedInv, PhasedInv', stations' = stations, mode' = mode,
         pc \notin {"validate", "done"}, pc' \notin {"validate", "done"},
         \A b \in Promised : Current(b)' = Current(b)
  PROVE  Unmoved
  <1>1. Promised' = Promised
    BY RigidInformation
  <1>2. \A b \in Promised : Latest(b).rigorous = Current(b)
    BY CurrentAlways DEF AllCurrent
  <1>3. \A b \in Promised : (Latest(b).rigorous = Current(b))'
    BY <1>1, CurrentNext DEF AllCurrent
  <1> QED
    BY <1>1, <1>2, <1>3 DEF Unmoved

(* Within an iteration only the set of adjusted blocks matters.             *)
LEMMA AdjustedUnmoved ==
  ASSUME PhasedInv, PhasedInv', stations' = stations, mode' = mode, iteration' = iteration,
         pc \notin {"start", "validate", "done"}, pc' \notin {"start", "validate", "done"},
         \A b \in Promised : Adjusted(b)' <=> Adjusted(b)
  PROVE  Unmoved
  <1>1. \A b, r : Known(b, r)' = Known(b, r) /\ From(Whole(b), r)' = From(Whole(b), r)
    BY RigidInformation DEF Known, From, Apriori, Nothing
  <1>2. \A b \in Promised : Current(b)' = Current(b)
    BY <1>1 DEF Current
  <1> QED
    BY <1>2, CurrentUnmoved

LEMMA AdjustedMoved ==
  ASSUME PhasedInv, PhasedInv', stations' = stations, mode' = mode, iteration' = iteration,
         pc \notin {"start", "validate", "done"}, pc' \notin {"start", "validate", "done"},
         NEW k \in Promised, ~Adjusted(k), Adjusted(k)',
         \A b \in Promised : b # k => (Adjusted(b)' <=> Adjusted(b))
  PROVE  Moved(k)
  <1>1. \A b, r : Known(b, r)' = Known(b, r) /\ From(Whole(b), r)' = From(Whole(b), r)
    BY RigidInformation DEF Known, From, Apriori, Nothing
  <1>2. \A b \in Promised : b # k => Current(b)' = Current(b)
    BY <1>1 DEF Current
  <1>3. Current(k) = Known(k, iteration - 1) /\ Current(k)' = From(Whole(k), iteration)
    BY <1>1 DEF Current
  <1>4. Promised' = Promised
    BY RigidInformation
  <1>5. \A b \in Promised : Latest(b).rigorous = Current(b)
    BY CurrentAlways DEF AllCurrent
  <1>6. \A b \in Promised : (Latest(b).rigorous = Current(b))'
    BY <1>4, CurrentNext DEF AllCurrent
  <1>7. iteration \in Nat /\ iteration >= 1
    BY Basics DEF PhasedInv, Position
  <1>8. iteration - 1 \in Nat /\ (iteration - 1) + 1 = iteration /\ iteration >= iteration - 1
    BY <1>7, RoundBefore
  <1>9. \A b : /\ Known(b, iteration - 1).round = iteration - 1
               /\ From(Whole(b), iteration).round = iteration
    BY DEF Known, From, Apriori
  <1>10. \A b \in Promised : Current(b).round = iteration - 1 \/ Current(b).round = iteration
    BY <1>9 DEF Current
  <1>11. Latest(k).rigorous.round = iteration - 1
    BY <1>3, <1>5, <1>9
  <1>12. \A c \in Promised : Latest(c).rigorous.round >= Latest(k).rigorous.round
    <2>1. iteration - 1 >= iteration - 1
      BY <1>8
    <2> QED
      BY <1>5, <1>8, <1>10, <1>11, <2>1
  <1>13. Latest(k)'.rigorous = [round |-> Latest(k).rigorous.round + 1, info |-> Whole(k)]
    BY <1>3, <1>4, <1>6, <1>8, <1>11 DEF From
  <1>14. \A c \in Promised : c # k => Latest(c)'.rigorous = Latest(c).rigorous
    BY <1>2, <1>4, <1>5, <1>6
  <1> QED
    BY <1>4, <1>12, <1>13, <1>14 DEF Moved
(* What is at hand for a promised block.                                    *)
LEMMA PromisedBlock ==
  ASSUME PhasedInv, NEW b \in Promised
  PROVE  /\ b \in Blocks /\ b \in Nat /\ block \in Blocks /\ block \in Nat
         /\ mode # "phased" => ~BlockLast(b)
         /\ BlockIsolated(b) => mode = "phased" /\ BlockLast(b)
  <1>1. b \in Blocks /\ (mode # "phased" => ~BlockLast(b))
    BY DEF Promised, BlockIsolated
  <1>2. BlockIsolated(b) => mode = "phased" /\ BlockLast(b)
    BY DEF Promised, BlockIsolated
  <1> QED
    BY <1>1, <1>2, Basics, BlockFacts

LEMMA ForwardMoves ==
  ASSUME PhasedInv, PhasedInv', AdjustForward
  PROVE  Unmoved \/ \E k \in Promised : Moved(k)
  <1>0. /\ pc = "forward" /\ pc' = "carry forward" /\ stations' = stations /\ mode' = mode
        /\ iteration' = iteration /\ block' = block
    BY DEF AdjustForward
  <1>1. mode = "phased"
    BY <1>0, Basics DEF PhasedInv, Position, ReversePcs
  <1>2. block \in Promised
    BY <1>1, Basics DEF Promised
  <1>3. \A b \in Promised : /\ Adjusted(b) <=> BlockLast(b) /\ b < block
                            /\ Adjusted(b)' <=> BlockLast(b) /\ (b < block \/ b = block)
    BY <1>0 DEF Adjusted, ReversePcs
  <1>4. \A b \in Promised : ~(b < block /\ b = block)
    BY PromisedBlock
  <1>5. CASE BlockLast(block)
    <2>1. PICK k \in Promised : k = block
      BY <1>2
    <2>2. ~Adjusted(k) /\ Adjusted(k)'
      BY <1>3, <1>4, <1>5, <2>1
    <2>3. \A b \in Promised : b # k => (Adjusted(b)' <=> Adjusted(b))
      BY <1>3, <2>1
    <2> QED
      BY <1>0, <2>2, <2>3, AdjustedMoved
  <1>6. CASE ~BlockLast(block)
    BY <1>0, <1>3, <1>6, AdjustedUnmoved
  <1> QED
    BY <1>5, <1>6

LEMMA CarryKeeps ==
  ASSUME PhasedInv, PhasedInv', CarryForward
  PROVE  Unmoved
  <1>0. /\ pc = "carry forward" /\ stations' = stations /\ mode' = mode /\ iteration' = iteration
        /\ block = BlockCount - 1 => pc' = "prepare reverse" /\ block' = block
        /\ block # BlockCount - 1 => pc' = "forward" /\ block' = block + 1
    BY DEF CarryForward
  <1>1. mode = "phased"
    BY <1>0, Basics DEF PhasedInv, Position, ReversePcs
  <1>2. \A b \in Promised : Adjusted(b) <=> BlockLast(b) /\ (b < block \/ b = block)
    BY <1>0 DEF Adjusted, ReversePcs
  <1>3. ASSUME NEW b \in Promised
        PROVE  Adjusted(b)' <=> Adjusted(b)
    <2>1. b \in Blocks /\ b \in Nat /\ block \in Nat
      BY PromisedBlock
    <2>2. CASE block = BlockCount - 1
      <3>1. b < block \/ b = block
        BY <2>1, <2>2, BlockFacts
      <3>2. Adjusted(b)' <=> b > block \/ BlockLast(b)
        BY <1>0, <1>1, <2>2 DEF Adjusted, ReversePcs
      <3>3. ~(b > block)
        BY <2>1, <3>1
      <3> QED
        BY <1>2, <3>1, <3>2, <3>3
    <2>3. CASE block # BlockCount - 1
      <3>1. Adjusted(b)' <=> BlockLast(b) /\ b < block'
        BY <1>0, <2>3 DEF Adjusted, ReversePcs
      <3>2. b < block + 1 <=> b < block \/ b = block
        BY <2>1
      <3> QED
        BY <1>0, <1>2, <2>3, <3>1, <3>2
    <2> QED
      BY <2>2, <2>3
  <1> QED
    BY <1>0, <1>3, AdjustedUnmoved

(* Going on to the block before, or to the end: only this block can change. *)
LEMMA NextAdjusted ==
  ASSUME PhasedInv, pc \in ReversePcs, NextReverse, mode' = mode, NEW b \in Promised
  PROVE  /\ Adjusted(b) <=> b > block \/ (mode = "phased" /\ BlockLast(b))
         /\ Adjusted(b)' <=> b > block \/ b = block \/ (mode = "phased" /\ BlockLast(b))
  <1>1. b \in Blocks /\ b \in Nat /\ block \in Nat
    BY PromisedBlock
  <1>2. Adjusted(b) <=> b > block \/ (mode = "phased" /\ BlockLast(b))
    BY DEF Adjusted, ReversePcs
  <1>3. CASE block = 0
    <2>1. pc' = "end"
      BY <1>3 DEF NextReverse
    <2>2. b > block \/ b = block
      BY <1>1, <1>3
    <2> QED
      BY <1>2, <2>1, <2>2 DEF Adjusted
  <1>4. CASE block # 0
    <2>1. pc' = "prepare reverse" /\ block' = block - 1
      BY <1>4 DEF NextReverse
    <2>2. Adjusted(b)' <=> b > block' \/ (mode = "phased" /\ BlockLast(b))
      BY <2>1 DEF Adjusted, ReversePcs
    <2>3. b > block - 1 <=> b > block \/ b = block
      BY <1>1
    <2> QED
      BY <1>2, <2>1, <2>2, <2>3
  <1> QED
    BY <1>3, <1>4

LEMMA PrepareKeeps ==
  ASSUME PhasedInv, PhasedInv', PrepareAdjustmentReverse
  PROVE  Unmoved
  <1>0. /\ pc = "prepare reverse" /\ pc \in ReversePcs
        /\ stations' = stations /\ mode' = mode /\ iteration' = iteration
        /\ IF BlockIsolated(block) THEN NextReverse ELSE pc' = "reverse" /\ block' = block
    BY DEF PrepareAdjustmentReverse, ReversePcs
  <1>1. CASE BlockIsolated(block)
    <2>1. pc' \in {"end", "prepare reverse"}
      BY <1>0, <1>1 DEF NextReverse
    <2>2. ASSUME NEW b \in Promised
          PROVE  Adjusted(b)' <=> Adjusted(b)
      <3>1. b = block => mode = "phased" /\ BlockLast(b)
        BY <1>1, PromisedBlock
      <3> QED
        BY <1>0, <1>1, <3>1, NextAdjusted
    <2> QED
      BY <1>0, <2>1, <2>2, AdjustedUnmoved
  <1>2. CASE ~BlockIsolated(block)
    <2>1. \A b \in Promised : Adjusted(b)' <=> Adjusted(b)
      BY <1>0, <1>2 DEF Adjusted, ReversePcs
    <2> QED
      BY <1>0, <1>2, <2>1, AdjustedUnmoved
  <1> QED
    BY <1>1, <1>2

LEMMA ReverseKeeps ==
  ASSUME PhasedInv, PhasedInv', AdjustReverse \/ CarryReverse \/ AdjustCombine
  PROVE  Unmoved
  <1>0. /\ pc \in {"reverse", "carry reverse", "combine"}
        /\ pc' \in {"carry reverse", "combine", "final"}
        /\ stations' = stations /\ mode' = mode /\ iteration' = iteration /\ block' = block
    BY DEF AdjustReverse, CarryReverse, AdjustCombine
  <1>1. \A b \in Promised : Adjusted(b)' <=> Adjusted(b)
    BY <1>0 DEF Adjusted, ReversePcs
  <1> QED
    BY <1>0, <1>1, AdjustedUnmoved

LEMMA FinishMoves ==
  ASSUME PhasedInv, PhasedInv', FinishReverse
  PROVE  Unmoved \/ \E k \in Promised : Moved(k)
  <1>0. /\ pc = "final" /\ pc \in ReversePcs /\ NextReverse
        /\ stations' = stations /\ mode' = mode /\ iteration' = iteration
        /\ pc' \in {"end", "prepare reverse"}
    BY DEF FinishReverse, NextReverse, ReversePcs
  <1>1. \A b \in Promised :
           /\ Adjusted(b) <=> b > block \/ (mode = "phased" /\ BlockLast(b))
           /\ Adjusted(b)' <=> b > block \/ b = block \/ (mode = "phased" /\ BlockLast(b))
    BY <1>0, NextAdjusted
  <1>2. \A b \in Promised : ~(b > block /\ b = block)
    BY PromisedBlock
  <1>3. CASE block \in Promised /\ ~(mode = "phased" /\ BlockLast(block))
    <2>1. PICK k \in Promised : k = block
      BY <1>3
    <2>2. ~Adjusted(k) /\ Adjusted(k)'
      BY <1>1, <1>2, <1>3, <2>1
    <2>3. \A b \in Promised : b # k => (Adjusted(b)' <=> Adjusted(b))
      BY <1>1, <2>1
    <2> QED
      BY <1>0, <2>2, <2>3, AdjustedMoved
  <1>4. CASE ~(block \in Promised /\ ~(mode = "phased" /\ BlockLast(block)))
    <2>1. \A b \in Promised : Adjusted(b)' <=> Adjusted(b)
      BY <1>1, <1>4
    <2> QED
      BY <1>0, <2>1, AdjustedUnmoved
  <1> QED
    BY <1>3, <1>4

(* Beginning an iteration keeps what the last one has ended with.           *)
LEMMA BetweenKeeps ==
  ASSUME PhasedInv, PhasedInv', StartIteration \/ UpdateBlock \/ LastUpdate
  PROVE  Unmoved
  <1>0. stations' = stations /\ mode' = mode
    BY DEF StartIteration, UpdateBlock, LastUpdate, results
  <1>1. \A b, r : Known(b, r)' = Known(b, r) /\ From(Whole(b), r)' = From(Whole(b), r)
    BY <1>0, RigidInformation DEF Known, From, Apriori, Nothing
  <1>2. CASE StartIteration
    <2>1. pc = "start" /\ pc' = "forward" /\ block' = 0 /\ iteration' = iteration + 1
      BY <1>2 DEF StartIteration
    <2>2. iteration \in Nat /\ (iteration + 1) - 1 = iteration
      <3>1. iteration \in Nat
        BY Basics
      <3> QED
        BY <3>1
    <2>3. ASSUME NEW b \in Promised
          PROVE  Current(b)' = Current(b)
      <3>1. ~(b < 0)
        BY PromisedBlock
      <3>2. ~Adjusted(b)'
        BY <2>1, <3>1 DEF Adjusted, ReversePcs
      <3>3. iteration' - 1 = iteration
        BY <2>1, <2>2
      <3>4. Current(b)' = Known(b, iteration - 1)'
        BY <2>1, <3>2 DEF Current
      <3>5. Known(b, iteration - 1)' = Known(b, iteration)
        BY <3>3, <1>0, RigidInformation DEF Known, From, Apriori, Nothing
      <3> QED
        BY <2>1, <3>4, <3>5 DEF Current
    <2> QED
      BY <1>0, <2>1, <2>3, CurrentUnmoved
  <1>3. CASE UpdateBlock
    <2>1. pc = "update" /\ pc' \in {"update", "start"} /\ iteration' = iteration
      BY <1>3 DEF UpdateBlock, NextBlock
    <2>2. iteration # 0
      <3>1. iteration \in Nat /\ iteration >= 1
        BY <2>1, Basics DEF PhasedInv, Position
      <3> QED
        BY <3>1
    <2>3. ASSUME NEW b \in Promised
          PROVE  Current(b)' = Current(b)
      <3>1. Current(b) = From(Whole(b), iteration)
        BY <2>1 DEF Current, Adjusted
      <3>2. Known(b, iteration) = From(Whole(b), iteration)
        BY <2>2 DEF Known
      <3>3. Current(b)' = Known(b, iteration)' \/ Current(b)' = From(Whole(b), iteration)'
        BY <2>1 DEF Current, Adjusted
      <3>4. /\ Known(b, iteration)' = Known(b, iteration)
            /\ From(Whole(b), iteration)' = From(Whole(b), iteration)
        BY <1>0, <2>1, RigidInformation DEF Known, From, Apriori, Nothing
      <3> QED
        BY <3>1, <3>2, <3>3, <3>4
    <2> QED
      BY <1>0, <2>1, <2>3, CurrentUnmoved
  <1>4. CASE LastUpdate
    <2>1. pc = "last update" /\ pc' \in {"last update", "precision"} /\ iteration' = iteration
      BY <1>4 DEF LastUpdate, NextBlock
    <2>2. \A b \in Promised : Adjusted(b)' <=> Adjusted(b)
      BY <2>1 DEF Adjusted
    <2> QED
      BY <1>0, <2>1, <2>2, AdjustedUnmoved
  <1> QED
    BY <1>2, <1>3, <1>4

LEMMA StepMoves ==
  ASSUME PhasedInv, PhasedInv', [Next]_vars
  PROVE  Unmoved \/ \E k \in Promised : Moved(k)
  <1>1. CASE UNCHANGED vars
    BY <1>1, MatricesUnmoved DEF vars
  <1>2. CASE LeaveLoop \/ EndIteration \/ Validate \/ ComputeAdjustedMsrPrecisions
             \/ ComputeChiSquareNetwork \/ SolveFails \/ CancelAdjustment \/ LeaveCancelled
             \/ LeaveLastUpdate \/ Terminated
    <2>1. stations' = stations /\ mode' = mode /\ memory' = memory /\ disk' = disk
      BY <1>2 DEF LeaveLoop, EndIteration, Validate, ComputeAdjustedMsrPrecisions,
                  ComputeChiSquareNetwork, SolveFails, CancelAdjustment, LeaveCancelled,
                  LeaveLastUpdate, Terminated, vars
    <2> QED
      BY <2>1, MatricesUnmoved
  <1> QED
    BY <1>1, <1>2, ForwardMoves, CarryKeeps, PrepareKeeps, ReverseKeeps, FinishMoves, BetweenKeeps
       DEF Next
(* The abstract module speaks of the same information.                      *)
LEMMA SameInformation ==
  /\ RA!Blocks = Blocks
  /\ RA!Apriori = Apriori
  /\ \A b : RA!Whole(b) = Whole(b)
  <1>1. RA!Blocks = Blocks /\ RA!Sources = Sources
    BY DEF RA!Blocks, Blocks, RA!Sources, Sources
  <1>2. \A b : RA!StationsOf(b) = StationsOf(b)
    BY DEF RA!StationsOf, StationsOf
  <1>3. \A b : RA!Junctions(b) = Junctions(b)
    BY <1>2 DEF RA!Junctions, Junctions
  <1>4. \A b : RA!Joined(b) = Joined(b)
    BY <1>1, <1>3 DEF RA!Joined, Joined
  <1>5. \A S : RA!Once(S) = Once(S)
    BY <1>1 DEF RA!Once, Once
  <1>6. \A b : RA!Whole(b) = Whole(b)
    BY <1>2, <1>4, <1>5 DEF RA!Whole, Whole
  <1>7. RA!Apriori = Apriori
    BY <1>1 DEF RA!Apriori, RA!Nothing, Apriori, Nothing
  <1> QED
    BY <1>1, <1>6, <1>7

LEMMA InitRefines == Init => RA!Init
  <1> SUFFICES ASSUME Init
               PROVE  RA!Init
    OBVIOUS
  <1>1. PhasedInv
    BY InitStep
  <1>2. ASSUME NEW b \in Promised
        PROVE  Latest(b).rigorous = Apriori
    <2>1. pc \notin {"validate", "done"}
      BY DEF Init
    <2>2. Latest(b).rigorous = Current(b)
      BY <1>1, <2>1, RigorousIs
    <2>3. CASE mode # "block1"
      <3>1. pc = "start" /\ iteration = 0
        BY <2>3 DEF Init
      <3> QED
        BY <2>2, <3>1 DEF Current, Known
    <2>4. CASE mode = "block1"
      <3>1. pc = "prepare reverse" /\ block = BlockCount - 1 /\ mode # "phased"
        BY <2>4 DEF Init
      <3>2. PICK i : i = iteration
        OBVIOUS
      <3>3. i = 1
        BY <2>4, <3>2 DEF Init
      <3>4. i - 1 = 0
        BY <3>3
      <3>5. b \in Blocks
        BY DEF Promised
      <3>6. ~(b > BlockCount - 1)
        BY <3>5, BlockFacts
      <3>7. ~Adjusted(b)
        BY <3>1, <3>6 DEF Adjusted
      <3>8. Current(b) = Known(b, i - 1)
        BY <3>1, <3>2, <3>7 DEF Current
      <3> QED
        BY <2>2, <3>4, <3>8 DEF Known
    <2> QED
      BY <2>3, <2>4
  <1>3. [b \in Promised |-> Latest(b).rigorous] = [b \in Promised |-> Apriori]
    BY <1>2
  <1>4. stations \in Placements /\ Promised \in SUBSET Blocks
    BY DEF Init, Promised
  <1> QED
    BY <1>3, <1>4, SameInformation DEF RA!Init

LEMMA StepRefines ==
  ASSUME PhasedInv, PhasedInv', [Next]_vars
  PROVE  [RA!Next]_(RA!vars)
  <1> DEFINE rig == [b \in Promised |-> Latest(b).rigorous]
  <1>1. CASE Unmoved
    <2>1. rig' = rig
      BY <1>1 DEF Unmoved
    <2> QED
      BY <1>1, <2>1 DEF RA!vars, Unmoved
  <1>2. ASSUME NEW k \in Promised, Moved(k)
        PROVE  RA!Next
    <2>1. rig' = [rig EXCEPT ![k] = [round |-> rig[k].round + 1, info |-> Whole(k)]]
      BY <1>2 DEF Moved
    <2>2. \A c \in Promised : rig[c].round >= rig[k].round
      BY <1>2 DEF Moved
    <2>3. stations' = stations /\ Promised' = Promised
      BY <1>2 DEF Moved
    <2>4. RA!AdjustBlock(k)
      BY <2>1, <2>2, <2>3, SameInformation DEF RA!AdjustBlock
    <2> QED
      BY <2>4 DEF RA!Next
  <1> QED
    BY <1>1, <1>2, StepMoves

(* ImplementsRigorous: whatever is carried, subtracted, put aside and       *)
(* restored on the way, rigorous coordinates come about block by block, in  *)
(* every iteration once, from everything joined to the block                *)
(* (UpdateEstimatesForward, UpdateEstimatesFinal).                          *)
THEOREM PhasedImplementsRigorous == Spec => ImplementsRigorous
  <1>1. Init => RA!Init
    BY InitRefines
  <1>2. PhasedInv /\ PhasedInv' /\ [Next]_vars => [RA!Next]_(RA!vars)
    BY StepRefines
  <1> QED
    BY <1>1, <1>2, PhasedInvariant, PTL DEF Spec, ImplementsRigorous, RA!Spec
===============================================================================
