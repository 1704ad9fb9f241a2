------------------------- MODULE MCPhasedAdjustment -------------------------
(***************************************************************************)
(* Small instances of PhasedAdjustment.  A placement of the stations is    *)
(* taken up to the order of stations with the same placement.              *)
(***************************************************************************)
EXTENDS PhasedAdjustmentInv

(* Three networks: a chain of three blocks, an isolated block, a pair. *)
Networks == [b \in Blocks |-> <<0, 0, 0, 1, 2, 2>>[b + 1]]

OneNetwork == [b \in Blocks |-> 0]

FourStations == -4 .. -1

FiveStations == -5 .. -1

Covers(p) ==
    \A b \in Blocks : \E s \in Stns : p[s].first <= b /\ b <= p[s].last

Rank(a) == a.first * BlockCount + a.last

Ordered(p) ==
    \A s, t \in Stns : s < t => Rank(p[s]) <= Rank(p[t])

PlacementsDef == {p \in [Stns -> Appearance] : Covers(p) /\ Ordered(p)}
=============================================================================
