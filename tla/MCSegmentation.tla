---------------------------- MODULE MCSegmentation ----------------------------
(***************************************************************************)
(* Instances of Segmentation: all networks whose measurements have certain *)
(* shapes.  The order of the measurements does not matter, so only         *)
(* ascending choices of shapes are taken.                                  *)
(***************************************************************************)
EXTENDS SegmentationInv, FiniteSetsExt

Code(S) == MapThenSumSet(LAMBDA s : 2 ^ s, S)

Key(shape) == 1000 * Code(shape.observed) + Code(shape.stations)

(* Shapes is a set of records of stations and observed stations. *)
NetworksOf(Shapes) ==
    LET key == [shape \in Shapes |-> Key(shape)]
        choices == {f \in [Msrs -> Shapes] :
                      \A l, m \in Msrs : l < m => key[f[l]] <= key[f[m]]}
    IN  {[stations |-> [m \in Msrs |-> f[m].stations],
          observed |-> [m \in Msrs |-> f[m].observed]] : f \in choices}

Whole(S) == [stations |-> S, observed |-> S]

WhollyIgnored(S) == [stations |-> S, observed |-> {}]

(* Measurements between two stations, one of them ignored. *)
Pairs == {S \in SUBSET Stns : Cardinality(S) = 2}

Lines ==
    NetworksOf({Whole(S) : S \in Pairs} \cup {WhollyIgnored({1, 2})})

(* Three points or clusters of any size among four stations, and station 5  *)
(* by itself or joined to station 4.                                       *)
Clusters ==
    LET Whole4 == {Whole(S) : S \in (SUBSET {1, 2, 3, 4}) \ {{}}}
    IN  {net \in NetworksOf(Whole4 \cup {Whole({5}), Whole({4, 5})}) :
            Cardinality({m \in Msrs : 5 \in net.stations[m]}) = 1}

Networks == Lines \cup Clusters

(* A direction set at station 2 of which the direction to 5 is ignored. *)
IgnoredDirection ==
    NetworksOf({Whole(S) : S \in {{1, 2}, {1, 3}, {1, 4}, {1, 2, 3, 4}}}
        \cup {[stations |-> {2, 3, 4, 5}, observed |-> {2, 3, 4}]})
=============================================================================
