------------------------- MODULE NetworkInformation -------------------------
(***************************************************************************)
(* What the normal equations of a block are made of.  A station of the     *)
(* segmented network appears in consecutive blocks: it is a junction       *)
(* station of all but the last of them and an inner station of the last.   *)
(* The matrices themselves are real numbers; here a matrix is represented  *)
(* by how often each source of information has gone into it: the           *)
(* measurements of a block, and the constraint (parameter variance) of a   *)
(* station.                                                                *)
(***************************************************************************)
EXTENDS PhasedBlocks

CONSTANTS
    Stns,               \* the stations
    Placements          \* the ways they may be distributed over the blocks

Appearance ==
    {a \in [first : Blocks, last : Blocks] :
        /\ a.first <= a.last
        /\ \A b \in a.first .. a.last : NetOf[b] = NetOf[a.first]}

ASSUME StnsAssumption == Stns \cap Blocks = {}
ASSUME PlacementsAssumption ==
    /\ Placements \subseteq [Stns -> Appearance]
    /\ \A p \in Placements, b \in Blocks :
          \E s \in Stns : p[s].first <= b /\ b <= p[s].last

VARIABLE stations       \* where each station appears, never changed

(* v_parameterStationList_: inner and junction stations of a block. *)
StationsOf(b) == {s \in Stns : stations[s].first <= b /\ b <= stations[s].last}

(* v_JSL_: the stations block b shares with b+1. *)
Junctions(b) == {s \in StationsOf(b) : stations[s].last # b}

FirstForward(b) == {s \in Stns : stations[s].first = b}

FirstReverse(b) == {s \in Stns : stations[s].last = b}

Sources == Blocks \cup Stns

Information == [Sources -> Int]

Nothing == [c \in Sources |-> 0]

Once(S) == [c \in Sources |-> IF c \in S THEN 1 ELSE 0]

Plus(i, j) == [c \in Sources |-> i[c] + j[c]]

Minus(i, j) == [c \in Sources |-> i[c] - j[c]]

(* Blocks that information can reach from b through shared stations. *)
Joined(b) ==
    {c \in Blocks : \A i \in Blocks :
        (b <= i /\ i < c) \/ (c <= i /\ i < b) => Junctions(i) # {}}

(* Everything that bears on block b, each source once. *)
Whole(b) == Once(Joined(b) \cup UNION {StationsOf(c) : c \in Joined(b)})
=============================================================================
