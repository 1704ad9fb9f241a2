--------------------------- MODULE MCNetworkImport ---------------------------
(***************************************************************************)
(* Small instances of NetworkImport: selections of a few measurements from *)
(* a list.  Station 5 is not among the stations.                           *)
(***************************************************************************)
EXTENDS NetworkImportInv

New(type, seq) ==
    [id |-> 0, type |-> type, stns |-> seq, off |-> {},
     ignore |-> FALSE, insufficient |-> FALSE]

IgnoredMsr(m) == [m EXCEPT !.ignore = TRUE]

Without(m, positions) == [m EXCEPT !.off = positions]

Numbered(m, id) == [m EXCEPT !.id = id]

(* Every choice of at most n of the listed measurements, in their order. *)
Selections(list, n) ==
    {[m \in 1 .. Cardinality(S) |->
         Numbered(list[SetToSortSeq(S, <)[m]], m)] :
        S \in {S \in SUBSET DOMAIN list : Cardinality(S) \in 1 .. n}}

AnyOptions == [ignoreInsufficient : BOOLEAN, removeIgnored : BOOLEAN]

(* Clusters, ignored measurements and directions, a reference object that  *)
(* is also a target, a station without measurements, a missing station.    *)
Lists ==
    Selections(<<New("S", <<1, 2>>), New("X", <<1, 2, 1, 3>>),
                 IgnoredMsr(New("L", <<3, 4>>)), New("D", <<1, 2, 3, 4>>),
                 Without(New("D", <<2, 3, 4, 1>>), {4}),
                 New("D", <<4, 2, 2, 3>>), New("Y", <<4, 3, 1>>),
                 IgnoredMsr(New("G", <<2, 4>>)), New("A", <<3, 2, 1>>),
                 New("H", <<4>>), New("S", <<2, 5>>)>>, 3)

(* Chains in which ignoring one measurement makes the next insufficient. *)
Chains ==
    Selections(<<New("S", <<1, 2>>), New("L", <<1, 2>>), New("S", <<2, 3>>),
                 New("A", <<2, 3, 4>>), New("L", <<3, 4>>), New("H", <<4>>),
                 New("I", <<1>>), IgnoredMsr(New("S", <<3, 4>>))>>, 5)

(* Direction sets with measurements that may hold their stations. *)
Sets ==
    Selections(<<New("Y", <<1, 2>>), New("D", <<1, 2, 3>>), New("S", <<3, 4>>),
                 New("G", <<2, 3>>), New("L", <<3, 4>>)>>, 5)

Networks == Lists \cup Chains \cup Sets

(* All stations are free, or all but one. *)
OneConstrained ==
    {[s \in Stations |-> IF s = t THEN c ELSE "FFF"] :
        t \in Stations, c \in {"FFF", "CCC", "CCF"}}
=============================================================================
