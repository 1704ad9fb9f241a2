---------------------------- MODULE NetworkImport ----------------------------
(***************************************************************************)
(* The part of an import that ties measurements to stations                *)
(* (dnainterop.cpp, called from dnaimportwrapper.cpp): the association     *)
(* lists asl and aml, which segmentation works from, and the search for    *)
(* measurements that do not suffice for a station to be estimated          *)
(* (--ignore-insufficient-msrs), which builds the same lists in memory     *)
(* time and again.                                                         *)
(*                                                                         *)
(* A measurement lists the stations of its parts in the order of the file: *)
(* one to three stations; the pairs of the baselines of a "G" or "X"; the  *)
(* points of a "Y"; and for a direction set "D" the instrument station,    *)
(* the reference object and the targets.  "off" are the positions of the   *)
(* targets whose directions are ignored.                                   *)
(***************************************************************************)
EXTENDS Integers, SequencesExt

CONSTANTS
    Stations,       \* the stations by their order, 1 .. n
    Constraints,    \* possible constraints of the stations
    Inputs,         \* sequences of measurements
    Options         \* the options of a run

Types == {"A", "D", "G", "H", "I", "L", "S", "X", "Y"}

GNSS == {"G", "X", "Y"}

Measurement ==
    [id : Nat, type : Types, stns : Seq(Nat), off : SUBSET Nat,
     ignore : BOOLEAN, insufficient : BOOLEAN]

(* A direction set has a direction besides the reference object. *)
WellFormed(m) ==
    /\ m.type \in {"G", "X"} => Len(m.stns) % 2 = 0
    /\ m.type = "D" => Len(m.stns) >= 3

ASSUME StationsAssumption ==
    IsFiniteSet(Stations) /\ Stations # {} /\ Stations = 1 .. Cardinality(Stations)
ASSUME ConstraintsAssumption ==
    Constraints \subseteq [Stations -> {"CCC", "CCF", "FFC", "FFF", "custom"}]
ASSUME InputsAssumption ==
    \A seq \in Inputs :
        /\ seq \in Seq(Measurement)
        /\ \A m \in DOMAIN seq :
              seq[m].id = m /\ WellFormed(seq[m]) /\ ~seq[m].insufficient
ASSUME OptionsAssumption ==
    Options \subseteq [ignoreInsufficient : BOOLEAN, removeIgnored : BOOLEAN]

VARIABLES
    pc,             \* what the import does next
    options,
    constraints,    \* of the stations
    input,          \* the measurements as they were parsed
    msrs,           \* vMeasurements
    asl, aml,       \* vAssocStnList, vAssocMsrList
    amlType,        \* what aml is an index of: "cls_msr" or "str_msr"
    poorly,         \* vPoorlyConstrainedStns
    ignored         \* vignMsrTotal

lists == <<asl, aml>>
given == <<options, constraints, input>>
vars == <<pc, given, msrs, lists, amlType, poorly, ignored>>

-----------------------------------------------------------------------------
(* The sum of the first n values of f. *)
SumTo(f, n) == SumFunctionOnSet(f, 1 .. n)

(* Measurements and their records. *)

StationsOf(m) == ToSet(m.stns)

Times(s, seq) == Cardinality({i \in DOMAIN seq : seq[i] = s})

(* The number of baselines or points, each of which is followed by its     *)
(* covariances with those after it.                                        *)
Parts(m) == IF m.type = "Y" THEN Len(m.stns) ELSE Len(m.stns) \div 2

PartRecords(m, part) == 3 + 3 * (Parts(m) - part)

(* What is written to the measurement file, three records to a baseline,   *)
(* point or covariance, and one to each direction, ignored or not.         *)
CalcBinaryRecordCount(m) ==
    CASE m.type = "D" -> Len(m.stns) - 1
      [] m.type \in GNSS ->
            SumTo([part \in 1 .. Parts(m) |-> PartRecords(m, part)], Parts(m))
      [] OTHER -> 1

(* The stations that a measurement helps to estimate. *)
Observed(m) ==
    IF m.ignore THEN {} ELSE {m.stns[i] : i \in DOMAIN m.stns \ m.off}

-----------------------------------------------------------------------------
(* MapMeasurementStations. *)

(* How often a measurement is counted for a station: once for a cluster of *)
(* baselines; for every mention in a cluster of points or a measurement of *)
(* one to three stations.  The reference object of a direction set is      *)
(* counted apart from the set.                                             *)
MapCount(m, s) ==
    CASE m.type = "D" -> (IF s = m.stns[2] THEN 1 ELSE 0)
                         + (IF s \in ToSet(RemoveAt(m.stns, 2)) THEN 1 ELSE 0)
      [] m.type \in {"G", "X"} -> IF s \in StationsOf(m) THEN 1 ELSE 0
      [] OTHER -> Times(s, m.stns)

MapMeasurementStations(measurements) ==
    [s \in Stations |->
        LET count == SumTo([m \in DOMAIN measurements |-> MapCount(measurements[m], s)],
                           Len(measurements))
        IN  [count |-> count, start |-> 0, valid |-> count > 0]]

-----------------------------------------------------------------------------
(* CompleteAssociationLists. *)

(* The entries a station gets for a measurement, and the number by which   *)
(* its count grows: one for a set of directions or a cluster of baselines  *)
(* (strip_duplicates), one for every mention in others.                    *)
EntryCount(m, s) ==
    IF m.type \in {"D", "G", "X"}
    THEN IF s \in StationsOf(m) THEN 1 ELSE 0
    ELSE Times(s, m.stns)

AdvanceIgnored(m, type) ==                                      \* mutant
    CASE type = "cls_msr" -> 1
      [] type = "str_msr" /\ m.type = "D" ->
            Len(m.stns) - 1 - Cardinality(m.off)
      [] OTHER -> CalcBinaryRecordCount(m)

(* currentBmsFileIndex: one in memory; in the file, one for the reference  *)
(* object and one for each direction; three for each baseline or point and *)
(* three for each of its covariances; one for any other.                   *)
Advance(m, type) ==
    CASE type = "cls_msr" -> 1
      [] type = "str_msr" /\ m.type = "D" -> 1 + (Len(m.stns) - 2)
      [] type = "str_msr" /\ m.type \in GNSS ->
            3 * Parts(m) + 3 * ((Parts(m) * (Parts(m) - 1)) \div 2)
      [] OTHER -> 1

(* The stations get consecutive parts of aml, as large as the first pass   *)
(* has counted; the second pass counts anew.  A measurement is entered     *)
(* behind the entries the station has so far, over whatever is there; past *)
(* the end the vector throws an exception.                                 *)
Starts(list) ==
    LET counts == [s \in Stations |-> list[s].count]
    IN  [s \in Stations |-> IF list[s].valid THEN SumTo(counts, s - 1) ELSE 0]

Total(list) == SumTo([s \in Stations |-> list[s].count], Cardinality(Stations))

Index(measurements, type, m) ==
    SumTo([l \in DOMAIN measurements |-> Advance(measurements[l], type)], m - 1)

(* The entries of a station for the measurements before m. *)
Entered(measurements, s, m) ==
    SumTo([l \in DOMAIN measurements |-> EntryCount(measurements[l], s)], m - 1)

Places(list, measurements, m) ==
    UNION {LET last == Starts(list)[s] + Entered(measurements, s, m)
           IN  last + 1 .. last + EntryCount(measurements[m], s) : s \in Stations}

(* The vector starts with zeros. *)
Entry(list, measurements, type, at) ==
    LET entering == {m \in DOMAIN measurements : at \in Places(list, measurements, m)}
    IN  IF entering = {} THEN 0 ELSE Index(measurements, type, Max(entering))

CompleteAssociationLists(list, measurements, type) ==
    [thrown |-> \E m \in DOMAIN measurements :
                   ~(Places(list, measurements, m) \subseteq 1 .. Total(list)),
     aml |-> [at \in 1 .. Total(list) |-> Entry(list, measurements, type, at)],
     asl |-> [s \in Stations |->
                [count |-> Entered(measurements, s, Len(measurements) + 1),
                 start |-> Starts(list)[s],
                 valid |-> \E m \in DOMAIN measurements :
                              s \in Observed(measurements[m])]]]

-----------------------------------------------------------------------------
Unlisted == [s \in Stations |-> [count |-> 0, start |-> 0, valid |-> FALSE]]

Init ==
    /\ options \in Options
    /\ pc = IF options.ignoreInsufficient THEN "map" ELSE "remove"
    /\ constraints \in Constraints
    /\ input \in Inputs
    /\ msrs = input
    /\ asl = Unlisted
    /\ aml = <<>>
    /\ amlType = "cls_msr"
    /\ poorly = {}
    /\ ignored = <<>>

(* A station that is not in the station map is an error. *)
Map ==
    /\ pc = "map"
    /\ IF \E m \in DOMAIN msrs : ~(StationsOf(msrs[m]) \subseteq Stations)
       THEN /\ pc' = "failed"
            /\ UNCHANGED asl
       ELSE /\ pc' = "complete"
            /\ asl' = MapMeasurementStations(msrs)
    /\ UNCHANGED <<given, msrs, aml, amlType, poorly, ignored>>

CompleteLists ==
    /\ pc = "complete"
    /\ \E table \in {CompleteAssociationLists(asl, msrs, amlType)} :
          IF table.thrown
          THEN /\ pc' = "failed"
               /\ UNCHANGED lists
          ELSE /\ pc' = IF amlType = "cls_msr" THEN "detect" ELSE "written"
               /\ asl' = table.asl
               /\ aml' = table.aml
    /\ UNCHANGED <<given, msrs, amlType, poorly, ignored>>

-----------------------------------------------------------------------------
(* IgnoreInsufficientMeasurements. *)

(* A single measurement that does not give the station what its            *)
(* constraints leave free.                                                 *)
Insufficient(type, constraint) ==
    CASE type \in GNSS -> FALSE
      [] type \in {"H", "L"} -> constraint \notin {"CCC", "CCF"}
      [] OTHER -> constraint # "CCC"

InsufficientAtFirst ==                                          \* mutant
    {s \in Stations :
        /\ poorly = {}
        /\ asl[s].count = 1
        /\ Insufficient(msrs[aml[asl[s].start + 1] + 1].type, constraints[s])}

InsufficientStations ==
    {s \in Stations :
        /\ asl[s].count = 1
        /\ Insufficient(msrs[aml[asl[s].start + 1] + 1].type, constraints[s])}

(* The first target of a set that is among the stations is ignored itself. *)
SetInsufficient(m, stns) ==
    LET hits == {i \in DOMAIN m.stns : m.stns[i] \in stns}
        first == CHOOSE i \in hits : \A j \in hits : i <= j
    IN  IF m.type \in GNSS \/ hits = {}
        THEN m
        ELSE [m EXCEPT !.ignore = TRUE,
                       !.insufficient = TRUE,
                       !.off = IF m.type = "D" /\ first > 2
                               THEN @ \cup {first}
                               ELSE @]

PutAsideNoSets(m, stns) == m.insufficient /\ m.type # "D"        \* mutant

(* vignMsr: a direction set is put aside for the sake of a target only; of *)
(* its instrument station or reference object, the code breaks off before. *)
PutAside(m, stns) ==
    /\ m.insufficient
    /\ m.type = "D" => m.stns[1] \notin stns /\ m.stns[2] \notin stns

Sufficient(seq) == {m \in DOMAIN seq : ~seq[m].insufficient}

(* The members of a sequence at the given places, in their order. *)
Selected(seq, places) ==
    LET pick[n \in 0 .. Len(seq)] ==
            IF n = 0 THEN <<>>
            ELSE IF n \in places THEN Append(pick[n - 1], seq[n])
            ELSE pick[n - 1]
    IN  pick[Len(seq)]

DetectUntilNoneFound ==                                         \* mutant
    /\ pc = "detect"
    /\ \E stns \in {InsufficientStations} :
       \E marked \in {[m \in DOMAIN msrs |-> SetInsufficient(msrs[m], stns)]} :
          LET aside == {m \in DOMAIN marked : PutAside(marked[m], stns)}
          IN  /\ poorly' = poorly \cup stns
              /\ IF stns = {}
                 THEN /\ msrs' = marked \o ignored
                      /\ pc' = "remove"
                      /\ UNCHANGED ignored
                 ELSE /\ msrs' = IF aside = {}
                                 THEN marked
                                 ELSE Selected(marked, Sufficient(marked))
                      /\ ignored' = ignored \o Selected(marked, aside)
                      /\ pc' = "map"
    /\ UNCHANGED <<given, lists, amlType>>

(* A round of the loop; the last one adds the measurements put aside to    *)
(* those left.                                                             *)
DetectInsufficient ==
    /\ pc = "detect"
    /\ \E stns \in {InsufficientStations} :
       \E marked \in {[m \in DOMAIN msrs |-> SetInsufficient(msrs[m], stns)]} :
          LET aside == {m \in DOMAIN marked : PutAside(marked[m], stns)}
          IN  /\ poorly' = poorly \cup stns
              /\ IF aside = {}
                 THEN /\ msrs' = marked \o ignored
                      /\ pc' = "remove"
                      /\ UNCHANGED ignored
                 ELSE /\ msrs' = Selected(marked, Sufficient(marked))
                      /\ ignored' = ignored \o Selected(marked, aside)
                      /\ pc' = "map"
    /\ UNCHANGED <<given, lists, amlType>>

(* The lists are made anew for the files. *)
RemoveIgnoredMeasurements ==
    /\ pc = "remove"
    /\ msrs' = IF options.removeIgnored
               THEN Selected(msrs, {m \in DOMAIN msrs : ~msrs[m].ignore})
               ELSE msrs
    /\ amlType' = "str_msr"
    /\ pc' = "map"
    /\ UNCHANGED <<given, lists, poorly, ignored>>

Terminated == pc \in {"written", "failed"} /\ UNCHANGED vars

Next ==
    \/ Map
    \/ CompleteLists
    \/ DetectInsufficient
    \/ RemoveIgnoredMeasurements
    \/ Terminated

Spec == Init /\ [][Next]_vars

(* The import is one thread, which goes on until it ends. *)
FairSpec == Spec /\ WF_vars(Next)

-----------------------------------------------------------------------------
(* Properties. *)

(* The types of the variables of the import (dnainterop.cpp). *)
TypeOK ==
    /\ pc \in {"map", "complete", "detect", "remove", "written", "failed"}
    /\ options \in Options
    /\ constraints \in Constraints
    /\ input \in Inputs
    /\ msrs \in Seq(Measurement) /\ ignored \in Seq(Measurement)
    /\ asl \in [Stations -> [count : Nat, start : Nat, valid : BOOLEAN]]
    /\ aml \in Seq(Nat)
    /\ amlType \in {"cls_msr", "str_msr"}
    /\ poorly \subseteq Stations

(* The first record of a measurement in the measurement file. *)
FirstRecord(m) ==
    SumTo([l \in DOMAIN msrs |-> CalcBinaryRecordCount(msrs[l])], m - 1)

(* The part of aml that is a station's. *)
Entries(s) == SubSeq(aml, asl[s].start + 1, asl[s].start + asl[s].count)

(* The lists that are written (SerialiseAsl, SerialiseAml) fit the         *)
(* measurement file: each station has, in a part of aml that no other      *)
(* station has, the first record of each measurement that mentions it,     *)
(* once, and is valid exactly if one that is not ignored observes it, for  *)
(* clusters and direction sets with ignored directions as well.            *)
ListsFitRecords ==
    pc = "written" =>
        /\ \A s \in Stations :
              /\ IsInjective(Entries(s))
              /\ ToSet(Entries(s)) = {FirstRecord(m) : m \in
                     {m \in DOMAIN msrs : s \in StationsOf(msrs[m])}}
              /\ asl[s].valid <=> \E m \in DOMAIN msrs : s \in Observed(msrs[m])
        /\ \A s, t \in Stations :
              s < t /\ asl[t].count > 0 =>
                  asl[s].start + asl[s].count <= asl[t].start

Ids(seq) == {seq[m].id : m \in DOMAIN seq}

(* A direction set whose instrument station or reference object is         *)
(* insufficiently measured is ignored, but not put aside.                  *)
NotPutAside == {m \in DOMAIN input :
                   input[m].type = "D" /\ {input[m].stns[1], input[m].stns[2]} \cap poorly # {}}

(* No station depends on a single measurement of the set that does not     *)
(* suffice. *)
Stable(S) ==
    \A s \in Stations : \A m \in S :
        {l \in S : s \in StationsOf(input[l])} = {m} =>
            ~Insufficient(input[m].type, constraints[s])

(* What the rounds of IgnoreInsufficientMeasurements leave is all that can *)
(* be left: the largest set of measurements in which no station depends on *)
(* a single insufficient one.  In particular the rounds go on as long as   *)
(* ignoring a measurement makes another insufficient, and measurements     *)
(* that are ignored together do not take more with them.  A measurement    *)
(* that was ignored before counts like any other (assocMsrCount_: "all     *)
(* associated measurements, including ignored measurements").  If a        *)
(* direction set is not put aside, the rounds can end too early.           *)
LargestSufficient ==
    pc = "remove" /\ options.ignoreInsufficient =>
        LET left == {msrs[m].id : m \in Sufficient(msrs)}
            largest == UNION {S \in SUBSET DOMAIN input : Stable(S)}
        IN  /\ largest \subseteq left
            /\ NotPutAside = {} => left = largest

(* "add the insufficient measurements back to the final vector": what is   *)
(* ignored as insufficient, in any round, is among the measurements again  *)
(* at the end, once, unless it is a direction set that is not put aside.   *)
InsufficientAddedBack ==
    pc = "remove" =>
        /\ IsInjective([m \in DOMAIN msrs |-> msrs[m].id])
        /\ DOMAIN input \ NotPutAside \subseteq Ids(msrs)

(* The rounds come to an end (IgnoreInsufficientMeasurements): the import  *)
(* writes its files, or fails for a station that is not in the station map.*)
Termination == <>(pc \in {"written", "failed"})
=============================================================================
