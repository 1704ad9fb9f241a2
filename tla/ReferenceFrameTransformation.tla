-------------------- MODULE ReferenceFrameTransformation --------------------
(***************************************************************************)
(* Runs of reftran (dnareftran.cpp, dnareftranwrapper.cpp) over the binary *)
(* station and measurement files of a network: records of any mixture of   *)
(* frames and epochs are brought to one frame and epoch, measurements      *)
(* first.  A run may stop with an exception or be killed between any two   *)
(* steps, and other runs may follow.                                       *)
(*                                                                         *)
(* The coordinates of a record are represented by the frame and epoch they *)
(* really are in, which transformations move, apart from the label that    *)
(* says so.  Dates are written yyyymmdd; 0 is no date.                     *)
(***************************************************************************)
EXTENDS HelmertParameters, Integers, Sequences

CONSTANTS
    Networks,       \* frames and epochs of imported stations, measurements
    MsrTypes,       \* the types of the measurements
    Targets,        \* frame and epoch (0: not supplied) of a run
    MaxRuns         \* bound on the number of runs

Label == [frame : Frames, epoch : Nat]

ASSUME MsrTypesAssumption == MsrTypes \in Seq({"G", "Y", "D"})
ASSUME NetworksAssumption ==
    Networks \subseteq [stns : Label \X Label,
                        msrs : [DOMAIN MsrTypes -> Label]]
ASSUME TargetsAssumption == Targets \subseteq Label
ASSUME MaxRunsAssumption == MaxRuns \in Nat

VARIABLES
    bst, bms,       \* the files: records
    pc,             \* what the run does next
    datumTo,        \* datumTo_
    plateModel,     \* plate_model_option: TRUE for a model of all plates
    stns, msrs,     \* bstBinaryRecords_, bmsBinaryRecords_
    next,           \* the record to transform next
    cache,          \* transformationParameters
    outcome,        \* of the last run
    runs            \* number of runs begun

files == <<bst, bms>>
memory == <<stns, msrs, next, cache>>
vars == <<bst, bms, pc, datumTo, plateModel, memory, outcome, runs>>

-----------------------------------------------------------------------------
(* Datums. *)

ReferenceEpoch(frame) ==
    CASE frame = "GDA94" -> 19940101   [] frame = "GDA2020" -> 20200101
      [] frame = "ITRF1988" -> 19880101 [] frame = "ITRF1989" -> 19890101
      [] frame = "ITRF1990" -> 19900101 [] frame = "ITRF1991" -> 19910101
      [] frame = "ITRF1992" -> 19920101 [] frame = "ITRF1993" -> 19930101
      [] frame = "ITRF1994" -> 19940101 [] frame = "ITRF1996" -> 19960101
      [] frame = "ITRF1997" -> 19970101 [] frame = "ITRF2000" -> 20000101
      [] frame = "ITRF2005" -> 20050101 [] frame = "ITRF2008" -> 20080101
      [] frame = "ITRF2014" -> 20100101 [] frame = "ITRF2020" -> 20200101
      [] frame = "NAD83" -> 20100101    [] frame = "WGS84" -> 20210103

Datum(label) ==
    IF label.epoch = 0
    THEN [label EXCEPT !.epoch = ReferenceEpoch(label.frame)]
    ELSE label

(* The command line forces a static frame to its reference epoch. *)
TargetDatum(target) ==
    IF IsStatic(target.frame)
    THEN [target EXCEPT !.epoch = ReferenceEpoch(target.frame)]
    ELSE Datum(target)

Within(date, first, last) == first <= date /\ date <= last

(* The ITRF that stands for the WGS84 of a date: what has been broadcast   *)
(* as WGS84 was aligned to it.                                             *)
Substitute(date) ==
    CASE date < 19870101 -> "WGS84"
      [] Within(date, 19870101, 19940101) -> "ITRF1990"
      [] Within(date, 19940102, 19960928) -> "ITRF1991"
      [] Within(date, 19960929, 20020119) -> "ITRF1994"
      [] Within(date, 20020120, 20120506) -> "ITRF2000"
      [] Within(date, 20120507, 20210102) -> "ITRF2008"
      [] OTHER -> "ITRF2014"

(* Coordinates in a static frame have no epoch of their own. *)
At(frame, date) == [frame |-> frame, epoch |-> IF IsStatic(frame) THEN 0 ELSE date]

(* The coordinates a label stands for. *)
Meaning(label) ==
    IF label.frame = "WGS84"
    THEN [frame |-> Substitute(label.epoch), epoch |-> label.epoch]
    ELSE At(label.frame, Datum(label).epoch)

Spoilt == [frame |-> "none", epoch |-> 0]

-----------------------------------------------------------------------------
(* One step of a transformation: coordinates c and the parameters.         *)

(* A set applied for a date, which matters unless both frames are static.  *)
Transform7Parameter(c, parameters, date) ==
    CASE parameters = NoChange -> c
      [] /\ parameters # NoChange
         /\ c.frame = parameters.from
         /\ IsDynamic(c.frame) => c.epoch = date -> At(parameters.to, date)
      [] OTHER -> Spoilt

(* Along the motion of the plate, from one date to another.                *)
Propagate(c, from, to) ==
    IF c.epoch = from THEN [c EXCEPT !.epoch = to] ELSE Spoilt

Result(c, used) == [failed |-> FALSE, coordinates |-> c, cache |-> used]

Failure == [failed |-> TRUE, coordinates |-> Spoilt,
            cache |-> [fromTo |-> <<"", "">>, parameters |-> NotDefined]]

NoCache == Failure.cache

(* The operators below that transform yield the set of their results, of   *)
(* which there is one; a failure is final.                                 *)
Then(results, Step(_)) ==
    UNION {IF r.failed THEN {r} ELSE Step(r) : r \in results}

(* The date parameters are applied for, with datumFrom_ and datumTo_ of    *)
(* the whole transformation in "from_" and "to_".                          *)
DateFor(from, to, parameters, type, from_, to_) ==
    CASE type \in {"static to dynamic", "dynamic to static"} ->
            IF parameters.reversed THEN to.epoch ELSE from.epoch
      [] type = "dynamic to dynamic" -> from.epoch
      [] type \in {"static to step", "step to dynamic"} -> to_.epoch
      [] type \in {"dynamic to step", "step to static"} -> from_.epoch
      [] type = "static to static" -> 0

ObtainForTarget(used, from, to) ==                              \* mutant
    LET selected == HelmertParameters[<<from.frame, to.frame>>]
        found == selected.is \in {"set", "zero"}
    IN  IF used.fromTo[2] = to.frame
        THEN [raised |-> "nothing", cache |-> used]
        ELSE [raised |-> IF found THEN "nothing" ELSE selected.is,
              cache |-> [fromTo |-> <<from.frame, to.frame>>,
                         parameters |-> IF found
                                        THEN selected
                                        ELSE used.parameters]]

(* ObtainHelmertParameters: the pair is remembered before the selection,   *)
(* which may raise an exception.                                           *)
ObtainHelmertParameters(used, from, to) ==
    LET selected == HelmertParameters[<<from.frame, to.frame>>]
        found == selected.is \in {"set", "zero"}
    IN  IF used.fromTo = <<from.frame, to.frame>>
        THEN [raised |-> "nothing", cache |-> used]
        ELSE [raised |-> IF found THEN "nothing" ELSE selected.is,
              cache |-> [fromTo |-> <<from.frame, to.frame>>,
                         parameters |-> IF found
                                        THEN selected
                                        ELSE used.parameters]]

Kind(datum) == IF IsStatic(datum.frame) THEN "static" ELSE "dynamic"

TransformationType(from, to) ==
    CASE Kind(from) = "static" /\ Kind(to) = "static" -> "static to static"
      [] Kind(from) = "static" /\ Kind(to) = "dynamic" -> "static to dynamic"
      [] Kind(from) = "dynamic" /\ Kind(to) = "static" -> "dynamic to static"
      [] OTHER -> "dynamic to dynamic"

ITRF2014At(date) == [frame |-> "ITRF2014", epoch |-> date]

(* JoinTransformationParameters: over ITRF2014, with parameters of its own, *)
(* after which the cached pair is forgotten.  A frame that would need a    *)
(* plate motion to get to itself is propagated.                            *)
Join(c, from, to, used, from_, to_) ==
    LET into == HelmertParameters[<<from.frame, "ITRF2014">>]
        outOf == HelmertParameters[<<"ITRF2014", to.frame>>]
        typeIn == IF IsStatic(from.frame) THEN "static to step"
                                          ELSE "dynamic to step"
        typeOut == IF IsStatic(to.frame) THEN "step to static"
                                         ELSE "step to dynamic"
        Leg(r, parameters, type) ==
            {[r EXCEPT !.coordinates =
                IF parameters = OnPlate
                THEN Propagate(@, from.epoch, to.epoch)
                ELSE Transform7Parameter(@, parameters,
                         DateFor(from, to, parameters, type, from_, to_))]}
        Into(r) == Leg(r, into, typeIn)
        OutOf(r) == Leg(r, outOf, typeOut)
        start == Result(c, [used EXCEPT !.fromTo = <<"", "">>])
    IN  IF {into.is, outOf.is} \subseteq {"set", OnPlate.is}
        THEN Then(Into(start), OutOf)
        ELSE {Failure}

WithoutPlateMotionModel(c, from, to, used, type, from_, to_) ==
    UNION {LET parameters == obtained.cache.parameters
           IN  CASE obtained.raised = "nothing" ->
                       {Result(Transform7Parameter(c, parameters,
                                   DateFor(from, to, parameters, type, from_, to_)),
                               obtained.cache)}
                 [] obtained.raised = "REFTRAN_DIRECT_PARAMS_UNAVAILABLE" ->
                       Join(c, from, to, obtained.cache, from_, to_)
                 [] OTHER -> {Failure} :
              obtained \in {ObtainHelmertParameters(used, from, to)}}

(* To ITRF2014 at the epoch of the input, along the plate to the epoch of  *)
(* the output, and from ITRF2014; plateKnown tells that there are motion   *)
(* parameters for the plate of the station.                                *)
WithPlateMotionModel(c, from, to, used, plateKnown, from_, to_) ==
    LET step1 == ITRF2014At(from.epoch)
        step2 == ITRF2014At(to.epoch)
        Helmert(r, datum1, datum2) ==
            IF datum1.frame = datum2.frame
            THEN {r}
            ELSE WithoutPlateMotionModel(r.coordinates, datum1, datum2, r.cache,
                     "dynamic to dynamic", from_, to_)
        ToStep(r) == Helmert(r, from, step1)
        AlongPlate(r) ==
            IF plateKnown
            THEN {[r EXCEPT !.coordinates = Propagate(@, from.epoch, to.epoch)]}
            ELSE {Failure}
        FromStep(r) == Helmert(r, step2, to)
    IN  Then(Then(ToStep(Result(c, used)), AlongPlate), FromStep)

UsesPlatesAlways(from, to) ==                                   \* mutant
    TransformationType(from, to) = "dynamic to dynamic"

(* TransformDynamic: different frames at one epoch need no plate motion.   *)
UsesPlates(from, to) ==
    /\ TransformationType(from, to) = "dynamic to dynamic"
    /\ ~(from.frame # to.frame /\ from.epoch = to.epoch)

Transform(c, from, to, used, plateKnown) ==
    IF UsesPlates(from, to)
    THEN WithPlateMotionModel(c, from, to, used, plateKnown, from, to)
    ELSE WithoutPlateMotionModel(c, from, to, used,
             TransformationType(from, to), from, to)

-----------------------------------------------------------------------------
(* The files and the records read from them. *)

Coordinates == [frame : Frames \cup {"none"}, epoch : Nat]

Record == [label : Label, true : Coordinates]

(* A station is on a plate of the boundary file or on none. *)
Station == [label : Label, true : Coordinates, located : BOOLEAN]

(* Two stations; every measurement is of both or of the first. *)
Init ==
    /\ \E network \in Networks, located \in [1 .. 2 -> BOOLEAN] :
          /\ bst = [s \in 1 .. 2 |-> [label |-> network.stns[s],
                                     true |-> Meaning(network.stns[s]),
                                     located |-> located[s]]]
          /\ bms = [m \in DOMAIN MsrTypes |->
                        [label |-> network.msrs[m],
                         true |-> Meaning(network.msrs[m])]]
    /\ pc = "idle"
    /\ datumTo = [frame |-> "WGS84", epoch |-> 0]
    /\ plateModel = FALSE
    /\ stns = <<>>
    /\ msrs = <<>>
    /\ next = 1
    /\ cache = NoCache
    /\ outcome = "none"
    /\ runs = 0

Quit(how) ==
    /\ pc' = "idle"
    /\ outcome' = how
    /\ stns' = <<>>
    /\ msrs' = <<>>
    /\ next' = 1
    /\ cache' = NoCache

Start(target, allPlates) ==
    /\ pc = "idle"
    /\ runs < MaxRuns
    /\ pc' = "load"
    /\ datumTo' = TargetDatum(target)
    /\ plateModel' = allPlates
    /\ runs' = runs + 1
    /\ outcome' = "running"
    /\ UNCHANGED <<files, memory>>

(* ApplyStationFrameSubstitutions and its twin for measurements: records   *)
(* of the ensemble WGS84 must have a date, and keep it.                    *)
Substituted(records) ==
    [i \in DOMAIN records |->
        IF records[i].label.frame = "WGS84"
        THEN [records[i] EXCEPT !.label.frame = Substitute(records[i].label.epoch)]
        ELSE records[i]]

Undated(records) ==
    \E i \in DOMAIN records :
        records[i].label = [frame |-> "WGS84", epoch |-> 0]

LoadBinaryFiles ==
    /\ pc = "load"
    /\ IF Undated(bst) \/ Undated(bms)
       THEN Quit("failed")
       ELSE /\ stns' = Substituted(bst)
            /\ msrs' = Substituted(bms)
            /\ pc' = "measurements"
            /\ UNCHANGED <<next, cache, outcome>>
    /\ UNCHANGED <<files, datumTo, plateModel, runs>>

PlateKnown(s) == plateModel => stns[s].located

(* Baselines: the ends are transformed one after the other, the vector is  *)
(* their difference.                                                       *)
TransformMeasurement_GX(m, from) ==
    LET End(s, used) ==
            Transform(msrs[m].true, from, datumTo, used, PlateKnown(s))
        Vector(end1) ==
            {IF end1.coordinates = end2.coordinates
             THEN end2
             ELSE [end2 EXCEPT !.coordinates = Spoilt] : end2 \in End(2, end1.cache)}
    IN  Then(End(1, cache), Vector)

TransformMeasurement_Y(m, from) ==
    Transform(msrs[m].true, from, datumTo, cache, PlateKnown(1))

UpToDateFrame(from) == from.frame = datumTo.frame               \* mutant

(* CDnaDatum's == *)
UpToDate(from) == from = datumTo

(* Measurements that are not subject to a datum are passed over. *)
Subject(m) == MsrTypes[m] \in {"G", "Y"}

Relabelled(record, c) == [record EXCEPT !.true = c, !.label = datumTo]

TransformMeasurement ==
    /\ pc = "measurements"
    /\ next \in DOMAIN msrs
    /\ LET from == Datum(msrs[next].label)
       IN  IF ~Subject(next) \/ UpToDate(from)
           THEN /\ next' = next + 1
                /\ UNCHANGED <<pc, stns, msrs, cache, outcome>>
           ELSE \E result \in IF MsrTypes[next] = "G"
                              THEN TransformMeasurement_GX(next, from)
                              ELSE TransformMeasurement_Y(next, from) :
                   IF result.failed
                   THEN Quit("failed")
                   ELSE /\ msrs' = [msrs EXCEPT ![next] =
                                        Relabelled(@, result.coordinates)]
                        /\ cache' = result.cache
                        /\ next' = next + 1
                        /\ UNCHANGED <<pc, stns, outcome>>
    /\ UNCHANGED <<files, datumTo, plateModel, runs>>

WriteMeasurementsNever ==                                       \* mutant
    /\ pc = "measurements"
    /\ next \notin DOMAIN msrs
    /\ pc' = "stations"
    /\ next' = 1
    /\ cache' = NoCache
    /\ UNCHANGED <<files, datumTo, plateModel, stns, msrs, outcome, runs>>

WriteBinaryMeasurementFile ==
    /\ pc = "measurements"
    /\ next \notin DOMAIN msrs
    /\ bms' = msrs
    /\ pc' = "stations"
    /\ next' = 1
    /\ cache' = NoCache
    /\ UNCHANGED <<bst, datumTo, plateModel, stns, msrs, outcome, runs>>

TransformStation ==
    /\ pc = "stations"
    /\ next \in DOMAIN stns
    /\ LET from == Datum(stns[next].label)
       IN  IF UpToDate(from)
           THEN /\ next' = next + 1
                /\ UNCHANGED <<pc, stns, msrs, cache, outcome>>
           ELSE \E result \in Transform(stns[next].true, from, datumTo, cache,
                                        PlateKnown(next)) :
                   IF result.failed
                   THEN Quit("failed")
                   ELSE /\ stns' = [stns EXCEPT ![next] =
                                        Relabelled(@, result.coordinates)]
                        /\ cache' = result.cache
                        /\ next' = next + 1
                        /\ UNCHANGED <<pc, msrs, outcome>>
    /\ UNCHANGED <<files, datumTo, plateModel, runs>>

WriteBinaryStationFile ==
    /\ pc = "stations"
    /\ next \notin DOMAIN stns
    /\ bst' = stns
    /\ Quit("success")
    /\ UNCHANGED <<bms, datumTo, plateModel, runs>>

(* The process is killed. *)
Kill ==
    /\ pc # "idle"
    /\ Quit("killed")
    /\ UNCHANGED <<files, datumTo, plateModel, runs>>

Next ==
    \/ \E target \in Targets, allPlates \in BOOLEAN : Start(target, allPlates)
    \/ LoadBinaryFiles
    \/ TransformMeasurement
    \/ WriteBinaryMeasurementFile
    \/ TransformStation
    \/ WriteBinaryStationFile
    \/ Kill

Spec == Init /\ [][Next]_vars

-----------------------------------------------------------------------------
(* Properties. *)

(* The records are of the types the binary files hold, and the position    *)
(* in them stays within one of the end.                                    *)
TypeOK ==
    /\ bst \in [1 .. 2 -> Station]
    /\ bms \in Seq(Record)
    /\ stns \in Seq(Station)
    /\ msrs \in Seq(Record)
    /\ pc \in {"idle", "load", "measurements", "stations"}
    /\ datumTo \in Label
    /\ plateModel \in BOOLEAN
    /\ next \in 1 .. (Len(msrs) + Len(stns) + 1)
    /\ outcome \in {"none", "running", "failed", "killed", "success"}
    /\ runs \in 0 .. MaxRuns

(* What the files say of a record is true: its coordinates are in the      *)
(* frame and of the epoch of its label, whatever route the transformation  *)
(* took, whichever parameters were left in the cache by the record before  *)
(* (ObtainHelmertParameters), and whether earlier runs succeeded, failed   *)
(* or were killed between the two files.                                   *)
LabelsTrue ==
    /\ \A s \in DOMAIN bst : bst[s].true = Meaning(bst[s].label)
    /\ \A m \in DOMAIN bms : bms[m].true = Meaning(bms[m].label)

(* A source comment heads the selection for each pair (as in               *)
(* "// ITRF2014-to-ITRF1988").  While a pair is remembered, the parameters *)
(* kept with it are those of that pair, in its direction.                  *)
CacheOfThePair ==
    cache.fromTo # NoCache.fromTo =>
        \/ Fits(cache.parameters, cache.fromTo[1], cache.fromTo[2])
        \/ /\ cache.parameters = NoChange
           /\ cache.fromTo[1] = cache.fromTo[2]

(* A run that ends well has brought every station, and every measurement   *)
(* subject to a datum, to the frame and epoch that were asked for, from    *)
(* files in any mixture, also those a failed run has left behind.          *)
CompleteOnSuccess ==
    outcome = "success" =>
        /\ \A s \in DOMAIN bst : Datum(bst[s].label) = datumTo
        /\ \A m \in DOMAIN bms : Subject(m) => Datum(bms[m].label) = datumTo

(* A run fails for want of a date or a realisation of WGS84, for a target  *)
(* without parameters, or, between two dates in dynamic frames, of plate   *)
(* motion parameters for a station.  In particular the step over ITRF2014  *)
(* makes up for all the pairs without parameters of their own.             *)
FailsOnlyFor ==
    outcome = "failed" =>
        \/ datumTo.frame = "WGS84"
        \/ \E r \in {bst[s] : s \in DOMAIN bst} \cup {bms[m] : m \in DOMAIN bms} :
              \/ Meaning(r.label).frame = "WGS84"
              \/ r.label = [frame |-> "WGS84", epoch |-> 0]
              \/ /\ plateModel
                 /\ \E s \in DOMAIN bst : ~bst[s].located
                 /\ IsDynamic(Meaning(r.label).frame) /\ IsDynamic(datumTo.frame)
                 /\ Meaning(r.label).epoch # datumTo.epoch

(* "Transform measurements first (because pre-transformed station          *)
(* coordinates are required)": the station file is only ever written when  *)
(* the measurement file is in the same frame and epoch already.            *)
StationsFollow ==
    [][bst' # bst =>
          \A m \in DOMAIN bms :
              Subject(m) => Datum(bms[m].label) = datumTo]_vars
=============================================================================
