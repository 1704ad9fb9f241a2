------------------- MODULE ReferenceFrameTransformationInv -------------------
(***************************************************************************)
(* The inductive invariant of ReferenceFrameTransformation, in named parts. *)
(***************************************************************************)
EXTENDS ReferenceFrameTransformation

Found(parameters) == parameters.is \in {"set", "zero"}

(* The caches that are left behind by a transformation that ends well.      *)
(* With a pair are kept the parameters that are selected for it, and it     *)
(* leads to the frame asked for or to ITRF2014.                             *)
Remembers(used, target) ==
    \/ used.fromTo = NoCache.fromTo
    \/ \E a \in Frames, b \in {target, "ITRF2014"} :
          /\ used.fromTo = <<a, b>>
          /\ used.parameters = HelmertParameters[<<a, b>>]
          /\ Found(used.parameters)

Selections ==
    {NoChange, NotDefined}
        \cup {Forward(a, b) : a, b \in Frames} \cup {Reversed(a, b) : a, b \in Frames}

Pairs == {NoCache.fromTo} \cup Frames \X Frames

Caches == [fromTo : Pairs, parameters : Selections]

CacheSound == cache \in Caches /\ Remembers(cache, datumTo.frame)

(* A run that goes on has a target with a date, and has not ended.          *)
Running ==
    IF pc = "idle"
    THEN outcome # "running"
    ELSE /\ outcome = "running"
         /\ datumTo.epoch # 0
         /\ datumTo \in {TargetDatum(target) : target \in Targets}

(* Nothing is kept in memory before the files are read, nor after the end.  *)
MemoryEmpty ==
    pc \in {"idle", "load"} => stns = <<>> /\ msrs = <<>> /\ next = 1 /\ cache = NoCache

(* The records from "next" on are those of the file, with the ensemble      *)
(* WGS84 replaced; those before it are of the frame and epoch asked for.    *)
Unread(records, file, i) ==
    /\ DOMAIN records = DOMAIN file
    /\ ~Undated(file)
    /\ \A j \in DOMAIN file : j >= i => records[j] = Substituted(file)[j]

Transformed(records, i) ==
    \A j \in DOMAIN records : j < i => Datum(records[j].label) = datumTo

MeasurementsDone(records, i) ==
    \A j \in DOMAIN records : j < i /\ Subject(j) => Datum(records[j].label) = datumTo

Measuring ==
    pc = "measurements" =>
        /\ next <= Len(msrs) + 1
        /\ Unread(msrs, bms, next)
        /\ MeasurementsDone(msrs, next)
        /\ Unread(stns, bst, 1)

Stationing ==
    pc = "stations" =>
        /\ next <= Len(stns) + 1
        /\ Unread(stns, bst, next)
        /\ Transformed(stns, next)
        /\ msrs = bms
        /\ MeasurementsDone(bms, Len(bms) + 1)

RunInv ==
    /\ TypeOK
    /\ CacheSound
    /\ Running
    /\ MemoryEmpty
    /\ Measuring
    /\ Stationing

-----------------------------------------------------------------------------
(* What is asked of networks and targets for labels to stay true: nothing   *)
(* is in NAD83, which is used with the dates of a dynamic frame for a static *)
(* one and the other way round, and nothing goes to ITRF1988, for which the *)
(* parameters of ITRF1989 are kept.                                         *)
Supported ==
    /\ \A network \in Networks :
          /\ network.stns[1].frame # "NAD83" /\ network.stns[2].frame # "NAD83"
          /\ \A m \in DOMAIN MsrTypes : network.msrs[m].frame # "NAD83"
    /\ \A target \in Targets : target.frame \notin {"NAD83", "ITRF1988"}

TrueRecord(r) == r.true = Meaning(r.label) /\ r.label.frame # "NAD83"

TrueRecords(records) == \A i \in DOMAIN records : TrueRecord(records[i])

LabelsInv ==
    /\ TrueRecords(bst) /\ TrueRecords(bms)
    /\ TrueRecords(stns) /\ TrueRecords(msrs)
=============================================================================
