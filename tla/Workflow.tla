------------------------------- MODULE Workflow -------------------------------
(* The programs of DynAdjust work one after the other on the files of a       *)
(* project: import writes the binary station and measurement files (bst, bms),*)
(* reftran, geoid and adjust change them, segment writes the segmentation     *)
(* file (seg), a staged adjustment keeps matrices in mapped files (mtx).  The *)
(* driver dynadjust runs a choice of them in a fixed order.  Any of them may  *)
(* fail or be stopped between two of its writes.                              *)
(*                                                                            *)
(* The question is what an adjustment works with: what raw measurements       *)
(* became in the files over a history of programs, and whether all the files  *)
(* stem from one import.  A file is represented by the import it stems from,  *)
(* the program named in its metadata, and for measurements by the geoid       *)
(* models whose N values have gone into a term and by how often a variance    *)
(* has been scaled.  Of file times, only those that are compared are kept.    *)
EXTENDS Naturals, Sequences

CONSTANTS
    Imports,        \* networks that can be imported
    Geoids,         \* geoid models
    NoFile,         \* a file that does not exist
    Invocations     \* the sets of programs the driver is asked to run


VARIABLES
    bst,        \* binary station file: N values and the heights they went into
    bms,        \* binary measurement file
    seg,        \* segmentation file
    mtx,        \* stage files of an earlier adjustment, maybe mixed with a later one
    since,      \* of bst and bms, what was written after seg, and after mtx
    asked, todo, quiet, options,    \* what the driver was called with
    outcome,    \* what the log of the driver says
    pc,         \* where the running program is
    memory,     \* the network or the measurements it has in memory
    brought     \* history: the network this call of the driver has imported

files == <<bst, bms, seg, mtx, since>>
call == <<asked, quiet, options>>
driver == <<todo, outcome>>
vars == <<files, call, driver, pc, memory, brought>>

(* The order in which the driver runs what it was asked for.                  *)
Order == [import |-> 1, reftran |-> 2, geoid |-> 3, segment |-> 4, adjust |-> 5]
Programs == {"import", "reftran", "geoid", "segment", "adjust"}

(* One measurement of each kind that is treated differently: an orthometric   *)
(* height, an arc at mean sea level, a GNSS point cluster in latitude,        *)
(* longitude and orthometric height, a GNSS baseline.                         *)
Kinds == {"H", "M", "Y", "G"}

(* What is kept of a measurement, and of the files. *)
Measurements ==
    [term1 : Seq(Geoids), saved : Seq(Geoids), converted : BOOLEAN, scaled : Nat]

StationFiles ==
    [net : Imports, modifiedBy : {"import", "unset", "reftran", "geoid", "adjust"},
     N : Seq(Geoids), heights : Seq(Geoids)]

MeasurementFiles ==
    [net : Imports, modifiedBy : {"import", "reftran", "adjust"}, reduced : BOOLEAN,
     msrs : [Kinds -> Measurements]]

StageFiles == [from : Imports \X Imports, mixed : BOOLEAN]

ASSUME NoFileAssumption ==
    NoFile \notin Imports \cup StationFiles \cup MeasurementFiles \cup StageFiles \cup (Imports \X Imports)

Adjustments ==
    [mode : {"simultaneous", "phased"}, stage : {FALSE}, recreate : {FALSE}, user_seg : {FALSE}]
    \cup [mode : {"phased"}, stage : {FALSE}, recreate : {FALSE}, user_seg : {TRUE}]
    \cup [mode : {"phased"}, stage : {TRUE}, recreate : BOOLEAN, user_seg : {FALSE}]

Inputs == <<bst.net, bms.net>>

ASSUME InvocationsAssumption == Invocations \subseteq SUBSET Programs

Raw == [term1 |-> <<>>, saved |-> <<>>, converted |-> FALSE, scaled |-> 0]

------------------------------------------------------------------------------
(* Writing a file makes it newer than the others.                             *)
Writes(file) == since' = [f \in DOMAIN since |-> since[f] \cup {file}]
Renews(file) == since' = [since EXCEPT ![file] = {}]

Goto(label) == pc' = label /\ UNCHANGED driver

(* The program that runs returns EXIT_SUCCESS, or fails.  The driver stops    *)
(* after a failure, but not when it was told to be quiet.                     *)
First == CHOOSE p \in todo : \A q \in todo : Order[p] <= Order[q]

Succeeds ==
    /\ pc' = "idle"
    /\ todo' = todo \ {First}
    /\ outcome' = IF todo' = {} THEN "success" ELSE "none"

FailsGoesOn ==
    /\ pc' = "idle"
    /\ todo' = todo \ {First}
    /\ outcome' = IF todo' = {} THEN "success" ELSE "none"

Fails ==
    /\ pc' = "idle"
    /\ todo' = IF quiet THEN todo \ {First} ELSE {}
    /\ outcome' = IF ~quiet THEN "failure" ELSE IF todo' = {} THEN "success" ELSE "none"

Starting(program) == pc = "idle" /\ todo # {} /\ First = program

Init ==
    /\ bst = NoFile /\ bms = NoFile /\ seg = NoFile /\ mtx = NoFile
    /\ since = [f \in {"seg", "mtx"} |-> {}]
    /\ asked = {} /\ todo = {} /\ quiet = FALSE
    /\ options \in [mode : {"simultaneous"}, stage : {FALSE}, recreate : {FALSE}, user_seg : {FALSE}]
    /\ outcome = "none"
    /\ pc = "idle" /\ memory = NoFile /\ brought = NoFile

Selected(programs) == {q \in Programs : q \in programs}

Invoke ==
    /\ pc = "idle" /\ todo = {}
    /\ \E p \in Invocations :
         /\ asked' = p
         /\ todo' = Selected(p)
         /\ options' \in IF "adjust" \in p THEN Adjustments ELSE {options}
    /\ quiet' \in BOOLEAN
    /\ outcome' = "none" /\ brought' = NoFile
    /\ UNCHANGED <<files, pc, memory>>

------------------------------------------------------------------------------
(* import.  SerialiseBst sets the program's name in the metadata of the       *)
(* measurements; that of the stations is whatever the memory held.            *)
FilesOf(n) == {f \in {bst, bms} : f # NoFile /\ f.net = n}
FreshImports ==
    {n \in Imports : /\ FilesOf(n) = {}
                     /\ seg # NoFile => n \notin {seg[1], seg[2]}
                     /\ mtx # NoFile => n \notin {mtx.from[1], mtx.from[2]}}

SerialiseBst ==
    /\ Starting("import")
    /\ \E n \in FreshImports, by \in {"import", "unset"} :
         /\ bst' = [net |-> n, modifiedBy |-> by, N |-> <<>>, heights |-> <<>>]
         /\ memory' = n
    /\ Writes("bst")
    /\ Goto("import_bms")
    /\ UNCHANGED <<bms, seg, mtx, call, brought>>

SerialiseBms ==
    /\ pc = "import_bms"
    /\ bms' = [net |-> memory, modifiedBy |-> "import", reduced |-> FALSE,
               msrs |-> [k \in Kinds |-> Raw]]
    /\ Writes("bms")
    /\ Succeeds
    /\ brought' = memory /\ memory' = NoFile
    /\ UNCHANGED <<bst, seg, mtx, call>>

(* reftran writes the measurements before the stations.  It turns the terms of*)
(* the GNSS measurements, whatever has gone into them.                        *)
TransformMeasurements ==
    /\ Starting("reftran") /\ bst # NoFile /\ bms # NoFile
    /\ bms' = [bms EXCEPT !.modifiedBy = "reftran"]
    /\ Writes("bms")
    /\ Goto("reftran_bst")
    /\ UNCHANGED <<bst, seg, mtx, call, memory, brought>>

TransformStations ==
    /\ pc = "reftran_bst"
    /\ bst' = [bst EXCEPT !.modifiedBy = "reftran"]
    /\ Writes("bst")
    /\ Succeeds
    /\ UNCHANGED <<bms, seg, mtx, call, memory, brought>>

(* geoid.  A station outside of the grid keeps what it has.                   *)
PopulateOnTop(g) ==
    [bst EXCEPT !.N = <<g>>, !.heights = @ \o <<g>>]

PopulateStationRecords(g) ==
    [bst EXCEPT !.N = <<g>>, !.heights = <<g>>]

PopulateBinaryStationFile ==
    /\ Starting("geoid") /\ bst # NoFile
    /\ \E records \in {bst} \cup {PopulateStationRecords(g) : g \in Geoids} :
         bst' = [records EXCEPT !.modifiedBy = "geoid"]
    /\ Writes("bst")
    /\ Succeeds
    /\ UNCHANGED <<bms, seg, mtx, call, memory, brought>>

WriteSegmentedNetwork ==
    /\ Starting("segment") /\ bst # NoFile /\ bms # NoFile
    /\ seg' = Inputs
    /\ Renews("seg")
    /\ Succeeds
    /\ UNCHANGED <<bst, bms, mtx, call, memory, brought>>

------------------------------------------------------------------------------
(* adjust.  The wrapper looks at the times of the files, and only at files    *)
(* that import was the last to change, unless it is quiet.                    *)
ImportedBoth(file) ==
    /\ "bst" \in since[file] /\ bst.modifiedBy = "import"
    /\ "bms" \in since[file] /\ bms.modifiedBy = "import"

Imported(file) ==
    \/ "bst" \in since[file] /\ bst.modifiedBy = "import"
    \/ "bms" \in since[file] /\ bms.modifiedBy = "import"

SegmentationOutdated ==
    options.mode = "phased" /\ ~options.user_seg /\ Imported("seg")

StageFilesOutdatedAsSegmentation ==
    options.stage /\ ~options.recreate /\ mtx # NoFile /\ Imported("seg")

StageFilesOutdated ==
    options.stage /\ ~options.recreate /\ mtx # NoFile /\ Imported("mtx")

Accepted == quiet \/ (~SegmentationOutdated /\ ~StageFilesOutdated)

(* InitialiseMeasurement: the raw value, restored or kept for the next run.   *)
InitialiseAlways(r) == [r EXCEPT !.saved = r.term1]

InitialiseMeasurement(r) ==
    IF bms.reduced THEN [r EXCEPT !.term1 = r.saved] ELSE [r EXCEPT !.saved = r.term1]

(* What preparing the normals makes of a measurement.  Variances are scaled   *)
(* as long as the file is not reduced.  A point cluster becomes cartesian once*)
(* and for all.  A height gets the N value.  The arc is reduced later.        *)
ScaleAlways(r) == [r EXCEPT !.scaled = @ + 1]

LoadVarianceMatrix(r) == IF bms.reduced THEN r ELSE [r EXCEPT !.scaled = @ + 1]

ReducePoint(r) ==
    IF r.converted THEN r
    ELSE [r EXCEPT !.saved = r.term1, !.term1 = r.term1 \o bst.N, !.converted = TRUE]

ReduceHeight(r) ==
    LET raw == InitialiseMeasurement(r) IN [raw EXCEPT !.term1 = @ \o bst.N]

Prepare(k, r) ==
    CASE k = "H" -> ReduceHeight(r)
      [] k = "M" -> InitialiseMeasurement(r)
      [] k = "Y" -> LoadVarianceMatrix(ReducePoint(r))
      [] k = "G" -> LoadVarianceMatrix([r EXCEPT !.saved = r.term1])

(* In every iteration the arc is reduced again from what was measured.        *)
ReduceArc(r) == [r EXCEPT !.term1 = r.saved \o bst.N]

(* Matrices, and with them the reduction, of an earlier staged adjustment.    *)
Reuses == options.stage /\ ~options.recreate /\ bms.reduced

PrepareAdjustment ==
    /\ Starting("adjust") /\ bst # NoFile /\ bms # NoFile
    /\ options.mode = "phased" => seg # NoFile
    /\ Accepted
    /\ options.stage /\ ~options.recreate => mtx # NoFile
    /\ memory' = [k \in Kinds |-> IF Reuses THEN bms.msrs[k] ELSE Prepare(k, bms.msrs[k])]
    /\ IF options.recreate
       THEN mtx' = [from |-> Inputs, mixed |-> FALSE] /\ Renews("mtx")
       ELSE UNCHANGED <<mtx, since>>
    /\ Goto("solve")
    /\ UNCHANGED <<bst, bms, seg, call, brought>>

(* Iterations.  A staged adjustment writes its matrices into the files it has *)
(* found.                                                                     *)
AdjustNetwork ==
    /\ pc = "solve"
    /\ memory' = [memory EXCEPT !["M"] = ReduceArc(@)]
    /\ IF options.stage
       THEN mtx' = [mtx EXCEPT !.mixed = @ \/ mtx.from # Inputs] /\ Renews("mtx")
       ELSE UNCHANGED <<mtx, since>>
    /\ Goto("solved")
    /\ UNCHANGED <<bst, bms, seg, call, brought>>

(* There is a result to write, or the status is one after which nothing is    *)
(* written although the program returns success.                              *)
Finalise ==
    /\ pc = "solved"
    /\ \/ Goto("adjust_bst") /\ UNCHANGED memory
       \/ Succeeds /\ memory' = NoFile
    /\ UNCHANGED <<files, call, brought>>

UpdateBst ==
    /\ pc = "adjust_bst"
    /\ bst' = [bst EXCEPT !.modifiedBy = "adjust"]
    /\ Writes("bst")
    /\ Goto("adjust_bms")
    /\ UNCHANGED <<bms, seg, mtx, call, memory, brought>>

UpdateBms ==
    /\ pc = "adjust_bms"
    /\ bms' = [bms EXCEPT !.msrs = memory, !.reduced = TRUE, !.modifiedBy = "adjust"]
    /\ Writes("bms")
    /\ Succeeds
    /\ memory' = NoFile
    /\ UNCHANGED <<bst, seg, mtx, call, brought>>

------------------------------------------------------------------------------
(* A program fails, for whatever reason or because it refuses its input, or   *)
(* is killed: the rest of its writes does not happen.  Or all are stopped.    *)
Stops ==
    /\ todo # {}
    /\ Fails
    /\ memory' = NoFile
    /\ UNCHANGED <<files, call, brought>>

Interrupt ==
    /\ todo # {}
    /\ pc' = "idle" /\ todo' = {} /\ memory' = NoFile
    /\ UNCHANGED <<files, call, outcome, brought>>

Next ==
    \/ Invoke \/ SerialiseBst \/ SerialiseBms
    \/ TransformMeasurements \/ TransformStations
    \/ PopulateBinaryStationFile \/ WriteSegmentedNetwork
    \/ PrepareAdjustment \/ AdjustNetwork \/ Finalise \/ UpdateBst \/ UpdateBms
    \/ Stops \/ Interrupt

Spec == Init /\ [][Next]_vars

------------------------------------------------------------------------------
Adjusting == {"solve", "solved", "adjust_bst", "adjust_bms"}

TypeOK ==
    /\ bst \in {NoFile} \cup StationFiles
    /\ bms \in {NoFile} \cup MeasurementFiles
    /\ seg \in {NoFile} \cup (Imports \X Imports)
    /\ mtx \in {NoFile} \cup StageFiles
    /\ since \in [{"seg", "mtx"} -> SUBSET {"bst", "bms"}]
    /\ asked \in SUBSET Programs /\ todo \in SUBSET asked
    /\ quiet \in BOOLEAN
    /\ options \in Adjustments
    /\ outcome \in {"none", "success", "failure"}
    /\ pc \in {"idle", "import_bms", "reftran_bst"} \cup Adjusting
    /\ pc = "import_bms" => memory \in Imports
    /\ pc \in Adjusting => memory \in [Kinds -> Measurements]
    /\ brought \in {NoFile} \cup Imports

(* At any time, also after a program was stopped between two writes, the      *)
(* measured height and the measured arc can be told from the measurement file:*)
(* they are what the metadata says, the kept value of a reduced file and the  *)
(* term of one that is not.                                                   *)
RawRecoverable ==
    bms # NoFile =>
        \A k \in {"H", "M"} :
            (IF bms.reduced THEN bms.msrs[k].saved ELSE bms.msrs[k].term1) = <<>>

(* An adjustment that has solved used no measurement from which an N value    *)
(* was applied twice and no variance that was scaled twice or not at all, in  *)
(* whichever order programs ran, failed and were repeated before.             *)
ReducedOnce ==
    pc = "solved" =>
        /\ \A k \in Kinds : Len(memory[k].term1) <= 1
        /\ \A k \in {"Y", "G"} : memory[k].scaled = 1
        /\ memory["Y"].converted

(* It used the N values of the station file for heights and arcs, also after  *)
(* another geoid model was run on reduced files, and the station heights have *)
(* the same N in them.  Not so a height whose staged matrices are used again. *)
ReducedByGeoid ==
    pc = "solved" =>
        /\ bst.heights = bst.N
        /\ memory["M"].term1 = bst.N
        /\ ~Reuses => memory["H"].term1 = bst.N

(* A phased adjustment that is not quiet solves with a segmentation of other  *)
(* inputs only if the user named the file, an import was stopped half way, or *)
(* another program has changed the measurements after the import.             *)
SegmentationCurrent ==
    pc = "solve" /\ options.mode = "phased" /\ ~quiet /\ ~options.user_seg =>
        \/ seg = Inputs
        \/ bst.net # bms.net
        \/ bms.modifiedBy # "import"

(* The same for the stage files of an earlier adjustment, unless one that was *)
(* quiet, or excused so, has written into those of other inputs already.      *)
StageFilesCurrent ==
    pc = "solve" /\ options.stage /\ ~quiet =>
        \/ mtx.from = Inputs
        \/ mtx.mixed
        \/ bst.net # bms.net
        \/ bms.modifiedBy # "import"

(* When the driver, not told to be quiet, was asked to import and reports     *)
(* success, both files are of the network it imported, and so is the          *)
(* segmentation if it was asked for.                                          *)
SuccessIsOfThisImport ==
    outcome = "success" /\ ~quiet /\ "import" \in asked =>
        /\ brought # NoFile /\ Inputs = <<brought, brought>>
        /\ "segment" \in asked => seg = Inputs
================================================================================
