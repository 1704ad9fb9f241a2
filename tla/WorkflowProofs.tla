---------------------------- MODULE WorkflowProofs ----------------------------
(* Proofs about Workflow, for every set of networks, geoid models and calls.  *)
EXTENDS WorkflowInv, SequenceTheorems, TLAPS

(* There is a program to be run first, and it is import if import is asked    *)
(* for.                                                                       *)
LEMMA FirstIsNext ==
  ASSUME todo \subseteq Programs, todo # {}
  PROVE  First \in todo /\ ("import" \in todo => First = "import")
  <1>1. \E p \in todo : \A q \in todo : Order[p] <= Order[q]
    <2>1. CASE "import" \in todo
      BY <2>1 DEF Programs, Order
    <2>2. CASE "import" \notin todo /\ "reftran" \in todo
      BY <2>2 DEF Programs, Order
    <2>3. CASE "import" \notin todo /\ "reftran" \notin todo /\ "geoid" \in todo
      BY <2>3 DEF Programs, Order
    <2>4. CASE todo \subseteq {"segment", "adjust"} /\ "segment" \in todo
      BY <2>4 DEF Programs, Order
    <2>5. CASE todo = {"adjust"}
      BY <2>5 DEF Programs, Order
    <2> QED
      BY <2>1, <2>2, <2>3, <2>4, <2>5 DEF Programs
  <1>2. First \in todo /\ \A q \in todo : Order[First] <= Order[q]
    BY <1>1 DEF First
  <1> QED
    BY <1>2 DEF Programs, Order

(* Both files are of a network.                                               *)
LEMMA InputsType ==
  ASSUME bst \in StationFiles, bms \in MeasurementFiles
  PROVE  Inputs \in Imports \X Imports
  BY DEF Inputs, StationFiles, MeasurementFiles

(* Preparing makes a measurement of a measurement.                            *)
LEMMA PreparedType ==
  ASSUME NEW r \in Measurements, NEW k \in Kinds, bst \in StationFiles
  PROVE  Prepare(k, r) \in Measurements
  <1>1. bst.N \in Seq(Geoids) /\ r.term1 \in Seq(Geoids) /\ r.saved \in Seq(Geoids)
    BY DEF StationFiles, Measurements
  <1>2. InitialiseMeasurement(r) \in Measurements
    BY DEF InitialiseMeasurement, Measurements
  <1>3. \A x \in Measurements : x.term1 \o bst.N \in Seq(Geoids)
    BY <1>1, ConcatProperties DEF Measurements
  <1>4. ReduceHeight(r) \in Measurements
    BY <1>2, <1>3 DEF ReduceHeight, Measurements
  <1>5. \A x \in Measurements : LoadVarianceMatrix(x) \in Measurements
    <2> TAKE x \in Measurements
    <2>1. x.scaled + 1 \in Nat
      BY DEF Measurements
    <2> QED
      BY <2>1 DEF LoadVarianceMatrix, Measurements
  <1>6. ReducePoint(r) \in Measurements
    BY <1>3 DEF ReducePoint, Measurements
  <1>7. [r EXCEPT !.saved = r.term1] \in Measurements
    BY DEF Measurements
  <1> QED
    BY <1>2, <1>4, <1>5, <1>6, <1>7 DEF Prepare, Kinds

(* Ending a program keeps what is to be done within what was asked for.       *)
LEMMA EndType ==
  ASSUME TypeOK, Succeeds \/ Fails
  PROVE  todo' \subseteq todo /\ pc' = "idle" /\ outcome' \in {"none", "success", "failure"}
  BY DEF TypeOK, Succeeds, Fails

(* Every step keeps the types.                                                *)
LEMMA TypeStep ==
  ASSUME TypeOK, Running, [Next]_vars
  PROVE  TypeOK'
  <1> USE DEF TypeOK, Running, files, call, driver, Writes, Renews, Goto, Adjusting
  <1>1. CASE Invoke
    BY <1>1, InvocationsAssumption DEF Invoke, Selected, Programs
  <1>2. CASE SerialiseBst
    <2>1. bst' \in StationFiles /\ memory' \in Imports
      BY <1>2 DEF SerialiseBst, FreshImports, StationFiles
    <2> QED
      BY <1>2, <2>1 DEF SerialiseBst
  <1>3. CASE SerialiseBms
    <2>1. Raw \in Measurements
      BY DEF Raw, Measurements
    <2>2. bms' \in MeasurementFiles
      BY <1>3, <2>1 DEF SerialiseBms, MeasurementFiles
    <2> QED
      BY <1>3, <2>2, EndType DEF SerialiseBms
  <1>4. CASE TransformMeasurements
    <2>1. bms' \in MeasurementFiles
      BY <1>4 DEF TransformMeasurements, MeasurementFiles
    <2> QED
      BY <1>4, <2>1 DEF TransformMeasurements
  <1>5. CASE TransformStations
    <2>1. bst' \in StationFiles
      BY <1>5 DEF TransformStations, StationFiles
    <2> QED
      BY <1>5, <2>1, EndType DEF TransformStations
  <1>6. CASE PopulateBinaryStationFile
    <2>0. \A g \in Geoids : <<g>> \in Seq(Geoids)
      OBVIOUS
    <2>a. PICK records \in {bst} \cup {PopulateStationRecords(g) : g \in Geoids} :
            bst' = [records EXCEPT !.modifiedBy = "geoid"]
      BY <1>6 DEF PopulateBinaryStationFile
    <2>b. bst \in StationFiles
      BY <1>6 DEF PopulateBinaryStationFile
    <2>c. \A g \in Geoids : PopulateStationRecords(g) \in StationFiles
      BY <2>0, <2>b DEF PopulateStationRecords, StationFiles
    <2>d. records \in StationFiles
      BY <2>a, <2>b, <2>c
    <2>1. bst' \in StationFiles
      BY <2>a, <2>d DEF StationFiles
    <2> QED
      BY <1>6, <2>1, EndType DEF PopulateBinaryStationFile
  <1>7. CASE WriteSegmentedNetwork
    <2>1. seg' \in Imports \X Imports
      BY <1>7, InputsType DEF WriteSegmentedNetwork
    <2> QED
      BY <1>7, <2>1, EndType DEF WriteSegmentedNetwork
  <1>8. CASE PrepareAdjustment
    <2>1. memory' \in [Kinds -> Measurements]
      BY <1>8, PreparedType DEF PrepareAdjustment, MeasurementFiles
    <2>a. [from |-> Inputs, mixed |-> FALSE] \in StageFiles
      BY <1>8, InputsType DEF PrepareAdjustment, StageFiles
    <2>2. mtx' \in {NoFile} \cup StageFiles
      BY <1>8, <2>a DEF PrepareAdjustment
    <2> QED
      BY <1>8, <2>1, <2>2 DEF PrepareAdjustment
  <1>9. CASE AdjustNetwork
    <2>0. bst.N \in Seq(Geoids) /\ memory["M"] \in Measurements
      BY <1>9 DEF AdjustNetwork, StationFiles, Kinds
    <2>a. memory["M"].saved \o bst.N \in Seq(Geoids)
      BY <2>0, ConcatProperties DEF Measurements
    <2>b. ReduceArc(memory["M"]) \in Measurements
      BY <2>0, <2>a DEF ReduceArc, Measurements
    <2>1. memory' \in [Kinds -> Measurements]
      BY <1>9, <2>b DEF AdjustNetwork, Kinds
    <2>2. mtx' \in {NoFile} \cup StageFiles
      BY <1>9 DEF AdjustNetwork, StageFiles
    <2> QED
      BY <1>9, <2>1, <2>2 DEF AdjustNetwork
  <1>10. CASE Finalise
    BY <1>10, EndType DEF Finalise
  <1>11. CASE UpdateBst
    <2>1. bst' \in StationFiles
      BY <1>11 DEF UpdateBst, StationFiles
    <2> QED
      BY <1>11, <2>1 DEF UpdateBst
  <1>12. CASE UpdateBms
    <2>1. bms' \in MeasurementFiles
      BY <1>12 DEF UpdateBms, MeasurementFiles
    <2> QED
      BY <1>12, <2>1, EndType DEF UpdateBms
  <1>13. CASE Stops
    BY <1>13, EndType DEF Stops
  <1>14. CASE Interrupt
    BY <1>14 DEF Interrupt
  <1>15. CASE UNCHANGED vars
    BY <1>15 DEF vars
  <1> QED
    BY <1>1, <1>2, <1>3, <1>4, <1>5, <1>6, <1>7, <1>8, <1>9, <1>10, <1>11, <1>12,
       <1>13, <1>14, <1>15 DEF Next

(* The steps that do not leave all programs idle.                             *)
LEMMA IdleOrBusy ==
  ASSUME [Next]_vars, pc' # "idle"
  PROVE  \/ SerialiseBst \/ TransformMeasurements \/ PrepareAdjustment \/ AdjustNetwork
         \/ (Finalise /\ Goto("adjust_bst") /\ UNCHANGED memory) \/ UpdateBst \/ UNCHANGED vars
  BY DEF Next, Succeeds, Fails, Invoke, SerialiseBms, TransformStations, Finalise,
    PopulateBinaryStationFile, WriteSegmentedNetwork, UpdateBms, Stops, Interrupt

(* Every program that runs is the next one and has the files it works on.     *)
LEMMA RunningStep ==
  ASSUME TypeOK, TypeOK', Running, [Next]_vars
  PROVE  Running'
  <1>1. CASE pc' = "idle"
    BY <1>1 DEF Running, Adjusting
  <1>2. ASSUME UNCHANGED todo, First # First' PROVE FALSE
    BY <1>2 DEF First
  <1> USE <1>2 DEF Running, Adjusting, Goto, driver, call
  <1>3. CASE SerialiseBst
    <2>1. bst' \in StationFiles /\ bst'.net = memory'
      BY <1>3 DEF SerialiseBst, FreshImports, StationFiles
    <2> QED
      BY <1>3, <2>1, NoFileAssumption DEF SerialiseBst, Starting
  <1>4. CASE TransformMeasurements
    <2>1. bms' \in MeasurementFiles
      BY <1>4 DEF TransformMeasurements, TypeOK, MeasurementFiles
    <2> QED
      BY <1>4, <2>1, NoFileAssumption DEF TransformMeasurements, Starting
  <1>5. CASE PrepareAdjustment
    <2>0. bst \in StationFiles /\ bms \in MeasurementFiles
      BY <1>5 DEF PrepareAdjustment, TypeOK
    <2>a. Inputs \in Imports \X Imports
      BY <2>0, InputsType
    <2>b. options.recreate => mtx' = [from |-> Inputs, mixed |-> FALSE]
      BY <1>5 DEF PrepareAdjustment
    <2>c. [from |-> Inputs, mixed |-> FALSE] \in StageFiles
      BY <2>a DEF StageFiles
    <2>1. options.recreate => mtx' \in StageFiles
      BY <2>b, <2>c
    <2> QED
      BY <1>5, <2>1, NoFileAssumption DEF PrepareAdjustment, Starting
  <1>6. CASE AdjustNetwork
    <2>a. options.stage => mtx \in StageFiles
      BY <1>6 DEF AdjustNetwork, TypeOK
    <2>b. options.stage => mtx' = [mtx EXCEPT !.mixed = @ \/ mtx.from # Inputs]
      BY <1>6 DEF AdjustNetwork
    <2>1. options.stage => mtx' \in StageFiles
      BY <2>a, <2>b DEF StageFiles
    <2> QED
      BY <1>6, <2>1, NoFileAssumption DEF AdjustNetwork
  <1>7. CASE Finalise /\ Goto("adjust_bst") /\ UNCHANGED memory
    BY <1>7 DEF Finalise, files
  <1>8. CASE UpdateBst
    <2>1. bst' \in StationFiles
      BY <1>8 DEF UpdateBst, TypeOK, StationFiles
    <2> QED
      BY <1>8, <2>1, NoFileAssumption DEF UpdateBst
  <1>9. CASE UNCHANGED vars
    BY <1>9 DEF vars, files
  <1> QED
    BY <1>1, <1>3, <1>4, <1>5, <1>6, <1>7, <1>8, <1>9, IdleOrBusy

(* The steps that write the measurement file.                                 *)
LEMMA MeasurementsWritten ==
  ASSUME TypeOK, Running, [Next]_vars, bms' # bms
  PROVE  \/ SerialiseBms
         \/ TransformMeasurements /\ bms \in MeasurementFiles
               /\ bms'.msrs = bms.msrs /\ bms'.reduced = bms.reduced
         \/ UpdateBms /\ bms'.msrs = memory /\ bms'.reduced
  <1>1. CASE TransformMeasurements
    BY <1>1 DEF TransformMeasurements, TypeOK, MeasurementFiles
  <1>2. CASE UpdateBms
    BY <1>2 DEF UpdateBms, TypeOK, Running, Adjusting, MeasurementFiles
  <1>3. SerialiseBms \/ TransformMeasurements \/ UpdateBms
    BY DEF Next, vars, files, Invoke, SerialiseBst, TransformStations, PopulateBinaryStationFile,
      WriteSegmentedNetwork, PrepareAdjustment, AdjustNetwork, Finalise, UpdateBst, Stops, Interrupt
  <1> QED
    BY <1>1, <1>2, <1>3

(* The steps after which measurements are in memory.                          *)
LEMMA MeasurementsInMemory ==
  ASSUME [Next]_vars, pc' \in Adjusting
  PROVE  \/ PrepareAdjustment /\ UNCHANGED <<bst, bms, call>>
         \/ AdjustNetwork /\ UNCHANGED <<bst, bms, call>>
         \/ pc = "solved" /\ pc' = "adjust_bst" /\ UNCHANGED <<bst, bms, call, memory>>
         \/ pc = "adjust_bst" /\ pc' = "adjust_bms" /\ UNCHANGED <<bms, call, memory>>
         \/ UNCHANGED vars
  BY IdleOrBusy DEF SerialiseBst, TransformMeasurements, PrepareAdjustment, AdjustNetwork, Finalise,
    UpdateBst, Goto, Adjusting, files

(* The measured values of heights and arcs stay what can be recovered.        *)
LEMMA RawStep ==
  ASSUME TypeOK, Running, RawRecoverable, RawKept, [Next]_vars
  PROVE  RawRecoverable' /\ RawKept'
  <1>1. RawRecoverable'
    <2>1. CASE SerialiseBms
      BY <2>1 DEF SerialiseBms, RawRecoverable, Raw, Kinds
    <2>2. CASE UpdateBms
      <3>1. bms' = bms \/ (bms'.msrs = memory /\ bms'.reduced)
        BY <2>2, MeasurementsWritten DEF SerialiseBms, TransformMeasurements, UpdateBms
      <3> QED
        BY <2>2, <3>1 DEF UpdateBms, RawRecoverable, RawKept, Adjusting
    <2>3. CASE bms' = bms
      BY <2>3 DEF RawRecoverable
    <2>4. CASE bms # NoFile /\ bms'.msrs = bms.msrs /\ bms'.reduced = bms.reduced
      BY <2>4 DEF RawRecoverable
    <2> QED
      BY <2>1, <2>2, <2>3, <2>4, MeasurementsWritten DEF TransformMeasurements
  <1>2. RawKept'
    <2>1. CASE PrepareAdjustment
      <3>1. \A k \in {"H", "M"} : bms.msrs[k] \in Measurements
        BY <2>1 DEF PrepareAdjustment, TypeOK, MeasurementFiles, Kinds
      <3>2. \A k \in {"H", "M"} : InitialiseMeasurement(bms.msrs[k]).saved = <<>>
        BY <2>1, <3>1 DEF PrepareAdjustment, RawRecoverable, InitialiseMeasurement, Measurements
      <3>3. \A k \in {"H", "M"} : InitialiseMeasurement(bms.msrs[k]) \in Measurements
        BY <3>1 DEF InitialiseMeasurement, Measurements
      <3>4. \A k \in {"H", "M"} : Prepare(k, bms.msrs[k]).saved = <<>>
        BY <3>2, <3>3 DEF Prepare, ReduceHeight, Measurements
      <3>5. Reuses => \A k \in {"H", "M"} : bms.msrs[k].saved = <<>>
        BY <2>1 DEF PrepareAdjustment, RawRecoverable, Reuses
      <3> QED
        BY <2>1, <3>4, <3>5 DEF PrepareAdjustment, RawKept, Kinds
    <2>2. CASE AdjustNetwork
      <3>1. memory \in [Kinds -> Measurements]
        BY <2>2 DEF AdjustNetwork, TypeOK, Adjusting
      <3>2. ReduceArc(memory["M"]).saved = memory["M"].saved
        BY <3>1 DEF ReduceArc, Measurements, Kinds
      <3> QED
        BY <2>2, <3>1, <3>2 DEF AdjustNetwork, RawKept, Kinds, Adjusting
    <2>3. CASE memory' = memory /\ pc \in Adjusting
      BY <2>3 DEF RawKept
    <2> QED
      BY <2>1, <2>2, <2>3, MeasurementsInMemory DEF RawKept, Adjusting, vars
  <1> QED
    BY <1>1, <1>2


(* What preparing does to the number of N values and of scalings.             *)
LEMMA PreparedOnce ==
  ASSUME NEW r \in Measurements, bst \in StationFiles, Len(bst.N) <= 1, bms.reduced \in BOOLEAN
  PROVE  /\ (IF bms.reduced THEN r.saved ELSE r.term1) = <<>> =>
                /\ Prepare("H", r).term1 = bst.N
                /\ Prepare("M", r).term1 = <<>>
         /\ (Len(r.term1) <= 1 /\ (r.converted \/ r.term1 = <<>>)) =>
                Prepare("Y", r).converted /\ Len(Prepare("Y", r).term1) <= 1
         /\ r.scaled = (IF bms.reduced THEN 1 ELSE 0) =>
                Prepare("Y", r).scaled = 1 /\ Prepare("G", r).scaled = 1
         /\ Prepare("G", r).term1 = r.term1
  <1>1. bst.N \in Seq(Geoids) /\ r.term1 \in Seq(Geoids) /\ r.saved \in Seq(Geoids)
    BY DEF StationFiles, Measurements
  <1>2. <<>> \o bst.N = bst.N
    BY <1>1
  <1>3. ASSUME (IF bms.reduced THEN r.saved ELSE r.term1) = <<>>
        PROVE  Prepare("H", r).term1 = bst.N /\ Prepare("M", r).term1 = <<>>
    <2>1. InitialiseMeasurement(r).term1 = <<>> /\ InitialiseMeasurement(r) \in Measurements
      BY <1>3 DEF InitialiseMeasurement, Measurements
    <2>2. ReduceHeight(r).term1 = <<>> \o bst.N
      BY <2>1 DEF ReduceHeight, Measurements
    <2> QED
      BY <1>2, <2>1, <2>2 DEF Prepare
  <1>4. \A x \in Measurements :
          /\ LoadVarianceMatrix(x).term1 = x.term1
          /\ LoadVarianceMatrix(x).converted = x.converted
          /\ x.scaled = (IF bms.reduced THEN 1 ELSE 0) => LoadVarianceMatrix(x).scaled = 1
    BY DEF LoadVarianceMatrix, Measurements
  <1>5. ReducePoint(r) \in Measurements /\ ReducePoint(r).converted /\ ReducePoint(r).scaled = r.scaled
    BY <1>1, ConcatProperties DEF ReducePoint, Measurements
  <1>6. ASSUME Len(r.term1) <= 1, r.converted \/ r.term1 = <<>>
        PROVE  Len(ReducePoint(r).term1) <= 1
    <2>1. CASE r.converted
      BY <1>6, <2>1 DEF ReducePoint
    <2>2. CASE ~r.converted
      <3>1. r.term1 \o bst.N = bst.N
        BY <1>2, <1>6, <2>2
      <3>2. ReducePoint(r).term1 = r.term1 \o bst.N
        BY <2>2 DEF ReducePoint, Measurements
      <3> QED
        BY <3>1, <3>2
    <2> QED
      BY <2>1, <2>2
  <1>7. [r EXCEPT !.saved = r.term1] \in Measurements /\ [r EXCEPT !.saved = r.term1].term1 = r.term1
          /\ [r EXCEPT !.saved = r.term1].scaled = r.scaled
    BY DEF Measurements
  <1>8. /\ Prepare("Y", r) = LoadVarianceMatrix(ReducePoint(r))
        /\ Prepare("G", r) = LoadVarianceMatrix([r EXCEPT !.saved = r.term1])
    BY DEF Prepare
  <1>9. ASSUME Len(r.term1) <= 1, r.converted \/ r.term1 = <<>>
        PROVE  Prepare("Y", r).converted /\ Len(Prepare("Y", r).term1) <= 1
    BY <1>4, <1>5, <1>6, <1>8, <1>9
  <1>10. ASSUME r.scaled = (IF bms.reduced THEN 1 ELSE 0)
         PROVE  Prepare("Y", r).scaled = 1 /\ Prepare("G", r).scaled = 1
    BY <1>4, <1>5, <1>7, <1>8, <1>10
  <1>11. Prepare("G", r).term1 = r.term1
    BY <1>4, <1>7, <1>8
  <1> QED
    BY <1>3, <1>9, <1>10, <1>11

(* The station file has at most one N value, the one in the heights.          *)
LEMMA GeoidStep ==
  ASSUME TypeOK, Running, bst # NoFile => bst.heights = bst.N /\ Len(bst.N) <= 1, [Next]_vars,
         bst' # NoFile
  PROVE  bst'.heights = bst'.N /\ Len(bst'.N) <= 1
  <1>1. CASE SerialiseBst
    BY <1>1 DEF SerialiseBst
  <1>2. CASE TransformStations \/ UpdateBst
    BY <1>2 DEF TransformStations, UpdateBst, TypeOK, StationFiles, Running, Adjusting
  <1>3. CASE PopulateBinaryStationFile
    <2>1. bst \in StationFiles
      BY <1>3 DEF PopulateBinaryStationFile, TypeOK
    <2>2. PICK records \in {bst} \cup {PopulateStationRecords(g) : g \in Geoids} :
            bst' = [records EXCEPT !.modifiedBy = "geoid"]
      BY <1>3 DEF PopulateBinaryStationFile
    <2>3. \A g \in Geoids : <<g>> \in Seq(Geoids)
      OBVIOUS
    <2>4. \A g \in Geoids : /\ PopulateStationRecords(g) \in StationFiles
                            /\ PopulateStationRecords(g).N = <<g>>
                            /\ PopulateStationRecords(g).heights = <<g>>
      BY <2>1, <2>3 DEF PopulateStationRecords, StationFiles
    <2>5. bst.heights = bst.N /\ Len(bst.N) <= 1
      BY <1>3 DEF PopulateBinaryStationFile
    <2>6. \A g \in Geoids : Len(PopulateStationRecords(g).N) <= 1
      <3> TAKE g \in Geoids
      <3>1. Len(<<g>>) <= 1
        OBVIOUS
      <3>2. PopulateStationRecords(g).N = <<g>>
        BY <2>4
      <3> QED
        BY <3>1, <3>2, Zenon
    <2>7. records = bst \/ \E g \in Geoids : records = PopulateStationRecords(g)
      BY <2>2
    <2>8. records \in StationFiles /\ records.heights = records.N /\ Len(records.N) <= 1
      <3>1. CASE records = bst
        BY <2>1, <2>5, <3>1
      <3>2. CASE \E g \in Geoids : records = PopulateStationRecords(g)
        <4>1. PICK g \in Geoids : records = PopulateStationRecords(g)
          BY <3>2
        <4> QED
          BY <2>4, <2>6, <4>1
      <3> QED
        BY <2>7, <3>1, <3>2
    <2> QED
      BY <2>2, <2>8 DEF StationFiles
  <1>4. CASE bst' = bst
    BY <1>4
  <1> QED
    BY <1>1, <1>2, <1>3, <1>4 DEF Next, vars, files, Invoke, SerialiseBms, TransformMeasurements,
      WriteSegmentedNetwork, PrepareAdjustment, AdjustNetwork, Finalise, UpdateBms, Stops, Interrupt

(* No N value is applied twice, no variance is scaled twice.                  *)
LEMMA OnceInFileStep ==
  ASSUME TypeOK, Running, OnceInFile, OnceInMemory, [Next]_vars
  PROVE  OnceInFile'
  <1>1. CASE SerialiseBms
    BY <1>1 DEF SerialiseBms, OnceInFile, Raw, Kinds
  <1>2. CASE bms # NoFile /\ bms'.msrs = bms.msrs /\ bms'.reduced = bms.reduced
    BY <1>2 DEF OnceInFile
  <1>3. CASE pc \in Adjusting /\ bms'.msrs = memory /\ bms'.reduced
    BY <1>3 DEF OnceInFile, OnceInMemory
  <1>4. CASE bms' = bms
    BY <1>4 DEF OnceInFile
  <1> QED
    BY <1>1, <1>2, <1>3, <1>4, MeasurementsWritten DEF TransformMeasurements, UpdateBms, Adjusting

LEMMA OnceInMemoryStep ==
  ASSUME TypeOK, Running, OnceInFile, OnceInMemory, RawRecoverable, RawKept, Geoidal, [Next]_vars
  PROVE  OnceInMemory'
  <1>1. CASE PrepareAdjustment
    <2>1. /\ bst \in StationFiles /\ Len(bst.N) <= 1 /\ bms.reduced \in BOOLEAN
          /\ \A k \in Kinds : bms.msrs[k] \in Measurements
      BY <1>1 DEF PrepareAdjustment, TypeOK, MeasurementFiles, Geoidal
    <2>2. CASE Reuses
      BY <1>1, <2>2 DEF PrepareAdjustment, OnceInFile, OnceInMemory, Reuses, Kinds
    <2>3. CASE ~Reuses
      <3>1. \A k \in Kinds : memory'[k] = Prepare(k, bms.msrs[k])
        BY <1>1, <2>3 DEF PrepareAdjustment
      <3>2. memory'["H"].term1 = bst.N /\ memory'["M"].term1 = <<>>
        BY <1>1, <2>1, <3>1, PreparedOnce DEF PrepareAdjustment, RawRecoverable, Kinds
      <3>3. memory'["Y"].converted /\ Len(memory'["Y"].term1) <= 1
        BY <1>1, <2>1, <3>1, PreparedOnce DEF PrepareAdjustment, OnceInFile, Kinds
      <3>4. \A k \in {"Y", "G"} : memory'[k].scaled = 1
        BY <1>1, <2>1, <3>1, PreparedOnce DEF PrepareAdjustment, OnceInFile, Kinds
      <3>5. memory'["G"].term1 = <<>>
        BY <1>1, <2>1, <3>1, PreparedOnce DEF PrepareAdjustment, OnceInFile, Kinds
      <3>6. \A k \in Kinds : Len(memory'[k].term1) <= 1
        BY <2>1, <3>2, <3>3, <3>5 DEF Kinds
      <3> QED
        BY <3>3, <3>4, <3>5, <3>6 DEF OnceInMemory
    <2> QED
      BY <2>2, <2>3
  <1>2. CASE AdjustNetwork
    <2>1. /\ memory \in [Kinds -> Measurements] /\ bst \in StationFiles /\ Len(bst.N) <= 1
          /\ memory["M"].saved = <<>>
      BY <1>2 DEF AdjustNetwork, TypeOK, Running, Adjusting, Geoidal, RawKept
    <2>2. ReduceArc(memory["M"]).term1 = bst.N
      BY <2>1 DEF ReduceArc, Measurements, StationFiles, Kinds
    <2>3. memory'["M"] = ReduceArc(memory["M"]) /\ \A k \in Kinds \ {"M"} : memory'[k] = memory[k]
      BY <1>2, <2>1 DEF AdjustNetwork, Kinds
    <2> QED
      BY <1>2, <2>1, <2>2, <2>3 DEF AdjustNetwork, OnceInMemory, Adjusting, Kinds
  <1>3. CASE memory' = memory /\ pc \in Adjusting
    BY <1>3 DEF OnceInMemory
  <1> QED
    BY <1>1, <1>2, <1>3, MeasurementsInMemory DEF OnceInMemory, Adjusting, vars

(* While an adjustment solves, the measurements have the N of the stations.   *)
LEMMA GeoidalStep ==
  ASSUME TypeOK, Running, RawRecoverable, RawKept, Geoidal, [Next]_vars
  PROVE  Geoidal'
  <1>1. bst' # NoFile => bst'.heights = bst'.N /\ Len(bst'.N) <= 1
    BY GeoidStep DEF Geoidal
  <1>2. CASE pc' \notin {"solve", "solved"}
    BY <1>1, <1>2 DEF Geoidal
  <1>3. CASE PrepareAdjustment
    <2>1. /\ bst \in StationFiles /\ Len(bst.N) <= 1 /\ bms.reduced \in BOOLEAN
          /\ bms.msrs["H"] \in Measurements
      BY <1>3 DEF PrepareAdjustment, TypeOK, MeasurementFiles, Geoidal, Kinds
    <2>2. Prepare("H", bms.msrs["H"]).term1 = bst.N
      BY <1>3, <2>1, PreparedOnce DEF PrepareAdjustment, RawRecoverable
    <2>3. Reuses' = Reuses
      BY <1>3 DEF PrepareAdjustment, Reuses, call
    <2> QED
      BY <1>1, <1>3, <2>2, <2>3 DEF PrepareAdjustment, Geoidal, Kinds, Goto
  <1>4. CASE AdjustNetwork
    <2>1. /\ memory \in [Kinds -> Measurements] /\ bst \in StationFiles
          /\ memory["M"].saved = <<>>
      BY <1>4 DEF AdjustNetwork, TypeOK, Running, Adjusting, RawKept
    <2>2. ReduceArc(memory["M"]).term1 = bst.N
      BY <2>1 DEF ReduceArc, Measurements, StationFiles, Kinds
    <2>3. Reuses' = Reuses
      BY <1>4 DEF AdjustNetwork, Reuses, call
    <2> QED
      BY <1>1, <1>4, <2>1, <2>2, <2>3 DEF AdjustNetwork, Geoidal, Kinds
  <1>5. CASE UNCHANGED vars
    BY <1>5 DEF vars, files, call, Geoidal, Reuses
  <1> QED
    BY <1>2, <1>3, <1>4, <1>5, MeasurementsInMemory DEF Adjusting

(* What has gone into the measurements is as FilesInv says, in the file and   *)
(* in memory.                                                                 *)
THEOREM FilesInvariant == Spec => []FilesInv
  <1>1. Init => FilesInv
    BY DEF Init, FilesInv, TypeOK, Running, Adjustments, Adjusting, Programs, RawRecoverable, RawKept,
      OnceInFile, OnceInMemory, Geoidal
  <1>2. FilesInv /\ [Next]_vars => FilesInv'
    <2> SUFFICES ASSUME FilesInv, [Next]_vars PROVE FilesInv'
      OBVIOUS
    <2>1. TypeOK' /\ Running'
      BY TypeStep, RunningStep DEF FilesInv
    <2>2. RawRecoverable' /\ RawKept'
      BY RawStep DEF FilesInv
    <2>3. OnceInFile' /\ OnceInMemory'
      BY OnceInFileStep, OnceInMemoryStep DEF FilesInv
    <2>4. Geoidal'
      BY GeoidalStep DEF FilesInv
    <2> QED
      BY <2>1, <2>2, <2>3, <2>4 DEF FilesInv
  <1> QED
    BY <1>1, <1>2, PTL DEF Spec

(* The state keeps its types: the files are of imported networks, what is to  *)
(* be done is part of what was asked for.                                     *)
THEOREM TypesCorrect == Spec => []TypeOK
  <1>1. FilesInv => TypeOK
    BY DEF FilesInv
  <1> QED
    BY <1>1, FilesInvariant, PTL

(* Whichever programs ran, failed or were killed between two writes, the      *)
(* measured height and the measured arc can be told from the measurement file.*)
THEOREM MeasurementsRecoverable == Spec => []RawRecoverable
  <1>1. FilesInv => RawRecoverable
    BY DEF FilesInv
  <1> QED
    BY <1>1, FilesInvariant, PTL

(* No adjustment solves with an N value applied twice or a variance scaled    *)
(* other than once.                                                           *)
THEOREM NothingReducedTwice == Spec => []ReducedOnce
  <1>1. FilesInv => ReducedOnce
    BY DEF FilesInv, ReducedOnce, OnceInMemory, Adjusting
  <1> QED
    BY <1>1, FilesInvariant, PTL

(* An adjustment solves with the N values of the station file.                *)
THEOREM GeoidOfTheStations == Spec => []ReducedByGeoid
  <1>1. FilesInv => ReducedByGeoid
    BY DEF FilesInv, ReducedByGeoid, Running, Adjusting, Geoidal
  <1> QED
    BY <1>1, FilesInvariant, PTL

(* Every step but that of import keeps the network of a file; the program     *)
(* named in the measurement file stays unless it is written.                  *)
LEMMA NetworksStay ==
  ASSUME TypeOK, Running, [Next]_vars, ~SerialiseBst, ~SerialiseBms
  PROVE  /\ bst = NoFile => bst' = NoFile
         /\ bms = NoFile => bms' = NoFile
         /\ bst # NoFile => bst' # NoFile /\ bst'.net = bst.net
         /\ bms # NoFile => bms' # NoFile /\ bms'.net = bms.net
         /\ bms' = bms \/ bms'.modifiedBy # "import"
  <1> USE NoFileAssumption DEF TypeOK
  <1>1. CASE TransformMeasurements
    <2>1. bms \in MeasurementFiles /\ bms' \in MeasurementFiles /\ bms'.net = bms.net
          /\ bms'.modifiedBy = "reftran"
      BY <1>1 DEF TransformMeasurements, MeasurementFiles
    <2> QED
      BY <1>1, <2>1 DEF TransformMeasurements
  <1>2. CASE UpdateBms
    <2>1. bms \in MeasurementFiles /\ memory \in [Kinds -> Measurements]
      BY <1>2 DEF UpdateBms, Running, Adjusting
    <2>2. bms' \in MeasurementFiles /\ bms'.net = bms.net /\ bms'.modifiedBy = "adjust"
      BY <1>2, <2>1 DEF UpdateBms, MeasurementFiles
    <2> QED
      BY <1>2, <2>1, <2>2 DEF UpdateBms
  <1>3. CASE TransformStations \/ UpdateBst
    <2>1. bst \in StationFiles /\ bst' \in StationFiles /\ bst'.net = bst.net /\ bms' = bms
      BY <1>3 DEF TransformStations, UpdateBst, StationFiles, Running, Adjusting
    <2> QED
      BY <2>1
  <1>4. CASE PopulateBinaryStationFile
    <2>1. bst \in StationFiles
      BY <1>4 DEF PopulateBinaryStationFile
    <2>2. PICK records \in {bst} \cup {PopulateStationRecords(g) : g \in Geoids} :
            bst' = [records EXCEPT !.modifiedBy = "geoid"]
      BY <1>4 DEF PopulateBinaryStationFile
    <2>3. \A g \in Geoids : <<g>> \in Seq(Geoids)
      OBVIOUS
    <2>4. \A g \in Geoids : /\ PopulateStationRecords(g) \in StationFiles
                            /\ PopulateStationRecords(g).net = bst.net
      BY <2>1, <2>3 DEF PopulateStationRecords, StationFiles
    <2>5. records \in StationFiles /\ records.net = bst.net
      BY <2>1, <2>2, <2>4
    <2>6. bst' \in StationFiles /\ bst'.net = bst.net
      BY <2>2, <2>5 DEF StationFiles
    <2> QED
      BY <1>4, <2>1, <2>6 DEF PopulateBinaryStationFile
  <1>5. CASE bst' = bst /\ bms' = bms
    BY <1>5
  <1> QED
    BY <1>1, <1>2, <1>3, <1>4, <1>5 DEF Next, vars, files, Invoke, WriteSegmentedNetwork,
      PrepareAdjustment, AdjustNetwork, Finalise, Stops, Interrupt

(* What was written since stays written, until the file is made again.        *)
LEMMA SinceGrows ==
  ASSUME TypeOK, [Next]_vars
  PROVE  /\ ~WriteSegmentedNetwork => since["seg"] \subseteq since'["seg"]
         /\ ~PrepareAdjustment /\ ~AdjustNetwork => since["mtx"] \subseteq since'["mtx"]
         /\ PrepareAdjustment /\ ~options.recreate => since' = since
         /\ AdjustNetwork /\ ~options.stage => since' = since
         /\ SerialiseBms => "bms" \in since'["seg"] /\ "bms" \in since'["mtx"]
  <1> USE DEF TypeOK
  <1>1. ASSUME Writes("bst") \/ Writes("bms")
        PROVE  since["seg"] \subseteq since'["seg"] /\ since["mtx"] \subseteq since'["mtx"]
    BY <1>1 DEF Writes
  <1>2. SerialiseBms => "bms" \in since'["seg"] /\ "bms" \in since'["mtx"]
    BY DEF SerialiseBms, Writes
  <1>3. /\ PrepareAdjustment /\ ~options.recreate => since' = since
        /\ AdjustNetwork /\ ~options.stage => since' = since
    BY DEF PrepareAdjustment, AdjustNetwork
  <1>4. ASSUME Renews("seg") PROVE since["mtx"] \subseteq since'["mtx"]
    BY <1>4 DEF Renews
  <1>5. ASSUME Renews("mtx") PROVE since["seg"] \subseteq since'["seg"]
    BY <1>5 DEF Renews
  <1>6. CASE SerialiseBst \/ SerialiseBms \/ TransformMeasurements \/ TransformStations
          \/ PopulateBinaryStationFile \/ UpdateBst \/ UpdateBms
    BY <1>1, <1>2, <1>3, <1>6 DEF SerialiseBst, SerialiseBms, TransformMeasurements, TransformStations,
      PopulateBinaryStationFile, UpdateBst, UpdateBms
  <1>7. CASE WriteSegmentedNetwork
    BY <1>2, <1>3, <1>4, <1>7 DEF WriteSegmentedNetwork
  <1>8. CASE PrepareAdjustment \/ AdjustNetwork
    BY <1>2, <1>3, <1>5, <1>8 DEF PrepareAdjustment, AdjustNetwork
  <1>9. CASE Invoke \/ Finalise \/ Stops \/ Interrupt \/ UNCHANGED vars
    BY <1>2, <1>3, <1>9 DEF Invoke, Finalise, Stops, Interrupt, vars, files
  <1> QED
    BY <1>6, <1>7, <1>8, <1>9 DEF Next

(* What can be told of a file that is not written in a step can be told       *)
(* afterwards.                                                                *)
LEMMA ToldStep ==
  ASSUME TypeOK, Running, [Next]_vars, NEW file \in {"seg", "mtx"}, Told(file),
         since[file] \subseteq since'[file]
  PROVE  Told(file)'
  <1>1. CASE SerialiseBst
    <2>1. PICK n \in FreshImports : bst'.net = n
      BY <1>1 DEF SerialiseBst
    <2>2. bms = NoFile \/ bms.net # n
      BY <2>1 DEF FreshImports, FilesOf
    <2> QED
      BY <1>1, <2>1, <2>2 DEF SerialiseBst, Told
  <1>2. CASE SerialiseBms
    BY <1>2, SinceGrows DEF Told
  <1>3. CASE ~SerialiseBst /\ ~SerialiseBms
    BY <1>3, NetworksStay DEF Told
  <1> QED
    BY <1>1, <1>2, <1>3

(* Inputs changes only with an import, so that a file made from it stays so   *)
(* or can be told.                                                            *)
LEMMA InputsStep ==
  ASSUME TypeOK, Running, [Next]_vars, bst # NoFile, bms # NoFile
  PROVE  Inputs' = Inputs \/ (\A file \in {"seg", "mtx"} : Told(file)')
  <1>1. CASE SerialiseBst
    <2>1. PICK n \in FreshImports : bst'.net = n
      BY <1>1 DEF SerialiseBst
    <2>2. bms = NoFile \/ bms.net # n
      BY <2>1 DEF FreshImports, FilesOf
    <2> QED
      BY <1>1, <2>1, <2>2 DEF SerialiseBst, Told
  <1>2. CASE SerialiseBms
    BY <1>2, SinceGrows DEF Told
  <1>3. CASE ~SerialiseBst /\ ~SerialiseBms
    BY <1>3, NetworksStay DEF Inputs
  <1> QED
    BY <1>1, <1>2, <1>3

(* A segmentation of other inputs can be told, or the measurements were       *)
(* changed by another program.                                                *)
LEMMA SegmentationToldStep ==
  ASSUME TypeOK, TypeOK', Running, SegmentationTold, [Next]_vars
  PROVE  SegmentationTold'
  <1>1. CASE WriteSegmentedNetwork
    BY <1>1 DEF WriteSegmentedNetwork, SegmentationTold, Inputs
  <1>2. CASE ~WriteSegmentedNetwork
    <2>1. seg' = seg /\ since["seg"] \subseteq since'["seg"]
      BY <1>2, SinceGrows DEF Next, vars, files, Invoke, SerialiseBst, SerialiseBms,
        TransformMeasurements, TransformStations, PopulateBinaryStationFile, PrepareAdjustment,
        AdjustNetwork, Finalise, UpdateBst, UpdateBms, Stops, Interrupt
    <2>2. CASE Told("seg")
      BY <2>1, <2>2, ToldStep DEF SegmentationTold
    <2>3. CASE seg = Inputs /\ bst # NoFile /\ bms # NoFile
      BY <2>1, <2>3, InputsStep DEF SegmentationTold
    <2> QED
      BY <2>1, <2>2, <2>3 DEF SegmentationTold, Told
  <1> QED
    BY <1>1, <1>2

(* And so can stage files of other inputs that have not been mixed.           *)
LEMMA StageFilesToldStep ==
  ASSUME TypeOK, TypeOK', Running, StageFilesTold, [Next]_vars
  PROVE  StageFilesTold'
  <1>1. CASE PrepareAdjustment /\ options.recreate
    BY <1>1 DEF PrepareAdjustment, StageFilesTold, Inputs
  <1>2. CASE AdjustNetwork /\ options.stage
    <2>1. mtx \in StageFiles
      BY <1>2 DEF AdjustNetwork, Running, TypeOK
    <2>2. mtx'.from = mtx.from /\ mtx'.mixed = (mtx.mixed \/ mtx.from # Inputs)
      BY <1>2, <2>1 DEF AdjustNetwork, StageFiles
    <2>3. Inputs' = Inputs
      BY <1>2 DEF AdjustNetwork, Inputs
    <2> QED
      BY <2>1, <2>2, <2>3 DEF StageFilesTold, StageFiles
  <1>3. CASE ~(PrepareAdjustment /\ options.recreate) /\ ~(AdjustNetwork /\ options.stage)
    <2>1. mtx' = mtx /\ since["mtx"] \subseteq since'["mtx"]
      BY <1>3, SinceGrows DEF Next, vars, files, Invoke, SerialiseBst, SerialiseBms,
        TransformMeasurements, TransformStations, PopulateBinaryStationFile, PrepareAdjustment,
        AdjustNetwork, Finalise, UpdateBst, UpdateBms, Stops, Interrupt, WriteSegmentedNetwork
    <2>2. CASE Told("mtx")
      BY <2>1, <2>2, ToldStep DEF StageFilesTold
    <2>3. CASE mtx.from = Inputs /\ bst # NoFile /\ bms # NoFile
      BY <2>1, <2>3, InputsStep DEF StageFilesTold
    <2> QED
      BY <2>1, <2>2, <2>3 DEF StageFilesTold, Told
  <1> QED
    BY <1>1, <1>2, <1>3

(* A phased adjustment that is not quiet starts with the segmentation of its  *)
(* inputs or one that could not be told.                                      *)
LEMMA CurrentStep ==
  ASSUME TypeOK, Running, SegmentationTold, StageFilesTold, SegmentationCurrent, StageFilesCurrent,
         [Next]_vars
  PROVE  SegmentationCurrent' /\ StageFilesCurrent'
  <1>1. CASE pc' # "solve"
    BY <1>1 DEF SegmentationCurrent, StageFilesCurrent
  <1>2. CASE PrepareAdjustment
    <2>1. bst # NoFile /\ bms # NoFile /\ Accepted /\ UNCHANGED <<bst, bms, seg, call>>
      BY <1>2 DEF PrepareAdjustment
    <2>2. SegmentationCurrent'
      <3>1. options.mode = "phased" => seg # NoFile
        BY <1>2 DEF PrepareAdjustment
      <3>2. ~quiet => ~SegmentationOutdated
        BY <2>1 DEF Accepted
      <3> QED
        BY <2>1, <3>1, <3>2 DEF SegmentationTold, Told, SegmentationCurrent, SegmentationOutdated,
          Imported, Inputs, call
    <2>3. StageFilesCurrent'
      <3>1. CASE options.recreate
        <4>1. mtx' = [from |-> Inputs, mixed |-> FALSE]
          BY <1>2, <3>1 DEF PrepareAdjustment
        <4> QED
          BY <2>1, <4>1 DEF StageFilesCurrent, Inputs
      <3>2. CASE ~options.recreate
        <4>1. mtx' = mtx /\ (options.stage => mtx # NoFile)
          BY <1>2, <3>2 DEF PrepareAdjustment
        <4>2. ~quiet => ~StageFilesOutdated
          BY <2>1 DEF Accepted
        <4> QED
          BY <2>1, <3>2, <4>1, <4>2 DEF StageFilesTold, Told, StageFilesCurrent, StageFilesOutdated,
            Imported, Inputs, call
      <3> QED
        BY <3>1, <3>2
    <2> QED
      BY <2>2, <2>3
  <1>3. CASE UNCHANGED vars
    BY <1>3 DEF vars, files, call, SegmentationCurrent, StageFilesCurrent, Inputs
  <1> QED
    BY <1>1, <1>2, <1>3, MeasurementsInMemory DEF AdjustNetwork, Adjusting, Goto

(* The end of a program takes it, and only it, from what is to be done; import*)
(* is the first.  A failure ends all when the driver is not quiet.            *)
LEMMA EndOfProgram ==
  ASSUME TypeOK, Progress, todo # {}, Succeeds \/ Fails, asked' = asked
  PROVE  /\ todo' = {} \/ todo' = todo \ {First}
         /\ ~quiet => (Succeeds \/ (todo' = {} /\ outcome' = "failure"))
         /\ outcome' # "none" => todo' = {}
         /\ "import" \notin todo'
  <1>1. First \in todo /\ ("import" \in todo => First = "import")
    BY FirstIsNext DEF TypeOK
  <1> QED
    BY <1>1 DEF Succeeds, Fails

(* What is recorded of the call of the driver when nothing has failed.        *)
LEMMA AfterTheImport ==
  ASSUME TypeOK, Running, Progress, [Next]_vars, NEW program \in Programs \ {"import"},
         ~SerialiseBst, ~SerialiseBms, ~WriteSegmentedNetwork, UNCHANGED <<call, brought>>,
         todo # {}, First = program,
         todo' = todo \/ todo' = todo \ {First}, program # "segment"
  PROVE  ~quiet /\ "import" \in asked \ todo' =>
             /\ brought' # NoFile /\ bst' # NoFile /\ bms' # NoFile
             /\ Inputs' = <<brought', brought'>>
             /\ "segment" \in asked \ todo' => seg' = Inputs'
  <1> SUFFICES ASSUME ~quiet, "import" \in asked \ todo'
      PROVE  /\ brought' # NoFile /\ bst' # NoFile /\ bms' # NoFile
             /\ Inputs' = <<brought', brought'>>
             /\ "segment" \in asked \ todo' => seg' = Inputs'
    OBVIOUS
  <1>1. "import" \in asked \ todo
    OBVIOUS
  <1>2. /\ brought # NoFile /\ bst # NoFile /\ bms # NoFile
        /\ Inputs = <<brought, brought>>
        /\ "segment" \in asked \ todo => seg = Inputs
    BY <1>1 DEF Progress
  <1>3. bst' # NoFile /\ bms' # NoFile /\ Inputs' = Inputs
    BY <1>2, NetworksStay DEF Inputs
  <1>4. seg' = seg
    BY DEF Next, vars, files, Invoke, TransformMeasurements, TransformStations,
      PopulateBinaryStationFile, PrepareAdjustment, AdjustNetwork, Finalise, UpdateBst, UpdateBms,
      Stops, Interrupt
  <1> QED
    BY <1>2, <1>3, <1>4

(* While nothing has failed, both files are of the network that this call of  *)
(* the driver has imported, and so is the segmentation made after it.         *)
LEMMA ProgressStep ==
  ASSUME TypeOK, TypeOK', Running, Progress, [Next]_vars
  PROVE  Progress'
  <1>1. CASE Invoke
    BY <1>1, InvocationsAssumption DEF Invoke, Progress, Selected
  <1>2. CASE SerialiseBst
    <2>1. "import" \in todo
      BY <1>2, FirstIsNext DEF SerialiseBst, Starting, TypeOK
    <2> QED
      BY <1>2, <2>1 DEF SerialiseBst, Progress, Goto, driver, call
  <1>3. CASE SerialiseBms
    <2>1. First = "import" /\ todo # {} /\ bst # NoFile /\ bst.net = memory /\ memory \in Imports
      BY <1>3 DEF SerialiseBms, Running, TypeOK
    <2>2. "import" \in todo /\ todo = asked
      BY <2>1, FirstIsNext DEF TypeOK, Progress
    <2>3. Succeeds /\ UNCHANGED <<bst, seg, call>> /\ brought' = memory /\ bms'.net = memory
      BY <1>3 DEF SerialiseBms
    <2>4. bms' # NoFile
      <3>1. Raw \in Measurements
        BY DEF Raw, Measurements
      <3>2. bms' \in MeasurementFiles
        BY <1>3, <2>1, <3>1 DEF SerialiseBms, MeasurementFiles
      <3> QED
        BY <3>2, NoFileAssumption
    <2>5. todo' = asked \ {"import"}
      BY <2>1, <2>2, <2>3 DEF Succeeds
    <2>6. brought' # NoFile /\ Inputs' = <<brought', brought'>>
      BY <2>1, <2>3, NoFileAssumption DEF Inputs
    <2>7. outcome' # "none" => todo' = {}
      BY <2>3 DEF Succeeds
    <2> QED
      BY <2>1, <2>3, <2>4, <2>5, <2>6, <2>7 DEF Progress, call
  <1>4. CASE WriteSegmentedNetwork
    <2>1. First = "segment" /\ todo # {} /\ Succeeds /\ bst # NoFile /\ bms # NoFile
          /\ UNCHANGED <<bst, bms, call, brought>> /\ seg' = Inputs
      BY <1>4 DEF WriteSegmentedNetwork, Starting
    <2>2. todo' = todo \ {"segment"} /\ (outcome' # "none" => todo' = {}) /\ "import" \notin todo
      BY <2>1, FirstIsNext DEF Succeeds, TypeOK
    <2>3. ~quiet /\ "import" \in asked => brought # NoFile /\ Inputs = <<brought, brought>>
      BY <2>1, <2>2 DEF Progress
    <2>4. Inputs' = Inputs
      BY <2>1 DEF Inputs
    <2> QED
      BY <2>1, <2>2, <2>3, <2>4 DEF Progress, call
  <1>5. CASE Stops \/ Interrupt
    <2>1. todo # {} /\ outcome = "none" /\ UNCHANGED call
      BY <1>5 DEF Stops, Interrupt, Progress
    <2>2. CASE Stops
      <3>1. Fails /\ asked' = asked /\ quiet' = quiet
        BY <2>2 DEF Stops, call
      <3>2. ~quiet => todo' = {} /\ outcome' = "failure"
        BY <3>1 DEF Fails
      <3> QED
        BY <2>1, <3>1, <3>2, EndOfProgram DEF Progress
    <2>3. CASE Interrupt
      BY <2>1, <2>3 DEF Interrupt, Progress
    <2> QED
      BY <1>5, <2>2, <2>3
  <1>6. CASE TransformStations \/ PopulateBinaryStationFile \/ UpdateBms \/ (Finalise /\ Succeeds)
    <2>1. todo # {} /\ First \in {"reftran", "geoid", "adjust"} /\ UNCHANGED <<call, brought>> /\ Succeeds
      BY <1>6 DEF TransformStations, PopulateBinaryStationFile, UpdateBms, Finalise, Running,
        Starting, Adjusting
    <2>2. ~SerialiseBst /\ ~SerialiseBms /\ ~WriteSegmentedNetwork
      BY <1>6, <2>1 DEF SerialiseBst, SerialiseBms, WriteSegmentedNetwork, Starting, Running
    <2>3. todo' = todo \ {First} /\ asked' = asked /\ quiet' = quiet
      BY <2>1 DEF Succeeds, call
    <2>4. "import" \notin todo' /\ (outcome' # "none" => todo' = {})
      BY <2>1, <2>3, EndOfProgram
    <2>5. First \in Programs \ {"import"} /\ First # "segment"
      BY <2>1 DEF Programs
    <2> QED
      BY <2>1, <2>2, <2>3, <2>4, <2>5, AfterTheImport DEF Progress
  <1>7. CASE TransformMeasurements \/ PrepareAdjustment \/ AdjustNetwork \/ (Finalise /\ UNCHANGED driver)
          \/ UpdateBst
    <2>1. todo # {} /\ First \in {"reftran", "geoid", "adjust"} /\ UNCHANGED <<call, brought, driver>>
      BY <1>7 DEF TransformMeasurements, PrepareAdjustment, AdjustNetwork, Finalise, UpdateBst, Running,
        Starting, Adjusting, Goto
    <2>2. ~SerialiseBst /\ ~SerialiseBms /\ ~WriteSegmentedNetwork
      BY <1>7, <2>1 DEF SerialiseBst, SerialiseBms, WriteSegmentedNetwork, Starting, Running
    <2>3. UNCHANGED <<todo, outcome, asked, quiet>>
      BY <2>1 DEF driver, call
    <2>4. First \in Programs \ {"import"} /\ First # "segment"
      BY <2>1 DEF Programs
    <2> QED
      BY <2>1, <2>2, <2>3, <2>4, AfterTheImport DEF Progress
  <1>8. CASE UNCHANGED vars
    BY <1>8 DEF vars, files, call, driver, Progress, Inputs
  <1>9. Finalise => (Finalise /\ Succeeds) \/ (Finalise /\ UNCHANGED driver)
    BY DEF Finalise, Goto
  <1> QED
    BY <1>1, <1>2, <1>3, <1>4, <1>5, <1>6, <1>7, <1>8, <1>9 DEF Next

(* The files of other imports are told, and reported, as ImportInv says.      *)
THEOREM ImportInvariant == Spec => [](FilesInv /\ ImportInv)
  <1>1. Init => ImportInv
    BY DEF Init, ImportInv, SegmentationTold, StageFilesTold, SegmentationCurrent, StageFilesCurrent,
      Progress
  <1>2. FilesInv /\ FilesInv' /\ ImportInv /\ [Next]_vars => ImportInv'
    <2> SUFFICES ASSUME FilesInv, FilesInv', ImportInv, [Next]_vars PROVE ImportInv'
      OBVIOUS
    <2>1. SegmentationTold' /\ StageFilesTold'
      BY SegmentationToldStep, StageFilesToldStep DEF FilesInv, ImportInv
    <2>2. SegmentationCurrent' /\ StageFilesCurrent'
      BY CurrentStep DEF FilesInv, ImportInv
    <2>3. Progress'
      BY ProgressStep DEF FilesInv, ImportInv
    <2> QED
      BY <2>1, <2>2, <2>3 DEF ImportInv
  <1> QED
    BY <1>1, <1>2, FilesInvariant, PTL DEF Spec

(* A phased adjustment that is not quiet solves with a segmentation of other  *)
(* inputs only in the cases that the wrapper of adjust cannot tell.           *)
THEOREM SegmentationIsCurrent == Spec => []SegmentationCurrent
  <1>1. ImportInv => SegmentationCurrent
    BY DEF ImportInv
  <1> QED
    BY <1>1, ImportInvariant, PTL

(* The same for the stage files.                                              *)
THEOREM StageFilesAreCurrent == Spec => []StageFilesCurrent
  <1>1. ImportInv => StageFilesCurrent
    BY DEF ImportInv
  <1> QED
    BY <1>1, ImportInvariant, PTL

(* When the driver reports the success of an import, the files are of it.     *)
THEOREM SuccessIsTrue == Spec => []SuccessIsOfThisImport
  <1>1. FilesInv /\ ImportInv => SuccessIsOfThisImport
    BY DEF FilesInv, TypeOK, ImportInv, Progress, SuccessIsOfThisImport
  <1> QED
    BY <1>1, ImportInvariant, PTL
===============================================================================
