-------------------------- MODULE PhasedAdjustment --------------------------
(***************************************************************************)
(* The phased adjustment of a single thread (dnaadjust.cpp): in memory,    *)
(* staged (the matrices of a block are on disk unless it is being worked   *)
(* on), or rigorous for the first block only.  An iteration adjusts the    *)
(* blocks forwards, carrying what is known of the junctions, then          *)
(* backwards, and combines both for the blocks in between.                 *)
(*                                                                         *)
(* A matrix is represented by the information that has gone into it, and   *)
(* coordinates by the iteration and the information they were adjusted     *)
(* from.  The design matrix, AtVinv and the measured-minus-computed vector *)
(* of a block are formed together, at some coordinates; rows for junction  *)
(* stations are appended to the last two for an adjustment.                *)
(***************************************************************************)
EXTENDS NetworkInformation, SequencesExt

CONSTANTS
    Stage,              \* projectSettings_.a.stage
    Modes,              \* the values of projectSettings_.a.adjust_mode
    MaxIterations,      \* projectSettings_.a.max_iterations
    MayCancel           \* TRUE if the host may call CancelAdjustment

(* A staged adjustment is of one network: force_contiguous_blocks joins     *)
(* the networks unless it is switched off.                                 *)
ASSUME StageAssumption ==
    /\ Stage \in BOOLEAN
    /\ Stage => \A b \in Blocks : NetOf[b] = NetOf[0]
ASSUME ModesAssumption ==
    Modes \subseteq (IF Stage THEN {"phased"} ELSE {"phased", "block1"})
ASSUME MaxIterationsAssumption == MaxIterations \in Nat \ {0}
ASSUME MayCancelAssumption == MayCancel \in BOOLEAN

VARIABLES
    mode,           \* adjust_mode
    pc, block,      \* what comes next, and for which block
    iteration,      \* currentIteration_
    memory,         \* the matrices of each block in memory
    disk,           \* the mapped files of a staged adjustment
    judged,         \* the corrections maxCorr_ was taken over
    converged,      \* maxCorr_ is within the threshold
    cancelled,      \* isCancelled_
    status,         \* adjustStatus_
    statistics      \* what the statistics of each block come from

results == <<judged, converged, cancelled, status, statistics>>

vars == <<stations, mode, pc, block, iteration, memory, disk, results>>

-----------------------------------------------------------------------------
(* The matrices of a block. *)

Coordinates == [round : Int, info : Information]

Variances == [info : Information, inverted : BOOLEAN]

(* Rows for junction stations: what they are known from, the estimates     *)
(* carried, and the coordinates of the block they were compared with.      *)
Rows == [info : Information, estimates : Coordinates, computed : Coordinates]

Matrices ==
    [normals : Variances,           \* v_normals_
     normalsR : Variances,          \* v_normalsR_
     estimated : Coordinates,       \* v_estimatedStations_
     original : Coordinates,        \* v_originalStations_
     rigorous : Coordinates,        \* v_rigorousStations_
     variances : Variances,         \* v_rigorousVariances_
     design : Coordinates,          \* where v_design_, v_AtVinv_ were formed
     computed : Coordinates,        \* where v_measMinusComp_ was computed
     rows : Seq(Rows),              \* rows appended to the last two
     corrections : Information,     \* v_corrections_
     correctionsR : Information,    \* v_correctionsR_
     junctionInfo : Information,    \* v_junctionVariancesFwd_
     junctionEstimates : Coordinates]   \* v_junctionEstimatesFwd_

Apriori == [round |-> 0, info |-> Nothing]

NotFormed == [round |-> -1, info |-> Nothing]

Zero == [info |-> Nothing, inverted |-> FALSE]

Unloaded ==
    [normals |-> Zero, normalsR |-> Zero, estimated |-> NotFormed,
     original |-> NotFormed, rigorous |-> NotFormed, variances |-> Zero,
     design |-> NotFormed, computed |-> NotFormed, rows |-> <<>>,
     corrections |-> Nothing, correctionsR |-> Nothing,
     junctionInfo |-> Nothing, junctionEstimates |-> NotFormed]

Add(variances, info) == [variances EXCEPT !.info = Plus(@, info)]

(* FillDesignNormalMeasurementsMatrices *)
FillDesign(m) == [m EXCEPT !.design = m.estimated, !.computed = m.estimated]

Measured(b) == [info |-> Once({b}), inverted |-> FALSE]

(* UpdateNormals, the copy to v_normalsR_ and the constraints.             *)
FormForward(b, m) ==
    [FillDesign(m) EXCEPT !.normals = Add(Measured(b), Once(FirstForward(b))),
                          !.normalsR = Measured(b)]

PopulateEstimatedStationMatrix ==
    [Unloaded EXCEPT !.estimated = Apriori, !.original = Apriori,
                     !.rigorous = Apriori]

(* A staged adjustment creates its mapped files (none of an earlier run    *)
(* are used) with the coordinates; the rest is filled on loading a block.  *)
PrepareAdjustmentBlock(b) ==
    IF Stage
    THEN PopulateEstimatedStationMatrix
    ELSE FormForward(b, PopulateEstimatedStationMatrix)

(* v_normals_, v_design_ and v_AtVinv_ are allocated, not read. *)
DeserialiseBlock(b) ==
    [disk[b] EXCEPT !.normals = Zero, !.design = NotFormed,
                    !.correctionsR = Nothing]

Solve(m) ==
    [m EXCEPT !.normals.inverted = TRUE, !.corrections = m.normals.info]

UpdateEstimates(m) ==
    [m EXCEPT !.estimated = [round |-> iteration, info |-> m.corrections]]

(* Junction stations S with estimates and variances from a neighbour are   *)
(* appended to the block as measurements and added to its normals.         *)
AppendJunctions(m, S, info, estimates) ==
    IF S = {}
    THEN m
    ELSE [m EXCEPT !.normals = Add(@, info),
                   !.rows = Append(@, [info |-> info,
                                       estimates |-> estimates,
                                       computed |-> m.estimated])]

(* matrix_2d::shrink by the rows of the stations S. *)
ShrinkBy(m, S) == IF S = {} THEN m ELSE [m EXCEPT !.rows = Front(@)]

(* The variances, design matrix and residuals the precision of the adjusted *)
(* measurements comes from, and the residuals chi-square comes from.       *)
Statistics ==
    [variances : Variances, design : Coordinates, residuals : Coordinates,
     chiSquare : Coordinates]

NoStatistics ==
    [variances |-> Zero, design |-> NotFormed, residuals |-> NotFormed,
     chiSquare |-> NotFormed]

-----------------------------------------------------------------------------
(* The matrices of all blocks, in memory and on disk. *)

OffloadKept(mem, b) ==                                          \* mutant
    /\ memory' = mem
    /\ disk' = [disk EXCEPT ![b] = mem[b]]

(* OffloadBlockToMappedFile, from memory as it will be. *)
Offload(mem, b) ==
    /\ memory' = [mem EXCEPT ![b] = Unloaded]
    /\ disk' = [disk EXCEPT ![b] = mem[b]]

Keep(mem) ==
    /\ memory' = mem
    /\ UNCHANGED disk

Init ==
    /\ stations \in Placements
    /\ mode \in Modes
    /\ pc = IF mode = "block1" THEN "prepare reverse" ELSE "start"
    /\ block = BlockCount - 1
    /\ iteration = IF mode = "block1" THEN 1 ELSE 0
    /\ memory = [b \in Blocks |->
                    IF Stage THEN Unloaded ELSE PrepareAdjustmentBlock(b)]
    /\ disk = [b \in Blocks |->
                  IF Stage THEN PrepareAdjustmentBlock(b) ELSE Unloaded]
    /\ judged = {}
    /\ converged = FALSE
    /\ cancelled = FALSE
    /\ status = "ADJUST_SUCCESS"
    /\ statistics = [b \in Blocks |-> NoStatistics]

AfterAdjustment == {"last update", "precision", "chi-square", "done"}

(* At any time, also when the status is decided. *)
CancelAdjustment ==
    /\ MayCancel
    /\ cancelled' = TRUE
    /\ UNCHANGED <<stations, mode, pc, block, iteration, memory, disk,
                   judged, converged, status, statistics>>

(* The loops test isCancelled_ between two blocks and two iterations. *)
LeaveCancelled ==
    /\ cancelled
    /\ pc \in {"start", "forward", "prepare reverse", "end", "update"}
    /\ pc' = "validate"
    /\ UNCHANGED <<stations, mode, block, iteration, memory, disk,
                   results>>

(* SolveTry: the normals of the block are not invertible. *)
SolveFails ==
    /\ pc \in {"forward", "reverse", "combine"}
    /\ pc = "forward" => ~cancelled
    /\ pc' = "done"
    /\ status' = "ADJUST_EXCEPTION_RAISED"
    /\ UNCHANGED <<stations, mode, block, iteration, memory, disk,
                   judged, converged, cancelled, statistics>>

-----------------------------------------------------------------------------
(* AdjustPhasedForward *)

StartIteration ==
    /\ pc = "start"
    /\ ~cancelled
    /\ iteration < MaxIterations
    /\ pc' = "forward"
    /\ block' = 0
    /\ iteration' = iteration + 1
    /\ judged' = {}
    /\ converged' = TRUE
    /\ memory' = IF Stage
                 THEN [memory EXCEPT ![0] = FormForward(0, DeserialiseBlock(0))]
                 ELSE memory
    /\ UNCHANGED <<stations, mode, disk, cancelled, status, statistics>>

LeaveLoop ==
    /\ pc = "start"
    /\ iteration = MaxIterations
    /\ pc' = "validate"
    /\ UNCHANGED <<stations, mode, block, iteration, memory, disk,
                   results>>

(* The last block of a network is rigorous after the forward run.  Its     *)
(* corrections are kept for the time of the reverse run.                   *)
UpdateEstimatesForward(b, m) ==
    LET updated == UpdateEstimates(m)
    IN  IF BlockLast(b)
        THEN [updated EXCEPT !.rigorous = updated.estimated,
                             !.variances = updated.normals,
                             !.correctionsR = updated.corrections]
        ELSE updated

ShrinkForwardNever(b, m) == m                                   \* mutant

ShrinkForwardMatrices(b, m) ==
    IF BlockFirst(b) THEN m ELSE ShrinkBy(m, Junctions(b - 1))

AdjustForward ==
    /\ pc = "forward"
    /\ ~cancelled
    /\ memory' = [memory EXCEPT ![block] =
           ShrinkForwardMatrices(block,
               UpdateEstimatesForward(block, Solve(memory[block])))]
    /\ judged' = IF BlockLast(block)
                 THEN judged \cup {<<block, memory[block].normals.info>>}
                 ELSE judged
    /\ pc' = "carry forward"
    /\ UNCHANGED <<stations, mode, block, iteration, disk, converged,
                   cancelled, status, statistics>>

(* CarryStnEstimatesandVariancesForward from block b to its successor,     *)
(* which a staged adjustment loads and forms first.                        *)
Carried(b) ==
    LET this == [memory[b] EXCEPT !.junctionInfo = memory[b].normals.info,
                                  !.junctionEstimates = memory[b].estimated]
        next == IF Stage
                THEN FormForward(b + 1, DeserialiseBlock(b + 1))
                ELSE memory[b + 1]
    IN  [memory EXCEPT ![b] = this,
                       ![b + 1] = AppendJunctions(next, Junctions(b),
                                      this.junctionInfo,
                                      this.junctionEstimates)]

CarryForward ==
    /\ pc = "carry forward"
    /\ LET carried == IF CarriesForward(block) THEN Carried(block) ELSE memory
       IN  IF Stage /\ block # BlockCount - 1
           THEN Offload(carried, block)
           ELSE Keep(carried)
    /\ IF block = BlockCount - 1
       THEN pc' = "prepare reverse" /\ UNCHANGED block
       ELSE pc' = "forward" /\ block' = block + 1
    /\ UNCHANGED <<stations, mode, iteration, results>>

-----------------------------------------------------------------------------
(* AdjustPhasedReverseCombine, and AdjustPhasedReverse for block 1 only *)

(* The loop goes on with the preceding block; it ends after the first. *)
NextReverse ==
    IF block = 0
    THEN pc' = "end" /\ UNCHANGED block
    ELSE pc' = "prepare reverse" /\ block' = block - 1

(* An isolated block is skipped; the last block of a network starts from   *)
(* the normals and coordinates of before the forward run.                  *)
PrepareAdjustmentReverse ==
    /\ pc = "prepare reverse"
    /\ ~cancelled
    /\ IF BlockIsolated(block)
       THEN /\ IF Stage THEN Offload(memory, block) ELSE Keep(memory)
            /\ NextReverse
       ELSE /\ IF BlockLast(block)
               THEN Keep([memory EXCEPT
                        ![block].normals = Add(memory[block].normalsR,
                                               Once(FirstReverse(block))),
                        ![block].estimated = memory[block].original])
               ELSE Keep(memory)
            /\ pc' = "reverse"
            /\ UNCHANGED block
    /\ UNCHANGED <<stations, mode, iteration, results>>

BackupNormals(b, m) ==
    IF CombineRequired(b) /\ mode = "phased"
    THEN [m EXCEPT !.normalsR = m.normals]
    ELSE m

AdjustReverse ==
    /\ pc = "reverse"
    /\ Keep([memory EXCEPT ![block] =
                UpdateEstimates(Solve(BackupNormals(block, @)))])
    /\ pc' = "carry reverse"
    /\ UNCHANGED <<stations, mode, block, iteration, results>>

CarriedReverseForwardConstraints(b) ==                          \* mutant
    LET next == IF Stage
                THEN DeserialiseBlock(b - 1)
                ELSE [memory[b - 1] EXCEPT !.normals = memory[b - 1].normalsR]
        reset == [next EXCEPT !.estimated = next.original]
        formed == IF Stage
                  THEN [FillDesign(reset) EXCEPT !.normals = Measured(b - 1)]
                  ELSE reset
        carried == AppendJunctions(formed, Junctions(b - 1),
                                   memory[b].normals.info,
                                   memory[b].estimated)
    IN  [carried EXCEPT !.normals = Add(@, Once(FirstForward(b - 1)))]

(* CarryReverseJunctions: block b-1 is given back its normals of before    *)
(* the forward run, or loaded, and takes over the junctions.               *)
CarriedReverse(b) ==
    LET next == IF Stage
                THEN DeserialiseBlock(b - 1)
                ELSE [memory[b - 1] EXCEPT !.normals = memory[b - 1].normalsR]
        reset == [next EXCEPT !.estimated = next.original]
        formed == IF Stage
                  THEN [FillDesign(reset) EXCEPT !.normals = Measured(b - 1)]
                  ELSE reset
        carried == AppendJunctions(formed, Junctions(b - 1),
                                   memory[b].normals.info,
                                   memory[b].estimated)
    IN  [carried EXCEPT !.normals = Add(@, Once(FirstReverse(b - 1)))]

PreparedCombineTwice(b, preceding) ==                           \* mutant
    AppendJunctions([memory[b] EXCEPT !.estimated = memory[b].original,
                                      !.normals = memory[b].normalsR],
                    Junctions(b - 1), preceding.junctionInfo,
                    preceding.junctionEstimates)

(* PrepareAdjustmentCombine: the normals and rows of the reverse run and   *)
(* the junctions of the forward run, less the constraints counted twice.   *)
PreparedCombine(b, preceding) ==
    LET reset == [memory[b] EXCEPT !.estimated = memory[b].original,
                                   !.normals = memory[b].normalsR]
        carried == AppendJunctions(reset, Junctions(b - 1),
                                   preceding.junctionInfo,
                                   preceding.junctionEstimates)
        repeated == StationsOf(b) \ FirstForward(b)
    IN  [carried EXCEPT !.normals.info = Minus(@, Once(repeated))]

CarryReverse ==
    /\ pc = "carry reverse"
    /\ IF ~CarriesReverse(block)
       THEN /\ Keep(memory)
            /\ pc' = "final"
       ELSE LET next == CarriedReverse(block)
                combine == CombineRequired(block) /\ mode = "phased"
            IN  /\ Keep([memory EXCEPT
                            ![block - 1] = next,
                            ![block] = IF combine
                                       THEN PreparedCombine(block, next)
                                       ELSE @])
                /\ pc' = IF combine THEN "combine" ELSE "final"
    /\ UNCHANGED <<stations, mode, block, iteration, results>>

(* The combination and UpdateEstimatesCombine, which takes all rows off. *)
AdjustCombine ==
    /\ pc = "combine"
    /\ Keep([memory EXCEPT ![block] =
                [UpdateEstimates(Solve(@)) EXCEPT !.rows = <<>>]])
    /\ pc' = "final"
    /\ UNCHANGED <<stations, mode, block, iteration, results>>

UpdateEstimatesFinalLast(b, m) ==                               \* mutant
    IF BlockLast(b)
    THEN m
    ELSE [(IF BlockFirst(b) THEN ShrinkBy(m, Junctions(b)) ELSE m)
             EXCEPT !.rigorous = m.estimated,
                    !.variances = m.normals,
                    !.original = m.estimated]

UpdateEstimatesFinal(b, m) ==
    IF BlockLast(b)
    THEN IF mode = "block1"
         THEN m
         ELSE [m EXCEPT !.corrections = m.correctionsR]
    ELSE [(IF BlockFirst(b) THEN ShrinkBy(m, Junctions(b)) ELSE m)
             EXCEPT !.rigorous = m.estimated,
                    !.variances = m.normals,
                    !.original = m.estimated]

FinishReverse ==
    /\ pc = "final"
    /\ LET final == [memory EXCEPT ![block] = UpdateEstimatesFinal(block, @)]
       IN  IF Stage THEN Offload(final, block) ELSE Keep(final)
    /\ judged' = IF BlockLast(block)
                 THEN judged
                 ELSE judged \cup {<<block, memory[block].corrections>>}
    /\ NextReverse
    /\ UNCHANGED <<stations, mode, iteration, converged, cancelled, status,
                   statistics>>

-----------------------------------------------------------------------------
(* AdjustPhased after the reverse run, AdjustPhasedBlock1 likewise *)

(* Whether all corrections are within the threshold is left open. *)
EndIteration ==
    /\ pc = "end"
    /\ ~cancelled
    /\ \E small \in BOOLEAN :
          /\ converged' = small
          /\ pc' = IF small \/ mode = "block1" THEN "validate" ELSE "update"
          /\ status' = IF ~small /\ mode = "block1"
                       THEN "ADJUST_THRESHOLD_EXCEEDED"
                       ELSE status
    /\ block' = 0
    /\ UNCHANGED <<stations, mode, iteration, memory, disk, judged,
                   cancelled, statistics>>

RestoreLastCoordinates(b, m) ==                                 \* mutant
    IF BlockLast(b)
    THEN [m EXCEPT !.estimated = m.rigorous, !.original = m.rigorous]
    ELSE m

(* The last block of a network was rigorous after the forward run; the     *)
(* reverse run has overwritten it since.                                   *)
RestoreLast(b, m) ==
    IF BlockLast(b)
    THEN [m EXCEPT !.estimated = m.rigorous,
                   !.original = m.rigorous,
                   !.normals = m.variances]
    ELSE m

UpdateAdjustmentNotSerialised(iterate) ==                       \* mutant
    Keep(memory)

(* One block of UpdateAdjustment.  In the end, the inverse of the normals  *)
(* is left for the statistics.                                             *)
UpdateAdjustment(iterate) ==
    IF Stage
    THEN /\ disk' = [disk EXCEPT ![block] = RestoreLast(block, @)]
         /\ UNCHANGED memory
    ELSE LET restored == RestoreLast(block, memory[block])
         IN  Keep([memory EXCEPT ![block] = IF iterate
                                            THEN FormForward(block, restored)
                                            ELSE FillDesign(restored)])

NextBlock(label) ==
    IF block = BlockCount - 1
    THEN pc' = label /\ block' = 0
    ELSE block' = block + 1 /\ UNCHANGED pc

UpdateBlock ==
    /\ pc = "update"
    /\ ~cancelled
    /\ UpdateAdjustment(TRUE)
    /\ NextBlock("start")
    /\ UNCHANGED <<stations, mode, iteration, results>>

ValidateNotCancelled ==                                         \* mutant
    /\ pc = "validate"
    /\ status' = IF iteration = MaxIterations /\ ~converged
                 THEN "ADJUST_MAX_ITERATIONS_EXCEEDED"
                 ELSE status
    /\ pc' = IF cancelled \/ mode = "block1" THEN "done" ELSE "last update"
    /\ block' = 0
    /\ UNCHANGED <<stations, mode, iteration, memory, disk, judged,
                   converged, cancelled>>
    /\ UNCHANGED statistics

(* ValidateandFinaliseAdjustment, and whether the program goes on to the   *)
(* statistics.                                                             *)
Validate ==
    /\ pc = "validate"
    /\ status' =
          IF cancelled
          THEN "ADJUST_CANCELLED"
          ELSE IF iteration = MaxIterations /\ ~converged
               THEN "ADJUST_MAX_ITERATIONS_EXCEEDED"
               ELSE status
    /\ pc' = IF cancelled \/ mode = "block1" THEN "done" ELSE "last update"
    /\ block' = 0
    /\ UNCHANGED <<stations, mode, iteration, memory, disk, judged,
                   converged, cancelled, statistics>>

(* GenerateStatistics, block by block and one thing after the other. *)
LastUpdate ==
    /\ pc = "last update"
    /\ ~cancelled
    /\ UpdateAdjustment(FALSE)
    /\ NextBlock("precision")
    /\ UNCHANGED <<stations, mode, iteration, results>>

(* UpdateAdjustment breaks off here too.  The blocks it has not reached are *)
(* neither restored nor formed again, and the statistics are computed.     *)
LeaveLastUpdate ==
    /\ pc = "last update"
    /\ cancelled
    /\ pc' = "precision"
    /\ block' = 0
    /\ UNCHANGED <<stations, mode, iteration, memory, disk, results>>

(* A staged adjustment forms the matrices again and drops them afterwards. *)
ComputeAdjustedMsrPrecisions ==
    /\ pc = "precision"
    /\ LET m == IF Stage
                THEN [FillDesign(DeserialiseBlock(block))
                         EXCEPT !.normals = disk[block].variances]
                ELSE memory[block]
       IN  statistics' = [statistics EXCEPT ![block] =
               [@ EXCEPT !.variances = m.normals,
                         !.design = m.design,
                         !.residuals = m.computed]]
    /\ NextBlock("chi-square")
    /\ UNCHANGED <<stations, mode, iteration, memory, disk, judged,
                   converged, cancelled, status>>

ComputeChiSquareNetwork ==
    /\ pc = "chi-square"
    /\ statistics' = [statistics EXCEPT ![block].chiSquare =
           IF Stage THEN disk[block].computed ELSE memory[block].computed]
    /\ NextBlock("done")
    /\ UNCHANGED <<stations, mode, iteration, memory, disk, judged,
                   converged, cancelled, status>>

Terminated ==
    /\ pc = "done"
    /\ UNCHANGED vars

Next ==
    \/ StartIteration \/ LeaveLoop \/ AdjustForward \/ CarryForward
    \/ PrepareAdjustmentReverse \/ AdjustReverse \/ CarryReverse
    \/ AdjustCombine \/ FinishReverse
    \/ EndIteration \/ UpdateBlock \/ Validate
    \/ LastUpdate \/ LeaveLastUpdate
    \/ ComputeAdjustedMsrPrecisions \/ ComputeChiSquareNetwork
    \/ SolveFails \/ CancelAdjustment \/ LeaveCancelled
    \/ Terminated

Spec == Init /\ [][Next]_vars

-----------------------------------------------------------------------------
(* Type invariant: every matrix of every block, the position in the        *)
(* algorithm and what it has reported have their types (the members of     *)
(* dna_adjust in dnaadjust.hpp).                                           *)
TypeOK ==
    /\ stations \in Placements
    /\ mode \in Modes
    /\ pc \in {"start", "forward", "carry forward", "prepare reverse",
               "reverse", "carry reverse", "combine", "final", "end",
               "update", "validate"} \cup AfterAdjustment
    /\ block \in Blocks
    /\ iteration \in 0 .. MaxIterations
    /\ memory \in [Blocks -> Matrices]
    /\ disk \in [Blocks -> Matrices]
    /\ judged \subseteq Blocks \X Information
    /\ converged \in BOOLEAN
    /\ cancelled \in BOOLEAN
    /\ status \in {"ADJUST_SUCCESS", "ADJUST_MAX_ITERATIONS_EXCEEDED",
                   "ADJUST_THRESHOLD_EXCEEDED", "ADJUST_EXCEPTION_RAISED",
                   "ADJUST_CANCELLED"}
    /\ statistics \in [Blocks -> Statistics]

Loaded == {b \in Blocks : memory[b] # Unloaded}

(* The matrices of a block, wherever they are. *)
Latest(b) == IF b \in Loaded THEN memory[b] ELSE disk[b]

(* What the appended rows of m, from two neighbours at most, say about c. *)
FromRows(m, c) ==
    LET Of(i) == IF i \in DOMAIN m.rows THEN m.rows[i].info[c] ELSE 0
    IN  Of(1) + Of(2)

(* The normal equations Solve is about to solve belong together: normals   *)
(* that are not inverted yet; design matrix, computed values and station   *)
(* estimates all of the coordinates the iteration started from; and rows   *)
(* for exactly the junction information in the normals, estimated in this  *)
(* iteration and compared with these coordinates.  (Every grow and shrink  *)
(* of v_measMinusComp_ and v_AtVinv_, every restored copy of v_normals_    *)
(* and v_estimatedStations_, in memory or from the mapped files.)          *)
EquationsAgree ==
    pc \in {"forward", "reverse", "combine"} /\ ~cancelled =>
        LET m == memory[block]
        IN  /\ ~m.normals.inverted
            /\ m.estimated.round = iteration - 1
            /\ m.design = m.estimated
            /\ m.computed = m.estimated
            /\ Len(m.rows) <= 2
            /\ \A i \in DOMAIN m.rows :
                  /\ m.rows[i].estimates =
                        [round |-> iteration, info |-> m.rows[i].info]
                  /\ m.rows[i].computed = m.estimated
            /\ \A c \in Blocks :
                  m.normals.info[c] = Once({block})[c] + FromRows(m, c)

(* When a phased iteration decides whether to go on, the corrections it    *)
(* looks at (maxCorr_) are the rigorous ones of every block, none of a     *)
(* solution in isolation, and these are also the corrections stored for    *)
(* OutputLargestCorrection: the last block's were put aside in the forward *)
(* run and restored after the reverse run overwrote them.                  *)
CorrectionsJudged ==
    pc = "end" /\ mode = "phased" /\ ~cancelled =>
        /\ judged = {<<b, Whole(b)>> : b \in Blocks}
        /\ \A b \in Blocks : Latest(b).corrections = Whole(b)

(* The blocks an adjustment promises rigorous coordinates for: all, or     *)
(* with --block1-phased the first of each network that has several.        *)
Promised ==
    IF mode = "phased"
    THEN Blocks
    ELSE {b \in Blocks : BlockFirst(b) /\ ~BlockIsolated(b)}

(* A run that does not end by an exception or a cancellation, the runs the *)
(* program goes on to print, has rigorous coordinates of its last          *)
(* iteration for every promised block: a late exit from one of the loops   *)
(* never passes for a complete adjustment.                                 *)
CompleteOnSuccess ==
    pc \in AfterAdjustment
        /\ status \notin {"ADJUST_EXCEPTION_RAISED", "ADJUST_CANCELLED"} =>
        \A b \in Promised :
            Latest(b).rigorous = [round |-> iteration, info |-> Whole(b)]

(* The statistics of b are of its result: the precisions use the inverse   *)
(* of everything that bears on the block, and design matrix and residuals  *)
(* are those of the rigorous coordinates.  So is chi-square, unless the    *)
(* adjustment is staged: the residuals it is from are then those of the    *)
(* coordinates the last iteration started from.                            *)
OfResult(b) ==
    /\ statistics[b].variances = [info |-> Whole(b), inverted |-> TRUE]
    /\ statistics[b].design = Latest(b).rigorous
    /\ statistics[b].residuals = Latest(b).rigorous
    /\ IF Stage
       THEN statistics[b].chiSquare.round = iteration - 1
       ELSE statistics[b].chiSquare = Latest(b).rigorous

(* What b was solved from last.  For the last block of a network that is   *)
(* the reverse run's solution of the block alone.                          *)
SolvedLast(b) ==
    IF BlockLast(b) THEN Plus(Once({b}), Once(FirstReverse(b))) ELSE Whole(b)

(* The statistics of b are of the matrices as the last iteration has left  *)
(* them: in memory the inverse of the last solution, design matrix and     *)
(* residuals of the coordinates the iteration started from; staged the     *)
(* rigorous variances, which are stored apart, the rest formed at the last *)
(* solution.                                                               *)
OfLastSolution(b) ==
    /\ statistics[b].chiSquare.round = iteration - 1
    /\ IF Stage
       THEN /\ statistics[b].variances = [info |-> Whole(b), inverted |-> TRUE]
            /\ statistics[b].design = [round |-> iteration, info |-> SolvedLast(b)]
            /\ statistics[b].residuals = statistics[b].design
       ELSE /\ statistics[b].variances = [info |-> SolvedLast(b), inverted |-> TRUE]
            /\ statistics[b].design.round = iteration - 1
            /\ statistics[b].residuals.round = iteration - 1

(* The statistics of a converged phased adjustment are of its result, also *)
(* for the last block of a network, which the reverse run solved last in   *)
(* isolation, and for matrices that were read back from the mapped files.  *)
(* A cancellation that comes after the status is decided takes this away   *)
(* from the blocks the last update has not reached, and from no other:     *)
(* these are an end of the sequence of blocks, and their statistics are of *)
(* the last solution, none of a mixture.  (The status says success.)       *)
StatisticsRigorous ==
    pc = "done" /\ mode = "phased" /\ status = "ADJUST_SUCCESS" =>
        \E reached \in 0 .. BlockCount :
            /\ ~cancelled => reached = BlockCount
            /\ \A b \in Blocks :
                  IF b < reached THEN OfResult(b) ELSE OfLastSolution(b)

(* A staged adjustment holds at most two neighbouring blocks in memory,    *)
(* and in the loops over the blocks the one at work is one of them: no     *)
(* block is solved after it was unloaded, and none is forgotten in memory. *)
BlocksInMemory ==
    /\ Stage => \A b, c \in Loaded : b - c \in -1 .. 1
    /\ pc \in {"forward", "carry forward", "reverse", "carry reverse",
               "combine", "final"} => block \in Loaded

(* Refinement: the rigorous coordinates come about in the order and from   *)
(* the information RigorousAdjustment promises.  Every update of           *)
(* v_rigorousStations_ is from all measurements and constraints joined to  *)
(* the block, each once, whatever was carried, subtracted or restored on   *)
(* the way.                                                                *)
RA == INSTANCE RigorousAdjustment
        WITH promised <- Promised,
             rigorous <- [b \in Promised |-> Latest(b).rigorous]

ImplementsRigorous == RA!Spec
=============================================================================
