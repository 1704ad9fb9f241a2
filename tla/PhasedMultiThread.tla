-------------------------- MODULE PhasedMultiThread --------------------------
(***************************************************************************)
(* The multi-thread phased adjustment (dnaadjust-multi.cpp).  In every     *)
(* iteration the main thread starts a forward run, a reverse run and, if   *)
(* some block needs it, a combination coordinator, which starts a pool of  *)
(* combination workers.  The two runs adjust every block, each in its own  *)
(* direction, and queue a block once both have adjusted it; the workers    *)
(* combine the queued blocks.  The main thread joins them all, rethrows    *)
(* their exceptions, and either prepares another iteration or stops.       *)
(*                                                                         *)
(* An action is one critical section, or one stretch of code that works on *)
(* the matrices of a block.  The matrices are represented by what they     *)
(* hold, which is enough to tell whether a rigorous estimate came from the *)
(* right inputs.                                                           *)
(***************************************************************************)
EXTENDS PhasedBlocks, ConcurrentQueue, FiniteSets

CONSTANTS
    Workers,            \* the combination workers, one per hardware thread
    MaxIterations,      \* projectSettings_.a.max_iterations
    SingularBlocks,     \* blocks whose normals may turn out not invertible
    MayCancel           \* TRUE if the host may call CancelAdjustment

ASSUME WorkersAssumption == IsFiniteSet(Workers) /\ Workers # {}
ASSUME MaxIterationsAssumption == MaxIterations \in Nat
ASSUME SingularBlocksAssumption == SingularBlocks \subseteq Blocks
ASSUME MayCancelAssumption == MayCancel \in BOOLEAN

Sentinel == 99999999        \* pushed to wake the coordinator on a failure

ASSUME SentinelAssumption == Sentinel \notin Blocks

Runs == {"fwd", "rev"}

Coordinator == "cmb"

Other(run) == IF run = "fwd" THEN "rev" ELSE "fwd"

VARIABLES
    mainPc, runPc, cmbPc, workerPc,     \* where each thread is
    mainBlock, runBlock, workerBlock,   \* the block each thread works on
    workerRows,         \* pseudomsrJSLCount, local to each worker
    running,            \* forward_is_running, reverse_is_running
    adjusted,           \* v_fwd_blocks, v_rev_blocks: the blocks adjusted
    runError, cmbError, workerError,    \* the exception_ptr of each thread
    cancelled,          \* isCancelled_
    iteration,          \* currentIteration_
    iterate,            \* largest correction above the threshold?
    status,             \* adjustStatus_
    forward,            \* v_normals_ and v_estimatedStations_
    junctionsFwd,       \* v_junctionEstimatesFwd_, v_junctionVariancesFwd_
    reverse,            \* the matrices with suffix R, and v_normalsRC_
    rigorous,           \* v_rigorousStations_, v_rigorousVariances_
    premature,          \* history: exhausted before a run had started
    leftover,           \* history: blocks queued when the iteration began
    pushes              \* history: times a block was queued this iteration

threadVars == <<mainPc, runPc, cmbPc, workerPc, mainBlock, runBlock,
                workerBlock, workerRows>>
flagVars == <<running, adjusted>>
errorVars == <<runError, cmbError, workerError>>
resultVars == <<cancelled, iteration, iterate, status>>
matrixVars == <<forward, junctionsFwd, reverse, rigorous>>
historyVars == <<premature, leftover, pushes>>

vars == <<threadVars, flagVars, errorVars, resultVars, matrixVars,
          historyVars, queueVars>>

-----------------------------------------------------------------------------
(* What the matrices of a block can hold. *)

(* v_normals_: formed from the measurements; with the junctions of the     *)
(* preceding block; inverted (solved); the estimates updated; replaced by  *)
(* the final estimates; or computed from something else than it should be. *)
ForwardState ==
    {"formed", "carried", "solved", "updated", "final", "spoiled"}

JunctionState == {"old", "good", "spoiled"}

(* The reverse and combination side: normals is v_normalsR_, backup is     *)
(* v_normalsRC_, stations is v_estimatedStationsR_, and rows counts the    *)
(* sets of junction pseudo-measurements appended to v_measMinusCompR_ and  *)
(* v_AtVinvR_ (two sets fill the memory allocated for an inner block; a    *)
(* shrink may go below zero, since it takes measurements off as well).     *)
ReverseState ==
    [normals  : {"formed", "carried", "solved", "restored", "combined",
                 "spoiled"},
     backup   : {"old", "carried", "spoiled"},
     stations : {"old", "original", "reverse", "combined", "spoiled"},
     rows     : Int]

RigorousState == {"old", "rigorous", "spoiled"}

FreshForward == "formed"

FreshReverse ==
    [normals |-> "formed", backup |-> "old", stations |-> "old", rows |-> 0]

Statuses == {"ADJUST_SUCCESS", "ADJUST_MAX_ITERATIONS_EXCEEDED",
             "ADJUST_EXCEPTION_RAISED", "ADJUST_CANCELLED"}

MainLabels == {"top", "join", "update", "finish", "done", "rethrown"}
RunLabels == {"idle", "start", "check", "solve", "update", "carry", "final",
              "set", "test", "push", "finish", "finished", "exhaust",
              "notify", "caught", "sentinel", "done"}
CmbLabels == {"idle", "wait", "woken", "join", "done"}
WorkerLabels == {"idle", "top", "more", "empty", "errors", "pop", "recheck",
                 "prepare", "solve", "combine", "final", "sentinel", "done"}

ThreadTypes ==
    /\ mainPc \in MainLabels
    /\ runPc \in [Runs -> RunLabels]
    /\ cmbPc \in CmbLabels
    /\ workerPc \in [Workers -> WorkerLabels]
    /\ mainBlock \in Blocks
    /\ runBlock \in [Runs -> Blocks]
    /\ workerBlock \in [Workers -> Blocks \cup {Sentinel}]
    /\ workerRows \in [Workers -> Int]

FlagTypes ==
    /\ running \in [Runs -> BOOLEAN]
    /\ adjusted \in [Runs -> SUBSET Blocks]

ErrorTypes ==
    /\ runError \in [Runs -> BOOLEAN]
    /\ cmbError \in BOOLEAN
    /\ workerError \in [Workers -> BOOLEAN]

ResultTypes ==
    /\ cancelled \in BOOLEAN
    /\ iteration \in 0 .. MaxIterations
    /\ iterate \in BOOLEAN
    /\ status \in Statuses

MatrixTypes ==
    /\ forward \in [Blocks -> ForwardState]
    /\ junctionsFwd \in [Blocks -> JunctionState]
    /\ reverse \in [Blocks -> ReverseState]
    /\ rigorous \in [Blocks -> RigorousState]

HistoryTypes ==
    /\ premature \in BOOLEAN
    /\ leftover \subseteq Blocks \cup {Sentinel}
    /\ pushes \in [Blocks -> Nat]

TypeOK ==
    /\ ThreadTypes
    /\ FlagTypes
    /\ ErrorTypes
    /\ ResultTypes
    /\ MatrixTypes
    /\ HistoryTypes
    /\ QueueTypeOK(Blocks \cup {Sentinel}, {Coordinator})

Init ==
    /\ mainPc = "top"
    /\ runPc = [run \in Runs |-> "idle"]
    /\ cmbPc = "idle"
    /\ workerPc = [w \in Workers |-> "idle"]
    /\ mainBlock = 0
    /\ runBlock = [run \in Runs |-> 0]
    /\ workerBlock = [w \in Workers |-> 0]
    /\ workerRows = [w \in Workers |-> 0]
    /\ running = [run \in Runs |-> FALSE]
    /\ adjusted = [run \in Runs |-> {}]
    /\ runError = [run \in Runs |-> FALSE]
    /\ cmbError = FALSE
    /\ workerError = [w \in Workers |-> FALSE]
    /\ cancelled = FALSE
    /\ iteration = 0
    /\ iterate = TRUE
    /\ status = "ADJUST_SUCCESS"
    /\ forward = [b \in Blocks |-> FreshForward]
    /\ junctionsFwd = [b \in Blocks |-> "old"]
    /\ reverse = [b \in Blocks |-> FreshReverse]
    /\ rigorous = [b \in Blocks |-> "old"]
    /\ premature = FALSE
    /\ leftover = {}
    /\ pushes = [b \in Blocks |-> 0]
    /\ QueueInit

-----------------------------------------------------------------------------
(* The main thread: AdjustPhasedMultiThread. *)

(* One pass of the loop up to the point where the threads have been        *)
(* created.  No other thread exists while this happens.                    *)
StartIteration ==
    /\ mainPc = "top"
    /\ ~cancelled
    /\ iteration < MaxIterations
    /\ iteration' = iteration + 1
    /\ adjusted' = [run \in Runs |-> {}]
    /\ reset_blocks_coming
    /\ runPc' = [run \in Runs |-> "start"]
    /\ cmbPc' = IF CombinationThreadRequired THEN "wait" ELSE "done"
    /\ mainPc' = "join"
    /\ pushes' = [b \in Blocks |-> 0]
    /\ leftover' = Queued
    /\ UNCHANGED <<workerPc, mainBlock, runBlock, workerBlock, workerRows,
                   running, errorVars, cancelled, iterate, status,
                   matrixVars, premature>>

LeaveLoop ==
    /\ mainPc = "top"
    /\ cancelled \/ iteration = MaxIterations
    /\ mainPc' = "finish"
    /\ UNCHANGED <<runPc, cmbPc, workerPc, mainBlock, runBlock, workerBlock,
                   workerRows, flagVars, errorVars, resultVars, matrixVars,
                   historyVars, queueVars>>

RunsFinished == \A run \in Runs : runPc[run] = "done"                \* mutant

ThreadsFinished ==
    /\ \A run \in Runs : runPc[run] = "done"
    /\ cmbPc = "done"

RunErrorOnly == runError["fwd"] \/ runError["rev"]                  \* mutant

ErrorToRethrow == runError["fwd"] \/ runError["rev"] \/ cmbError

(* Whether the largest correction exceeds the threshold is left open. *)
JoinThreads ==
    /\ mainPc = "join"
    /\ ThreadsFinished
    /\ \/ /\ ErrorToRethrow
          /\ mainPc' = "rethrown"
          /\ UNCHANGED <<mainBlock, iterate>>
       \/ /\ ~ErrorToRethrow
          /\ cancelled
          /\ mainPc' = "finish"
          /\ UNCHANGED <<mainBlock, iterate>>
       \/ /\ ~ErrorToRethrow
          /\ ~cancelled
          /\ iterate' \in BOOLEAN
          /\ mainBlock' = 0
          /\ mainPc' = "update"
    /\ UNCHANGED <<runPc, cmbPc, workerPc, runBlock, workerBlock, workerRows,
                   flagVars, errorVars, cancelled, iteration, status,
                   matrixVars, historyVars, queueVars>>

(* One block of UpdateAdjustment(iterate).  The normals are formed again   *)
(* only for another iteration; the last block of a network takes over its  *)
(* rigorous estimates either way.                                          *)
UpdateMatrices(b) ==
    IF iterate
    THEN /\ forward' = [forward EXCEPT ![b] = FreshForward]
         /\ reverse' = [reverse EXCEPT
                          ![b] = [FreshReverse EXCEPT !.rows = reverse[b].rows]]
         /\ junctionsFwd' = [junctionsFwd EXCEPT ![b] = "old"]
         /\ rigorous' = [rigorous EXCEPT ![b] = "old"]
    ELSE /\ forward' = IF BlockLast(b) THEN [forward EXCEPT ![b] = "final"]
                                       ELSE forward
         /\ UNCHANGED <<reverse, junctionsFwd, rigorous>>

UpdateBlock ==
    LET b == mainBlock
        complete == cancelled \/ b = BlockCount - 1
    IN
    /\ mainPc = "update"
    /\ IF cancelled THEN UNCHANGED matrixVars ELSE UpdateMatrices(b)
    /\ mainBlock' = IF complete THEN b ELSE b + 1
    /\ mainPc' = CASE ~complete -> "update"
                    [] complete /\ iterate -> "top"
                    [] complete /\ ~iterate -> "finish"
    /\ UNCHANGED <<runPc, cmbPc, workerPc, runBlock, workerBlock, workerRows,
                   flagVars, errorVars, resultVars, historyVars, queueVars>>

Finish ==
    /\ mainPc = "finish"
    /\ mainPc' = "done"
    /\ status' = CASE status = "ADJUST_EXCEPTION_RAISED" -> status
                    [] cancelled /\ status = "ADJUST_SUCCESS" ->
                         "ADJUST_CANCELLED"
                    [] OTHER -> IF iteration = MaxIterations
                                THEN "ADJUST_MAX_ITERATIONS_EXCEEDED"
                                ELSE status
    /\ UNCHANGED <<runPc, cmbPc, workerPc, mainBlock, runBlock, workerBlock,
                   workerRows, flagVars, errorVars, cancelled, iteration,
                   iterate, matrixVars, historyVars, queueVars>>

(* The host application calls CancelAdjustment at any time. *)
CancelAdjustment ==
    /\ MayCancel
    /\ ~cancelled
    /\ mainPc \notin {"done", "rethrown"}
    /\ cancelled' = TRUE
    /\ UNCHANGED <<threadVars, flagVars, errorVars, iteration, iterate,
                   status, matrixVars, historyVars, queueVars>>

Main == StartIteration \/ LeaveLoop \/ JoinThreads \/ UpdateBlock \/ Finish

-----------------------------------------------------------------------------
(* What both runs do: adjust_forward_thread and adjust_reverse_thread. *)

RunGoto(run, label) == runPc' = [runPc EXCEPT ![run] = label]

FirstOfRun(run) == IF run = "fwd" THEN 0 ELSE BlockCount - 1

LastOfRun(run) == IF run = "fwd" THEN BlockCount - 1 ELSE 0

RunNextBlock(run) ==
    IF runBlock[run] = LastOfRun(run)
    THEN /\ RunGoto(run, "finish")
         /\ UNCHANGED runBlock
    ELSE /\ RunGoto(run, "check")
         /\ runBlock' = [runBlock EXCEPT
                           ![run] = IF run = "fwd" THEN @ + 1 ELSE @ - 1]

(* A run gives up, without a word to anybody, if another thread failed. *)
OthersFailed(run) == runError[Other(run)] \/ cmbError

StartRun(run) ==
    /\ runPc[run] = "start"
    /\ running' = [running EXCEPT ![run] = TRUE]
    /\ runError' = [runError EXCEPT ![run] = FALSE]
    /\ runBlock' = [runBlock EXCEPT ![run] = FirstOfRun(run)]
    /\ RunGoto(run, "check")
    /\ UNCHANGED <<mainPc, cmbPc, workerPc, mainBlock, workerBlock,
                   workerRows, adjusted, cmbError, workerError, resultVars,
                   matrixVars, historyVars, queueVars>>

(* Top of the loop.  The reverse run skips an isolated block, which the    *)
(* forward run adjusts rigorously (PrepareAdjustmentReverse).              *)
CheckRun(run) ==
    /\ runPc[run] = "check"
    /\ IF cancelled \/ OthersFailed(run)
       THEN RunGoto(run, "done") /\ UNCHANGED runBlock
       ELSE IF run = "rev" /\ BlockIsolated(runBlock[run])
            THEN RunNextBlock(run)
            ELSE RunGoto(run, "solve") /\ UNCHANGED runBlock
    /\ UNCHANGED <<mainPc, cmbPc, workerPc, mainBlock, workerBlock,
                   workerRows, flagVars, errorVars, resultVars, matrixVars,
                   historyVars, queueVars>>

(* SolveTry and SolveMTTry throw if the normals cannot be inverted. *)
SolveFails(run) ==
    /\ runPc[run] = "solve"
    /\ runBlock[run] \in SingularBlocks
    /\ status' = "ADJUST_EXCEPTION_RAISED"
    /\ runError' = [runError EXCEPT ![run] = TRUE]
    /\ RunGoto(run, "caught")
    /\ UNCHANGED <<mainPc, cmbPc, workerPc, mainBlock, runBlock, workerBlock,
                   workerRows, flagVars, cmbError, workerError, cancelled,
                   iteration, iterate, matrixVars, historyVars, queueVars>>

SetAdjusted(run) ==
    /\ runPc[run] = "set"
    /\ adjusted' = [adjusted EXCEPT ![run] = @ \cup {runBlock[run]}]
    /\ RunGoto(run, "test")
    /\ UNCHANGED <<mainPc, cmbPc, workerPc, mainBlock, runBlock, workerBlock,
                   workerRows, running, errorVars, resultVars, matrixVars,
                   historyVars, queueVars>>

ReadyForwardOnly(run) ==                                            \* mutant
    run = "fwd" /\ runBlock[run] \in adjusted[Other(run)]

ReadyAtOnce(run) == TRUE                                            \* mutant

(* Has the other run dealt with this block? *)
BlockReady(run) == runBlock[run] \in adjusted[Other(run)]

TestOther(run) ==
    /\ runPc[run] = "test"
    /\ IF BlockReady(run)
       THEN RunGoto(run, "push") /\ UNCHANGED runBlock
       ELSE RunNextBlock(run)
    /\ UNCHANGED <<mainPc, cmbPc, workerPc, mainBlock, workerBlock,
                   workerRows, flagVars, errorVars, resultVars, matrixVars,
                   historyVars, queueVars>>

PushBlock(run) ==
    /\ runPc[run] = "push"
    /\ push_and_notify(runBlock[run])
    /\ pushes' = [pushes EXCEPT ![runBlock[run]] = @ + 1]
    /\ RunNextBlock(run)
    /\ UNCHANGED <<mainPc, cmbPc, workerPc, mainBlock, workerBlock,
                   workerRows, flagVars, errorVars, resultVars, matrixVars,
                   premature, leftover>>

FinishRun(run) ==
    /\ runPc[run] = "finish"
    /\ running' = [running EXCEPT ![run] = FALSE]
    /\ RunGoto(run, "finished")
    /\ UNCHANGED <<mainPc, cmbPc, workerPc, mainBlock, runBlock, workerBlock,
                   workerRows, adjusted, errorVars, resultVars, matrixVars,
                   historyVars, queueVars>>

AfterExhaust(run) == IF run = "fwd" THEN "notify" ELSE "done"

(* finished_all_runs is also true while the other run has not yet set its  *)
(* flag: that is what "premature" remembers.                               *)
TestFinished(run) ==
    /\ runPc[run] = "finished"
    /\ IF \A r \in Runs : ~running[r]
       THEN /\ RunGoto(run, "exhaust")
            /\ premature' = (premature \/ runPc[Other(run)] = "start")
       ELSE /\ RunGoto(run, AfterExhaust(run))
            /\ UNCHANGED premature
    /\ UNCHANGED <<mainPc, cmbPc, workerPc, mainBlock, runBlock, workerBlock,
                   workerRows, flagVars, errorVars, resultVars, matrixVars,
                   leftover, pushes, queueVars>>

ExhaustQueue(run) ==
    /\ runPc[run] = "exhaust"
    /\ queue_exhausted
    /\ RunGoto(run, AfterExhaust(run))
    /\ UNCHANGED <<mainPc, cmbPc, workerPc, mainBlock, runBlock, workerBlock,
                   workerRows, flagVars, errorVars, resultVars, matrixVars,
                   historyVars>>

NotifyAll ==
    /\ runPc["fwd"] = "notify"
    /\ notify_all
    /\ RunGoto("fwd", "done")
    /\ UNCHANGED <<mainPc, cmbPc, workerPc, mainBlock, runBlock, workerBlock,
                   workerRows, flagVars, errorVars, resultVars, matrixVars,
                   historyVars>>

(* The coordinator must be woken if nothing is queued. *)
AfterFailure == IF is_empty THEN "sentinel" ELSE "done"

(* The handler of a run: is_empty and push_and_notify lock one at a time. *)
HandlerTest(run) ==
    /\ runPc[run] = "caught"
    /\ RunGoto(run, AfterFailure)
    /\ UNCHANGED <<mainPc, cmbPc, workerPc, mainBlock, runBlock, workerBlock,
                   workerRows, flagVars, errorVars, resultVars, matrixVars,
                   historyVars, queueVars>>

HandlerPush(run) ==
    /\ runPc[run] = "sentinel"
    /\ push_and_notify(Sentinel)
    /\ RunGoto(run, "done")
    /\ UNCHANGED <<mainPc, cmbPc, workerPc, mainBlock, runBlock, workerBlock,
                   workerRows, flagVars, errorVars, resultVars, matrixVars,
                   historyVars>>

-----------------------------------------------------------------------------
(* The forward run on a block. *)

SolveForward ==
    LET b == runBlock["fwd"]
        expected == IF b > 0 /\ CarriesForward(b - 1) THEN "carried"
                                                      ELSE "formed"
    IN
    /\ runPc["fwd"] = "solve"
    /\ forward' = [forward EXCEPT
                    ![b] = IF @ = expected THEN "solved" ELSE "spoiled"]
    /\ RunGoto("fwd", "update")
    /\ UNCHANGED <<mainPc, cmbPc, workerPc, mainBlock, runBlock, workerBlock,
                   workerRows, flagVars, errorVars, resultVars, junctionsFwd,
                   reverse, rigorous, historyVars, queueVars>>

(* UpdateEstimatesForward: rigorous for the last block of a network. *)
UpdateForward ==
    LET b == runBlock["fwd"]
        good == forward[b] = "solved"
    IN
    /\ runPc["fwd"] = "update"
    /\ IF OthersFailed("fwd")
       THEN RunGoto("fwd", "done") /\ UNCHANGED <<forward, rigorous>>
       ELSE /\ RunGoto("fwd", "carry")
            /\ forward' = [forward EXCEPT
                            ![b] = IF good THEN "updated" ELSE "spoiled"]
            /\ rigorous' = IF BlockLast(b)
                           THEN [rigorous EXCEPT
                                  ![b] = IF good THEN "rigorous" ELSE "spoiled"]
                           ELSE rigorous
    /\ UNCHANGED <<mainPc, cmbPc, workerPc, mainBlock, runBlock, workerBlock,
                   workerRows, flagVars, errorVars, resultVars, junctionsFwd,
                   reverse, historyVars, queueVars>>

(* ShrinkForwardMatrices and CarryForwardJunctions. *)
CarryForward ==
    LET b == runBlock["fwd"]
        good == forward[b] = "updated"
    IN
    /\ runPc["fwd"] = "carry"
    /\ IF CarriesForward(b)
       THEN /\ junctionsFwd' = [junctionsFwd EXCEPT
                                 ![b] = IF good THEN "good" ELSE "spoiled"]
            /\ forward' = [forward EXCEPT
                            ![b + 1] = IF good /\ @ = "formed" THEN "carried"
                                                               ELSE "spoiled"]
       ELSE UNCHANGED <<junctionsFwd, forward>>
    /\ IF CombineRequired(b)
       THEN RunGoto("fwd", "set") /\ UNCHANGED runBlock
       ELSE RunNextBlock("fwd")
    /\ UNCHANGED <<mainPc, cmbPc, workerPc, mainBlock, workerBlock,
                   workerRows, flagVars, errorVars, resultVars, reverse,
                   rigorous, historyVars, queueVars>>

-----------------------------------------------------------------------------
(* The reverse run on a block. *)

(* UpdateEstimatesFinal for a block other than the last of a network: the  *)
(* R matrices replace the forward ones and become the rigorous estimates.  *)
UpdateEstimatesFinal(b, normals, stations) ==
    LET good == reverse[b].normals = normals /\ reverse[b].stations = stations
    IN /\ forward' = [forward EXCEPT ![b] = "final"]
       /\ rigorous' = [rigorous EXCEPT
                        ![b] = IF good THEN "rigorous" ELSE "spoiled"]

(* PrepareAdjustmentReverse puts the estimates of the last block back to   *)
(* the original coordinates, BackupNormals copies the normals of a block   *)
(* that will be combined, and SolveMTTry inverts them.                     *)
SolvedReverse(b) ==
    LET expected == IF BlockLast(b) THEN "formed" ELSE "carried"
        rows == IF BlockLast(b) THEN 0 ELSE 1
        good == reverse[b].normals = expected /\ reverse[b].rows = rows
    IN [reverse[b] EXCEPT
          !.stations = IF BlockLast(b) THEN "original" ELSE @,
          !.backup = IF ~CombineRequired(b) THEN @
                     ELSE IF reverse[b].normals = "carried" THEN "carried"
                     ELSE "spoiled",
          !.normals = IF good THEN "solved" ELSE "spoiled"]

SolveReverse ==
    LET b == runBlock["rev"] IN
    /\ runPc["rev"] = "solve"
    /\ reverse' = [reverse EXCEPT ![b] = SolvedReverse(b)]
    /\ RunGoto("rev", "update")
    /\ UNCHANGED <<mainPc, cmbPc, workerPc, mainBlock, runBlock, workerBlock,
                   workerRows, flagVars, errorVars, resultVars, forward,
                   junctionsFwd, rigorous, historyVars, queueVars>>

UpdateReverse ==
    LET b == runBlock["rev"]
        good == reverse[b].normals = "solved" /\ reverse[b].stations = "original"
    IN
    /\ runPc["rev"] = "update"
    /\ IF OthersFailed("rev")
       THEN RunGoto("rev", "done") /\ UNCHANGED reverse
       ELSE /\ RunGoto("rev", "carry")
            /\ reverse' = [reverse EXCEPT
                 ![b].stations = IF good THEN "reverse" ELSE "spoiled"]
    /\ UNCHANGED <<mainPc, cmbPc, workerPc, mainBlock, runBlock, workerBlock,
                   workerRows, flagVars, errorVars, resultVars, forward,
                   junctionsFwd, rigorous, historyVars, queueVars>>

(* CarryReverseJunctions appends the junctions of block b to block b-1. *)
CarriedReverse(b) ==
    LET good == reverse[b].stations = "reverse" /\ reverse[b].normals = "solved"
    IN [reverse[b - 1] EXCEPT
          !.stations = "original",
          !.normals = IF good /\ @ = "formed" THEN "carried" ELSE "spoiled",
          !.rows = @ + 1]

CarryReverse ==
    LET b == runBlock["rev"] IN
    /\ runPc["rev"] = "carry"
    /\ reverse' = IF CarriesReverse(b)
                  THEN [reverse EXCEPT ![b - 1] = CarriedReverse(b)]
                  ELSE reverse
    /\ IF CombineRequired(b)
       THEN RunGoto("rev", "set") /\ UNCHANGED runBlock
       ELSE IF BlockFirst(b)
            THEN RunGoto("rev", "final") /\ UNCHANGED runBlock
            ELSE RunNextBlock("rev")
    /\ UNCHANGED <<mainPc, cmbPc, workerPc, mainBlock, workerBlock,
                   workerRows, flagVars, errorVars, resultVars,
                   forward, junctionsFwd, rigorous, historyVars, queueVars>>

(* The reverse estimates of the first block of a network are rigorous. *)
FinalReverse ==
    LET b == runBlock["rev"] IN
    /\ runPc["rev"] = "final"
    /\ UpdateEstimatesFinal(b, "solved", "reverse")
    /\ reverse' = [reverse EXCEPT ![b].rows = @ - 1]
    /\ RunNextBlock("rev")
    /\ UNCHANGED <<mainPc, cmbPc, workerPc, mainBlock, workerBlock,
                   workerRows, flagVars, errorVars, resultVars, junctionsFwd,
                   historyVars, queueVars>>

Forward ==
    \/ StartRun("fwd") \/ CheckRun("fwd")
    \/ SolveForward \/ SolveFails("fwd") \/ UpdateForward \/ CarryForward
    \/ SetAdjusted("fwd") \/ TestOther("fwd") \/ PushBlock("fwd")
    \/ FinishRun("fwd") \/ TestFinished("fwd") \/ ExhaustQueue("fwd")
    \/ NotifyAll \/ HandlerTest("fwd") \/ HandlerPush("fwd")

Reverse ==
    \/ StartRun("rev") \/ CheckRun("rev")
    \/ SolveReverse \/ SolveFails("rev") \/ UpdateReverse \/ CarryReverse
    \/ FinalReverse
    \/ SetAdjusted("rev") \/ TestOther("rev") \/ PushBlock("rev")
    \/ FinishRun("rev") \/ TestFinished("rev") \/ ExhaustQueue("rev")
    \/ HandlerTest("rev") \/ HandlerPush("rev")

-----------------------------------------------------------------------------
(* The coordinator: adjust_combine_thread. *)

(* wait_if_queue_is_empty, until a notification finds the queue non-empty. *)
WaitForBlock ==
    /\ cmbPc = "wait"
    /\ Coordinator \notin asleep
    /\ \/ /\ ~is_empty
          /\ cmbPc' = "woken"
          /\ UNCHANGED queueVars
       \/ /\ sleep_on_empty(Coordinator)
          /\ UNCHANGED cmbPc
    /\ UNCHANGED <<mainPc, runPc, workerPc, mainBlock, runBlock, workerBlock,
                   workerRows, flagVars, errorVars, resultVars, matrixVars,
                   historyVars>>

SpuriousWakeup ==
    /\ spurious_wakeup(Coordinator)
    /\ UNCHANGED <<threadVars, flagVars, errorVars, resultVars, matrixVars,
                   historyVars>>

StartWorkers ==
    /\ cmbPc = "woken"
    /\ IF \E run \in Runs : runError[run]
       THEN cmbPc' = "done" /\ UNCHANGED <<workerPc, workerError>>
       ELSE /\ cmbPc' = "join"
            /\ workerPc' = [w \in Workers |-> "top"]
            /\ workerError' = [w \in Workers |-> FALSE]
    /\ UNCHANGED <<mainPc, runPc, mainBlock, runBlock, workerBlock, workerRows,
                   flagVars, runError, cmbError, resultVars, matrixVars,
                   historyVars, queueVars>>

JoinWorkers ==
    /\ cmbPc = "join"
    /\ \A w \in Workers : workerPc[w] = "done"
    /\ cmbError' = (cmbError \/ \E w \in Workers : workerError[w])
    /\ cmbPc' = "done"
    /\ UNCHANGED <<mainPc, runPc, workerPc, mainBlock, runBlock, workerBlock,
                   workerRows, flagVars, runError, workerError, resultVars,
                   matrixVars, historyVars, queueVars>>

CombineThread == WaitForBlock \/ StartWorkers \/ JoinWorkers

-----------------------------------------------------------------------------
(* A combination worker: adjust_process_combine_thread. *)

WorkerGoto(w, label) == workerPc' = [workerPc EXCEPT ![w] = label]

(* combineAdjustmentExceptionThrown, called before and after the pop. *)
CombineExceptionThrown(w) ==
    \/ \E run \in Runs : runError[run]
    \/ \E v \in Workers : workerError[v]

WorkerTop(w) ==
    /\ workerPc[w] = "top"
    /\ WorkerGoto(w, IF cancelled THEN "done" ELSE "more")
    /\ UNCHANGED <<mainPc, runPc, cmbPc, mainBlock, runBlock, workerBlock,
                   workerRows, flagVars, errorVars, resultVars, matrixVars,
                   historyVars, queueVars>>

(* is_queue_exhausted: first the flag, then, under the other mutex, the    *)
(* queue itself.                                                           *)
AfterFlag == IF more_blocks_coming THEN "errors" ELSE "empty"

WorkerMore(w) ==
    /\ workerPc[w] = "more"
    /\ WorkerGoto(w, AfterFlag)
    /\ UNCHANGED <<mainPc, runPc, cmbPc, mainBlock, runBlock, workerBlock,
                   workerRows, flagVars, errorVars, resultVars, matrixVars,
                   historyVars, queueVars>>

WorkerEmpty(w) ==
    /\ workerPc[w] = "empty"
    /\ WorkerGoto(w, IF is_empty THEN "done" ELSE "errors")
    /\ UNCHANGED <<mainPc, runPc, cmbPc, mainBlock, runBlock, workerBlock,
                   workerRows, flagVars, errorVars, resultVars, matrixVars,
                   historyVars, queueVars>>

WorkerErrors(w) ==
    /\ workerPc[w] \in {"errors", "recheck"}
    /\ WorkerGoto(w, IF CombineExceptionThrown(w) THEN AfterFailure
                     ELSE IF workerPc[w] = "errors" THEN "pop" ELSE "prepare")
    /\ UNCHANGED <<mainPc, runPc, cmbPc, mainBlock, runBlock, workerBlock,
                   workerRows, flagVars, errorVars, resultVars, matrixVars,
                   historyVars, queueVars>>

WorkerSentinel(w) ==
    /\ workerPc[w] = "sentinel"
    /\ push_and_notify(Sentinel)
    /\ WorkerGoto(w, "done")
    /\ UNCHANGED <<mainPc, runPc, cmbPc, mainBlock, runBlock, workerBlock,
                   workerRows, flagVars, errorVars, resultVars, matrixVars,
                   historyVars>>

WorkerPop(w) ==
    /\ workerPc[w] = "pop"
    /\ \/ \E value \in Blocks \cup {Sentinel} :
            /\ front_and_pop(value)
            /\ workerBlock' = [workerBlock EXCEPT ![w] = value]
            /\ WorkerGoto(w, "recheck")
       \/ /\ is_empty
          /\ WorkerGoto(w, "top")
          /\ UNCHANGED <<workerBlock, queueVars>>
    /\ UNCHANGED <<mainPc, runPc, cmbPc, mainBlock, runBlock, workerRows,
                   flagVars, errorVars, resultVars, matrixVars, historyVars>>

(* Any exception ends the worker. *)
WorkerThrows(w) ==
    /\ workerError' = [workerError EXCEPT ![w] = TRUE]
    /\ WorkerGoto(w, "done")

(* PrepareAdjustmentCombine: estimates back to the originals, normals back *)
(* to the copy made by the reverse run, the junctions of the forward run   *)
(* appended.  grow() throws when the memory for pseudo-measurements is     *)
(* used up.                                                                *)
RowsAvailable(b) == reverse[b].rows < 2

PreparedReverse(b) ==
    LET good == reverse[b].backup = "carried" /\ junctionsFwd[b - 1] = "good"
    IN [reverse[b] EXCEPT
          !.stations = "original",
          !.normals = IF good THEN "restored" ELSE "spoiled",
          !.rows = IF RowsAvailable(b) THEN @ + 1 ELSE @]

WorkerPrepare(w) ==
    LET b == workerBlock[w] IN
    /\ workerPc[w] = "prepare"
    /\ b \in Blocks
    /\ CombineRequired(b)
    /\ reverse' = [reverse EXCEPT ![b] = PreparedReverse(b)]
    /\ IF RowsAvailable(b)
       THEN /\ workerRows' = [workerRows EXCEPT ![w] = reverse[b].rows + 1]
            /\ WorkerGoto(w, "solve")
            /\ UNCHANGED workerError
       ELSE /\ WorkerThrows(w)
            /\ UNCHANGED workerRows
    /\ UNCHANGED <<mainPc, runPc, cmbPc, mainBlock, runBlock, workerBlock,
                   flagVars, runError, cmbError, resultVars, forward,
                   junctionsFwd, rigorous, historyVars, queueVars>>

WorkerSolve(w) ==
    LET b == workerBlock[w]
        good == reverse[b].normals = "restored" /\ reverse[b].rows = 2
    IN
    /\ workerPc[w] = "solve"
    /\ \/ /\ reverse' = [reverse EXCEPT
                ![b].normals = IF good THEN "combined" ELSE "spoiled"]
          /\ WorkerGoto(w, "combine")
          /\ UNCHANGED <<workerError, status>>
       \/ /\ b \in SingularBlocks
          /\ status' = "ADJUST_EXCEPTION_RAISED"
          /\ WorkerThrows(w)
          /\ UNCHANGED reverse
    /\ UNCHANGED <<mainPc, runPc, cmbPc, mainBlock, runBlock, workerBlock,
                   workerRows, flagVars, runError, cmbError, cancelled,
                   iteration, iterate, forward, junctionsFwd, rigorous,
                   historyVars, queueVars>>

ShrinkBothSets(w) == 2                                              \* mutant

ShrinkBy(w) == workerRows[w]

(* UpdateEstimatesCombine removes as many pseudo-measurements as this      *)
(* worker found when it prepared the block.                                *)
CombinedReverse(b, sets) ==
    LET good == reverse[b].normals = "combined"
                  /\ reverse[b].stations = "original"
    IN [reverse[b] EXCEPT
          !.stations = IF good THEN "combined" ELSE "spoiled",
          !.rows = @ - sets]

WorkerCombine(w) ==
    LET b == workerBlock[w] IN
    /\ workerPc[w] = "combine"
    /\ reverse' = [reverse EXCEPT ![b] = CombinedReverse(b, ShrinkBy(w))]
    /\ WorkerGoto(w, "final")
    /\ UNCHANGED <<mainPc, runPc, cmbPc, mainBlock, runBlock, workerBlock,
                   workerRows, flagVars, errorVars, resultVars, forward,
                   junctionsFwd, rigorous, historyVars, queueVars>>

WorkerFinal(w) ==
    /\ workerPc[w] = "final"
    /\ UpdateEstimatesFinal(workerBlock[w], "combined", "combined")
    /\ WorkerGoto(w, "top")
    /\ UNCHANGED <<mainPc, runPc, cmbPc, mainBlock, runBlock, workerBlock,
                   workerRows, flagVars, errorVars, resultVars, junctionsFwd,
                   reverse, historyVars, queueVars>>

Worker(w) ==
    \/ WorkerTop(w) \/ WorkerMore(w) \/ WorkerEmpty(w) \/ WorkerErrors(w)
    \/ WorkerSentinel(w) \/ WorkerPop(w) \/ WorkerPrepare(w)
    \/ WorkerSolve(w) \/ WorkerCombine(w) \/ WorkerFinal(w)

-----------------------------------------------------------------------------
(* The process is over; nothing else happens. *)
Terminated ==
    /\ mainPc \in {"done", "rethrown"}
    /\ UNCHANGED vars

Next ==
    \/ Main
    \/ Forward
    \/ Reverse
    \/ CombineThread
    \/ SpuriousWakeup
    \/ \E w \in Workers : Worker(w)
    \/ CancelAdjustment
    \/ Terminated

(* Each std::thread that can run is scheduled eventually.  Nothing is      *)
(* assumed of cancellation or of spurious wake-ups.                        *)
Fairness ==
    /\ WF_vars(Main)
    /\ WF_vars(Forward)
    /\ WF_vars(Reverse)
    /\ WF_vars(CombineThread)
    /\ \A w \in Workers : WF_vars(Worker(w))

Spec == Init /\ [][Next]_vars

FairSpec == Spec /\ Fairness

-----------------------------------------------------------------------------
(* Properties. *)

BothAdjusted == adjusted["fwd"] \cap adjusted["rev"]

Combining(w) == workerPc[w] \in {"prepare", "solve", "combine", "final"}

(* A block both runs have adjusted is never forgotten: it has been queued, *)
(* or one of the runs has set its flag and is about to test the other flag *)
(* or to queue the block.  This is the flag-then-test protocol of the two  *)
(* threads, each of which sets its own flag before it reads the other's.   *)
NoLostBlock ==
    \A b \in BothAdjusted :
        \/ pushes[b] > 0
        \/ \E run \in Runs :
             runBlock[run] = b /\ runPc[run] \in {"test", "push"}

(* Workers only ever combine inner blocks that both runs have adjusted in  *)
(* this iteration, or that an earlier iteration left in the queue; the     *)
(* value 99999999 that is pushed on a failure never reaches a matrix.      *)
CombineOnlyAdjusted ==
    \A w \in Workers :
        Combining(w) =>
            /\ workerBlock[w] \in BothAdjusted \cup leftover
            /\ workerBlock[w] # Sentinel
            /\ CombineRequired(workerBlock[w])

(* When the main thread has joined the others and found neither an         *)
(* exception nor a cancellation, every block has a rigorous estimate.  The *)
(* exceptions are the known ones: the queue was exhausted prematurely; the *)
(* block was queued twice; or UpdateEstimatesFinal wrote into the forward  *)
(* matrices of the first block of its network while the forward run used   *)
(* them, and everything carried from there to the block is spoiled.  No    *)
(* other block is ever disturbed by the reverse run or the workers.        *)
SpoiledSinceFirst(b) ==
    /\ ~BlockFirst(b)
    /\ \A c \in Blocks :
          c < b /\ (\A d \in c + 1 .. b : ~BlockFirst(d))
            => junctionsFwd[c] = "spoiled"

RigorousUnlessDisturbed ==
    mainPc = "update" /\ mainBlock = 0 /\ ~premature =>
        \A b \in Blocks :
            \/ rigorous[b] = "rigorous"
            \/ pushes[b] > 1
            \/ SpoiledSinceFirst(b)

(* The pseudo-measurements appended to the R matrices of a block never     *)
(* exceed the memory allocated for them, and taking them off again never   *)
(* takes off rows that belong to measurements, even if the block is queued *)
(* twice and two workers have it; unless an iteration whose queue was      *)
(* exhausted prematurely left it in the queue for the next one.            *)
RowsFit == \A b \in Blocks : b \notin leftover => reverse[b].rows \in 0 .. 2

(* No exception is swallowed: whenever the main thread goes on to update   *)
(* the matrices, to iterate or to report a status, no thread of the        *)
(* iteration just joined has failed.                                       *)
FailureIsRethrown ==
    mainPc \in {"top", "update", "finish", "done"} =>
        /\ \A run \in Runs : ~runError[run]
        /\ \A w \in Workers : ~workerError[w]
        /\ status # "ADJUST_EXCEPTION_RAISED"

(* Unless it is cancelled the adjustment terminates, whatever blocks fail  *)
(* and whatever order the threads run in: no thread waits for a            *)
(* notification that was given too early or not at all.                    *)
Termination == <>(mainPc \in {"done", "rethrown"} \/ cancelled)

(* Comment of AdjustPhasedMultiThread: the status is found "similar to the *)
(* check in ValidateandFinaliseAdjustment", which reports that the         *)
(* permitted iterations were exceeded only if the last correction was      *)
(* still too large.                                                        *)
FailedToConverge ==
    mainPc = "done" /\ status = "ADJUST_MAX_ITERATIONS_EXCEEDED" => iterate

(* A cancelled adjustment comes back to its caller. *)
CancelReturns == cancelled ~> mainPc \in {"done", "rethrown"}
=============================================================================
