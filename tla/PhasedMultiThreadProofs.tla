----------------------- MODULE PhasedMultiThreadProofs -----------------------
(***************************************************************************)
(* Theorems about the multi-thread phased adjustment, for every            *)
(* segmentation, number of workers, limit of iterations and set of blocks  *)
(* that fail.                                                              *)
(***************************************************************************)
EXTENDS PhasedMultiThreadInv, FiniteSetTheorems, FunctionTheorems, TLAPS

LEMMA FreshTypes ==
  /\ FreshForward \in ForwardState
  /\ FreshReverse \in ReverseState
  /\ "old" \in JunctionState
  /\ "old" \in RigorousState
  BY DEF FreshForward, FreshReverse, ForwardState, ReverseState,
         JunctionState, RigorousState

LEMMA InitTypeOK == Init => TypeOK
  <1> SUFFICES ASSUME Init PROVE TypeOK
    OBVIOUS
  <1>1. 0 \in Blocks
    BY BlockCountAssumption DEF Blocks
  <1>2. ThreadTypes
    BY <1>1 DEF Init, ThreadTypes, MainLabels, RunLabels, CmbLabels,
                WorkerLabels
  <1>3. FlagTypes /\ ErrorTypes
    BY DEF Init, FlagTypes, ErrorTypes
  <1>4. ResultTypes
    <2>1. 0 \in 0 .. MaxIterations
      BY MaxIterationsAssumption
    <2>2. QED
      BY <2>1 DEF Init, ResultTypes, Statuses
  <1>5. MatrixTypes
    BY FreshTypes DEF Init, MatrixTypes
  <1>6. HistoryTypes
    BY DEF Init, HistoryTypes
  <1>7. QueueTypeOK(Blocks \cup {Sentinel}, {Coordinator})
    BY DEF Init, QueueInit, QueueTypeOK
  <1>8. QED
    BY <1>2, <1>3, <1>4, <1>5, <1>6, <1>7 DEF TypeOK

LEMMA MainTypeOK == TypeOK /\ Main => TypeOK'
  <1> SUFFICES ASSUME TypeOK, Main PROVE TypeOK'
    OBVIOUS
  <1> USE BlockCountAssumption, MaxIterationsAssumption
      DEF TypeOK, ThreadTypes, FlagTypes, ErrorTypes, ResultTypes,
          MatrixTypes, HistoryTypes, QueueTypeOK, threadVars, flagVars,
          errorVars, resultVars, matrixVars, historyVars, queueVars
  <1>1. CASE StartIteration
    BY <1>1 DEF StartIteration, MainLabels, RunLabels, CmbLabels,
                reset_blocks_coming, Queued
  <1>2. CASE LeaveLoop
    BY <1>2 DEF LeaveLoop, MainLabels
  <1>3. CASE JoinThreads
    BY <1>3 DEF JoinThreads, MainLabels, Blocks
  <1>4. CASE UpdateBlock
    <2>0. mainBlock' \in Blocks
      BY <1>4 DEF UpdateBlock, Blocks
    <2>1. ThreadTypes'
      BY <1>4, <2>0 DEF UpdateBlock, MainLabels
    <2>2. [FreshReverse EXCEPT !.rows = reverse[mainBlock].rows]
            \in ReverseState
      BY DEF FreshReverse, ReverseState
    <2>3. "final" \in ForwardState
      BY DEF ForwardState
    <2>4. CASE UNCHANGED matrixVars
      BY <1>4, <2>1, <2>4 DEF UpdateBlock
    <2>5. CASE UpdateMatrices(mainBlock) /\ iterate
      <3>1. forward' \in [Blocks -> ForwardState]
        BY <2>5, FreshTypes DEF UpdateMatrices
      <3>2. reverse' \in [Blocks -> ReverseState]
        BY <2>5, <2>2 DEF UpdateMatrices
      <3>3. junctionsFwd' \in [Blocks -> JunctionState]
        BY <2>5, FreshTypes DEF UpdateMatrices
      <3>4. rigorous' \in [Blocks -> RigorousState]
        BY <2>5, FreshTypes DEF UpdateMatrices
      <3>5. QED
        BY <1>4, <2>1, <3>1, <3>2, <3>3, <3>4 DEF UpdateBlock
    <2>6. CASE UpdateMatrices(mainBlock) /\ ~iterate
      <3>1. forward' \in [Blocks -> ForwardState]
        BY <2>3, <2>6 DEF UpdateMatrices
      <3>2. UNCHANGED <<reverse, junctionsFwd, rigorous>>
        BY <2>6 DEF UpdateMatrices
      <3>3. QED
        BY <1>4, <2>1, <3>1, <3>2 DEF UpdateBlock
    <2>7. QED
      BY <1>4, <2>4, <2>5, <2>6 DEF UpdateBlock
  <1>5. CASE Finish
    BY <1>5 DEF Finish, MainLabels, Statuses
  <1>6. QED
    BY <1>1, <1>2, <1>3, <1>4, <1>5 DEF Main

(* A run never leaves the list of blocks.                                  *)
LEMMA NextBlockTypeOK ==
  ASSUME runBlock \in [Runs -> Blocks], runPc \in [Runs -> RunLabels],
         NEW run \in Runs, RunNextBlock(run)
  PROVE  runBlock' \in [Runs -> Blocks] /\ runPc' \in [Runs -> RunLabels]
  <1>1. CASE runBlock[run] = LastOfRun(run)
    BY <1>1 DEF RunNextBlock, RunGoto, RunLabels
  <1>2. CASE runBlock[run] # LastOfRun(run)
    <2> DEFINE next == IF run = "fwd" THEN runBlock[run] + 1
                                      ELSE runBlock[run] - 1
    <2>1. runBlock[run] \in Blocks
      OBVIOUS
    <2>2. next \in Blocks
      BY <1>2, <2>1, BlockCountAssumption DEF LastOfRun, Blocks
    <2>3. runBlock' = [runBlock EXCEPT ![run] = next]
      BY <1>2 DEF RunNextBlock
    <2>4. runPc' = [runPc EXCEPT ![run] = "check"]
      BY <1>2 DEF RunNextBlock, RunGoto
    <2> HIDE DEF next
    <2>5. QED
      BY <2>2, <2>3, <2>4 DEF RunLabels
  <1>3. QED
    BY <1>1, <1>2

LEMMA RunTypeOK ==
  ASSUME TypeOK, NEW run \in Runs,
         \/ StartRun(run) \/ CheckRun(run) \/ SolveFails(run)
         \/ SetAdjusted(run) \/ TestOther(run) \/ PushBlock(run)
         \/ FinishRun(run) \/ TestFinished(run) \/ ExhaustQueue(run)
         \/ HandlerTest(run) \/ HandlerPush(run)
  PROVE  TypeOK'
  <1> USE BlockCountAssumption
      DEF TypeOK, ThreadTypes, FlagTypes, ErrorTypes, ResultTypes,
          MatrixTypes, HistoryTypes, QueueTypeOK, threadVars, flagVars,
          errorVars, resultVars, matrixVars, historyVars, queueVars,
          RunGoto, RunLabels
  <1>0. ASSUME RunNextBlock(run)
        PROVE  runBlock' \in [Runs -> Blocks] /\ runPc' \in [Runs -> RunLabels]
    BY <1>0, NextBlockTypeOK
  <1>1. CASE StartRun(run)
    BY <1>1 DEF StartRun, FirstOfRun, Blocks
  <1>2. CASE CheckRun(run)
    BY <1>0, <1>2 DEF CheckRun
  <1>3. CASE SolveFails(run)
    BY <1>3 DEF SolveFails, Statuses
  <1>4. CASE SetAdjusted(run)
    BY <1>4 DEF SetAdjusted
  <1>5. CASE TestOther(run)
    BY <1>0, <1>5 DEF TestOther
  <1>6. CASE PushBlock(run)
    BY <1>0, <1>6 DEF PushBlock, push_and_notify
  <1>7. CASE FinishRun(run)
    BY <1>7 DEF FinishRun
  <1>8. CASE TestFinished(run)
    BY <1>8 DEF TestFinished, AfterExhaust
  <1>9. CASE ExhaustQueue(run)
    BY <1>9 DEF ExhaustQueue, AfterExhaust, queue_exhausted
  <1>10. CASE HandlerTest(run)
    BY <1>10 DEF HandlerTest, AfterFailure
  <1>11. CASE HandlerPush(run)
    BY <1>11 DEF HandlerPush, push_and_notify
  <1>12. QED
    BY <1>1, <1>2, <1>3, <1>4, <1>5, <1>6, <1>7, <1>8, <1>9, <1>10, <1>11

(* The updates of the reverse matrices of a block keep their types.        *)
LEMMA SolvedReverseType ==
  ASSUME reverse \in [Blocks -> ReverseState], NEW b \in Blocks
  PROVE  SolvedReverse(b) \in ReverseState
  BY DEF SolvedReverse, ReverseState

LEMMA CarriedReverseType ==
  ASSUME reverse \in [Blocks -> ReverseState], NEW b \in Blocks,
         CarriesReverse(b)
  PROVE  CarriedReverse(b) \in ReverseState
  <1> DEFINE good == /\ reverse[b].stations = "reverse"
                     /\ reverse[b].normals = "solved"
             normals == IF good /\ reverse[b - 1].normals = "formed"
                        THEN "carried" ELSE "spoiled"
             rows == reverse[b - 1].rows + 1
  <1>1. b - 1 \in Blocks
    BY BlockCountAssumption DEF CarriesReverse, BlockFirst, Blocks
  <1>2. reverse[b - 1] \in ReverseState
    BY <1>1
  <1>3. rows \in Int
    BY <1>2 DEF ReverseState
  <1>4. normals \in {"carried", "spoiled"}
    OBVIOUS
  <1>5. CarriedReverse(b) = [reverse[b - 1] EXCEPT
          !.stations = "original", !.normals = normals, !.rows = rows]
    BY DEF CarriedReverse
  <1> HIDE DEF normals, rows
  <1>6. QED
    BY <1>2, <1>3, <1>4, <1>5 DEF ReverseState

LEMMA PreparedReverseType ==
  ASSUME reverse \in [Blocks -> ReverseState], NEW b \in Blocks
  PROVE  PreparedReverse(b) \in ReverseState
  <1> DEFINE good == /\ reverse[b].backup = "carried"
                     /\ junctionsFwd[b - 1] = "good"
             normals == IF good THEN "restored" ELSE "spoiled"
             rows == IF RowsAvailable(b) THEN reverse[b].rows + 1
                                         ELSE reverse[b].rows
  <1>1. reverse[b] \in ReverseState
    OBVIOUS
  <1>2. reverse[b].rows \in Int
    BY <1>1 DEF ReverseState
  <1>3. rows \in Int
    BY <1>2
  <1>4. normals \in {"restored", "spoiled"}
    OBVIOUS
  <1>5. PreparedReverse(b) = [reverse[b] EXCEPT
          !.stations = "original", !.normals = normals, !.rows = rows]
    BY DEF PreparedReverse
  <1> HIDE DEF normals, rows
  <1>6. QED
    BY <1>1, <1>3, <1>4, <1>5 DEF ReverseState

LEMMA CombinedReverseType ==
  ASSUME reverse \in [Blocks -> ReverseState], NEW b \in Blocks,
         NEW sets \in Int
  PROVE  CombinedReverse(b, sets) \in ReverseState
  <1> DEFINE good == /\ reverse[b].normals = "combined"
                     /\ reverse[b].stations = "original"
             stations == IF good THEN "combined" ELSE "spoiled"
             rows == reverse[b].rows - sets
  <1>1. reverse[b] \in ReverseState
    OBVIOUS
  <1>2. rows \in Int
    BY <1>1 DEF ReverseState
  <1>3. stations \in {"combined", "spoiled"}
    OBVIOUS
  <1>4. CombinedReverse(b, sets) =
          [reverse[b] EXCEPT !.stations = stations, !.rows = rows]
    BY DEF CombinedReverse
  <1> HIDE DEF stations, rows
  <1>5. QED
    BY <1>1, <1>2, <1>3, <1>4 DEF ReverseState

LEMMA ForwardTypeOK == TypeOK /\ Forward => TypeOK'
  <1> SUFFICES ASSUME TypeOK, Forward PROVE TypeOK'
    OBVIOUS
  <1> USE DEF TypeOK, ThreadTypes, FlagTypes, ErrorTypes, ResultTypes,
          MatrixTypes, HistoryTypes, QueueTypeOK, threadVars, flagVars,
          errorVars, resultVars, matrixVars, historyVars, queueVars,
          RunGoto, RunLabels
  <1>0. "fwd" \in Runs
    BY DEF Runs
  <1>1. CASE SolveForward
    BY <1>1 DEF SolveForward, ForwardState
  <1>2. CASE UpdateForward
    BY <1>2 DEF UpdateForward, ForwardState, RigorousState
  <1>3. CASE CarryForward
    <2>1. ThreadTypes'
      BY <1>0, <1>3, NextBlockTypeOK DEF CarryForward
    <2>2. MatrixTypes'
      BY <1>3 DEF CarryForward, ForwardState, JunctionState
    <2>3. QED
      BY <1>3, <2>1, <2>2 DEF CarryForward
  <1>4. CASE NotifyAll
    BY <1>4 DEF NotifyAll, notify_all
  <1>5. QED
    BY <1>0, <1>1, <1>2, <1>3, <1>4, RunTypeOK DEF Forward

LEMMA ReverseTypeOK == TypeOK /\ Reverse => TypeOK'
  <1> SUFFICES ASSUME TypeOK, Reverse PROVE TypeOK'
    OBVIOUS
  <1> USE DEF TypeOK, ThreadTypes, FlagTypes, ErrorTypes, ResultTypes,
          MatrixTypes, HistoryTypes, QueueTypeOK, threadVars, flagVars,
          errorVars, resultVars, matrixVars, historyVars, queueVars,
          RunGoto, RunLabels
  <1>0. "rev" \in Runs
    BY DEF Runs
  <1>1. CASE SolveReverse
    <2>1. reverse' \in [Blocks -> ReverseState]
      BY <1>1, SolvedReverseType DEF SolveReverse
    <2>2. QED
      BY <1>1, <2>1 DEF SolveReverse
  <1>2. CASE UpdateReverse
    <2>1. reverse' \in [Blocks -> ReverseState]
      <3>1. CASE UNCHANGED reverse
        BY <3>1
      <3>2. ASSUME NEW s \in {"reverse", "spoiled"},
                   reverse' = [reverse EXCEPT ![runBlock["rev"]].stations = s]
            PROVE  reverse' \in [Blocks -> ReverseState]
        BY <1>0, <3>2 DEF ReverseState
      <3>3. QED
        BY <1>2, <3>1, <3>2 DEF UpdateReverse
    <2>2. QED
      BY <1>2, <2>1 DEF UpdateReverse
  <1>3. CASE CarryReverse
    <2>1. reverse' \in [Blocks -> ReverseState]
      <3> DEFINE b == runBlock["rev"]
      <3>1. b \in Blocks
        BY <1>0
      <3>2. CASE CarriesReverse(b)
        <4>1. CarriedReverse(b) \in ReverseState
          BY <3>1, <3>2, CarriedReverseType
        <4>2. reverse' = [reverse EXCEPT ![b - 1] = CarriedReverse(b)]
          BY <1>3, <3>2 DEF CarryReverse
        <4>3. QED
          BY <4>1, <4>2
      <3>3. CASE ~CarriesReverse(b)
        BY <1>3, <3>3 DEF CarryReverse
      <3>4. QED
        BY <3>2, <3>3
    <2>2. ThreadTypes'
      BY <1>0, <1>3, NextBlockTypeOK DEF CarryReverse
    <2>3. QED
      BY <1>3, <2>1, <2>2 DEF CarryReverse
  <1>4. CASE FinalReverse
    <2>1. reverse' \in [Blocks -> ReverseState]
      <3> DEFINE rows == reverse[runBlock["rev"]].rows - 1
      <3>1. reverse[runBlock["rev"]] \in ReverseState
        BY <1>0
      <3>2. rows \in Int
        BY <3>1 DEF ReverseState
      <3>3. reverse' = [reverse EXCEPT ![runBlock["rev"]].rows = rows]
        BY <1>4 DEF FinalReverse
      <3> HIDE DEF rows
      <3>4. QED
        BY <3>1, <3>2, <3>3 DEF ReverseState
    <2>2. ThreadTypes'
      BY <1>0, <1>4, NextBlockTypeOK DEF FinalReverse
    <2>3. forward' \in [Blocks -> ForwardState]
            /\ rigorous' \in [Blocks -> RigorousState]
      BY <1>4 DEF FinalReverse, UpdateEstimatesFinal, ForwardState,
                  RigorousState
    <2>4. QED
      BY <1>4, <2>1, <2>2, <2>3 DEF FinalReverse
  <1>5. QED
    BY <1>0, <1>1, <1>2, <1>3, <1>4, RunTypeOK DEF Reverse

LEMMA CombineTypeOK == TypeOK /\ (CombineThread \/ SpuriousWakeup) => TypeOK'
  <1> SUFFICES ASSUME TypeOK, CombineThread \/ SpuriousWakeup PROVE TypeOK'
    OBVIOUS
  <1> USE DEF TypeOK, ThreadTypes, FlagTypes, ErrorTypes, ResultTypes,
          MatrixTypes, HistoryTypes, QueueTypeOK, threadVars, flagVars,
          errorVars, resultVars, matrixVars, historyVars, queueVars,
          CmbLabels
  <1>1. CASE WaitForBlock
    BY <1>1 DEF WaitForBlock, sleep_on_empty
  <1>2. CASE SpuriousWakeup
    BY <1>2 DEF SpuriousWakeup, spurious_wakeup
  <1>3. CASE StartWorkers
    BY <1>3 DEF StartWorkers, WorkerLabels
  <1>4. CASE JoinWorkers
    BY <1>4 DEF JoinWorkers
  <1>5. QED
    BY <1>1, <1>2, <1>3, <1>4 DEF CombineThread

LEMMA WorkerTypeOK ==
  ASSUME TypeOK, NEW w \in Workers, Worker(w)
  PROVE  TypeOK'
  <1> USE DEF TypeOK, ThreadTypes, FlagTypes, ErrorTypes, ResultTypes,
          MatrixTypes, HistoryTypes, QueueTypeOK, threadVars, flagVars,
          errorVars, resultVars, matrixVars, historyVars, queueVars,
          WorkerGoto, WorkerLabels
  <1>1. CASE WorkerTop(w)
    BY <1>1 DEF WorkerTop
  <1>2. CASE WorkerMore(w)
    BY <1>2 DEF WorkerMore, AfterFlag
  <1>3. CASE WorkerEmpty(w)
    BY <1>3 DEF WorkerEmpty
  <1>4. CASE WorkerErrors(w)
    BY <1>4 DEF WorkerErrors, AfterFailure
  <1>5. CASE WorkerSentinel(w)
    BY <1>5 DEF WorkerSentinel, push_and_notify
  <1>6. CASE WorkerPop(w)
    <2>1. the_queue' \in Seq(Blocks \cup {Sentinel})
      <3>1. ASSUME the_queue # <<>> PROVE Tail(the_queue) \in Seq(Blocks \cup {Sentinel})
        BY <3>1
      <3>2. QED
        BY <1>6, <3>1 DEF WorkerPop, front_and_pop, is_empty
    <2>2. ThreadTypes'
      BY <1>6 DEF WorkerPop
    <2>3. QED
      BY <1>6, <2>1, <2>2 DEF WorkerPop, front_and_pop
  <1>7. CASE WorkerPrepare(w)
    <2>1. reverse' \in [Blocks -> ReverseState]
      BY <1>7, PreparedReverseType DEF WorkerPrepare
    <2>2. workerRows' \in [Workers -> Int]
      BY <1>7 DEF WorkerPrepare, ReverseState
    <2>3. workerPc' \in [Workers -> WorkerLabels]
            /\ workerError' \in [Workers -> BOOLEAN]
      BY <1>7 DEF WorkerPrepare, WorkerThrows
    <2>4. QED
      BY <1>7, <2>1, <2>2, <2>3 DEF WorkerPrepare
  <1>8. CASE WorkerSolve(w)
    <2>1. reverse' \in [Blocks -> ReverseState]
      <3>1. CASE UNCHANGED reverse
        BY <3>1
      <3>2. ASSUME NEW n \in {"combined", "spoiled"},
                   reverse' = [reverse EXCEPT ![workerBlock[w]].normals = n]
            PROVE  reverse' \in [Blocks -> ReverseState]
        BY <3>2 DEF ReverseState
      <3>3. QED
        BY <1>8, <3>1, <3>2 DEF WorkerSolve
    <2>2. workerPc' \in [Workers -> WorkerLabels]
            /\ workerError' \in [Workers -> BOOLEAN]
            /\ status' \in Statuses
      BY <1>8 DEF WorkerSolve, WorkerThrows, Statuses
    <2>3. QED
      BY <1>8, <2>1, <2>2 DEF WorkerSolve
  <1>9. CASE WorkerCombine(w)
    <2>1. reverse' \in [Blocks -> ReverseState]
      BY <1>9, CombinedReverseType DEF WorkerCombine, ShrinkBy
    <2>2. QED
      BY <1>9, <2>1 DEF WorkerCombine
  <1>10. CASE WorkerFinal(w)
    BY <1>10 DEF WorkerFinal, UpdateEstimatesFinal, ForwardState,
                 RigorousState
  <1>11. QED
    BY <1>1, <1>2, <1>3, <1>4, <1>5, <1>6, <1>7, <1>8, <1>9, <1>10
    DEF Worker

LEMMA NextTypeOK == TypeOK /\ [Next]_vars => TypeOK'
  <1> SUFFICES ASSUME TypeOK, [Next]_vars PROVE TypeOK'
    OBVIOUS
  <1> USE DEF TypeOK, ThreadTypes, FlagTypes, ErrorTypes, ResultTypes,
          MatrixTypes, HistoryTypes, QueueTypeOK, threadVars, flagVars,
          errorVars, resultVars, matrixVars, historyVars, queueVars
  <1>1. CASE CancelAdjustment
    BY <1>1 DEF CancelAdjustment
  <1>2. CASE UNCHANGED vars
    BY <1>2 DEF vars
  <1>3. CASE Terminated
    BY <1>2, <1>3 DEF Terminated
  <1>4. QED
    BY <1>1, <1>2, <1>3, MainTypeOK, ForwardTypeOK, ReverseTypeOK,
       CombineTypeOK, WorkerTypeOK DEF Next

(* Every variable keeps its type, whatever the segmentation, the number of *)
(* workers and the blocks that fail.                                       *)
THEOREM TypeCorrect == Spec => []TypeOK
  <1>1. Init => TypeOK
    BY InitTypeOK
  <1>2. TypeOK /\ [Next]_vars => TypeOK'
    BY NextTypeOK
  <1>3. QED
    BY <1>1, <1>2, PTL DEF Spec

-----------------------------------------------------------------------------
(* The protocol between the runs, the coordinator, the workers and the     *)
(* main thread: no block is forgotten, only adjusted inner blocks are      *)
(* combined, and no failure is lost.                                       *)

(* Only the actions of a run at "set", "test" or "push" concern a block    *)
(* that both runs have adjusted; every other step leaves it as it is.      *)
LEMMA NoLostBlockFrame ==
  ASSUME NoLostBlock, UNCHANGED <<adjusted, pushes>>,
         \A run \in Runs : runPc[run] \in {"test", "push"} =>
                             /\ runPc'[run] = runPc[run]
                             /\ runBlock'[run] = runBlock[run]
  PROVE  NoLostBlock'
  BY DEF NoLostBlock, BothAdjusted

LEMMA NoLostBlockRun ==
  ASSUME TypeOK, NoLostBlock, NEW run \in Runs,
         \/ StartRun(run) \/ CheckRun(run) \/ SolveFails(run)
         \/ SetAdjusted(run) \/ TestOther(run) \/ PushBlock(run)
         \/ FinishRun(run) \/ TestFinished(run) \/ ExhaustQueue(run)
         \/ HandlerTest(run) \/ HandlerPush(run)
  PROVE  NoLostBlock'
  <1> USE DEF TypeOK, ThreadTypes, FlagTypes, HistoryTypes, RunGoto
  <1>1. CASE SetAdjusted(run)
    BY <1>1 DEF SetAdjusted, historyVars, NoLostBlock, BothAdjusted, Runs
  <1>2. CASE TestOther(run)
    BY <1>2 DEF TestOther, BlockReady, RunNextBlock, flagVars, historyVars,
                NoLostBlock, BothAdjusted, Runs, Other
  <1>3. CASE PushBlock(run)
    BY <1>3 DEF PushBlock, RunNextBlock, flagVars, NoLostBlock, BothAdjusted
  <1>4. CASE StartRun(run) \/ CheckRun(run) \/ SolveFails(run)
    BY <1>4, NoLostBlockFrame
    DEF StartRun, CheckRun, SolveFails, RunNextBlock, flagVars, historyVars
  <1>5. CASE FinishRun(run) \/ TestFinished(run) \/ ExhaustQueue(run)
               \/ HandlerTest(run) \/ HandlerPush(run)
    BY <1>5, NoLostBlockFrame
    DEF FinishRun, TestFinished, ExhaustQueue, HandlerTest, HandlerPush,
        flagVars, historyVars
  <1>6. QED
    BY <1>1, <1>2, <1>3, <1>4, <1>5

LEMMA NoLostBlockStep == TypeOK /\ NoLostBlock /\ [Next]_vars => NoLostBlock'
  <1> SUFFICES ASSUME TypeOK, NoLostBlock, [Next]_vars PROVE NoLostBlock'
    OBVIOUS
  <1> USE DEF TypeOK, ThreadTypes, flagVars, historyVars, threadVars
  <1>1. CASE Main
    <2>1. CASE StartIteration
      BY <2>1 DEF StartIteration, NoLostBlock, BothAdjusted, Runs
    <2>2. CASE LeaveLoop \/ JoinThreads \/ UpdateBlock \/ Finish
      BY <2>2, NoLostBlockFrame DEF LeaveLoop, JoinThreads, UpdateBlock, Finish
    <2>3. QED
      BY <1>1, <2>1, <2>2 DEF Main
  <1>2. CASE Forward
    <2>1. CASE SolveForward \/ UpdateForward \/ CarryForward \/ NotifyAll
      BY <2>1, NoLostBlockFrame
      DEF SolveForward, UpdateForward, CarryForward, NotifyAll, RunGoto,
          RunNextBlock, Runs
    <2>2. QED
      BY <1>2, <2>1, NoLostBlockRun DEF Forward, Runs
  <1>3. CASE Reverse
    <2>1. CASE SolveReverse \/ UpdateReverse \/ CarryReverse \/ FinalReverse
      BY <2>1, NoLostBlockFrame
      DEF SolveReverse, UpdateReverse, CarryReverse, FinalReverse, RunGoto,
          RunNextBlock, Runs
    <2>2. QED
      BY <1>3, <2>1, NoLostBlockRun DEF Reverse, Runs
  <1>4. CASE CombineThread \/ SpuriousWakeup
    BY <1>4, NoLostBlockFrame
    DEF CombineThread, WaitForBlock, StartWorkers, JoinWorkers,
        SpuriousWakeup
  <1>5. ASSUME NEW w \in Workers, Worker(w) PROVE NoLostBlock'
    BY <1>5, NoLostBlockFrame
    DEF Worker, WorkerTop, WorkerMore, WorkerEmpty, WorkerErrors,
        WorkerSentinel, WorkerPop, WorkerPrepare, WorkerSolve, WorkerCombine,
        WorkerFinal
  <1>6. CASE CancelAdjustment \/ Terminated \/ UNCHANGED vars
    BY <1>6, NoLostBlockFrame DEF CancelAdjustment, Terminated, vars
  <1>7. QED
    BY <1>1, <1>2, <1>3, <1>4, <1>5, <1>6 DEF Next

(* No block that both runs have adjusted is ever forgotten, although each  *)
(* run sets its own flag and reads the other's in two critical sections    *)
(* (adjust_forward_thread and adjust_reverse_thread).                      *)
THEOREM NoBlockIsLost == Spec => []NoLostBlock
  <1>1. Init => NoLostBlock
    BY DEF Init, NoLostBlock, BothAdjusted, Runs
  <1>2. QED
    BY <1>1, NoLostBlockStep, TypeCorrect, PTL DEF Spec

-----------------------------------------------------------------------------
(* ProtocolInv, one lemma for each kind of thread. *)

(* What the operations of the queue do to the set of what is queued.       *)
LEMMA QueuedAfterPush ==
  ASSUME NEW S, the_queue \in Seq(S), NEW x \in S,
         the_queue' = Append(the_queue, x)
  PROVE  Queued' \subseteq Queued \cup {x}
  BY DEF Queued

LEMMA QueuedAfterPop ==
  ASSUME NEW S, the_queue \in Seq(S), NEW x, front_and_pop(x)
  PROVE  x \in Queued /\ Queued' \subseteq Queued
  <1>1. the_queue # <<>> /\ x = Head(the_queue) /\ the_queue' = Tail(the_queue)
    BY DEF front_and_pop, is_empty
  <1>2. Len(the_queue) \in Nat /\ Len(the_queue) > 0
    BY <1>1
  <1>3. x = the_queue[1] /\ 1 \in DOMAIN the_queue
    BY <1>1, <1>2
  <1>4. \A i \in DOMAIN the_queue' :
          the_queue'[i] = the_queue[i + 1] /\ i + 1 \in DOMAIN the_queue
    BY <1>1, <1>2
  <1>5. QED
    BY <1>3, <1>4 DEF Queued

LEMMA MainProtocol == TypeOK /\ ProtocolInv /\ Main => ProtocolInv'
  <1> SUFFICES ASSUME TypeOK, ProtocolInv, Main PROVE ProtocolInv'
    OBVIOUS
  <1> USE DEF TypeOK, ThreadTypes, ErrorTypes, ProtocolInv, Quiet,
          FailuresKept, RunsMark, QueueCorrect, WorkersCorrect, Combinable,
          Combining, Failing, BothAdjusted, flagVars, errorVars, resultVars,
          historyVars, queueVars, Queued
  <1>1. CASE StartIteration
    BY <1>1 DEF StartIteration, reset_blocks_coming
  <1>2. CASE LeaveLoop
    BY <1>2 DEF LeaveLoop
  <1>3. CASE JoinThreads
    BY <1>3 DEF JoinThreads, ThreadsFinished, ErrorToRethrow, Runs
  <1>4. CASE UpdateBlock
    BY <1>4 DEF UpdateBlock
  <1>5. CASE Finish
    BY <1>5 DEF Finish
  <1>6. QED
    BY <1>1, <1>2, <1>3, <1>4, <1>5 DEF Main

LEMMA RunProtocol ==
  ASSUME TypeOK, ProtocolInv, NEW run \in Runs,
         \/ StartRun(run) \/ CheckRun(run) \/ SolveFails(run)
         \/ SetAdjusted(run) \/ TestOther(run) \/ PushBlock(run)
         \/ FinishRun(run) \/ TestFinished(run) \/ ExhaustQueue(run)
         \/ HandlerTest(run) \/ HandlerPush(run)
  PROVE  ProtocolInv'
  <1> USE DEF TypeOK, ThreadTypes, ErrorTypes, FlagTypes, ProtocolInv, Quiet,
          FailuresKept, RunsMark, QueueCorrect, WorkersCorrect, Combinable,
          Combining, Failing, BothAdjusted, flagVars, errorVars, resultVars,
          historyVars, queueVars, Queued, RunGoto, RunNextBlock
  <1>1. CASE StartRun(run)
    BY <1>1 DEF StartRun
  <1>2. CASE CheckRun(run)
    BY <1>2 DEF CheckRun
  <1>3. CASE SolveFails(run)
    BY <1>3 DEF SolveFails
  <1>4. CASE SetAdjusted(run)
    BY <1>4 DEF SetAdjusted
  <1>5. CASE TestOther(run)
    BY <1>5 DEF TestOther, BlockReady, Runs, Other
  <1>6. CASE PushBlock(run)
    <2>1. Combinable(runBlock[run])
      BY <1>6 DEF PushBlock
    <2>2. Queued' \subseteq Queued \cup {runBlock[run]}
      BY <1>6, QueuedAfterPush DEF PushBlock, push_and_notify, QueueTypeOK
    <2> HIDE DEF Queued
    <2>3. QED
      BY <1>6, <2>1, <2>2 DEF PushBlock, push_and_notify
  <1>7. CASE FinishRun(run)
    BY <1>7 DEF FinishRun
  <1>8. CASE TestFinished(run)
    BY <1>8 DEF TestFinished, AfterExhaust
  <1>9. CASE ExhaustQueue(run)
    BY <1>9 DEF ExhaustQueue, AfterExhaust, queue_exhausted
  <1>10. CASE HandlerTest(run)
    BY <1>10 DEF HandlerTest, AfterFailure
  <1>11. CASE HandlerPush(run)
    BY <1>11 DEF HandlerPush, push_and_notify
  <1>12. QED
    BY <1>1, <1>2, <1>3, <1>4, <1>5, <1>6, <1>7, <1>8, <1>9, <1>10, <1>11

LEMMA ForwardProtocol == TypeOK /\ ProtocolInv /\ Forward => ProtocolInv'
  <1> SUFFICES ASSUME TypeOK, ProtocolInv, Forward PROVE ProtocolInv'
    OBVIOUS
  <1> USE DEF TypeOK, ThreadTypes, ErrorTypes, FlagTypes, ProtocolInv, Quiet,
          FailuresKept, RunsMark, QueueCorrect, WorkersCorrect, Combinable,
          Combining, Failing, BothAdjusted, flagVars, errorVars, resultVars,
          historyVars, queueVars, Queued, RunGoto, RunNextBlock, Runs
  <1>1. CASE SolveForward
    BY <1>1 DEF SolveForward
  <1>2. CASE UpdateForward
    BY <1>2 DEF UpdateForward
  <1>3. CASE CarryForward
    BY <1>3 DEF CarryForward
  <1>4. CASE NotifyAll
    BY <1>4 DEF NotifyAll, notify_all
  <1>5. QED
    BY <1>1, <1>2, <1>3, <1>4, RunProtocol DEF Forward

LEMMA ReverseProtocol == TypeOK /\ ProtocolInv /\ Reverse => ProtocolInv'
  <1> SUFFICES ASSUME TypeOK, ProtocolInv, Reverse PROVE ProtocolInv'
    OBVIOUS
  <1> USE DEF TypeOK, ThreadTypes, ErrorTypes, FlagTypes, ProtocolInv, Quiet,
          FailuresKept, RunsMark, QueueCorrect, WorkersCorrect, Combinable,
          Combining, Failing, BothAdjusted, flagVars, errorVars, resultVars,
          historyVars, queueVars, Queued, RunGoto, RunNextBlock, Runs
  <1>1. CASE SolveReverse
    BY <1>1 DEF SolveReverse
  <1>2. CASE UpdateReverse
    BY <1>2 DEF UpdateReverse
  <1>3. CASE CarryReverse
    BY <1>3 DEF CarryReverse
  <1>4. CASE FinalReverse
    BY <1>4 DEF FinalReverse
  <1>5. QED
    BY <1>1, <1>2, <1>3, <1>4, RunProtocol DEF Reverse

LEMMA CombineProtocol ==
  TypeOK /\ ProtocolInv /\ (CombineThread \/ SpuriousWakeup) => ProtocolInv'
  <1> SUFFICES ASSUME TypeOK, ProtocolInv, CombineThread \/ SpuriousWakeup
               PROVE  ProtocolInv'
    OBVIOUS
  <1> USE DEF TypeOK, ThreadTypes, ErrorTypes, FlagTypes, ProtocolInv, Quiet,
          FailuresKept, RunsMark, QueueCorrect, WorkersCorrect, Combinable,
          Combining, Failing, BothAdjusted, threadVars, flagVars, errorVars,
          resultVars, historyVars, queueVars, Queued
  <1>1. CASE WaitForBlock
    BY <1>1 DEF WaitForBlock, sleep_on_empty
  <1>2. CASE SpuriousWakeup
    BY <1>2 DEF SpuriousWakeup, spurious_wakeup
  <1>3. CASE StartWorkers
    BY <1>3 DEF StartWorkers
  <1>4. CASE JoinWorkers
    BY <1>4 DEF JoinWorkers
  <1>5. QED
    BY <1>1, <1>2, <1>3, <1>4 DEF CombineThread

LEMMA WorkerProtocol ==
  ASSUME TypeOK, ProtocolInv, NEW w \in Workers, Worker(w)
  PROVE  ProtocolInv'
  <1> USE DEF TypeOK, ThreadTypes, ErrorTypes, FlagTypes, ProtocolInv, Quiet,
          FailuresKept, RunsMark, QueueCorrect, WorkersCorrect, Combinable,
          Combining, Failing, BothAdjusted, flagVars, errorVars, resultVars,
          historyVars, queueVars, Queued, WorkerGoto
  <1>1. CASE WorkerTop(w)
    BY <1>1 DEF WorkerTop
  <1>2. CASE WorkerMore(w)
    BY <1>2 DEF WorkerMore, AfterFlag
  <1>3. CASE WorkerEmpty(w)
    BY <1>3 DEF WorkerEmpty
  <1>4. CASE WorkerErrors(w)
    BY <1>4 DEF WorkerErrors, AfterFailure, CombineExceptionThrown
  <1>5. CASE WorkerSentinel(w)
    BY <1>5 DEF WorkerSentinel, push_and_notify
  <1>6. CASE WorkerPop(w)
    <2>1. CASE is_empty /\ WorkerGoto(w, "top")
                 /\ UNCHANGED <<workerBlock, queueVars>>
      BY <1>6, <2>1 DEF WorkerPop
    <2>2. ASSUME NEW value \in Blocks \cup {Sentinel}, front_and_pop(value),
                 workerBlock' = [workerBlock EXCEPT ![w] = value],
                 WorkerGoto(w, "recheck")
          PROVE  ProtocolInv'
      <3>1. value \in Queued /\ Queued' \subseteq Queued
        BY <2>2, QueuedAfterPop DEF QueueTypeOK
      <3> HIDE DEF Queued
      <3>2. QED
        BY <1>6, <2>2, <3>1 DEF WorkerPop
    <2>3. QED
      BY <1>6, <2>1, <2>2 DEF WorkerPop
  <1>7. CASE WorkerPrepare(w)
    BY <1>7 DEF WorkerPrepare, WorkerThrows
  <1>8. CASE WorkerSolve(w)
    BY <1>8 DEF WorkerSolve, WorkerThrows
  <1>9. CASE WorkerCombine(w)
    BY <1>9 DEF WorkerCombine
  <1>10. CASE WorkerFinal(w)
    BY <1>10 DEF WorkerFinal
  <1>11. QED
    BY <1>1, <1>2, <1>3, <1>4, <1>5, <1>6, <1>7, <1>8, <1>9, <1>10
    DEF Worker

LEMMA ProtocolStep == TypeOK /\ ProtocolInv /\ [Next]_vars => ProtocolInv'
  <1> SUFFICES ASSUME TypeOK, ProtocolInv, [Next]_vars PROVE ProtocolInv'
    OBVIOUS
  <1> USE DEF ProtocolInv, Quiet,
          FailuresKept, RunsMark, QueueCorrect, WorkersCorrect, Combinable,
          Combining, Failing, BothAdjusted, threadVars, flagVars, errorVars,
          resultVars, historyVars, queueVars, Queued
  <1>1. CASE CancelAdjustment
    BY <1>1 DEF CancelAdjustment
  <1>2. CASE UNCHANGED vars
    BY <1>2 DEF vars
  <1>3. CASE Terminated
    BY <1>2, <1>3 DEF Terminated
  <1>4. QED
    BY <1>1, <1>2, <1>3, MainProtocol, ForwardProtocol, ReverseProtocol,
       CombineProtocol, WorkerProtocol DEF Next

LEMMA ProtocolInit == Init => ProtocolInv
  BY DEF Init, QueueInit, ProtocolInv, Quiet, FailuresKept, RunsMark,
         QueueCorrect, WorkersCorrect, Combining, Failing, Queued

(* What each position of a thread implies about flags, exceptions and the  *)
(* queue, for every segmentation and every number of workers.              *)
THEOREM ProtocolCorrect == Spec => []ProtocolInv
  <1>1. QED
    BY ProtocolInit, ProtocolStep, TypeCorrect, PTL DEF Spec

(* Only inner blocks that both runs have adjusted are ever combined; the   *)
(* value 99999999 reaches no matrix (adjust_process_combine_thread).       *)
THEOREM OnlyAdjustedCombined == Spec => []CombineOnlyAdjusted
  <1>1. ProtocolInv => CombineOnlyAdjusted
    BY SentinelAssumption
    DEF ProtocolInv, WorkersCorrect, Combinable, CombineOnlyAdjusted
  <1>2. QED
    BY <1>1, ProtocolCorrect, PTL

(* No exception of any thread is swallowed (AdjustPhasedMultiThread).      *)
THEOREM NoFailureIsSwallowed == Spec => []FailureIsRethrown
  <1>1. ProtocolInv => FailureIsRethrown
    BY DEF ProtocolInv, FailuresKept, Failing, FailureIsRethrown
  <1>2. QED
    BY <1>1, ProtocolCorrect, PTL

-----------------------------------------------------------------------------
(* The rows of junction pseudo-measurements in the R matrices stay within  *)
(* the memory allocated for them, whatever is queued twice.                *)

(* Counting the entries of the queue and the workers that have a block.    *)

LEMMA PlacesFinite ==
  ASSUME TypeOK, NEW b
  PROVE  IsFiniteSet(Places(b)) /\ Cardinality(Places(b)) \in Nat
  <1>1. Len(the_queue) \in Nat
    BY DEF TypeOK, QueueTypeOK
  <1>2. IsFiniteSet(1 .. Len(the_queue))
    BY <1>1, FS_Interval
  <1>3. QED
    BY <1>2, FS_Subset, FS_CardinalityType DEF Places

LEMMA HoldersFinite ==
  ASSUME NEW b
  PROVE  IsFiniteSet(Holders(b)) /\ Cardinality(Holders(b)) \in Nat
  BY WorkersAssumption, FS_Subset, FS_CardinalityType DEF Holders

LEMMA CountPush ==
  ASSUME TypeOK, NEW b, NEW x \in Blocks \cup {Sentinel},
         the_queue' = Append(the_queue, x)
  PROVE  Cardinality(Places(b)') =
           Cardinality(Places(b)) + (IF x = b THEN 1 ELSE 0)
  <1> DEFINE n == Len(the_queue) + 1
  <1>1. the_queue \in Seq(Blocks \cup {Sentinel})
    BY DEF TypeOK, QueueTypeOK
  <1>2. n \in Nat /\ Len(the_queue') = n /\ the_queue'[n] = x
    BY <1>1
  <1>3. \A i \in 1 .. Len(the_queue) : the_queue'[i] = the_queue[i]
    BY <1>1
  <1>4. 1 .. Len(the_queue') = (1 .. Len(the_queue)) \cup {n}
    BY <1>1, <1>2
  <1>5. n \notin 1 .. Len(the_queue)
    BY <1>1
  <1> HIDE DEF n
  <1>6. IsFiniteSet(Places(b)) /\ Cardinality(Places(b)) \in Nat
    BY PlacesFinite
  <1>7. CASE x = b
    <2>1. Places(b)' = Places(b) \cup {n} /\ n \notin Places(b)
      BY <1>2, <1>3, <1>4, <1>5, <1>7 DEF Places
    <2>2. QED
      BY <1>6, <1>7, <2>1, FS_AddElement
  <1>8. CASE x # b
    <2>1. Places(b)' = Places(b)
      BY <1>2, <1>3, <1>4, <1>5, <1>8 DEF Places
    <2>2. QED
      BY <1>6, <1>8, <2>1
  <1>9. QED
    BY <1>7, <1>8

LEMMA CountPop ==
  ASSUME TypeOK, NEW b, NEW x, front_and_pop(x)
  PROVE  Cardinality(Places(b)') =
           Cardinality(Places(b)) - (IF x = b THEN 1 ELSE 0)
  <1> DEFINE rest == Places(b) \ {1}
             shift == [i \in Places(b)' |-> i + 1]
  <1>1. the_queue \in Seq(Blocks \cup {Sentinel})
    BY DEF TypeOK, QueueTypeOK
  <1>2. the_queue # <<>> /\ x = Head(the_queue) /\ the_queue' = Tail(the_queue)
    BY DEF front_and_pop, is_empty
  <1>3. Len(the_queue) \in Nat \ {0} /\ Len(the_queue') = Len(the_queue) - 1
    BY <1>1, <1>2
  <1>4. x = the_queue[1]
    BY <1>1, <1>2
  <1>5. \A i \in 1 .. Len(the_queue') : the_queue'[i] = the_queue[i + 1]
    BY <1>1, <1>2
  <1>6. IsFiniteSet(Places(b)) /\ Cardinality(Places(b)) \in Nat
    BY PlacesFinite
  <1>7. IsFiniteSet(Places(b)')
    <2>1. IsFiniteSet(1 .. Len(the_queue'))
      BY <1>3, FS_Interval
    <2>2. QED
      BY <2>1, FS_Subset DEF Places
  <1>8. Cardinality(rest) = Cardinality(Places(b)')
    <2>1. shift \in Bijection(Places(b)', rest)
      <3>1. \A i \in Places(b)' : i + 1 \in rest
        BY <1>3, <1>5 DEF Places
      <3>2. \A j \in rest : j - 1 \in Places(b)' /\ (j - 1) + 1 = j
        BY <1>3, <1>5 DEF Places
      <3>3. \A i \in Places(b)' : i \in Nat
        BY <1>3 DEF Places
      <3>4. shift \in [Places(b)' -> rest]
        BY <3>1
      <3>5. \A i, j \in Places(b)' : shift[i] = shift[j] => i = j
        BY <3>3
      <3>6. \A j \in rest : \E i \in Places(b)' : shift[i] = j
        BY <3>2
      <3> HIDE DEF shift, rest
      <3>7. QED
        BY <3>4, <3>5, <3>6, Fun_IsBij
    <2>2. ExistsBijection(Places(b)', rest)
      BY <2>1 DEF ExistsBijection
    <2>3. QED
      BY <1>7, <2>2, FS_Bijection
  <1>9. 1 \in Places(b) <=> x = b
    BY <1>3, <1>4 DEF Places
  <1>10. QED
    BY <1>6, <1>8, <1>9, FS_RemoveElement
-----------------------------------------------------------------------------
(* Steps that are not a run's and do not start an iteration.               *)

Aside ==
    \/ LeaveLoop \/ JoinThreads \/ UpdateBlock \/ Finish
    \/ CombineThread \/ SpuriousWakeup
    \/ \E w \in Workers : Worker(w)
    \/ CancelAdjustment
    \/ UNCHANGED vars

RunStep(run) ==
    \/ StartRun(run) \/ CheckRun(run) \/ SolveFails(run)
    \/ SetAdjusted(run) \/ TestOther(run) \/ PushBlock(run)
    \/ FinishRun(run) \/ TestFinished(run) \/ ExhaustQueue(run)
    \/ HandlerTest(run) \/ HandlerPush(run)
    \/ run = "fwd" /\ (SolveForward \/ UpdateForward \/ CarryForward \/ NotifyAll)
    \/ run = "rev" /\ (SolveReverse \/ UpdateReverse \/ CarryReverse \/ FinalReverse)

LEMMA StepCases ==
  [Next]_vars => StartIteration \/ (\E run \in Runs : RunStep(run)) \/ Aside
  BY DEF Next, Main, Forward, Reverse, Aside, RunStep, Runs, Terminated

LEMMA AsideLeavesRuns ==
  Aside => UNCHANGED <<runPc, runBlock, running, adjusted, runError, pushes,
                       leftover>>
  BY DEF Aside, LeaveLoop, JoinThreads, UpdateBlock, Finish, CombineThread,
         WaitForBlock, StartWorkers, JoinWorkers, SpuriousWakeup, Worker,
         WorkerTop, WorkerMore, WorkerEmpty, WorkerErrors, WorkerSentinel,
         WorkerPop, WorkerPrepare, WorkerSolve, WorkerCombine, WorkerFinal,
         CancelAdjustment, vars, threadVars, flagVars, errorVars, historyVars

(* An adjustment that is broken stays so until the main thread stops.      *)
LEMMA BrokenKept ==
  TypeOK /\ ProtocolInv /\ [Next]_vars /\ Broken => Broken'
  <1> SUFFICES ASSUME TypeOK, ProtocolInv, [Next]_vars, Broken PROVE Broken'
    OBVIOUS
  <1> USE DEF TypeOK, ThreadTypes, ErrorTypes, ProtocolInv, Quiet,
          FailuresKept, Broken, Failing, errorVars, resultVars
  <1>1. CASE StartIteration
    BY <1>1 DEF StartIteration
  <1>2. ASSUME NEW run \in Runs, RunStep(run) PROVE Broken'
    BY <1>2 DEF RunStep, StartRun, CheckRun, SolveFails, SetAdjusted, TestOther,
                PushBlock, FinishRun, TestFinished, ExhaustQueue, HandlerTest,
                HandlerPush, SolveForward, UpdateForward, CarryForward,
                NotifyAll, SolveReverse, UpdateReverse, CarryReverse,
                FinalReverse
  <1>3. CASE Aside
    <2>1. CASE LeaveLoop \/ JoinThreads \/ UpdateBlock \/ Finish
      BY <2>1 DEF LeaveLoop, JoinThreads, UpdateBlock, Finish
    <2>2. CASE CombineThread \/ SpuriousWakeup
      BY <2>2 DEF CombineThread, WaitForBlock, StartWorkers, JoinWorkers,
                  SpuriousWakeup
    <2>3. ASSUME NEW w \in Workers, Worker(w) PROVE Broken'
      BY <2>3 DEF Worker, WorkerTop, WorkerMore, WorkerEmpty, WorkerErrors,
                  WorkerSentinel, WorkerPop, WorkerPrepare, WorkerSolve,
                  WorkerCombine, WorkerFinal, WorkerThrows
    <2>4. CASE CancelAdjustment \/ UNCHANGED vars
      BY <2>4 DEF CancelAdjustment, vars
    <2>5. QED
      BY <1>3, <2>1, <2>2, <2>3, <2>4 DEF Aside
  <1>4. QED
    BY <1>1, <1>2, <1>3, StepCases

(* A run only ever works on one block after the other, in its direction.   *)
LEMMA RunMoves ==
  ASSUME TypeOK, NEW run \in Runs, RunStep(run)
  PROVE  /\ runPc[run] # "idle" /\ runPc'[run] \notin {"idle", "start"}
         /\ runPc'[Other(run)] = runPc[Other(run)]
         /\ runBlock'[Other(run)] = runBlock[Other(run)]
         /\ runBlock'[run] # runBlock[run] => runPc'[run] = "check"
         /\ runPc[run] # "start" /\ runBlock'[run] # runBlock[run] =>
              runBlock'[run] = IF run = "fwd" THEN runBlock[run] + 1
                                              ELSE runBlock[run] - 1
         /\ runPc[run] \in {"finished", "exhaust", "notify", "done"} =>
              /\ runPc'[run] \in {"finished", "exhaust", "notify", "done"}
              /\ UNCHANGED <<runBlock, pushes>>
  BY DEF TypeOK, ThreadTypes, RunStep, StartRun, CheckRun, SolveFails,
         SetAdjusted, TestOther, PushBlock, FinishRun, TestFinished,
         ExhaustQueue, AfterExhaust, HandlerTest, AfterFailure, HandlerPush,
         SolveForward, UpdateForward, CarryForward, NotifyAll, SolveReverse,
         UpdateReverse, CarryReverse, FinalReverse, RunNextBlock, RunGoto,
         Runs, Other, historyVars
LEMMA PassedKept ==
  ASSUME TypeOK, [Next]_vars, ~StartIteration, NEW run \in Runs, NEW b \in Blocks,
         Passed(run, b)
  PROVE  Passed(run, b)'
  <1>1. b \in Int /\ runBlock[run] \in Int
    BY DEF TypeOK, ThreadTypes, Blocks
  <1>2. ASSUME NEW r \in Runs, RunStep(r) PROVE Passed(run, b)'
    BY <1>1, <1>2, RunMoves DEF Passed, Begun, Runs, Other
  <1>3. CASE Aside
    BY <1>3, AsideLeavesRuns DEF Passed, Begun
  <1>4. QED
    BY <1>2, <1>3, StepCases

LEMMA CarriedKept ==
  ASSUME TypeOK, ProtocolInv, [Next]_vars, ~StartIteration, NEW b \in Blocks,
         Carried(b)
  PROVE  Carried(b)'
  <1>1. b \in Int /\ runBlock["rev"] \in Int /\ runBlock["fwd"] \in Int
    BY DEF TypeOK, ThreadTypes, Blocks, Runs
  <1>2. ASSUME NEW run \in Runs, RunStep(run) PROVE Carried(b)'
    <2>1. CASE run = "fwd"
      BY <1>2, <2>1, RunMoves DEF Carried, Begun, Runs, Other, TypeOK, ThreadTypes,
         RunStep, StartRun, CheckRun, SolveFails, SetAdjusted, TestOther,
         PushBlock, FinishRun, TestFinished, ExhaustQueue, HandlerTest,
         HandlerPush, SolveForward, UpdateForward, CarryForward, NotifyAll,
         RunNextBlock, RunGoto
    <2>2. CASE run = "rev" /\ runBlock["rev"] <= b
      BY <1>1, <1>2, <2>2, RunMoves DEF Carried, Begun, Runs
    <2>3. CASE run = "rev" /\ runBlock["rev"] = b + 1
                 /\ runPc["rev"] \in {"set", "test", "push"}
      <3>1. b + 1 # LastOfRun("rev") /\ (b + 1) - 1 = b
        BY <1>1 DEF LastOfRun, Blocks
      <3>2. SetAdjusted(run) \/ TestOther(run) \/ PushBlock(run)
        BY <1>2, <2>3 DEF RunStep, StartRun, CheckRun, SolveFails, FinishRun,
           TestFinished, ExhaustQueue, HandlerTest, HandlerPush, SolveReverse,
           UpdateReverse, CarryReverse, FinalReverse
      <3>3. QED
        BY <1>1, <2>3, <3>1, <3>2
        DEF Carried, Begun, SetAdjusted, TestOther, PushBlock, RunNextBlock,
            RunGoto, TypeOK, ThreadTypes, Runs
    <2>4. QED
      BY <1>2, <2>1, <2>2, <2>3 DEF Carried, Runs
  <1>3. CASE Aside
    BY <1>3, AsideLeavesRuns DEF Carried, Begun
  <1>4. QED
    BY <1>2, <1>3, StepCases
-----------------------------------------------------------------------------
(* RunsProgress and PushesBounded. *)

LEMMA IdleTogetherStep ==
  TypeOK /\ ProtocolInv /\ IdleTogether /\ [Next]_vars => IdleTogether'
  <1> SUFFICES ASSUME TypeOK, ProtocolInv, IdleTogether, [Next]_vars
               PROVE  IdleTogether'
    OBVIOUS
  <1> USE DEF TypeOK, ThreadTypes, IdleTogether
  <1>1. CASE StartIteration
    BY <1>1 DEF StartIteration, Runs
  <1>2. ASSUME NEW run \in Runs, RunStep(run) PROVE IdleTogether'
    <2>1. UNCHANGED cmbPc
      BY <1>2 DEF RunStep, StartRun, CheckRun, SolveFails, SetAdjusted, TestOther,
         PushBlock, FinishRun, TestFinished, ExhaustQueue, HandlerTest,
         HandlerPush, SolveForward, UpdateForward, CarryForward, NotifyAll,
         SolveReverse, UpdateReverse, CarryReverse, FinalReverse
    <2>2. QED
      BY <1>2, <2>1, RunMoves DEF Runs, Other
  <1>3. CASE Aside
    <2>1. CASE LeaveLoop \/ JoinThreads \/ UpdateBlock \/ Finish
                 \/ CancelAdjustment \/ UNCHANGED vars
      BY <2>1 DEF LeaveLoop, JoinThreads, UpdateBlock, Finish,
                  CancelAdjustment, vars, threadVars, queueVars
    <2>2. CASE CombineThread \/ SpuriousWakeup
      BY <2>2 DEF CombineThread, WaitForBlock, StartWorkers, JoinWorkers,
                  SpuriousWakeup, sleep_on_empty, spurious_wakeup, queueVars,
                  threadVars
    <2>3. ASSUME NEW w \in Workers, Worker(w) PROVE IdleTogether'
      <3>1. cmbPc = "join"
        BY <2>3 DEF ProtocolInv, Quiet, Worker, WorkerTop, WorkerMore,
           WorkerEmpty, WorkerErrors, WorkerSentinel, WorkerPop, WorkerPrepare,
           WorkerSolve, WorkerCombine, WorkerFinal
      <3>2. UNCHANGED <<runPc, cmbPc>>
        BY <2>3 DEF Worker, WorkerTop, WorkerMore,
           WorkerEmpty, WorkerErrors, WorkerSentinel, WorkerPop, WorkerPrepare,
           WorkerSolve, WorkerCombine, WorkerFinal
      <3>3. QED
        BY <3>1, <3>2
    <2>4. QED
      BY <1>3, <2>1, <2>2, <2>3 DEF Aside
  <1>4. QED
    BY <1>1, <1>2, <1>3, StepCases

LEMMA RunsEndStep ==
  TypeOK /\ ProtocolInv /\ RunsEnd /\ [Next]_vars => RunsEnd'
  <1> SUFFICES ASSUME TypeOK, ProtocolInv, RunsEnd, [Next]_vars PROVE RunsEnd'
    OBVIOUS
  <1>1. CASE StartIteration
    BY <1>1 DEF StartIteration, RunsEnd, Begun
  <1>2. ASSUME NEW run \in Runs, RunStep(run) PROVE RunsEnd'
    <2>1. ASSUME NEW r \in Runs, r # run
          PROVE  runPc'[r] = runPc[r] /\ runBlock'[r] = runBlock[r]
                   /\ running'[r] = running[r]
      <3>1. r = Other(run)
        BY <2>1 DEF Runs, Other
      <3>2. running'[r] = running[r]
        BY <1>2, <2>1 DEF TypeOK, FlagTypes, RunStep, StartRun, CheckRun,
           SolveFails, SetAdjusted, TestOther, PushBlock, FinishRun,
           TestFinished, ExhaustQueue, HandlerTest, HandlerPush, SolveForward,
           UpdateForward, CarryForward, NotifyAll, SolveReverse, UpdateReverse,
           CarryReverse, FinalReverse, flagVars
      <3>3. QED
        BY <1>2, <3>1, <3>2, RunMoves
    <2>2. /\ runPc'[run] \in {"finish", "finished", "exhaust", "notify"}
               => runBlock'[run] = LastOfRun(run)
          /\ runPc'[run] = "done" => Broken \/ runBlock'[run] = LastOfRun(run)
          /\ Begun(run)' /\ ~running'[run]
               => runPc'[run] \in {"finished", "exhaust", "notify", "done"}
      BY <1>2 DEF TypeOK, ThreadTypes, FlagTypes, RunStep, StartRun, CheckRun,
         SolveFails, SetAdjusted, TestOther, PushBlock, FinishRun,
         TestFinished, ExhaustQueue, HandlerTest, HandlerPush, SolveForward,
         UpdateForward, CarryForward, NotifyAll, SolveReverse, UpdateReverse,
         CarryReverse, FinalReverse, flagVars, RunNextBlock, RunGoto,
         AfterExhaust, AfterFailure, RunsEnd, Begun, ProtocolInv, FailuresKept,
         Broken, Failing, OthersFailed, Other, Runs
    <2>3. Broken => Broken'
      BY BrokenKept
    <2>4. QED
      BY <2>1, <2>2, <2>3 DEF RunsEnd, Begun
  <1>3. CASE Aside
    BY <1>3, AsideLeavesRuns, BrokenKept DEF RunsEnd, Begun
  <1>4. QED
    BY <1>1, <1>2, <1>3, StepCases
LEMMA OnlySetMarks ==
  ASSUME TypeOK, NEW run \in Runs, RunStep(run)
  PROVE  UNCHANGED adjusted \/ SetAdjusted(run)
  BY DEF RunStep, StartRun, CheckRun, SolveFails, SetAdjusted, TestOther,
         PushBlock, FinishRun, TestFinished, ExhaustQueue, HandlerTest,
         HandlerPush, SolveForward, UpdateForward, CarryForward, NotifyAll,
         SolveReverse, UpdateReverse, CarryReverse, FinalReverse, flagVars

LEMMA RunsMarkAllStep ==
  TypeOK /\ ProtocolInv /\ ReverseOnBlock /\ RunsMarkAll /\ [Next]_vars
    => RunsMarkAll'
  <1> SUFFICES ASSUME TypeOK, ProtocolInv, ReverseOnBlock, RunsMarkAll,
                      [Next]_vars
               PROVE  RunsMarkAll'
    OBVIOUS
  <1>1. CASE StartIteration
    BY <1>1 DEF StartIteration, RunsMarkAll, Begun, Passed
  <1>2. ASSUME NEW run \in Runs, RunStep(run) PROVE RunsMarkAll'
    <2>1. \A r \in Runs : adjusted[r] \subseteq adjusted'[r]
      BY <1>2, OnlySetMarks DEF SetAdjusted, TypeOK, FlagTypes
    <2>2. ASSUME NEW r \in Runs, ~Begun(r)' PROVE adjusted'[r] = {}
      <3>1. r = Other(run) /\ runPc'[r] = runPc[r] /\ ~Begun(r) /\ r # run
        BY <1>2, <2>2, RunMoves DEF Runs, Other, Begun
      <3>2. adjusted'[r] = adjusted[r]
        BY <1>2, <3>1, OnlySetMarks DEF SetAdjusted, TypeOK, FlagTypes
      <3>3. QED
        BY <3>1, <3>2 DEF RunsMarkAll
    <2>3. ASSUME NEW r \in Runs, NEW b \in Blocks, CombineRequired(b),
                 Passed(r, b)', ~Passed(r, b)
          PROVE  b \in adjusted'[r]
      <3>1. r = run
        BY <1>2, <2>3, RunMoves DEF Runs, Other, Passed, Begun
      <3>2. b \in Int /\ runBlock[run] \in Int /\ b # BlockCount - 1 /\ b # 0
              /\ BlockCount \in Int /\ b < BlockCount
        BY <2>3, BlockCountAssumption
        DEF Blocks, TypeOK, ThreadTypes, CombineRequired, BlockLast, BlockFirst
      <3>3. runPc[run] # "start"
        <4>1. ASSUME runPc[run] = "start" PROVE FALSE
          <5>1. runBlock'[run] = FirstOfRun(run)
            BY <1>2, <4>1
            DEF TypeOK, ThreadTypes, RunStep, StartRun, CheckRun, SolveFails,
              SetAdjusted, TestOther, PushBlock, FinishRun, TestFinished,
              ExhaustQueue, HandlerTest, HandlerPush, SolveForward,
              UpdateForward, CarryForward, NotifyAll, SolveReverse,
              UpdateReverse, CarryReverse, FinalReverse
          <5>2. QED
            BY <2>3, <3>1, <3>2, <5>1 DEF Passed, FirstOfRun, Blocks
        <4>2. QED
          BY <4>1
      <3>4. b = runBlock[run] /\ runBlock'[run] # runBlock[run]
        BY <1>2, <2>3, <3>1, <3>2, <3>3, RunMoves DEF Passed, Begun, Runs
      <3>5. runPc[run] \in {"test", "push"}
        BY <1>2, <2>3, <3>3, <3>4
        DEF RunStep, StartRun, CheckRun, SolveFails, SetAdjusted, TestOther,
            PushBlock, FinishRun, TestFinished, ExhaustQueue, HandlerTest,
            HandlerPush, SolveForward, UpdateForward, CarryForward, NotifyAll,
            SolveReverse, UpdateReverse, CarryReverse, FinalReverse,
            RunNextBlock, CombineRequired, ReverseOnBlock
      <3>6. QED
        BY <2>1, <3>1, <3>4, <3>5 DEF ProtocolInv, RunsMark
    <2>4. QED
      BY <2>1, <2>2, <2>3 DEF RunsMarkAll
  <1>3. CASE Aside
    BY <1>3, AsideLeavesRuns DEF RunsMarkAll, Begun, Passed
  <1>4. QED
    BY <1>1, <1>2, <1>3, StepCases

LEMMA MarkedCarriedStep ==
  TypeOK /\ ProtocolInv /\ MarkedCarried /\ [Next]_vars => MarkedCarried'
  <1> SUFFICES ASSUME TypeOK, ProtocolInv, MarkedCarried, [Next]_vars
               PROVE  MarkedCarried'
    OBVIOUS
  <1>1. CASE StartIteration
    BY <1>1 DEF StartIteration, MarkedCarried, Runs
  <1>2. ASSUME ~StartIteration, NEW b \in adjusted'["rev"]
        PROVE  Carried(b)'
    <2>1. CASE b \in adjusted["rev"]
      BY <1>2, <2>1, CarriedKept DEF MarkedCarried, TypeOK, FlagTypes, Runs
    <2>2. CASE b \notin adjusted["rev"]
      <3>1. SetAdjusted("rev") /\ b = runBlock["rev"]
        BY <1>2, <2>2, StepCases, AsideLeavesRuns, OnlySetMarks
        DEF SetAdjusted, TypeOK, FlagTypes, Runs
      <3>2. b \in Int
        BY <3>1 DEF TypeOK, ThreadTypes, Runs, Blocks
      <3>3. QED
        BY <3>1, <3>2 DEF SetAdjusted, RunGoto, Carried, Begun, TypeOK,
                          ThreadTypes, Runs
    <2>3. QED
      BY <2>1, <2>2
  <1>3. QED
    BY <1>1, <1>2 DEF MarkedCarried

LEMMA ReverseOnBlockStep ==
  TypeOK /\ ReverseOnBlock /\ [Next]_vars => ReverseOnBlock'
  <1> SUFFICES ASSUME TypeOK, ReverseOnBlock, [Next]_vars PROVE ReverseOnBlock'
    OBVIOUS
  <1>1. CASE StartIteration
    BY <1>1 DEF StartIteration, ReverseOnBlock, Runs
  <1>2. ASSUME NEW run \in Runs, RunStep(run) PROVE ReverseOnBlock'
    BY <1>2 DEF TypeOK, ThreadTypes, RunStep, StartRun, CheckRun, SolveFails,
       SetAdjusted, TestOther, PushBlock, FinishRun, TestFinished,
       ExhaustQueue, HandlerTest, HandlerPush, SolveForward, UpdateForward,
       CarryForward, NotifyAll, SolveReverse, UpdateReverse, CarryReverse,
       FinalReverse, RunNextBlock, RunGoto, AfterExhaust, AfterFailure, Runs,
       ReverseOnBlock, CombineRequired
  <1>3. CASE Aside
    BY <1>3, AsideLeavesRuns DEF ReverseOnBlock
  <1>4. QED
    BY <1>1, <1>2, <1>3, StepCases
LEMMA OnlyPushCounts ==
  ASSUME TypeOK, NEW run \in Runs, RunStep(run)
  PROVE  UNCHANGED pushes \/ PushBlock(run)
  BY DEF RunStep, StartRun, CheckRun, SolveFails, SetAdjusted, TestOther,
         PushBlock, FinishRun, TestFinished, ExhaustQueue, HandlerTest,
         HandlerPush, SolveForward, UpdateForward, CarryForward, NotifyAll,
         SolveReverse, UpdateReverse, CarryReverse, FinalReverse, historyVars

(* Queueing a block is a run's last act on it: the block is passed then.   *)
LEMMA PushPasses ==
  ASSUME TypeOK, ProtocolInv, NEW run \in Runs, PushBlock(run),
         NEW b \in Blocks, b = runBlock[run]
  PROVE  /\ b \in BothAdjusted
         /\ ~Passed(run, b) /\ Passed(run, b)'
         /\ pushes'[b] = pushes[b] + 1
         /\ \A c \in Blocks : c # b => pushes'[c] = pushes[c]
         /\ UNCHANGED adjusted
  <1>1. b \in Int /\ CombineRequired(b) /\ b \in BothAdjusted
    BY DEF PushBlock, ProtocolInv, RunsMark, Blocks
  <1>2. b # 0 /\ b # BlockCount - 1
    BY <1>1 DEF CombineRequired, BlockFirst, BlockLast
  <1>3. runBlock'[run] = (IF run = "fwd" THEN b + 1 ELSE b - 1)
          /\ runPc'[run] = "check"
    BY <1>2 DEF TypeOK, ThreadTypes, PushBlock, RunNextBlock, RunGoto, LastOfRun
  <1>4. ~Passed(run, b)
    BY <1>1 DEF Passed
  <1>5. Passed(run, b)'
    BY <1>1, <1>3 DEF Passed, Begun
  <1>6. /\ UNCHANGED adjusted
        /\ pushes'[b] = pushes[b] + 1
        /\ \A c \in Blocks : c # b => pushes'[c] = pushes[c]
    BY DEF PushBlock, flagVars, TypeOK, HistoryTypes
  <1>7. QED
    BY <1>1, <1>4, <1>5, <1>6

LEMMA PushesBoundedStep ==
  TypeOK /\ ProtocolInv /\ PushesBounded /\ [Next]_vars => PushesBounded'
  <1> SUFFICES ASSUME TypeOK, ProtocolInv, PushesBounded, [Next]_vars,
                      NEW b \in Blocks
               PROVE  /\ pushes'[b] <= Turn("fwd", b)' + Turn("rev", b)'
                      /\ pushes'[b] > 0 => b \in BothAdjusted'
    BY DEF PushesBounded
  <1>1. pushes[b] \in Nat
    BY DEF TypeOK, HistoryTypes
  <1>2. CASE StartIteration
    BY <1>2 DEF StartIteration, Turn
  <1>3. CASE ~StartIteration /\ pushes'[b] = pushes[b]
    <2>1. \A run \in Runs : Passed(run, b) => Passed(run, b)'
      BY <1>3, PassedKept
    <2>2. \A r \in Runs : adjusted[r] \subseteq adjusted'[r]
      <3>1. CASE Aside
        BY <3>1, AsideLeavesRuns
      <3>2. ASSUME NEW run \in Runs, RunStep(run)
            PROVE  \A r \in Runs : adjusted[r] \subseteq adjusted'[r]
        BY <3>2, OnlySetMarks DEF SetAdjusted, TypeOK, FlagTypes
      <3>3. QED
        BY <1>3, <3>1, <3>2, StepCases
    <2>3. QED
      BY <1>1, <1>3, <2>1, <2>2 DEF PushesBounded, Turn, Runs, BothAdjusted
  <1>4. CASE ~StartIteration /\ pushes'[b] # pushes[b]
    <2>1. PICK run \in Runs : PushBlock(run)
      BY <1>4, StepCases, AsideLeavesRuns, OnlyPushCounts
    <2>2. b = runBlock[run]
      BY <1>4, <2>1 DEF PushBlock, TypeOK, HistoryTypes
    <2>3. /\ b \in BothAdjusted
          /\ ~Passed(run, b) /\ Passed(run, b)'
          /\ pushes'[b] = pushes[b] + 1
          /\ UNCHANGED adjusted
      BY <2>1, <2>2, PushPasses
    <2>4. Passed(Other(run), b) => Passed(Other(run), b)'
      BY <1>4, PassedKept DEF Runs, Other
    <2>5. pushes[b] <= Turn(run, b) + Turn(Other(run), b)
      BY DEF PushesBounded, Runs, Other, Turn
    <2>6. pushes'[b] <= Turn(run, b)' + Turn(Other(run), b)'
      BY <1>1, <2>3, <2>4, <2>5 DEF Turn
    <2>7. Turn(run, b)' + Turn(Other(run), b)' = Turn("fwd", b)' + Turn("rev", b)'
      BY DEF Runs, Other, Turn
    <2>8. QED
      BY <2>3, <2>6, <2>7 DEF BothAdjusted
  <1>5. QED
    BY <1>2, <1>3, <1>4

LEMMA PrematureKept ==
  [Next]_vars /\ premature => premature'
  <1>1. ASSUME [Next]_vars, NEW run \in Runs, RunStep(run)
        PROVE  premature => premature'
    BY <1>1 DEF RunStep, StartRun, CheckRun, SolveFails, SetAdjusted,
       TestOther, PushBlock, FinishRun, TestFinished, ExhaustQueue,
       HandlerTest, HandlerPush, SolveForward, UpdateForward, CarryForward,
       NotifyAll, SolveReverse, UpdateReverse, CarryReverse, FinalReverse,
       historyVars
  <1>2. CASE Aside
    BY <1>2 DEF Aside, LeaveLoop, JoinThreads, UpdateBlock, Finish,
       CombineThread, WaitForBlock, StartWorkers, JoinWorkers,
       SpuriousWakeup, Worker, WorkerTop, WorkerMore,
       WorkerEmpty, WorkerErrors, WorkerSentinel, WorkerPop, WorkerPrepare,
       WorkerSolve, WorkerCombine, WorkerFinal, CancelAdjustment, vars,
       historyVars
  <1>3. CASE StartIteration
    BY <1>3 DEF StartIteration
  <1>4. QED
    BY <1>1, <1>2, <1>3, StepCases

(* What an exhausted queue goes with stays so as long as it is exhausted.  *)
LEMMA AloneOrDone ==
  TypeOK /\ ProtocolInv /\ [Next]_vars /\ ~StartIteration
    => /\ OneRunAlone => OneRunAlone'
       /\ NoMoreToCome => NoMoreToCome' /\ UNCHANGED pushes
  <1> SUFFICES ASSUME TypeOK, ProtocolInv, [Next]_vars, ~StartIteration
               PROVE  /\ OneRunAlone => OneRunAlone'
                      /\ NoMoreToCome => NoMoreToCome' /\ UNCHANGED pushes
    OBVIOUS
  <1>1. ASSUME premature, NEW run \in Runs,
               runPc[run] \in {"finished", "exhaust", "notify", "done"},
               \A b \in Blocks : pushes[b] <= Turn(Other(run), b)
        PROVE  OneRunAlone'
    <2>1. runPc'[run] \in {"finished", "exhaust", "notify", "done"}
      BY <1>1, StepCases, AsideLeavesRuns, RunMoves DEF Runs, Other
    <2>2. ASSUME NEW b \in Blocks
          PROVE  pushes'[b] <= Turn(Other(run), b)'
      <3>1. pushes[b] \in Nat /\ Other(run) \in Runs
        BY DEF TypeOK, HistoryTypes, Runs, Other
      <3>2. Passed(Other(run), b) => Passed(Other(run), b)'
        BY <3>1, PassedKept
      <3>3. CASE pushes'[b] = pushes[b]
        BY <1>1, <3>1, <3>2, <3>3 DEF Turn
      <3>4. CASE pushes'[b] # pushes[b]
        <4>1. PICK r \in Runs : PushBlock(r)
          BY <3>4, StepCases, AsideLeavesRuns, OnlyPushCounts
        <4>2. r = Other(run)
          BY <1>1, <4>1 DEF PushBlock, Runs, Other
        <4>3. b = runBlock[r]
          BY <3>4, <4>1 DEF PushBlock, TypeOK, HistoryTypes
        <4>4. /\ ~Passed(r, b) /\ Passed(r, b)'
              /\ pushes'[b] = pushes[b] + 1
          BY <4>1, <4>3, PushPasses
        <4>5. QED
          BY <1>1, <3>1, <4>2, <4>4 DEF Turn
      <3>5. QED
        BY <3>3, <3>4
    <2>3. premature'
      BY <1>1, PrematureKept
    <2>4. QED
      BY <2>1, <2>2, <2>3 DEF OneRunAlone
  <1>2. ASSUME NoMoreToCome PROVE NoMoreToCome' /\ UNCHANGED pushes
    BY <1>2, StepCases, AsideLeavesRuns, RunMoves DEF NoMoreToCome, Runs, Other
  <1>3. QED
    BY <1>1, <1>2 DEF OneRunAlone
-----------------------------------------------------------------------------
(* QueueExhausts and WorkersDrain. *)

LEMMA QueueExhaustsStep ==
  TypeOK /\ ProtocolInv /\ RunsEnd /\ RunsMarkAll /\ IdleTogether
    /\ PushesBounded /\ QueueExhausts /\ [Next]_vars => QueueExhausts'
  <1> SUFFICES ASSUME TypeOK, ProtocolInv, RunsEnd, RunsMarkAll, IdleTogether,
                      PushesBounded, QueueExhausts, [Next]_vars, Exhausting'
               PROVE  NoMoreToCome' \/ OneRunAlone'
    BY DEF QueueExhausts
  <1>1. CASE StartIteration
    BY <1>1 DEF StartIteration, reset_blocks_coming, Exhausting
  <1>2. CASE ~StartIteration /\ Exhausting
    BY <1>2, AloneOrDone DEF QueueExhausts
  <1>3. CASE ~StartIteration /\ ~Exhausting
    <2>1. PICK run \in Runs : TestFinished(run) /\ \A r \in Runs : ~running[r]
      <3>1. CASE Aside
        <4>1. UNCHANGED <<runPc, more_blocks_coming>>
          BY <3>1, AsideLeavesRuns
          DEF Aside, LeaveLoop, JoinThreads, UpdateBlock, Finish, CombineThread,
            WaitForBlock, sleep_on_empty, StartWorkers, JoinWorkers,
            SpuriousWakeup, spurious_wakeup, Worker, WorkerTop, WorkerMore,
            WorkerEmpty, WorkerErrors, WorkerSentinel, push_and_notify,
            WorkerPop, front_and_pop, WorkerPrepare, WorkerSolve,
            WorkerCombine, WorkerFinal, CancelAdjustment, vars, queueVars
        <4>2. QED
          BY <1>3, <4>1 DEF Exhausting
      <3>2. ASSUME NEW run \in Runs, RunStep(run)
            PROVE  TestFinished(run) /\ \A r \in Runs : ~running[r]
        BY <1>3, <3>2 DEF Exhausting, TypeOK, ThreadTypes, RunStep, StartRun,
           CheckRun, SolveFails, SetAdjusted, TestOther, PushBlock, FinishRun,
           TestFinished, ExhaustQueue, HandlerTest, HandlerPush, SolveForward,
           UpdateForward, CarryForward, NotifyAll, SolveReverse,
           UpdateReverse, CarryReverse, FinalReverse, RunNextBlock, RunGoto,
           AfterExhaust, AfterFailure, push_and_notify, notify_all, queueVars
      <3>3. QED
        BY <1>3, <3>1, <3>2, StepCases
    <2>2. /\ runPc[run] = "finished" /\ runPc'[run] = "exhaust"
          /\ UNCHANGED pushes
          /\ runPc'[Other(run)] = runPc[Other(run)]
      BY <2>1 DEF TestFinished, RunGoto, TypeOK, ThreadTypes, Runs, Other
    <2>3. CASE Begun(Other(run))
      <3>1. runPc[Other(run)] \in {"finished", "exhaust", "notify", "done"}
        BY <2>1, <2>3 DEF RunsEnd, Runs, Other
      <3>2. QED
        BY <2>2, <3>1 DEF NoMoreToCome, Runs, Other
    <2>4. CASE ~Begun(Other(run))
      <3>1. runPc[Other(run)] = "start"
        BY <2>2, <2>4 DEF IdleTogether, Begun, Runs, Other
      <3>2. premature'
        BY <2>1, <3>1, <2>2 DEF TestFinished, RunGoto, AfterExhaust, TypeOK,
                                ThreadTypes, Runs
      <3>3. adjusted[Other(run)] = {}
        BY <2>4 DEF RunsMarkAll, Runs, Other
      <3>4. \A b \in Blocks : pushes'[b] = 0
        BY <2>2, <3>3
        DEF PushesBounded, BothAdjusted, TypeOK, HistoryTypes, Runs, Other
      <3>5. \A b \in Blocks : 0 <= Turn(Other(run), b)'
        BY DEF Turn
      <3>6. QED
        BY <2>2, <3>4, <3>5, <3>2 DEF OneRunAlone
    <2>5. QED
      BY <2>3, <2>4
  <1>4. QED
    BY <1>2, <1>3, <1>1

(* How the queue changes within an iteration.                              *)
LEMMA QueueChanges ==
  ASSUME TypeOK, ProtocolInv, [Next]_vars
  PROVE  \/ UNCHANGED the_queue
         \/ \E run \in Runs : PushBlock(run) /\ UNCHANGED more_blocks_coming
         \/ the_queue' = Append(the_queue, Sentinel) /\ Failing /\ UNCHANGED pushes
         \/ \E x \in Blocks \cup {Sentinel} :
              front_and_pop(x) /\ UNCHANGED pushes
  <1>1. CASE StartIteration
    BY <1>1 DEF StartIteration, reset_blocks_coming
  <1>2. ASSUME NEW run \in Runs, RunStep(run)
        PROVE  \/ UNCHANGED the_queue
               \/ PushBlock(run) /\ UNCHANGED more_blocks_coming
               \/ /\ the_queue' = Append(the_queue, Sentinel)
                  /\ Failing /\ UNCHANGED pushes
    BY <1>2 DEF ProtocolInv, FailuresKept, Failing, RunStep, StartRun,
       CheckRun, SolveFails, SetAdjusted, TestOther, PushBlock, FinishRun,
       TestFinished, ExhaustQueue, HandlerTest, HandlerPush, SolveForward,
       UpdateForward, CarryForward, NotifyAll, SolveReverse, UpdateReverse,
       CarryReverse, FinalReverse, push_and_notify, notify_all,
       queue_exhausted, queueVars, historyVars
  <1>3. ASSUME NEW w \in Workers, Worker(w)
        PROVE  \/ UNCHANGED the_queue
               \/ /\ the_queue' = Append(the_queue, Sentinel)
                  /\ Failing /\ UNCHANGED pushes
               \/ \E x \in Blocks \cup {Sentinel} :
                    front_and_pop(x) /\ UNCHANGED pushes
    BY <1>3 DEF ProtocolInv, WorkersCorrect, Worker, WorkerTop, WorkerMore,
       WorkerEmpty, WorkerErrors, WorkerSentinel, push_and_notify, WorkerPop,
       WorkerPrepare, WorkerSolve, WorkerCombine, WorkerFinal, queueVars,
       historyVars
  <1>4. CASE Aside /\ ~(\E w \in Workers : Worker(w))
    BY <1>4 DEF Aside, LeaveLoop, JoinThreads, UpdateBlock, Finish,
       CombineThread, WaitForBlock, sleep_on_empty, StartWorkers, JoinWorkers,
       SpuriousWakeup, spurious_wakeup, CancelAdjustment, vars, queueVars
  <1>5. QED
    BY <1>1, <1>2, <1>3, <1>4, StepCases
LEMMA ExhaustedStays ==
  TypeOK /\ ProtocolInv /\ [Next]_vars /\ ~StartIteration /\ ~more_blocks_coming
    => ~more_blocks_coming'
  <1> SUFFICES ASSUME TypeOK, ProtocolInv, [Next]_vars, ~StartIteration,
                      ~more_blocks_coming
               PROVE  ~more_blocks_coming'
    OBVIOUS
  <1>1. ASSUME NEW run \in Runs, RunStep(run) PROVE ~more_blocks_coming'
    BY <1>1 DEF RunStep, StartRun, CheckRun, SolveFails, SetAdjusted,
       TestOther, PushBlock, FinishRun, TestFinished, ExhaustQueue,
       HandlerTest, HandlerPush, SolveForward, UpdateForward, CarryForward,
       NotifyAll, SolveReverse, UpdateReverse, CarryReverse, FinalReverse,
       push_and_notify, notify_all, queue_exhausted, queueVars
  <1>2. CASE Aside
    BY <1>2 DEF Aside, LeaveLoop, JoinThreads, UpdateBlock, Finish,
       CombineThread, WaitForBlock, sleep_on_empty, StartWorkers, JoinWorkers,
       SpuriousWakeup, spurious_wakeup, Worker, WorkerTop, WorkerMore,
       WorkerEmpty, WorkerErrors, WorkerSentinel, push_and_notify, WorkerPop,
       front_and_pop, WorkerPrepare, WorkerSolve, WorkerCombine, WorkerFinal,
       CancelAdjustment, vars, queueVars
  <1>3. QED
    BY <1>1, <1>2, StepCases

LEMMA RunDryStays ==
  ASSUME TypeOK, ProtocolInv, QueueExhausts, [Next]_vars, ~StartIteration, RunDry
  PROVE  RunDry' \/ Broken'
  <1> SUFFICES ASSUME ~Broken PROVE RunDry'
    BY BrokenKept
  <1>1. ~more_blocks_coming'
    BY ExhaustedStays DEF RunDry
  <1>2. ASSUME NEW b \in Blocks PROVE Cardinality(Places(b)) <= pushes[b]
    BY DEF RunDry
  <1>3. ASSUME NEW b \in Blocks
        PROVE  Cardinality(Places(b)) \in Nat /\ pushes[b] \in Nat
    BY PlacesFinite DEF TypeOK, HistoryTypes
  <1>4. the_queue = <<>> \/ OneRunAlone
    BY DEF RunDry
  <1>5. OneRunAlone => OneRunAlone'
    BY AloneOrDone
  <1>6. CASE UNCHANGED the_queue
    <2>1. ASSUME NEW b \in Blocks
          PROVE  Cardinality(Places(b)') <= pushes'[b]
      <3>1. Places(b)' = Places(b)
        BY <1>6 DEF Places
      <3>2. pushes'[b] = pushes[b]
        BY <1>6, StepCases, AsideLeavesRuns, OnlyPushCounts
        DEF PushBlock, push_and_notify, TypeOK, QueueTypeOK
      <3>3. QED
        BY <1>2, <3>1, <3>2
    <2>2. QED
      BY <1>1, <1>4, <1>5, <1>6, <2>1 DEF RunDry
  <1>7. ASSUME NEW run \in Runs, PushBlock(run) PROVE RunDry'
    <2> DEFINE k == runBlock[run]
    <2>1. k \in Blocks /\ the_queue' = Append(the_queue, k)
      BY <1>7 DEF PushBlock, push_and_notify, TypeOK, ThreadTypes
    <2>2. OneRunAlone
      BY <1>7 DEF RunDry, QueueExhausts, Exhausting, NoMoreToCome, PushBlock
    <2>3. /\ pushes'[k] = pushes[k] + 1
          /\ \A c \in Blocks : c # k => pushes'[c] = pushes[c]
      BY <1>7, <2>1, PushPasses
    <2> HIDE DEF k
    <2>4. ASSUME NEW b \in Blocks
          PROVE  Cardinality(Places(b)') <= pushes'[b]
      <3>1. Cardinality(Places(b)') =
              Cardinality(Places(b)) + (IF k = b THEN 1 ELSE 0)
        BY <2>1, CountPush
      <3>2. QED
        BY <1>2, <1>3, <2>3, <3>1
    <2>5. QED
      BY <1>1, <1>5, <2>2, <2>4 DEF RunDry
  <1>8. ASSUME NEW x, front_and_pop(x), UNCHANGED pushes PROVE RunDry'
    <2>1. ASSUME NEW b \in Blocks
          PROVE  Cardinality(Places(b)') <= pushes'[b]
      <3>1. Cardinality(Places(b)') =
              Cardinality(Places(b)) - (IF x = b THEN 1 ELSE 0)
        BY <1>8, CountPop
      <3>2. QED
        BY <1>2, <1>3, <1>8, <3>1
    <2>2. OneRunAlone
      BY <1>4, <1>8 DEF front_and_pop, is_empty
    <2>3. QED
      BY <1>1, <1>5, <2>1, <2>2 DEF RunDry
  <1>9. QED
    BY <1>6, <1>7, <1>8, QueueChanges DEF Broken

LEMMA WorkersDrainStep ==
  TypeOK /\ ProtocolInv /\ QueueExhausts /\ WorkersDrain /\ [Next]_vars
    => WorkersDrain'
  <1> SUFFICES ASSUME TypeOK, ProtocolInv, QueueExhausts, WorkersDrain,
                      [Next]_vars
               PROVE  WorkersDrain'
    OBVIOUS
  <1>1. CASE StartIteration
    BY <1>1 DEF StartIteration, WorkersDrain, SeesExhausted, Working
  <1>2. CASE ~StartIteration
    <2>1. Broken \/ RunDry => Broken' \/ RunDry'
      BY <1>2, BrokenKept, RunDryStays
    <2>2. ~more_blocks_coming => ~more_blocks_coming'
      BY <1>2, ExhaustedStays
    <2>3. CASE UNCHANGED <<cmbPc, workerPc>>
      BY <2>1, <2>2, <2>3 DEF WorkersDrain, SeesExhausted, Working
    <2>4. CASE CombineThread
      <3> USE DEF WorkersDrain, SeesExhausted, Working, Broken, Failing
      <3>1. CASE WaitForBlock
        BY <2>1, <2>2, <3>1 DEF WaitForBlock
      <3>2. CASE StartWorkers
        BY <2>1, <2>2, <3>2 DEF StartWorkers, errorVars
      <3>3. CASE JoinWorkers
        BY <2>1, <2>2, <3>3, WorkersAssumption DEF JoinWorkers
      <3>4. QED
        BY <2>4, <3>1, <3>2, <3>3 DEF CombineThread
    <2>5. ASSUME NEW w \in Workers, Worker(w) PROVE WorkersDrain'
      <3>1. cmbPc = "join" /\ UNCHANGED cmbPc
        BY <2>5 DEF ProtocolInv, Quiet, Worker, WorkerTop, WorkerMore,
           WorkerEmpty, WorkerErrors, WorkerSentinel, WorkerPop,
           WorkerPrepare, WorkerSolve, WorkerCombine, WorkerFinal
      <3>2. /\ \A v \in Workers : v # w => workerPc'[v] = workerPc[v]
            /\ workerPc'[w] = "empty" => ~more_blocks_coming
        BY <2>5 DEF TypeOK, ThreadTypes, Worker, WorkerTop, WorkerMore,
           AfterFlag, WorkerEmpty, WorkerErrors, AfterFailure, WorkerSentinel,
           WorkerPop, WorkerPrepare, WorkerSolve, WorkerThrows, WorkerCombine,
           WorkerFinal, WorkerGoto
      <3>3. SeesExhausted'
        BY <2>2, <3>1, <3>2 DEF WorkersDrain, SeesExhausted
      <3>4. CASE workerPc'[w] # "done"
        BY <2>1, <3>1, <3>2, <3>3, <3>4 DEF WorkersDrain, Working
      <3>5. CASE workerPc'[w] = "done"
        <4>1. Broken' \/ (WorkerEmpty(w) /\ is_empty)
          BY <2>5, <3>5 DEF TypeOK, ThreadTypes, ErrorTypes, Worker, WorkerTop, WorkerMore,
             AfterFlag, WorkerEmpty, WorkerErrors, CombineExceptionThrown,
             WorkerSentinel, WorkerPop, WorkerPrepare, WorkerSolve,
             WorkerThrows, WorkerCombine, WorkerFinal, WorkerGoto, Broken,
             Failing, ProtocolInv, WorkersCorrect, errorVars, resultVars
        <4>2. CASE WorkerEmpty(w) /\ is_empty
          <5>1. the_queue' = <<>>
            BY <4>2 DEF WorkerEmpty, is_empty, queueVars
          <5>2. ~more_blocks_coming'
            BY <2>2, <3>1, <4>2 DEF WorkerEmpty, WorkersDrain, SeesExhausted
          <5>3. ASSUME NEW b \in Blocks
                PROVE  Cardinality(Places(b)') <= pushes'[b]
            <6>1. Places(b)' = {}
              BY <5>1 DEF Places
            <6>2. pushes'[b] \in Nat
              BY <4>2 DEF WorkerEmpty, historyVars, TypeOK, HistoryTypes
            <6>3. QED
              BY <6>1, <6>2, FS_EmptySet
          <5>4. QED
            BY <3>3, <5>1, <5>2, <5>3 DEF WorkersDrain, RunDry
        <4>3. QED
          BY <3>3, <4>1, <4>2 DEF WorkersDrain
      <3>6. QED
        BY <3>4, <3>5
    <2>6. QED
      <3>1. ASSUME NEW run \in Runs, RunStep(run)
            PROVE  UNCHANGED <<cmbPc, workerPc>>
        BY <3>1 DEF RunStep, StartRun, CheckRun, SolveFails, SetAdjusted,
           TestOther, PushBlock, FinishRun, TestFinished, ExhaustQueue,
           HandlerTest, HandlerPush, SolveForward, UpdateForward,
           CarryForward, NotifyAll, SolveReverse, UpdateReverse,
           CarryReverse, FinalReverse
      <3>2. CASE LeaveLoop \/ JoinThreads \/ UpdateBlock \/ Finish
                   \/ SpuriousWakeup \/ CancelAdjustment \/ UNCHANGED vars
        BY <2>3, <3>2 DEF LeaveLoop, JoinThreads, UpdateBlock, Finish,
           SpuriousWakeup, CancelAdjustment, vars, threadVars
      <3>3. QED
        BY <1>2, <2>3, <2>4, <2>5, <3>1, <3>2, StepCases DEF Aside
  <1>3. QED
    BY <1>1, <1>2
-----------------------------------------------------------------------------
(* InnerRows: the steps that do not concern the rows of a block. *)

LEMMA WaitingType ==
  ASSUME TypeOK, NEW b
  PROVE  Waiting(b) \in Nat
  BY PlacesFinite, HoldersFinite DEF Waiting

LEMMA WaitingKept ==
  ASSUME NEW b, UNCHANGED <<the_queue, workerPc, workerBlock>>
  PROVE  Waiting(b)' = Waiting(b) /\ Preparers(b)' = Preparers(b)
  BY DEF Waiting, Places, Holders, Preparers

LEMMA RowsOfKept ==
  ASSUME NEW b \in Blocks, RowsOf(b),
         reverse'[b].rows = reverse[b].rows,
         pushes'[b] = pushes[b],
         b \in leftover => b \in leftover',
         Waiting(b)' = Waiting(b),
         Preparers(b)' = Preparers(b),
         \A w \in Preparers(b) : workerRows'[w] = workerRows[w],
         Carried(b)' <=> Carried(b),
         Broken => Broken'
  PROVE  RowsOf(b)'
  BY DEF RowsOf, RowsAfterCarry, RowsBeforeCarry, Exactly, Idle, OnePreparer

(* Only a carry from the next block changes what an inner block has got.   *)
LEMMA OnlyCarryCarries ==
  ASSUME TypeOK, ProtocolInv, ReverseOnBlock, [Next]_vars, ~StartIteration,
         NEW b \in Blocks, CombineRequired(b)
  PROVE  \/ Carried(b)' <=> Carried(b)
         \/ CarryReverse /\ runBlock["rev"] = b + 1
  <1> SUFFICES ASSUME Carried(b)', ~Carried(b)
               PROVE  CarryReverse /\ runBlock["rev"] = b + 1
    BY CarriedKept
  <1>1. b \in Int /\ runBlock["rev"] \in Int /\ BlockCount \in Int
          /\ 0 <= b /\ b < BlockCount - 1
    BY BlockCountAssumption
    DEF TypeOK, ThreadTypes, Runs, Blocks, CombineRequired, BlockLast
  <1>2. ~BlockLast(b) /\ b + 1 - 1 = b
    BY <1>1 DEF CombineRequired
  <1>3. RunStep("rev")
    <2>1. ASSUME RunStep("fwd") PROVE FALSE
      <3>1. UNCHANGED <<runPc["rev"], runBlock["rev"]>>
        BY <2>1, RunMoves DEF Runs, Other
      <3>2. QED
        BY <3>1 DEF Carried, Begun
    <2>2. QED
      BY <2>1, StepCases, AsideLeavesRuns DEF Carried, Begun, Runs
  <1>4. runPc["rev"] # "start"
    <2>1. ASSUME runPc["rev"] = "start" PROVE FALSE
      <3>1. runBlock'["rev"] = BlockCount - 1 /\ runPc'["rev"] = "check"
        BY <1>3, <2>1
        DEF TypeOK, ThreadTypes, Runs, RunStep, StartRun, CheckRun, SolveFails,
          SetAdjusted, TestOther, PushBlock, FinishRun, TestFinished,
          ExhaustQueue, HandlerTest, HandlerPush, SolveReverse,
          UpdateReverse, CarryReverse, FinalReverse, FirstOfRun, RunGoto
      <3>2. QED
        BY <1>1, <3>1 DEF Carried
    <2>2. QED
      BY <2>1
  <1>5. Begun("rev") /\ ~(runBlock["rev"] <= b)
    BY <1>3, <1>4, RunMoves DEF Carried, Begun, Runs
  <1>6. runBlock["rev"] = b + 1 /\ runPc["rev"] \notin {"set", "test", "push"}
    <2>1. \/ runBlock'["rev"] = runBlock["rev"]
          \/ runBlock'["rev"] = runBlock["rev"] - 1 /\ runPc'["rev"] = "check"
      BY <1>3, <1>4, RunMoves DEF Runs
    <2>2. \/ runBlock'["rev"] <= b
          \/ runBlock'["rev"] = b + 1 /\ runPc'["rev"] # "check"
      BY DEF Carried
    <2>3. runBlock["rev"] = b + 1
      BY <1>1, <1>5, <2>1, <2>2
    <2>4. QED
      BY <1>5, <2>3 DEF Carried
  <1>7. ~BlockFirst(b + 1)
    BY <1>1, <1>2 DEF BlockFirst, BlockLast
  <1>8. CarryReverse
    BY <1>3, <1>4, <1>6, <1>7
    DEF TypeOK, ThreadTypes, Runs, RunStep, StartRun, CheckRun, SolveFails,
      SetAdjusted, TestOther, PushBlock, FinishRun, TestFinished,
      ExhaustQueue, AfterExhaust, HandlerTest, AfterFailure, HandlerPush,
      SolveReverse, UpdateReverse, CarryReverse, FinalReverse, RunNextBlock,
      RunGoto, Carried, Begun, ReverseOnBlock, BlockIsolated
  <1>9. QED
    BY <1>6, <1>8
(* Sides of the state that the steps of a run leave alone.                 *)
LEMMA RunLeavesWorkers ==
  ASSUME NEW run \in Runs, RunStep(run)
  PROVE  UNCHANGED <<workerPc, workerBlock, workerRows, leftover, cmbPc>>
  BY DEF RunStep, StartRun, CheckRun, SolveFails, SetAdjusted, TestOther,
         PushBlock, FinishRun, TestFinished, ExhaustQueue, HandlerTest,
         HandlerPush, SolveForward, UpdateForward, CarryForward, NotifyAll,
         SolveReverse, UpdateReverse, CarryReverse, FinalReverse, historyVars

LEMMA RowsType ==
  ASSUME TypeOK, NEW b \in Blocks
  PROVE  reverse[b].rows \in Int
  BY DEF TypeOK, MatrixTypes, ReverseState

(* CarryReverse appends rows to the block before it and to no other.       *)
LEMMA CarryAppends ==
  ASSUME TypeOK, CarryReverse, NEW b \in Blocks
  PROVE  reverse'[b].rows =
           IF runBlock["rev"] = b + 1 /\ CarriesReverse(runBlock["rev"])
           THEN reverse[b].rows + 1 ELSE reverse[b].rows
  <1> DEFINE k == runBlock["rev"]
             carried == CarriedReverse(k)
  <1>1. k \in Blocks /\ k \in Int /\ b \in Int
    BY DEF TypeOK, ThreadTypes, Runs, Blocks
  <1>2. CASE ~CarriesReverse(k)
    BY <1>2 DEF CarryReverse
  <1>3. CASE CarriesReverse(k)
    <2>1. reverse' = [reverse EXCEPT ![k - 1] = carried]
      BY <1>3 DEF CarryReverse
    <2>2. reverse \in [Blocks -> ReverseState]
      BY DEF TypeOK, MatrixTypes
    <2>3. k - 1 \in Blocks
      BY <1>1, <1>3, BlockCountAssumption
      DEF CarriesReverse, BlockFirst, Blocks
    <2>4. carried.rows = reverse[k - 1].rows + 1
      BY <2>2, <2>3 DEF CarriedReverse, ReverseState
    <2> HIDE DEF carried, k
    <2>5. CASE k = b + 1
      <3>1. k - 1 = b
        BY <1>1, <2>5
      <3>2. reverse'[b] = carried
        BY <2>1, <2>2, <3>1
      <3>3. QED
        BY <1>3, <2>4, <2>5, <3>1, <3>2 DEF k
    <2>6. CASE k # b + 1
      <3>1. k - 1 # b
        BY <1>1, <2>6
      <3>2. QED
        BY <2>1, <2>2, <2>6, <3>1 DEF k
    <2>7. QED
      BY <2>5, <2>6
  <1>4. QED
    BY <1>2, <1>3

LEMMA CarryReverseRows ==
  ASSUME TypeOK, ProtocolInv, ReverseOnBlock, InnerRows, CarryReverse,
         [Next]_vars, NEW b \in Blocks, CombineRequired(b)
  PROVE  RowsOf(b)'
  <1>1. RowsOf(b)
    BY DEF InnerRows
  <1>2. /\ UNCHANGED <<workerPc, workerBlock, workerRows, leftover, pushes,
                       the_queue>>
        /\ ~StartIteration
        /\ runPc["rev"] = "carry"
    BY DEF CarryReverse, historyVars, queueVars, StartIteration, TypeOK,
           ThreadTypes, RunLabels, ProtocolInv, Quiet, Runs
  <1>3. Waiting(b)' = Waiting(b) /\ Preparers(b)' = Preparers(b)
    BY <1>2, WaitingKept
  <1>4. b \in Int /\ runBlock["rev"] \in Int
    BY DEF TypeOK, ThreadTypes, Runs, Blocks
  <1>5. CASE runBlock["rev"] # b + 1
    <2>1. Carried(b)' <=> Carried(b)
      BY <1>2, <1>5, OnlyCarryCarries
    <2>2. reverse'[b].rows = reverse[b].rows
      BY <1>5, CarryAppends
    <2>3. QED
      BY <1>1, <1>2, <1>3, <2>1, <2>2, BrokenKept, RowsOfKept
  <1>6. CASE runBlock["rev"] = b + 1
    <2>1. ~Carried(b)
      BY <1>2, <1>4, <1>6 DEF Carried
    <2>2. RowsBeforeCarry(b)
      BY <1>1, <2>1 DEF RowsOf
    <2>3. CarriesReverse(b + 1)
      <3>1. 0 <= b
        BY DEF Blocks
      <3>2. b # BlockCount - 1 /\ NetOf[b] = NetOf[b + 1] /\ (b + 1) - 1 = b
        BY <1>4 DEF CombineRequired, BlockLast
      <3>3. ~BlockFirst(b + 1)
        BY <1>4, <3>1, <3>2 DEF BlockFirst
      <3>4. QED
        BY <1>2, <1>6, <3>3 DEF ReverseOnBlock, CarriesReverse
    <2>4. reverse'[b].rows = reverse[b].rows + 1
      BY <1>6, <2>3, CarryAppends
    <2>5. Carried(b)'
      <3>1. CASE CombineRequired(b + 1)
        <4>1. runPc'["rev"] = "set" /\ runBlock'["rev"] = b + 1
          BY <1>6, <3>1 DEF CarryReverse, RunGoto, TypeOK, ThreadTypes, Runs
        <4>2. QED
          BY <4>1 DEF Carried, Begun
      <3>2. CASE ~CombineRequired(b + 1)
        <4>1. ~BlockFirst(b + 1) /\ b + 1 # LastOfRun("rev") /\ (b + 1) - 1 = b
          BY <1>4, <2>3 DEF CarriesReverse, LastOfRun, Blocks
        <4>2. runPc'["rev"] = "check" /\ runBlock'["rev"] = b
          BY <1>6, <3>2, <4>1
          DEF CarryReverse, RunNextBlock, RunGoto, TypeOK, ThreadTypes, Runs
        <4>3. QED
          BY <1>4, <4>2 DEF Carried, Begun
      <3>3. QED
        BY <3>1, <3>2
    <2>6. RowsAfterCarry(b)'
      <3> DEFINE n == Waiting(b)
                 r == reverse[b].rows
      <3>1. n \in Nat /\ r \in Int
        BY WaitingType, RowsType
      <3>2. /\ Waiting(b)' = n
            /\ reverse'[b].rows = r + 1
            /\ pushes[b] = 0 /\ pushes'[b] = 0
            /\ leftover' = leftover
            /\ Idle(b)' <=> Idle(b)
            /\ OnePreparer(b, 2)' <=> OnePreparer(b, 2)
            /\ Broken => Broken'
        BY <1>2, <1>3, <2>2, <2>4, BrokenKept
        DEF RowsBeforeCarry, Idle, OnePreparer
      <3>3. \/ r = 0 /\ n = 0 /\ Idle(b)
            \/ r = 1 /\ b \in leftover /\ n <= 1 /\ (Broken \/ n = 1) /\ Idle(b)
            \/ /\ r = 2 /\ b \in leftover /\ n = 0
               /\ OnePreparer(b, 2) \/ (Idle(b) /\ Broken)
        BY <2>2 DEF RowsBeforeCarry, Exactly
      <3> HIDE DEF n, r
      <3>4. CASE r = 0 /\ n = 0 /\ Idle(b)
        <4>1. reverse'[b].rows = 1 /\ Waiting(b)' <= pushes'[b]
                /\ Waiting(b)' = pushes'[b] /\ Idle(b)'
          BY <3>2, <3>4
        <4>2. QED
          BY <4>1 DEF RowsAfterCarry, Exactly
      <3>5. CASE r = 1 /\ b \in leftover /\ n <= 1 /\ (Broken \/ n = 1) /\ Idle(b)
        <4>1. reverse'[b].rows = 2 /\ Idle(b)' /\ b \in leftover'
                /\ (Broken' \/ Waiting(b)' > pushes'[b])
          BY <3>1, <3>2, <3>5
        <4>2. QED
          BY <4>1 DEF RowsAfterCarry
      <3>6. CASE /\ r = 2 /\ b \in leftover /\ n = 0
                 /\ OnePreparer(b, 2) \/ (Idle(b) /\ Broken)
        <4>1. reverse'[b].rows = 3 /\ b \in leftover'
                /\ Waiting(b)' <= pushes'[b] /\ Waiting(b)' = pushes'[b]
                /\ (OnePreparer(b, 2)' \/ (Idle(b)' /\ Broken'))
          BY <3>2, <3>6
        <4>2. QED
          BY <4>1 DEF RowsAfterCarry, Exactly
      <3>7. QED
        BY <3>3, <3>4, <3>5, <3>6
    <2>7. QED
      BY <2>5, <2>6 DEF RowsOf
  <1>7. QED
    BY <1>5, <1>6
-----------------------------------------------------------------------------
(* InnerRows: the steps of a worker. *)

LEMMA WorkerLeaves ==
  ASSUME TypeOK, NEW w \in Workers, Worker(w)
  PROVE  /\ UNCHANGED <<runPc, runBlock, running, adjusted, pushes, leftover>>
         /\ \A v \in Workers : v # w =>
              /\ workerPc'[v] = workerPc[v]
              /\ workerBlock'[v] = workerBlock[v]
              /\ workerRows'[v] = workerRows[v]
         /\ workerPc'[w] \in WorkerLabels
  BY DEF TypeOK, ThreadTypes, Worker, WorkerTop, WorkerMore, AfterFlag,
     WorkerEmpty, WorkerErrors, AfterFailure, WorkerSentinel, WorkerPop,
     WorkerPrepare, WorkerSolve, WorkerThrows, WorkerCombine, WorkerFinal,
     WorkerGoto, WorkerLabels, flagVars, historyVars

(* What a worker's step does to who has a block.                           *)
(* A block that nobody gains and somebody may lose, in a broken adjustment. *)
LEMMA RowsOfDrop ==
  ASSUME TypeOK, NEW b \in Blocks, RowsOf(b), Broken',
         reverse'[b].rows = reverse[b].rows,
         pushes'[b] = pushes[b],
         b \in leftover => b \in leftover',
         Waiting(b)' \in Nat, Waiting(b)' <= Waiting(b),
         Preparers(b)' = Preparers(b) \/ Preparers(b)' = {},
         \A w \in Preparers(b) : workerRows'[w] = workerRows[w],
         Carried(b)' <=> Carried(b)
  PROVE  RowsOf(b)'
  <1> DEFINE n == Waiting(b)
             m == Waiting(b)'
             r == reverse[b].rows
             p == pushes[b]
  <1>1. n \in Nat /\ m \in Nat /\ m <= n /\ r \in Int /\ p \in Nat
    BY WaitingType, RowsType DEF TypeOK, HistoryTypes
  <1>2. /\ Idle(b) => Idle(b)'
        /\ \A i : OnePreparer(b, i) => OnePreparer(b, i)' \/ Idle(b)'
    BY DEF Idle, OnePreparer
  <1>3. /\ m <= n
        /\ n = 0 => m = 0
        /\ n <= 1 => m <= 1
        /\ n <= p => m <= p
        /\ n <= p - 1 => m <= p - 1 /\ m <= p
        /\ n <= p - 2 => m <= p - 2 /\ m <= p /\ m <= p - 1
    BY <1>1
  <1> HIDE DEF n, m, r, p
  <1>4. RowsBeforeCarry(b) => RowsBeforeCarry(b)'
    BY <1>2, <1>3 DEF RowsBeforeCarry, Exactly, n, m, r, p
  <1>5. RowsAfterCarry(b) => RowsAfterCarry(b)'
    BY <1>2, <1>3 DEF RowsAfterCarry, Exactly, n, m, r, p
  <1>6. QED
    BY <1>4, <1>5 DEF RowsOf
LEMMA HoldersLeave ==
  ASSUME TypeOK, NEW w \in Workers, NEW b, w \in Holders(b),
         Holders(b)' = Holders(b) \ {w}, UNCHANGED the_queue
  PROVE  Waiting(b)' = Waiting(b) - 1 /\ Waiting(b) >= 1
  <1>1. Places(b)' = Places(b)
    BY DEF Places
  <1>2. /\ Cardinality(Holders(b)') = Cardinality(Holders(b)) - 1
        /\ Cardinality(Holders(b)) \in Nat
        /\ Cardinality(Holders(b)) # 0
    BY HoldersFinite, FS_RemoveElement, FS_EmptySet
  <1>3. Cardinality(Places(b)) \in Nat
    BY PlacesFinite
  <1>4. QED
    BY <1>1, <1>2, <1>3 DEF Waiting

LEMMA PrepareRows ==
  ASSUME TypeOK, ProtocolInv, PushesBounded, InnerRows, [Next]_vars,
         NEW w \in Workers, WorkerPrepare(w), NEW b \in Blocks, CombineRequired(b)
  PROVE  RowsOf(b)'
  <1>1. RowsOf(b) /\ reverse[b].rows \in Int /\ pushes[b] \in Nat
          /\ Waiting(b) \in Nat /\ pushes[b] <= 2
    BY RowsType, WaitingType
    DEF InnerRows, TypeOK, HistoryTypes, PushesBounded, Turn
  <1>2. /\ Worker(w)
        /\ workerPc[w] = "prepare"
        /\ UNCHANGED <<runPc, runBlock, pushes, leftover, workerBlock,
                       the_queue>>
    BY DEF Worker, WorkerPrepare, historyVars, queueVars
  <1>3. Carried(b)' <=> Carried(b)
    BY <1>2 DEF Carried, Begun
  <1>4. Broken => Broken'
    BY BrokenKept
  <1>5. CASE workerBlock[w] # b
    <2>1. Holders(b)' = Holders(b) /\ Preparers(b)' = Preparers(b)
            /\ w \notin Preparers(b)
      BY <1>2, <1>5, WorkerLeaves DEF Holders, Preparers
    <2>2. Waiting(b)' = Waiting(b)
      BY <1>2, <2>1 DEF Waiting, Places
    <2>3. reverse'[b].rows = reverse[b].rows
      BY <1>5 DEF WorkerPrepare, TypeOK, MatrixTypes
    <2>4. \A v \in Preparers(b) : workerRows'[v] = workerRows[v]
      BY <1>2, <2>1, WorkerLeaves DEF Preparers
    <2>5. QED
      BY <1>1, <1>2, <1>3, <1>4, <2>1, <2>2, <2>3, <2>4, RowsOfKept
  <1>6. CASE workerBlock[w] = b
    <2>1. w \in Holders(b)
      BY <1>2, <1>6 DEF Holders
    <2>2. workerPc'[w] = IF RowsAvailable(b) THEN "solve" ELSE "done"
      BY <1>6 DEF WorkerPrepare, WorkerGoto, WorkerThrows, TypeOK, ThreadTypes
    <2>3. Holders(b)' = Holders(b) \ {w}
      BY <1>2, <2>1, <2>2, WorkerLeaves DEF Holders
    <2>4. Waiting(b)' = Waiting(b) - 1 /\ Waiting(b) >= 1
      BY <1>2, <2>1, <2>3, HoldersLeave
    <2>5. CASE ~RowsAvailable(b)
      <3>1. Broken'
        BY <1>6, <2>5 DEF WorkerPrepare, WorkerThrows, Broken, Failing, TypeOK,
                          ErrorTypes
      <3>2. Preparers(b)' = Preparers(b)
        BY <1>2, <2>2, <2>5, WorkerLeaves DEF Preparers
      <3>3. reverse'[b].rows = reverse[b].rows
        BY <1>6, <2>5 DEF WorkerPrepare, PreparedReverse, TypeOK, MatrixTypes,
                          ReverseState
      <3>4. UNCHANGED workerRows
        BY <1>6, <2>5 DEF WorkerPrepare
      <3>5. Waiting(b)' \in Nat /\ Waiting(b)' <= Waiting(b)
        BY <1>1, <2>4
      <3>6. QED
        BY <1>1, <1>2, <1>3, <3>1, <3>2, <3>3, <3>4, <3>5, RowsOfDrop
    <2>6. CASE RowsAvailable(b)
      <3> DEFINE n == Waiting(b)
                 r == reverse[b].rows
                 p == pushes[b]
      <3>1. r < 2
        BY <2>6 DEF RowsAvailable
      <3>2. reverse'[b].rows = r + 1 /\ workerRows'[w] = r + 1
        BY <1>6, <2>6 DEF WorkerPrepare, PreparedReverse, TypeOK, MatrixTypes,
                          ReverseState, ThreadTypes
      <3>3. Preparers(b)' = Preparers(b) \cup {w}
        BY <1>2, <1>6, <2>2, <2>6, WorkerLeaves DEF Preparers
      <3>4. n \in Nat /\ r \in Int /\ p \in Nat /\ p <= 2 /\ n >= 1
              /\ Waiting(b)' = n - 1 /\ pushes'[b] = p /\ leftover' = leftover
        BY <1>1, <1>2, <2>4
      <3>5. \A i : i = r + 1 /\ Idle(b) => OnePreparer(b, i)'
        <4>1. SUFFICES ASSUME NEW i, i = r + 1, Idle(b)
                       PROVE  OnePreparer(b, i)'
          OBVIOUS
        <4>2. workerRows'[w] = i /\ Preparers(b)' = {w}
          BY <3>2, <3>3, <4>1 DEF Idle
        <4>3. QED
          BY <4>2 DEF OnePreparer
      <3>6. CASE ~Carried(b)
        <4>1. p = 0 /\ r = 1 /\ b \in leftover /\ n <= 1 /\ Idle(b)
          BY <1>1, <3>1, <3>4, <3>6 DEF RowsOf, RowsBeforeCarry, Exactly
        <4>2. /\ pushes'[b] = 0 /\ reverse'[b].rows = 2 /\ b \in leftover'
              /\ Waiting(b)' = 0 /\ OnePreparer(b, 2)'
          BY <3>2, <3>4, <3>5, <4>1
        <4>3. QED
          BY <1>3, <3>6, <4>2 DEF RowsOf, RowsBeforeCarry
      <3>7. CASE Carried(b)
        <4>1. \/ r = 0 /\ n <= p - 1 /\ Idle(b)
              \/ r = 1 /\ n <= p /\ Idle(b)
          BY <1>1, <3>1, <3>4, <3>7 DEF RowsOf, RowsAfterCarry, Exactly
        <4> HIDE DEF n, r, p
        <4>2. CASE r = 0 /\ n <= p - 1 /\ Idle(b)
          <5>1. /\ reverse'[b].rows = 1 /\ Waiting(b)' <= pushes'[b] - 2
                /\ OnePreparer(b, 1)'
            BY <3>2, <3>4, <3>5, <4>2
          <5>2. QED
            BY <1>3, <3>7, <5>1 DEF RowsOf, RowsAfterCarry
        <4>3. CASE r = 1 /\ n <= p /\ Idle(b)
          <5>1. /\ reverse'[b].rows = 2 /\ Waiting(b)' <= pushes'[b] - 1
                /\ OnePreparer(b, 2)'
            BY <3>2, <3>4, <3>5, <4>3
          <5>2. QED
            BY <1>3, <3>7, <5>1 DEF RowsOf, RowsAfterCarry
        <4>4. QED
          BY <4>1, <4>2, <4>3
      <3>8. QED
        BY <3>6, <3>7
    <2>7. QED
      BY <2>5, <2>6
  <1>7. QED
    BY <1>5, <1>6

LEMMA SolveRows ==
  ASSUME TypeOK, ProtocolInv, InnerRows, [Next]_vars,
         NEW w \in Workers, WorkerSolve(w), NEW b \in Blocks, CombineRequired(b)
  PROVE  RowsOf(b)'
  <1>1. RowsOf(b) /\ Waiting(b) \in Nat
    BY WaitingType DEF InnerRows
  <1>2. /\ Worker(w)
        /\ workerPc[w] = "solve"
        /\ UNCHANGED <<runPc, runBlock, pushes, leftover, workerBlock,
                       workerRows, the_queue>>
    BY DEF Worker, WorkerSolve, historyVars, queueVars
  <1>3. Carried(b)' <=> Carried(b)
    BY <1>2 DEF Carried, Begun
  <1>4. reverse'[b].rows = reverse[b].rows
    BY DEF WorkerSolve, TypeOK, MatrixTypes, ReverseState
  <1>5. workerPc'[w] = "combine" \/ (workerPc'[w] = "done" /\ Broken')
    BY DEF WorkerSolve, WorkerGoto, WorkerThrows, TypeOK, ThreadTypes, ErrorTypes,
           Broken, Failing
  <1>6. Holders(b)' = Holders(b)
    BY <1>2, <1>5, WorkerLeaves DEF Holders
  <1>7. Waiting(b)' = Waiting(b)
    BY <1>2, <1>6 DEF Waiting, Places
  <1>8. CASE Preparers(b)' = Preparers(b)
    BY <1>1, <1>2, <1>3, <1>4, <1>7, <1>8, BrokenKept, RowsOfKept
  <1>9. CASE Preparers(b)' # Preparers(b)
    <2>1. w \in Preparers(b) /\ Broken' /\ Preparers(b)' = Preparers(b) \ {w}
      BY <1>2, <1>5, <1>9, WorkerLeaves DEF Preparers
    <2>2. Preparers(b) = {w}
      BY <1>1, <2>1 DEF RowsOf, RowsBeforeCarry, RowsAfterCarry, Idle, OnePreparer
    <2>3. Preparers(b)' = {}
      BY <2>1, <2>2
    <2>4. QED
      BY <1>1, <1>2, <1>3, <1>4, <1>7, <2>1, <2>3, RowsOfDrop
  <1>10. QED
    BY <1>8, <1>9

LEMMA CombineRows ==
  ASSUME TypeOK, ProtocolInv, InnerRows, [Next]_vars,
         NEW w \in Workers, WorkerCombine(w), NEW b \in Blocks, CombineRequired(b)
  PROVE  RowsOf(b)'
  <1>1. RowsOf(b) /\ reverse[b].rows \in Int /\ pushes[b] \in Nat
          /\ Waiting(b) \in Nat
    BY RowsType, WaitingType DEF InnerRows, TypeOK, HistoryTypes
  <1>2. /\ Worker(w)
        /\ workerPc[w] = "combine" /\ workerPc'[w] = "final"
        /\ UNCHANGED <<runPc, runBlock, pushes, leftover, workerBlock,
                       workerRows, the_queue>>
    BY DEF Worker, WorkerCombine, WorkerGoto, historyVars, queueVars, TypeOK,
           ThreadTypes
  <1>3. Carried(b)' <=> Carried(b)
    BY <1>2 DEF Carried, Begun
  <1>4. Holders(b)' = Holders(b)
    BY <1>2, WorkerLeaves DEF Holders
  <1>5. Waiting(b)' = Waiting(b)
    BY <1>2, <1>4 DEF Waiting, Places
  <1>6. Broken => Broken'
    BY BrokenKept
  <1>7. CASE workerBlock[w] # b
    <2>1. Preparers(b)' = Preparers(b)
      BY <1>2, <1>7, WorkerLeaves DEF Preparers
    <2>2. reverse'[b].rows = reverse[b].rows
      BY <1>7 DEF WorkerCombine, TypeOK, MatrixTypes
    <2>3. QED
      BY <1>1, <1>2, <1>3, <1>5, <1>6, <2>1, <2>2, RowsOfKept
  <1>8. CASE workerBlock[w] = b
    <2>1. w \in Preparers(b) /\ Preparers(b)' = Preparers(b) \ {w}
      BY <1>2, <1>8, WorkerLeaves DEF Preparers
    <2>2. reverse'[b].rows = reverse[b].rows - workerRows[w]
      BY <1>8 DEF WorkerCombine, CombinedReverse, ShrinkBy, TypeOK, MatrixTypes,
                  ReverseState
    <2> DEFINE n == Waiting(b)
               r == reverse[b].rows
               p == pushes[b]
               c == workerRows[w]
    <2>3. \A i : OnePreparer(b, i) => Preparers(b) = {w} /\ c = i
      BY <2>1 DEF OnePreparer
    <2>4. ~Idle(b)
      BY <2>1 DEF Idle
    <2>5. /\ n \in Nat /\ r \in Int /\ p \in Nat
          /\ Waiting(b)' = n /\ pushes'[b] = p /\ reverse'[b].rows = r - c
          /\ leftover' = leftover
      BY <1>1, <1>2, <1>5, <2>2
    <2>6. CASE ~Carried(b)
      <3>1. p = 0 /\ r = 2 /\ n = 0 /\ c = 2 /\ Preparers(b) = {w}
        BY <1>1, <2>3, <2>4, <2>6 DEF RowsOf, RowsBeforeCarry
      <3>2. pushes'[b] = 0 /\ reverse'[b].rows = 0 /\ Waiting(b)' = 0
              /\ Preparers(b)' = {}
        BY <2>1, <2>5, <3>1
      <3>3. QED
        BY <1>3, <2>6, <3>2 DEF RowsOf, RowsBeforeCarry, Idle
    <2>7. CASE Carried(b)
      <3>1. /\ Preparers(b) = {w}
            /\ \/ r = 1 /\ c = 1 /\ n <= p - 2
               \/ r = 2 /\ c = 2 /\ n <= p - 1
               \/ r = 3 /\ c = 2 /\ n <= p /\ (Broken \/ n = p)
        BY <1>1, <2>3, <2>4, <2>7 DEF RowsOf, RowsAfterCarry, Exactly
      <3>2. Preparers(b)' = {}
        BY <2>1, <3>1
      <3> HIDE DEF n, r, p, c
      <3>3. \/ reverse'[b].rows = 0 /\ Waiting(b)' <= pushes'[b] - 1
            \/ /\ reverse'[b].rows = 1 /\ Waiting(b)' <= pushes'[b]
               /\ Broken' \/ Waiting(b)' = pushes'[b]
        BY <1>6, <2>5, <3>1
      <3>4. QED
        BY <1>3, <2>7, <3>2, <3>3 DEF RowsOf, RowsAfterCarry, Idle, Exactly
    <2>8. QED
      BY <2>6, <2>7
  <1>9. QED
    BY <1>7, <1>8

(* Taking a block off the queue does not change who waits for what.        *)
LEMMA PopWaiting ==
  ASSUME TypeOK, NEW w \in Workers, WorkerPop(w), NEW b
  PROVE  /\ Waiting(b)' = Waiting(b)
         /\ workerPc[w] = "pop" /\ workerPc'[w] \in {"recheck", "top"}
         /\ Worker(w)
  <1>1. /\ Worker(w)
        /\ workerPc[w] = "pop"
    BY DEF Worker, WorkerPop
  <1>2. w \notin Holders(b)
    BY <1>1 DEF Holders
  <1>3. workerPc'[w] \in {"recheck", "top"}
    BY DEF WorkerPop, WorkerGoto, TypeOK, ThreadTypes
  <1>4. Waiting(b)' = Waiting(b)
    <2>1. CASE workerPc'[w] = "top" /\ UNCHANGED <<workerBlock, the_queue>>
      <3>1. Holders(b)' = Holders(b)
        BY <1>1, <1>2, <2>1, WorkerLeaves DEF Holders
      <3>2. QED
        BY <2>1, <3>1 DEF Waiting, Places
    <2>2. ASSUME NEW x \in Blocks \cup {Sentinel}, front_and_pop(x),
                 workerBlock' = [workerBlock EXCEPT ![w] = x],
                 workerPc'[w] = "recheck"
          PROVE  Waiting(b)' = Waiting(b)
      <3>1. Cardinality(Places(b)') =
              Cardinality(Places(b)) - (IF x = b THEN 1 ELSE 0)
        BY <2>2, CountPop
      <3>2. workerBlock'[w] = x
        BY <2>2 DEF TypeOK, ThreadTypes
      <3>3. Cardinality(Places(b)) \in Nat /\ IsFiniteSet(Holders(b))
              /\ Cardinality(Holders(b)) \in Nat
        BY PlacesFinite, HoldersFinite
      <3>4. CASE x = b
        <4>1. Holders(b)' = Holders(b) \cup {w}
          BY <1>1, <2>2, <3>2, <3>4, WorkerLeaves DEF Holders
        <4>2. Cardinality(Holders(b)') = Cardinality(Holders(b)) + 1
          BY <1>2, <3>3, <4>1, FS_AddElement
        <4>3. QED
          BY <3>1, <3>3, <3>4, <4>2 DEF Waiting
      <3>5. CASE x # b
        <4>1. Holders(b)' = Holders(b)
          BY <1>1, <1>2, <2>2, <3>2, <3>5, WorkerLeaves DEF Holders
        <4>2. QED
          BY <3>1, <3>3, <3>5, <4>1 DEF Waiting
      <3>6. QED
        BY <3>4, <3>5
    <2>3. QED
      BY <2>1, <2>2 DEF WorkerPop, WorkerGoto, queueVars, TypeOK, ThreadTypes
  <1>5. QED
    BY <1>1, <1>3, <1>4

LEMMA PopRows ==
  ASSUME TypeOK, ProtocolInv, InnerRows, [Next]_vars,
         NEW w \in Workers, WorkerPop(w), NEW b \in Blocks, CombineRequired(b)
  PROVE  RowsOf(b)'
  <1>1. RowsOf(b)
    BY DEF InnerRows
  <1>2. UNCHANGED <<runPc, runBlock, pushes, leftover, workerRows, reverse>>
    BY DEF WorkerPop, historyVars, matrixVars
  <1>3. Carried(b)' <=> Carried(b)
    BY <1>2 DEF Carried, Begun
  <1>4. Preparers(b)' = Preparers(b)
    BY PopWaiting, WorkerLeaves DEF Preparers
  <1>5. Waiting(b)' = Waiting(b)
    BY PopWaiting
  <1>6. QED
    BY <1>1, <1>2, <1>3, <1>4, <1>5, BrokenKept, RowsOfKept

LEMMA ErrorsRows ==
  ASSUME TypeOK, ProtocolInv, InnerRows, [Next]_vars,
         NEW w \in Workers, WorkerErrors(w), NEW b \in Blocks, CombineRequired(b)
  PROVE  RowsOf(b)'
  <1>1. RowsOf(b) /\ Waiting(b) \in Nat
    BY WaitingType DEF InnerRows
  <1>2. /\ Worker(w)
        /\ workerPc[w] \in {"errors", "recheck"}
        /\ UNCHANGED <<runPc, runBlock, pushes, leftover, workerBlock,
                       workerRows, reverse, the_queue>>
    BY DEF Worker, WorkerErrors, historyVars, matrixVars, queueVars
  <1>3. Carried(b)' <=> Carried(b)
    BY <1>2 DEF Carried, Begun
  <1>4. \/ workerPc'[w] \in {"sentinel", "done"} /\ Broken
        \/ workerPc[w] = "errors" /\ workerPc'[w] = "pop"
        \/ workerPc[w] = "recheck" /\ workerPc'[w] = "prepare"
    BY DEF WorkerErrors, WorkerGoto, AfterFailure, CombineExceptionThrown,
           Broken, Failing, TypeOK, ThreadTypes
  <1>5. Preparers(b)' = Preparers(b)
    BY <1>2, <1>4, WorkerLeaves DEF Preparers
  <1>6. Broken => Broken'
    BY BrokenKept
  <1>7. CASE Holders(b)' = Holders(b)
    <2>1. Waiting(b)' = Waiting(b)
      BY <1>2, <1>7 DEF Waiting, Places
    <2>2. QED
      BY <1>1, <1>2, <1>3, <1>5, <1>6, <2>1, RowsOfKept
  <1>8. CASE Holders(b)' # Holders(b)
    <2>1. w \in Holders(b) /\ Holders(b)' = Holders(b) \ {w} /\ Broken
      BY <1>2, <1>4, <1>8, WorkerLeaves DEF Holders
    <2>2. Waiting(b)' = Waiting(b) - 1 /\ Waiting(b) >= 1
      BY <1>2, <2>1, HoldersLeave
    <2>3. Waiting(b)' \in Nat /\ Waiting(b)' <= Waiting(b)
      BY <1>1, <2>2
    <2>4. QED
      BY <1>1, <1>2, <1>3, <1>5, <1>6, <2>1, <2>3, RowsOfDrop
  <1>9. QED
    BY <1>7, <1>8

LEMMA WorkerRowsOf ==
  ASSUME TypeOK, ProtocolInv, PushesBounded, InnerRows, [Next]_vars,
         NEW w \in Workers, Worker(w), NEW b \in Blocks, CombineRequired(b)
  PROVE  RowsOf(b)'
  <1>1. CASE WorkerPrepare(w) \/ WorkerSolve(w) \/ WorkerCombine(w)
               \/ WorkerPop(w) \/ WorkerErrors(w)
    BY <1>1, PrepareRows, SolveRows, CombineRows, PopRows, ErrorsRows
  <1>2. CASE WorkerTop(w) \/ WorkerMore(w) \/ WorkerEmpty(w)
               \/ WorkerSentinel(w) \/ WorkerFinal(w)
    <2>1. RowsOf(b)
      BY DEF InnerRows
    <2>2. /\ workerPc[w] \in {"top", "more", "empty", "sentinel", "final"}
          /\ workerPc'[w] \in {"done", "more", "errors", "empty", "top"}
          /\ UNCHANGED <<runPc, runBlock, pushes, leftover, workerBlock,
                         workerRows, reverse>>
      BY <1>2 DEF WorkerTop, WorkerMore, AfterFlag, WorkerEmpty,
         WorkerSentinel, WorkerFinal, WorkerGoto, historyVars, matrixVars,
         TypeOK, ThreadTypes
    <2>3. Holders(b)' = Holders(b) /\ Preparers(b)' = Preparers(b)
      BY <2>2, WorkerLeaves DEF Holders, Preparers
    <2>4. Cardinality(Places(b)') = Cardinality(Places(b))
      <3>1. CASE UNCHANGED the_queue
        BY <3>1 DEF Places
      <3>2. CASE WorkerSentinel(w)
        <4>1. Sentinel # b
          BY SentinelAssumption
        <4>2. Cardinality(Places(b)) \in Nat
          BY PlacesFinite
        <4>3. QED
          BY <3>2, <4>1, <4>2, CountPush DEF WorkerSentinel, push_and_notify
      <3>3. QED
        BY <1>2, <3>1, <3>2 DEF WorkerTop, WorkerMore, WorkerEmpty,
                                WorkerFinal, queueVars
    <2>5. Waiting(b)' = Waiting(b)
      BY <2>3, <2>4 DEF Waiting
    <2>6. Carried(b)' <=> Carried(b)
      BY <2>2 DEF Carried, Begun
    <2>7. QED
      BY <2>1, <2>2, <2>3, <2>5, <2>6, BrokenKept, RowsOfKept
  <1>3. QED
    BY <1>1, <1>2 DEF Worker
-----------------------------------------------------------------------------
(* InnerRows: the steps of a run, the other steps, a new iteration. *)

LEMMA PushRows ==
  ASSUME TypeOK, ProtocolInv, ReverseOnBlock, MarkedCarried, InnerRows,
         [Next]_vars,
         NEW run \in Runs, PushBlock(run), NEW b \in Blocks, CombineRequired(b)
  PROVE  RowsOf(b)'
  <1> DEFINE k == runBlock[run]
  <1>1. RowsOf(b) /\ Waiting(b) \in Nat /\ pushes[b] \in Nat
    BY WaitingType DEF InnerRows, TypeOK, HistoryTypes
  <1>2. /\ k \in Blocks
        /\ the_queue' = Append(the_queue, k)
        /\ UNCHANGED <<reverse, workerPc, workerBlock, workerRows, leftover>>
        /\ ~StartIteration
    BY DEF PushBlock, push_and_notify, matrixVars, StartIteration, ProtocolInv,
           Quiet, TypeOK, ThreadTypes
  <1>3. /\ k \in BothAdjusted
        /\ pushes'[k] = pushes[k] + 1
        /\ \A c \in Blocks : c # k => pushes'[c] = pushes[c]
    BY <1>2, PushPasses
  <1>4. ~CarryReverse
    <2>1. pushes[k] \in Nat
      BY <1>2 DEF TypeOK, HistoryTypes
    <2>2. pushes'[k] # pushes[k]
      BY <1>3, <2>1
    <2>3. QED
      BY <2>2 DEF CarryReverse, historyVars
  <1>5. Carried(b)' <=> Carried(b)
    BY <1>2, <1>4, OnlyCarryCarries
  <1>6. Preparers(b)' = Preparers(b) /\ Holders(b)' = Holders(b)
    BY <1>2 DEF Preparers, Holders
  <1>7. Waiting(b)' = Waiting(b) + (IF k = b THEN 1 ELSE 0)
    <2>1. Cardinality(Places(b)') =
            Cardinality(Places(b)) + (IF k = b THEN 1 ELSE 0)
      BY <1>2, CountPush
    <2>2. Cardinality(Places(b)) \in Nat /\ Cardinality(Holders(b)) \in Nat
      BY PlacesFinite, HoldersFinite
    <2> HIDE DEF k
    <2>3. QED
      BY <1>6, <2>1, <2>2 DEF Waiting
  <1> HIDE DEF k
  <1>8. Broken => Broken'
    BY BrokenKept
  <1>9. CASE k # b
    BY <1>1, <1>2, <1>3, <1>5, <1>6, <1>7, <1>8, <1>9, RowsOfKept
  <1>10. CASE k = b
    <2>1. Carried(b)
      BY <1>3, <1>10 DEF MarkedCarried, BothAdjusted
    <2>2. RowsAfterCarry(b)
      BY <1>1, <2>1 DEF RowsOf
    <2> DEFINE n == Waiting(b)
               p == pushes[b]
               m == Waiting(b)'
               q == pushes'[b]
    <2>3. n \in Nat /\ p \in Nat /\ m = n + 1 /\ q = p + 1
      BY <1>1, <1>3, <1>7, <1>10
    <2>4. /\ n <= p - 1 => m <= q - 1
          /\ n <= p - 2 => m <= q - 2
          /\ n <= p => m <= q
          /\ n = p => m = q
          /\ n > p => m > q
      BY <2>3
    <2> HIDE DEF n, p, m, q
    <2>5. RowsAfterCarry(b)'
      BY <1>2, <1>6, <1>8, <2>2, <2>4
      DEF RowsAfterCarry, Exactly, Idle, OnePreparer, n, p, m, q
    <2>6. QED
      BY <1>5, <2>1, <2>5 DEF RowsOf
  <1>11. QED
    BY <1>9, <1>10

(* A run changes the rows of a block only by CarryReverse and FinalReverse. *)
LEMMA RunKeepsRows ==
  ASSUME TypeOK, NEW run \in Runs, RunStep(run), ~CarryReverse, ~FinalReverse,
         NEW b \in Blocks
  PROVE  reverse'[b].rows = reverse[b].rows
  <1>1. CASE UNCHANGED reverse
    BY <1>1
  <1>2. CASE SolveReverse
    BY <1>2 DEF SolveReverse, SolvedReverse, TypeOK, MatrixTypes, ReverseState
  <1>3. CASE UpdateReverse
    BY <1>3 DEF UpdateReverse, TypeOK, MatrixTypes, ReverseState
  <1>4. QED
    BY <1>1, <1>2, <1>3
    DEF RunStep, StartRun, CheckRun, SolveFails, SetAdjusted, TestOther,
        PushBlock, FinishRun, TestFinished, ExhaustQueue, HandlerTest,
        HandlerPush, SolveForward, UpdateForward, CarryForward, NotifyAll,
        matrixVars

LEMMA RunRowsOf ==
  ASSUME TypeOK, ProtocolInv, ReverseOnBlock, MarkedCarried, InnerRows,
         [Next]_vars,
         NEW run \in Runs, RunStep(run), NEW b \in Blocks, CombineRequired(b)
  PROVE  RowsOf(b)'
  <1>1. CASE PushBlock(run)
    BY <1>1, PushRows
  <1>2. CASE CarryReverse
    BY <1>2, CarryReverseRows
  <1>3. CASE ~PushBlock(run) /\ ~CarryReverse
    <2>1. RowsOf(b)
      BY DEF InnerRows
    <2>2. UNCHANGED <<workerPc, workerBlock, workerRows, leftover, pushes>>
      BY <1>3, RunLeavesWorkers, OnlyPushCounts
    <2>3. ~StartIteration
      BY <2>1, RunMoves DEF StartIteration, ProtocolInv, Quiet, Runs, Other,
                     TypeOK, ThreadTypes
    <2>4. Carried(b)' <=> Carried(b)
      BY <1>3, <2>3, OnlyCarryCarries
    <2>5. reverse'[b].rows = reverse[b].rows
      <3>1. CASE FinalReverse
        <4>1. runBlock["rev"] # b
          BY <3>1 DEF FinalReverse, ReverseOnBlock, CombineRequired
        <4>2. QED
          BY <3>1, <4>1 DEF FinalReverse, TypeOK, MatrixTypes
      <3>2. QED
        BY <1>3, <3>1, RunKeepsRows
    <2>6. Holders(b)' = Holders(b) /\ Preparers(b)' = Preparers(b)
      BY <2>2 DEF Holders, Preparers
    <2>7. Cardinality(Places(b)') = Cardinality(Places(b))
      <3>1. CASE UNCHANGED the_queue
        BY <3>1 DEF Places
      <3>2. CASE HandlerPush(run)
        <4>1. Sentinel # b
          BY SentinelAssumption
        <4>2. Cardinality(Places(b)) \in Nat
          BY PlacesFinite
        <4>3. QED
          BY <3>2, <4>1, <4>2, CountPush DEF HandlerPush, push_and_notify
      <3>3. QED
        BY <1>3, <3>1, <3>2
        DEF RunStep, StartRun, CheckRun, SolveFails, SetAdjusted, TestOther,
            FinishRun, TestFinished, ExhaustQueue, queue_exhausted,
            HandlerTest, SolveForward, UpdateForward, CarryForward, NotifyAll,
            notify_all, SolveReverse, UpdateReverse, FinalReverse, queueVars
    <2>8. Waiting(b)' = Waiting(b)
      BY <2>6, <2>7 DEF Waiting
    <2>9. QED
      BY <2>1, <2>2, <2>4, <2>5, <2>6, <2>8, BrokenKept, RowsOfKept
  <1>4. QED
    BY <1>1, <1>2, <1>3
(* UpdateBlock forms the normals again; the rows stay as they are.         *)
LEMMA UpdateKeepsRows ==
  ASSUME TypeOK, UpdateBlock, NEW b \in Blocks
  PROVE  reverse'[b].rows = reverse[b].rows
  <1>1. CASE UNCHANGED matrixVars \/ UNCHANGED reverse
    BY <1>1 DEF matrixVars
  <1>2. CASE UpdateMatrices(mainBlock) /\ iterate
    <2> DEFINE fresh == [FreshReverse EXCEPT !.rows = reverse[mainBlock].rows]
    <2>1. reverse' = [reverse EXCEPT ![mainBlock] = fresh]
      BY <1>2 DEF UpdateMatrices
    <2>2. fresh.rows = reverse[mainBlock].rows
      BY DEF FreshReverse
    <2>3. reverse \in [Blocks -> ReverseState]
      BY DEF TypeOK, MatrixTypes
    <2> HIDE DEF fresh
    <2>4. QED
      BY <2>1, <2>2, <2>3
  <1>3. CASE UpdateMatrices(mainBlock) /\ ~iterate
    BY <1>3 DEF UpdateMatrices
  <1>4. QED
    BY <1>1, <1>2, <1>3 DEF UpdateBlock

LEMMA AsideKeepsRows ==
  ASSUME TypeOK, Aside, ~(\E w \in Workers : Worker(w)), NEW b \in Blocks
  PROVE  reverse'[b].rows = reverse[b].rows
  <1>1. UNCHANGED reverse \/ UpdateBlock
    BY DEF Aside, LeaveLoop, JoinThreads, Finish, CombineThread, WaitForBlock,
       StartWorkers, JoinWorkers, SpuriousWakeup, CancelAdjustment, vars,
       matrixVars
  <1>2. QED
    BY <1>1, UpdateKeepsRows

LEMMA AsideRowsOf ==
  ASSUME TypeOK, ProtocolInv, InnerRows, [Next]_vars, Aside,
         ~(\E w \in Workers : Worker(w)), NEW b \in Blocks, CombineRequired(b)
  PROVE  RowsOf(b)'
  <1>1. RowsOf(b)
    BY DEF InnerRows
  <1>2. /\ UNCHANGED <<runPc, runBlock, pushes, leftover, the_queue,
                       workerBlock, workerRows>>
        /\ UNCHANGED workerPc \/ StartWorkers
    BY AsideLeavesRuns
    DEF Aside, LeaveLoop, JoinThreads, UpdateBlock, Finish, CombineThread,
        WaitForBlock, sleep_on_empty, StartWorkers, JoinWorkers,
        SpuriousWakeup, spurious_wakeup, CancelAdjustment, vars, threadVars,
        queueVars
  <1>3. Holders(b)' = Holders(b) /\ Preparers(b)' = Preparers(b)
    <2>1. CASE UNCHANGED workerPc
      BY <1>2, <2>1 DEF Holders, Preparers
    <2>2. CASE StartWorkers /\ workerPc' = [w \in Workers |-> "top"]
      <3>1. \A w \in Workers : workerPc[w] \in {"idle", "done"}
        BY <2>2 DEF StartWorkers, ProtocolInv, Quiet
      <3>2. QED
        BY <2>2, <3>1 DEF Holders, Preparers
    <2>3. QED
      BY <1>2, <2>1, <2>2 DEF StartWorkers
  <1>4. Waiting(b)' = Waiting(b)
    BY <1>2, <1>3 DEF Waiting, Places
  <1>5. Carried(b)' <=> Carried(b)
    BY <1>2 DEF Carried, Begun
  <1>6. QED
    BY <1>1, <1>2, <1>3, <1>4, <1>5, AsideKeepsRows, BrokenKept, RowsOfKept

(* Where an iteration ends well, an inner block has been queued; what is   *)
(* left of it in the queue has been queued by one of the runs alone.       *)
LEMMA IterationEnds ==
  ASSUME TypeOK, ProtocolInv, RunsProgress, PushesBounded, WorkersDrain,
         NoLostBlock, ~Broken, ThreadsFinished,
         NEW b \in Blocks, CombineRequired(b)
  PROVE  /\ Carried(b)
         /\ pushes[b] > 0
         /\ Cardinality(Places(b)) <= pushes[b]
         /\ the_queue = <<>> \/ (premature /\ pushes[b] <= 1)
  <1>1. \A run \in Runs : runPc[run] = "done" /\ cmbPc = "done"
    BY DEF ThreadsFinished
  <1>2. \A run \in Runs : runPc[run] = "done" /\ runBlock[run] = LastOfRun(run)
    BY <1>1 DEF RunsProgress, RunsEnd
  <1>3. b \in Int /\ 0 < b /\ b < BlockCount - 1 /\ BlockCount \in Int
    BY BlockCountAssumption
    DEF Blocks, CombineRequired, BlockFirst, BlockLast
  <1>4. \A run \in Runs : b \in adjusted[run]
    <2>1. \A run \in Runs : Passed(run, b)
      BY <1>2, <1>3 DEF Passed, Begun, LastOfRun, Runs
    <2>2. QED
      BY <2>1 DEF RunsProgress, RunsMarkAll
  <1>5. Carried(b)
    BY <1>4 DEF RunsProgress, MarkedCarried, Runs
  <1>6. pushes[b] > 0
    BY <1>2, <1>4 DEF NoLostBlock, BothAdjusted, Runs
  <1>7. RunDry
    <2>1. BlockIntermediate(b)
      BY DEF CombineRequired, BlockIntermediate
    <2>2. QED
      BY <1>1, <2>1
      DEF WorkersDrain, Working, CombinationThreadRequired, Runs
  <1>8. the_queue = <<>> \/ (premature /\ pushes[b] <= 1)
    BY <1>7 DEF RunDry, OneRunAlone, Turn, TypeOK, HistoryTypes
  <1>9. QED
    BY <1>5, <1>6, <1>7, <1>8 DEF RunDry
(* A new iteration finds the rows of an inner block either taken off       *)
(* again, or left with the block in the queue.                             *)
LEMMA StartRows ==
  ASSUME TypeOK, ProtocolInv, RunsProgress, PushesBounded, WorkersDrain,
         NoLostBlock, InnerRows, StartIteration,
         NEW b \in Blocks, CombineRequired(b)
  PROVE  RowsOf(b)'
  <1>1. ~Broken /\ mainPc = "top"
    BY DEF StartIteration, ProtocolInv, FailuresKept, Broken
  <1>2. \A w \in Workers : workerPc[w] \in {"idle", "done"}
    BY <1>1 DEF ProtocolInv, Quiet
  <1>3. Holders(b) = {} /\ Preparers(b) = {}
    BY <1>2 DEF Holders, Preparers
  <1>4. /\ UNCHANGED <<the_queue, workerPc, workerBlock, workerRows, reverse>>
        /\ pushes'[b] = 0
        /\ leftover' = Queued
        /\ ~Carried(b)'
    BY DEF StartIteration, reset_blocks_coming, matrixVars, Carried, Begun, Runs
  <1>5. Waiting(b)' = Waiting(b) /\ Preparers(b)' = {}
    BY <1>3, <1>4, WaitingKept
  <1>6. Waiting(b) = Cardinality(Places(b)) /\ Waiting(b) \in Nat
    BY <1>3, PlacesFinite, FS_EmptySet DEF Waiting
  <1>7. the_queue = <<>> => Waiting(b) = 0
    BY <1>6, FS_EmptySet DEF Places
  <1>8. Waiting(b) > 0 => b \in Queued
    <2>1. Waiting(b) > 0 => Places(b) # {}
      BY <1>6, FS_EmptySet
    <2>2. DOMAIN the_queue = 1 .. Len(the_queue)
      BY DEF TypeOK, QueueTypeOK
    <2>3. QED
      BY <2>1, <2>2 DEF Places, Queued
  <1>9. \/ reverse[b].rows = 0 /\ Waiting(b) = 0
        \/ reverse[b].rows = 1 /\ Waiting(b) = 1
    <2>1. CASE runPc["rev"] = "idle"
      <3>1. the_queue = <<>> /\ ~Carried(b)
        BY <2>1 DEF RunsProgress, IdleTogether, Carried, Begun
      <3>2. RowsBeforeCarry(b)
        BY <3>1 DEF InnerRows, RowsOf
      <3>3. QED
        BY <1>1, <1>3, <1>7, <3>1, <3>2 DEF RowsBeforeCarry, Exactly, OnePreparer
    <2>2. CASE runPc["rev"] # "idle"
      <3>1. /\ Carried(b)
            /\ pushes[b] > 0
            /\ Waiting(b) <= pushes[b]
            /\ the_queue = <<>> \/ pushes[b] <= 1
        <4>1. ThreadsFinished
          BY <1>1, <2>2
          DEF ThreadsFinished, ProtocolInv, Quiet, RunsProgress, IdleTogether,
              Runs
        <4>2. QED
          BY <1>1, <1>6, <4>1, IterationEnds
      <3>2. RowsAfterCarry(b)
        BY <3>1 DEF InnerRows, RowsOf
      <3>3. ~OnePreparer(b, 1) /\ ~OnePreparer(b, 2)
        BY <1>3 DEF OnePreparer
      <3>4. pushes[b] \in Nat
        BY DEF TypeOK, HistoryTypes
      <3> DEFINE n == Waiting(b)
                 p == pushes[b]
      <3>5. ~(n > p)
        BY <1>6, <3>1, <3>4
      <3>6. CASE reverse[b].rows = 0 /\ n <= p - 1
        BY <1>6, <1>7, <3>1, <3>4, <3>6
      <3>7. CASE reverse[b].rows = 1 /\ n = p
        BY <1>6, <1>7, <3>1, <3>4, <3>7
      <3> HIDE DEF n, p
      <3>8. QED
        BY <1>1, <3>2, <3>3, <3>5, <3>6, <3>7 DEF RowsAfterCarry, Exactly, n, p
    <2>3. QED
      BY <2>1, <2>2
  <1>10. RowsBeforeCarry(b)'
    BY <1>4, <1>5, <1>8, <1>9 DEF RowsBeforeCarry, Exactly, Idle
  <1>11. QED
    BY <1>4, <1>10 DEF RowsOf

LEMMA InnerRowsStep ==
  TypeOK /\ ProtocolInv /\ NoLostBlock /\ RowsInv /\ [Next]_vars => InnerRows'
  <1> SUFFICES ASSUME TypeOK, ProtocolInv, NoLostBlock, RowsInv, [Next]_vars,
                      NEW b \in Blocks, CombineRequired(b)
               PROVE  RowsOf(b)'
    BY DEF InnerRows
  <1>1. /\ InnerRows /\ RunsProgress /\ PushesBounded /\ WorkersDrain
        /\ ReverseOnBlock /\ MarkedCarried
    BY DEF RowsInv, RunsProgress
  <1>2. CASE StartIteration
    BY <1>1, <1>2, StartRows
  <1>3. ASSUME NEW run \in Runs, RunStep(run) PROVE RowsOf(b)'
    BY <1>1, <1>3, RunRowsOf
  <1>4. ASSUME NEW w \in Workers, Worker(w) PROVE RowsOf(b)'
    BY <1>1, <1>4, WorkerRowsOf
  <1>5. CASE Aside /\ ~(\E w \in Workers : Worker(w))
    BY <1>1, <1>5, AsideRowsOf
  <1>6. QED
    BY <1>2, <1>3, <1>4, <1>5, StepCases

-----------------------------------------------------------------------------
(* OuterRows: the blocks that are not combined. *)

OuterRowsOf(b) ==
    \/ reverse[b].rows = 0 /\ ~(OnFirstBlock(b) /\ ~BlockLast(b))
    \/ /\ reverse[b].rows = 1
       /\ ~BlockLast(b)
       /\ OnFirstBlock(b) \/ LeftOnFirstBlock(b)

LEMMA OuterIsOuterRowsOf ==
  OuterRows <=> \A b \in Blocks : ~CombineRequired(b) => OuterRowsOf(b)
  BY DEF OuterRows, OuterRowsOf

(* The workers only touch the rows of inner blocks.                        *)
LEMMA WorkerKeepsOuter ==
  ASSUME TypeOK, ProtocolInv, NEW w \in Workers, Worker(w),
         NEW b \in Blocks, ~CombineRequired(b)
  PROVE  reverse'[b].rows = reverse[b].rows
  <1>1. CASE UNCHANGED reverse
    BY <1>1
  <1>2. CASE WorkerPrepare(w) \/ WorkerSolve(w) \/ WorkerCombine(w)
    <2>1. b # workerBlock[w]
      BY <1>2 DEF WorkerPrepare, WorkerSolve, WorkerCombine, ProtocolInv,
                  WorkersCorrect, Combining, Combinable
    <2>2. reverse'[b] = reverse[b]
      BY <1>2, <2>1 DEF WorkerPrepare, WorkerSolve, WorkerCombine, TypeOK,
                        MatrixTypes
    <2>3. QED
      BY <2>2
  <1>3. QED
    BY <1>1, <1>2 DEF Worker, WorkerTop, WorkerMore, WorkerEmpty,
       WorkerErrors, WorkerSentinel, WorkerPop, WorkerFinal, matrixVars
LEMMA CarryReverseOuter ==
  ASSUME TypeOK, ProtocolInv, ReverseOnBlock, CarryReverse,
         NEW b \in Blocks, ~CombineRequired(b), OuterRowsOf(b)
  PROVE  OuterRowsOf(b)'
  <1> DEFINE k == runBlock["rev"]
  <1>1. /\ k \in Blocks /\ k \in Int /\ b \in Int /\ BlockCount \in Int
        /\ reverse[b].rows \in Int
    BY RowsType, BlockCountAssumption DEF TypeOK, ThreadTypes, Runs, Blocks
  <1>2. runPc["rev"] = "carry" /\ ~BlockIsolated(k)
    BY DEF CarryReverse, ReverseOnBlock
  <1>3. reverse'[b].rows =
          IF k = b + 1 /\ CarriesReverse(k) THEN reverse[b].rows + 1
                                            ELSE reverse[b].rows
    BY CarryAppends
  <1>4. \/ CombineRequired(k) /\ runPc'["rev"] = "set" /\ runBlock'["rev"] = k
        \/ /\ ~CombineRequired(k) /\ BlockFirst(k)
           /\ runPc'["rev"] = "final" /\ runBlock'["rev"] = k
        \/ /\ ~CombineRequired(k) /\ ~BlockFirst(k) /\ k # 0
           /\ runPc'["rev"] = "check" /\ runBlock'["rev"] = k - 1
    BY <1>1 DEF CarryReverse, RunNextBlock, RunGoto, LastOfRun, BlockFirst,
                TypeOK, ThreadTypes, Runs
  <1>5. OnFirstBlock(b) <=> k = b
    BY <1>2 DEF OnFirstBlock
  <1>6. ~LeftOnFirstBlock(b)
    BY <1>2 DEF LeftOnFirstBlock
  <1>7. CASE BlockFirst(k)
    <2>1. ~CombineRequired(k) /\ ~CarriesReverse(k)
      BY <1>7 DEF CombineRequired, CarriesReverse
    <2>2. OnFirstBlock(b)' <=> k = b
      BY <1>4, <1>7, <2>1 DEF OnFirstBlock
    <2>3. QED
      BY <1>3, <1>5, <1>6, <2>1, <2>2 DEF OuterRowsOf
  <1>8. CASE ~BlockFirst(k)
    <2>1. CarriesReverse(k) /\ k # 0 /\ NetOf[k] = NetOf[k - 1]
      BY <1>2, <1>8 DEF CarriesReverse, BlockFirst
    <2>2. OnFirstBlock(b)' <=> k = b + 1
      BY <1>1, <1>4, <1>8 DEF OnFirstBlock
    <2>3. CASE k = b + 1
      <3>1. ~BlockLast(b)
        BY <1>1, <2>1, <2>3 DEF BlockLast, Blocks
      <3>2. reverse[b].rows = 0
        BY <1>1, <1>5, <1>6, <2>3 DEF OuterRowsOf
      <3>3. QED
        BY <1>3, <2>1, <2>2, <2>3, <3>1, <3>2 DEF OuterRowsOf
    <2>4. CASE k # b + 1
      <3>1. k = b => BlockLast(b)
        BY <1>8 DEF CombineRequired, BlockIsolated
      <3>2. reverse[b].rows = 0
        BY <1>5, <1>6, <3>1 DEF OuterRowsOf
      <3>3. QED
        BY <1>3, <2>2, <2>4, <3>2 DEF OuterRowsOf
    <2>5. QED
      BY <2>3, <2>4
  <1>9. QED
    BY <1>7, <1>8

LEMMA FinalReverseOuter ==
  ASSUME TypeOK, ReverseOnBlock, FinalReverse,
         NEW b \in Blocks, ~CombineRequired(b), OuterRowsOf(b)
  PROVE  OuterRowsOf(b)'
  <1> DEFINE k == runBlock["rev"]
  <1>1. k \in Blocks /\ k \in Int /\ b \in Int /\ reverse[b].rows \in Int
    BY RowsType DEF TypeOK, ThreadTypes, Runs, Blocks
  <1>2. runPc["rev"] = "final" /\ BlockFirst(k) /\ ~BlockLast(k)
    BY DEF FinalReverse, ReverseOnBlock, BlockIsolated
  <1>3. reverse'[b].rows = IF k = b THEN reverse[b].rows - 1
                                    ELSE reverse[b].rows
    BY <1>1 DEF FinalReverse, TypeOK, MatrixTypes, ReverseState
  <1>4. \/ runPc'["rev"] = "finish"
        \/ /\ k # 0 /\ runPc'["rev"] = "check" /\ runBlock'["rev"] = k - 1
    BY <1>1 DEF FinalReverse, RunNextBlock, RunGoto, LastOfRun, TypeOK,
                ThreadTypes, Runs
  <1>5. reverse[b].rows = IF k = b THEN 1 ELSE 0
    BY <1>2 DEF OuterRowsOf, OnFirstBlock, LeftOnFirstBlock
  <1>6. OnFirstBlock(b)' => BlockLast(b)
    <2>1. OnFirstBlock(b)' => k # 0 /\ b = k - 1
      BY <1>4 DEF OnFirstBlock
    <2>2. k # 0 /\ b = k - 1 => NetOf[b] # NetOf[b + 1]
      BY <1>1, <1>2 DEF BlockFirst
    <2>3. QED
      BY <2>1, <2>2 DEF BlockLast
  <1>7. QED
    BY <1>3, <1>5, <1>6 DEF OuterRowsOf

(* The reverse run gives up on the first block of a network only if the    *)
(* adjustment is broken, and leaves it otherwise with FinalReverse.        *)
LEMMA ReverseRunOuter ==
  ASSUME TypeOK, ProtocolInv, ReverseOnBlock, [Next]_vars, RunStep("rev"),
         ~CarryReverse, ~FinalReverse,
         NEW b \in Blocks, ~CombineRequired(b), OuterRowsOf(b)
  PROVE  OuterRowsOf(b)'
  <1> DEFINE k == runBlock["rev"]
  <1>1. k \in Blocks /\ k \in Int /\ b \in Int
    BY DEF TypeOK, ThreadTypes, Runs, Blocks
  <1>2. reverse'[b].rows = reverse[b].rows
    BY RunKeepsRows DEF Runs
  <1>3. Broken => Broken'
    BY BrokenKept
  <1>4. CASE StartRun("rev")
    <2>1. reverse[b].rows = 0
      BY <1>4 DEF StartRun, OuterRowsOf, OnFirstBlock, LeftOnFirstBlock
    <2>2. runPc'["rev"] = "check" /\ runBlock'["rev"] = BlockCount - 1
      BY <1>4 DEF StartRun, RunGoto, FirstOfRun, TypeOK, ThreadTypes, Runs
    <2>3. OnFirstBlock(b)' => BlockLast(b)
      BY <2>2 DEF OnFirstBlock, BlockLast
    <2>4. QED
      BY <1>2, <2>1, <2>3 DEF OuterRowsOf
  <1>5. CASE CheckRun("rev") /\ runBlock'["rev"] # k
    <2>1. BlockIsolated(k) /\ runPc["rev"] = "check" /\ k # 0
            /\ runPc'["rev"] = "check" /\ runBlock'["rev"] = k - 1
      BY <1>1, <1>5 DEF CheckRun, RunNextBlock, RunGoto, LastOfRun, TypeOK,
                        ThreadTypes, Runs
    <2>2. reverse[b].rows = 0
      BY <2>1 DEF OuterRowsOf, OnFirstBlock, LeftOnFirstBlock, BlockIsolated
    <2>3. OnFirstBlock(b)' => BlockLast(b)
      BY <1>1, <2>1 DEF OnFirstBlock, BlockIsolated, BlockFirst, BlockLast
    <2>4. QED
      BY <1>2, <2>2, <2>3 DEF OuterRowsOf
  <1>6. CASE CheckRun("rev") /\ runBlock'["rev"] = k
    <2>1. /\ runPc["rev"] = "check"
          /\ \/ runPc'["rev"] = "solve"
             \/ runPc'["rev"] = "done" /\ Broken
             \/ runPc'["rev"] = "finish" /\ BlockIsolated(k)
      BY <1>1, <1>6 DEF CheckRun, RunNextBlock, RunGoto, LastOfRun, TypeOK,
         ThreadTypes, Runs, OthersFailed, Other, Broken, Failing
    <2>2. QED
      BY <1>2, <1>3, <1>6, <2>1
      DEF OuterRowsOf, OnFirstBlock, LeftOnFirstBlock, BlockIsolated
  <1>7. CASE SolveFails("rev") \/ SolveReverse \/ UpdateReverse
    <2>1. /\ runPc["rev"] \in {"solve", "update"}
          /\ runBlock'["rev"] = k
          /\ \/ runPc'["rev"] \in {"update", "carry"}
             \/ runPc'["rev"] \in {"caught", "done"} /\ Broken'
      <3>1. CASE SolveFails("rev")
        BY <3>1 DEF SolveFails, RunGoto, TypeOK, ThreadTypes, ErrorTypes, Runs,
                    Broken, Failing
      <3>2. CASE SolveReverse
        BY <3>2 DEF SolveReverse, RunGoto, TypeOK, ThreadTypes, Runs
      <3>3. CASE UpdateReverse
        BY <1>3, <3>3 DEF UpdateReverse, RunGoto, TypeOK, ThreadTypes, Runs,
                    OthersFailed, Other, Broken, Failing
      <3>4. QED
        BY <1>7, <3>1, <3>2, <3>3
    <2>2. QED
      BY <1>2, <2>1 DEF OuterRowsOf, OnFirstBlock, LeftOnFirstBlock
  <1>8. CASE SetAdjusted("rev") \/ TestOther("rev") \/ PushBlock("rev")
    <2>1. runPc["rev"] \in {"set", "test", "push"} /\ CombineRequired(k)
      BY <1>8 DEF SetAdjusted, TestOther, PushBlock, ProtocolInv, RunsMark, Runs
    <2>2. \/ runPc'["rev"] \in {"test", "push"} /\ runBlock'["rev"] = k
          \/ runPc'["rev"] = "check" /\ runBlock'["rev"] = k - 1
      <3>1. k # 0
        BY <2>1 DEF CombineRequired, BlockFirst
      <3>2. QED
        BY <1>1, <1>8, <3>1 DEF SetAdjusted, TestOther, PushBlock, RunNextBlock,
           RunGoto, LastOfRun, TypeOK, ThreadTypes, Runs
    <2>3. (OnFirstBlock(b) <=> k = b + 1) /\ ~LeftOnFirstBlock(b)
      BY <2>1 DEF OnFirstBlock, LeftOnFirstBlock
    <2>4. OnFirstBlock(b)' <=> k = b + 1
      BY <1>1, <2>1, <2>2 DEF OnFirstBlock
    <2>5. QED
      BY <1>2, <2>3, <2>4 DEF OuterRowsOf
  <1>9. CASE FinishRun("rev") \/ TestFinished("rev") \/ ExhaustQueue("rev")
    <2>1. /\ runPc["rev"] \in {"finish", "finished", "exhaust"}
          /\ runPc'["rev"] \in {"finished", "exhaust", "done"}
      BY <1>9 DEF FinishRun, TestFinished, ExhaustQueue, AfterExhaust, RunGoto,
         TypeOK, ThreadTypes, Runs
    <2>2. QED
      BY <1>2, <2>1 DEF OuterRowsOf, OnFirstBlock, LeftOnFirstBlock
  <1>10. CASE HandlerTest("rev") \/ HandlerPush("rev")
    <2>1. /\ runPc["rev"] \in {"caught", "sentinel"}
          /\ runPc'["rev"] \in {"sentinel", "done"}
          /\ runBlock'["rev"] = k
      BY <1>10 DEF HandlerTest, HandlerPush, AfterFailure, RunGoto, TypeOK,
         ThreadTypes, Runs
    <2>2. QED
      BY <1>2, <1>3, <2>1 DEF OuterRowsOf, OnFirstBlock, LeftOnFirstBlock
  <1>11. QED
    BY <1>4, <1>5, <1>6, <1>7, <1>8, <1>9, <1>10 DEF RunStep

LEMMA OuterRowsStep ==
  TypeOK /\ ProtocolInv /\ RowsInv /\ [Next]_vars => OuterRows'
  <1> SUFFICES ASSUME TypeOK, ProtocolInv, RowsInv, [Next]_vars,
                      NEW b \in Blocks, ~CombineRequired(b)
               PROVE  OuterRowsOf(b)'
    BY DEF OuterRows, OuterRowsOf
  <1>1. OuterRowsOf(b) /\ ReverseOnBlock
    BY OuterIsOuterRowsOf DEF RowsInv, RunsProgress
  <1>2. Broken => Broken'
    BY BrokenKept
  <1>3. CASE StartIteration
    <2>1. mainPc = "top" /\ ~Broken
      BY <1>3 DEF StartIteration, ProtocolInv, FailuresKept, Broken
    <2>2. runPc["rev"] \in {"idle", "done"}
      BY <2>1 DEF ProtocolInv, Quiet, Runs
    <2>3. reverse[b].rows = 0
      BY <1>1, <2>1, <2>2 DEF OuterRowsOf, OnFirstBlock, LeftOnFirstBlock
    <2>4. reverse'[b].rows = 0 /\ runPc'["rev"] = "start"
      BY <1>3, <2>3 DEF StartIteration, matrixVars, Runs
    <2>5. QED
      BY <2>4 DEF OuterRowsOf, OnFirstBlock
  <1>4. CASE RunStep("fwd")
    <2>1. /\ runPc'["rev"] = runPc["rev"]
          /\ runBlock'["rev"] = runBlock["rev"]
      BY <1>4, RunMoves DEF Other, Runs
    <2>2. ~CarryReverse /\ ~FinalReverse
      BY <2>1 DEF CarryReverse, FinalReverse, RunNextBlock, RunGoto, TypeOK,
                  ThreadTypes, Runs
    <2>3. reverse'[b].rows = reverse[b].rows
      BY <1>4, <2>2, RunKeepsRows DEF Runs
    <2>4. QED
      BY <1>1, <1>2, <2>1, <2>3
      DEF OuterRowsOf, OnFirstBlock, LeftOnFirstBlock
  <1>5. CASE RunStep("rev")
    BY <1>1, <1>5, CarryReverseOuter, FinalReverseOuter, ReverseRunOuter
  <1>6. CASE Aside
    <2>1. reverse'[b].rows = reverse[b].rows
      BY <1>6, WorkerKeepsOuter, AsideKeepsRows
    <2>2. UNCHANGED <<runPc, runBlock>>
      BY <1>6, AsideLeavesRuns
    <2>3. QED
      BY <1>1, <1>2, <2>1, <2>2
      DEF OuterRowsOf, OnFirstBlock, LeftOnFirstBlock
  <1>7. QED
    BY <1>3, <1>4, <1>5, <1>6, StepCases DEF Runs

-----------------------------------------------------------------------------

LEMMA RowsInit ==
  Init => RowsInv
  <1> SUFFICES ASSUME Init PROVE RowsInv
    OBVIOUS
  <1>1. \A run \in Runs : runPc[run] = "idle" /\ adjusted[run] = {}
    BY DEF Init
  <1>2. /\ cmbPc = "idle" /\ the_queue = <<>> /\ more_blocks_coming
        /\ \A w \in Workers : workerPc[w] = "idle"
        /\ \A b \in Blocks : reverse[b].rows = 0 /\ pushes[b] = 0
    BY DEF Init, QueueInit, FreshReverse
  <1>3. \A b \in Blocks : Waiting(b) = 0 /\ Idle(b)
    <2>1. \A b \in Blocks : Places(b) = {} /\ Holders(b) = {} /\ Idle(b)
      BY <1>2 DEF Places, Holders, Idle, Preparers
    <2>2. QED
      BY <2>1, FS_EmptySet DEF Waiting
  <1>4. InnerRows
    BY <1>1, <1>2, <1>3
    DEF InnerRows, RowsOf, Carried, Begun, RowsBeforeCarry, Runs
  <1>5. OuterRows
    BY <1>1, <1>2 DEF OuterRows, OnFirstBlock, Runs
  <1>6. RunsProgress
    BY <1>1, <1>2 DEF RunsProgress, IdleTogether, RunsEnd, RunsMarkAll,
       MarkedCarried, ReverseOnBlock, Begun, Passed, Runs
  <1>7. PushesBounded
    BY <1>1, <1>2 DEF PushesBounded, Turn, Passed, Begun, Runs
  <1>8. QueueExhausts
    BY <1>1, <1>2 DEF QueueExhausts, Exhausting
  <1>9. WorkersDrain
    BY <1>2 DEF WorkersDrain, SeesExhausted, Working
  <1>10. QED
    BY <1>4, <1>5, <1>6, <1>7, <1>8, <1>9 DEF RowsInv

LEMMA RowsStep ==
  TypeOK /\ ProtocolInv /\ NoLostBlock /\ RowsInv /\ [Next]_vars => RowsInv'
  <1> SUFFICES ASSUME TypeOK, ProtocolInv, NoLostBlock, RowsInv, [Next]_vars
               PROVE  RowsInv'
    OBVIOUS
  <1>1. /\ IdleTogether /\ RunsEnd /\ RunsMarkAll /\ MarkedCarried
        /\ ReverseOnBlock /\ PushesBounded /\ QueueExhausts /\ WorkersDrain
    BY DEF RowsInv, RunsProgress
  <1>2. InnerRows' /\ OuterRows'
    BY InnerRowsStep, OuterRowsStep
  <1>3. RunsProgress'
    BY <1>1, IdleTogetherStep, RunsEndStep, RunsMarkAllStep, MarkedCarriedStep,
       ReverseOnBlockStep DEF RunsProgress
  <1>4. PushesBounded' /\ QueueExhausts' /\ WorkersDrain'
    BY <1>1, PushesBoundedStep, QueueExhaustsStep, WorkersDrainStep
  <1>5. QED
    BY <1>2, <1>3, <1>4 DEF RowsInv

(* What the rows of each block, the queue, the workers and the runs have   *)
(* to do with each other in every state of the multi-thread adjustment.    *)
THEOREM RowsCorrect == Spec => []RowsInv
  <1>1. QED
    BY RowsInit, RowsStep, TypeCorrect, ProtocolCorrect, NoBlockIsLost, PTL
    DEF Spec

(* The rows never exceed the memory allocated for them, and rows that      *)
(* belong to measurements are never taken off (PrepareAdjustmentCombine,   *)
(* UpdateEstimatesCombine), though two workers may have the same block.    *)
THEOREM RowsAlwaysFit == Spec => []RowsFit
  <1>1. RowsInv => RowsFit
    <2> SUFFICES ASSUME RowsInv, NEW b \in Blocks, b \notin leftover
                 PROVE  reverse[b].rows \in 0 .. 2
      BY DEF RowsFit
    <2>1. CASE CombineRequired(b)
      BY <2>1 DEF RowsInv, InnerRows, RowsOf, RowsBeforeCarry, RowsAfterCarry
    <2>2. CASE ~CombineRequired(b)
      BY <2>2 DEF RowsInv, OuterRows
    <2>3. QED
      BY <2>1, <2>2
  <1>2. QED
    BY <1>1, RowsCorrect, PTL
=============================================================================
