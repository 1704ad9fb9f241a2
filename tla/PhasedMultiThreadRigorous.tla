---------------------- MODULE PhasedMultiThreadRigorous ----------------------
(***************************************************************************)
(* The rigorous estimates of the multi-thread adjustment come from what    *)
(* they should, for every segmentation, number of workers and number of    *)
(* iterations, except for the disturbances the property names.             *)
(***************************************************************************)
EXTENDS PhasedMultiThreadProofs

-----------------------------------------------------------------------------
(* First and last blocks of a network. *)

LEMMA BlockTypes ==
  ASSUME TypeOK, NEW b \in Blocks
  PROVE  /\ b \in Int /\ 0 <= b /\ b <= BlockCount - 1 /\ BlockCount \in Int
         /\ runBlock["fwd"] \in Blocks /\ runBlock["rev"] \in Blocks
         /\ runBlock["fwd"] \in Int /\ runBlock["rev"] \in Int
  BY BlockCountAssumption DEF TypeOK, ThreadTypes, Blocks, Runs

LEMMA NextToLast ==
  ASSUME NEW b \in Blocks, ~BlockLast(b)
  PROVE  /\ b + 1 \in Blocks /\ ~BlockFirst(b + 1) /\ (b + 1) - 1 = b
         /\ ~BlockIsolated(b + 1)
         /\ ~BlockIsolated(b)
         /\ CarriesForward(b)
  <1>1. b \in Int /\ 0 <= b /\ b <= BlockCount - 1 /\ BlockCount \in Int
    BY BlockCountAssumption DEF Blocks
  <1>2. (b + 1) - 1 = b /\ b + 1 # 0 /\ b + 1 \in Blocks
    BY <1>1 DEF BlockLast, Blocks
  <1>3. NetOf[b + 1] = NetOf[(b + 1) - 1]
    BY <1>2 DEF BlockLast
  <1>4. ~BlockFirst(b + 1)
    BY <1>2, <1>3 DEF BlockFirst
  <1>5. QED
    BY <1>2, <1>4 DEF BlockIsolated, CarriesForward

LEMMA NextToFirst ==
  ASSUME NEW b \in Blocks, ~BlockFirst(b)
  PROVE  /\ b - 1 \in Blocks /\ ~BlockLast(b - 1) /\ (b - 1) + 1 = b
         /\ ~BlockIsolated(b) /\ CarriesReverse(b)
  <1>1. b \in Int /\ 0 <= b /\ b <= BlockCount - 1 /\ BlockCount \in Int
    BY BlockCountAssumption DEF Blocks
  <1>2. b # 0 /\ NetOf[b] = NetOf[b - 1]
    BY DEF BlockFirst
  <1>3. b - 1 \in Blocks /\ (b - 1) + 1 = b /\ b - 1 # BlockCount - 1
    BY <1>1, <1>2 DEF Blocks
  <1>4. ~BlockLast(b - 1)
    BY <1>2, <1>3 DEF BlockLast
  <1>5. QED
    BY <1>3, <1>4 DEF BlockIsolated, CarriesReverse

LEMMA BorderBefore ==
  ASSUME NEW b \in Blocks, BlockFirst(b), b # 0
  PROVE  BlockLast(b - 1)
  <1>1. b \in Int /\ (b - 1) + 1 = b
    BY BlockCountAssumption DEF Blocks
  <1>2. NetOf[b] # NetOf[b - 1]
    BY DEF BlockFirst
  <1>3. QED
    BY <1>1, <1>2 DEF BlockLast

LEMMA BorderAfter ==
  ASSUME NEW b \in Blocks, BlockLast(b), b # BlockCount - 1
  PROVE  BlockFirst(b + 1)
  <1>1. b \in Int /\ (b + 1) - 1 = b
    BY BlockCountAssumption DEF Blocks
  <1>2. NetOf[b] # NetOf[b + 1]
    BY DEF BlockLast
  <1>3. QED
    BY <1>1, <1>2 DEF BlockFirst

-----------------------------------------------------------------------------
(* Nothing moves while the main thread is alone. *)

LEMMA MainAlone ==
  ASSUME TypeOK, ProtocolInv, [Next]_vars, mainPc # "join"
  PROVE  \/ StartIteration \/ LeaveLoop \/ UpdateBlock \/ Finish
         \/ UNCHANGED <<mainPc, mainBlock, iterate, matrixVars, historyVars>>
  <1>1. \A run \in Runs : runPc[run] \in {"idle", "done"}
    BY DEF ProtocolInv, Quiet
  <1>2. cmbPc \in {"idle", "done"} /\ \A w \in Workers : workerPc[w] \in {"idle", "done"}
    BY DEF ProtocolInv, Quiet
  <1>3. ASSUME NEW run \in Runs, RunStep(run) PROVE FALSE
    BY <1>1, <1>3
    DEF RunStep, StartRun, CheckRun, SolveFails, SetAdjusted, TestOther,
        PushBlock, FinishRun, TestFinished, ExhaustQueue, HandlerTest,
        HandlerPush, SolveForward, UpdateForward, CarryForward, NotifyAll,
        SolveReverse, UpdateReverse, CarryReverse, FinalReverse, Runs
  <1>4. ASSUME NEW w \in Workers, Worker(w) PROVE FALSE
    BY <1>2, <1>4
    DEF Worker, WorkerTop, WorkerMore, WorkerEmpty, WorkerErrors,
        WorkerSentinel, WorkerPop, WorkerPrepare, WorkerSolve, WorkerCombine,
        WorkerFinal
  <1>5. ~WaitForBlock /\ ~StartWorkers /\ ~JoinWorkers /\ ~JoinThreads
    BY <1>2 DEF WaitForBlock, StartWorkers, JoinWorkers, JoinThreads
  <1>6. CASE SpuriousWakeup \/ CancelAdjustment \/ UNCHANGED vars
    BY <1>6 DEF SpuriousWakeup, CancelAdjustment, vars, threadVars, resultVars
  <1>7. QED
    BY <1>3, <1>4, <1>5, <1>6, StepCases DEF Aside, CombineThread

LEMMA UndisturbedBefore ==
  TypeOK /\ ProtocolInv /\ [Next]_vars /\ Undisturbed' => Undisturbed
  BY BrokenKept, PrematureKept DEF Undisturbed

-----------------------------------------------------------------------------
(* NothingLeftOver and MarkedLate. *)

(* An iteration that has ended well, and was not exhausted prematurely,    *)
(* has emptied the queue.                                                  *)
LEMMA QueueEmptied ==
  ASSUME TypeOK, ProtocolInv, RowsInv, NoLostBlock, Undisturbed, ThreadsFinished
  PROVE  the_queue = <<>>
  <1>1. SUFFICES ASSUME the_queue # <<>> PROVE FALSE
    OBVIOUS
  <1>2. the_queue \in Seq(Blocks \cup {Sentinel})
    BY DEF TypeOK, QueueTypeOK
  <1>3. 1 \in DOMAIN the_queue
    BY <1>1, <1>2
  <1>4. Combinable(the_queue[1])
    BY <1>3 DEF ProtocolInv, QueueCorrect, Queued, Undisturbed, Broken
  <1>5. QED
    BY <1>1, <1>4, IterationEnds DEF Combinable, RowsInv, Undisturbed

LEMMA NothingLeftOverStep ==
  TypeOK /\ ProtocolInv /\ NoLostBlock /\ RowsInv /\ NothingLeftOver /\ [Next]_vars
    => NothingLeftOver'
  <1> SUFFICES ASSUME TypeOK, ProtocolInv, NoLostBlock, RowsInv, NothingLeftOver,
                      [Next]_vars, ~premature'
               PROVE  leftover' = {}
    BY DEF NothingLeftOver
  <1>1. ~premature /\ leftover = {}
    BY PrematureKept DEF NothingLeftOver
  <1>2. CASE StartIteration
    <2>1. ~Broken /\ mainPc = "top"
      BY <1>2 DEF StartIteration, ProtocolInv, FailuresKept, Broken
    <2>2. the_queue = <<>>
      <3>1. CASE runPc["rev"] = "idle"
        BY <3>1 DEF RowsInv, RunsProgress, IdleTogether
      <3>2. CASE runPc["rev"] # "idle"
        <4>1. ThreadsFinished
          BY <2>1, <3>2 DEF ThreadsFinished, ProtocolInv, Quiet, RowsInv,
             RunsProgress, IdleTogether, Runs
        <4>2. QED
          BY <1>1, <2>1, <4>1, QueueEmptied DEF Undisturbed
      <3>3. QED
        BY <3>1, <3>2
    <2>3. QED
      BY <1>2, <2>2 DEF StartIteration, Queued
  <1>3. ASSUME NEW run \in Runs, RunStep(run) PROVE leftover' = {}
    BY <1>1, <1>3, RunLeavesWorkers
  <1>4. CASE Aside
    BY <1>1, <1>4, AsideLeavesRuns
  <1>5. QED
    BY <1>2, <1>3, <1>4, StepCases

LEMMA MarkedLateStep ==
  TypeOK /\ ProtocolInv /\ MarkedLate /\ [Next]_vars => MarkedLate'
  <1> SUFFICES ASSUME TypeOK, ProtocolInv, MarkedLate, [Next]_vars,
                      NEW run \in Runs, NEW b \in adjusted'[run]
               PROVE  \/ Passed(run, b)'
                      \/ runBlock'[run] = b /\ runPc'[run] \in {"test", "push"}
    BY DEF MarkedLate
  <1>1. CASE StartIteration
    BY <1>1 DEF StartIteration
  <1>2. CASE ~StartIteration /\ Passed(run, b) /\ b \in Blocks
    BY <1>2, PassedKept
  <1>3. ASSUME ~StartIteration, NEW r \in Runs, RunStep(r),
               ~(Passed(run, b) /\ b \in Blocks)
        PROVE  \/ Passed(run, b)'
               \/ runBlock'[run] = b /\ runPc'[run] \in {"test", "push"}
    <2>1. CASE SetAdjusted(r) /\ r = run /\ b = runBlock[run]
      BY <2>1 DEF SetAdjusted, RunGoto, TypeOK, ThreadTypes
    <2>2. CASE ~(SetAdjusted(r) /\ r = run /\ b = runBlock[run])
      <3>1. b \in adjusted[run]
        BY <1>3, <2>2, OnlySetMarks DEF SetAdjusted, TypeOK, FlagTypes
      <3>2. b \in Blocks
        BY <3>1 DEF TypeOK, FlagTypes
      <3>3. runBlock[run] = b /\ runPc[run] \in {"test", "push"}
        BY <1>3, <3>1, <3>2 DEF MarkedLate
      <3>4. CASE r # run
        <4>1. run = Other(r)
          BY <3>4 DEF Runs, Other
        <4>2. QED
          BY <1>3, <3>3, <4>1, RunMoves
      <3>5. CASE r = run
        <4>1. TestOther(run) \/ PushBlock(run)
          BY <1>3, <3>3, <3>5 DEF RunStep, StartRun, CheckRun, SolveFails,
             SetAdjusted, FinishRun, TestFinished, ExhaustQueue, HandlerTest,
             HandlerPush, SolveForward, UpdateForward, CarryForward, NotifyAll,
             SolveReverse, UpdateReverse, CarryReverse, FinalReverse
        <4>2. CombineRequired(b)
          BY <3>3 DEF ProtocolInv, RunsMark
        <4>3. b # LastOfRun(run) /\ b \in Int
          BY <3>2, <4>2 DEF LastOfRun, CombineRequired, BlockFirst, BlockLast, Blocks
        <4>4. \/ runPc'[run] = "push" /\ runBlock'[run] = b
              \/ /\ runPc'[run] = "check"
                 /\ runBlock'[run] = IF run = "fwd" THEN b + 1 ELSE b - 1
          BY <3>3, <4>1, <4>3 DEF TestOther, PushBlock, RunNextBlock, RunGoto,
             TypeOK, ThreadTypes
        <4>5. QED
          BY <4>3, <4>4 DEF Passed, Begun
      <3>6. QED
        BY <3>4, <3>5
    <2>3. QED
      BY <2>1, <2>2
  <1>4. CASE Aside
    <2>1. b \in adjusted[run] /\ UNCHANGED <<runPc, runBlock>>
      BY <1>4, AsideLeavesRuns
    <2>2. QED
      BY <2>1 DEF MarkedLate, Passed, Begun
  <1>5. QED
    BY <1>1, <1>2, <1>3, <1>4, StepCases
-----------------------------------------------------------------------------
(* What is known before and after a step while the threads are at work and *)
(* nothing has gone wrong.                                                 *)

AtWork ==
    /\ TypeOK /\ ProtocolInv /\ NoLostBlock /\ RowsInv
    /\ NothingLeftOver /\ MarkedLate
    /\ [Next]_vars
    /\ Undisturbed /\ Undisturbed'
    /\ mainPc = "join"
    /\ \A b \in Blocks :
         /\ ForwardOf(b)
         /\ ~BlockIsolated(b) => ReverseOf(b)
         /\ CombineRequired(b) => CombinationOf(b)

LEMMA NoFailure ==
  ASSUME AtWork
  PROVE  /\ leftover = {} /\ ~premature /\ ~cancelled /\ ~cancelled'
         /\ \A run \in Runs : ~runError[run] /\ ~runError'[run]
         /\ ~cmbError /\ ~cmbError'
         /\ \A w \in Workers : ~workerError[w] /\ ~workerError'[w]
         /\ \A run \in Runs : runPc[run] \notin {"caught", "sentinel"}
         /\ \A run \in Runs : runPc'[run] \notin {"caught", "sentinel"}
         /\ \A w \in Workers : workerPc[w] # "sentinel"
         /\ ~StartIteration
  <1>1. ProtocolInv'
    BY ProtocolStep DEF AtWork
  <1>2. QED
    BY <1>1 DEF AtWork, Undisturbed, NothingLeftOver, Broken, Failing,
       ProtocolInv, FailuresKept, WorkersCorrect, StartIteration

(* Both runs have left a block that both have marked or that is queued.    *)
LEMMA LeftWhenMarked ==
  ASSUME AtWork, NEW b \in Blocks, b \in BothAdjusted \/ pushes[b] > 0
  PROVE  /\ LeftForward(b) /\ LeftReverse(b) /\ Brought(b) /\ Carried(b)
         /\ ~(At("fwd", b, {"solve", "update", "carry"}))
         /\ ~(At("rev", b, {"check", "solve", "update", "carry", "final"}))
         /\ ~(At("rev", b + 1, {"set", "test", "push"}))
  <1>1. b \in BothAdjusted
    BY DEF AtWork, RowsInv, PushesBounded
  <1>2. b \in Int /\ runBlock["fwd"] \in Int /\ runBlock["rev"] \in Int
    BY BlockTypes DEF AtWork
  <1>3. \A run \in Runs :
          \/ Passed(run, b)
          \/ runBlock[run] = b /\ runPc[run] \in {"test", "push"}
    BY <1>1 DEF AtWork, MarkedLate, BothAdjusted, Runs
  <1>4. Carried(b)
    BY <1>1 DEF AtWork, RowsInv, RunsProgress, MarkedCarried, BothAdjusted
  <1>5. QED
    BY <1>2, <1>3, <1>4
    DEF LeftForward, LeftReverse, Brought, Passed, Begun, At, Runs, Ended

(* The junctions behind the forward run do not change any more.            *)
LEMMA SpoiledKept ==
  ASSUME AtWork, NEW b \in Blocks, SpoiledSinceFirst(b), Brought(b)
  PROVE  SpoiledSinceFirst(b)'
  <1>1. CASE UNCHANGED junctionsFwd
    BY <1>1 DEF SpoiledSinceFirst
  <1>2. CASE CarryForward
    <2> DEFINE k == runBlock["fwd"]
    <2>1. b \in Int /\ k \in Int
      BY BlockTypes DEF AtWork
    <2>2. b <= k
      BY <1>2 DEF Brought, At, CarryForward
    <2>3. ASSUME NEW c \in Blocks, c < b PROVE junctionsFwd'[c] = junctionsFwd[c]
      <3>1. c # k
        BY <2>1, <2>2, <2>3 DEF Blocks
      <3>2. QED
        BY <1>2, <3>1 DEF CarryForward, AtWork, TypeOK, MatrixTypes
    <2>4. QED
      BY <2>3 DEF SpoiledSinceFirst
  <1>3. CASE UpdateBlock
    BY <1>3 DEF UpdateBlock, AtWork
  <1>4. QED
    BY <1>1, <1>2, <1>3 DEF AtWork, Next, Main, StartIteration, LeaveLoop,
       JoinThreads, Finish, Forward, Reverse, CombineThread, StartRun, CheckRun,
       SolveFails, SetAdjusted, TestOther, PushBlock, FinishRun, TestFinished,
       ExhaustQueue, HandlerTest, HandlerPush, SolveForward, UpdateForward,
       NotifyAll, SolveReverse, UpdateReverse, CarryReverse, FinalReverse,
       WaitForBlock, StartWorkers, JoinWorkers, SpuriousWakeup, Worker,
       WorkerTop, WorkerMore, WorkerEmpty, WorkerErrors, WorkerSentinel,
       WorkerPop, WorkerPrepare, WorkerSolve, WorkerCombine, WorkerFinal,
       CancelAdjustment, Terminated, vars, matrixVars
-----------------------------------------------------------------------------
(* What a step leaves alone if it leaves alone what it speaks of.          *)

LEMMA ForwardKept ==
  ASSUME AtWork, NEW b \in Blocks,
         Brought(b)' <=> Brought(b),
         LeftForward(b)' <=> LeftForward(b),
         At("fwd", b, {"update"})' <=> At("fwd", b, {"update"}),
         At("fwd", b, {"carry"})' <=> At("fwd", b, {"carry"}),
         Brought(b) => junctionsFwd'[b - 1] = junctionsFwd[b - 1],
         BlockLast(b) => rigorous'[b] = rigorous[b],
         ~LeftForward(b) /\ (BlockFirst(b) => BlockLast(b))
           => forward'[b] = forward[b]
  PROVE  ForwardOf(b)'
  <1>1. ForwardOf(b)
    BY DEF AtWork
  <1>2. SpoiledSinceFirst(b) /\ Brought(b) => SpoiledSinceFirst(b)'
    BY SpoiledKept
  <1>3. LeftForward(b) \/ At("fwd", b, {"carry"}) => Brought(b)
    <2>1. b \in Int /\ runBlock["fwd"] \in Int
      BY BlockTypes DEF AtWork
    <2>2. QED
      BY <2>1 DEF LeftForward, Passed, Begun, At, Brought, Ended
  <1>4. ForwardNormals(b)' = ForwardNormals(b)
    BY DEF ForwardNormals
  <1>5. QED
    BY <1>1, <1>2, <1>3, <1>4 DEF ForwardOf

LEMMA ReverseKept ==
  ASSUME AtWork, NEW b \in Blocks, ~BlockIsolated(b),
         Carried(b)' <=> Carried(b),
         LeftReverse(b)' => LeftReverse(b),
         ~BlockLast(b) =>
           \/ ~(At("rev", b, {"check", "solve"})
                  \/ At("rev", b + 1, {"set", "test", "push"}))'
           \/ At("rev", b, {"check", "solve"})
                \/ At("rev", b + 1, {"set", "test", "push"}),
         BlockLast(b) /\ At("rev", b, {"check", "solve"})'
           => At("rev", b, {"check", "solve"}),
         At("rev", b, {"update"})' => At("rev", b, {"update"}),
         At("rev", b, {"carry", "final"})' => At("rev", b, {"carry", "final"}),
         At("rev", b, {"update", "carry"})' => At("rev", b, {"update", "carry"}),
         \/ /\ reverse'[b].normals = reverse[b].normals
            /\ reverse'[b].backup = reverse[b].backup
            /\ reverse'[b].stations = reverse[b].stations
         \/ /\ Carried(b)
            /\ ~At("rev", b, {"check", "solve", "update", "carry", "final"})
            /\ ~At("rev", b + 1, {"set", "test", "push"}),
         BlockFirst(b) /\ ~BlockLast(b) => rigorous'[b] = rigorous[b]
  PROVE  ReverseOf(b)'
  <1>1. ReverseOf(b)
    BY DEF AtWork
  <1>2. QED
    BY <1>1 DEF ReverseOf, At

LEMMA CombinationKept ==
  ASSUME AtWork, NEW b \in Blocks, CombineRequired(b),
         pushes'[b] = pushes[b],
         Waiting(b)' = Waiting(b),
         Combiners(b)' = Combiners(b),
         \A w \in Combiners(b) : workerPc'[w] = workerPc[w],
         pushes[b] > 0 =>
           /\ reverse'[b].normals = reverse[b].normals
           /\ reverse'[b].stations = reverse[b].stations
           /\ rigorous'[b] = rigorous[b],
         LeftReverse(b)' =>
           \/ reverse'[b].backup = "carried"
           \/ LeftReverse(b) /\ reverse'[b].backup = reverse[b].backup
  PROVE  CombinationOf(b)'
  <1>1. CombinationOf(b)
    BY DEF AtWork
  <1>2. pushes[b] = 1 /\ SpoiledSinceFirst(b) => SpoiledSinceFirst(b)'
    BY LeftWhenMarked, SpoiledKept
  <1>3. CASE pushes[b] > 1
    BY <1>3 DEF CombinationOf
  <1>4. CASE /\ Waiting(b) = pushes[b]
             /\ Combiners(b) = {}
             /\ LeftReverse(b) => reverse[b].backup = "carried"
    BY <1>4 DEF CombinationOf
  <1>5. ASSUME Waiting(b) = 0, pushes[b] = 1,
               NEW w \in Workers, Combiners(b) = {w},
               CombinedSoFar(b, workerPc[w]) \/ SpoiledSinceFirst(b)
        PROVE  CombinationOf(b)'
    <2>1. workerPc'[w] = workerPc[w] /\ Combiners(b)' = {w}
      BY <1>5
    <2>2. reverse'[b].normals = reverse[b].normals
            /\ reverse'[b].stations = reverse[b].stations
      BY <1>5
    <2>3. CombinedSoFar(b, workerPc[w]) => CombinedSoFar(b, workerPc[w])'
      BY <2>1, <2>2 DEF CombinedSoFar
    <2>4. QED
      BY <1>2, <1>5, <2>1, <2>3 DEF CombinationOf
  <1>6. CASE /\ Waiting(b) = 0
             /\ pushes[b] = 1
             /\ Combiners(b) = {}
             /\ rigorous[b] = "rigorous" \/ SpoiledSinceFirst(b)
    BY <1>2, <1>6 DEF CombinationOf
  <1>7. QED
    BY <1>1, <1>3, <1>4, <1>5, <1>6 DEF CombinationOf
-----------------------------------------------------------------------------
(* The steps of the forward run. *)

(* Where the forward run stands decides what it has done with a block.     *)
LEMMA ForwardPlaces ==
  ASSUME AtWork, RunStep("fwd")
  PROVE  \/ StartRun("fwd")
         \/ CheckRun("fwd") /\ runPc'["fwd"] = "solve"
              /\ runBlock'["fwd"] = runBlock["fwd"]
         \/ SolveForward
         \/ UpdateForward /\ runPc'["fwd"] = "carry"
         \/ CarryForward
         \/ SetAdjusted("fwd")
         \/ TestOther("fwd")
         \/ PushBlock("fwd")
         \/ /\ UNCHANGED <<runBlock, matrixVars, pushes, the_queue>>
            /\ runPc["fwd"] \in Ended /\ runPc'["fwd"] \in Ended
  <1>1. ~HandlerTest("fwd") /\ ~HandlerPush("fwd") /\ ~SolveFails("fwd")
    BY NoFailure DEF HandlerTest, HandlerPush, SolveFails, Runs, AtWork, TypeOK,
       ErrorTypes
  <1>2. ~(cancelled \/ OthersFailed("fwd"))
    BY NoFailure DEF OthersFailed, Other, Runs
  <1>3. runPc \in [Runs -> RunLabels]
    BY DEF AtWork, TypeOK, ThreadTypes
  <1>4. QED
    BY <1>1, <1>2, <1>3 DEF RunStep, CheckRun, FinishRun, TestFinished,
       ExhaustQueue, AfterExhaust, NotifyAll, UpdateForward, RunGoto, Runs,
       Ended, queue_exhausted, notify_all, queueVars, historyVars

(* The next block after one that is to be combined, or after any but the   *)
(* last.                                                                   *)
LEMMA ForwardNext ==
  ASSUME AtWork, RunStep("fwd"),
         TestOther("fwd") \/ PushBlock("fwd") \/ SetAdjusted("fwd")
  PROVE  /\ CombineRequired(runBlock["fwd"])
         /\ runPc["fwd"] \in {"set", "test", "push"}
         /\ \/ runPc'["fwd"] \in {"test", "push"} /\ runBlock' = runBlock
            \/ /\ runPc'["fwd"] = "check"
               /\ runBlock'["fwd"] = runBlock["fwd"] + 1
         /\ UNCHANGED matrixVars
  <1>1. runPc["fwd"] \in {"set", "test", "push"}
    BY DEF TestOther, PushBlock, SetAdjusted
  <1>2. CombineRequired(runBlock["fwd"])
    BY <1>1 DEF AtWork, ProtocolInv, RunsMark, Runs
  <1>3. runBlock["fwd"] # LastOfRun("fwd")
    BY <1>2 DEF CombineRequired, BlockLast, LastOfRun
  <1>4. QED
    BY <1>1, <1>2, <1>3 DEF TestOther, PushBlock, SetAdjusted, RunNextBlock,
       RunGoto, AtWork, TypeOK, ThreadTypes, Runs, historyVars

LEMMA ForwardSame ==
  ASSUME AtWork, RunStep("fwd"), NEW b \in Blocks,
         ~StartRun("fwd"), ~SolveForward, ~UpdateForward, ~CarryForward
  PROVE  ForwardOf(b)'
  <1>1. b \in Int /\ runBlock["fwd"] \in Int
    BY BlockTypes DEF AtWork
  <1>2. UNCHANGED matrixVars
    BY ForwardPlaces, ForwardNext DEF CheckRun
  <1>3. CASE /\ runBlock'["fwd"] = runBlock["fwd"]
             /\ \/ runPc["fwd"] = "check" /\ runPc'["fwd"] = "solve"
                \/ /\ runPc["fwd"] \in {"set", "test", "push"}
                   /\ runPc'["fwd"] \in {"set", "test", "push"}
                \/ runPc["fwd"] \in Ended /\ runPc'["fwd"] \in Ended
    <2>1. /\ Brought(b)' <=> Brought(b)
          /\ LeftForward(b)' <=> LeftForward(b)
          /\ At("fwd", b, {"update"})' <=> At("fwd", b, {"update"})
          /\ At("fwd", b, {"carry"})' <=> At("fwd", b, {"carry"})
      BY <1>1, <1>3 DEF Brought, LeftForward, Passed, Begun, At, Ended
    <2>2. QED
      BY <1>2, <2>1, ForwardKept DEF matrixVars
  <1>4. CASE /\ runPc["fwd"] \in {"set", "test", "push"}
             /\ runPc'["fwd"] = "check"
             /\ runBlock'["fwd"] = runBlock["fwd"] + 1
    <2>1. /\ Brought(b)' <=> Brought(b)
          /\ LeftForward(b)' <=> LeftForward(b)
          /\ At("fwd", b, {"update"})' <=> At("fwd", b, {"update"})
          /\ At("fwd", b, {"carry"})' <=> At("fwd", b, {"carry"})
      BY <1>1, <1>4 DEF Brought, LeftForward, Passed, Begun, At, Ended
    <2>2. QED
      BY <1>2, <2>1, ForwardKept DEF matrixVars
  <1>5. QED
    BY <1>3, <1>4, ForwardPlaces, ForwardNext DEF CheckRun

LEMMA ForwardStarts ==
  ASSUME AtWork, StartRun("fwd"), NEW b \in Blocks
  PROVE  ForwardOf(b)'
  <1>1. b \in Int /\ 0 <= b
    BY BlockTypes DEF AtWork
  <1>2. runPc["fwd"] = "start" /\ runPc'["fwd"] = "check" /\ runBlock'["fwd"] = 0
          /\ UNCHANGED matrixVars
    BY DEF StartRun, RunGoto, FirstOfRun, AtWork, TypeOK, ThreadTypes, Runs
  <1>3. ~LeftForward(b) /\ ~Brought(b)
    BY <1>2 DEF LeftForward, Passed, Begun, At, Ended, Brought
  <1>4. (BlockFirst(b) => BlockLast(b)) => forward[b] = "formed"
    <2>1. ForwardOf(b)
      BY DEF AtWork
    <2>2. ForwardNormals(b) = "formed"
      BY <1>2, <1>3 DEF ForwardNormals, At
    <2>3. QED
      BY <1>3, <2>1, <2>2 DEF ForwardOf
  <1>5. ~LeftForward(b)' /\ ~At("fwd", b, {"carry"})'
    BY <1>1, <1>2 DEF LeftForward, Passed, Begun, At, Ended
  <1>6. Brought(b)' => BlockFirst(b)
    BY <1>1, <1>2 DEF Brought, At, BlockFirst
  <1>7. ForwardNormals(b)' = "formed"
    BY <1>2, <1>5, <1>6 DEF ForwardNormals, At
  <1>8. QED
    BY <1>2, <1>4, <1>5, <1>6, <1>7 DEF ForwardOf, matrixVars
LEMMA ForwardSolves ==
  ASSUME AtWork, SolveForward, NEW b \in Blocks
  PROVE  ForwardOf(b)'
  <1> DEFINE k == runBlock["fwd"]
             expected == IF k > 0 /\ CarriesForward(k - 1) THEN "carried"
                                                           ELSE "formed"
  <1>1. b \in Int /\ k \in Int /\ k \in Blocks /\ 0 <= k
    BY BlockTypes DEF AtWork, Blocks
  <1>2. /\ runPc["fwd"] = "solve" /\ runPc'["fwd"] = "update"
        /\ UNCHANGED <<runBlock, junctionsFwd, rigorous>>
    BY DEF SolveForward, RunGoto, AtWork, TypeOK, ThreadTypes, Runs
  <1>3. /\ forward'[k] = IF forward[k] = expected THEN "solved" ELSE "spoiled"
        /\ b # k => forward'[b] = forward[b]
    BY <1>1 DEF SolveForward, AtWork, TypeOK, MatrixTypes
  <1>4. /\ Brought(b)' <=> Brought(b)
        /\ LeftForward(b)' <=> LeftForward(b)
        /\ ~At("fwd", b, {"carry"})' /\ ~At("fwd", b, {"carry"})
        /\ ~At("fwd", b, {"update"})
        /\ At("fwd", b, {"update"})' <=> b = k
    BY <1>1, <1>2 DEF Brought, LeftForward, Passed, Begun, At, Ended
  <1>5. CASE b # k
    BY <1>2, <1>3, <1>4, <1>5, ForwardKept
  <1>6. CASE b = k
    <2>1. ~LeftForward(b) /\ Brought(b)
      BY <1>1, <1>2, <1>6 DEF Brought, LeftForward, Passed, Begun, At, Ended
    <2>2. ForwardOf(b) /\ (SpoiledSinceFirst(b) => SpoiledSinceFirst(b)')
      BY <2>1, SpoiledKept DEF AtWork
    <2>3. expected = IF BlockFirst(k) THEN "formed" ELSE "carried"
      <3>1. CASE BlockFirst(k)
        <4>1. k > 0 => BlockLast(k - 1)
          BY <1>1, <3>1, BorderBefore
        <4>2. QED
          BY <3>1, <4>1 DEF CarriesForward
      <3>2. CASE ~BlockFirst(k)
        <4>1. k - 1 \in Blocks /\ ~BlockLast(k - 1)
          BY <1>1, <3>2, NextToFirst
        <4>2. CarriesForward(k - 1)
          BY <4>1, NextToLast
        <4>3. k > 0
          BY <1>1, <3>2 DEF BlockFirst
        <4>4. QED
          BY <3>2, <4>2, <4>3
      <3>3. QED
        BY <3>1, <3>2
    <2>4. ForwardNormals(b) = expected
      BY <1>4, <1>6, <2>1, <2>3 DEF ForwardNormals
    <2>5. ForwardNormals(b)' = "solved"
      BY <1>4, <1>6 DEF ForwardNormals
    <2> HIDE DEF expected, k
    <2>6. (BlockFirst(b) => BlockLast(b)) =>
             \/ forward'[b] = "solved"
             \/ forward'[b] = "spoiled" /\ SpoiledSinceFirst(b)'
      BY <1>3, <1>6, <2>1, <2>2, <2>4 DEF ForwardOf
    <2>7. QED
      BY <1>2, <1>4, <2>1, <2>2, <2>5, <2>6 DEF ForwardOf
  <1>7. QED
    BY <1>5, <1>6

LEMMA ForwardUpdates ==
  ASSUME AtWork, UpdateForward, runPc'["fwd"] = "carry", NEW b \in Blocks
  PROVE  ForwardOf(b)'
  <1> DEFINE k == runBlock["fwd"]
  <1>1. b \in Int /\ k \in Int /\ k \in Blocks
    BY BlockTypes DEF AtWork, Blocks
  <1>2. /\ runPc["fwd"] = "update"
        /\ UNCHANGED <<runBlock, junctionsFwd>>
    BY DEF UpdateForward
  <1>3. ~OthersFailed("fwd")
    BY NoFailure DEF OthersFailed, Other, Runs
  <1>4. /\ forward'[k] = IF forward[k] = "solved" THEN "updated" ELSE "spoiled"
        /\ BlockLast(k) =>
             rigorous'[k] = IF forward[k] = "solved" THEN "rigorous" ELSE "spoiled"
        /\ b # k => forward'[b] = forward[b] /\ rigorous'[b] = rigorous[b]
    BY <1>1, <1>3 DEF UpdateForward, AtWork, TypeOK, MatrixTypes
  <1>5. /\ Brought(b)' <=> Brought(b)
        /\ LeftForward(b)' <=> LeftForward(b)
        /\ ~At("fwd", b, {"carry"}) /\ ~At("fwd", b, {"update"})'
        /\ At("fwd", b, {"update"}) <=> b = k
        /\ At("fwd", b, {"carry"})' <=> b = k
    BY <1>1, <1>2 DEF Brought, LeftForward, Passed, Begun, At, Ended
  <1>6. CASE b # k
    BY <1>2, <1>4, <1>5, <1>6, ForwardKept
  <1>7. CASE b = k
    <2>1. ~LeftForward(b) /\ Brought(b)
      BY <1>1, <1>2, <1>7 DEF Brought, LeftForward, Passed, Begun, At, Ended
    <2>2. ForwardOf(b) /\ (SpoiledSinceFirst(b) => SpoiledSinceFirst(b)')
      BY <2>1, SpoiledKept DEF AtWork
    <2>3. ForwardNormals(b) = "solved" /\ ForwardNormals(b)' = "updated"
      BY <1>5, <1>7 DEF ForwardNormals
    <2> HIDE DEF k
    <2>4. (BlockFirst(b) => BlockLast(b)) =>
             forward[b] = "solved" \/ SpoiledSinceFirst(b)'
      BY <2>1, <2>2, <2>3 DEF ForwardOf
    <2>5. (BlockFirst(b) => BlockLast(b)) =>
             \/ forward'[b] = "updated"
             \/ forward'[b] = "spoiled" /\ SpoiledSinceFirst(b)'
      BY <1>4, <1>7, <2>4
    <2>6. BlockLast(b) => rigorous'[b] = "rigorous" \/ SpoiledSinceFirst(b)'
      BY <1>4, <1>7, <2>4
    <2>7. QED
      BY <1>2, <1>5, <2>1, <2>2, <2>3, <2>5, <2>6 DEF ForwardOf
  <1>8. QED
    BY <1>6, <1>7
LEMMA ForwardCarries ==
  ASSUME AtWork, CarryForward, NEW b \in Blocks
  PROVE  ForwardOf(b)'
  <1> DEFINE k == runBlock["fwd"]
             good == forward[k] = "updated"
  <1>1. b \in Int /\ k \in Int /\ k \in Blocks /\ BlockCount \in Int
          /\ b <= BlockCount - 1
    BY BlockTypes DEF AtWork, Blocks
  <1>2. runPc["fwd"] = "carry" /\ UNCHANGED rigorous
    BY DEF CarryForward
  <1>3. \/ CombineRequired(k) /\ runPc'["fwd"] = "set" /\ runBlock'["fwd"] = k
        \/ runPc'["fwd"] = "finish" /\ runBlock'["fwd"] = k /\ k = BlockCount - 1
        \/ runPc'["fwd"] = "check" /\ runBlock'["fwd"] = k + 1
    BY DEF CarryForward, RunNextBlock, RunGoto, LastOfRun, AtWork, TypeOK,
           ThreadTypes, Runs
  <1>4. CarriesForward(k) <=> ~BlockLast(k)
    BY <1>1, NextToLast DEF CarriesForward
  <1>5. /\ ~At("fwd", b, {"update", "carry"})'
        /\ ~At("fwd", b, {"update"})' /\ ~At("fwd", b, {"carry"})'
        /\ ~At("fwd", b, {"update"})
        /\ At("fwd", b, {"carry"}) <=> b = k
    BY <1>2, <1>3 DEF At
  <1>6. LeftForward(b) <=> b < k
    BY <1>1, <1>2 DEF LeftForward, Passed, Begun, At, Ended
  <1>7. LeftForward(b)' <=> b <= k
    BY <1>1, <1>3 DEF LeftForward, Passed, Begun, At, Ended
  <1>8. Brought(b) <=> b <= k
    BY <1>1, <1>2 DEF Brought, Begun, At
  <1>9. Brought(b)' <=> b <= k + 1
    BY <1>1, <1>3 DEF Brought, Begun, At
  <1>10. ForwardOf(b) /\ ForwardOf(k)
    BY <1>1 DEF AtWork
  <1>11. forward \in [Blocks -> ForwardState] /\ junctionsFwd \in [Blocks -> JunctionState]
    BY DEF AtWork, TypeOK, MatrixTypes
  <1>12. CASE b <= k
    <2>1. SpoiledSinceFirst(b) => SpoiledSinceFirst(b)'
      BY <1>8, <1>12, SpoiledKept
    <2>2. b - 1 # k
      BY <1>1, <1>12
    <2>3. junctionsFwd'[b - 1] = junctionsFwd[b - 1] \/ BlockFirst(b)
      <3>1. CASE ~BlockFirst(b)
        <4>1. b - 1 \in Blocks
          BY <3>1, NextToFirst
        <4>2. QED
          BY <1>11, <2>2, <4>1 DEF CarryForward
      <3>2. QED
        BY <3>1
    <2> HIDE DEF k
    <2>4. BlockLast(b) => rigorous[b] = "rigorous" \/ SpoiledSinceFirst(b)
      BY <1>1, <1>5, <1>6, <1>10, <1>12 DEF ForwardOf
    <2>5. Brought(b) /\ LeftForward(b)'
      BY <1>7, <1>8, <1>12
    <2>6. QED
      BY <1>2, <1>10, <2>1, <2>3, <2>4, <2>5 DEF ForwardOf
  <1>13. CASE k < b
    <2>1. ~LeftForward(b) /\ ~LeftForward(b)' /\ ~Brought(b)
      BY <1>1, <1>6, <1>7, <1>8, <1>13
    <2>2. b # k /\ (b = k + 1 <=> Brought(b)')
      BY <1>1, <1>9, <1>13
    <2>3. (BlockFirst(b) => BlockLast(b)) => forward[b] = "formed"
      <3>1. ForwardNormals(b) = "formed"
        BY <1>5, <2>1, <2>2 DEF ForwardNormals
      <3>2. QED
        BY <1>10, <2>1, <3>1 DEF ForwardOf
    <2>4. CASE b = k + 1 /\ ~BlockLast(k)
      <3>1. ~BlockFirst(b) /\ b - 1 = k
        BY <1>1, <2>4, NextToLast
      <3>2. ForwardNormals(b)' = "carried"
        BY <1>5, <2>2, <2>4, <3>1 DEF ForwardNormals
      <3>3. forward'[b] = IF good THEN "carried" ELSE "spoiled"
        BY <1>4, <1>11, <2>3, <2>4, <3>1 DEF CarryForward
      <3>4. junctionsFwd'[k] = IF good THEN "good" ELSE "spoiled"
        BY <1>1, <1>4, <1>11, <2>4 DEF CarryForward
      <3>5. ASSUME ~good PROVE SpoiledSinceFirst(b)'
        <4>1. ASSUME ~BlockFirst(k) PROVE SpoiledSinceFirst(k)
          <5>1. At("fwd", k, {"carry"}) /\ ~At("fwd", k, {"update"})
                  /\ ~LeftForward(k)
            BY <1>1, <1>2 DEF At, LeftForward, Passed, Ended
          <5>2. ForwardNormals(k) = "updated"
            BY <5>1 DEF ForwardNormals
          <5> HIDE DEF k
          <5>3. QED
            BY <1>10, <3>5, <4>1, <5>1, <5>2 DEF ForwardOf
        <4>2. ASSUME NEW c \in Blocks, c < b, \A d \in c + 1 .. b : ~BlockFirst(d)
              PROVE  junctionsFwd'[c] = "spoiled"
          <5>1. c \in Int
            BY DEF Blocks
          <5>2. CASE c = k
            BY <3>4, <3>5, <5>2
          <5>3. CASE c # k
            <6>1. c < k /\ k \in c + 1 .. b /\ \A d \in c + 1 .. k : d \in c + 1 .. b
              BY <1>1, <2>4, <4>2, <5>1, <5>3
            <6>2. SpoiledSinceFirst(k)
              BY <4>1, <4>2, <6>1
            <6> HIDE DEF k
            <6>3. junctionsFwd[c] = "spoiled"
              BY <4>2, <6>1, <6>2 DEF SpoiledSinceFirst
            <6>4. junctionsFwd'[c] = junctionsFwd[c]
              BY <1>11, <5>3 DEF CarryForward, k
            <6>5. QED
              BY <6>3, <6>4
          <5>4. QED
            BY <5>2, <5>3
        <4> HIDE DEF k
        <4>3. QED
          BY <3>1, <4>2 DEF SpoiledSinceFirst
      <3> HIDE DEF k, good
      <3>6. junctionsFwd'[b - 1] = "good" \/ SpoiledSinceFirst(b)'
        BY <3>1, <3>4, <3>5
      <3>7. QED
        BY <1>5, <2>1, <2>2, <2>4, <3>1, <3>2, <3>3, <3>5, <3>6 DEF ForwardOf
    <2>5. CASE ~(b = k + 1 /\ ~BlockLast(k))
      <3>1. forward'[b] = forward[b]
        BY <1>1, <1>4, <1>11, <2>2, <2>5 DEF CarryForward
      <3>2. Brought(b)' => BlockFirst(b)
        <4>1. CASE b = k + 1
          BY <1>1, <2>2, <2>5, <4>1, BorderAfter
        <4>2. QED
          BY <2>2, <4>1
      <3>3. ForwardNormals(b)' = "formed"
        BY <1>5, <3>2 DEF ForwardNormals
      <3>4. QED
        BY <1>5, <2>1, <2>3, <3>1, <3>2, <3>3 DEF ForwardOf
    <2>6. QED
      BY <2>4, <2>5
  <1>14. QED
    BY <1>1, <1>12, <1>13

LEMMA ForwardRunForward ==
  ASSUME AtWork, RunStep("fwd"), NEW b \in Blocks
  PROVE  ForwardOf(b)'
  <1>1. UpdateForward => runPc'["fwd"] = "carry"
    BY NoFailure DEF UpdateForward, OthersFailed, Other, RunGoto, Runs, AtWork,
       TypeOK, ThreadTypes
  <1>2. QED
    BY <1>1, ForwardSame, ForwardStarts, ForwardSolves, ForwardUpdates,
       ForwardCarries
-----------------------------------------------------------------------------
(* The steps of the reverse run. *)

LEMMA ReversePlaces ==
  ASSUME AtWork, RunStep("rev")
  PROVE  \/ StartRun("rev")
         \/ CheckRun("rev") /\ runPc'["rev"] = "solve" /\ runBlock' = runBlock
         \/ CheckRun("rev") /\ BlockIsolated(runBlock["rev"])
              /\ \/ runPc'["rev"] = "finish" /\ runBlock' = runBlock
                 \/ /\ runPc'["rev"] = "check" /\ runBlock["rev"] # 0
                    /\ runBlock'["rev"] = runBlock["rev"] - 1
         \/ SolveReverse
         \/ UpdateReverse /\ runPc'["rev"] = "carry"
         \/ CarryReverse
         \/ FinalReverse
         \/ SetAdjusted("rev")
         \/ TestOther("rev")
         \/ PushBlock("rev")
         \/ /\ UNCHANGED <<runBlock, matrixVars, pushes, the_queue>>
            /\ runPc["rev"] \in Ended /\ runPc'["rev"] \in Ended
  <1>1. ~HandlerTest("rev") /\ ~HandlerPush("rev") /\ ~SolveFails("rev")
    BY NoFailure DEF HandlerTest, HandlerPush, SolveFails, Runs, AtWork, TypeOK,
       ErrorTypes
  <1>2. ~(cancelled \/ OthersFailed("rev"))
    BY NoFailure DEF OthersFailed, Other, Runs
  <1>3. runPc \in [Runs -> RunLabels] /\ runBlock \in [Runs -> Blocks]
    BY DEF AtWork, TypeOK, ThreadTypes
  <1>4. CASE CheckRun("rev")
    BY <1>2, <1>3, <1>4 DEF CheckRun, RunNextBlock, LastOfRun, RunGoto, Runs
  <1>5. QED
    BY <1>1, <1>2, <1>3, <1>4 DEF RunStep, FinishRun, TestFinished,
       ExhaustQueue, AfterExhaust, UpdateReverse, RunGoto, Runs,
       Ended, queue_exhausted, queueVars, historyVars

LEMMA ReverseNext ==
  ASSUME AtWork, RunStep("rev"),
         TestOther("rev") \/ PushBlock("rev") \/ SetAdjusted("rev")
  PROVE  /\ CombineRequired(runBlock["rev"])
         /\ runPc["rev"] \in {"set", "test", "push"}
         /\ \/ runPc'["rev"] \in {"test", "push"} /\ runBlock' = runBlock
            \/ /\ runPc'["rev"] = "check"
               /\ runBlock'["rev"] = runBlock["rev"] - 1
         /\ UNCHANGED matrixVars
  <1>1. runPc["rev"] \in {"set", "test", "push"}
    BY DEF TestOther, PushBlock, SetAdjusted
  <1>2. CombineRequired(runBlock["rev"])
    BY <1>1 DEF AtWork, ProtocolInv, RunsMark, Runs
  <1>3. runBlock["rev"] # LastOfRun("rev")
    BY <1>2 DEF CombineRequired, BlockFirst, LastOfRun
  <1>4. QED
    BY <1>1, <1>2, <1>3 DEF TestOther, PushBlock, SetAdjusted, RunNextBlock,
       RunGoto, AtWork, TypeOK, ThreadTypes, Runs, historyVars

(* Nothing is appended to a last block before the reverse run solves it,   *)
(* and one set of junctions to any other.                                  *)
LEMMA RowsWhenSolved ==
  ASSUME AtWork, SolveReverse
  PROVE  reverse[runBlock["rev"]].rows =
           IF BlockLast(runBlock["rev"]) THEN 0 ELSE 1
  <1> DEFINE k == runBlock["rev"]
  <1>1. k \in Blocks /\ k \in Int
    BY DEF AtWork, TypeOK, ThreadTypes, Runs, Blocks
  <1>2. runPc["rev"] = "solve" /\ ~BlockIsolated(k)
    BY DEF SolveReverse, AtWork, RowsInv, RunsProgress, ReverseOnBlock
  <1>3. OnFirstBlock(k) /\ ~LeftOnFirstBlock(k)
    BY <1>2 DEF OnFirstBlock, LeftOnFirstBlock
  <1>4. CASE ~CombineRequired(k)
    <2>1. \/ reverse[k].rows = 0 /\ ~(OnFirstBlock(k) /\ ~BlockLast(k))
          \/ reverse[k].rows = 1 /\ ~BlockLast(k)
      BY <1>1, <1>4 DEF AtWork, RowsInv, OuterRows
    <2>2. QED
      BY <1>3, <2>1
  <1>5. CASE CombineRequired(k)
    <2>1. Carried(k)
      BY <1>1, <1>2 DEF Carried, Begun
    <2>2. RowsAfterCarry(k)
      BY <1>1, <1>5, <2>1 DEF AtWork, RowsInv, InnerRows, RowsOf
    <2>3. ~(pushes[k] > 0)
      <3>1. At("rev", k, {"check", "solve", "update", "carry", "final"})
        BY <1>2 DEF At
      <3>2. QED
        BY <1>1, <3>1, LeftWhenMarked
    <2>4. pushes[k] \in Nat /\ Waiting(k) \in Nat /\ k \notin leftover /\ ~Broken
      BY <1>1, WaitingType, NoFailure DEF AtWork, TypeOK, HistoryTypes, Undisturbed
    <2> HIDE DEF k
    <2>5. reverse[k].rows = 1
      BY <2>2, <2>3, <2>4 DEF RowsAfterCarry, Exactly
    <2>6. QED
      BY <1>5, <2>5 DEF k, CombineRequired
  <1>6. QED
    BY <1>4, <1>5

LEMMA ReverseStarts ==
  ASSUME AtWork, StartRun("rev"), NEW b \in Blocks, ~BlockIsolated(b)
  PROVE  ReverseOf(b)'
  <1>1. b \in Int /\ b <= BlockCount - 1 /\ BlockCount \in Int
    BY BlockTypes DEF AtWork
  <1>2. /\ runPc["rev"] = "start" /\ runPc'["rev"] = "check"
        /\ runBlock'["rev"] = BlockCount - 1
        /\ UNCHANGED matrixVars
    BY DEF StartRun, RunGoto, FirstOfRun, AtWork, TypeOK, ThreadTypes, Runs
  <1>3. reverse[b].normals = "formed"
    BY <1>2 DEF AtWork, ReverseOf, Carried, Begun
  <1>4. b = BlockCount - 1 => BlockLast(b)
    BY DEF BlockLast
  <1>5. QED
    BY <1>1, <1>2, <1>3, <1>4
    DEF ReverseOf, LeftReverse, Passed, Begun, At, Ended, matrixVars

(* The steps that only move the run, within a block or to the next one     *)
(* when the junctions have already been appended to it.                    *)
LEMMA ReverseSame ==
  ASSUME AtWork, RunStep("rev"), NEW b \in Blocks, ~BlockIsolated(b),
         ~StartRun("rev"), ~SolveReverse, ~UpdateReverse, ~CarryReverse,
         ~FinalReverse, ~(CheckRun("rev") /\ BlockIsolated(runBlock["rev"]))
  PROVE  ReverseOf(b)' /\ (LeftReverse(b)' => LeftReverse(b))
  <1>1. b \in Int /\ runBlock["rev"] \in Int /\ runBlock["rev"] \in Blocks
    BY BlockTypes DEF AtWork
  <1>2. UNCHANGED matrixVars
    BY ReversePlaces, ReverseNext DEF CheckRun
  <1>3. CASE /\ runBlock'["rev"] = runBlock["rev"]
             /\ \/ runPc["rev"] = "check" /\ runPc'["rev"] = "solve"
                \/ /\ runPc["rev"] \in {"set", "test", "push"}
                   /\ runPc'["rev"] \in {"set", "test", "push"}
                \/ runPc["rev"] \in Ended /\ runPc'["rev"] \in Ended
    <2>1. /\ Carried(b)' <=> Carried(b)
          /\ LeftReverse(b)' <=> LeftReverse(b)
      BY <1>1, <1>3 DEF Carried, LeftReverse, Passed, Begun, At, Ended
    <2>2. /\ At("rev", b, {"check", "solve"})' => At("rev", b, {"check", "solve"})
          /\ At("rev", b + 1, {"set", "test", "push"})'
               => At("rev", b + 1, {"set", "test", "push"})
          /\ ~At("rev", b, {"update"})'
          /\ ~At("rev", b, {"carry", "final"})'
          /\ ~At("rev", b, {"update", "carry"})'
      BY <1>3 DEF At, Ended
    <2>3. QED
      BY <1>2, <2>1, <2>2, ReverseKept DEF matrixVars
  <1>4. CASE /\ runPc["rev"] \in {"set", "test", "push"}
             /\ runPc'["rev"] = "check"
             /\ runBlock'["rev"] = runBlock["rev"] - 1
             /\ CombineRequired(runBlock["rev"])
    <2>1. /\ Carried(b)' <=> Carried(b)
          /\ LeftReverse(b)' <=> LeftReverse(b)
      BY <1>1, <1>4 DEF Carried, LeftReverse, Passed, Begun, At, Ended
    <2>2. At("rev", b, {"check", "solve"})' => b + 1 = runBlock["rev"] /\ ~BlockLast(b)
      <3>1. ~BlockLast(runBlock["rev"] - 1)
        BY <1>1, <1>4, NextToFirst DEF CombineRequired
      <3>2. QED
        BY <1>1, <1>4, <3>1 DEF At
    <2>3. /\ At("rev", b, {"check", "solve"})'
               => At("rev", b + 1, {"set", "test", "push"})
          /\ ~At("rev", b + 1, {"set", "test", "push"})'
          /\ ~At("rev", b, {"update"})'
          /\ ~At("rev", b, {"carry", "final"})'
          /\ ~At("rev", b, {"update", "carry"})'
      BY <1>4, <2>2 DEF At
    <2>4. QED
      BY <1>2, <2>1, <2>2, <2>3, ReverseKept DEF matrixVars
  <1>5. QED
    BY <1>3, <1>4, ReversePlaces, ReverseNext DEF CheckRun
LEMMA ReverseSkips ==
  ASSUME AtWork, RunStep("rev"), CheckRun("rev"),
         BlockIsolated(runBlock["rev"]), NEW b \in Blocks, ~BlockIsolated(b)
  PROVE  ReverseOf(b)' /\ (LeftReverse(b)' => LeftReverse(b))
  <1> DEFINE k == runBlock["rev"]
  <1>1. b \in Int /\ k \in Int /\ k \in Blocks
    BY BlockTypes DEF AtWork
  <1>2. runPc["rev"] = "check" /\ BlockFirst(k) /\ b # k /\ UNCHANGED matrixVars
    BY DEF CheckRun, BlockIsolated
  <1>3. \/ runPc'["rev"] = "finish" /\ runBlock'["rev"] = k
        \/ runPc'["rev"] = "check" /\ k # 0 /\ runBlock'["rev"] = k - 1
    <2>1. ~(runPc'["rev"] = "solve")
      BY <1>1 DEF CheckRun, RunNextBlock, RunGoto, AtWork, Undisturbed, TypeOK,
                  ThreadTypes, Runs
    <2>2. QED
      BY <1>2, <2>1, ReversePlaces DEF StartRun, SolveReverse, UpdateReverse,
         CarryReverse, FinalReverse, SetAdjusted, TestOther, PushBlock, Ended
  <1>4. k # 0 => BlockLast(k - 1)
    BY <1>1, <1>2, BorderBefore
  <1>5. ReverseOf(b)
    BY DEF AtWork
  <1>6. LeftReverse(b)' => LeftReverse(b)
    BY <1>1, <1>2, <1>3 DEF LeftReverse, Passed, Begun, At, Ended
  <1>7. CASE b = k - 1 /\ k # 0
    <2>1. ~Carried(b) /\ BlockLast(b)
      BY <1>1, <1>2, <1>4, <1>7 DEF Carried
    <2>2. reverse[b].normals = "formed"
      BY <1>5, <2>1 DEF ReverseOf
    <2>3. /\ ~At("rev", b, {"update"})'
          /\ ~At("rev", b, {"carry", "final"})'
          /\ ~At("rev", b, {"update", "carry"})'
      BY <1>3 DEF At
    <2>4. QED
      BY <1>2, <1>6, <2>1, <2>2, <2>3 DEF ReverseOf, matrixVars
  <1>8. CASE ~(b = k - 1 /\ k # 0)
    <2>1. Carried(b)' <=> Carried(b)
      BY <1>1, <1>2, <1>3, <1>8 DEF Carried, Begun
    <2>2. /\ ~At("rev", b, {"check", "solve"})'
          /\ ~At("rev", b + 1, {"set", "test", "push"})'
          /\ ~At("rev", b, {"update"})'
          /\ ~At("rev", b, {"carry", "final"})'
          /\ ~At("rev", b, {"update", "carry"})'
      BY <1>3, <1>8 DEF At
    <2>3. QED
      BY <1>2, <1>6, <2>1, <2>2, ReverseKept DEF matrixVars
  <1>9. QED
    BY <1>6, <1>7, <1>8

(* What SolvedReverse and CarriedReverse leave in the fields of a block.   *)
LEMMA SolvedFields ==
  ASSUME NEW b \in Blocks, NEW normals, NEW rows, TypeOK,
         normals = IF BlockLast(b) THEN "formed" ELSE "carried",
         rows = IF BlockLast(b) THEN 0 ELSE 1,
         reverse[b].normals = normals, reverse[b].rows = rows
  PROVE  /\ SolvedReverse(b).normals = "solved"
         /\ SolvedReverse(b).stations =
              IF BlockLast(b) THEN "original" ELSE reverse[b].stations
         /\ CombineRequired(b) => SolvedReverse(b).backup = "carried"
  BY DEF SolvedReverse, TypeOK, MatrixTypes, ReverseState, CombineRequired

LEMMA CarriedFields ==
  ASSUME NEW b \in Blocks, b - 1 \in Blocks, TypeOK,
         reverse[b].stations = "reverse", reverse[b].normals = "solved",
         reverse[b - 1].normals = "formed"
  PROVE  /\ CarriedReverse(b).normals = "carried"
         /\ CarriedReverse(b).stations = "original"
  BY DEF CarriedReverse, TypeOK, MatrixTypes, ReverseState

LEMMA ReverseSolves ==
  ASSUME AtWork, SolveReverse, NEW b \in Blocks, ~BlockIsolated(b)
  PROVE  ReverseOf(b)' /\ (LeftReverse(b)' => LeftReverse(b))
  <1> DEFINE k == runBlock["rev"]
  <1>1. b \in Int /\ k \in Int /\ k \in Blocks
    BY BlockTypes DEF AtWork
  <1>2. /\ runPc["rev"] = "solve" /\ runPc'["rev"] = "update"
        /\ UNCHANGED <<runBlock, rigorous>>
    BY DEF SolveReverse, RunGoto, AtWork, TypeOK, ThreadTypes, Runs
  <1>3. /\ Carried(b)' <=> Carried(b)
        /\ LeftReverse(b)' <=> LeftReverse(b)
    BY <1>1, <1>2 DEF Carried, LeftReverse, Passed, Begun, At, Ended
  <1>4. reverse \in [Blocks -> ReverseState]
    BY DEF AtWork, TypeOK, MatrixTypes
  <1>5. ReverseOf(b)
    BY DEF AtWork
  <1>6. CASE b # k
    <2>1. reverse'[b] = reverse[b]
      BY <1>1, <1>4, <1>6 DEF SolveReverse
    <2>2. /\ ~At("rev", b, {"check", "solve"})'
          /\ ~At("rev", b + 1, {"set", "test", "push"})'
          /\ ~At("rev", b, {"update"})'
          /\ ~At("rev", b, {"carry", "final"})'
          /\ ~At("rev", b, {"update", "carry"})'
      BY <1>2, <1>6 DEF At
    <2>3. QED
      BY <1>2, <1>3, <2>1, <2>2, ReverseKept
  <1>7. CASE b = k
    <2>1. reverse'[b] = SolvedReverse(b)
      BY <1>1, <1>4, <1>7 DEF SolveReverse
    <2>2. At("rev", b, {"check", "solve"}) /\ Carried(b)
      BY <1>1, <1>2, <1>7 DEF At, Carried, Begun
    <2>3. /\ reverse[b].normals = IF BlockLast(b) THEN "formed" ELSE "carried"
          /\ ~BlockLast(b) => reverse[b].stations = "original"
      BY <1>5, <2>2 DEF ReverseOf
    <2>4. reverse[b].rows = IF BlockLast(b) THEN 0 ELSE 1
      BY <1>7, RowsWhenSolved
    <2>5. /\ reverse'[b].normals = "solved" /\ reverse'[b].stations = "original"
          /\ CombineRequired(b) => reverse'[b].backup = "carried"
      BY <2>1, <2>3, <2>4, SolvedFields DEF AtWork
    <2>6. /\ ~At("rev", b, {"check", "solve"})'
          /\ ~At("rev", b + 1, {"set", "test", "push"})'
          /\ ~At("rev", b, {"carry", "final"})'
          /\ ~LeftReverse(b)
      BY <1>1, <1>2, <1>7 DEF At, LeftReverse, Passed, Ended
    <2>7. QED
      BY <1>3, <2>2, <2>5, <2>6 DEF ReverseOf
  <1>8. QED
    BY <1>3, <1>6, <1>7

LEMMA ReverseUpdates ==
  ASSUME AtWork, UpdateReverse, runPc'["rev"] = "carry",
         NEW b \in Blocks, ~BlockIsolated(b)
  PROVE  ReverseOf(b)' /\ (LeftReverse(b)' => LeftReverse(b))
  <1> DEFINE k == runBlock["rev"]
  <1>1. b \in Int /\ k \in Int /\ k \in Blocks
    BY BlockTypes DEF AtWork
  <1>2. runPc["rev"] = "update" /\ UNCHANGED <<runBlock, rigorous>>
    BY DEF UpdateReverse
  <1>3. /\ Carried(b)' <=> Carried(b)
        /\ LeftReverse(b)' <=> LeftReverse(b)
    BY <1>1, <1>2 DEF Carried, LeftReverse, Passed, Begun, At, Ended
  <1>4. reverse \in [Blocks -> ReverseState]
    BY DEF AtWork, TypeOK, MatrixTypes
  <1>5. ReverseOf(b) /\ ~OthersFailed("rev")
    BY NoFailure DEF AtWork, OthersFailed, Other, Runs
  <1>6. CASE b # k
    <2>1. reverse'[b] = reverse[b]
      BY <1>1, <1>4, <1>5, <1>6 DEF UpdateReverse
    <2>2. /\ ~At("rev", b, {"check", "solve"})'
          /\ ~At("rev", b + 1, {"set", "test", "push"})'
          /\ ~At("rev", b, {"update"})'
          /\ ~At("rev", b, {"carry", "final"})'
          /\ ~At("rev", b, {"update", "carry"})'
      BY <1>2, <1>6 DEF At
    <2>3. QED
      BY <1>2, <1>3, <2>1, <2>2, ReverseKept
  <1>7. CASE b = k
    <2>1. At("rev", b, {"update"}) /\ At("rev", b, {"update", "carry"}) /\ Carried(b)
      BY <1>1, <1>2, <1>7 DEF At, Carried, Begun
    <2>2. /\ reverse[b].normals = "solved" /\ reverse[b].stations = "original"
          /\ CombineRequired(b) => reverse[b].backup = "carried"
      BY <1>5, <2>1 DEF ReverseOf
    <2>3. /\ reverse'[b].normals = "solved" /\ reverse'[b].stations = "reverse"
          /\ CombineRequired(b) => reverse'[b].backup = "carried"
      BY <1>1, <1>4, <1>5, <1>7, <2>2 DEF UpdateReverse, ReverseState
    <2>4. /\ ~At("rev", b, {"check", "solve"})'
          /\ ~At("rev", b + 1, {"set", "test", "push"})'
          /\ ~At("rev", b, {"update"})'
          /\ ~LeftReverse(b)
      BY <1>1, <1>2, <1>7 DEF At, LeftReverse, Passed, Ended
    <2>5. QED
      BY <1>3, <2>1, <2>3, <2>4 DEF ReverseOf
  <1>8. QED
    BY <1>3, <1>6, <1>7
LEMMA ReverseCarries ==
  ASSUME AtWork, CarryReverse, NEW b \in Blocks, ~BlockIsolated(b)
  PROVE  /\ ReverseOf(b)'
         /\ LeftReverse(b)' /\ CombineRequired(b) =>
              \/ LeftReverse(b)
              \/ b = runBlock["rev"] /\ reverse'[b].backup = "carried"
  <1> DEFINE k == runBlock["rev"]
  <1>1. b \in Int /\ k \in Int /\ k \in Blocks /\ 0 <= k
    BY BlockTypes DEF AtWork, Blocks
  <1>2. runPc["rev"] = "carry" /\ ~BlockIsolated(k) /\ UNCHANGED rigorous
    BY DEF CarryReverse, AtWork, RowsInv, RunsProgress, ReverseOnBlock
  <1>3. \/ CombineRequired(k) /\ runPc'["rev"] = "set" /\ runBlock'["rev"] = k
        \/ /\ BlockFirst(k)
           /\ runPc'["rev"] = "final" /\ runBlock'["rev"] = k
        \/ /\ ~CombineRequired(k) /\ ~BlockFirst(k)
           /\ runPc'["rev"] = "check" /\ runBlock'["rev"] = k - 1
    BY <1>1 DEF CarryReverse, RunNextBlock, RunGoto, LastOfRun, BlockFirst,
       AtWork, TypeOK, ThreadTypes, Runs
  <1>4. reverse \in [Blocks -> ReverseState]
    BY DEF AtWork, TypeOK, MatrixTypes
  <1>5. ReverseOf(b) /\ ReverseOf(k)
    BY <1>1, <1>2 DEF AtWork
  <1>6. /\ reverse[k].normals = "solved" /\ reverse[k].stations = "reverse"
        /\ CombineRequired(k) => reverse[k].backup = "carried"
    <2>1. At("rev", k, {"carry", "final"}) /\ At("rev", k, {"update", "carry"})
      BY <1>2 DEF At
    <2> HIDE DEF k
    <2>2. QED
      BY <1>5, <2>1 DEF ReverseOf
  <1>7. /\ ~At("rev", b, {"check", "solve", "update", "carry", "final"}) \/ b = k
        /\ ~At("rev", b, {"check", "solve"})
        /\ ~At("rev", b + 1, {"set", "test", "push"})
        /\ ~At("rev", b, {"update"})' /\ ~At("rev", b, {"update", "carry"})'
        /\ At("rev", b, {"carry", "final"})' => b = k /\ BlockFirst(k)
    BY <1>2, <1>3 DEF At
  <1>8. reverse'[k] = reverse[k]
    <2>1. k - 1 # k
      BY <1>1
    <2>2. QED
      BY <1>1, <1>4, <2>1 DEF CarryReverse
  <1>9. CASE b # k /\ b # k - 1
    <2>1. reverse'[b] = reverse[b]
      BY <1>4, <1>9 DEF CarryReverse
    <2>2. /\ Carried(b)' <=> Carried(b)
          /\ LeftReverse(b)' <=> LeftReverse(b)
          /\ ~At("rev", b, {"check", "solve"})'
          /\ ~At("rev", b + 1, {"set", "test", "push"})'
      BY <1>1, <1>2, <1>3, <1>9
      DEF Carried, LeftReverse, Passed, Begun, At, Ended
    <2>3. QED
      BY <1>2, <1>7, <1>9, <2>1, <2>2, ReverseKept
  <1>10. CASE b = k
    <2>1. Carried(b) /\ Carried(b)'
      BY <1>1, <1>2, <1>3, <1>10 DEF Carried, Begun
    <2>2. /\ ~At("rev", b, {"check", "solve"})'
          /\ ~At("rev", b + 1, {"set", "test", "push"})'
      BY <1>1, <1>2, <1>3, <1>10 DEF At
    <2>3. /\ ~LeftReverse(b)
          /\ LeftReverse(b)' => ~BlockFirst(b)
      BY <1>1, <1>2, <1>3, <1>10
      DEF LeftReverse, Passed, At, Ended, CombineRequired
    <2>4. /\ reverse'[b].normals = "solved" /\ reverse'[b].stations = "reverse"
          /\ CombineRequired(b) => reverse'[b].backup = "carried"
      BY <1>6, <1>8, <1>10
    <2>5. QED
      BY <1>7, <1>10, <2>1, <2>2, <2>3, <2>4 DEF ReverseOf
  <1>11. CASE b = k - 1
    <2>1. ~Carried(b) /\ ~LeftReverse(b) /\ ~LeftReverse(b)' /\ b # k
      BY <1>1, <1>2, <1>3, <1>11
      DEF Carried, LeftReverse, Passed, Begun, At, Ended
    <2>2. reverse[b].normals = "formed"
      BY <1>5, <2>1 DEF ReverseOf
    <2>3. CASE BlockFirst(k)
      <3>1. reverse'[b] = reverse[b]
        BY <1>4, <2>3 DEF CarryReverse, CarriesReverse
      <3>2. runPc'["rev"] = "final" /\ runBlock'["rev"] = k
        BY <1>3, <2>3 DEF CombineRequired
      <3>3. ~Carried(b)' /\ ~At("rev", b, {"check", "solve"})'
              /\ ~At("rev", b + 1, {"set", "test", "push"})'
        BY <1>1, <1>11, <3>2 DEF Carried, At
      <3>4. QED
        BY <1>7, <2>1, <2>2, <3>1, <3>3 DEF ReverseOf
    <2>4. CASE ~BlockFirst(k)
      <3>1. k - 1 \in Blocks /\ ~BlockLast(b) /\ CarriesReverse(k)
        BY <1>1, <1>11, <2>4, NextToFirst
      <3>2. reverse'[b] = CarriedReverse(k)
        BY <1>4, <1>11, <3>1 DEF CarryReverse
      <3> HIDE DEF k
      <3>3. reverse'[b].normals = "carried" /\ reverse'[b].stations = "original"
        BY <1>1, <1>6, <1>11, <2>2, <3>1, <3>2, CarriedFields DEF AtWork
      <3>4. Carried(b)'
        BY <1>1, <1>3, <1>11, <2>4 DEF Carried, Begun
      <3>5. QED
        BY <1>7, <2>1, <3>1, <3>3, <3>4 DEF ReverseOf
    <2>5. QED
      BY <2>1, <2>3, <2>4
  <1>12. LeftReverse(b)' /\ CombineRequired(b) =>
              \/ LeftReverse(b)
              \/ b = k /\ reverse'[b].backup = "carried"
    <2>1. LeftReverse(b)' => LeftReverse(b) \/ b = k
      BY <1>1, <1>2, <1>3 DEF LeftReverse, Passed, Begun, At, Ended
    <2>2. QED
      BY <1>6, <1>8, <2>1
  <1>13. QED
    BY <1>9, <1>10, <1>11, <1>12

LEMMA ReverseFinishes ==
  ASSUME AtWork, FinalReverse, NEW b \in Blocks, ~BlockIsolated(b)
  PROVE  /\ ReverseOf(b)'
         /\ LeftReverse(b)' /\ CombineRequired(b) => LeftReverse(b)
  <1> DEFINE k == runBlock["rev"]
  <1>1. b \in Int /\ k \in Int /\ k \in Blocks /\ 0 <= k
    BY BlockTypes DEF AtWork, Blocks
  <1>2. runPc["rev"] = "final" /\ BlockFirst(k) /\ ~BlockIsolated(k) /\ ~BlockLast(k)
    BY DEF FinalReverse, AtWork, RowsInv, RunsProgress, ReverseOnBlock,
           BlockIsolated
  <1>3. \/ runPc'["rev"] = "finish" /\ runBlock'["rev"] = k /\ k = 0
        \/ runPc'["rev"] = "check" /\ runBlock'["rev"] = k - 1 /\ k # 0
    BY <1>1 DEF FinalReverse, RunNextBlock, RunGoto, LastOfRun,
       AtWork, TypeOK, ThreadTypes, Runs
  <1>4. reverse \in [Blocks -> ReverseState] /\ rigorous \in [Blocks -> RigorousState]
    BY DEF AtWork, TypeOK, MatrixTypes
  <1>5. /\ reverse'[b].normals = reverse[b].normals
        /\ reverse'[b].stations = reverse[b].stations
        /\ reverse'[b].backup = reverse[b].backup
    BY <1>4 DEF FinalReverse, ReverseState
  <1>6. ReverseOf(b)
    BY DEF AtWork
  <1>7. /\ ~At("rev", b, {"check", "solve"})
        /\ ~At("rev", b + 1, {"set", "test", "push"})
        /\ ~At("rev", b, {"update"})' /\ ~At("rev", b, {"update", "carry"})'
        /\ ~At("rev", b, {"carry", "final"})'
        /\ ~At("rev", b + 1, {"set", "test", "push"})'
        /\ At("rev", b, {"check", "solve"})' => b = k - 1 /\ k # 0
    BY <1>2, <1>3 DEF At
  <1>8. LeftReverse(b)' => LeftReverse(b) \/ b = k
    BY <1>1, <1>2, <1>3 DEF LeftReverse, Passed, Begun, At, Ended
  <1>9. CASE b # k /\ ~(b = k - 1 /\ k # 0)
    <2>1. rigorous'[b] = rigorous[b]
      BY <1>4, <1>9 DEF FinalReverse, UpdateEstimatesFinal
    <2>2. Carried(b)' <=> Carried(b)
      BY <1>1, <1>2, <1>3, <1>9 DEF Carried, Begun
    <2>3. QED
      BY <1>5, <1>7, <1>8, <1>9, <2>1, <2>2, ReverseKept
  <1>10. CASE b = k
    <2>1. At("rev", b, {"carry", "final"}) /\ Carried(b)
      BY <1>1, <1>2, <1>10 DEF At, Carried, Begun
    <2>2. reverse[b].normals = "solved" /\ reverse[b].stations = "reverse"
      BY <1>6, <2>1 DEF ReverseOf
    <2>3. rigorous'[b] = "rigorous"
      BY <1>4, <1>10, <2>2 DEF FinalReverse, UpdateEstimatesFinal
    <2>4. ~At("rev", b, {"check", "solve"})' /\ Carried(b)'
      BY <1>1, <1>3, <1>10 DEF At, Carried, Begun
    <2>5. QED
      BY <1>2, <1>7, <1>10, <2>3, <2>4 DEF ReverseOf, CombineRequired
  <1>11. CASE b = k - 1 /\ k # 0
    <2>1. BlockLast(b) /\ ~Carried(b)
      BY <1>1, <1>2, <1>11, BorderBefore DEF Carried
    <2>2. reverse[b].normals = "formed"
      BY <1>6, <2>1 DEF ReverseOf
    <2>3. QED
      BY <1>5, <1>7, <2>1, <2>2 DEF ReverseOf, CombineRequired
  <1>12. QED
    BY <1>9, <1>10, <1>11, <1>8, <1>2 DEF CombineRequired

LEMMA ReverseRunReverse ==
  ASSUME AtWork, RunStep("rev"), NEW b \in Blocks, ~BlockIsolated(b)
  PROVE  /\ ReverseOf(b)'
         /\ LeftReverse(b)' /\ CombineRequired(b) =>
              LeftReverse(b) \/ reverse'[b].backup = "carried"
  <1>1. UpdateReverse => runPc'["rev"] = "carry"
    BY NoFailure DEF UpdateReverse, OthersFailed, Other, RunGoto, Runs, AtWork,
       TypeOK, ThreadTypes
  <1>2. CASE StartRun("rev")
    <2>1. ~LeftReverse(b)'
      <3>1. b \in Int /\ b <= BlockCount - 1 /\ BlockCount \in Int
        BY BlockTypes DEF AtWork
      <3>2. QED
        BY <1>2, <3>1 DEF StartRun, RunGoto, FirstOfRun, LeftReverse, Passed, At,
           Ended, AtWork, TypeOK, ThreadTypes, Runs
    <2>2. QED
      BY <1>2, <2>1, ReverseStarts
  <1>3. QED
    BY <1>1, <1>2, ReverseSkips, ReverseSame, ReverseSolves, ReverseUpdates,
       ReverseCarries, ReverseFinishes
-----------------------------------------------------------------------------
(* What the steps of a run do to the work of the other run. *)

LEMMA ReverseRunForward ==
  ASSUME AtWork, RunStep("rev"), NEW b \in Blocks
  PROVE  ForwardOf(b)'
  <1>1. runPc'["fwd"] = runPc["fwd"] /\ runBlock'["fwd"] = runBlock["fwd"]
    BY RunMoves DEF AtWork, Other, Runs
  <1>2. /\ Brought(b)' <=> Brought(b)
        /\ LeftForward(b)' <=> LeftForward(b)
        /\ At("fwd", b, {"update"})' <=> At("fwd", b, {"update"})
        /\ At("fwd", b, {"carry"})' <=> At("fwd", b, {"carry"})
    BY <1>1 DEF Brought, LeftForward, Passed, Begun, At
  <1>3. UNCHANGED junctionsFwd
    BY ReversePlaces, ReverseNext DEF StartRun, CheckRun, SolveReverse,
       UpdateReverse, CarryReverse, FinalReverse, matrixVars
  <1>4. CASE FinalReverse
    <2>1. BlockFirst(runBlock["rev"]) /\ ~BlockLast(runBlock["rev"])
      BY <1>4 DEF FinalReverse, AtWork, RowsInv, RunsProgress, ReverseOnBlock,
                  BlockIsolated
    <2>2. b # runBlock["rev"] => forward'[b] = forward[b] /\ rigorous'[b] = rigorous[b]
      BY <1>4 DEF FinalReverse, UpdateEstimatesFinal, AtWork, TypeOK, MatrixTypes
    <2>3. QED
      BY <1>2, <1>3, <2>1, <2>2, ForwardKept
  <1>5. CASE ~FinalReverse
    <2>1. UNCHANGED <<forward, rigorous>>
      BY <1>5, ReversePlaces, ReverseNext DEF StartRun, CheckRun, SolveReverse,
         UpdateReverse, CarryReverse, matrixVars
    <2>2. QED
      BY <1>2, <1>3, <2>1, ForwardKept
  <1>6. QED
    BY <1>4, <1>5

LEMMA ForwardRunReverse ==
  ASSUME AtWork, RunStep("fwd"), NEW b \in Blocks, ~BlockIsolated(b)
  PROVE  /\ ReverseOf(b)'
         /\ LeftReverse(b)' <=> LeftReverse(b)
         /\ reverse' = reverse
         /\ ~BlockLast(b) => rigorous'[b] = rigorous[b]
  <1>1. runPc'["rev"] = runPc["rev"] /\ runBlock'["rev"] = runBlock["rev"]
    BY RunMoves DEF AtWork, Other, Runs
  <1>2. UNCHANGED reverse
    BY ForwardPlaces, ForwardNext DEF StartRun, CheckRun, SolveForward,
       UpdateForward, CarryForward, matrixVars
  <1>3. ~BlockLast(b) => rigorous'[b] = rigorous[b]
    <2>1. CASE UpdateForward
      <3>1. runBlock["fwd"] \in Blocks /\ ~OthersFailed("fwd")
        BY NoFailure DEF AtWork, TypeOK, ThreadTypes, OthersFailed, Other, Runs
      <3>2. QED
        BY <2>1, <3>1 DEF UpdateForward, AtWork, TypeOK, MatrixTypes
    <2>2. CASE ~UpdateForward
      <3>1. UNCHANGED rigorous
        BY <2>2, ForwardPlaces, ForwardNext DEF StartRun, CheckRun, SolveForward,
           CarryForward, matrixVars
      <3>2. QED
        BY <3>1
    <2>3. QED
      BY <2>1, <2>2
  <1>4. /\ Carried(b)' <=> Carried(b)
        /\ LeftReverse(b)' <=> LeftReverse(b)
        /\ \A labels : At("rev", b, labels)' <=> At("rev", b, labels)
        /\ At("rev", b + 1, {"set", "test", "push"})'
             <=> At("rev", b + 1, {"set", "test", "push"})
    BY <1>1 DEF Carried, LeftReverse, Passed, Begun, At
  <1>5. ReverseOf(b)'
    BY <1>2, <1>3, <1>4, ReverseKept
  <1>6. QED
    BY <1>2, <1>3, <1>4, <1>5

-----------------------------------------------------------------------------
(* What the steps of the runs do to the combination of a block. *)

LEMMA ReverseLeavesQueued ==
  ASSUME AtWork, RunStep("rev"), NEW b \in Blocks, CombineRequired(b)
  PROVE  /\ rigorous'[b] = rigorous[b]
         /\ LeftReverse(b) => reverse'[b] = reverse[b]
  <1> DEFINE k == runBlock["rev"]
  <1>1. b \in Int /\ k \in Int /\ k \in Blocks
    BY BlockTypes DEF AtWork
  <1>2. reverse \in [Blocks -> ReverseState] /\ rigorous \in [Blocks -> RigorousState]
    BY DEF AtWork, TypeOK, MatrixTypes
  <1>3. CASE FinalReverse
    <2>1. BlockFirst(k)
      BY <1>3 DEF FinalReverse, AtWork, RowsInv, RunsProgress, ReverseOnBlock
    <2>2. b # k
      BY <2>1 DEF CombineRequired
    <2>3. QED
      BY <1>2, <1>3, <2>2 DEF FinalReverse, UpdateEstimatesFinal
  <1>4. CASE SolveReverse \/ UpdateReverse \/ CarryReverse
    <2>1. runPc["rev"] \in {"solve", "update", "carry"} /\ UNCHANGED rigorous
      BY <1>4 DEF SolveReverse, UpdateReverse, CarryReverse
    <2>2. LeftReverse(b) => k < b
      BY <1>1, <2>1 DEF LeftReverse, Passed, At, Ended
    <2>3. LeftReverse(b) => b # k /\ b # k - 1
      BY <1>1, <2>2
    <2>4. CASE SolveReverse
      BY <1>2, <2>1, <2>3, <2>4 DEF SolveReverse
    <2>5. CASE UpdateReverse
      BY <1>2, <2>1, <2>3, <2>5 DEF UpdateReverse
    <2>6. CASE CarryReverse
      BY <1>2, <2>1, <2>3, <2>6 DEF CarryReverse
    <2>7. QED
      BY <1>4, <2>4, <2>5, <2>6
  <1>5. CASE ~FinalReverse /\ ~(SolveReverse \/ UpdateReverse \/ CarryReverse)
    BY <1>5, ReversePlaces, ReverseNext DEF StartRun, CheckRun, matrixVars
  <1>6. QED
    BY <1>3, <1>4, <1>5

LEMMA RunLeavesQueued ==
  ASSUME AtWork, NEW run \in Runs, RunStep(run), NEW b \in Blocks,
         CombineRequired(b)
  PROVE  /\ rigorous'[b] = rigorous[b]
         /\ LeftReverse(b) => reverse'[b] = reverse[b]
         /\ LeftReverse(b)' => LeftReverse(b) \/ reverse'[b].backup = "carried"
  <1>1. ~BlockIsolated(b) /\ ~BlockLast(b)
    BY DEF CombineRequired
  <1>2. CASE run = "fwd"
    BY <1>1, <1>2, ForwardRunReverse
  <1>3. CASE run = "rev"
    BY <1>1, <1>3, ReverseRunReverse, ReverseLeavesQueued
  <1>4. QED
    BY <1>2, <1>3 DEF Runs

LEMMA RunCombination ==
  ASSUME AtWork, NEW run \in Runs, RunStep(run), NEW b \in Blocks,
         CombineRequired(b)
  PROVE  CombinationOf(b)'
  <1> DEFINE k == runBlock[run]
  <1>1. UNCHANGED <<workerPc, workerBlock>>
    BY RunLeavesWorkers
  <1>2. Combiners(b)' = Combiners(b) /\ Holders(b)' = Holders(b)
          /\ \A w \in Combiners(b) : workerPc'[w] = workerPc[w]
    BY <1>1 DEF Combiners, Holders
  <1>3. pushes[b] > 0 => LeftReverse(b)
    BY LeftWhenMarked
  <1>4. CASE ~(PushBlock(run) /\ k = b)
    <2>1. pushes'[b] = pushes[b]
      <3>1. CASE PushBlock(run)
        BY <1>4, <3>1 DEF PushBlock, AtWork, TypeOK, HistoryTypes
      <3>2. CASE ~PushBlock(run)
        BY <3>2, OnlyPushCounts DEF AtWork
      <3>3. QED
        BY <3>1, <3>2
    <2>2. Cardinality(Places(b)') = Cardinality(Places(b))
      <3>1. CASE PushBlock(run)
        <4>1. k \in Blocks /\ the_queue' = Append(the_queue, k) /\ k # b
          BY <1>4, <3>1 DEF PushBlock, push_and_notify, AtWork, TypeOK, ThreadTypes
        <4>2. Cardinality(Places(b)) \in Nat
          BY PlacesFinite DEF AtWork
        <4> HIDE DEF k
        <4>3. QED
          BY <4>1, <4>2, CountPush DEF AtWork
      <3>2. CASE ~PushBlock(run)
        <4>1. ~HandlerPush(run)
          BY NoFailure DEF HandlerPush
        <4>2. UNCHANGED the_queue
          BY <3>2, <4>1 DEF RunStep, StartRun, CheckRun, SolveFails,
             SetAdjusted, TestOther, FinishRun, TestFinished, ExhaustQueue,
             HandlerTest, SolveForward, UpdateForward, CarryForward, NotifyAll,
             SolveReverse, UpdateReverse, CarryReverse, FinalReverse,
             queueVars, queue_exhausted, notify_all
        <4>3. QED
          BY <4>2 DEF Places
      <3>3. QED
        BY <3>1, <3>2
    <2>3. Waiting(b)' = Waiting(b)
      BY <1>2, <2>2 DEF Waiting
    <2>4. QED
      BY <1>2, <1>3, <2>1, <2>3, RunLeavesQueued, CombinationKept
  <1>5. CASE PushBlock(run) /\ k = b
    <2>1. pushes'[b] = pushes[b] + 1 /\ pushes[b] \in Nat
            /\ the_queue' = Append(the_queue, b)
      BY <1>5 DEF PushBlock, push_and_notify, AtWork, TypeOK, HistoryTypes
    <2>2. CASE pushes[b] > 0
      BY <2>1, <2>2 DEF CombinationOf
    <2>3. CASE pushes[b] = 0
      <3>1. /\ Waiting(b) = 0 /\ Combiners(b) = {}
            /\ LeftReverse(b) => reverse[b].backup = "carried"
        BY <2>3 DEF AtWork, CombinationOf
      <3>2. Waiting(b)' = 1
        <4>1. Cardinality(Places(b)') = Cardinality(Places(b)) + 1
          BY <2>1, CountPush DEF AtWork
        <4>2. Cardinality(Places(b)) \in Nat /\ Cardinality(Holders(b)) \in Nat
          BY PlacesFinite, HoldersFinite DEF AtWork
        <4>3. QED
          BY <1>2, <3>1, <4>1, <4>2 DEF Waiting
      <3>3. LeftReverse(b)' => reverse'[b].backup = "carried"
        BY <3>1, RunLeavesQueued
      <3>4. QED
        BY <1>2, <2>1, <2>3, <3>1, <3>2, <3>3 DEF CombinationOf
    <2>4. QED
      BY <2>1, <2>2, <2>3
  <1>6. QED
    BY <1>4, <1>5
-----------------------------------------------------------------------------
(* The steps of a worker. *)

LEMMA WorkerElsewhere ==
  ASSUME AtWork, NEW w \in Workers, Worker(w), NEW b \in Blocks
  PROVE  /\ UNCHANGED <<runPc, runBlock, junctionsFwd, pushes>>
         /\ Combining(w) => Combinable(workerBlock[w])
         /\ ~(Combining(w) /\ workerBlock[w] = b) =>
              /\ reverse'[b] = reverse[b]
              /\ rigorous'[b] = rigorous[b]
              /\ forward'[b] = forward[b]
  <1>1. UNCHANGED <<runPc, runBlock, pushes>>
    BY WorkerLeaves DEF AtWork
  <1>2. UNCHANGED junctionsFwd
    BY DEF Worker, WorkerTop, WorkerMore, WorkerEmpty, WorkerErrors,
       WorkerSentinel, WorkerPop, WorkerPrepare, WorkerSolve, WorkerCombine,
       WorkerFinal, matrixVars
  <1>3. Combining(w) => Combinable(workerBlock[w])
    BY DEF AtWork, ProtocolInv, WorkersCorrect
  <1>4. reverse \in [Blocks -> ReverseState] /\ rigorous \in [Blocks -> RigorousState]
          /\ forward \in [Blocks -> ForwardState]
    BY DEF AtWork, TypeOK, MatrixTypes
  <1>5. ASSUME ~(Combining(w) /\ workerBlock[w] = b)
        PROVE  /\ reverse'[b] = reverse[b]
               /\ rigorous'[b] = rigorous[b]
               /\ forward'[b] = forward[b]
    <2>1. CASE WorkerPrepare(w) \/ WorkerSolve(w) \/ WorkerCombine(w)
                 \/ WorkerFinal(w)
      <3>1. workerBlock[w] # b
        BY <1>5, <2>1 DEF WorkerPrepare, WorkerSolve, WorkerCombine, WorkerFinal,
                          Combining
      <3>2. QED
        BY <1>4, <2>1, <3>1 DEF WorkerPrepare, WorkerSolve, WorkerCombine,
                                WorkerFinal, UpdateEstimatesFinal
    <2>2. CASE UNCHANGED matrixVars
      BY <2>2 DEF matrixVars
    <2>3. QED
      BY <2>1, <2>2 DEF Worker, WorkerTop, WorkerMore, WorkerEmpty,
         WorkerErrors, WorkerSentinel, WorkerPop
  <1>6. QED
    BY <1>1, <1>2, <1>3, <1>5

(* A worker only touches a block that both runs have left.                 *)
LEMMA WorkerLeavesRuns ==
  ASSUME AtWork, NEW w \in Workers, Worker(w), NEW b \in Blocks
  PROVE  /\ ForwardOf(b)'
         /\ ~BlockIsolated(b) => ReverseOf(b)'
  <1>1. UNCHANGED <<runPc, runBlock, junctionsFwd, pushes>>
    BY WorkerElsewhere
  <1>2. /\ Brought(b)' <=> Brought(b)
        /\ LeftForward(b)' <=> LeftForward(b)
        /\ Carried(b)' <=> Carried(b)
        /\ LeftReverse(b)' <=> LeftReverse(b)
        /\ \A run, labels : At(run, b, labels)' <=> At(run, b, labels)
        /\ At("rev", b + 1, {"set", "test", "push"})'
             <=> At("rev", b + 1, {"set", "test", "push"})
    BY <1>1 DEF Brought, LeftForward, Carried, LeftReverse, Passed, Begun, At
  <1>3. CASE Combining(w) /\ workerBlock[w] = b
    <2>1. b \in BothAdjusted /\ CombineRequired(b)
      BY <1>3, NoFailure, WorkerElsewhere DEF Combinable
    <2>2. ~BlockLast(b) /\ ~BlockFirst(b)
      BY <2>1 DEF CombineRequired
    <2>3. ForwardOf(b)'
      BY <1>1, <1>2, <2>1, <2>2, LeftWhenMarked, ForwardKept
    <2>4. ~BlockIsolated(b) => ReverseOf(b)'
      BY <1>1, <1>2, <2>1, <2>2, LeftWhenMarked, ReverseKept
    <2>5. QED
      BY <2>3, <2>4
  <1>4. CASE ~(Combining(w) /\ workerBlock[w] = b)
    <2>1. reverse'[b] = reverse[b] /\ rigorous'[b] = rigorous[b]
            /\ forward'[b] = forward[b]
      BY <1>4, WorkerElsewhere
    <2>2. ForwardOf(b)'
      BY <1>1, <1>2, <2>1, ForwardKept
    <2>3. ~BlockIsolated(b) => ReverseOf(b)'
      BY <1>1, <1>2, <2>1, ReverseKept
    <2>4. QED
      BY <2>2, <2>3
  <1>5. QED
    BY <1>3, <1>4

(* The worker does something else than to combine block b.                 *)
LEMMA WorkerOther ==
  ASSUME AtWork, NEW w \in Workers, Worker(w),
         NEW b \in Blocks, CombineRequired(b),
         ~(Combining(w) /\ workerBlock[w] = b),
         Waiting(b)' = Waiting(b),
         Combiners(b)' = Combiners(b)
  PROVE  CombinationOf(b)'
  <1>1. UNCHANGED <<runPc, runBlock, pushes>> /\ reverse'[b] = reverse[b]
          /\ rigorous'[b] = rigorous[b]
    BY WorkerElsewhere
  <1>2. LeftReverse(b)' <=> LeftReverse(b)
    BY <1>1 DEF LeftReverse, Passed, Begun, At
  <1>3. w \notin Combiners(b)
    BY DEF Combiners, Combining
  <1>4. \A v \in Combiners(b) : workerPc'[v] = workerPc[v]
    BY <1>3, WorkerLeaves DEF AtWork, Combiners
  <1>5. CombinationOf(b)
    BY DEF AtWork
  <1>6. LeftReverse(b) /\ pushes[b] = 0 => reverse[b].backup = "carried"
    BY <1>5 DEF CombinationOf
  <1>7. QED
    BY <1>1, <1>2, <1>4, <1>6, CombinationKept

LEMMA WorkerAsideCombination ==
  ASSUME AtWork, NEW w \in Workers, NEW b \in Blocks, CombineRequired(b),
         WorkerTop(w) \/ WorkerMore(w) \/ WorkerEmpty(w) \/ WorkerErrors(w)
           \/ WorkerPop(w)
  PROVE  CombinationOf(b)'
  <1>1. Worker(w) /\ ~Combining(w)
    BY DEF Worker, WorkerTop, WorkerMore, WorkerEmpty, WorkerErrors, WorkerPop,
           Combining
  <1>2. CASE WorkerPop(w)
    <2>1. /\ Waiting(b)' = Waiting(b)
          /\ workerPc[w] = "pop" /\ workerPc'[w] \in {"recheck", "top"}
      BY <1>2, PopWaiting DEF AtWork
    <2>2. Combiners(b)' = Combiners(b)
      BY <1>1, <2>1, WorkerLeaves DEF AtWork, Combiners
    <2>3. QED
      BY <1>1, <2>1, <2>2, WorkerOther
  <1>3. CASE WorkerTop(w) \/ WorkerMore(w) \/ WorkerEmpty(w) \/ WorkerErrors(w)
    <2>1. UNCHANGED <<the_queue, workerBlock>>
      BY <1>3 DEF WorkerTop, WorkerMore, WorkerEmpty, WorkerErrors, queueVars
    <2>2. \/ /\ workerPc[w] \in {"top", "more", "empty", "errors"}
             /\ workerPc'[w] \in {"done", "more", "empty", "errors", "pop"}
          \/ workerPc[w] = "recheck" /\ workerPc'[w] = "prepare"
      <3>1. ~CombineExceptionThrown(w)
        BY NoFailure DEF CombineExceptionThrown
      <3>2. QED
        BY <1>3, <3>1 DEF WorkerTop, WorkerMore, WorkerEmpty, WorkerErrors,
           AfterFlag, WorkerGoto, AtWork, TypeOK, ThreadTypes
    <2>3. Combiners(b)' = Combiners(b) /\ Holders(b)' = Holders(b)
      BY <1>1, <2>1, <2>2, WorkerLeaves DEF AtWork, Combiners, Holders
    <2>4. Waiting(b)' = Waiting(b)
      BY <2>1, <2>3 DEF Waiting, Places
    <2>5. QED
      BY <1>1, <2>3, <2>4, WorkerOther
  <1>4. QED
    BY <1>2, <1>3
(* What PreparedReverse and CombinedReverse leave in the fields of a block. *)
LEMMA PreparedFields ==
  ASSUME TypeOK, NEW b \in Blocks
  PROVE  /\ PreparedReverse(b).stations = "original"
         /\ reverse[b].backup = "carried" /\ junctionsFwd[b - 1] = "good" =>
              PreparedReverse(b).normals = "restored"
  BY DEF PreparedReverse, TypeOK, MatrixTypes, ReverseState

LEMMA CombinedFields ==
  ASSUME TypeOK, NEW b \in Blocks, NEW n,
         reverse[b].normals = "combined", reverse[b].stations = "original"
  PROVE  /\ CombinedReverse(b, n).normals = "combined"
         /\ CombinedReverse(b, n).stations = "combined"
  BY DEF CombinedReverse, TypeOK, MatrixTypes, ReverseState

(* A block in the hands of a worker has been queued; if it has been queued *)
(* only once, no other worker has it.                                      *)
LEMMA WorkerAlone ==
  ASSUME AtWork, NEW w \in Workers, NEW b \in Blocks, CombineRequired(b),
         w \in Combiners(b), ~(pushes[b] > 1)
  PROVE  /\ Waiting(b) = 0 /\ pushes[b] = 1 /\ Combiners(b) = {w}
         /\ CombinedSoFar(b, workerPc[w]) \/ SpoiledSinceFirst(b)
         /\ SpoiledSinceFirst(b) => SpoiledSinceFirst(b)'
  <1>1. CombinationOf(b)
    BY DEF AtWork
  <1>2. PICK v \in Workers :
          /\ Waiting(b) = 0 /\ pushes[b] = 1 /\ Combiners(b) = {v}
          /\ CombinedSoFar(b, workerPc[v]) \/ SpoiledSinceFirst(b)
    BY <1>1 DEF CombinationOf
  <1>3. v = w
    BY <1>2
  <1>4. SpoiledSinceFirst(b) => SpoiledSinceFirst(b)'
    BY <1>2, LeftWhenMarked, SpoiledKept
  <1>5. QED
    BY <1>2, <1>3, <1>4

LEMMA PrepareCombination ==
  ASSUME AtWork, NEW w \in Workers, WorkerPrepare(w), NEW b \in Blocks,
         CombineRequired(b)
  PROVE  CombinationOf(b)'
  <1>1. /\ Worker(w) /\ workerPc[w] = "prepare" /\ Combining(w)
        /\ UNCHANGED <<the_queue, workerBlock, pushes>>
    BY DEF Worker, WorkerPrepare, Combining, historyVars, queueVars
  <1>2. workerPc'[w] = "solve"
    <2>1. ASSUME ~RowsAvailable(workerBlock[w]) PROVE FALSE
      <3>1. workerError'[w]
        BY <2>1 DEF WorkerPrepare, WorkerThrows, AtWork, TypeOK, ErrorTypes
      <3>2. QED
        BY <3>1, NoFailure
    <2>2. QED
      BY <2>1 DEF WorkerPrepare, WorkerGoto, AtWork, TypeOK, ThreadTypes
  <1>3. CASE workerBlock[w] # b
    <2>1. Holders(b)' = Holders(b) /\ Combiners(b)' = Combiners(b)
      BY <1>1, <1>3, WorkerLeaves DEF AtWork, Holders, Combiners
    <2>2. Waiting(b)' = Waiting(b)
      BY <1>1, <2>1 DEF Waiting, Places
    <2>3. QED
      BY <1>1, <1>3, <2>1, <2>2, WorkerOther
  <1>4. CASE workerBlock[w] = b
    <2>1. w \in Holders(b)
      BY <1>1, <1>4 DEF Holders
    <2>2. Holders(b)' = Holders(b) \ {w} /\ Combiners(b)' = Combiners(b) \cup {w}
      BY <1>1, <1>2, <1>4, <2>1, WorkerLeaves DEF AtWork, Holders, Combiners
    <2>3. Waiting(b)' = Waiting(b) - 1 /\ Waiting(b) >= 1 /\ Waiting(b) \in Nat
      BY <1>1, <2>1, <2>2, HoldersLeave, WaitingType DEF AtWork
    <2>4. CASE pushes[b] > 1
      BY <1>1, <2>4 DEF CombinationOf
    <2>5. CASE ~(pushes[b] > 1)
      <3>1. /\ Waiting(b) = pushes[b] /\ Combiners(b) = {}
            /\ LeftReverse(b) => reverse[b].backup = "carried"
        BY <2>3, <2>5 DEF AtWork, CombinationOf
      <3>2. pushes[b] = 1 /\ Waiting(b)' = 0 /\ Combiners(b)' = {w}
        BY <2>2, <2>3, <2>5, <3>1 DEF AtWork, TypeOK, HistoryTypes
      <3>3. LeftReverse(b) /\ Brought(b) /\ ~BlockFirst(b)
        BY <3>2, LeftWhenMarked DEF CombineRequired
      <3>4. junctionsFwd[b - 1] = "good" \/ SpoiledSinceFirst(b)
        BY <3>3 DEF AtWork, ForwardOf
      <3>5. reverse'[b] = PreparedReverse(b)
        BY <1>4 DEF WorkerPrepare, AtWork, TypeOK, MatrixTypes
      <3>6. junctionsFwd[b - 1] = "good" =>
              reverse'[b].normals = "restored" /\ reverse'[b].stations = "original"
        BY <3>1, <3>3, <3>5, PreparedFields DEF AtWork
      <3>7. SpoiledSinceFirst(b) => SpoiledSinceFirst(b)'
        BY <3>3, SpoiledKept
      <3>8. CombinedSoFar(b, workerPc[w])' \/ SpoiledSinceFirst(b)'
        BY <1>2, <3>4, <3>6, <3>7 DEF CombinedSoFar
      <3>9. QED
        BY <1>1, <3>2, <3>8 DEF CombinationOf
    <2>6. QED
      BY <2>4, <2>5
  <1>5. QED
    BY <1>3, <1>4

LEMMA SolveCombination ==
  ASSUME AtWork, NEW w \in Workers, WorkerSolve(w), NEW b \in Blocks,
         CombineRequired(b)
  PROVE  CombinationOf(b)'
  <1>1. /\ Worker(w) /\ workerPc[w] = "solve" /\ Combining(w)
        /\ UNCHANGED <<the_queue, workerBlock, pushes>>
    BY DEF Worker, WorkerSolve, Combining, historyVars, queueVars
  <1>2. /\ workerPc'[w] = "combine"
        /\ workerBlock[w] = b => reverse'[b].stations = reverse[b].stations
        /\ workerBlock[w] = b /\ reverse[b].normals = "restored"
             /\ reverse[b].rows = 2 => reverse'[b].normals = "combined"
    <2>1. ~workerError'[w]
      BY NoFailure
    <2>2. QED
      BY <2>1 DEF WorkerSolve, WorkerThrows, WorkerGoto, AtWork, TypeOK,
         ThreadTypes, ErrorTypes, MatrixTypes, ReverseState
  <1>3. Holders(b)' = Holders(b) /\ Combiners(b)' = Combiners(b)
    BY <1>1, <1>2, WorkerLeaves DEF AtWork, Holders, Combiners
  <1>4. Waiting(b)' = Waiting(b)
    BY <1>1, <1>3 DEF Waiting, Places
  <1>5. CASE workerBlock[w] # b
    BY <1>1, <1>3, <1>4, <1>5, WorkerOther
  <1>6. CASE workerBlock[w] = b /\ ~(pushes[b] > 1)
    <2>1. w \in Combiners(b)
      BY <1>1, <1>6 DEF Combiners
    <2>2. /\ Waiting(b) = 0 /\ pushes[b] = 1 /\ Combiners(b) = {w}
          /\ CombinedSoFar(b, "solve") \/ SpoiledSinceFirst(b)
          /\ SpoiledSinceFirst(b) => SpoiledSinceFirst(b)'
      BY <1>1, <1>6, <2>1, WorkerAlone
    <2>3. reverse[b].rows = 2
      <3>1. RowsAfterCarry(b)
        BY <2>2, LeftWhenMarked DEF AtWork, RowsInv, InnerRows, RowsOf
      <3>2. ~Idle(b) /\ b \notin leftover
        BY <1>1, <1>6, NoFailure DEF Idle, Preparers
      <3>3. QED
        BY <2>2, <3>1, <3>2 DEF RowsAfterCarry
    <2>4. CombinedSoFar(b, workerPc[w])' \/ SpoiledSinceFirst(b)'
      BY <1>2, <1>6, <2>2, <2>3 DEF CombinedSoFar
    <2>5. QED
      BY <1>1, <1>3, <1>4, <2>2, <2>4 DEF CombinationOf
  <1>7. QED
    BY <1>1, <1>5, <1>6 DEF CombinationOf

LEMMA CombineCombination ==
  ASSUME AtWork, NEW w \in Workers, WorkerCombine(w), NEW b \in Blocks,
         CombineRequired(b)
  PROVE  CombinationOf(b)'
  <1>1. /\ Worker(w) /\ workerPc[w] = "combine" /\ Combining(w)
        /\ workerPc'[w] = "final"
        /\ UNCHANGED <<the_queue, workerBlock, pushes>>
    BY DEF Worker, WorkerCombine, Combining, historyVars, queueVars, WorkerGoto,
           AtWork, TypeOK, ThreadTypes
  <1>2. Holders(b)' = Holders(b) /\ Combiners(b)' = Combiners(b)
    BY <1>1, WorkerLeaves DEF AtWork, Holders, Combiners
  <1>3. Waiting(b)' = Waiting(b)
    BY <1>1, <1>2 DEF Waiting, Places
  <1>4. CASE workerBlock[w] # b
    BY <1>1, <1>2, <1>3, <1>4, WorkerOther
  <1>5. CASE workerBlock[w] = b /\ ~(pushes[b] > 1)
    <2>1. w \in Combiners(b)
      BY <1>1, <1>5 DEF Combiners
    <2>2. /\ Waiting(b) = 0 /\ pushes[b] = 1 /\ Combiners(b) = {w}
          /\ CombinedSoFar(b, "combine") \/ SpoiledSinceFirst(b)
          /\ SpoiledSinceFirst(b) => SpoiledSinceFirst(b)'
      BY <1>1, <1>5, <2>1, WorkerAlone
    <2>3. reverse'[b] = CombinedReverse(b, ShrinkBy(w))
      BY <1>5 DEF WorkerCombine, AtWork, TypeOK, MatrixTypes
    <2>4. CombinedSoFar(b, workerPc[w])' \/ SpoiledSinceFirst(b)'
      BY <1>1, <2>2, <2>3, CombinedFields DEF AtWork, CombinedSoFar
    <2>5. QED
      BY <1>1, <1>2, <1>3, <2>2, <2>4 DEF CombinationOf
  <1>6. QED
    BY <1>1, <1>4, <1>5 DEF CombinationOf

LEMMA FinalCombination ==
  ASSUME AtWork, NEW w \in Workers, WorkerFinal(w), NEW b \in Blocks,
         CombineRequired(b)
  PROVE  CombinationOf(b)'
  <1>1. /\ Worker(w) /\ workerPc[w] = "final" /\ Combining(w)
        /\ workerPc'[w] = "top"
        /\ UNCHANGED <<the_queue, workerBlock, pushes>>
    BY DEF Worker, WorkerFinal, Combining, historyVars, queueVars, WorkerGoto,
           AtWork, TypeOK, ThreadTypes
  <1>2. Holders(b)' = Holders(b)
    BY <1>1, WorkerLeaves DEF AtWork, Holders
  <1>3. Waiting(b)' = Waiting(b)
    BY <1>1, <1>2 DEF Waiting, Places
  <1>4. CASE workerBlock[w] # b
    <2>1. Combiners(b)' = Combiners(b)
      BY <1>1, <1>4, WorkerLeaves DEF AtWork, Combiners
    <2>2. QED
      BY <1>1, <1>3, <1>4, <2>1, WorkerOther
  <1>5. CASE workerBlock[w] = b /\ ~(pushes[b] > 1)
    <2>1. w \in Combiners(b)
      BY <1>1, <1>5 DEF Combiners
    <2>2. /\ Waiting(b) = 0 /\ pushes[b] = 1 /\ Combiners(b) = {w}
          /\ CombinedSoFar(b, "final") \/ SpoiledSinceFirst(b)
          /\ SpoiledSinceFirst(b) => SpoiledSinceFirst(b)'
      BY <1>1, <1>5, <2>1, WorkerAlone
    <2>3. Combiners(b)' = {}
      BY <1>1, <2>2, WorkerLeaves DEF AtWork, Combiners
    <2>4. CombinedSoFar(b, "final") => rigorous'[b] = "rigorous"
      BY <1>5 DEF CombinedSoFar, WorkerFinal, UpdateEstimatesFinal, AtWork,
                  TypeOK, MatrixTypes
    <2>5. QED
      BY <1>1, <1>3, <2>2, <2>3, <2>4 DEF CombinationOf
  <1>6. QED
    BY <1>1, <1>4, <1>5 DEF CombinationOf

LEMMA WorkerCombination ==
  ASSUME AtWork, NEW w \in Workers, Worker(w), NEW b \in Blocks,
         CombineRequired(b)
  PROVE  CombinationOf(b)'
  <1>1. ~WorkerSentinel(w)
    BY NoFailure DEF WorkerSentinel
  <1>2. QED
    BY <1>1, WorkerAsideCombination, PrepareCombination, SolveCombination,
       CombineCombination, FinalCombination DEF Worker
-----------------------------------------------------------------------------
(* Contents: the other steps of an iteration, and the main thread.         *)

LEMMA CoordinatorContents ==
  ASSUME AtWork, Aside, \A w \in Workers : ~Worker(w), ~JoinThreads,
         NEW b \in Blocks
  PROVE  /\ ForwardOf(b)'
         /\ ~BlockIsolated(b) => ReverseOf(b)'
         /\ CombineRequired(b) => CombinationOf(b)'
  <1>1. CombineThread \/ SpuriousWakeup \/ UNCHANGED vars
    <2>1. ~LeaveLoop /\ ~UpdateBlock /\ ~Finish
      BY DEF AtWork, LeaveLoop, UpdateBlock, Finish
    <2>2. ~CancelAdjustment
      BY NoFailure DEF CancelAdjustment
    <2>3. QED
      BY <2>1, <2>2 DEF Aside
  <1>2. UNCHANGED <<runPc, runBlock, matrixVars, pushes, the_queue, workerBlock>>
    BY <1>1 DEF CombineThread, WaitForBlock, StartWorkers, JoinWorkers,
       SpuriousWakeup, sleep_on_empty, spurious_wakeup, queueVars, threadVars,
       historyVars, vars
  <1>3. /\ Brought(b)' <=> Brought(b)
        /\ LeftForward(b)' <=> LeftForward(b)
        /\ Carried(b)' <=> Carried(b)
        /\ LeftReverse(b)' <=> LeftReverse(b)
        /\ \A run, labels : At(run, b, labels)' <=> At(run, b, labels)
        /\ At("rev", b + 1, {"set", "test", "push"})'
             <=> At("rev", b + 1, {"set", "test", "push"})
    BY <1>2 DEF Brought, LeftForward, Carried, LeftReverse, Passed, Begun, At
  <1>4. Combiners(b)' = Combiners(b) /\ Holders(b)' = Holders(b)
          /\ \A w \in Combiners(b) : workerPc'[w] = workerPc[w]
    <2>1. CASE StartWorkers
      <3>1. \A w \in Workers : workerPc[w] \in {"idle", "done"}
        BY <2>1 DEF StartWorkers, AtWork, ProtocolInv, Quiet
      <3>2. \A w \in Workers : workerPc'[w] \in {"idle", "done", "top"}
        BY <2>1, <3>1 DEF StartWorkers
      <3>3. QED
        BY <3>1, <3>2 DEF Combiners, Holders
    <2>2. CASE UNCHANGED workerPc
      BY <1>2, <2>2 DEF Combiners, Holders
    <2>3. QED
      BY <1>1, <2>1, <2>2 DEF CombineThread, WaitForBlock, JoinWorkers,
         SpuriousWakeup, threadVars, vars
  <1>5. Waiting(b)' = Waiting(b)
    BY <1>2, <1>4 DEF Waiting, Places
  <1>6. ForwardOf(b)'
    BY <1>2, <1>3, ForwardKept DEF matrixVars
  <1>7. ~BlockIsolated(b) => ReverseOf(b)'
    BY <1>2, <1>3, ReverseKept DEF matrixVars
  <1>8. ASSUME CombineRequired(b) PROVE CombinationOf(b)'
    <2>1. LeftReverse(b) /\ pushes[b] = 0 => reverse[b].backup = "carried"
      BY <1>8 DEF AtWork, CombinationOf
    <2>2. QED
      BY <1>2, <1>3, <1>4, <1>5, <1>8, <2>1, CombinationKept DEF matrixVars
  <1>9. QED
    BY <1>6, <1>7, <1>8

LEMMA StartContents ==
  ASSUME TypeOK, ProtocolInv, Contents, Undisturbed, NothingLeftOver',
         Undisturbed', StartIteration, NEW b \in Blocks
  PROVE  /\ ForwardOf(b)'
         /\ ReverseOf(b)'
         /\ CombinationOf(b)'
  <1>1. Anew(b)
    BY DEF Contents, StartIteration
  <1>2. /\ UNCHANGED <<matrixVars, workerPc, the_queue>>
        /\ \A run \in Runs : runPc'[run] = "start"
        /\ pushes'[b] = 0
        /\ leftover' = Queued
    BY DEF StartIteration, reset_blocks_coming
  <1>3. the_queue = <<>>
    <2>1. Queued = {}
      BY <1>2 DEF NothingLeftOver, Undisturbed
    <2>2. the_queue \in Seq(Blocks \cup {Sentinel})
      BY DEF TypeOK, QueueTypeOK
    <2>3. 1 \notin DOMAIN the_queue
      BY <2>1 DEF Queued
    <2>4. QED
      BY <2>2, <2>3
  <1>4. \A w \in Workers : workerPc'[w] \in {"idle", "done"}
    BY <1>2 DEF StartIteration, ProtocolInv, Quiet
  <1>5. Places(b)' = {} /\ Holders(b)' = {} /\ Combiners(b)' = {}
    <2>1. Len(the_queue') = 0
      BY <1>2, <1>3
    <2>2. QED
      BY <1>4, <2>1 DEF Places, Holders, Combiners
  <1>6. Waiting(b)' = 0
    BY <1>5, FS_EmptySet DEF Waiting
  <1>7. /\ ~Brought(b)' /\ ~LeftForward(b)' /\ ~Carried(b)' /\ ~LeftReverse(b)'
        /\ ForwardNormals(b)' = "formed"
    BY <1>2 DEF Brought, LeftForward, Carried, LeftReverse, Passed, Begun, At,
                Ended, ForwardNormals, Runs
  <1>8. /\ forward'[b] = "formed" /\ reverse'[b].normals = "formed"
        /\ \A labels : At("rev", b, labels)' \/ At("fwd", b, labels)'
                         \/ At("rev", b + 1, labels)' => "start" \in labels
    BY <1>1, <1>2 DEF Anew, matrixVars, At, Runs
  <1>9. ForwardOf(b)'
    BY <1>7, <1>8 DEF ForwardOf
  <1>10. ReverseOf(b)'
    BY <1>7, <1>8 DEF ReverseOf
  <1>11. CombinationOf(b)'
    BY <1>2, <1>5, <1>6, <1>7 DEF CombinationOf
  <1>12. QED
    BY <1>9, <1>10, <1>11

LEMMA UpdateContents ==
  ASSUME TypeOK, Contents, Undisturbed, UpdateBlock
  PROVE  Contents'
  <1> DEFINE m == mainBlock
  <1>1. m \in Blocks /\ m \in Int /\ 0 <= m /\ m <= BlockCount - 1
          /\ BlockCount \in Int /\ \A b \in Blocks : b \in Int /\ b <= BlockCount - 1
    BY BlockCountAssumption DEF TypeOK, ThreadTypes, Blocks
  <1>2. ~cancelled /\ mainPc = "update" /\ UNCHANGED iterate
    BY DEF Undisturbed, Broken, UpdateBlock, resultVars
  <1>3. /\ mainPc' # "join"
        /\ mainPc' = "top" => iterate /\ m = BlockCount - 1
        /\ mainPc' = "update" => m # BlockCount - 1 /\ mainBlock' = m + 1
    BY <1>2 DEF UpdateBlock
  <1>4. ASSUME iterate, NEW b \in Blocks, b <= m PROVE Anew(b)'
    <2>1. forward \in [Blocks -> ForwardState] /\ reverse \in [Blocks -> ReverseState]
      BY DEF TypeOK, MatrixTypes
    <2>2. /\ forward' = [forward EXCEPT ![m] = FreshForward]
          /\ reverse' = [reverse EXCEPT
                           ![m] = [FreshReverse EXCEPT !.rows = reverse[m].rows]]
      BY <1>2, <1>4 DEF UpdateBlock, UpdateMatrices
    <2>3. CASE b = m
      BY <1>1, <2>1, <2>2, <2>3 DEF Anew, FreshForward, FreshReverse
    <2>4. CASE b # m
      <3>1. b < m
        BY <1>1, <1>4, <2>4
      <3>2. Anew(b)
        BY <1>2, <1>4, <3>1 DEF Contents
      <3>3. QED
        BY <2>1, <2>2, <2>4, <3>2 DEF Anew
    <2>5. QED
      BY <2>3, <2>4
  <1>5. ASSUME mainPc' = "top", NEW b \in Blocks PROVE Anew(b)'
    BY <1>1, <1>3, <1>4, <1>5
  <1>6. ASSUME mainPc' = "update", iterate', NEW b \in Blocks, b < mainBlock'
        PROVE  Anew(b)'
    <2>1. b <= m
      BY <1>1, <1>3, <1>6
    <2>2. QED
      BY <1>2, <1>4, <1>6, <2>1
  <1>7. QED
    BY <1>3, <1>5, <1>6 DEF Contents

LEMMA ContentsStepAtWork ==
  ASSUME AtWork, ~JoinThreads, NEW b \in Blocks
  PROVE  /\ mainPc' = "join"
         /\ ForwardOf(b)'
         /\ ~BlockIsolated(b) => ReverseOf(b)'
         /\ CombineRequired(b) => CombinationOf(b)'
  <1>1. ASSUME NEW run \in Runs, RunStep(run)
        PROVE  /\ mainPc' = "join"
               /\ ForwardOf(b)'
               /\ ~BlockIsolated(b) => ReverseOf(b)'
               /\ CombineRequired(b) => CombinationOf(b)'
    <2>1. mainPc' = mainPc
      BY <1>1 DEF RunStep, StartRun, CheckRun, SolveFails, SetAdjusted,
         TestOther, PushBlock, FinishRun, TestFinished, ExhaustQueue,
         HandlerTest, HandlerPush, SolveForward, UpdateForward, CarryForward,
         NotifyAll, SolveReverse, UpdateReverse, CarryReverse, FinalReverse
    <2>2. ForwardOf(b)' /\ (~BlockIsolated(b) => ReverseOf(b)')
      BY <1>1, ForwardRunForward, ForwardRunReverse, ReverseRunForward,
         ReverseRunReverse DEF Runs
    <2>3. QED
      BY <1>1, <2>1, <2>2, RunCombination DEF AtWork
  <1>2. ASSUME NEW w \in Workers, Worker(w)
        PROVE  /\ mainPc' = "join"
               /\ ForwardOf(b)'
               /\ ~BlockIsolated(b) => ReverseOf(b)'
               /\ CombineRequired(b) => CombinationOf(b)'
    <2>1. mainPc' = mainPc
      BY <1>2 DEF Worker, WorkerTop, WorkerMore, WorkerEmpty, WorkerErrors,
         WorkerSentinel, WorkerPop, WorkerPrepare, WorkerSolve, WorkerCombine,
         WorkerFinal
    <2>2. QED
      BY <1>2, <2>1, WorkerLeavesRuns, WorkerCombination DEF AtWork
  <1>3. CASE Aside /\ \A w \in Workers : ~Worker(w)
    <2>1. mainPc' = mainPc
      BY <1>3 DEF AtWork, Aside, LeaveLoop, UpdateBlock, Finish, CombineThread,
         WaitForBlock, StartWorkers, JoinWorkers, SpuriousWakeup,
         CancelAdjustment, threadVars, vars
    <2>2. QED
      BY <1>3, <2>1, CoordinatorContents DEF AtWork
  <1>4. QED
    BY <1>1, <1>2, <1>3, NoFailure, StepCases DEF AtWork

LEMMA ContentsStep ==
  TypeOK /\ ProtocolInv /\ NoLostBlock /\ RowsInv /\ ContentsInv /\ [Next]_vars
    => Contents'
  <1> SUFFICES ASSUME TypeOK, ProtocolInv, NoLostBlock, RowsInv, ContentsInv,
                      [Next]_vars, Undisturbed'
               PROVE  Contents'
    BY DEF Contents
  <1>1. Undisturbed /\ Contents /\ NothingLeftOver /\ MarkedLate
    BY UndisturbedBefore DEF ContentsInv
  <1>2. CASE JoinThreads
    <2>1. mainPc' \in {"rethrown", "finish", "update"}
            /\ (mainPc' = "update" => mainBlock' = 0)
      BY <1>2 DEF JoinThreads
    <2>2. \A b \in Blocks : ~(b < 0)
      BY DEF Blocks
    <2>3. QED
      BY <2>1, <2>2 DEF Contents
  <1>3. CASE mainPc = "join" /\ ~JoinThreads
    <2>1. AtWork
      BY <1>1, <1>3 DEF AtWork, Contents
    <2>2. \A b \in Blocks :
            /\ mainPc' = "join"
            /\ ForwardOf(b)'
            /\ ~BlockIsolated(b) => ReverseOf(b)'
            /\ CombineRequired(b) => CombinationOf(b)'
      BY <1>3, <2>1, ContentsStepAtWork
    <2>3. 0 \in Blocks
      BY BlockCountAssumption DEF Blocks
    <2>4. mainPc' = "join"
      BY <2>2, <2>3
    <2>5. QED
      BY <2>2, <2>4 DEF Contents
  <1>4. CASE StartIteration
    <2>1. NothingLeftOver'
      BY <1>1, NothingLeftOverStep
    <2>2. mainPc' = "join"
      BY <1>4 DEF StartIteration
    <2>3. QED
      BY <1>1, <1>4, <2>1, <2>2, StartContents DEF Contents
  <1>5. CASE UpdateBlock
    BY <1>1, <1>5, UpdateContents
  <1>6. CASE LeaveLoop \/ Finish
    BY <1>6 DEF LeaveLoop, Finish, Contents
  <1>7. CASE /\ mainPc # "join"
             /\ UNCHANGED <<mainPc, mainBlock, iterate, matrixVars, historyVars>>
    BY <1>1, <1>7 DEF Contents, Anew, matrixVars
  <1>8. QED
    BY <1>2, <1>3, <1>4, <1>5, <1>6, <1>7, MainAlone
-----------------------------------------------------------------------------
(* The rigorous estimates. *)

LEMMA RigorousAtJoin ==
  ASSUME AtWork, ThreadsFinished, NEW b \in Blocks
  PROVE  \/ rigorous[b] = "rigorous"
         \/ pushes[b] > 1
         \/ SpoiledSinceFirst(b)
  <1>1. \A run \in Runs : runPc[run] = "done" /\ runBlock[run] = LastOfRun(run)
    BY DEF ThreadsFinished, AtWork, RowsInv, RunsProgress, RunsEnd, Undisturbed
  <1>2. LeftForward(b) /\ LeftReverse(b)
    <2>1. b \in Int /\ 0 <= b /\ b <= BlockCount - 1 /\ BlockCount \in Int
      BY BlockTypes DEF AtWork
    <2>2. QED
      BY <1>1, <2>1 DEF LeftForward, LeftReverse, Passed, Begun, At, Ended,
                        LastOfRun, Runs
  <1>3. CASE BlockLast(b)
    BY <1>2, <1>3 DEF AtWork, ForwardOf
  <1>4. CASE BlockFirst(b) /\ ~BlockLast(b)
    BY <1>2, <1>4 DEF AtWork, ReverseOf, BlockIsolated
  <1>5. CASE CombineRequired(b)
    <2>1. pushes[b] > 0 /\ the_queue = <<>>
      BY <1>5, IterationEnds DEF AtWork, RowsInv, Undisturbed
    <2>2. \A w \in Workers : workerPc[w] \in {"idle", "done"}
      BY DEF ThreadsFinished, AtWork, ProtocolInv, Quiet
    <2>3. Places(b) = {} /\ Holders(b) = {} /\ Combiners(b) = {}
      <3>1. Len(the_queue) = 0
        BY <2>1
      <3>2. QED
        BY <2>2, <3>1 DEF Places, Holders, Combiners
    <2>4. Waiting(b) = 0
      BY <2>3, FS_EmptySet DEF Waiting
    <2>5. QED
      BY <1>5, <2>1, <2>3, <2>4 DEF AtWork, CombinationOf
  <1>6. QED
    BY <1>3, <1>4, <1>5 DEF CombineRequired, BlockIsolated

LEMMA RigorousStep ==
  TypeOK /\ ProtocolInv /\ NoLostBlock /\ RowsInv /\ ContentsInv /\ [Next]_vars
    => RigorousUnlessDisturbed'
  <1> SUFFICES ASSUME TypeOK, ProtocolInv, NoLostBlock, RowsInv, ContentsInv,
                      [Next]_vars,
                      mainPc' = "update", mainBlock' = 0, ~premature',
                      NEW b \in Blocks
               PROVE  \/ rigorous'[b] = "rigorous"
                      \/ pushes'[b] > 1
                      \/ SpoiledSinceFirst(b)'
    BY DEF RigorousUnlessDisturbed
  <1>1. ~premature
    BY PrematureKept
  <1>2. CASE JoinThreads
    <2>1. /\ ThreadsFinished /\ ~ErrorToRethrow /\ ~cancelled /\ mainPc = "join"
          /\ UNCHANGED <<errorVars, cancelled, matrixVars, historyVars>>
      BY <1>2 DEF JoinThreads
    <2>2. ~Broken /\ ~Broken'
      BY <2>1 DEF ThreadsFinished, ErrorToRethrow, ProtocolInv, FailuresKept,
                  Broken, Failing, Runs, errorVars
    <2>3. AtWork
      BY <1>1, <2>1, <2>2 DEF AtWork, ContentsInv, Contents, Undisturbed
    <2>4. QED
      BY <2>1, <2>3, RigorousAtJoin DEF matrixVars, historyVars, SpoiledSinceFirst
  <1>3. CASE mainPc = "join" /\ ~JoinThreads
    <2>1. mainPc' = "join"
      <3>1. CASE CancelAdjustment
        BY <1>3, <3>1 DEF CancelAdjustment, threadVars
      <3>2. ASSUME NEW run \in Runs, RunStep(run) PROVE mainPc' = mainPc
        BY <3>2 DEF RunStep, StartRun, CheckRun, SolveFails, SetAdjusted,
           TestOther, PushBlock, FinishRun, TestFinished, ExhaustQueue,
           HandlerTest, HandlerPush, SolveForward, UpdateForward, CarryForward,
           NotifyAll, SolveReverse, UpdateReverse, CarryReverse, FinalReverse
      <3>3. CASE Aside
        BY <1>3, <3>3 DEF Aside, LeaveLoop, UpdateBlock, Finish, CombineThread,
           WaitForBlock, StartWorkers, JoinWorkers, SpuriousWakeup, Worker,
           WorkerTop, WorkerMore, WorkerEmpty, WorkerErrors, WorkerSentinel,
           WorkerPop, WorkerPrepare, WorkerSolve, WorkerCombine, WorkerFinal,
           CancelAdjustment, threadVars, vars
      <3>4. ~StartIteration
        BY <1>3 DEF StartIteration
      <3>5. QED
        BY <1>3, <3>2, <3>3, <3>4, StepCases
    <2>2. QED
      BY <2>1
  <1>4. CASE UpdateBlock
    <2>1. mainBlock' = mainBlock + 1 /\ mainBlock \in Nat
      BY <1>4 DEF UpdateBlock, TypeOK, ThreadTypes, Blocks
    <2>2. QED
      BY <2>1
  <1>5. CASE StartIteration \/ LeaveLoop \/ Finish
    BY <1>5 DEF StartIteration, LeaveLoop, Finish
  <1>6. CASE UNCHANGED <<mainPc, mainBlock, iterate, matrixVars, historyVars>>
    BY <1>1, <1>6 DEF ContentsInv, RigorousUnlessDisturbed, matrixVars,
                      historyVars, SpoiledSinceFirst
  <1>7. QED
    BY <1>2, <1>3, <1>4, <1>5, <1>6, MainAlone

LEMMA ContentsInvInit == Init => ContentsInv
  BY DEF Init, ContentsInv, NothingLeftOver, MarkedLate, Contents, Anew,
         FreshForward, FreshReverse, RigorousUnlessDisturbed

LEMMA ContentsInvStep ==
  TypeOK /\ ProtocolInv /\ NoLostBlock /\ RowsInv /\ ContentsInv /\ [Next]_vars
    => ContentsInv'
  BY NothingLeftOverStep, MarkedLateStep, ContentsStep, RigorousStep
  DEF ContentsInv

(* What the matrices of every block hold, wherever the runs and the        *)
(* workers are, in every state of the multi-thread adjustment in which the *)
(* queue has not been exhausted prematurely and nothing has been given up. *)
THEOREM ContentsCorrect == Spec => []ContentsInv
  <1>1. QED
    BY ContentsInvInit, ContentsInvStep, TypeCorrect, ProtocolCorrect,
       NoBlockIsLost, RowsCorrect, PTL DEF Spec

(* When AdjustPhasedMultiThread goes on after joining the threads, every   *)
(* block has a rigorous estimate made from the right inputs, but for the   *)
(* disturbances the property names.                                        *)
THEOREM AlwaysRigorous == Spec => []RigorousUnlessDisturbed
  <1>1. ContentsInv => RigorousUnlessDisturbed
    BY DEF ContentsInv
  <1>2. QED
    BY <1>1, ContentsCorrect, PTL
=============================================================================
