---------------------------- MODULE AdjustmentRun ----------------------------
(***************************************************************************)
(* A run of the adjustment program, from the creation of its threads to    *)
(* its exit (dnaadjustwrapper.cpp, dnaadjustprogress.cpp and the iteration *)
(* control of dnaadjust.cpp).  The main thread prepares the blocks with    *)
(* the pool of PreparationThreads, iterates, and joins the progress        *)
(* thread, which polls flags of the adjustment that nothing protects and   *)
(* shows the message of each iteration; the host may cancel.  The          *)
(* iterations are those of AdjustPhased and AdjustSimultaneous, which      *)
(* differ in where they look for a cancellation.                           *)
(*                                                                         *)
(* A message is known by the iteration whose correction it tells.          *)
(***************************************************************************)
EXTENDS PreparationThreads

CONSTANT MaxIterations      \* projectSettings_.a.max_iterations

ASSUME MaxIterationsAssumption == MaxIterations \in Nat \ {0}

VARIABLES
    main,               \* where the main thread is
    progress,           \* where the progress thread is
    running,            \* the global of dnaadjustprogress.cpp
    threw,              \* *_adjustStatus is ADJUST_EXCEPTION_RAISED
    isPreparing,        \* isPreparing_
    isAdjusting,        \* isAdjusting_
    adjustStatus,       \* adjustStatus_
    unset,              \* assignments a report of an exception has to make
    cancelled,          \* isCancelled_
    iteration,          \* currentIteration_
    exceeds,            \* fabs(maxCorr_) > iteration_threshold
    iterationQueue,     \* iterationQueue_
    bank,               \* iterationCorrections_, the messages
    popped,             \* the iteration the progress thread shows next
    shown               \* history: iterations and messages on the console

flagVars == <<running, isPreparing, isAdjusting, adjustStatus>>
messageVars == <<iterationQueue, bank, shown>>
resultVars == <<iteration, exceeds, cancelled>>

vars == <<main, progress, threw, unset, popped, flagVars, messageVars,
          resultVars, poolVars>>

Statuses == {"ADJUST_SUCCESS", "ADJUST_MAX_ITERATIONS_EXCEEDED",
             "ADJUST_EXCEPTION_RAISED", "ADJUST_CANCELLED"}

Assignments == {"status", "flags"}

Preparing == {"begin", "load", "pool", "prepared", "assign"}
Iterating == {"commence", "iterate", "solve", "message", "queue", "test",
              "update", "updating"}
Reporting == {"validate", "status", "end"}
Failing == {"signal", "caught", "raise"}
Ending == {"join", "summary", "statistics"}
Ended == {"success", "failure"}

Init ==
    /\ main = "begin"
    /\ progress = "preparing"
    /\ running = TRUE
    /\ threw = FALSE
    /\ isPreparing = FALSE /\ isAdjusting = FALSE
    /\ adjustStatus = "ADJUST_SUCCESS"
    /\ unset = {}
    /\ cancelled = FALSE
    /\ iteration = 0
    /\ exceeds = FALSE
    /\ iterationQueue = <<>> /\ bank = <<>> /\ shown = <<>>
    /\ popped = 0
    /\ PoolInit

-----------------------------------------------------------------------------
(* Exceptions.  SignalExceptionAdjustment stores a status and the flags    *)
(* before it throws, SetExceptionRaised, called where it is caught, stores *)
(* them again.  Plain variables: another thread may see the stores in      *)
(* either order.  Not every exception comes from a signal.                 *)
Throws ==
    \/ main' = "signal" /\ unset' = Assignments
    \/ main' = "caught" /\ UNCHANGED unset

FlagsKept == isPreparing' = FALSE /\ UNCHANGED isAdjusting          \* mutant

FlagsCleared == isPreparing' = FALSE /\ isAdjusting' = FALSE

Store(assignment) ==
    /\ main \in {"signal", "raise"}
    /\ assignment \in unset
    /\ IF assignment = "status"
       THEN /\ adjustStatus' = "ADJUST_EXCEPTION_RAISED"
            /\ UNCHANGED <<isPreparing, isAdjusting>>
       ELSE /\ FlagsCleared
            /\ UNCHANGED adjustStatus
    /\ unset' = unset \ {assignment}
    /\ main' = IF unset' # {} THEN main
               ELSE IF main = "signal" THEN "caught" ELSE "join"
    /\ UNCHANGED <<progress, running, threw, popped, messageVars, resultVars,
                   poolVars>>

Caught ==
    /\ main = "caught"
    /\ running' = FALSE
    /\ threw' = TRUE
    /\ unset' = Assignments
    /\ main' = "raise"
    /\ UNCHANGED <<progress, isPreparing, isAdjusting, adjustStatus, popped,
                   messageVars, resultVars, poolVars>>

-----------------------------------------------------------------------------
(* PrepareAdjustment, and PrepareAdjustmentMultiThread within. *)

BeginPreparation ==
    /\ main = "begin"
    /\ isPreparing' = TRUE
    /\ isAdjusting' = TRUE
    /\ main' = "load"
    /\ UNCHANGED <<progress, threw, unset, popped, running, adjustStatus,
                   messageVars, resultVars, poolVars>>

(* The files are read, and the queue and the coordinator set up. *)
LoadNetworkFiles ==
    /\ main = "load"
    /\ \/ /\ main' = "pool"
          /\ coordinator' = "start"
          /\ reset_blocks_coming
          /\ UNCHANGED unset
       \/ /\ Throws
          /\ UNCHANGED <<coordinator, queueVars>>
    /\ UNCHANGED <<progress, threw, popped, flagVars, messageVars, resultVars,
                   preparer, currentBlock, prepErrors, prepError, prepared>>

JoinCoordinator ==
    /\ main = "pool"
    /\ coordinator = "done"
    /\ IF prepError THEN Throws
                    ELSE main' = "prepared" /\ UNCHANGED unset
    /\ UNCHANGED <<progress, threw, popped, flagVars, messageVars, resultVars,
                   poolVars>>

EndPreparation ==
    /\ main = "prepared"
    /\ isPreparing' = FALSE
    /\ main' = "assign"
    /\ UNCHANGED <<progress, threw, unset, popped, running, isAdjusting,
                   adjustStatus, messageVars, resultVars, poolVars>>

(* The matrices of the other direction and the maps of the stations. *)
AssignMatrices ==
    /\ main = "assign"
    /\ \/ main' = "commence" /\ UNCHANGED unset
       \/ Throws
    /\ UNCHANGED <<progress, threw, popped, flagVars, messageVars, resultVars,
                   poolVars>>

-----------------------------------------------------------------------------
(* The queue of the iterations done.  Nobody waits for it: the thread that *)
(* shows them polls, so all there is to it are its values.                 *)
PushIteration(i) == iterationQueue' = Append(iterationQueue, i)

PopIteration(i) ==
    /\ iterationQueue # <<>>
    /\ i = Head(iterationQueue)
    /\ iterationQueue' = Tail(iterationQueue)

-----------------------------------------------------------------------------
(* AdjustNetwork. *)

Commence ==
    /\ main = "commence"
    /\ isAdjusting' = TRUE
    /\ bank' = <<>>
    /\ iteration' = 0
    /\ main' = "iterate"
    /\ UNCHANGED <<progress, threw, unset, popped, running, isPreparing,
                   adjustStatus, iterationQueue, shown, exceeds, cancelled,
                   poolVars>>

Iterate ==
    /\ main = "iterate"
    /\ IF cancelled \/ iteration = MaxIterations
       THEN main' = "validate" /\ UNCHANGED iteration
       ELSE main' = "solve" /\ iteration' = iteration + 1
    /\ UNCHANGED <<progress, threw, unset, popped, flagVars, messageVars,
                   exceeds, cancelled, poolVars>>

(* Whether the largest correction exceeds the threshold is left open.      *)
(* AdjustPhased leaves in the middle of an iteration that is cancelled.    *)
Solve ==
    /\ main = "solve"
    /\ \/ /\ main' = "message"
          /\ exceeds' \in BOOLEAN
          /\ UNCHANGED unset
       \/ /\ cancelled
          /\ main' = "validate"
          /\ UNCHANGED <<exceeds, unset>>
       \/ Throws /\ UNCHANGED exceeds
    /\ UNCHANGED <<progress, threw, popped, flagVars, messageVars, iteration,
                   cancelled, poolVars>>

AddMessage ==
    /\ main = "message"
    /\ bank' = Append(bank, iteration)
    /\ main' = "queue"
    /\ UNCHANGED <<progress, threw, unset, popped, flagVars, iterationQueue,
                   shown, resultVars, poolVars>>

QueueIteration ==
    /\ main = "queue"
    /\ PushIteration(iteration)
    /\ main' = "test"
    /\ UNCHANGED <<progress, threw, unset, popped, flagVars, bank, shown,
                   resultVars, poolVars>>

TestConvergence ==
    /\ main = "test"
    /\ main' = IF ~cancelled /\ exceeds THEN "update" ELSE "validate"
    /\ UNCHANGED <<progress, threw, unset, popped, flagVars, messageVars,
                   resultVars, poolVars>>

(* UpdateAdjustment: preparing again, for the next iteration. *)
BeginUpdate ==
    /\ main = "update"
    /\ isPreparing' = TRUE
    /\ main' = "updating"
    /\ UNCHANGED <<progress, threw, unset, popped, running, isAdjusting,
                   adjustStatus, messageVars, resultVars, poolVars>>

EndUpdate ==
    /\ main = "updating"
    /\ \/ /\ isPreparing' = FALSE
          /\ main' = "iterate"
          /\ UNCHANGED unset
       \/ Throws /\ UNCHANGED isPreparing
    /\ UNCHANGED <<progress, threw, popped, running, isAdjusting,
                   adjustStatus, messageVars, resultVars, poolVars>>

PermittedIterationsUsed == iteration = MaxIterations                \* mutant

NotConverged == iteration = MaxIterations /\ exceeds

(* ValidateandFinaliseAdjustment: the flag first, then the status. *)
StopAdjusting ==
    /\ main = "validate"
    /\ isAdjusting' = FALSE
    /\ main' = "status"
    /\ UNCHANGED <<progress, threw, unset, popped, running, isPreparing,
                   adjustStatus, messageVars, resultVars, poolVars>>

Validate ==
    /\ main = "status"
    /\ adjustStatus' = CASE cancelled -> "ADJUST_CANCELLED"
                         [] ~cancelled /\ NotConverged ->
                              "ADJUST_MAX_ITERATIONS_EXCEEDED"
                         [] OTHER -> adjustStatus
    /\ main' = "end"
    /\ UNCHANGED <<progress, threw, unset, popped, running, isPreparing,
                   isAdjusting, messageVars, resultVars, poolVars>>

EndAdjustment ==
    /\ main = "end"
    /\ running' = FALSE
    /\ main' = "join"
    /\ UNCHANGED <<progress, threw, unset, popped, isPreparing, isAdjusting,
                   adjustStatus, messageVars, resultVars, poolVars>>

-----------------------------------------------------------------------------
(* The wrapper again. *)

JoinProgress ==
    /\ main = "join"
    /\ progress = "done"
    /\ main' = IF threw THEN "failure" ELSE "summary"
    /\ UNCHANGED <<progress, threw, unset, popped, flagVars, messageVars,
                   resultVars, poolVars>>

NoMessage == 0

(* GetMaxCorrection: iterations count from one, messages from zero. *)
MessageAt(index) ==
    IF index < Len(bank) THEN bank[index + 1] ELSE NoMessage

GetMaxCorrectionUnshifted(i) == MessageAt(i)                        \* mutant

GetMaxCorrection(i) == MessageAt(i - 1)

Show(i) == shown' = Append(shown, [iteration |-> i, message |-> GetMaxCorrection(i)])

(* Any messages left? *)
PrintSummaryMessage ==
    /\ main = "summary"
    /\ \/ \E i \in 1 .. MaxIterations :
            /\ PopIteration(i)
            /\ Show(i)
            /\ UNCHANGED main
       \/ /\ iterationQueue = <<>>
          /\ main' = IF adjustStatus = "ADJUST_CANCELLED"
                     THEN "success" ELSE "statistics"
          /\ UNCHANGED <<iterationQueue, shown>>
    /\ UNCHANGED <<progress, threw, unset, popped, flagVars, bank, resultVars,
                   poolVars>>

(* Statistics, and all the files of results. *)
WriteResults ==
    /\ main = "statistics"
    /\ main' \in Ended
    /\ UNCHANGED <<progress, threw, unset, popped, flagVars, messageVars,
                   resultVars, poolVars>>

Main ==
    \/ \E assignment \in Assignments : Store(assignment)
    \/ Caught
    \/ BeginPreparation \/ LoadNetworkFiles \/ JoinCoordinator
    \/ EndPreparation \/ AssignMatrices
    \/ Commence \/ Iterate \/ Solve \/ AddMessage \/ QueueIteration
    \/ TestConvergence \/ BeginUpdate \/ EndUpdate
    \/ StopAdjusting \/ Validate \/ EndAdjustment
    \/ JoinProgress \/ PrintSummaryMessage \/ WriteResults

-----------------------------------------------------------------------------
(* The progress thread. *)

StopPreparing ==
    /\ progress = "preparing"
    /\ ~(running /\ isPreparing)
    /\ progress' = "check"

(* The last of three looks for an exception, with nothing but output       *)
(* between them.                                                           *)
CheckException ==
    /\ progress = "check"
    /\ progress' = IF adjustStatus = "ADJUST_EXCEPTION_RAISED"
                   THEN "done" ELSE "adjusting"

PollAdjusting ==
    /\ progress = "adjusting"
    /\ progress' = IF isAdjusting THEN "messages" ELSE "done"

NoMessagesLeft ==
    /\ progress = "messages"
    /\ iterationQueue = <<>>
    /\ progress' = "adjusting"

GetMessageIteration ==
    /\ progress = "messages"
    /\ \E i \in 1 .. MaxIterations :
          PopIteration(i) /\ popped' = i
    /\ progress' = "show"
    /\ UNCHANGED <<bank, shown>>

ShowMessage ==
    /\ progress = "show"
    /\ Show(popped)
    /\ progress' = "messages"
    /\ UNCHANGED <<iterationQueue, bank, popped>>

Poll ==
    /\ StopPreparing \/ CheckException \/ PollAdjusting \/ NoMessagesLeft
    /\ UNCHANGED <<messageVars, popped>>

Progress ==
    /\ Poll \/ GetMessageIteration \/ ShowMessage
    /\ UNCHANGED <<main, threw, unset, flagVars, resultVars, poolVars>>

-----------------------------------------------------------------------------
(* The pool changes nothing else. *)
Pool ==
    /\ Coordinator \/ \E t \in Preparers : Preparer(t)
    /\ UNCHANGED <<main, progress, threw, unset, popped, flagVars,
                   messageVars, resultVars>>

CancelAdjustment ==
    /\ ~cancelled
    /\ main \notin Ended
    /\ cancelled' = TRUE
    /\ UNCHANGED <<main, progress, threw, unset, popped, flagVars,
                   messageVars, iteration, exceeds, poolVars>>

Terminated == main \in Ended /\ UNCHANGED vars

Next == Main \/ Progress \/ Pool \/ CancelAdjustment \/ Terminated

Others == <<main, progress, threw, unset, popped, flagVars, messageVars,
            resultVars>>

(* Each thread that can run is scheduled eventually. *)
Fairness ==
    /\ WF_vars(Main)
    /\ WF_vars(Progress)
    /\ WF_vars(Coordinator /\ UNCHANGED Others)
    /\ \A t \in Preparers : WF_vars(Preparer(t) /\ UNCHANGED Others)

Spec == Init /\ [][Next]_vars

FairSpec == Spec /\ Fairness

-----------------------------------------------------------------------------
(* Properties. *)

TypeOK ==
    /\ main \in Preparing \cup Iterating \cup Reporting \cup Failing
                  \cup Ending \cup Ended
    /\ progress \in {"preparing", "check", "adjusting", "messages", "show",
                     "done"}
    /\ running \in BOOLEAN /\ threw \in BOOLEAN
    /\ isPreparing \in BOOLEAN /\ isAdjusting \in BOOLEAN
    /\ adjustStatus \in Statuses
    /\ unset \subseteq Assignments
    /\ cancelled \in BOOLEAN
    /\ iteration \in 0 .. MaxIterations
    /\ exceeds \in BOOLEAN
    /\ iterationQueue \in Seq(1 .. MaxIterations)
    /\ bank \in Seq(1 .. MaxIterations)
    /\ popped \in 0 .. MaxIterations
    /\ shown \in Seq([iteration : 1 .. MaxIterations,
                      message : 0 .. MaxIterations])
    /\ PoolTypes

(* No thread prepares a block another one is preparing or has prepared,    *)
(* nor the value that tells of a failure.                                  *)
PreparedOnce ==
    \A t \in Preparers :
        preparer[t] = "prepare" =>
            /\ currentBlock[t] \in Blocks
            /\ prepared[currentBlock[t]] = 0
            /\ \A u \in Preparers \ {t} :
                  preparer[u] = "prepare" => currentBlock[u] # currentBlock[t]

(* The adjustment starts only when every block has been prepared, although *)
(* the queue is declared exhausted while other threads still prepare       *)
(* theirs; in particular no failure of a thread is lost.                   *)
AdjustsPrepared ==
    main \in {"prepared", "assign"} \cup Iterating \cup Reporting =>
        \A b \in Blocks : prepared[b] = 1

(* The console tells the correction of each iteration once and in order,   *)
(* and with its own number, whichever thread shows it; unless an exception *)
(* ended the run, or it was cancelled, it tells of all of them.            *)
CorrectionsShown ==
    /\ \A k \in DOMAIN shown : shown[k] = [iteration |-> k, message |-> k]
    /\ main \in {"statistics"} \cup Ended /\ ~threw /\ ~cancelled =>
          Len(shown) = iteration

(* The status reported is what happened: success means that the last       *)
(* correction was small, also if it took all the permitted iterations;     *)
(* an exception anywhere in the run fails it.                              *)
StatusTells ==
    /\ main \in {"end"} \cup Ending /\ ~threw =>
          CASE adjustStatus = "ADJUST_SUCCESS" -> iteration > 0 /\ ~exceeds
            [] adjustStatus = "ADJUST_MAX_ITERATIONS_EXCEEDED" ->
                 iteration = MaxIterations /\ exceeds
            [] adjustStatus = "ADJUST_CANCELLED" -> cancelled
            [] OTHER -> FALSE
    /\ main = "success" => ~threw

(* The program ends: the progress thread, which the main thread waits for, *)
(* sees the end of the adjustment, however it comes about and however late *)
(* it looks; and no thread of the pool waits for a block that never comes. *)
Termination == <>(main \in Ended)
=============================================================================
