-------------------------- MODULE PreparationThreads --------------------------
(***************************************************************************)
(* The threads that prepare the blocks for an adjustment                   *)
(* (dnaadjust-multi.cpp).  A coordinator fills a queue with all blocks,    *)
(* starts one thread per core and joins them.  The threads take blocks off *)
(* the queue until it is declared exhausted, which any of them does that   *)
(* finds the queue empty after a block of its own, or until one of them    *)
(* has thrown.  An action is one critical section or the preparation of    *)
(* one block.                                                              *)
(***************************************************************************)
EXTENDS ConcurrentQueue, Naturals

CONSTANTS
    BlockCount,         \* blockCount_
    Preparers           \* one thread per core

Blocks == 0 .. BlockCount - 1

WakeUp == 99999999      \* pushed after a failure if the queue is empty

ASSUME BlockCountAssumption == BlockCount \in Nat \ {0}
ASSUME PreparersAssumption == Preparers # {}
ASSUME WakeUpAssumption == WakeUp \notin Blocks

VARIABLES
    coordinator,        \* where adjust_prepare_thread is
    preparer,           \* where each adjust_process_prepare_thread is
    currentBlock,       \* the block each of them took off the queue last
    prepErrors,         \* prep_errors: which of them have thrown
    prepError,          \* prep_error: the coordinator hands on an exception
    prepared            \* history: how often each block was prepared

poolVars == <<coordinator, preparer, currentBlock, prepErrors, prepError,
              prepared, queueVars>>

PreparerLabels == {"idle", "top", "empty", "errors", "pop", "recheck",
                   "prepare", "last", "exhaust", "wake", "push", "done"}

PoolTypes ==
    /\ coordinator \in {"idle", "start", "join", "done"}
    /\ preparer \in [Preparers -> PreparerLabels]
    /\ currentBlock \in [Preparers -> Blocks \cup {WakeUp}]
    /\ prepErrors \in [Preparers -> BOOLEAN]
    /\ prepError \in BOOLEAN
    /\ prepared \in [Blocks -> Nat]
    /\ QueueTypeOK(Blocks \cup {WakeUp}, {})

PoolInit ==
    /\ coordinator = "idle"
    /\ preparer = [t \in Preparers |-> "idle"]
    /\ currentBlock = [t \in Preparers |-> WakeUp]
    /\ prepErrors = [t \in Preparers |-> FALSE]
    /\ prepError = FALSE
    /\ prepared = [b \in Blocks |-> 0]
    /\ QueueInit

-----------------------------------------------------------------------------
(* The coordinator: adjust_prepare_thread. *)

AllBlocks == [i \in 1 .. BlockCount |-> i - 1]

StartPreparers ==
    /\ coordinator = "start"
    /\ push_data(AllBlocks)
    /\ preparer' = [t \in Preparers |-> "top"]
    /\ coordinator' = "join"
    /\ UNCHANGED <<currentBlock, prepErrors, prepError, prepared>>

SomePreparerDone == \E t \in Preparers : preparer[t] = "done"       \* mutant

PreparersDone == \A t \in Preparers : preparer[t] = "done"

JoinPreparers ==
    /\ coordinator = "join"
    /\ PreparersDone
    /\ prepError' = \E t \in Preparers : prepErrors[t]
    /\ coordinator' = "done"
    /\ UNCHANGED <<preparer, currentBlock, prepErrors, prepared, queueVars>>

-----------------------------------------------------------------------------
(* A thread of the pool: adjust_process_prepare_thread. *)

Goto(t, label) == preparer' = [preparer EXCEPT ![t] = label]

(* is_queue_exhausted: first the flag, then, under the other mutex, the    *)
(* queue.                                                                  *)
TestExhausted(t) ==
    /\ preparer[t] = "top"
    /\ Goto(t, IF more_blocks_coming THEN "errors" ELSE "empty")
    /\ UNCHANGED <<coordinator, currentBlock, prepErrors, prepError, prepared,
                   queueVars>>

TestEmpty(t) ==
    /\ preparer[t] = "empty"
    /\ Goto(t, IF is_empty THEN "done" ELSE "errors")
    /\ UNCHANGED <<coordinator, currentBlock, prepErrors, prepError, prepared,
                   queueVars>>

(* prepareAdjustmentExceptionThrown, before and after taking a block: an   *)
(* empty queue gets a value that is no block, and the thread returns.      *)
TestErrors(t) ==
    /\ preparer[t] \in {"errors", "recheck"}
    /\ Goto(t, IF \E u \in Preparers : prepErrors[u] THEN "wake"
               ELSE IF preparer[t] = "errors" THEN "pop" ELSE "prepare")
    /\ UNCHANGED <<coordinator, currentBlock, prepErrors, prepError, prepared,
                   queueVars>>

TestWakeUp(t) ==
    /\ preparer[t] = "wake"
    /\ Goto(t, IF is_empty THEN "push" ELSE "done")
    /\ UNCHANGED <<coordinator, currentBlock, prepErrors, prepError, prepared,
                   queueVars>>

PushWakeUp(t) ==
    /\ preparer[t] = "push"
    /\ push_and_notify(WakeUp)
    /\ Goto(t, "done")
    /\ UNCHANGED <<coordinator, currentBlock, prepErrors, prepError, prepared>>

NotRechecked == "prepare"                                           \* mutant

AfterPop == "recheck"

Pop(t) ==
    /\ preparer[t] = "pop"
    /\ \/ \E value \in Blocks \cup {WakeUp} :
            /\ front_and_pop(value)
            /\ currentBlock' = [currentBlock EXCEPT ![t] = value]
            /\ Goto(t, AfterPop)
       \/ /\ is_empty
          /\ Goto(t, "top")
          /\ UNCHANGED <<currentBlock, queueVars>>
    /\ UNCHANGED <<coordinator, prepErrors, prepError, prepared>>

(* CreateMeasurementTally and PrepareAdjustmentBlock, either of which may  *)
(* throw.                                                                  *)
PrepareBlock(t) ==
    /\ preparer[t] = "prepare"
    /\ \/ /\ currentBlock[t] \in Blocks
          /\ prepared' = [prepared EXCEPT ![currentBlock[t]] = @ + 1]
          /\ Goto(t, "last")
          /\ UNCHANGED prepErrors
       \/ /\ prepErrors' = [prepErrors EXCEPT ![t] = TRUE]
          /\ Goto(t, "done")
          /\ UNCHANGED prepared
    /\ UNCHANGED <<coordinator, currentBlock, prepError, queueVars>>

TestLast(t) ==
    /\ preparer[t] = "last"
    /\ Goto(t, IF is_empty THEN "exhaust" ELSE "top")
    /\ UNCHANGED <<coordinator, currentBlock, prepErrors, prepError, prepared,
                   queueVars>>

ExhaustQueue(t) ==
    /\ preparer[t] = "exhaust"
    /\ queue_exhausted
    /\ Goto(t, "top")
    /\ UNCHANGED <<coordinator, currentBlock, prepErrors, prepError, prepared>>

Preparer(t) ==
    \/ TestExhausted(t) \/ TestEmpty(t) \/ TestErrors(t) \/ TestWakeUp(t)
    \/ PushWakeUp(t) \/ Pop(t) \/ PrepareBlock(t) \/ TestLast(t)
    \/ ExhaustQueue(t)

Coordinator == StartPreparers \/ JoinPreparers
=============================================================================
