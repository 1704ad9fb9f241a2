--------------------------- MODULE AdjustmentRunInv ---------------------------
(***************************************************************************)
(* The inductive invariant of AdjustmentRun, in three parts: one about the *)
(* pool that prepares the blocks, one about the messages and one about the *)
(* status.                                                                 *)
EXTENDS AdjustmentRun

Failure == \E t \in Preparers : prepErrors[t]

(* A thread has the block in its hands: it is neither queued nor prepared. *)
Holds(t, b) == preparer[t] \in {"recheck", "prepare"} /\ currentBlock[t] = b

(* The coordinator starts the threads once, and joins all of them.         *)
Started ==
    /\ coordinator \in {"idle", "start"} =>
          /\ the_queue = <<>>
          /\ preparer = [t \in Preparers |-> "idle"]
          /\ ~Failure
          /\ prepared = [b \in Blocks |-> 0]
    /\ coordinator \in {"join", "done"} =>
          \A t \in Preparers : preparer[t] # "idle"
    /\ coordinator = "done" => PreparersDone /\ prepError = Failure

(* A block is in one place at most: queued once, held by one thread, or    *)
(* prepared once.                                                          *)
QueuedOnce ==
    \A i, j \in DOMAIN the_queue :
        the_queue[i] = the_queue[j] /\ the_queue[i] \in Blocks => i = j

InOnePlace ==
    \A b \in Blocks :
        /\ prepared[b] \in {0, 1}
        /\ b \in Queued => prepared[b] = 0 /\ \A t \in Preparers : ~Holds(t, b)
        /\ \A t, u \in Preparers :
              Holds(t, b) => prepared[b] = 0 /\ (Holds(u, b) => t = u)

(* The value that is no block is only there after a failure, and never     *)
(* gets past the second look at the exceptions.                            *)
WokenByFailure ==
    /\ WakeUp \in Queued => Failure
    /\ \A t \in Preparers :
          /\ preparer[t] \in {"wake", "push"} => Failure
          /\ preparer[t] = "recheck" /\ currentBlock[t] = WakeUp => Failure
          /\ preparer[t] = "prepare" => currentBlock[t] \in Blocks

(* Without a failure a block is in one place at least, and a thread only   *)
(* returns when the queue is empty, which it then remains.                 *)
InSomePlace ==
    coordinator \in {"join", "done"} /\ ~Failure =>
        \A b \in Blocks :
            \/ b \in Queued
            \/ \E t \in Preparers : Holds(t, b)
            \/ prepared[b] = 1

QueueEmptied ==
    ~Failure => \A t \in Preparers : preparer[t] = "done" => the_queue = <<>>

Joined ==
    /\ main \in {"begin", "load"} => coordinator = "idle"
    /\ main = "pool" => coordinator # "idle"
    /\ main \in {"prepared", "assign"} \cup Iterating \cup Reporting =>
          coordinator = "done" /\ ~prepError

PoolInv ==
    /\ Started /\ QueuedOnce /\ InOnePlace
    /\ WokenByFailure /\ InSomePlace /\ QueueEmptied /\ Joined

-----------------------------------------------------------------------------
Pending == IF progress = "show" THEN 1 ELSE 0

(* What has been shown, what the progress thread is about to show and what *)
(* is queued are the iterations in order.                                  *)
Told == Len(shown) + Pending + Len(iterationQueue)

InOrder ==
    /\ \A k \in 1 .. Len(bank) : bank[k] = k
    /\ \A k \in 1 .. Len(shown) : shown[k] = [iteration |-> k, message |-> k]
    /\ progress = "show" => popped = Len(shown) + 1
    /\ \A k \in 1 .. Len(iterationQueue) :
          iterationQueue[k] = Len(shown) + Pending + k
    /\ Told <= Len(bank)
    /\ Len(bank) <= iteration

(* How far the messages are behind the iterations, in each place the main  *)
(* thread can be.                                                          *)
InStep ==
    /\ main \in Preparing \cup {"commence"} => bank = <<>> /\ iteration = 0
    /\ main \in {"solve", "message"} =>
          iteration >= 1 /\ Len(bank) = iteration - 1 /\ Told = iteration - 1
    /\ main = "queue" =>
          iteration >= 1 /\ Len(bank) = iteration /\ Told = iteration - 1
    /\ main \in {"iterate", "test", "update", "updating"} =>
          Len(bank) = iteration /\ Told = iteration
    /\ main \in {"test", "update", "updating"} => iteration >= 1
    /\ main \in Reporting \cup Ending \cup Ended /\ ~threw /\ ~cancelled =>
          Len(bank) = iteration /\ Told = iteration

ProgressJoined ==
    /\ main \in {"summary", "statistics"} \cup Ended => progress = "done"
    /\ main \in {"statistics"} \cup Ended /\ ~threw => iterationQueue = <<>>

MessageInv == InOrder /\ InStep /\ ProgressJoined

-----------------------------------------------------------------------------
(* The status is first set when the result is judged, or by an exception;  *)
(* the iterations go on while the correction is large.                     *)
StatusInv ==
    /\ threw => main \in {"raise", "join", "failure"}
    /\ main = "raise" => threw
    /\ main \in Preparing \cup Iterating \cup {"validate", "status"} =>
          adjustStatus = "ADJUST_SUCCESS"
    /\ main = "iterate" => iteration = 0 \/ exceeds
    /\ main \in {"update", "updating"} => exceeds
    /\ main \in {"validate", "status"} /\ ~cancelled =>
          iteration > 0 /\ (exceeds => iteration = MaxIterations)
    /\ StatusTells

Inv == TypeOK /\ PoolInv /\ MessageInv /\ StatusInv
=============================================================================
