-------------------------- MODULE AdjustmentRunProofs --------------------------
(***************************************************************************)
(* Proofs about AdjustmentRun, for any number of blocks, of preparing      *)
(* threads and of permitted iterations.                                    *)
(***************************************************************************)
EXTENDS AdjustmentRunInv, SequenceTheorems, TLAPS

(* A thread that is at work is one the coordinator has to join.            *)
LEMMA AtWork ==
  ASSUME PoolTypes, Started, NEW t \in Preparers, preparer[t] \notin {"idle", "done"}
  PROVE  coordinator = "join"
  BY DEF PoolTypes, Started, PreparersDone

(* A thread that goes on without touching queue or block keeps the         *)
(* invariant, if it gives up a block or returns only for a good reason.    *)
LEMMA RelabelStep ==
  ASSUME PoolTypes, PoolInv, NEW t \in Preparers, NEW label \in PreparerLabels,
         preparer[t] \notin {"idle", "done"},
         preparer' = [preparer EXCEPT ![t] = label],
         UNCHANGED <<coordinator, currentBlock, prepErrors, prepError,
                     prepared, the_queue, main>>,
         label \notin {"idle", "recheck"},
         label = "done" => Failure \/ the_queue = <<>>,
         label \in {"wake", "push"} => Failure,
         label = "prepare" => preparer[t] = "recheck" /\ ~Failure,
         preparer[t] \in {"recheck", "prepare"} =>
             label = "prepare" \/ Failure \/ prepared[currentBlock[t]] = 1
  PROVE  PoolInv'
  <1>1. coordinator = "join"
    BY AtWork DEF PoolInv
  <1>2. Failure' = Failure /\ Queued' = Queued
    BY DEF Failure, Queued
  <1>3. preparer'[t] = label /\ \A u \in Preparers \ {t} : preparer'[u] = preparer[u]
    BY DEF PoolTypes
  <1>4. \A u \in Preparers, b \in Blocks : Holds(u, b)' => Holds(u, b)
    BY <1>3 DEF Holds
  <1>5. Started' /\ QueuedOnce' /\ Joined'
    BY <1>1, <1>2, <1>3 DEF PoolInv, Started, QueuedOnce, Joined, PoolTypes
  <1>6. InOnePlace'
    BY <1>2, <1>4 DEF PoolInv, InOnePlace
  <1>7. WokenByFailure'
    BY <1>2, <1>3 DEF PoolInv, WokenByFailure, PoolTypes
  <1>8. InSomePlace'
    <2> SUFFICES ASSUME ~Failure, NEW b \in Blocks
                 PROVE  \/ b \in Queued
                        \/ \E u \in Preparers : Holds(u, b)'
                        \/ prepared[b] = 1
      BY <1>2 DEF InSomePlace
    <2>1. \A u \in Preparers : Holds(u, b) => Holds(u, b)' \/ prepared[b] = 1
      BY <1>3 DEF Holds
    <2> QED
      BY <1>1, <2>1 DEF PoolInv, InSomePlace
  <1>9. QueueEmptied'
    BY <1>2, <1>3 DEF PoolInv, QueueEmptied
  <1> QED
    BY <1>5, <1>6, <1>7, <1>8, <1>9 DEF PoolInv

(* The first in the queue is taken off it.                                 *)
LEMMA QueueTail ==
  ASSUME PoolTypes, the_queue # <<>>, the_queue' = Tail(the_queue)
  PROVE  /\ Len(the_queue') = Len(the_queue) - 1
         /\ \A i \in DOMAIN the_queue' :
               i + 1 \in DOMAIN the_queue /\ the_queue'[i] = the_queue[i + 1]
         /\ Head(the_queue) = the_queue[1] /\ 1 \in DOMAIN the_queue
         /\ Queued' \subseteq Queued
         /\ Queued \subseteq Queued' \cup {Head(the_queue)}
  <1>1. the_queue \in Seq(Blocks \cup {WakeUp})
    BY DEF PoolTypes, QueueTypeOK
  <1>2. /\ Len(the_queue') = Len(the_queue) - 1
        /\ \A i \in DOMAIN the_queue' :
              i + 1 \in DOMAIN the_queue /\ the_queue'[i] = the_queue[i + 1]
        /\ Head(the_queue) = the_queue[1] /\ 1 \in DOMAIN the_queue
    BY <1>1
  <1>3. Queued' \subseteq Queued
    BY <1>2 DEF Queued
  <1>4. Queued \subseteq Queued' \cup {Head(the_queue)}
    <2> SUFFICES ASSUME NEW i \in DOMAIN the_queue, i # 1
                 PROVE  the_queue[i] \in Queued'
      BY <1>2 DEF Queued
    <2>1. i - 1 \in DOMAIN the_queue' /\ (i - 1) + 1 = i
      BY <1>1, <1>2
    <2> QED
      BY <1>2, <2>1 DEF Queued
  <1> QED
    BY <1>2, <1>3, <1>4

(* A block goes from the queue into the hands of a thread.                 *)
LEMMA TakeStep ==
  ASSUME PoolTypes, PoolInv, NEW t \in Preparers, preparer[t] = "pop",
         NEW value \in Blocks \cup {WakeUp}, front_and_pop(value),
         currentBlock' = [currentBlock EXCEPT ![t] = value],
         Goto(t, AfterPop),
         UNCHANGED <<coordinator, prepErrors, prepError, prepared, main>>
  PROVE  PoolInv'
  <1>1. coordinator = "join"
    BY AtWork DEF PoolInv
  <1>2. Failure' = Failure
    BY DEF Failure
  <1>3. the_queue # <<>> /\ the_queue' = Tail(the_queue) /\ value = Head(the_queue)
    BY DEF front_and_pop, is_empty
  <1>4. /\ preparer'[t] = "recheck" /\ currentBlock'[t] = value
        /\ \A u \in Preparers \ {t} :
              preparer'[u] = preparer[u] /\ currentBlock'[u] = currentBlock[u]
    BY DEF Goto, AfterPop, PoolTypes
  <1>5. value \in Queued /\ value \notin Queued' \cap Blocks
    <2>1. value \in Queued
      BY <1>3, QueueTail DEF Queued
    <2>2. \A i \in DOMAIN the_queue' : the_queue'[i] = value => value \notin Blocks
      <3> SUFFICES ASSUME NEW i \in DOMAIN the_queue', the_queue'[i] = value, value \in Blocks
                   PROVE  FALSE
        OBVIOUS
      <3>1. the_queue[i + 1] = the_queue[1] /\ i + 1 \in DOMAIN the_queue /\ 1 \in DOMAIN the_queue
        BY <1>3, QueueTail
      <3>2. i + 1 = 1
        BY <1>3, <3>1, QueueTail DEF PoolInv, QueuedOnce
      <3>3. i \in 1 .. Len(the_queue')
        BY <1>3 DEF PoolTypes, QueueTypeOK
      <3> QED
        BY <3>2, <3>3
    <2> QED
      BY <2>1, <2>2 DEF Queued
  <1>6. \A u \in Preparers, b \in Blocks :
          Holds(u, b)' <=> IF u = t THEN b = value ELSE Holds(u, b)
    BY <1>4 DEF Holds
  <1>7. \A b \in Blocks : ~Holds(t, b)
    BY DEF Holds
  <1>8. Started' /\ Joined'
    BY <1>1, <1>2, <1>4 DEF PoolInv, Started, Joined
  <1>9. QueuedOnce'
    <2> SUFFICES ASSUME NEW i \in DOMAIN the_queue', NEW j \in DOMAIN the_queue',
                        the_queue'[i] = the_queue'[j], the_queue'[i] \in Blocks
                 PROVE  i = j
      BY DEF QueuedOnce
    <2>1. i + 1 = j + 1
      BY <1>3, QueueTail DEF PoolInv, QueuedOnce
    <2>2. i \in Int /\ j \in Int
      BY <1>3 DEF PoolTypes, QueueTypeOK
    <2> QED
      BY <2>1, <2>2
  <1>10. InOnePlace'
    <2> SUFFICES ASSUME NEW b \in Blocks
                 PROVE  /\ prepared[b] \in {0, 1}
                        /\ b \in Queued' => prepared[b] = 0 /\ \A u \in Preparers : ~Holds(u, b)'
                        /\ \A u, v \in Preparers :
                              Holds(u, b)' => prepared[b] = 0 /\ (Holds(v, b)' => u = v)
      BY DEF InOnePlace
    <2>1. b \in Queued' => b \in Queued /\ b # value
      BY <1>3, <1>5, QueueTail
    <2>2. /\ prepared[b] \in {0, 1}
          /\ b \in Queued => prepared[b] = 0 /\ \A u \in Preparers : ~Holds(u, b)
          /\ \A u, v \in Preparers :
                Holds(u, b) => prepared[b] = 0 /\ (Holds(v, b) => u = v)
      BY DEF PoolInv, InOnePlace
    <2> QED
      BY <1>5, <1>6, <2>1, <2>2
  <1>11. WokenByFailure'
    BY <1>2, <1>3, <1>4, <1>5, QueueTail DEF PoolInv, WokenByFailure
  <1>12. InSomePlace'
    <2> SUFFICES ASSUME ~Failure, NEW b \in Blocks
                 PROVE  \/ b \in Queued'
                        \/ \E u \in Preparers : Holds(u, b)'
                        \/ prepared[b] = 1
      BY <1>2 DEF InSomePlace
    <2>1. \/ b \in Queued
          \/ \E u \in Preparers : Holds(u, b)
          \/ prepared[b] = 1
      BY <1>1 DEF PoolInv, InSomePlace
    <2>2. b \in Queued => b \in Queued' \/ b = value
      BY <1>3, QueueTail
    <2> QED
      BY <1>6, <1>7, <2>1, <2>2
  <1>13. QueueEmptied'
    BY <1>2, <1>3, <1>4 DEF PoolInv, QueueEmptied
  <1> QED
    BY <1>8, <1>9, <1>10, <1>11, <1>12, <1>13 DEF PoolInv

(* After a failure a value that is no block is queued, and the thread      *)
(* returns.                                                                *)
LEMMA WakeStep ==
  ASSUME PoolTypes, PoolInv, NEW t \in Preparers, PushWakeUp(t), UNCHANGED main
  PROVE  PoolInv'
  <1> USE DEF PushWakeUp, Goto, push_and_notify
  <1>1. coordinator = "join" /\ Failure /\ Failure' = Failure
    BY AtWork DEF PoolInv, WokenByFailure, Failure
  <1>2. /\ preparer'[t] = "done"
        /\ \A u \in Preparers \ {t} : preparer'[u] = preparer[u]
    BY DEF PoolTypes
  <1>3. \A u \in Preparers, b \in Blocks : Holds(u, b)' => Holds(u, b)
    BY <1>2 DEF Holds
  <1>4. /\ the_queue \in Seq(Blocks \cup {WakeUp})
        /\ \A i \in DOMAIN the_queue' :
              \/ i \in DOMAIN the_queue /\ the_queue'[i] = the_queue[i]
              \/ the_queue'[i] = WakeUp
    BY DEF PoolTypes, QueueTypeOK
  <1>5. \A b \in Blocks : b \in Queued' => b \in Queued
    BY <1>4, WakeUpAssumption DEF Queued
  <1>6. Started' /\ Joined'
    BY <1>1, <1>2 DEF PoolInv, Started, Joined, Failure
  <1>7. QueuedOnce'
    BY <1>4, WakeUpAssumption DEF PoolInv, QueuedOnce
  <1>8. InOnePlace'
    BY <1>3, <1>5 DEF PoolInv, InOnePlace
  <1>9. WokenByFailure'
    BY <1>1, <1>2 DEF PoolInv, WokenByFailure
  <1>10. InSomePlace' /\ QueueEmptied'
    BY <1>1 DEF InSomePlace, QueueEmptied
  <1> QED
    BY <1>6, <1>7, <1>8, <1>9, <1>10 DEF PoolInv

(* A thread prepares its block, or fails to.                               *)
LEMMA PrepareStep ==
  ASSUME PoolTypes, PoolInv, NEW t \in Preparers, PrepareBlock(t), UNCHANGED main
  PROVE  PoolInv'
  <1> DEFINE c == currentBlock[t]
  <1>1. coordinator = "join" /\ preparer[t] = "prepare" /\ c \in Blocks
    BY AtWork DEF PoolInv, PrepareBlock, WokenByFailure
  <1>2. Queued' = Queued /\ UNCHANGED <<coordinator, currentBlock, the_queue>>
    BY DEF PrepareBlock, queueVars, Queued
  <1>3. \A u \in Preparers \ {t} : preparer'[u] = preparer[u]
    BY DEF PrepareBlock, Goto, PoolTypes
  <1>4. preparer'[t] \in {"last", "done"}
    BY DEF PrepareBlock, Goto, PoolTypes
  <1>5. \A u \in Preparers, b \in Blocks : Holds(u, b)' <=> u # t /\ Holds(u, b)
    BY <1>2, <1>3, <1>4 DEF Holds
  <1>6. /\ prepared[c] = 0 /\ c \notin Queued
        /\ \A u \in Preparers : Holds(u, c) => u = t
    BY <1>1 DEF PoolInv, InOnePlace, Holds
  <1>7. Started' /\ Joined'
    BY <1>1, <1>2, <1>3, <1>4 DEF PoolInv, Started, Joined, PrepareBlock
  <1>8. QueuedOnce'
    BY <1>2 DEF PoolInv, QueuedOnce
  <1>9. CASE prepared' = [prepared EXCEPT ![c] = @ + 1] /\ preparer'[t] = "last"
                /\ UNCHANGED prepErrors
    <2>1. Failure' = Failure
      BY <1>9 DEF Failure
    <2>2. /\ prepared'[c] = 1
          /\ \A b \in Blocks \ {c} : prepared'[b] = prepared[b]
      BY <1>1, <1>6, <1>9 DEF PoolTypes
    <2>3. InOnePlace'
      <3> SUFFICES ASSUME NEW b \in Blocks
                   PROVE  /\ prepared'[b] \in {0, 1}
                          /\ b \in Queued =>
                                prepared'[b] = 0 /\ \A u \in Preparers : ~Holds(u, b)'
                          /\ \A u, v \in Preparers :
                                Holds(u, b)' => prepared'[b] = 0 /\ (Holds(v, b)' => u = v)
        BY <1>2 DEF InOnePlace
      <3>1. CASE b = c
        BY <3>1, <1>5, <1>6, <2>2
      <3>2. CASE b # c
        BY <3>2, <1>5, <2>2 DEF PoolInv, InOnePlace
      <3> QED
        BY <3>1, <3>2
    <2>4. WokenByFailure'
      BY <1>2, <1>3, <1>9, <2>1 DEF PoolInv, WokenByFailure
    <2>5. InSomePlace'
      <3> SUFFICES ASSUME ~Failure, NEW b \in Blocks
                   PROVE  \/ b \in Queued
                          \/ \E u \in Preparers : Holds(u, b)'
                          \/ prepared'[b] = 1
        BY <1>2, <2>1 DEF InSomePlace
      <3>1. \/ b \in Queued
            \/ \E u \in Preparers : Holds(u, b)
            \/ prepared[b] = 1
        BY <1>1 DEF PoolInv, InSomePlace
      <3>2. Holds(t, b) => b = c
        BY DEF Holds
      <3> QED
        BY <1>5, <2>2, <3>1, <3>2
    <2>6. QueueEmptied'
      BY <1>2, <1>3, <1>9, <2>1 DEF PoolInv, QueueEmptied
    <2> QED
      BY <1>7, <1>8, <2>3, <2>4, <2>5, <2>6 DEF PoolInv
  <1>10. CASE prepErrors' = [prepErrors EXCEPT ![t] = TRUE] /\ preparer'[t] = "done"
                 /\ UNCHANGED prepared
    <2>1. Failure'
      BY <1>10 DEF Failure, PoolTypes
    <2>2. InOnePlace'
      BY <1>2, <1>5, <1>10 DEF PoolInv, InOnePlace
    <2>3. WokenByFailure'
      BY <1>2, <1>3, <1>10, <2>1 DEF PoolInv, WokenByFailure
    <2> QED
      BY <1>7, <1>8, <2>1, <2>2, <2>3 DEF PoolInv, InSomePlace, QueueEmptied
  <1> QED
    BY <1>9, <1>10 DEF PrepareBlock, Goto, PoolTypes

(* The pool is correct after every step of one of its threads.             *)
LEMMA PreparerStep ==
  ASSUME PoolTypes, PoolInv, NEW t \in Preparers, Preparer(t), UNCHANGED main
  PROVE  PoolInv'
  <1> USE DEF Goto, queueVars, PreparerLabels
  <1>1. CASE TestExhausted(t)
    <2> DEFINE label == IF more_blocks_coming THEN "errors" ELSE "empty"
    <2>1. /\ label \in {"errors", "empty"} /\ preparer[t] = "top"
          /\ preparer' = [preparer EXCEPT ![t] = label]
          /\ UNCHANGED <<coordinator, currentBlock, prepErrors, prepError,
                         prepared, the_queue, main>>
      BY <1>1 DEF TestExhausted
    <2> HIDE DEF label
    <2> QED
      BY <2>1, RelabelStep
  <1>2. CASE TestEmpty(t)
    <2> DEFINE label == IF is_empty THEN "done" ELSE "errors"
    <2>1. /\ label \in {"errors", "done"} /\ preparer[t] = "empty"
          /\ label = "done" => the_queue = <<>>
          /\ preparer' = [preparer EXCEPT ![t] = label]
          /\ UNCHANGED <<coordinator, currentBlock, prepErrors, prepError,
                         prepared, the_queue, main>>
      BY <1>2 DEF TestEmpty, is_empty
    <2> HIDE DEF label
    <2> QED
      BY <2>1, RelabelStep
  <1>3. CASE TestErrors(t)
    <2> DEFINE label == IF Failure THEN "wake"
                        ELSE IF preparer[t] = "errors" THEN "pop" ELSE "prepare"
    <2>1. /\ label \in {"wake", "pop", "prepare"} /\ preparer[t] \in {"errors", "recheck"}
          /\ label = "wake" => Failure
          /\ label = "prepare" => preparer[t] = "recheck" /\ ~Failure
          /\ preparer[t] = "recheck" => label = "prepare" \/ Failure
          /\ preparer' = [preparer EXCEPT ![t] = label]
          /\ UNCHANGED <<coordinator, currentBlock, prepErrors, prepError,
                         prepared, the_queue, main>>
      BY <1>3 DEF TestErrors, Failure
    <2> HIDE DEF label
    <2> QED
      BY <2>1, RelabelStep
  <1>4. CASE TestWakeUp(t)
    <2> DEFINE label == IF is_empty THEN "push" ELSE "done"
    <2>1. /\ label \in {"push", "done"} /\ preparer[t] = "wake" /\ Failure
          /\ preparer' = [preparer EXCEPT ![t] = label]
          /\ UNCHANGED <<coordinator, currentBlock, prepErrors, prepError,
                         prepared, the_queue, main>>
      BY <1>4 DEF TestWakeUp, PoolInv, WokenByFailure
    <2> HIDE DEF label
    <2> QED
      BY <2>1, RelabelStep
  <1>5. CASE PushWakeUp(t)
    BY <1>5, WakeStep
  <1>6. CASE Pop(t)
    <2>1. CASE \E value \in Blocks \cup {WakeUp} :
                  /\ front_and_pop(value)
                  /\ currentBlock' = [currentBlock EXCEPT ![t] = value]
                  /\ Goto(t, AfterPop)
      BY <1>6, <2>1, TakeStep DEF Pop
    <2>2. CASE Goto(t, "top") /\ UNCHANGED <<currentBlock, queueVars>>
      <3>1. /\ preparer[t] = "pop" /\ preparer' = [preparer EXCEPT ![t] = "top"]
            /\ UNCHANGED <<coordinator, currentBlock, prepErrors, prepError,
                           prepared, the_queue, main>>
        BY <1>6, <2>2 DEF Pop
      <3> QED
        BY <3>1, RelabelStep
    <2> QED
      BY <1>6, <2>1, <2>2 DEF Pop
  <1>7. CASE PrepareBlock(t)
    BY <1>7, PrepareStep
  <1>8. CASE TestLast(t)
    <2> DEFINE label == IF is_empty THEN "exhaust" ELSE "top"
    <2>1. /\ label \in {"exhaust", "top"} /\ preparer[t] = "last"
          /\ preparer' = [preparer EXCEPT ![t] = label]
          /\ UNCHANGED <<coordinator, currentBlock, prepErrors, prepError,
                         prepared, the_queue, main>>
      BY <1>8 DEF TestLast
    <2> HIDE DEF label
    <2> QED
      BY <2>1, RelabelStep
  <1>9. CASE ExhaustQueue(t)
    <2>1. /\ preparer[t] = "exhaust" /\ preparer' = [preparer EXCEPT ![t] = "top"]
          /\ UNCHANGED <<coordinator, currentBlock, prepErrors, prepError,
                         prepared, the_queue, main>>
      BY <1>9 DEF ExhaustQueue, queue_exhausted
    <2> QED
      BY <2>1, RelabelStep
  <1> QED
    BY <1>1, <1>2, <1>3, <1>4, <1>5, <1>6, <1>7, <1>8, <1>9 DEF Preparer

(* The coordinator fills the queue and starts the threads, and joins them. *)
LEMMA CoordinatorStep ==
  ASSUME PoolTypes, PoolInv, Coordinator, UNCHANGED main
  PROVE  PoolInv'
  <1>1. CASE StartPreparers
    <2> USE <1>1 DEF StartPreparers, push_data
    <2>1. /\ coordinator = "start" /\ coordinator' = "join" /\ the_queue = <<>>
          /\ ~Failure /\ prepared = [b \in Blocks |-> 0]
          /\ preparer' = [t \in Preparers |-> "top"]
      BY DEF PoolInv, Started
    <2>2. the_queue' = AllBlocks
      BY <2>1, BlockCountAssumption DEF AllBlocks
    <2>3. \A b \in Blocks : b \in Queued'
      <3> SUFFICES ASSUME NEW b \in Blocks
                   PROVE  \E i \in DOMAIN AllBlocks : AllBlocks[i] = b
        BY <2>2 DEF Queued
      <3>1. b + 1 \in DOMAIN AllBlocks /\ AllBlocks[b + 1] = b
        BY BlockCountAssumption DEF AllBlocks, Blocks
      <3> QED
        BY <3>1
    <2>4. WakeUp \notin Queued' /\ Failure' = Failure
      BY <2>2, BlockCountAssumption, WakeUpAssumption DEF Queued, AllBlocks, Blocks, Failure
    <2>5. Started' /\ Joined'
      BY <2>1 DEF PoolInv, Started, Joined
    <2>6. QueuedOnce'
      BY <2>2, BlockCountAssumption DEF QueuedOnce, AllBlocks
    <2>7. InOnePlace'
      BY <2>1 DEF InOnePlace, Holds
    <2>8. WokenByFailure' /\ InSomePlace' /\ QueueEmptied'
      BY <2>1, <2>3, <2>4 DEF WokenByFailure, InSomePlace, QueueEmptied
    <2> QED
      BY <2>5, <2>6, <2>7, <2>8 DEF PoolInv
  <1>2. CASE JoinPreparers
    <2> USE <1>2 DEF JoinPreparers, queueVars
    <2>1. Started' /\ Joined'
      BY DEF PoolInv, Started, Joined, PreparersDone, Failure, PoolTypes
    <2>2. QueuedOnce' /\ InOnePlace'
      BY DEF PoolInv, QueuedOnce, InOnePlace, Holds, Queued
    <2>3. WokenByFailure' /\ InSomePlace' /\ QueueEmptied'
      BY DEF PoolInv, WokenByFailure, InSomePlace, QueueEmptied, Holds, Queued, Failure
    <2> QED
      BY <2>1, <2>2, <2>3 DEF PoolInv
  <1> QED
    BY <1>1, <1>2 DEF Coordinator

LEMMA PoolTypesStep ==
  ASSUME PoolTypes, Coordinator \/ \E t \in Preparers : Preparer(t)
  PROVE  PoolTypes'
  <1> USE DEF PoolTypes, QueueTypeOK, PreparerLabels, Goto, queueVars
  <1>1. CASE StartPreparers
    <2>1. AllBlocks \in Seq(Blocks \cup {WakeUp})
      BY BlockCountAssumption DEF AllBlocks, Blocks
    <2> QED
      BY <1>1, <2>1 DEF StartPreparers, push_data
  <1>2. CASE JoinPreparers
    BY <1>2 DEF JoinPreparers
  <1>3. ASSUME NEW t \in Preparers, Preparer(t)
        PROVE  PoolTypes'
    <2>1. CASE \/ TestExhausted(t) \/ TestEmpty(t) \/ TestErrors(t)
               \/ TestWakeUp(t) \/ TestLast(t) \/ ExhaustQueue(t)
      BY <2>1 DEF TestExhausted, TestEmpty, TestErrors, TestWakeUp, TestLast,
                  ExhaustQueue, queue_exhausted
    <2>2. CASE PushWakeUp(t)
      BY <2>2 DEF PushWakeUp, push_and_notify
    <2>3. CASE Pop(t)
      <3>1. ASSUME NEW value \in Blocks \cup {WakeUp}, front_and_pop(value)
            PROVE  QueueTypeOK(Blocks \cup {WakeUp}, {})'
        BY <3>1 DEF front_and_pop, is_empty
      <3>2. QueueTypeOK(Blocks \cup {WakeUp}, {})'
        BY <2>3, <3>1 DEF Pop
      <3> QED
        BY <2>3, <3>2 DEF Pop, AfterPop
    <2>4. CASE PrepareBlock(t)
      <3>1. QueueTypeOK(Blocks \cup {WakeUp}, {})'
        BY <2>4 DEF PrepareBlock
      <3>2. prepared' \in [Blocks -> Nat]
        BY <2>4 DEF PrepareBlock
      <3> QED
        BY <2>4, <3>1, <3>2 DEF PrepareBlock
    <2> QED
      BY <1>3, <2>1, <2>2, <2>3, <2>4 DEF Preparer
  <1> QED
    BY <1>1, <1>2, <1>3 DEF Coordinator

(* The first in the queue of iterations is taken off it.                   *)
LEMMA IterationQueueTail ==
  ASSUME TypeOK, NEW i \in 1 .. MaxIterations, PopIteration(i)
  PROVE  /\ iterationQueue' \in Seq(1 .. MaxIterations)
         /\ Len(iterationQueue) = Len(iterationQueue') + 1
         /\ i = iterationQueue[1]
         /\ \A k \in 1 .. Len(iterationQueue') :
               iterationQueue'[k] = iterationQueue[k + 1]
  BY DEF TypeOK, PopIteration

(* What is shown has one more line, which tells the correction of its      *)
(* iteration if there is a message for it.                                 *)
LEMMA ShownStep ==
  ASSUME TypeOK, InOrder, NEW i \in 1 .. MaxIterations, Show(i)
  PROVE  /\ shown' \in Seq([iteration : 1 .. MaxIterations,
                            message : 0 .. MaxIterations])
         /\ Len(shown') = Len(shown) + 1
         /\ \A k \in 1 .. Len(shown) : shown'[k] = shown[k]
         /\ i <= Len(bank) =>
               shown'[Len(shown) + 1] = [iteration |-> i, message |-> i]
  <1> DEFINE line == [iteration |-> i, message |-> GetMaxCorrection(i)]
  <1>1. GetMaxCorrection(i) \in 0 .. MaxIterations
    BY MaxIterationsAssumption DEF TypeOK, GetMaxCorrection, MessageAt, NoMessage
  <1>2. i <= Len(bank) => GetMaxCorrection(i) = i
    BY DEF TypeOK, InOrder, GetMaxCorrection, MessageAt
  <1>3. /\ line \in [iteration : 1 .. MaxIterations, message : 0 .. MaxIterations]
        /\ i <= Len(bank) => line = [iteration |-> i, message |-> i]
    BY <1>1, <1>2
  <1>4. shown' = Append(shown, line)
    BY DEF Show
  <1> HIDE DEF line
  <1> QED
    BY <1>3, <1>4 DEF TypeOK

-----------------------------------------------------------------------------
(* Types. *)

LEMMA TypeStep ==
  ASSUME TypeOK, MessageInv, [Next]_vars
  PROVE  TypeOK'
  <1> USE MaxIterationsAssumption
      DEF TypeOK, Preparing, Iterating, Reporting, Failing, Ending, Ended,
          Statuses, Assignments, flagVars, messageVars, resultVars, FlagsCleared
  <1>1. UNCHANGED poolVars => PoolTypes'
    BY DEF poolVars, queueVars, PoolTypes, QueueTypeOK
  <1>a. Throws => main' \in Failing /\ unset' \subseteq Assignments
    BY DEF Throws
  <1>2. CASE \E assignment \in Assignments : Store(assignment)
    BY <1>1, <1>2 DEF Store
  <1>3. CASE Caught
    BY <1>1, <1>3 DEF Caught
  <1>4. CASE BeginPreparation
    BY <1>1, <1>4 DEF BeginPreparation
  <1>5. CASE LoadNetworkFiles
    <2>1. PoolTypes'
      BY <1>5 DEF LoadNetworkFiles, reset_blocks_coming, queueVars, PoolTypes, QueueTypeOK
    <2>2. main' \in Preparing \cup Failing /\ unset' \subseteq Assignments
      BY <1>5, <1>a DEF LoadNetworkFiles
    <2>3. UNCHANGED <<progress, threw, popped, flagVars, messageVars, resultVars>>
      BY <1>5 DEF LoadNetworkFiles
    <2> QED
      BY <2>1, <2>2, <2>3
  <1>6. CASE JoinCoordinator
    <2>1. main' \in Iterating \cup Preparing \cup Failing /\ unset' \subseteq Assignments
      BY <1>6, <1>a DEF JoinCoordinator
    <2>2. UNCHANGED <<progress, threw, popped, flagVars, messageVars, resultVars, poolVars>>
      BY <1>6 DEF JoinCoordinator
    <2> QED
      BY <1>1, <2>1, <2>2
  <1>7. CASE EndPreparation
    BY <1>1, <1>7 DEF EndPreparation
  <1>8. CASE AssignMatrices
    <2>1. main' \in Iterating \cup Preparing \cup Failing /\ unset' \subseteq Assignments
      BY <1>8, <1>a DEF AssignMatrices
    <2>2. UNCHANGED <<progress, threw, popped, flagVars, messageVars, resultVars, poolVars>>
      BY <1>8 DEF AssignMatrices
    <2> QED
      BY <1>1, <2>1, <2>2
  <1>9. CASE Commence
    BY <1>1, <1>9 DEF Commence
  <1>10. CASE Iterate
    BY <1>1, <1>10 DEF Iterate
  <1>11. CASE Solve
    <2>1. /\ main' \in Iterating \cup Reporting \cup Failing
          /\ unset' \subseteq Assignments /\ exceeds' \in BOOLEAN
      BY <1>11, <1>a DEF Solve
    <2>2. UNCHANGED <<progress, threw, popped, flagVars, messageVars, iteration,
                     cancelled, poolVars>>
      BY <1>11 DEF Solve
    <2> QED
      BY <1>1, <2>1, <2>2
  <1>12. CASE AddMessage
    <2>1. iteration \in 1 .. MaxIterations
      BY <1>12 DEF AddMessage, MessageInv, InStep
    <2> QED
      BY <1>1, <1>12, <2>1 DEF AddMessage
  <1>13. CASE QueueIteration
    <2>1. iteration \in 1 .. MaxIterations
      BY <1>13 DEF QueueIteration, MessageInv, InStep
    <2> QED
      BY <1>1, <1>13, <2>1 DEF QueueIteration, PushIteration
  <1>14. CASE TestConvergence
    BY <1>1, <1>14 DEF TestConvergence
  <1>15. CASE BeginUpdate
    BY <1>1, <1>15 DEF BeginUpdate
  <1>16. CASE EndUpdate
    <2>1. /\ main' \in Iterating \cup Failing
          /\ unset' \subseteq Assignments /\ isPreparing' \in BOOLEAN
      BY <1>16, <1>a DEF EndUpdate
    <2>2. UNCHANGED <<progress, threw, popped, running, isAdjusting,
                     adjustStatus, messageVars, resultVars, poolVars>>
      BY <1>16 DEF EndUpdate
    <2> QED
      BY <1>1, <2>1, <2>2
  <1>17. CASE StopAdjusting
    BY <1>1, <1>17 DEF StopAdjusting
  <1>18. CASE Validate
    BY <1>1, <1>18 DEF Validate
  <1>19. CASE EndAdjustment
    BY <1>1, <1>19 DEF EndAdjustment
  <1>20. CASE JoinProgress
    BY <1>1, <1>20 DEF JoinProgress
  <1>21. CASE WriteResults
    BY <1>1, <1>21 DEF WriteResults
  <1>22. CASE PrintSummaryMessage
    <2>1. ASSUME NEW i \in 1 .. MaxIterations, PopIteration(i), Show(i)
          PROVE  iterationQueue' \in Seq(1 .. MaxIterations)
                 /\ shown' \in Seq([iteration : 1 .. MaxIterations,
                                    message : 0 .. MaxIterations])
      BY <2>1, IterationQueueTail, ShownStep DEF MessageInv
    <2>2. /\ main' \in Ending \cup Ended
          /\ iterationQueue' \in Seq(1 .. MaxIterations)
          /\ shown' \in Seq([iteration : 1 .. MaxIterations,
                             message : 0 .. MaxIterations])
      BY <1>22, <2>1 DEF PrintSummaryMessage
    <2>3. UNCHANGED <<progress, threw, unset, popped, flagVars, bank, resultVars, poolVars>>
      BY <1>22 DEF PrintSummaryMessage
    <2> QED
      BY <1>1, <2>2, <2>3
  <1>23. CASE Progress
    <2>1. CASE Poll
      BY <1>1, <1>23, <2>1 DEF Progress, Poll, StopPreparing, CheckException,
         PollAdjusting, NoMessagesLeft
    <2>2. CASE GetMessageIteration
      <3>1. PICK i \in 1 .. MaxIterations : PopIteration(i) /\ popped' = i
        BY <2>2 DEF GetMessageIteration
      <3>2. iterationQueue' \in Seq(1 .. MaxIterations)
        BY <3>1, IterationQueueTail
      <3> QED
        BY <1>1, <1>23, <2>2, <3>1, <3>2 DEF Progress, GetMessageIteration
    <2>3. CASE ShowMessage
      <3>1. popped \in 1 .. MaxIterations
        BY <2>3 DEF ShowMessage, MessageInv, InOrder
      <3>2. shown' \in Seq([iteration : 1 .. MaxIterations,
                            message : 0 .. MaxIterations])
        BY <2>3, <3>1, ShownStep DEF ShowMessage, MessageInv
      <3> QED
        BY <1>1, <1>23, <2>3, <3>2 DEF Progress, ShowMessage
    <2> QED
      BY <1>23, <2>1, <2>2, <2>3 DEF Progress
  <1>24. CASE Pool
    BY <1>24, PoolTypesStep DEF Pool
  <1>25. CASE CancelAdjustment
    BY <1>1, <1>25 DEF CancelAdjustment
  <1>26. CASE UNCHANGED vars
    BY <1>26 DEF vars, poolVars, queueVars, PoolTypes, QueueTypeOK
  <1> QED
    BY <1>2, <1>3, <1>4, <1>5, <1>6, <1>7, <1>8, <1>9, <1>10, <1>11, <1>12, <1>13,
       <1>14, <1>15, <1>16, <1>17, <1>18, <1>19, <1>20, <1>21, <1>22, <1>23, <1>24,
       <1>25, <1>26 DEF Next, Main, Terminated

-----------------------------------------------------------------------------
(* The pool. *)

LEMMA PoolKept ==
  ASSUME PoolInv, Joined', UNCHANGED poolVars
  PROVE  PoolInv'
  <1>1. /\ UNCHANGED <<coordinator, preparer, currentBlock, prepErrors, prepError,
                        prepared, the_queue>>
        /\ Failure' = Failure /\ Queued' = Queued
    BY DEF poolVars, queueVars, Failure, Queued
  <1>2. \A t \in Preparers, b \in Blocks : Holds(t, b)' = Holds(t, b)
    BY <1>1 DEF Holds
  <1>3. Started' /\ QueuedOnce'
    BY <1>1 DEF PoolInv, Started, QueuedOnce, PreparersDone
  <1>4. InOnePlace' /\ InSomePlace'
    BY <1>1, <1>2 DEF PoolInv, InOnePlace, InSomePlace
  <1>5. WokenByFailure' /\ QueueEmptied'
    BY <1>1 DEF PoolInv, WokenByFailure, QueueEmptied
  <1> QED
    BY <1>3, <1>4, <1>5 DEF PoolInv

LEMMA PoolStep ==
  ASSUME TypeOK, PoolInv, StatusInv, [Next]_vars
  PROVE  PoolInv'
  <1> USE DEF Preparing, Iterating, Reporting, Failing, Ending, Ended, Throws
  <1>1. CASE Pool
    BY <1>1, PreparerStep, CoordinatorStep DEF Pool, TypeOK
  <1>2. CASE LoadNetworkFiles
    <2>1. CASE main' = "pool" /\ coordinator' = "start" /\ reset_blocks_coming
      <3>1. UNCHANGED <<the_queue, preparer, currentBlock, prepErrors, prepError, prepared>>
        BY <1>2, <2>1 DEF LoadNetworkFiles, reset_blocks_coming
      <3>2. coordinator = "idle"
        BY <1>2 DEF LoadNetworkFiles, PoolInv, Joined
      <3>3. Started' /\ Joined'
        BY <2>1, <3>1, <3>2 DEF PoolInv, Started, Joined, Failure
      <3>4. QueuedOnce' /\ InOnePlace' /\ WokenByFailure' /\ QueueEmptied'
        BY <3>1 DEF PoolInv, QueuedOnce, InOnePlace, WokenByFailure, QueueEmptied,
                    Holds, Failure, Queued
      <3>5. InSomePlace'
        BY <2>1 DEF InSomePlace
      <3> QED
        BY <3>3, <3>4, <3>5 DEF PoolInv
    <2>2. CASE Throws /\ UNCHANGED <<coordinator, queueVars>>
      <3>1. UNCHANGED poolVars
        BY <1>2, <2>2 DEF LoadNetworkFiles, poolVars, queueVars
      <3>2. Joined'
        BY <2>2 DEF Joined
      <3> QED
        BY <3>1, <3>2, PoolKept
    <2> QED
      BY <1>2, <2>1, <2>2 DEF LoadNetworkFiles
  <1>3. CASE Main /\ ~LoadNetworkFiles
    <2>1. UNCHANGED poolVars
      BY <1>3 DEF Main, Store, Caught, BeginPreparation, JoinCoordinator,
         EndPreparation, AssignMatrices, Commence, Iterate, Solve, AddMessage,
         QueueIteration, TestConvergence, BeginUpdate, EndUpdate, StopAdjusting,
         Validate, EndAdjustment, JoinProgress, PrintSummaryMessage, WriteResults
    <2>2. UNCHANGED <<coordinator, prepError>>
      BY <2>1 DEF poolVars
    <2>3. Joined'
      <3>1. CASE BeginPreparation \/ JoinCoordinator \/ EndPreparation \/ AssignMatrices
        BY <2>2, <3>1 DEF PoolInv, Joined, BeginPreparation, JoinCoordinator,
                          EndPreparation, AssignMatrices, Started
      <3>2. CASE \/ Commence \/ Iterate \/ Solve \/ AddMessage \/ QueueIteration
                 \/ TestConvergence \/ BeginUpdate \/ EndUpdate
                 \/ StopAdjusting \/ Validate \/ EndAdjustment
        BY <2>2, <3>2 DEF PoolInv, Joined, Commence, Iterate, Solve, AddMessage,
           QueueIteration, TestConvergence, BeginUpdate, EndUpdate, StopAdjusting,
           Validate, EndAdjustment
      <3>3. CASE \/ \E assignment \in Assignments : Store(assignment)
                 \/ Caught \/ JoinProgress \/ PrintSummaryMessage \/ WriteResults
        BY <2>2, <3>3 DEF Joined, Store, Caught, JoinProgress, PrintSummaryMessage,
                          WriteResults
      <3> QED
        BY <1>3, <3>1, <3>2, <3>3 DEF Main
    <2> QED
      BY <2>1, <2>3, PoolKept
  <1>4. CASE Progress \/ CancelAdjustment \/ UNCHANGED vars
    <2>1. UNCHANGED <<main, poolVars>>
      BY <1>4 DEF Progress, CancelAdjustment, vars
    <2>2. Joined'
      BY <2>1 DEF PoolInv, Joined, poolVars
    <2> QED
      BY <2>1, <2>2, PoolKept
  <1> QED
    BY <1>1, <1>2, <1>3, <1>4 DEF Next, Terminated

-----------------------------------------------------------------------------
(* The messages. *)

(* A message is shown: the next in order.                                  *)
LEMMA ShowInOrder ==
  ASSUME TypeOK, InOrder, NEW i \in 1 .. MaxIterations,
         i = Len(shown) + 1, i <= Len(bank), Show(i)
  PROVE  /\ Len(shown') = Len(shown) + 1
         /\ \A k \in 1 .. Len(shown') : shown'[k] = [iteration |-> k, message |-> k]
  <1>1. /\ Len(shown') = Len(shown) + 1
        /\ \A k \in 1 .. Len(shown) : shown'[k] = shown[k]
        /\ shown'[Len(shown) + 1] = [iteration |-> i, message |-> i]
    BY ShownStep
  <1>2. Len(shown) \in Nat
    BY DEF TypeOK
  <1>3. ASSUME NEW k \in 1 .. Len(shown')
        PROVE  shown'[k] = [iteration |-> k, message |-> k]
    <2>1. k \in 1 .. Len(shown) \/ k = Len(shown) + 1
      BY <1>1, <1>2
    <2>2. CASE k \in 1 .. Len(shown)
      BY <1>1, <2>2 DEF InOrder
    <2>3. CASE k = Len(shown) + 1
      BY <1>1, <2>3
    <2> QED
      BY <2>1, <2>2, <2>3
  <1> QED
    BY <1>1, <1>3

(* What the rest of the run does leaves the messages as they are.          *)
LEMMA OrderKept ==
  ASSUME InOrder, UNCHANGED <<iterationQueue, bank, shown>>, iteration' >= iteration,
         progress' = "show" <=> progress = "show", UNCHANGED popped,
         iteration' \in Nat, iteration \in Nat, Len(bank) \in Nat
  PROVE  InOrder'
  <1>1. Pending' = Pending
    BY DEF Pending
  <1> QED
    BY <1>1 DEF InOrder, Told

LEMMA InOrderStep ==
  ASSUME TypeOK, MessageInv, StatusInv, [Next]_vars
  PROVE  InOrder'
  <1>1. /\ iterationQueue \in Seq(1 .. MaxIterations)
        /\ bank \in Seq(1 .. MaxIterations) /\ iteration \in Nat
        /\ Len(shown) \in Nat /\ Len(bank) \in Nat /\ Len(iterationQueue) \in Nat
        /\ Pending \in {0, 1} /\ InOrder
    BY DEF TypeOK, Pending, MessageInv
  <1>2. CASE Commence
    <2>1. /\ bank = <<>> /\ bank' = <<>> /\ iteration = 0 /\ iteration' = 0
          /\ UNCHANGED <<iterationQueue, shown, progress, popped>>
      BY <1>2 DEF Commence, MessageInv, InStep
    <2> QED
      BY <1>1, <2>1, OrderKept
  <1>3. CASE AddMessage
    <2>1. /\ bank' = Append(bank, iteration) /\ Len(bank) = iteration - 1
          /\ UNCHANGED <<iterationQueue, shown, progress, popped, iteration>>
      BY <1>3 DEF AddMessage, MessageInv, InStep, resultVars
    <2>2. Len(bank') = iteration /\ \A k \in 1 .. Len(bank') : bank'[k] = k
      <3>1. /\ Len(bank') = iteration /\ bank'[iteration] = iteration
            /\ \A k \in 1 .. Len(bank) : bank'[k] = bank[k]
        BY <1>1, <2>1, AppendProperties
      <3> QED
        BY <1>1, <2>1, <3>1 DEF InOrder
    <2>3. Pending' = Pending /\ Told' = Told /\ Told \in Nat
      BY <1>1, <2>1 DEF Pending, Told
    <2> QED
      BY <1>1, <2>1, <2>2, <2>3 DEF InOrder
  <1>4. CASE QueueIteration
    <2>1. /\ iterationQueue' = Append(iterationQueue, iteration)
          /\ Len(bank) = iteration /\ Told = iteration - 1 /\ iteration >= 1
          /\ iteration \in 1 .. MaxIterations
          /\ UNCHANGED <<bank, shown, progress, popped, iteration>>
      BY <1>4 DEF QueueIteration, PushIteration, MessageInv, InStep, resultVars, TypeOK
    <2>2. Pending' = Pending /\ Told' = Told + 1
      <3>1. Len(iterationQueue') = Len(iterationQueue) + 1 /\ Pending' = Pending
        BY <1>1, <2>1 DEF Pending
      <3> QED
        BY <1>1, <2>1, <3>1 DEF Told
    <2>3. \A k \in 1 .. Len(iterationQueue') :
             iterationQueue'[k] = Len(shown) + Pending + k
      BY <1>1, <2>1 DEF InOrder, Told
    <2> QED
      BY <1>1, <2>1, <2>2, <2>3 DEF InOrder
  <1>5. CASE PrintSummaryMessage
    <2>1. ASSUME NEW i \in 1 .. MaxIterations, PopIteration(i), Show(i)
          PROVE  InOrder'
      <3>1. /\ UNCHANGED <<bank, progress, popped, iteration>> /\ Pending = 0 /\ Pending' = 0
        BY <1>5 DEF PrintSummaryMessage, resultVars, MessageInv, ProgressJoined, Pending
      <3>2. /\ Len(iterationQueue) = Len(iterationQueue') + 1
            /\ i = iterationQueue[1] /\ Len(iterationQueue') \in Nat
            /\ \A k \in 1 .. Len(iterationQueue') : iterationQueue'[k] = iterationQueue[k + 1]
        BY <2>1, IterationQueueTail
      <3>3. i = Len(shown) + 1 /\ i <= Len(bank)
        BY <1>1, <3>1, <3>2 DEF InOrder, Told
      <3>4. /\ Len(shown') = Len(shown) + 1
            /\ \A k \in 1 .. Len(shown') : shown'[k] = [iteration |-> k, message |-> k]
        BY <1>1, <2>1, <3>3, ShowInOrder
      <3>5. \A k \in 1 .. Len(iterationQueue') : iterationQueue'[k] = Len(shown') + Pending' + k
        BY <1>1, <3>1, <3>2, <3>4 DEF InOrder
      <3>6. Told' = Told
        BY <1>1, <3>1, <3>2, <3>4 DEF Told
      <3>7. progress' # "show"
        BY <3>1 DEF Pending
      <3> QED
        BY <1>1, <3>1, <3>4, <3>5, <3>6, <3>7 DEF InOrder
    <2>2. CASE UNCHANGED <<iterationQueue, shown>>
      BY <1>1, <1>5, <2>2, OrderKept DEF PrintSummaryMessage, resultVars
    <2> QED
      BY <1>5, <2>1, <2>2 DEF PrintSummaryMessage
  <1>6. CASE GetMessageIteration /\ UNCHANGED resultVars
    <2>1. PICK i \in 1 .. MaxIterations : PopIteration(i) /\ popped' = i
      BY <1>6 DEF GetMessageIteration
    <2>2. /\ UNCHANGED <<bank, shown, iteration>> /\ progress' = "show"
          /\ Pending = 0 /\ Pending' = 1
      BY <1>6 DEF GetMessageIteration, resultVars, Pending
    <2>3. /\ Len(iterationQueue) = Len(iterationQueue') + 1
          /\ i = iterationQueue[1] /\ Len(iterationQueue') \in Nat
          /\ \A k \in 1 .. Len(iterationQueue') : iterationQueue'[k] = iterationQueue[k + 1]
      BY <2>1, IterationQueueTail
    <2>4. i = Len(shown) + 1
      BY <1>1, <2>2, <2>3 DEF InOrder
    <2>5. Told' = Told
      BY <1>1, <2>2, <2>3 DEF Told
    <2>6. \A k \in 1 .. Len(iterationQueue') : iterationQueue'[k] = Len(shown') + Pending' + k
      BY <1>1, <2>2, <2>3 DEF InOrder
    <2> QED
      BY <1>1, <2>1, <2>2, <2>4, <2>5, <2>6 DEF InOrder
  <1>7. CASE ShowMessage /\ UNCHANGED resultVars
    <2>1. /\ UNCHANGED <<bank, iterationQueue, popped, iteration>> /\ progress' = "messages"
          /\ Pending = 1 /\ Pending' = 0 /\ popped = Len(shown) + 1
      BY <1>7 DEF ShowMessage, resultVars, Pending, MessageInv, InOrder
    <2>2. popped <= Len(bank) /\ popped \in 1 .. MaxIterations
      BY <1>1, <2>1 DEF InOrder, Told, TypeOK
    <2>3. /\ Len(shown') = Len(shown) + 1
          /\ \A k \in 1 .. Len(shown') : shown'[k] = [iteration |-> k, message |-> k]
      BY <1>1, <1>7, <2>1, <2>2, ShowInOrder DEF ShowMessage
    <2>4. Told' = Told
      BY <1>1, <2>1, <2>3 DEF Told
    <2>5. Len(shown') + Pending' = Len(shown) + Pending
      BY <1>1, <2>1, <2>3
    <2> QED
      BY <1>1, <2>1, <2>3, <2>4, <2>5 DEF InOrder
  <1>8. CASE Iterate
    <2>1. /\ iteration' \in Nat /\ iteration' >= iteration
          /\ UNCHANGED <<messageVars, progress, popped>>
      BY <1>1, <1>8 DEF Iterate
    <2> QED
      BY <1>1, <2>1, OrderKept DEF messageVars
  <1>9. ASSUME UNCHANGED <<messageVars, popped, iteration>>,
               progress' = "show" <=> progress = "show"
        PROVE  InOrder'
    BY <1>1, <1>9, OrderKept DEF messageVars
  <1> HIDE DEF MessageInv
  <1>10. CASE Main
    <2>1. CASE \/ \E assignment \in Assignments : Store(assignment)
               \/ Caught \/ BeginPreparation \/ LoadNetworkFiles \/ JoinCoordinator
               \/ EndPreparation \/ AssignMatrices
      BY <1>9, <2>1 DEF Store, Caught, BeginPreparation, LoadNetworkFiles, JoinCoordinator,
         EndPreparation, AssignMatrices, resultVars
    <2>2. CASE \/ Solve \/ TestConvergence \/ BeginUpdate \/ EndUpdate
               \/ StopAdjusting \/ Validate \/ EndAdjustment
               \/ JoinProgress \/ WriteResults
      BY <1>9, <2>2 DEF Solve, TestConvergence, BeginUpdate, EndUpdate, StopAdjusting,
         Validate, EndAdjustment, JoinProgress, WriteResults, resultVars
    <2> QED
      BY <1>2, <1>3, <1>4, <1>5, <1>8, <1>10, <2>1, <2>2 DEF Main
  <1>11. CASE Progress
    <2>1. CASE Poll
      <3>1. /\ UNCHANGED <<messageVars, popped, iteration>>
            /\ progress # "show" /\ progress' # "show"
        BY <1>11, <2>1 DEF Progress, Poll, StopPreparing, CheckException,
                           PollAdjusting, NoMessagesLeft, resultVars
      <3> QED
        BY <1>9, <3>1
    <2> QED
      BY <1>6, <1>7, <1>11, <2>1 DEF Progress
  <1>12. CASE Pool \/ CancelAdjustment \/ UNCHANGED vars
    BY <1>9, <1>12 DEF Pool, CancelAdjustment, vars, resultVars
  <1> QED
    BY <1>10, <1>11, <1>12 DEF Next, Terminated

(* Only the end of an iteration adds to what is told: a message shown has  *)
(* left the queue.                                                         *)
LEMMA ToldStep ==
  ASSUME TypeOK, MessageInv, [Next]_vars
  PROVE  Told' = IF QueueIteration THEN Told + 1 ELSE Told
  <1>1. /\ iterationQueue \in Seq(1 .. MaxIterations)
        /\ Len(shown) \in Nat /\ Len(iterationQueue) \in Nat /\ Pending \in {0, 1}
        /\ InOrder
    BY DEF TypeOK, Pending, MessageInv
  <1>2. CASE QueueIteration
    <2>1. /\ iterationQueue' = Append(iterationQueue, iteration)
          /\ iteration \in 1 .. MaxIterations /\ UNCHANGED <<shown, progress>>
      BY <1>2 DEF QueueIteration, PushIteration, TypeOK, MessageInv, InStep
    <2>2. Len(iterationQueue') = Len(iterationQueue) + 1 /\ Pending' = Pending
      BY <1>1, <2>1 DEF Pending
    <2> QED
      BY <1>1, <1>2, <2>1, <2>2 DEF Told
  <1>3. ASSUME UNCHANGED <<iterationQueue, shown>>, progress' = "show" <=> progress = "show"
        PROVE  Told' = Told
    BY <1>3 DEF Told, Pending
  <1>4. CASE PrintSummaryMessage
    <2>1. ASSUME NEW i \in 1 .. MaxIterations, PopIteration(i), Show(i)
          PROVE  Told' = Told
      <3>1. Len(iterationQueue) = Len(iterationQueue') + 1 /\ Len(iterationQueue') \in Nat
        BY <2>1, IterationQueueTail
      <3>2. Len(shown') = Len(shown) + 1
        BY <1>1, <2>1, ShownStep
      <3>3. Pending' = Pending
        BY <1>4 DEF PrintSummaryMessage, Pending
      <3> QED
        BY <1>1, <3>1, <3>2, <3>3 DEF Told
    <2>2. ASSUME UNCHANGED <<iterationQueue, shown>>
          PROVE  Told' = Told
      BY <1>3, <1>4, <2>2 DEF PrintSummaryMessage
    <2>3. ~QueueIteration
      BY <1>4 DEF PrintSummaryMessage, QueueIteration
    <2> QED
      BY <1>4, <2>1, <2>2, <2>3 DEF PrintSummaryMessage
  <1>5. CASE Progress
    <2>1. ASSUME Poll PROVE Told' = Told
      BY <1>3, <2>1 DEF Poll, StopPreparing, CheckException, PollAdjusting,
                        NoMessagesLeft, messageVars
    <2>2. ASSUME GetMessageIteration PROVE Told' = Told
      <3>1. Len(iterationQueue) = Len(iterationQueue') + 1 /\ Len(iterationQueue') \in Nat
        BY <2>2, IterationQueueTail DEF GetMessageIteration
      <3>2. UNCHANGED shown /\ Pending = 0 /\ Pending' = 1
        BY <2>2 DEF GetMessageIteration, Pending
      <3> QED
        BY <1>1, <3>1, <3>2 DEF Told
    <2>3. ASSUME ShowMessage PROVE Told' = Told
      <3>1. popped \in 1 .. MaxIterations
        BY <2>3 DEF ShowMessage, MessageInv, InOrder, TypeOK
      <3>2. Len(shown') = Len(shown) + 1
        BY <1>1, <2>3, <3>1, ShownStep DEF ShowMessage
      <3>3. UNCHANGED iterationQueue /\ Pending = 1 /\ Pending' = 0
        BY <2>3 DEF ShowMessage, Pending
      <3> QED
        BY <1>1, <3>2, <3>3 DEF Told
    <2>4. ~QueueIteration
      BY <1>5 DEF Progress, QueueIteration
    <2> QED
      BY <1>5, <2>1, <2>2, <2>3, <2>4 DEF Progress
  <1>6. CASE Main /\ ~QueueIteration /\ ~PrintSummaryMessage
    <2>1. UNCHANGED <<iterationQueue, shown, progress>>
      BY <1>6 DEF Main, Store, Caught, BeginPreparation, LoadNetworkFiles,
         JoinCoordinator, EndPreparation, AssignMatrices, Commence, Iterate, Solve,
         AddMessage, TestConvergence, BeginUpdate, EndUpdate, StopAdjusting, Validate,
         EndAdjustment, JoinProgress, WriteResults, messageVars
    <2> QED
      BY <1>3, <1>6, <2>1
  <1>7. CASE Pool \/ CancelAdjustment \/ UNCHANGED vars
    <2>1. UNCHANGED <<iterationQueue, shown, progress, main>>
      BY <1>7 DEF Pool, CancelAdjustment, vars, messageVars
    <2>2. ~QueueIteration
      BY <2>1 DEF QueueIteration
    <2> QED
      BY <1>3, <2>1, <2>2
  <1> QED
    BY <1>2, <1>4, <1>5, <1>6, <1>7 DEF Next, Terminated

LEMMA InStepStep ==
  ASSUME TypeOK, MessageInv, StatusInv, [Next]_vars
  PROVE  InStep'
  <1> USE DEF Preparing, Iterating, Reporting, Failing, Ending, Ended,
              flagVars, messageVars, resultVars
  <1>1. /\ bank \in Seq(1 .. MaxIterations) /\ iteration \in Nat /\ Len(bank) \in Nat
        /\ Told \in Nat
        /\ InStep
    BY DEF TypeOK, Pending, Told, MessageInv
  <1>2. Told' = IF QueueIteration THEN Told + 1 ELSE Told
    BY ToldStep
  <1>3. CASE Main
    <2>1. CASE QueueIteration
      BY <1>1, <1>2, <2>1 DEF QueueIteration, InStep
    <2>2. CASE AddMessage
      <3>1. Told' = Told
        BY <1>2, <2>2 DEF AddMessage, QueueIteration
      <3>2. iteration \in 1 .. MaxIterations
        BY <1>1, <2>2 DEF AddMessage, InStep, TypeOK
      <3>3. Len(bank') = Len(bank) + 1
        BY <1>1, <2>2, <3>2 DEF AddMessage
      <3> QED
        BY <1>1, <2>2, <3>1, <3>3 DEF AddMessage, InStep
    <2>3. CASE Commence
      <3>1. Told' = Told /\ Told = 0
        BY <1>1, <1>2, <2>3 DEF Commence, QueueIteration, InStep, MessageInv, InOrder
      <3> QED
        BY <2>3, <3>1 DEF Commence, InStep
    <2>4. CASE Iterate
      <3>1. Told' = Told
        BY <1>2, <2>4 DEF Iterate, QueueIteration
      <3> QED
        BY <1>1, <2>4, <3>1 DEF Iterate, InStep
    <2>5. ASSUME UNCHANGED <<bank, iteration>>, main # "queue"
          PROVE  Told' = Told /\ Len(bank') = Len(bank) /\ iteration' = iteration
      BY <1>2, <2>5 DEF QueueIteration
    <2>6. CASE \/ \E assignment \in Assignments : Store(assignment)
               \/ Caught
      BY <1>1, <2>5, <2>6 DEF Store, Caught, InStep, StatusInv
    <2>7. CASE \/ BeginPreparation \/ EndPreparation \/ BeginUpdate \/ StopAdjusting
      BY <1>1, <2>5, <2>7 DEF BeginPreparation, EndPreparation, BeginUpdate,
                              StopAdjusting, InStep
    <2>8. CASE LoadNetworkFiles \/ JoinCoordinator
      BY <1>1, <2>5, <2>8 DEF LoadNetworkFiles, JoinCoordinator, Throws, InStep
    <2>9. CASE AssignMatrices \/ EndUpdate
      BY <1>1, <2>5, <2>9 DEF AssignMatrices, EndUpdate, Throws, InStep
    <2>10. CASE Solve
      BY <1>1, <2>5, <2>10 DEF Solve, Throws, InStep
    <2>11. CASE TestConvergence \/ Validate \/ EndAdjustment
      BY <1>1, <2>5, <2>11 DEF TestConvergence, Validate, EndAdjustment, InStep
    <2>12. CASE JoinProgress \/ WriteResults
      BY <1>1, <2>5, <2>12 DEF JoinProgress, WriteResults, InStep
    <2>13. CASE PrintSummaryMessage
      <3>1. /\ main = "summary" /\ main' \in {"summary", "success", "statistics"}
            /\ UNCHANGED <<bank, iteration, threw, cancelled>>
        BY <2>13 DEF PrintSummaryMessage
      <3> QED
        BY <1>1, <2>5, <3>1 DEF InStep
    <2> QED
      BY <1>3, <2>1, <2>2, <2>3, <2>4, <2>6, <2>7, <2>8, <2>9, <2>10, <2>11, <2>12,
         <2>13 DEF Main
  <1>4. CASE Progress \/ Pool \/ CancelAdjustment \/ UNCHANGED vars
    <2>1. /\ UNCHANGED <<main, bank, iteration, threw>> /\ (cancelled => cancelled')
      <3>1. CASE Progress
        BY <3>1 DEF Progress, Poll, GetMessageIteration, ShowMessage
      <3> QED
        BY <1>4, <3>1 DEF Pool, CancelAdjustment, vars
    <2>2. ~QueueIteration
      BY <2>1 DEF QueueIteration
    <2> QED
      BY <1>1, <1>2, <2>1, <2>2 DEF InStep
  <1> QED
    BY <1>3, <1>4 DEF Next, Terminated

LEMMA MessageStep ==
  ASSUME TypeOK, MessageInv, StatusInv, [Next]_vars
  PROVE  MessageInv'
  <1> USE DEF Preparing, Iterating, Reporting, Failing, Ending, Ended,
              flagVars, messageVars, resultVars
  <1>1. ProgressJoined'
    <2>1. CASE PrintSummaryMessage
      BY <2>1 DEF PrintSummaryMessage, MessageInv, ProgressJoined
    <2>2. CASE JoinProgress \/ WriteResults
      BY <2>2 DEF JoinProgress, WriteResults, MessageInv, ProgressJoined
    <2>3. CASE \/ \E assignment \in Assignments : Store(assignment)
               \/ Caught \/ BeginPreparation \/ LoadNetworkFiles \/ JoinCoordinator
               \/ EndPreparation \/ AssignMatrices \/ Commence \/ Iterate
      BY <2>3 DEF Store, Caught, BeginPreparation, LoadNetworkFiles, JoinCoordinator,
         EndPreparation, AssignMatrices, Commence, Iterate, Throws, ProgressJoined
    <2>4. CASE \/ Solve \/ AddMessage \/ QueueIteration \/ TestConvergence
               \/ BeginUpdate \/ EndUpdate \/ StopAdjusting \/ Validate \/ EndAdjustment
      BY <2>4 DEF Solve, AddMessage, QueueIteration, TestConvergence, BeginUpdate,
         EndUpdate, StopAdjusting, Validate, EndAdjustment, Throws, ProgressJoined
    <2>5. CASE Progress
      <3>1. progress # "done" /\ UNCHANGED <<main, threw>>
        BY <2>5 DEF Progress, Poll, StopPreparing, CheckException, PollAdjusting,
                    NoMessagesLeft, GetMessageIteration, ShowMessage
      <3> QED
        BY <3>1 DEF MessageInv, ProgressJoined
    <2>6. CASE Pool \/ CancelAdjustment \/ UNCHANGED vars
      BY <2>6 DEF Pool, CancelAdjustment, vars, MessageInv, ProgressJoined
    <2> QED
      BY <2>1, <2>2, <2>3, <2>4, <2>5, <2>6 DEF Next, Main, Terminated
  <1> QED
    BY <1>1, InOrderStep, InStepStep DEF MessageInv

-----------------------------------------------------------------------------
(* The status. *)

LEMMA StatusStep ==
  ASSUME TypeOK, MessageInv, StatusInv, [Next]_vars
  PROVE  StatusInv'
  <1> USE DEF Preparing, Iterating, Reporting, Failing, Ending, Ended,
              flagVars, messageVars, resultVars
  <1>1. StatusInv /\ InStep /\ iteration \in 0 .. MaxIterations /\ MaxIterations \in Nat \ {0}
    BY MaxIterationsAssumption DEF MessageInv, TypeOK
  <1>2. CASE \E assignment \in Assignments : Store(assignment)
    BY <1>1, <1>2 DEF Store, StatusInv, StatusTells
  <1>3. CASE Caught
    BY <1>1, <1>3 DEF Caught, StatusInv, StatusTells
  <1>4. CASE \/ BeginPreparation \/ LoadNetworkFiles \/ JoinCoordinator
             \/ EndPreparation \/ AssignMatrices
    BY <1>1, <1>4 DEF BeginPreparation, LoadNetworkFiles, JoinCoordinator,
       EndPreparation, AssignMatrices, Throws, StatusInv, StatusTells
  <1>5. CASE Commence
    BY <1>1, <1>5 DEF Commence, StatusInv, StatusTells
  <1>6. CASE Iterate
    BY <1>1, <1>6 DEF Iterate, StatusInv, StatusTells
  <1>7. CASE Solve
    BY <1>1, <1>7 DEF Solve, Throws, StatusInv, StatusTells
  <1>8. CASE AddMessage \/ QueueIteration \/ BeginUpdate
    BY <1>1, <1>8 DEF AddMessage, QueueIteration, BeginUpdate, StatusInv, StatusTells
  <1>9. CASE TestConvergence
    BY <1>1, <1>9 DEF TestConvergence, InStep, StatusInv, StatusTells
  <1>10. CASE EndUpdate
    BY <1>1, <1>10 DEF EndUpdate, Throws, StatusInv, StatusTells
  <1>11. CASE StopAdjusting
    BY <1>1, <1>11 DEF StopAdjusting, StatusInv, StatusTells
  <1>12. CASE Validate
    BY <1>1, <1>12 DEF Validate, NotConverged, StatusInv, StatusTells
  <1>13. CASE EndAdjustment \/ JoinProgress \/ WriteResults
    BY <1>1, <1>13 DEF EndAdjustment, JoinProgress, WriteResults, StatusInv, StatusTells
  <1>14. CASE PrintSummaryMessage
    BY <1>1, <1>14 DEF PrintSummaryMessage, StatusInv, StatusTells
  <1>15. CASE Progress \/ Pool \/ CancelAdjustment \/ UNCHANGED vars
    <2>1. /\ UNCHANGED <<main, adjustStatus, iteration, exceeds, threw>>
          /\ cancelled => cancelled'
      BY <1>15 DEF Progress, Pool, CancelAdjustment, vars
    <2> QED
      BY <1>1, <2>1 DEF StatusInv, StatusTells
  <1> QED
    BY <1>2, <1>3, <1>4, <1>5, <1>6, <1>7, <1>8, <1>9, <1>10, <1>11, <1>12, <1>13,
       <1>14, <1>15 DEF Next, Main, Terminated

-----------------------------------------------------------------------------
(* The invariant. *)

LEMMA InitInv == Init => Inv
  <1> SUFFICES ASSUME Init PROVE Inv
    OBVIOUS
  <1> USE BlockCountAssumption, MaxIterationsAssumption
      DEF Init, PoolInit, QueueInit, Preparing, Iterating, Reporting, Failing, Ending, Ended
  <1>1. TypeOK
    <2>1. PoolTypes
      <3>1. the_queue \in Seq(Blocks \cup {WakeUp})
        BY EmptySeq
      <3> QED
        BY <3>1 DEF PoolTypes, PreparerLabels, QueueTypeOK
    <2>2. /\ iterationQueue \in Seq(1 .. MaxIterations)
          /\ bank \in Seq(1 .. MaxIterations)
          /\ shown \in Seq([iteration : 1 .. MaxIterations, message : 0 .. MaxIterations])
      <3>1. iterationQueue = <<>> /\ bank = <<>> /\ shown = <<>>
        OBVIOUS
      <3> HIDE DEF Init
      <3> QED
        BY <3>1, EmptySeq
    <2>3. /\ main \in Preparing /\ progress = "preparing"
          /\ running \in BOOLEAN /\ threw \in BOOLEAN
          /\ isPreparing \in BOOLEAN /\ isAdjusting \in BOOLEAN
          /\ adjustStatus \in Statuses /\ unset = {}
          /\ cancelled \in BOOLEAN /\ exceeds \in BOOLEAN
      BY DEF Statuses
    <2>4. iteration \in 0 .. MaxIterations /\ popped \in 0 .. MaxIterations
      OBVIOUS
    <2> HIDE DEF Init, Preparing, Iterating, Reporting, Failing, Ending, Ended
    <2> QED
      BY <2>1, <2>2, <2>3, <2>4 DEF TypeOK
  <1>2. Started /\ QueuedOnce /\ Joined
    <2>1. ~Failure /\ the_queue = <<>>
      BY DEF Failure
    <2> QED
      BY <2>1 DEF Started, QueuedOnce, Joined, PreparersDone
  <1>3. InOnePlace /\ WokenByFailure /\ InSomePlace /\ QueueEmptied
    BY DEF InOnePlace, WokenByFailure, InSomePlace, QueueEmptied, Holds, Queued
  <1>4. MessageInv
    BY DEF MessageInv, InOrder, InStep, ProgressJoined, Told, Pending
  <1>5. StatusInv
    BY DEF StatusInv, StatusTells
  <1> QED
    BY <1>1, <1>2, <1>3, <1>4, <1>5 DEF Inv, PoolInv

LEMMA InvStep == Inv /\ [Next]_vars => Inv'
  BY TypeStep, PoolStep, MessageStep, StatusStep DEF Inv

LEMMA Invariant == Spec => []Inv
  BY InitInv, InvStep, PTL DEF Spec

(* The variables of a run of dnaadjust keep their types, whatever the      *)
(* number of blocks, cores and iterations.                                 *)
THEOREM TypeCorrect == Spec => []TypeOK
  <1>1. Inv => TypeOK
    BY DEF Inv
  <1> QED
    BY <1>1, Invariant, PTL

(* No two threads of adjust_process_prepare_thread prepare the same block, *)
(* and none prepares the value pushed to tell of a failure.                *)
THEOREM BlocksPreparedOnce == Spec => []PreparedOnce
  <1>1. Inv => PreparedOnce
    <2> SUFFICES ASSUME Inv, NEW t \in Preparers, preparer[t] = "prepare"
                 PROVE  /\ currentBlock[t] \in Blocks
                        /\ prepared[currentBlock[t]] = 0
                        /\ \A u \in Preparers \ {t} :
                              preparer[u] = "prepare" => currentBlock[u] # currentBlock[t]
      BY DEF PreparedOnce
    <2>1. currentBlock[t] \in Blocks /\ Holds(t, currentBlock[t])
      BY DEF Inv, PoolInv, WokenByFailure, Holds
    <2>2. \A u \in Preparers \ {t} : ~Holds(u, currentBlock[t])
      BY <2>1 DEF Inv, PoolInv, InOnePlace
    <2> QED
      BY <2>1, <2>2 DEF Inv, PoolInv, InOnePlace, Holds
  <1> QED
    BY <1>1, Invariant, PTL

(* AdjustNetwork starts only when all blocks have been prepared: none is   *)
(* left in the queue or with a thread when the coordinator has joined the  *)
(* threads without an exception.                                           *)
THEOREM AdjustmentPrepared == Spec => []AdjustsPrepared
  <1>1. Inv => AdjustsPrepared
    <2> SUFFICES ASSUME Inv, NEW b \in Blocks,
                        main \in {"prepared", "assign"} \cup Iterating \cup Reporting
                 PROVE  prepared[b] = 1
      BY DEF AdjustsPrepared
    <2>1. coordinator = "done" /\ PreparersDone /\ ~Failure
      BY DEF Inv, PoolInv, Joined, Started
    <2>2. the_queue = <<>> /\ \A t \in Preparers : ~Holds(t, b)
      BY <2>1, PreparersAssumption DEF Inv, PoolInv, QueueEmptied, PreparersDone, Holds
    <2>3. b \notin Queued
      BY <2>2 DEF Queued
    <2> QED
      BY <2>1, <2>2, <2>3 DEF Inv, PoolInv, InSomePlace
  <1> QED
    BY <1>1, Invariant, PTL

(* The console shows the corrections once, in order and under their own    *)
(* iteration, whether the progress thread or the wrapper shows them.       *)
THEOREM CorrectionsToldInOrder == Spec => []CorrectionsShown
  <1>1. Inv => CorrectionsShown
    <2> SUFFICES ASSUME Inv PROVE CorrectionsShown
      OBVIOUS
    <2>1. shown \in Seq([iteration : 1 .. MaxIterations, message : 0 .. MaxIterations])
      BY DEF Inv, TypeOK
    <2>2. \A k \in DOMAIN shown : shown[k] = [iteration |-> k, message |-> k]
      <3>1. DOMAIN shown = 1 .. Len(shown)
        BY <2>1
      <3> QED
        BY <3>1 DEF Inv, MessageInv, InOrder
    <2>3. ASSUME main \in {"statistics"} \cup Ended, ~threw, ~cancelled
          PROVE  Len(shown) = iteration
      <3>1. iterationQueue = <<>> /\ Pending = 0
        <4>1. ProgressJoined /\ main \in {"statistics", "success", "failure"}
          BY <2>3 DEF Inv, MessageInv, Ended
        <4>2. progress = "done" /\ iterationQueue = <<>>
          BY <2>3, <4>1 DEF ProgressJoined, Ended
        <4> QED
          BY <4>2 DEF Pending
      <3>2. Told = iteration
        BY <2>3 DEF Inv, MessageInv, InStep, Ending
      <3>3. Len(iterationQueue) = 0 /\ Len(shown) \in Nat
        BY <2>1, <3>1
      <3> QED
        BY <3>3, <3>1, <3>2 DEF Told
    <2> QED
      BY <2>2, <2>3 DEF CorrectionsShown
  <1> QED
    BY <1>1, Invariant, PTL

(* The status the wrapper reports is what happened.                        *)
THEOREM StatusTrue == Spec => []StatusTells
  <1>1. Inv => StatusTells
    BY DEF Inv, StatusInv
  <1> QED
    BY <1>1, Invariant, PTL
================================================================================
