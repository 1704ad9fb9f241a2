------------------------ MODULE PhasedMultiThreadInv ------------------------
(***************************************************************************)
(* The invariants that make the safety properties of PhasedMultiThread     *)
(* inductive: what each position of a thread implies about the shared      *)
(* flags, the exceptions and the queue; about the rows of the matrices;    *)
(* and about what the matrices hold.                                       *)
(***************************************************************************)
EXTENDS PhasedMultiThread

Failing == (\E run \in Runs : runError[run])
             \/ (\E w \in Workers : workerError[w])

(* Threads exist only between their creation and the join.                 *)
Quiet ==
    /\ mainPc # "join" =>
         /\ \A run \in Runs : runPc[run] \in {"idle", "done"}
         /\ cmbPc \in {"idle", "done"}
    /\ cmbPc # "join" => \A w \in Workers : workerPc[w] \in {"idle", "done"}

(* An exception is kept until the thread that joins its owner has seen it. *)
FailuresKept ==
    /\ \A run \in Runs :
         /\ runError[run] => runPc[run] \in {"caught", "sentinel", "done"}
         /\ runPc[run] \in {"caught", "sentinel"} => runError[run]
    /\ cmbError => cmbPc = "done"
    /\ \A w \in Workers : workerError[w] => cmbPc = "join" \/ cmbError
    /\ status = "ADJUST_EXCEPTION_RAISED" => Failing
    /\ mainPc \notin {"join", "rethrown"} => ~Failing /\ ~cmbError

(* A run tests and queues only an inner block it has marked itself, and    *)
(* queues it only after the other run has marked it too.                   *)
RunsMark ==
    \A run \in Runs :
        /\ runPc[run] \in {"set", "test", "push"}
             => CombineRequired(runBlock[run])
        /\ runPc[run] \in {"test", "push"}
             => runBlock[run] \in adjusted[run]
        /\ runPc[run] = "push" => runBlock[run] \in BothAdjusted

(* What may be in the queue, and so in the hands of a worker.              *)
Combinable(b) ==
    /\ b \in Blocks
    /\ b \in BothAdjusted \cup leftover
    /\ CombineRequired(b)

QueueCorrect ==
    \A x \in Queued : Combinable(x) \/ (x = Sentinel /\ Failing)

WorkersCorrect ==
    \A w \in Workers :
        /\ Combining(w) => Combinable(workerBlock[w])
        /\ workerPc[w] = "recheck" =>
             \/ Combinable(workerBlock[w])
             \/ workerBlock[w] = Sentinel /\ Failing
        /\ workerPc[w] = "sentinel" => Failing

(* The inductive invariant of the protocol between the threads: it says    *)
(* why no failure is lost and why only adjusted inner blocks are combined. *)
ProtocolInv ==
    /\ Quiet
    /\ FailuresKept
    /\ RunsMark
    /\ QueueCorrect
    /\ WorkersCorrect

-----------------------------------------------------------------------------
(* The rows of the R matrices.  A block may be queued twice, once by each  *)
(* run, and prepared by one worker before another has finished with it.    *)
(* What keeps its rows in bounds is a count: how many of the times it was  *)
(* queued are still to be prepared.                                        *)

(* The adjustment is going to be given up; nothing is iterated again.      *)
Broken == cancelled \/ cmbError \/ Failing

Begun(run) == runPc[run] \notin {"idle", "start"}

(* A run that has begun has left the block behind.                         *)
Passed(run, b) ==
    /\ Begun(run)
    /\ IF run = "fwd" THEN b < runBlock[run] ELSE runBlock[run] < b

(* The junctions of block b+1 have been appended to block b.               *)
Carried(b) ==
    /\ Begun("rev")
    /\ \/ runBlock["rev"] <= b
       \/ runBlock["rev"] = b + 1 /\ runPc["rev"] \in {"set", "test", "push"}

(* The entries of the queue, and the workers, that have block b and have   *)
(* yet to prepare it.                                                      *)
Places(b) == {i \in 1 .. Len(the_queue) : the_queue[i] = b}

Holders(b) ==
    {w \in Workers : workerPc[w] \in {"recheck", "prepare"} /\ workerBlock[w] = b}

Waiting(b) == Cardinality(Places(b)) + Cardinality(Holders(b))

(* The workers that have prepared block b and not yet combined it.         *)
Preparers(b) ==
    {w \in Workers : workerPc[w] \in {"solve", "combine"} /\ workerBlock[w] = b}

Idle(b) == Preparers(b) = {}

OnePreparer(b, rows) ==
    \E w \in Workers : Preparers(b) = {w} /\ workerRows[w] = rows

Exactly(b, n) == Waiting(b) <= n /\ (Broken \/ Waiting(b) = n)

RowsBeforeCarry(b) ==
    /\ pushes[b] = 0
    /\ \/ /\ reverse[b].rows = 0
          /\ Waiting(b) = 0
          /\ Idle(b)
       \/ /\ reverse[b].rows = 1
          /\ b \in leftover
          /\ Exactly(b, 1)
          /\ Idle(b)
       \/ /\ reverse[b].rows = 2
          /\ b \in leftover
          /\ Waiting(b) = 0
          /\ OnePreparer(b, 2) \/ (Idle(b) /\ Broken)

RowsAfterCarry(b) ==
    \/ /\ reverse[b].rows = 0
       /\ Waiting(b) <= pushes[b] - 1
       /\ Idle(b)
    \/ /\ reverse[b].rows = 1
       /\ Exactly(b, pushes[b])
       /\ Idle(b)
    \/ /\ reverse[b].rows = 1
       /\ Waiting(b) <= pushes[b] - 2
       /\ OnePreparer(b, 1)
    \/ /\ reverse[b].rows = 2
       /\ Waiting(b) <= pushes[b] - 1
       /\ OnePreparer(b, 2)
    \/ /\ reverse[b].rows = 2
       /\ Broken \/ (b \in leftover /\ Waiting(b) > pushes[b])
       /\ Idle(b)
    \/ /\ reverse[b].rows = 3
       /\ b \in leftover
       /\ Exactly(b, pushes[b])
       /\ OnePreparer(b, 2) \/ (Idle(b) /\ Broken)

RowsOf(b) ==
    /\ Carried(b) => RowsAfterCarry(b)
    /\ ~Carried(b) => RowsBeforeCarry(b)

InnerRows == \A b \in Blocks : CombineRequired(b) => RowsOf(b)

(* The reverse run is on its way from the carry into block b, the first of *)
(* its network, to the end of its work on b.                               *)
OnFirstBlock(b) ==
    \/ /\ runBlock["rev"] = b
       /\ runPc["rev"] \in {"check", "solve", "update", "carry", "final"}
    \/ /\ runBlock["rev"] = b + 1
       /\ runPc["rev"] \in {"set", "test", "push"}

(* It may have been given up there.                                        *)
LeftOnFirstBlock(b) ==
    /\ runBlock["rev"] = b
    /\ runPc["rev"] \in {"caught", "sentinel", "done"}
    /\ Broken

OuterRows ==
    \A b \in Blocks :
        ~CombineRequired(b) =>
            \/ reverse[b].rows = 0 /\ ~(OnFirstBlock(b) /\ ~BlockLast(b))
            \/ /\ reverse[b].rows = 1
               /\ ~BlockLast(b)
               /\ OnFirstBlock(b) \/ LeftOnFirstBlock(b)

Turn(run, b) == IF Passed(run, b) THEN 1 ELSE 0

(* The threads of an iteration exist together.                             *)
IdleTogether ==
    /\ runPc["fwd"] = "idle" <=> runPc["rev"] = "idle"
    /\ runPc["fwd"] = "idle" <=> cmbPc = "idle"
    /\ runPc["fwd"] = "idle" => the_queue = <<>>

(* A run that ends has been over all blocks, or is given up.               *)
RunsEnd ==
    \A run \in Runs :
        /\ runPc[run] \in {"finish", "finished", "exhaust", "notify"}
             => runBlock[run] = LastOfRun(run)
        /\ runPc[run] = "done" => Broken \/ runBlock[run] = LastOfRun(run)
        /\ Begun(run) /\ ~running[run]
             => runPc[run] \in {"finished", "exhaust", "notify", "done"}

(* A run marks the inner blocks it passes; the reverse run has appended    *)
(* junctions to those it marks.                                            *)
RunsMarkAll ==
    \A run \in Runs :
        /\ ~Begun(run) => adjusted[run] = {}
        /\ \A b \in Blocks :
             CombineRequired(b) /\ Passed(run, b) => b \in adjusted[run]

MarkedCarried == \A b \in adjusted["rev"] : Carried(b)

ReverseOnBlock ==
    /\ runPc["rev"] \in {"solve", "update", "carry", "final"}
         => ~BlockIsolated(runBlock["rev"])
    /\ runPc["rev"] = "final" => BlockFirst(runBlock["rev"])

RunsProgress ==
    IdleTogether /\ RunsEnd /\ RunsMarkAll /\ MarkedCarried /\ ReverseOnBlock

(* Each run queues a block at most once, and not before both marked it.    *)
PushesBounded ==
    \A b \in Blocks :
        /\ pushes[b] <= Turn("fwd", b) + Turn("rev", b)
        /\ pushes[b] > 0 => b \in BothAdjusted

(* The queue is exhausted only when neither run will queue another block,  *)
(* or, prematurely, when one of them never queued any.                     *)
Exhausting ==
    ~more_blocks_coming \/ \E run \in Runs : runPc[run] = "exhaust"

NoMoreToCome ==
    \A run \in Runs : runPc[run] \in {"finished", "exhaust", "notify", "done"}

OneRunAlone ==
    /\ premature
    /\ \E run \in Runs :
        /\ runPc[run] \in {"finished", "exhaust", "notify", "done"}
        /\ \A b \in Blocks : pushes[b] <= Turn(Other(run), b)

QueueExhausts == Exhausting => NoMoreToCome \/ OneRunAlone

(* A worker stops only when the queue has run dry: what is then in the     *)
(* queue has been put there since, in this iteration.                      *)
SeesExhausted ==
    \A w \in Workers :
        cmbPc = "join" /\ workerPc[w] = "empty" => ~more_blocks_coming

Working ==
    \/ cmbPc \in {"idle", "wait", "woken"}
    \/ ~CombinationThreadRequired
    \/ cmbPc = "join" /\ \A w \in Workers : workerPc[w] # "done"

RunDry ==
    /\ ~more_blocks_coming
    /\ \A b \in Blocks : Cardinality(Places(b)) <= pushes[b]
    /\ the_queue = <<>> \/ OneRunAlone

WorkersDrain == SeesExhausted /\ (Broken \/ Working \/ RunDry)

RowsInv ==
    /\ InnerRows
    /\ OuterRows
    /\ RunsProgress
    /\ PushesBounded
    /\ QueueExhausts
    /\ WorkersDrain
-----------------------------------------------------------------------------
(* What the matrices hold, as long as nothing has gone wrong: the queue has *)
(* not been exhausted prematurely, and the adjustment is not given up.      *)
Undisturbed == ~premature /\ ~Broken

NothingLeftOver == leftover = {} \/ premature

(* A run marks a block when it has done its work on it.                    *)
MarkedLate ==
    \A run \in Runs : \A b \in adjusted[run] :
        \/ Passed(run, b)
        \/ runBlock[run] = b /\ runPc[run] \in {"test", "push"}

At(run, b, labels) == runBlock[run] = b /\ runPc[run] \in labels

Ended == {"finish", "finished", "exhaust", "notify", "done"}

(* The junctions of block b-1 have been appended to block b.               *)
Brought(b) ==
    /\ Begun("fwd")
    /\ b <= runBlock["fwd"] \/ At("fwd", b - 1, {"set", "test", "push"})

(* The forward run has left block b.                                       *)
LeftForward(b) ==
    Passed("fwd", b) \/ At("fwd", b, {"set", "test", "push"} \cup Ended)

LeftReverse(b) ==
    Passed("rev", b) \/ At("rev", b, {"set", "test", "push"} \cup Ended)

(* v_normals_ on the way of the forward run through b.  Of the first block *)
(* of a network the reverse run overwrites them.                           *)
ForwardNormals(b) ==
    IF At("fwd", b, {"update"}) THEN "solved"
    ELSE IF At("fwd", b, {"carry"}) THEN "updated"
    ELSE IF Brought(b) /\ ~BlockFirst(b) THEN "carried"
    ELSE "formed"

ForwardOf(b) ==
    /\ ~LeftForward(b) /\ (BlockFirst(b) => BlockLast(b)) =>
         \/ forward[b] = ForwardNormals(b)
         \/ Brought(b) /\ forward[b] = "spoiled" /\ SpoiledSinceFirst(b)
    /\ Brought(b) /\ ~BlockFirst(b) =>
         junctionsFwd[b - 1] = "good" \/ SpoiledSinceFirst(b)
    /\ BlockLast(b) /\ (LeftForward(b) \/ At("fwd", b, {"carry"})) =>
         rigorous[b] = "rigorous" \/ SpoiledSinceFirst(b)

(* The matrices with suffix R on the way of the reverse run through b.     *)
ReverseOf(b) ==
    LET r == reverse[b] IN
    /\ ~Carried(b) => r.normals = "formed"
    /\ At("rev", b, {"check", "solve"}) /\ BlockLast(b) => r.normals = "formed"
    /\ ~BlockLast(b) =>
         /\ At("rev", b, {"check", "solve"})
              \/ At("rev", b + 1, {"set", "test", "push"})
              => r.normals = "carried" /\ r.stations = "original"
    /\ At("rev", b, {"update"}) => r.normals = "solved" /\ r.stations = "original"
    /\ At("rev", b, {"carry", "final"}) =>
         r.normals = "solved" /\ r.stations = "reverse"
    /\ At("rev", b, {"update", "carry"}) /\ CombineRequired(b) =>
         r.backup = "carried"
    /\ BlockFirst(b) /\ ~BlockLast(b) /\ LeftReverse(b) => rigorous[b] = "rigorous"

(* The workers that have prepared block b and not finished with it.        *)
Combiners(b) ==
    {w \in Workers :
        workerPc[w] \in {"solve", "combine", "final"} /\ workerBlock[w] = b}

(* What a worker has done with block b, by what it is about to do.         *)
CombinedSoFar(b, label) ==
    LET r == reverse[b] IN
    /\ label = "solve" => r.normals = "restored" /\ r.stations = "original"
    /\ label = "combine" => r.normals = "combined" /\ r.stations = "original"
    /\ label = "final" => r.normals = "combined" /\ r.stations = "combined"

(* A block is queued, then in the hands of one worker, then rigorous; if it *)
(* is queued twice nothing is known of it.                                 *)
CombinationOf(b) ==
    \/ pushes[b] > 1
    \/ /\ Waiting(b) = pushes[b]
       /\ Combiners(b) = {}
       /\ LeftReverse(b) => reverse[b].backup = "carried"
    \/ /\ Waiting(b) = 0
       /\ pushes[b] = 1
       /\ \E w \in Workers :
            /\ Combiners(b) = {w}
            /\ CombinedSoFar(b, workerPc[w]) \/ SpoiledSinceFirst(b)
    \/ /\ Waiting(b) = 0
       /\ pushes[b] = 1
       /\ Combiners(b) = {}
       /\ rigorous[b] = "rigorous" \/ SpoiledSinceFirst(b)

Anew(b) == forward[b] = "formed" /\ reverse[b].normals = "formed"

Contents ==
    Undisturbed =>
        /\ mainPc = "top" => \A b \in Blocks : Anew(b)
        /\ mainPc = "update" /\ iterate =>
             \A b \in Blocks : b < mainBlock => Anew(b)
        /\ mainPc = "join" => \A b \in Blocks :
             /\ ForwardOf(b)
             /\ ~BlockIsolated(b) => ReverseOf(b)
             /\ CombineRequired(b) => CombinationOf(b)

ContentsInv ==
    /\ NothingLeftOver
    /\ MarkedLate
    /\ Contents
    /\ RigorousUnlessDisturbed
=============================================================================
