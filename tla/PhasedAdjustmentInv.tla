------------------------- MODULE PhasedAdjustmentInv -------------------------
(***************************************************************************)
(* The inductive invariant of PhasedAdjustment, in named parts: what the    *)
(* matrices of every block hold at every point of an iteration.             *)
(***************************************************************************)
EXTENDS PhasedAdjustment

(* The blocks whose information a forward run brings to b, and a reverse    *)
(* run, and all that has gone into the normals of b by then.                *)
Back(b) ==
    {c \in Blocks : c <= b /\ \A i \in Blocks : c <= i /\ i < b => Junctions(i) # {}}

Ahead(b) ==
    {c \in Blocks : b <= c /\ \A i \in Blocks : b <= i /\ i < c => Junctions(i) # {}}

Forwards(b) == Once(Back(b) \cup {s \in Stns : stations[s].first \in Back(b)})

Backwards(b) == Once(Ahead(b) \cup {s \in Stns : stations[s].last \in Ahead(b)})

(* Coordinates of an iteration from some information; the coordinates of b  *)
(* that an iteration has ended with, 0 being the a-priori ones; rows that   *)
(* tell what a neighbour has found in the iteration after it.               *)
From(info, round) == [round |-> round, info |-> info]

Known(b, r) == IF r = 0 THEN Apriori ELSE From(Whole(b), r)

Row(info, b, r) == [info |-> info, estimates |-> From(info, r + 1), computed |-> Known(b, r)]

ForwardRows(b, r) ==
    IF b > 0 /\ Junctions(b - 1) # {} THEN <<Row(Forwards(b - 1), b, r)>> ELSE <<>>

BackwardRows(b, r) ==
    IF Junctions(b) # {} THEN <<Row(Backwards(b + 1), b, r)>> ELSE <<>>

Plain(info) == [info |-> info, inverted |-> FALSE]

Inverted(info) == [info |-> info, inverted |-> TRUE]

-----------------------------------------------------------------------------
(* The matrices m of block b in iteration r + 1. *)

(* Design matrix and computed measurements are of the coordinates the       *)
(* iteration has started from.                                              *)
FormedAt(m, b, r) ==
    m.original = Known(b, r) /\ m.design = Known(b, r) /\ m.computed = Known(b, r)

(* Before the iteration.  A staged adjustment forms the rest on loading.    *)
Fresh(m, b, r) ==
    /\ m.estimated = Known(b, r) /\ m.original = Known(b, r) /\ m.rigorous = Known(b, r)
    /\ m.rows = <<>>
    /\ ~Stage => /\ FormedAt(m, b, r)
                 /\ m.normals = Plain(Plus(Once({b}), Once(FirstForward(b))))
                 /\ m.normalsR = Measured(b)

ReadyForward(m, b, r) ==
    /\ FormedAt(m, b, r) /\ m.normalsR = Measured(b)
    /\ m.estimated = Known(b, r) /\ m.rigorous = Known(b, r)
    /\ m.normals = Plain(Forwards(b))
    /\ m.rows = ForwardRows(b, r)

(* What the forward run leaves for the end of the iteration: of the last    *)
(* block of a network, its rigorous results.                                *)
Result(m, b, r) ==
    IF mode = "phased" /\ BlockLast(b)
    THEN /\ m.rigorous = From(Whole(b), r + 1)
         /\ m.variances = Inverted(Whole(b))
         /\ m.correctionsR = Whole(b)
    ELSE m.rigorous = Known(b, r)

ForwardDone(m, b, r) ==
    /\ FormedAt(m, b, r) /\ m.normalsR = Measured(b)
    /\ m.rows = <<>>
    /\ m.corrections = Forwards(b)
    /\ m.estimated = From(Forwards(b), r + 1)
    /\ m.normals = Inverted(Forwards(b))
    /\ Result(m, b, r)

HandedOn(m, b, r) ==
    mode = "phased" /\ ~BlockLast(b) =>
        m.junctionInfo = Forwards(b) /\ m.junctionEstimates = From(Forwards(b), r + 1)

(* Waiting for the reverse run, which --block1-phased begins with.          *)
Waiting(m, b, r) ==
    IF mode = "phased"
    THEN ForwardDone(m, b, r) /\ HandedOn(m, b, r)
    ELSE Fresh(m, b, r)

ReadyReverse(m, b, r) ==
    /\ FormedAt(m, b, r) /\ m.normalsR = Measured(b)
    /\ m.estimated = Known(b, r)
    /\ m.normals = Plain(Backwards(b))
    /\ m.rows = BackwardRows(b, r)
    /\ HandedOn(m, b, r)
    /\ Result(m, b, r)

ReverseDone(m, b, r) ==
    /\ FormedAt(m, b, r)
    /\ CombineRequired(b) /\ mode = "phased" => m.normalsR = Plain(Backwards(b))
    /\ m.corrections = Backwards(b)
    /\ m.estimated = From(Backwards(b), r + 1)
    /\ m.normals = Inverted(Backwards(b))
    /\ m.rows = BackwardRows(b, r)
    /\ Result(m, b, r)

ReadyCombine(m, b, r) ==
    /\ FormedAt(m, b, r)
    /\ m.estimated = Known(b, r)
    /\ m.normals = Plain(Whole(b))
    /\ m.rows = BackwardRows(b, r) \o ForwardRows(b, r)
    /\ m.rigorous = Known(b, r)

(* Of a block in the middle, block 1 only leaves a solution in isolation.   *)
ReadyFinal(m, b, r) ==
    /\ FormedAt(m, b, r)
    /\ Result(m, b, r)
    /\ m.estimated.round = r + 1
    /\ BlockLast(b) =>
          /\ m.rows = <<>>
          /\ mode = "phased" => /\ m.estimated = From(Backwards(b), r + 1)
                                /\ m.normals = Inverted(Backwards(b))
    /\ ~BlockLast(b) /\ (mode = "phased" \/ BlockFirst(b)) =>
          /\ m.corrections = Whole(b)
          /\ m.estimated = From(Whole(b), r + 1)
          /\ m.normals = Inverted(Whole(b))
          /\ m.rows = IF BlockFirst(b) THEN BackwardRows(b, r) ELSE <<>>

Finished(m, b, r) ==
    /\ m.rigorous.round >= 0
    /\ b \in Promised => m.rigorous = From(Whole(b), r + 1)
    /\ mode = "phased" =>
          /\ m.variances = Inverted(Whole(b))
          /\ m.corrections = Whole(b)
          /\ m.rows = <<>>
          /\ m.computed.round = r /\ m.design.round = r
          /\ BlockLast(b) => /\ m.estimated = From(Backwards(b), r + 1)
                             /\ m.normals = Inverted(Backwards(b))
          /\ ~BlockLast(b) => /\ m.estimated = m.rigorous /\ m.original = m.rigorous
                              /\ m.normals = m.variances

(* Ready for the statistics.                                                *)
Final(m, b, r) ==
    /\ m.rigorous = From(Whole(b), r + 1) /\ m.estimated = m.rigorous
    /\ m.variances = Inverted(Whole(b))
    /\ IF Stage
       THEN m.computed.round = r
       ELSE m.normals = m.variances /\ m.design = m.rigorous /\ m.computed = m.rigorous

-----------------------------------------------------------------------------
(* The matrices of all blocks at every point of the algorithm. *)

Starting == pc = "start" => \A b \in Blocks : Fresh(Latest(b), b, iteration)

ForwardRun ==
    pc \in {"forward", "carry forward"} =>
        /\ \A b \in Blocks : b < block => Waiting(Latest(b), b, iteration - 1)
        /\ \A b \in Blocks : b > block => Fresh(Latest(b), b, iteration - 1)
        /\ IF pc = "forward"
           THEN ReadyForward(Latest(block), block, iteration - 1)
           ELSE ForwardDone(Latest(block), block, iteration - 1)

(* Block b is still to be reached by the reverse run.                       *)
ToCome(b, taken) ==
    IF taken /\ b = block - 1 /\ ~BlockLast(b)
    THEN ReadyReverse(Latest(b), b, iteration - 1)
    ELSE Waiting(Latest(b), b, iteration - 1)

ReversePcs == {"prepare reverse", "reverse", "carry reverse", "combine", "final"}

ReverseRun ==
    pc \in ReversePcs =>
        /\ \A b \in Blocks : b > block => Finished(Latest(b), b, iteration - 1)
        /\ \A b \in Blocks : b < block => ToCome(b, pc \in {"combine", "final"})
        /\ pc # "prepare reverse" => ~BlockIsolated(block)
        /\ pc = "prepare reverse" =>
              IF BlockLast(block)
              THEN Waiting(Latest(block), block, iteration - 1)
              ELSE ReadyReverse(Latest(block), block, iteration - 1)
        /\ pc = "reverse" => ReadyReverse(Latest(block), block, iteration - 1)
        /\ pc = "carry reverse" => ReverseDone(Latest(block), block, iteration - 1)
        /\ pc = "combine" => /\ CombineRequired(block)
                             /\ ReadyCombine(Latest(block), block, iteration - 1)
        /\ pc = "final" => ReadyFinal(Latest(block), block, iteration - 1)

Ending == pc = "end" => \A b \in Blocks : Finished(Latest(b), b, iteration - 1)

Updating ==
    pc = "update" =>
        /\ \A b \in Blocks : b < block => Fresh(Latest(b), b, iteration)
        /\ \A b \in Blocks : b >= block => Finished(Latest(b), b, iteration - 1)

Validating ==
    pc = "validate" /\ ~cancelled =>
        IF converged \/ mode = "block1"
        THEN \A b \in Blocks : Finished(Latest(b), b, iteration - 1)
        ELSE iteration = MaxIterations /\ \A b \in Blocks : Fresh(Latest(b), b, iteration)

(* The last update has reached the blocks before n. *)
Restored(n) ==
    \A b \in Blocks : IF b < n
                      THEN Final(Latest(b), b, iteration - 1)
                      ELSE Finished(Latest(b), b, iteration - 1)

Publishing ==
    /\ pc \in AfterAdjustment /\ status \notin {"ADJUST_EXCEPTION_RAISED", "ADJUST_CANCELLED"} =>
          \A b \in Promised : Latest(b).rigorous = From(Whole(b), iteration)
    /\ pc = "last update" /\ status = "ADJUST_SUCCESS" /\ mode = "phased" =>
          Restored(block)

(* Coordinates that design matrix and residuals of b are of, whether the    *)
(* last update has reached b or not.                                        *)
FormedFor(b, reached, coordinates) ==
    CASE reached -> coordinates = From(Whole(b), iteration)
      [] ~reached /\ Stage -> coordinates = From(SolvedLast(b), iteration)
      [] ~reached /\ ~Stage -> coordinates.round = iteration - 1

Precise(b, reached) ==
    /\ statistics[b].variances =
          Inverted(IF Stage \/ reached THEN Whole(b) ELSE SolvedLast(b))
    /\ FormedFor(b, reached, statistics[b].design)
    /\ FormedFor(b, reached, statistics[b].residuals)

ChiSquared(b, reached) ==
    IF Stage \/ ~reached
    THEN statistics[b].chiSquare.round = iteration - 1
    ELSE statistics[b].chiSquare = From(Whole(b), iteration)

(* The statistics so far, if the last update has reached the blocks before  *)
(* n.                                                                       *)
ComputedAfter(n) ==
    /\ ~cancelled => n = BlockCount
    /\ Restored(n)
    /\ \A b \in Blocks :
          /\ pc # "precision" \/ b < block => Precise(b, b < n)
          /\ pc = "done" \/ (pc = "chi-square" /\ b < block) => ChiSquared(b, b < n)

Computed ==
    pc \in {"precision", "chi-square", "done"} /\ status = "ADJUST_SUCCESS" /\ mode = "phased" =>
        \E n \in 0 .. BlockCount : ComputedAfter(n)

-----------------------------------------------------------------------------
(* Position, status, corrections and loaded blocks. *)

Position ==
    /\ mode = "block1" =>
          /\ ~Stage /\ iteration = 1
          /\ pc \in (ReversePcs \ {"combine"}) \cup {"end", "validate", "done"}
    /\ pc \notin {"start"} /\ ~(pc \in {"validate", "done"} /\ cancelled) => iteration >= 1
    /\ pc = "start" /\ iteration > 0 => ~converged
    /\ pc = "update" => ~converged

Reported ==
    /\ pc \notin AfterAdjustment =>
          \/ status = "ADJUST_SUCCESS"
          \/ status = "ADJUST_THRESHOLD_EXCEEDED" /\ pc = "validate" /\ mode = "block1"
    /\ pc \in AfterAdjustment \ {"done"} =>
          status \in {"ADJUST_SUCCESS", "ADJUST_MAX_ITERATIONS_EXCEEDED"}

Judged(S) == {<<b, Whole(b)>> : b \in S}

Judging ==
    /\ pc \in {"forward", "carry forward"} =>
          judged = Judged({b \in Blocks :
                              /\ BlockLast(b)
                              /\ (b < block \/ (b = block /\ pc = "carry forward"))})
    /\ pc \in ReversePcs /\ mode = "phased" =>
          judged = Judged({b \in Blocks : BlockLast(b) \/ b > block})
    /\ pc = "end" /\ mode = "phased" => judged = Judged(Blocks)

Loading ==
    /\ ~Stage => Loaded = Blocks
    /\ Stage =>
          /\ pc \in {"start", "end", "update", "last update", "precision", "chi-square"} =>
                Loaded = {}
          /\ pc = "validate" /\ ~cancelled => Loaded = {}
          /\ pc \in {"forward", "carry forward", "prepare reverse", "reverse", "carry reverse"} =>
                Loaded = {block}
          /\ pc \in {"combine", "final"} =>
                Loaded = {b \in Blocks : b = block \/ b = block - 1}
          /\ \E k \in Blocks : Loaded \subseteq {b \in Blocks : b = k \/ b = k - 1}

PhasedInv ==
    /\ TypeOK
    /\ Position
    /\ Reported
    /\ Loading
    /\ Judging
    /\ Starting
    /\ ForwardRun
    /\ ReverseRun
    /\ Ending
    /\ Updating
    /\ Validating
    /\ Publishing
    /\ Computed
=============================================================================
