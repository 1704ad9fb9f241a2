# DynAdjust: specification and proofs

DynAdjust adjusts geodetic networks by least squares. A network too large to be
solved at once is cut into blocks that share *junction* stations; the *phased*
adjustment solves block after block forwards, carrying what is known of the
junctions, then backwards, and combines both for the blocks in between, so that
every block ends with the estimates a single adjustment of everything would
give it ("rigorous"). The multi-thread mode runs the two directions at the same
time and combines blocks in a pool of threads.

This directory holds TLA+ models of the control of these programs, TLC
configurations that check them on small instances, and TLAPS proofs for
instances of every size. Seven models stand beside each other: the threads of
the multi-thread adjustment; the single-thread adjustment, in memory or staged;
the segmentation; the transformation of reference frames; the part of the
import that decides which measurements stay and lists them; and, over these, a
run of the adjustment program with all its threads and the workflow of the
programs over the files of a project. The numerical work (forming and
inverting normal matrices, geodesy, transformation parameters) is not modelled:
a matrix or a coordinate is represented by what has gone into it.

## Inventory

| Component | Source | State | Operations | Hard behaviour |
|---|---|---|---|---|
| Segmentation | `dnasegment/dnasegment.cpp`, `include/io/seg_file.cpp` | free stations, inner stations, junctions and measurements of the open block; the lists of closed blocks; network numbers | build first block, extend, finalise, build next block, verify | long sequences of moves between lists; block size limits; ignored measurements; networks that do not touch |
| Multi-thread phased adjustment | `dnaadjust/dnaadjust-multi.cpp` | per block the matrices of each direction, "adjusted" flags; exception pointers; iteration and status | forward, reverse, coordinator and worker threads; join, rethrow, next iteration | interleaving of four kinds of threads, failure of any, cancellation |
| Concurrent queue and flags | `include/thread/dnathreading.hpp` | queue, "more blocks coming", waiters; forward/reverse flags and running flags | push, pop, wait, notify, exhaust, reset | two mutexes, condition variable, lost notification |
| Preparation threads | `dnaadjust/dnaadjust-multi.cpp` | a queue of all blocks, exception pointers | prepare a block | one of several failing, early exhaustion |
| Single-thread phased adjustment | `dnaadjust/dnaadjust.cpp` | normals, estimates and rigorous coordinates of each block; appended junction measurements | forward, reverse, combine, Block-1 | order of carry, backup and restore of normals; constraints counted once |
| Staged adjustment | `dnaadjust/dnaadjust-stage.cpp` | matrices in memory-mapped files | load, unload, serialise, purge | matrices must be written back before they are dropped |
| Iteration control | `dnaadjust/dnaadjust.cpp` | iteration, largest correction, status, cancel flag, messages | iterate, validate, finalise | last permitted iteration, cancellation, lost update of the largest correction |
| Wrapper and progress thread | `dnaadjustwrapper/` | flags and messages read while the adjustment runs; times of the files | poll, show, join, report | last messages, status set late, exceptions anywhere, files of another import |
| Reference frame transformation | `dnareftran/`, `include/functions/dnatransparamfuncs.hpp`, `include/parameters/` | records with frame and epoch, parameters of the last pair | transform measurements, then stations; select, join, apply | stale parameters, missing pairs, undated WGS84, a stop between the two files |
| Import of the lists | `dnaimport/dnainterop.cpp` | association lists, measurements ignored or put aside | count, fill, ignore in rounds, add back | two passes that must count alike; one ignored measurement making another insufficient |
| Import, geoid, driver | `dnaimport*/`, `dnageoid*/`, `dynadjust/` | station and measurement files, metadata | write, interpolate, run the programs in order | programs repeated, failing or stopped; flags that say what was done to a file |
| Measurements | `include/measurement_types/`, `dnaadjust/dnaadjust.cpp` | a value, what it was before it was reduced, variances | restore, reduce, scale | a second reduction of the same file |
| Matrix library | `include/math/dnamatrix_contiguous.cpp` | dimensions, allocated memory | grow, shrink, algebra | limits of the allocated memory |
| Plot, printer, comparison, metadata, options, file formats | other directories | data of one run | formatting, parsing and I/O | none that a model of control would reach |

How they interact: import writes stations and measurements into two binary
files and the association lists; reftran and geoid change these files; the
segmentation reads the lists and writes the list of blocks (inner stations,
junctions, measurements, network number). The adjustment reads all of them,
tests by file times and metadata whether they belong together, and writes
adjusted coordinates and reduced measurements back. Its threads share the
matrices of the blocks, the queue of blocks to combine, the flags of adjusted
blocks, the exception pointers, the largest correction and the status; the
wrapper's progress thread reads flags, status and the iteration messages, and
the host may ask for cancellation. In staged mode every access to the matrices
of a block goes through the memory-mapped files.

What makes each correct:

* segmentation: every measurement in one block, every station finished once,
  a station only in consecutive blocks, network numbers that tell where
  junctions are handed on, an end for every input;
* multi-thread adjustment: no block forgotten, none combined early or from
  half-written matrices, no failure swallowed, an end whatever happens;
* phased adjustment: each measurement and each constraint contributes once to
  every rigorous estimate;
* iteration control: convergence is declared only when every correction is
  small, the status says what happened;
* a run of the program: every block prepared once, every correction shown once,
  no exception lost, an end however it comes about;
* import: the association lists are those of the records written, and only
  measurements that do not suffice are ignored, none is lost;
* reference frames: coordinates are in the frame and epoch of their label,
  whatever route they took there;
* the workflow: no reduction is applied twice, what was measured is never lost,
  and an adjustment does not work with files of different imports unnoticed.

## Modules

| Module | Models |
|---|---|
| `PhasedBlocks` | the flags of a block (first, last, isolated, intermediate) and between which blocks junctions are carried |
| `ConcurrentQueue` | the class `concurrent_queue`, one operator per critical section |
| `PhasedMultiThread` | `AdjustPhasedMultiThread` and all its threads |
| `PhasedMultiThreadInv` | the inductive invariants of the thread protocol, of the rows of the matrices and of their contents |
| `PhasedMultiThreadProofs` | proofs: types, the protocol, and the rows of the matrices |
| `PhasedMultiThreadRigorous` | proofs: the contents of the matrices |
| `MCPhasedMultiThread` | instances for TLC |
| `PreparationThreads` | the coordinator and the pool that prepare the blocks, over `ConcurrentQueue` |
| `AdjustmentRun` | the adjustment program: main thread, progress thread, iterations and the pool of `PreparationThreads` |
| `AdjustmentRunInv` | its inductive invariant |
| `AdjustmentRunProofs` | its proofs |
| `Segmentation` | the segmentation algorithm |
| `BlockChain` | the abstract chain of blocks the adjustment relies on |
| `SegmentationInv` | the inductive invariants of the segmentation, and what the adjustment assumes of its blocks |
| `SegmentationProofs` | its proofs, with the refinement of `BlockChain` |
| `MCSegmentation` | instances for TLC |
| `NetworkInformation` | stations in consecutive blocks, and what bears on a block |
| `RigorousAdjustment` | the abstract promise of a phased adjustment |
| `PhasedAdjustment` | `AdjustPhased`, `AdjustPhasedBlock1`, staged or in memory, and the statistics |
| `PhasedAdjustmentInv` | its inductive invariant: what every block holds at every point |
| `PhasedAdjustmentProofs` | its proofs, with the refinement of `RigorousAdjustment` |
| `MCPhasedAdjustment` | instances for TLC |
| `HelmertParameters` | the published parameters between frames, as a table of pairs and directions |
| `ReferenceFrameTransformation` | runs of reftran over the records of a network |
| `ReferenceFrameTransformationInv` | its inductive invariants |
| `ReferenceFrameTransformationProofs` | its proofs |
| `MCReferenceFrameTransformation` | instances for TLC |
| `NetworkImport` | the association lists and the rounds of ignoring insufficient measurements |
| `NetworkImportInv` | its inductive invariant |
| `NetworkImportProofs` | its proofs, and those of the sums and selections it uses |
| `MCNetworkImport` | instances for TLC |
| `Workflow` | import, reftran, geoid, segment, adjust and the driver over the files of a project |
| `WorkflowInv` | its inductive invariant |
| `WorkflowProofs` | its proofs |
| `MCWorkflow` | instances for TLC |

### PhasedMultiThread

The module composes `PhasedBlocks` and `ConcurrentQueue`. Each thread has a
program counter; an action is one critical section (a flag set or read, a queue
operation, a wait) or one function that works on the matrices of one block.
Threads of the code correspond to groups of actions:

* `Main`: the loop of `AdjustPhasedMultiThread`: starting an iteration, joining,
  rethrowing, `UpdateAdjustment` block by block, deciding about another
  iteration, the final status.
* `Forward`, `Reverse`: `adjust_forward_thread` and `adjust_reverse_thread`.
  They share the shape *solve, update, carry, set own flag, test the other's,
  queue the block*; the operators take the direction as a parameter where the
  code is a copy.
* `CombineThread`: the coordinator `adjust_combine_thread`, which waits for the
  first queued block, starts the workers, joins them and keeps their exception.
* `Worker(w)`: `adjust_process_combine_thread`: test for exhaustion (two
  critical sections), look for failures, pop, look again, prepare, solve,
  update, finalise.
* `CancelAdjustment`, `SpuriousWakeup`: the environment.

A matrix is a member of a small set that says what it holds, e.g. `v_normals_`
is *formed*, *carried* (junctions of the neighbour added), *solved*, *updated*,
*final*, or *spoiled*: computed while another thread wrote it, or from something
spoiled. The memory for the appended junction measurements is counted in sets
of rows. Exceptions are a Boolean per thread: whether its `exception_ptr` is
set. The exception pointers of other threads are read without a lock; a read
returns the value before or after a concurrent write. Three history variables
record what no code variable tells: whether the queue was declared exhausted
before a run had started, what was left in the queue, and how often a block was
queued.

### PreparationThreads and AdjustmentRun

`PreparationThreads` has the coordinator `adjust_prepare_thread` and the
threads `adjust_process_prepare_thread`, one action per critical section. The
queue is declared exhausted by any thread that finds it empty after a block of
its own, while others may still have blocks in their hands; after a failure the
others push a value that is no block and return.

`AdjustmentRun` extends it with the main thread, from the creation of the other
threads to the exit of the program, and the progress thread. The actions follow
the main thread through `PrepareAdjustment`, the iterations of
`AdjustSimultaneous` and `AdjustPhased` (which differ in where they notice a
cancellation; `Solve` allows both), `ValidateandFinaliseAdjustment` and the
wrapper. `PrepareAdjustment` is that of the multi-thread mode, the iterations
are those of the other modes: what the threads of an iteration do to each other
is the subject of `PhasedMultiThread`, and what they share with the rest of the
program (messages, flags, status) is the same. What a solution yields is left
open: it may throw, and the largest correction may be large or small.

`isPreparing_`, `isAdjusting_` and `adjustStatus_` are plain variables that the
progress thread polls. The stores of a function that reports an exception
(`SignalExceptionAdjustment`, `SetExceptionRaised`) are therefore separate
actions in either order (`Store`). The queue of iterations done is another
`concurrent_queue`, which nobody waits for, so it is modelled by its values.
`shown` is a history of the lines on the console.

### Segmentation

`Init` is the state after `PrepareSegmentation` for a network out of
`NetworkSet`, with any set of starting stations. A network says which stations
a measurement refers to and which of them are observed by an element that is
not ignored (a direction of a set can be ignored by itself). A cluster is one
measurement. The lists of the code are sets, since the code sorts them and
moves elements between them; which of several equally good stations comes first
is fixed (by number) for search level 0 and left open among the first five for
a deeper search. `BuildNextBlock` is one action up to its loop and
`ExtendBlock` one action per pass of the loop; `FinaliseBlock` stands for
`FindCommonMeasurements`, `MoveJunctiontoISL` and the storing of the block.

`BlockChain` says, without any of these lists, what a next block may be: it
takes over all junctions of the last block, its inner stations have all their
measurements in this block or an earlier one and at least one in this one, its
junctions have some left, and the network number grows exactly where nothing is
handed on. The refinement mapping is the identity, except that the number of a
block is visible to the chain only when the block is closed.

### PhasedAdjustment

The single-thread adjustment runs a fixed sequence of functions, so its
difficulty is not interleaving but what each of the sixteen matrices of a block
holds when it is used: normals are backed up, restored, extended by junctions,
inverted in place and overwritten; rows are appended for junctions and taken
off; coordinates are reset twice in an iteration; in staged mode half of it is
written to mapped files and half formed again.

A matrix of normals is represented by how often each *source* has gone into it:
the measurements of a block, or the constraint of a station
(`NetworkInformation`); constraints that were counted twice are subtracted, so
the counts are integers. Coordinates are a pair of the iteration and the
information they were adjusted from. Variances carried from a neighbour are the
inverse of its inverted normals for the junctions, and so stand for the same
sources. Design matrix and residuals are represented by the coordinates they
were computed at. A solution takes `corrections` from the normals; that the
rest of the equations fits the normals is the property `EquationsAgree`, not an
assumption.

Stations appear in consecutive blocks (`Appearance`), which is what
`StationsConsecutive` of `Segmentation` guarantees; the model takes every such
distribution of its stations. A block number has one meaning for both modules,
and `BlockFirst` etc. come from `PhasedBlocks` in both adjustments.

Each action is one function of a loop over the blocks: `AdjustForward` solves,
updates and shrinks, `CarryForward` carries, loads and unloads, and so on; the
names are those of the code. `EndIteration` leaves open whether the corrections
are small. The host may cancel at any time, also after the status is decided.
This is noticed where the code tests `IsCancelled`: between two iterations, two
blocks of a run and two blocks of `UpdateAdjustment`, of which the last call
belongs to the statistics (`LeaveLastUpdate`). Nothing else of the statistics
tests it. A solution may fail at any block.

`RigorousAdjustment` knows only the rigorous coordinates: a step gives one block
new ones, from everything joined to it, and no block is an iteration ahead of
one that is behind. In the refinement mapping the blocks promised are all
blocks, or the first of each network in Block-1 mode; the coordinates are
`v_rigorousStations_`, in memory or in the mapped file.

### ReferenceFrameTransformation

A record has a *label*, the frame and epoch the file states (epoch 0 where none
is given), and its *true* coordinates, represented by the frame and epoch they
really are in. A set of parameters is known by the pair it leads between, published
in that direction or reversed; applying it to coordinates of another frame, or for a date
they are not of, spoils them (`Transform7Parameter`). `HelmertParameters` is the
table of `determineHelmertParameters` and the eighteen functions below it, pair
by pair. The rest follows the code: which type of transformation a pair of
frames needs, the step by way of ITRF2014 where there are no parameters, the
join of two sets, the substitutes of WGS84, and the parameters of the last pair
that are kept from record to record, including what an exception leaves there.
The operators that transform yield the set of their results, which has one
member, so that a result is bound once and handed on (`Then`).
A run goes through the measurements, writes them, goes through the stations and
writes those; it may fail at a record or be killed at any step, and up to
`MaxRuns` runs follow one another, to any target.

### NetworkImport

A measurement is its type, the stations of its parts in the order of the file,
the positions of ignored directions and the two flags `m_bIgnore` and
`m_bInsufficient`. `asl` and `aml` are the association lists
(`vAssocStnList`, `vAssocMsrList`): for each station the number of its entries,
where they start and whether it is valid, and the entries, each the index of a
measurement in memory (`cls_msr`) or of its first record in the file
(`str_msr`). `Map` is `MapMeasurementStations`, which counts (`MapCount`);
`CompleteLists` is `CompleteAssociationLists`, which counts anew
(`EntryCount`), fills the list and advances the index (`Advance`). Both serve a
round of `IgnoreInsufficientMeasurements` (`DetectInsufficient`) and, after
`RemoveIgnoredMeasurements`, the lists for the files. What the records are is
counted separately by `CalcBinaryRecordCount`, as in the code, where each
measurement counts its own. The nested loops are stated by what they leave:
the stations' parts start where the counts of those before end (`Starts`), a
measurement's entries lie behind those for the measurements before it
(`Places`), and an entry is the last one written at its place (`Entry`). An
exception is thrown where a place is past the end. What the parser builds is
`WellFormed`: baselines come in pairs of stations, and a direction set has an
instrument station, a reference object and at least one direction, without which
both parsers reject it. A station that is not in the
station map ends the import; while measurements are ignored `main` does not
catch that exception. Types that the code treats alike are represented by one
of them.

### Workflow

A file is represented by the import it stems from, the program named in its
metadata and, for measurements, by what has gone into each value: the sequence
of geoid models whose N values were added, whether the value was converted, and
how often the variances were scaled. One measurement of each kind that is
treated differently is kept: an orthometric height (`H`), an arc at mean sea
level (`M`), a GNSS point in latitude, longitude and height (`Y`) and a GNSS
baseline (`G`). Of file times only comparisons matter, so `since` has for the
segmentation file and the stage files which inputs were written after them.

Each program is one action per file it writes; between two of them it may be
stopped (`Interrupt`), and before each it may fail (`Stops`). The driver
(`Invoke`) runs the programs asked for in its fixed order, which includes one
program by itself. An adjustment is loaded and reduced (`PrepareAdjustment`,
with the restoring of what a previous adjustment reduced), solved, finalised
and written back. `Accepted` is what the wrapper tests of segmentation and
stage files; a quiet call does not ask. The `modifiedBy` of a station file
written by import is either `import` or not set, because
`dnainterop.cpp:4845` fills in the metadata from a record that need not be
initialised.

## Runs

| Run | Instance | Shows |
|---|---|---|
| `MTInner` | 5 blocks in two networks (one with two inner blocks, one isolated block), 2 workers, 2 iterations | no block lost; combination only after both runs; rigorous estimates everywhere except where a known disturbance says otherwise; appended rows fit the memory |
| `MTFailures` | 3 blocks, any block may be singular in any thread, cancellation at any time, 2 iterations, fair scheduling | no failure is swallowed; unless it is cancelled the adjustment ends |
| `MTCancel`, `MTConverged` | 3 blocks, 1 worker | findings, see below |
| `SegNetworks` | all networks of 5 stations and 4 two-station measurements, and of points and clusters of any size, blocks of two stations, search level 1, all choices of starting stations | nothing lost or used twice, consecutive stations, verification, refinement of `BlockChain` (with the network numbers), the segmentation ends |
| `SegIgnored` | direction sets with one ignored direction, contiguous blocks forced | finding, see below |
| `PhasedNetworks` | 6 blocks in 3 networks (a chain of three, one isolated, a pair), 5 stations in every distribution, 3 iterations, phased and Block-1, failures and cancellation | the equations solved belong together; the corrections judged are the rigorous ones; a run that reports success is complete; precision and chi-square are of the result, for every block that the last update has reached, and every block is one unless the host cancels meanwhile; refinement of `RigorousAdjustment` |
| `PhasedStaged` | 4 blocks of one network, 4 stations in every distribution, 2 iterations, staged | the same with mapped files; at most two neighbouring blocks in memory |
| `RefTransform` | 2 stations, measurements of types G, D and Y, mixtures of static, dynamic and WGS84 labels and every frame by itself, every target but two, 2 runs | labels stay true, the parameters kept are those of the pair, success means complete, failures only for known reasons, stations never before measurements |
| `Workflow` | 2 networks, 2 geoid models, each program by itself, the driver with three and with all, any number of calls | what was measured can be told from the files; no reduction twice; N values of the stations; segmentation and stage files of the right import; the success the driver reports |
| `AdjustmentRun` | 2 blocks, 3 preparing threads, 2 iterations, exceptions anywhere, cancellation at any time, fair scheduling | each block prepared once, and all before the adjustment; each correction shown once, in order; the status; the program ends |
| `Import` | 4 stations, one of them constrained or none; up to 3 of 11 measurements (clusters, direction sets, ignored ones, an unknown station), up to 5 in a chain of single measurements, or a direction set with others; each option; fair scheduling | the lists written fit the records written; the rounds leave the largest sufficient network and keep what they ignore, apart from the direction sets named below; the import ends |

`TypeOK` of every component, and the inductive invariants `ProtocolInv`,
`RowsInv`, `ContentsInv`, `ChainInv`, `PhasedInv`, `RunInv`, `LabelsInv`,
`FilesInv`, `ImportInv`, `Inv`, `RoundsInv` and `BlocksProper`, and
`FitsAdjustment`, hold on the same instances; they are not among the properties
of the runs, but proved (see Proofs).

Why the bounds are enough. Two inner blocks are the least for which the queue
holds more than one block and two workers interfere; three blocks have each
role of a block once; the fifth block of `MTInner` adds a network border and an
isolated block. Two iterations are needed to see state that survives an
iteration (flags, queue, exception pointers, rows). More workers only repeat
what two do to each other; the workers are symmetric and treated so in the
safety runs. In the segmentation, five stations in a line with blocks of two
stations give chains of blocks, with junctions that stay junctions over several
blocks, and networks that fall apart; clusters give measurements that span the
border between blocks. Forced contiguous blocks pass the same properties on this
instance; one run keeps the setting in which networks are numbered, and the
theorems hold for both. In the single-thread
adjustment four blocks in a row have two neighbouring inner blocks, so that a
combination follows a combination, and stations that run through two inner
blocks; fewer stations than borders give empty junction lists, which
`force_contiguous_blocks` produces. A third iteration repeats the second from
the same state of the matrices, apart from the round of the coordinates.
Stations are numbered in the order of their placement: the model treats all
alike, so other orders differ only by names.

With three preparing threads and two blocks one thread finds nothing to do, two
hold a block when the queue is declared exhausted, and one can still be about
to pop when another fails. Two iterations give a message that is still queued
when the next is done. In `RefTransform` the second run starts from files that
are complete, untouched, or transformed in the measurements only, in any frame
of the first target; a third would start from the same kinds of files. Two
networks are the least for files of different imports, two geoid models for a
model that replaces another; sequences of N values are bounded by the
properties themselves, and every call can be repeated for ever.

Four stations hold a chain in which ignoring the measurement of the last makes
that of the one before insufficient, and so on over several rounds, and a
direction set with two targets, which can be ignored for each of its stations.

Deadlock is checked in every run but `RefTransform`, which stops when the
permitted number of runs is used up; a finished program stutters
(`Terminated`).

Fairness. `FairSpec` of `PhasedMultiThread` assumes weak fairness of each
thread: an operating system thread that can run is scheduled eventually. No
fairness is assumed of cancellation or spurious wake-ups, and no mutex needs
any: a critical section is one step. `FairSpec` of `Segmentation` and of `NetworkImport`
assume that the one thread goes on. `FairSpec` of `AdjustmentRun` assumes the same of the
main thread, the progress thread (which sleeps for a fixed time between looks),
the coordinator and each preparing thread. None is assumed for programs of the
workflow, which a user may or may not call.

### Findings

The *violation* runs check what a comment says and the code does not do:

* `MTCancel`: a cancellation while the coordinator waits for its first block
  leaves the main thread in `join` for ever.
* `MTConverged`: a multi-thread adjustment that converges in the last permitted
  iteration is reported as not converged. (`StatusTells` of `AdjustmentRun`
  holds for the other modes, which look at the correction as well.)
* `SegIgnored`: a direction set with an ignored direction to a station that
  nothing else observes can be left out of all blocks while the segmentation
  reports success.

Observations without a run of their own, found while modelling; where a
property holds only apart from one of them, its statement names it:

* The reverse run writes the final estimates of the first block of a network
  into its forward matrices while the forward run may use them
  (`dnaadjust.cpp:3702`); `RigorousUnlessDisturbed` says how far that reaches.
* Both runs can queue the same block (set and test are two critical sections),
  and a run that ends before the other has started declares the queue exhausted
  while inner blocks are still to come. `RigorousUnlessDisturbed` and `RowsFit`
  state what holds in spite of this: the rows fit even if two workers have the
  same block, but not necessarily if a premature end leaves it to the next
  iteration.
* When the permitted iterations are used up, an adjustment in memory forms the
  normals once more for an iteration that does not come, and the precision of
  the adjusted measurements is computed from normals that were never inverted,
  for all blocks but the last of a network (`dnaadjust.cpp:2584`; the
  multi-thread adjustment has the same call, `dnaadjust-multi.cpp:226`).
  `StatisticsRigorous` excepts this case.
* A cancellation that comes after `ValidateandFinaliseAdjustment` has decided the
  status makes `UpdateAdjustment(false)`, which `GenerateStatistics` calls, break
  off before its next block (`dnaadjust.cpp:458`). The statistics are computed
  and printed all the same, and the status stays `ADJUST_SUCCESS`. Of the blocks
  it has not reached, the last of a network is not "backed up" as the comment at
  `dnaadjust.cpp:6711` says: in memory its precisions use the reverse run's
  solution of the block alone, and the residuals of all of them are those of the
  coordinates the last iteration started from; staged, they are formed at
  the solution of the block alone. `StatisticsRigorous` says how far this goes:
  it spares the blocks before, and the rigorous coordinates of all.
* Chi-square of a staged adjustment comes from the residuals at the coordinates
  the last iteration started from; within the threshold after convergence, not
  when the iterations are used up. `StatisticsRigorous` says so.
* A staged adjustment of several networks never loads the first block of a later
  network in the forward run nor the last block of an earlier one in the reverse
  run (`force_contiguous_blocks`, on by default, joins the networks;
  `StageAssumption` excludes the case). Block-1 mode of a network whose first
  block is isolated solves nothing. `UnloadBlock` passes a count of 16 with 15
  arguments.
* `IgnoreInsufficientMeasurements` ignores a direction set whose instrument
  station or reference object is insufficiently measured, but breaks off
  (`dnainterop.cpp:6012`, `dnainterop.cpp:6022`) before it puts the set aside,
  as it does with all others, to "add the insufficient measurements back to the
  final vector" (`dnainterop.cpp:6072`). If another measurement is put aside in
  the same round the set is lost; if not, the rounds end there, before
  measurements that depended on it are found. `InsufficientAddedBack` and
  `LargestSufficient` except such sets (`NotPutAside`).
* Joins of NAD83 from or to a static frame need two epochs and have one, and the
  pair ITRF2014-to-ITRF1988 selects the parameters of ITRF1989; both targets
  are left out of `RefTransform`.
* A segmentation made from an earlier import is accepted without a question once
  reftran or an adjustment has changed the measurements after the import,
  because the test of the times applies only while import was the last to
  modify them (`dnaadjustwrapper.cpp:1215`); `SegmentationCurrent` excepts it.
* geoid after reftran sets the current height of a station given with an
  orthometric height to the initial height plus the N value
  (`dnageoid.cpp:175`), which discards the height reftran has computed; a staged adjustment that reuses its files
  after reftran uses coordinates in the old frame; a preparation that is killed
  leaves incomplete stage files.
* The progress thread may see that the preparation has not begun and take it for
  finished; the exit status after a cancellation is success; a value pushed
  after a failed preparation stays in a global queue.

## Proofs

TLAPS proves, for every number of blocks, every division into networks, every
set of workers, every iteration limit and every set of failing blocks:

* `PhasedMultiThreadProofs!TypeCorrect`: `Spec => []TypeOK`.
* `PhasedMultiThreadProofs!NoBlockIsLost`: inductive by itself with the types:
  a run sets its flag before it tests the other's, so of two runs at the same
  block one sees both flags.
* `PhasedMultiThreadProofs!ProtocolCorrect`: the inductive invariant
  `ProtocolInv`. Threads exist only between creation and join (`Quiet`); an
  exception is kept until the thread that joins its owner has seen it
  (`FailuresKept`); a run queues only inner blocks both have marked
  (`RunsMark`); so the queue and the hands of the workers hold only blocks that
  may be combined, or the wake-up value while a failure is pending
  (`QueueCorrect`, `WorkersCorrect`). `OnlyAdjustedCombined` and
  `NoFailureIsSwallowed` follow.

* `PhasedMultiThreadProofs!RowsCorrect`: the inductive invariant `RowsInv`, from
  which `RowsAlwaysFit` follows. The difficulty is that a block can be queued
  twice, so that a worker prepares it (appends a set of rows) before or after
  another has combined it (takes its sets off), and that each takes off what it
  counted when it prepared. What decides is a count: how many of the times the
  block was queued are still to be prepared, in the queue or in the hands of a
  worker (`Waiting`). `RowsAfterCarry` gives for each number of rows how that
  count relates to `pushes`, and which worker is between the two
  (`OnePreparer`); `RowsBeforeCarry` says what a block may have left from the
  iteration before. The rest is there to get from one iteration to the next.
  A block is queued at most once by each run, and not before both marked it
  (`PushesBounded`); a run that ends has been over all blocks and marked them
  (`RunsProgress`); the queue is declared exhausted when no run will queue any
  more, or prematurely, and then all that is queued comes from one run alone
  (`QueueExhausts`); the workers leave nothing in it but what was queued after
  that (`WorkersDrain`). So where an iteration ends well, each inner block was
  queued (`NoLostBlock`) and what is left of it in the queue was queued once
  (`IterationEnds`). Blocks that are not combined get one set from the block
  after them, which `FinalReverse` takes off (`OuterRows`).

* `PhasedMultiThreadRigorous!ContentsCorrect`: the inductive invariant
  `ContentsInv`, from which `AlwaysRigorous` follows. It holds on top of
  `ProtocolInv` and `RowsInv` and speaks of what the matrices hold as long as
  the queue has not been exhausted prematurely and the adjustment is not given
  up (`Undisturbed`). Until then nothing is left over from an earlier iteration
  (`NothingLeftOver`), and a run marks a block only after its work on it
  (`MarkedLate`); so a worker that has a block finds the work of both runs done.
  For every block the places of the two runs tell what the forward and the
  reverse matrices hold (`ForwardOf`, `ReverseOf`), and `CombinationOf` what
  becomes of an inner block: it is in the queue, in the hands of one worker, at
  whose position its matrices are the right ones, or rigorous. A worker
  combines with one set of rows because of `RowsInv`, and the next iteration
  starts from matrices as the first did because of `IterationEnds`. Of a block
  that was queued twice nothing is claimed. Where the reverse run has written
  into the matrices of the first block of a network under the forward run, what
  is carried from there is spoiled, block by block, and the invariant excepts
  the blocks it has reached (`SpoiledSinceFirst`); behind the forward run this no
  longer changes (`SpoiledKept`).

The assumptions are those of the modules: at least one block, a finite number
of workers, at least one, the wake-up value is no block.

For every number of blocks and networks, every distribution of the stations,
any limit of iterations, in memory, staged or Block-1, with failures and
cancellation anywhere:

* `PhasedAdjustmentProofs!PhasedInvariant`: the inductive invariant `PhasedInv`,
  one conjunct for each loop of the algorithm. The blocks behind the current one
  are in one state, those ahead in another, the current one in one that depends
  on the position. The heart of it is what goes into the normals: `Forwards(b)`
  is everything that a chain of junctions brings to `b` from the blocks before,
  `Backwards(b)` the same from the blocks after, and the two meet in the
  measurements of `b` alone, which is why copying, extending, subtracting the
  doubled constraints and restoring yields `Whole(b)`, each source once.
  `CorrectionsAreJudged`, `SuccessIsComplete`, `StatisticsAreRigorous`,
  `FewBlocksInMemory` and `EquationsDoAgree` follow. For the statistics the
  invariant says of how many blocks the last update has reached only that there
  is such a number (`ComputedAfter`), the number of all blocks unless the run is
  cancelled: the blocks before it are `Final`, the others still as the iteration
  has left them (`Finished`), and the statistics so far are of the one or the
  other.
* `PhasedImplementsRigorous`: the adjustment implements `RigorousAdjustment`.
  A step of the algorithm gives at most one block new rigorous coordinates, and
  no block is then an iteration ahead of one that is behind.

The assumptions (`StageAssumption`, `PlacementsAssumption` and the others) are
those the modules state and TLC evaluates.

For two stations with any labels, any list of measurements, any targets and any
number of runs of reftran, each ending as it may:

* `ReferenceFrameTransformationProofs!RunInvariant` (a lemma): the inductive
  invariant `RunInv`. The records before the current one have the target's
  label, those from it on are those of the file (`Measuring`, `Stationing`); the
  parameters kept belong to a pair that leads to the target or to ITRF2014
  (`CacheSound`). `TypeCorrect`, `SuccessIsComplete`, `MeasurementsFirst` and
  `FailuresHaveAReason` follow, the last by going through the table of
  parameters: pairs without an entry are those the step over ITRF2014 covers.
* `CacheFits` holds if no target is in ITRF1988. The code selects the parameters
  of ITRF1989 for the pair ITRF2014-to-ITRF1988 (see Findings), so what is kept
  is not of the pair.
* `FilesTellTheTruth`: the invariant `LabelsInv`, that each record in memory or
  on disk truly has the frame and epoch of its label. Its assumption `Supported`
  excludes targets in ITRF1988 for the same reason, and NAD83, whose joins from
  or to a static frame need two epochs and have one.

For every finite network and all settings of the segmentation:

* `SegmentationProofs!ChainCorrect`: the inductive invariant `ChainInv`. Every
  valid station is free, a junction, an inner station of the open block or one
  of a closed block, and only one of these (`StationsApart`); likewise for live
  measurements (`MeasurementsApart`); inner stations have no available
  measurement and free ones no used one (`UsedUp`); every station of the open
  block is there because of a measurement (`Connections`); what the last block
  handed over is still there (`HandedOver`). `Consecutive`, `Verified` and
  `NumbersTellJunctions` follow.
* `MeasurementsInOneBlock`, `StationsInnerOnce`: if every measurement is
  observed as a whole or ignored as a whole, a successful segmentation uses each
  once and finishes each station once. The assumption is the one `SegIgnored`
  shows to be needed.
* `ChainImplemented`: the segmentation implements `BlockChain`, also with
  ignored directions.
* `BlocksFitAdjustment`: under the same assumption a successful segmentation gives
  the adjustment what `PhasedBlocks` and `NetworkInformation` assume
  (`BlockCountAssumption`, `NetOfAssumption`, `PlacementsAssumption`, here with
  blocks counted from one): each station has a first and a last block
  (`Appearance`), is in exactly those between them, all of one network number, as
  a junction in all but the last; no block is without stations
  (`FitsAdjustment`). It rests on `ChainInv` and on `BlocksProper`, inductive on
  top of it. So what is proved of the two phased adjustments holds for the
  segmentations proved correct here, given that the file carries the lists as
  they are.

For any networks, geoid models and calls of the programs:

* `WorkflowProofs!FilesInvariant`: the inductive invariant `FilesInv`. A program
  runs on files that exist (`Running`); a measurement in a file has had an N
  value at most once and is converted and scaled exactly if the metadata says
  it is reduced (`OnceInFile`), likewise in memory (`OnceInMemory`), where what
  is kept for the file is still the raw value (`RawKept`); the N values of the
  stations are those in their heights (`Geoidal`). `MeasurementsRecoverable`,
  `NothingReducedTwice` and `GeoidOfTheStations` follow. The point is that the
  flag, the values and what is kept of them change together in one write, and
  that every stop between two writes leaves a file of one kind or the other.
* `ImportInvariant`: with `SegmentationTold` and `StageFilesTold`, which say
  that a file made from other inputs is told by a time or by the metadata, and
  `Progress`, which says what a call of the driver has done so far.
  `SegmentationIsCurrent`, `StageFilesAreCurrent` and `SuccessIsTrue` follow.

For any number of blocks, preparing threads and permitted iterations:

* `AdjustmentRunProofs!Invariant`: the inductive invariant `Inv`, in three
  parts. The pool (`PoolInv`): a block is queued once, in the hands of one
  thread or prepared once, never two of these (`QueuedOnce`, `InOnePlace`), and
  without a failure always one of them (`InSomePlace`); a thread returns only
  when the queue is empty, which it then remains (`QueueEmptied`), or after a
  failure, which is what the value that is no block tells (`WokenByFailure`);
  the coordinator has joined all threads before the main thread goes on
  (`Started`, `Joined`). So when it has joined them without a failure, no block
  is queued or held, and `AdjustmentPrepared` follows; `BlocksPreparedOnce` is
  `InOnePlace`. The messages (`MessageInv`): what has been shown, what the
  progress thread is about to show and what is queued are the iterations in
  order (`InOrder`), and how far they are behind the iterations depends only on
  where the main thread is (`InStep`); the queue is empty when the wrapper goes
  on (`ProgressJoined`). `CorrectionsToldInOrder` follows. The status
  (`StatusInv`), from which `StatusTrue` follows.

The assumptions are again those of the modules: at least one block, one
preparing thread and one permitted iteration.

For any stations, measurements and options of an import:

* `NetworkImportProofs!RoundsInvariant`: the inductive invariant `RoundsInv`.
  Wherever lists exist they are those of the measurements in hand (`Listed`);
  in the rounds each measurement is in hand or put aside, once, and what is in
  hand is not yet found insufficient (`Accounted`). `AddedBack` follows.
* `FailsForUnknownOnly`: the second pass never writes past the end of the vector
  whose size is what the first pass counted, although the two count
  differently (`MapCount`, `EntryCount`). The second count is at most the first
  for each station (`EnteredFit`), the parts of the stations follow each other
  (`PartsFollow`), so each entry is within its station's part and at no other
  entry's place (`PlaceWithin`, `PlaceOnce`). So nothing is overwritten, and
  the lists hold what `Completed` says.
* `ListsAlwaysFit`: in the file the index advances by exactly the records a
  measurement makes. For a cluster of `n` parts that is a sum of `n` terms on
  one side and a formula with `n * (n - 1) / 2` on the other
  (`ClusterRecords`).
* `LargestIsLeft`: no round takes a measurement of a set that stands by itself,
  because a station with only one measurement left would depend on that one
  in the set too; and a round that puts nothing aside has found no insufficient
  station, so that what is left stands by itself (`Largest`).
* `RoundsAlwaysShrink`: after a round that another follows there are fewer
  measurements, which bounds their number. That the import ends also needs
  fairness and is only model-checked.

`ListsAlwaysFit` and `LargestIsLeft` assume `MentionedOnce`: no measurement of
one to three stations and no point cluster mentions a station twice. The code
gives such a station two entries for one measurement, and then counts two
measurements where there is one. The other theorems hold for these as well. TLC
evaluates the remaining assumptions on the instance of `Import`, where
`MentionedOnce` holds too.

What the lists hold are sums (`SumFunctionOnSet`) and selections defined by
recursion. The lemmas about them do not use the library's induction theorems but
the least member of a set of numbers (`SetInduction`): that the recursion has
a solution (`SumExists`, `PicksExist`), that any member can be taken out of a
sum first (`SumRemove`), sums of the first values (`SumToNext`, `SumToGrows`,
`SumToPlace`, `SumToOne`), and that selecting keeps each chosen member once
(`SelectedComes`).

Only model-checked: termination (`MTFailures`, `SegNetworks`, `AdjustmentRun`,
`Import`), since TLAPS proves no liveness under fairness.

## Not modelled

Most of the source is real arithmetic, tables of constants, generated XML
parsers, printing, plotting, options and file formats: sequential and
data-driven, with no control worth a model of this kind. The code with control
is a small part of the lines, and the definitions map only the lines they
stand for; widening the share of the source covered would mean modelling
formatting and arithmetic, where a model shows nothing a test does not.

* `hardware_concurrency()` returning 0, with which neither a combination worker
  nor a preparing thread is started, is excluded by `WorkersAssumption` and
  `PreparersAssumption`.
* The largest correction is compared and set without a lock by several threads
  (`dnaadjust.cpp:3692`). The models leave open in every iteration whether the
  correction is large, which covers a lost maximum but does not tell of one.
* Of the phased adjustment: output during the iterations and the statistics
  made for it, the statistics of Block-1 mode, staged adjustments that reuse
  the files of an earlier run (in `Workflow` only that they do), `--stage`
  together with Block-1 (the wrapper sets phased mode for `--stage`).
* Of a run of the program: report mode, quiet mode, Block-1, the files of
  results; the sequential preparation of a staged adjustment, which has no pool.
* Of the workflow: the association lists (`.asl`, `.aml`) as files of their own;
  import writes them after the binary files; the segmentation and the adjustment
  read them together with those.
* Of reftran: plate models other than one of all plates, the values of
  parameters, and the boundaries of plates.
* Of the import: parsing, the filters, renaming, splitting clusters, and the
  search for duplicate and similar measurements and near stations, which come
  between the rounds of `NetworkImport` and the lists for the files.
* Of the workflow: two programs on the same files at once, `--purge-stage-files`
  by itself, report mode, Block-1, import filters, and kinds of measurements
  that are treated as one of `H`, `M`, `Y`, `G`.

## Plan

1. The largest correction with its unprotected comparison, and a convergence
   that is declared in spite of a large correction.
2. Block numbers end to end: the lists the import writes as the network the
   segmentation starts from, the file the segmentation writes and the adjustment
   reads; so far `FitsAdjustment` links the two by its definition only.
3. Staged adjustments that reuse the files of an earlier run, with the offsets of
   the mapped regions.
4. Proofs: the assumptions of the two adjustments for segmentations of networks
   with ignored directions, where junctions can be left at the end.
