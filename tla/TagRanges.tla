----------------------------- MODULE TagRanges ------------------------------
(***************************************************************************)
(* The MPI tags of the windows of a job: rma_analyzer_start takes a range  *)
(* of tags from the table of its process, rma_analyzer_stop gives it back. *)
(* Nothing is agreed between processes: each of them picks the first free  *)
(* range, and the intervals of a window find their receive only when all   *)
(* processes of the window have picked the same.                           *)
(***************************************************************************)
EXTENDS Integers, Sequences, FiniteSets

CONSTANTS
  Procs,      \* the processes of the job; every window is over all of them
  Wins,       \* the windows of the program
  Calls,      \* the calls the program may make: a routine and its window
  RMA_ANALYZER_BASE_MPI_TAG, RMA_ANALYZER_MAX_EPOCH_NUMBER, RMA_ANALYZER_MAX_WIN,
  MaxEpochs,  \* bound: epochs of a window
  MaxOps      \* bound: calls of a process

ASSUME TagAssumption ==
  /\ RMA_ANALYZER_BASE_MPI_TAG \in Nat
  /\ RMA_ANALYZER_MAX_EPOCH_NUMBER \in Nat \ {0} /\ RMA_ANALYZER_MAX_WIN \in Nat \ {0}
  /\ {"create", "free"} \X Wins \subseteq Calls
  /\ MaxEpochs \in 0 .. RMA_ANALYZER_MAX_EPOCH_NUMBER /\ MaxOps \in Nat

Ids == 0 .. RMA_ANALYZER_MAX_WIN - 1

VARIABLES
  program,         \* the calls of the program, in the order each process makes them
  pos,             \* how many of them each process has gone through
  win_mpi_tag_id,  \* static int win_mpi_tag_id[RMA_ANALYZER_MAX_WIN]
  mpi_tag,         \* of each process and window
  count_epoch

tagVars == <<program, pos, win_mpi_tag_id, mpi_tag, count_epoch>>

\* No window: the tag of a window without a range is BASE - MAX_EPOCH_NUMBER.
NoTag == - RMA_ANALYZER_MAX_EPOCH_NUMBER - 1

Live(p, w) == mpi_tag[p][w] # NoTag

\* From the tag of a window without a range to that of the last range.
FirstTags ==
  RMA_ANALYZER_BASE_MPI_TAG - RMA_ANALYZER_MAX_EPOCH_NUMBER ..
    RMA_ANALYZER_BASE_MPI_TAG + RMA_ANALYZER_MAX_EPOCH_NUMBER * (RMA_ANALYZER_MAX_WIN - 1)

TagTypeOK ==
  /\ program \in Seq(Calls)
  /\ pos \in [Procs -> 0 .. MaxOps]
  /\ win_mpi_tag_id \in [Procs -> [Ids -> 0 .. 1]]
  /\ mpi_tag \in [Procs -> [Wins -> {NoTag} \union FirstTags]]
  /\ count_epoch \in [Procs -> [Wins -> 0 .. MaxEpochs]]

TagInit ==
  /\ program = <<>>
  /\ pos = [p \in Procs |-> 0]
  /\ win_mpi_tag_id = [p \in Procs |-> [i \in Ids |-> 0]]
  /\ mpi_tag = [p \in Procs |-> [w \in Wins |-> NoTag]]
  /\ count_epoch = [p \in Procs |-> [w \in Wins |-> 0]]

----------------------------------------------------------------------------
\* Mutant: the processes share one table.
FreeShared(p) == {i \in Ids : \A q \in Procs : win_mpi_tag_id[q][i] = 0}

Free(p) == {i \in Ids : win_mpi_tag_id[p][i] = 0}

\* rma_analyzer_get_tag_range_id: the first free range, or -1.
get_tag_range_id(p) ==
  IF Free(p) = {} THEN -1 ELSE CHOOSE i \in Free(p) : \A j \in Free(p) : i <= j

\* Mutants: the ranges are one tag too short; they are numbered from one.
TagFromOne(id) == RMA_ANALYZER_BASE_MPI_TAG + RMA_ANALYZER_MAX_EPOCH_NUMBER * (id + 1)
TagShort(id) == RMA_ANALYZER_BASE_MPI_TAG + (RMA_ANALYZER_MAX_EPOCH_NUMBER - 1) * id

Tag(id) == RMA_ANALYZER_BASE_MPI_TAG + RMA_ANALYZER_MAX_EPOCH_NUMBER * id

\* rma_analyzer_start.  Without a free range no entry is taken, and mpi_tag
\* comes from -1.
Start(p, w) ==
  /\ ~ Live(p, w)
  /\ win_mpi_tag_id' = [win_mpi_tag_id EXCEPT ![p] =
                          [i \in Ids |-> IF i = get_tag_range_id(p) THEN 1 ELSE @[i]]]
  /\ mpi_tag' = [mpi_tag EXCEPT ![p][w] = Tag(get_tag_range_id(p))]
  /\ count_epoch' = [count_epoch EXCEPT ![p][w] = 0]

\* Mutant: the first tag is not taken off.
FreedIdFromZero(p, w) == mpi_tag[p][w] \div RMA_ANALYZER_MAX_EPOCH_NUMBER

\* rma_analyzer_free_tag_range
FreedId(p, w) == (mpi_tag[p][w] - RMA_ANALYZER_BASE_MPI_TAG) \div RMA_ANALYZER_MAX_EPOCH_NUMBER

\* rma_analyzer_stop.  The write for -1 falls outside the table.
Stop(p, w) ==
  /\ Live(p, w)
  /\ win_mpi_tag_id' = [win_mpi_tag_id EXCEPT ![p] =
                          [i \in Ids |-> IF i = FreedId(p, w) THEN 0 ELSE @[i]]]
  /\ mpi_tag' = [mpi_tag EXCEPT ![p][w] = NoTag]
  /\ UNCHANGED count_epoch

\* The last call of p, an MPI_Win_free, returns once all processes have called it.
Returned(p) ==
  pos[p] > 0 /\ program[pos[p]][1] = "free" => \A q \in Procs : pos[q] >= pos[p]

\* Process p makes the call op, the next one of the program.
Follow(p, op) ==
  /\ op \in Calls /\ pos[p] < MaxOps /\ Returned(p)
  /\ pos' = [pos EXCEPT ![p] = @ + 1]
  /\ \/ pos[p] < Len(program) /\ program[pos[p] + 1] = op /\ UNCHANGED program
     \/ pos[p] = Len(program) /\ program' = Append(program, op)

\* The windows W of p begin an epoch: rma_analyzer_init_comm_check_thread.
Epoch(p, W) ==
  /\ count_epoch' = [count_epoch EXCEPT ![p] =
                        [w \in Wins |-> IF w \in W THEN @[w] + 1 ELSE @[w]]]
  /\ UNCHANGED <<win_mpi_tag_id, mpi_tag>>

----------------------------------------------------------------------------
(* Correctness. *)

\* The tag of the intervals of an epoch: mpi_tag + count_epoch.
EpochTag(p, w) == mpi_tag[p][w] + count_epoch[p][w]

\* Two windows of a process, each in an epoch, use different tags, as long as
\* no window has more than RMA_ANALYZER_MAX_EPOCH_NUMBER epochs.
TagsApart ==
  \A p \in Procs : \A v, w \in Wins :
    /\ v # w /\ Live(p, v) /\ Live(p, w)
    /\ count_epoch[p][v] \in 1 .. RMA_ANALYZER_MAX_EPOCH_NUMBER
    /\ count_epoch[p][w] \in 1 .. RMA_ANALYZER_MAX_EPOCH_NUMBER
    => EpochTag(p, v) # EpochTag(p, w)

\* A range is taken exactly while a live window uses it: none leaks.
RangesAccounted ==
  \A p \in Procs : \A i \in Ids :
    win_mpi_tag_id[p][i] = 1 <=> \E w \in Wins : Live(p, w) /\ mpi_tag[p][w] = Tag(i)

\* "Get the tag range that the RMA analyzer will be able to use for this
\* specific window": the processes of a window use one range for it, however
\* far each has come in the program.
TagsAgree ==
  \A p, q \in Procs, w \in Wins : Live(p, w) /\ Live(q, w) => mpi_tag[p][w] = mpi_tag[q][w]
=============================================================================
