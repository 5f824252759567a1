# Models, checks and proofs of the PARCOACH-RMA analyzer

PARCOACH-RMA detects data races between the one-sided communications (RMA) and
the local memory accesses of an MPI program while the program runs. A compiler
pass (or the dynamic linker) replaces the program's MPI calls, loads and stores
by handlers; the handlers describe each access by an interval of addresses, send
the intervals of remote accesses to the process whose memory they touch, and
compare the intervals of an epoch with each other.

This directory holds TLA+ models of that analyzer, the TLC configurations that
check them on small instances, and theorems checked by TLAPS. Paths below are
relative to the repository.

## The system and its parts

| Component | Code | State | Operations |
|---|---|---|---|
| Intervals | `src/core/interval.c`, `include/core/interval.h` | two 64-bit bounds, an access type, a notification ID | create, intersect and conflict |
| Interval tree | `src/core/interval_avl_tree.c` | a balanced tree by low bound | insert, delete, overlap search, free |
| Notification tree | `src/core/notif_avl_tree.c` | a balanced tree by notification ID, whose nodes point to intervals | insert, delete, find, free |
| Interval list | `src/core/interval_list.c` | a list, the store of a build without `USE_TREE` | insert, overlap search, free |
| Analyzer of a window | `src/core/rma_analyzer.c`, `include/rma_analyzer.h` | `struct rma_analyzer_state`: epoch number, counts of intervals sent (`array`) and received (`count`), `value`, `thread_end`, `active_epoch`, `from_sync`, `count_fence`, the tree, the checking thread | start, stop, init and clear of an epoch's thread, save, send, the thread itself |
| Notified communications | the same file, `*_notify` handlers | the two trees, `interval_mutex`, `notif_mutex` | save, clear from a notification ID |
| Tag ranges | `rma_analyzer_get_tag_range_id` and its callers | `win_mpi_tag_id`, `mpi_tag`, per process | take and give back a range |
| Windows of a job | `rma_analyzer.c`, `include/core/uthash.h` | the hash table `state_htbl` of each process | start, stop, look-up by handle, clear and restart of all windows |
| C handlers, static library | `src/static/lib/rma_analyzer_mpi_c_overload.c` | none of their own | `new_Win_*`, `new_Put`, `new_Get`, `new_Accumulate`, `new_Barrier`, notified calls |
| Load/store handlers | `src/static/lib/rma_analyzer_load_store_overload.c` | none | `LOAD`, `STORE` |
| Fortran handlers | `src/static/lib/rma_analyzer_mpi_fort_overload.c` | none | the same calls, arguments by address |
| Dynamic library | `src/dynamic/rma_analyzer_mpi_c_overload.c` | none | the MPI routines themselves |
| LLVM pass | `src/static/src/parcoachRMA.cpp` | none at run time | renames calls, inserts `LOAD`/`STORE` |

**Interaction.** On every process the *application thread* runs the handlers,
and `rma_analyzer_init_comm_check_thread` creates a *communication checking
thread* for each epoch of a window. A one-sided call saves the interval of the
origin's buffer in the caller's own tree, sends the interval of the target's
memory with `MPI_Send` (tag: the window's first tag plus the epoch's number) and
counts it in `array[target]`. The target's checking thread receives it, moves it
to its own addresses, saves it in its tree and counts it. A handler that ends an
epoch sums `array` over all processes with one `MPI_Reduce` per process, stores
the sum in `value`, raises `thread_end` and joins the thread, which leaves when
`thread_end` is set and its count equals `value`; the tree is then freed. Threads
and handlers share `count`, `value` and `thread_end` without a lock, the tree
under `interval_mutex`, the notification tree under `notif_mutex`. Saving an
interval that conflicts with a stored one ends the job with `MPI_Abort`.

**What is hard.** Intervals and notifications in flight while processes are in
different epochs; termination by counting, read without a lock; a blocking send
inside a handler while other processes wait in a reduction; a thread that
outlives its epoch, or its window; two mutexes taken by two threads; trees whose
keys repeat; tags drawn by every process on its own. There is no persistence, no
retry and no timeout in this code, so crash recovery and lost or duplicated
messages do not arise (MPI delivers, in order per source and tag).
`PROJECT.json` lists the hazards line by line, with the properties that cover
each of them, or why none does.

**What makes it correct.** An epoch's clear returns only when every interval of
that epoch has been analysed, and none of another epoch (analyzer); a report is
of two conflicting accesses of one epoch, and a conflict in an epoch is reported
before the epoch ends (analyzer with an exact store); the tree keeps what it was
given, is balanced, and finds what overlaps (trees); a notified interval leaves
when its notification has been waited for (notified); two windows never share
tags and all processes choose the same (tags); a window is served by its own
state, thread, counts and tags whatever other windows do, and a barrier gives
every epoch the program is in a thread again (windows); the interval saved for a
call is the memory the call touches (handlers).

## The modules

`RmaAnalyzer` is the core. The others either are the data it is built from
(`Intervals`, the trees) or look at one part in more detail.

| Module | Models | State and actions |
|---|---|---|
| `Intervals` | `interval.c`, the expressions that build intervals | operators only; `AddrSpace` stands for 2^64 and sums wrap at it |
| `RmaAnalyzer` | one window, `N` processes: `rma_analyzer.c` driven by the C handlers | the fields of `struct rma_analyzer_state` by their names; `pc`, `call`, `dest`, `root`, `tmp`: where a handler is; `thr[p][k]`: the k-th thread of `p`; `net`, `red`: intervals and reductions in flight |
| `RmaAnalyzerInv` | the inductive invariant `IInv`, in named parts | |
| `RmaAnalyzerProofs`, `RmaAnalyzerAgreement` | its proofs: types, kinds of step and epochs; what all processes agree on and what is reported | |
| `AvlTree` | both AVL trees, as operators on tree values with the rotations and the deletion of the code; a C function that calls itself is a recursive function on `Subtrees`, the subtrees of the tree it is called with | |
| `IntervalTree` | `save_interval`, `delete_interval` and the clear of an epoch on the tree, and in step with it on the list of the other build | one action per critical section |
| `NotifTrees` | the interval tree composed with the notification tree | save, `clear_from_notif_id`, clear |
| `NotifTreesProofs` | the proofs about the three modules above: what the routines of a tree compute, and what the stores keep | |
| `IntervalStore` | the abstract store: a set, whose save may overlook but not invent a conflict | |
| `NotifiedRma` | the target of notified puts: its two threads and two mutexes, lock by lock, and the end of the epoch | the trees are sets |
| `TagRanges` | the table of tag ranges of every process | `Start`, `Stop`, `Epoch`, and `Follow`, the program's next call |
| `HashTable` | the macros of uthash the analyzer uses | operators on a table value: its items in order, its buckets of chains |
| `Windows` | the windows of a job side by side, composed of `TagRanges` and `HashTable` | the fields of each window's state; `pc`, `clearing`: where a handler is; `thr`, `tag`: the checking threads; `net`: intervals in flight |
| `EpochService` | what the analyzer of a window promises, abstractly | accesses pending and judged; `Make`, `Judge`, `Report`, `End`, `Close`, `Retire` |
| `RmaRefinement` | the mapping under which `RmaAnalyzer` implements `EpochService` | |
| `RmaRefinementProofs`, `NotifiedRmaProofs`, `AccessPairsProofs`, `WindowsProofs` | the proofs of that refinement and about the modules they are named after | |
| `WindowsEpochs` | more proofs about `Windows`: epochs that overlap | |
| `AccessPairs` | what the handlers of one-sided calls, loads and stores describe, against the bytes MPI touches | |
| `MCRmaAnalyzer`, `MCNotifTrees`, `MCWindows` | the instances TLC checks | |

How they fit: `RmaAnalyzer` uses a set for the store, with `UseList` telling
whether a save may overlook a conflict. `Trees` shows that the trees are such a
store when low bounds do not repeat (`ImplementsStore`, a refinement of
`IntervalStore`), and `TreeImplementsStore` proves it; the findings `TreeMisses` and
`TreeTwins` show why it is the weak one, and what goes wrong when bounds repeat. `ListReportsAll` relates the two
builds: what the tree reports the list has reported. `RmaAnalyzer` follows one
window in detail, with one range of tags; `Windows` follows several with less
detail and shows that they do not get in each other's way as long as the
processes end their epochs in one order. `RmaAnalyzer` implements
`EpochService`, which has no threads, tags, counts or reductions: an access is
judged once, in its epoch, and an epoch of a process's memory closes when every
process has ended it and all its accesses were judged. `RmaAnalyzer` takes
intervals as given; `Pairs` shows what they are for each call. `RmaAnalyzer` has
no notified calls; `NotifiedRma` has them, within one epoch and up to its end.

**Correspondence in `Windows`.** `Create`, `WinFree` and `Open` are whole
handlers. `Close` (unlock, complete and wait) and `EnterBarrier` begin the clear of
a window, `clearing`; a barrier goes on to the next active window in the order of
the table (`First`, `Left`). Of a clear `Reduce` is the loop of reductions and
`Join` the rest. `Reduce` is one step of all processes together, for
the window each of them has come to: that is how collective calls over one
communicator match. `value` and `thread_end` are stored by it together
(`thread_end` is an operator): that a thread might see one without the other is
`RmaAnalyzer`'s question. A barrier goes on with `Restart` and, in `PMPI_Barrier`,
`LeaveBarrier`; it restarts every window that a barrier has ever restarted,
`from_sync` being never reset, in an epoch of the program or not. The epochs that
begin outside one are `Strays`: the program of the model may call anything in them
but open or free that very window. `PostRecv` looks the window's state up by its handle, as
`rma_analyzer_check_communication` does, and halts the job if it is not found. A
window created after another was freed has the handle of the old one; `Life`
counts them, for the properties only. A table operation is one step: a look-up
beside an insertion or a deletion sees the chain before or after it, since
neither frees what a reader holds; an expansion does, and is a hazard no property
covers.

**Correspondence in `RmaAnalyzer`.** A synchronisation handler is split where it
blocks, where it communicates and where the thread may look at what it wrote:

- `LockAll`, `FirstFence`: the handler up to its return (they only start a thread).
- `UnlockAll`, `NextFence`, `Barrier` enter the clear (`BeginClear`); then
  `ReduceSend` / `ReduceRoot` per process, `FinishReduce` (stores `value`),
  `RaiseEnd` (stores `thread_end`), `Join` (`pthread_join` returns, the tree is freed and the flags
  reset), and what the handler does next: `FenceMid`, or `Restart` and
  `BarrierReturn`, or nothing (`AfterJoin`).
- `CommReports` / `CommSend` then `SendReturn`: the handler of a one-sided call.
  Sending and counting are two steps, since the target may receive the interval
  before the sender has counted it.
- `LoadStore`: `LOAD` and `STORE`, any time the epoch is active.
- `PostRecv`, `Receive`, `Exit`: the thread posts its `MPI_Irecv`; `MPI_Test`
  finds a message; or it leaves. A receive that is cancelled after it has matched
  loses the message, which the model allows (`Exit`'s last disjunct); that none is
  ever lost is a consequence of the counting.

The program is any sequence of synchronisation calls over `Ops`, the same on
every process (collective calls; `PassCalls` and `DynamicCalls` are the calls that
reach a handler in a program compiled with the pass and in one that is
linked with the dynamic library, `SyncCalls` both), with one-sided calls, loads and stores at any
point MPI allows. `fence_end` is `MPI_Win_fence` when no communication follows.
`Disciplined = TRUE` leaves out two kinds of program: those that open a passive
epoch after they have used fences (the last fence's thread is still running and a
second one starts, with one `threadId`), and those that call a barrier outside
any epoch once they had one inside an epoch (finding `Stray`). `Buffered` says
whether MPI sends and reductions may complete locally or wait for their match:
MPI permits both, and `SpmdProtocol` and `Rendezvous` check one each. `NotifiedRma` splits the end of its
epoch in the same way: `Reduce` stores `value`, `RaiseEnd` raises `thread_end`,
`ClearTrees` follows the join. The order of the two stores is that of the code;
that a processor or a compiler may exchange stores to plain fields is not modelled.

`clears`, `analysed` and `accesses` are history: nothing the analyzer does
depends on them. They let the properties speak of what was sent and analysed, and
bound no behaviour.

## Runs

All runs take two processes, a window over two bytes or two windows without
contents, or the small sets of intervals named in the MC modules; each finishes
within four minutes, `SpmdProtocol` and `Windows` being the longest.

| Run | Instance | Shows |
|---|---|---|
| `SpmdProtocol` | any sequence of 3 synchronisation calls, all kinds; one put per target and epoch; buffered; a store that may overlook conflicts | `EpochComplete`, `NoStragglers`, `OneEpochPerTree`, `ThreadsOwned`, `AbortJustified`, `FreeIsClean` and the type invariant; `ImplementsService`, the refinement of `EpochService` |
| `Rendezvous` | the same with a get into the window and stores to it, an exact store, calls that complete on a match; fairness | `RacesCaught`, `AbortJustified`, `HandlersReturn`, and that `IInv`, the inductive invariant of the proofs, holds |
| `Trees` | 8 intervals with low bounds of their own, notification IDs in another order, one ID twice | the interval tree stays balanced (`AvlShape`) and in step with the notification tree (`SameNotified`, `FoundById`), lose nothing (`HoldsSaved`, `ClearsNoOther`) and implement the abstract store (`ImplementsStore`); the list build reports what the tree build does (`ListReportsAll`) |
| `Pairs` | every pair of calls of one language over 12 addresses, sizes 1 and 4, counts 1 and 2, displacement unit 2 | `DetectsSharedBytes`, for accesses whose displacement is the same in bytes, and `RemoteRacesDetected`, for any; in C programs and for what Fortran handlers are given as values |
| `Notified` | 3 notified puts, 2 local accesses, then the end of the epoch; fairness | `TreesAgree`, `EarlyIntervalsPurged`, `EpochLeavesNothing`, `EpochEnds` |
| `Windows` | 2 processes, 2 windows, any program of 6 calls (create, free, open, close, barrier; a barrier at any point, stray epochs included), one put per target and epoch; table with one bucket that expands at two items | `RangesAccounted`, `TagsApart`, `TagsAgree`, `TablesSound`, `TablesFind`, `TablesAgree`, `ReceivesOwn`, `NoIntervalLeft`, `ExpectedCounted`, `EpochsProfiled`; by deadlock checking, that every handler returns |

Runs in which TLC finds a violation, each of something the repository says of
itself (quoted under "findings" in `PROJECT.json`):

| Run | What happens |
|---|---|
| `Stray` | `from_sync` is set by a barrier inside an epoch and never reset. After the epoch's unlock, a barrier outside any epoch starts a checking thread; the window is profiled between epochs and the thread is still there at `MPI_Win_free`. |
| `TreeMisses` | `[0,9]` is stored below a root with a larger low bound; a query to the right of the root never looks at it. |
| `TreeTwins` | Deleting a node with two subtrees copies the leftmost node of the right subtree and then deletes, by low bound, a node that need not be that one: `[5,6]` is lost and `[5,5]` is there twice. |
| `NotifyLate` | The notification arrives before the checking thread has analysed the interval: the wait purges nothing (`delete_interval_tree` is then given the bounds of a NULL pointer) and the interval is stored afterwards. |
| `NotifyDeadlock` | The wait for a call holds `notif_mutex` and wants `interval_mutex`; the checking thread, saving the interval of that same call, holds `interval_mutex` and wants `notif_mutex`. |
| `MixedOrder` | Two windows are open on both processes; one unlocks the first and then the second, the other the second and then the first. Their reductions are over one communicator and are matched with each other: `value` of the first window is not the number of intervals sent to it. |

**Displacement units.** The analyzer is never told a window's displacement unit
(`rma_analyzer_start` has no such parameter) and takes displacements for bytes
(`rma_analyzer.c:370`): a target's interval is stored at `win_base + disp`, where MPI
touches `win_base + disp * disp_unit`. The programs under `tests` create their
windows with units of several bytes. `Pairs` therefore has a unit of 2.
`RemoteRacesDetected` says what is still true: all remote accesses are moved alike,
towards the start of the window, so two that share a byte are never told apart.
`DetectsSharedBytes`, the exact verdict, is about accesses whose displacement is the
same in bytes (`InPlace`): private memory, loads and stores, and targets at
displacement 0, or any if the unit is 1. It is false of the others: a put of one byte at
displacement 1 of that window and a store to that byte are not reported, and a store
to the byte before is. `OfValues` sets aside most descriptions of the
Fortran handlers, which multiply the size of a datatype by the address of the
count (`rma_analyzer_mpi_fort_overload.c:255`, 291, 293, 326, 328) and, but for a
put, send the address of the displacement (297, 332): `new_put_`, `new_get_` and
`new_accumulate_` compute that, and `OfValues` names the descriptions that do not
depend on where the arguments happen to lie.

**Bounds and why they are enough.** `MaxCalls = 3` is the shortest sequence in
which one process is in the epoch after the one another process has not closed,
and has a third call to make; in `SpmdProtocol` it gives fence-fence-fence,
lock-barrier-unlock, lock-unlock-lock, fence-fence-free and so on. `MaxSend = 1`
with two targets lets a process's interval count be 0 or 1 from each source,
which is enough for sums to be wrong; larger counts, more processes and longer
programs are covered by the proofs, which have no bound but "natural number" for
these. `MaxCalls` also bounds the number of threads of a process, as each call
creates at most one. `Stray` needs 4 calls (lock, barrier, unlock, barrier). Window and
intervals: the window has two addresses, so that overlap, adjacency and the
filter each occur. `Trees` has 8 intervals: a balanced tree of depth 4, single
and double rotations, and deletions of nodes with none, one and two subtrees; two of them
conflict with others and one ID occurs twice.
That ID does no harm there. For `delete_notif_tree` to drop the wrong interval takes
a node with two subtrees and on its right an ID twice, the leftmost of the two not the
first on the way down, as with five gets that read the bytes 1 to 5 under the
IDs 1, 2, 3, 3, 4, once ID 2 is waited for: `SameNotified` is false of them. `Pairs` takes 12 addresses so that a
window at 3 and private memory on both sides have accesses that touch, overlap
and miss, and a datatype longer than the displacement unit, so that accesses at different
displacements overlap. `Windows` needs 6 calls for the shortest programs of its kinds:
create, create, open, open, close, close; create, open, close, free, create,
open, where a handle and its range of tags are used again; create, create, open,
open, barrier, close; and 5 for a stray epoch: create, open, barrier, close, barrier,
with a call to the other window or a second barrier in it. `MaxEpochs = 3` is the
number of epochs of a range. It has as many ranges as windows, since there are never more.
A process puts to the other only: `RmaAnalyzer` has puts to oneself. The table
starts with one bucket instead of 32 and expands at two items instead of ten, so
that two windows make it expand; `TablesSound` takes nine
colliding keys through 9 insertions and deletions, until a table expands no more.
`MixedOrder` needs 5 calls.

Deadlock is checked in `SpmdProtocol` and `Windows` (the job ends in
`Terminating`), where it stands for a handler that never returns; the other runs stop where their bounds do, and `Rendezvous` checks by liveness that no
handler hangs.

**Fairness.** `FairSpec` of `RmaAnalyzer` assumes that the operating system runs
each thread of the process (weak fairness of `Progress` and `CheckThread`: the
thread polls with `MPI_Test` and never blocks, MPI progresses what is matched)
and that the program makes its next synchronisation call (weak fairness of
`SyncCall`): a process that never calls its unlock keeps the others in their
reduction. Nothing is assumed about one-sided calls, loads and stores. In
`NotifiedRma` both threads are scheduled and the origin goes on to the end of its
epoch (weak fairness of `Thread`, `App` and `Origin`); that a target which ends
its epoch gets through it (`EpochEnds`) rests on it; `NotifyDeadlock` violates liveness under that fairness, so no schedule is to blame.

Each property has a mutant in `PROJECT.json`: a small change of a definition
(`FinishReduceEndFirst`, `JoinableAtOnce`, `rightRotateDrops`, ...) under which TLC finds
the property violated on the same instance. The mutants stand in the modules just
before what they mutate and nothing else uses them.

## Proofs

TLAPS proves the theorems below for every value of the constants: any number of
processes, windows, calls and accesses, programs of any length, both kinds of MPI
and of store.

| Module | Theorem | Says |
|---|---|---|
| `RmaAnalyzerProofs` | `TypeCorrect` | `Spec => []TypeOK` |
| | `InvCorrect` | `Disciplined => (Spec => []IInv)` |
| | `StragglersNever` | no interval of an epoch is on its way to a process that has closed it (`NoStragglers`) |
| | `EpochsComplete` | at the join, exactly the intervals of the epoch have been analysed (`EpochComplete`) |
| | `TreesOfOneEpoch` | what is compared is of one epoch (`OneEpochPerTree`) |
| | `ThreadsJoined` | one thread at a time, none outliving its window (`ThreadsOwned`) |
| `RmaAnalyzerAgreement` | `FreesAreClean` | nothing is on its way to a window that is being freed (`FreeIsClean`) |
| | `AbortsJustified` | what is reported is a race (`AbortJustified`) |
| | `RacesAreCaught` | with the list, no epoch closes on a race it has analysed (`RacesCaught`) |
| `RmaRefinementProofs` | `Implements` | `RmaAnalyzer` implements `EpochService` (`ImplementsService`) |
| `NotifiedRmaProofs` | `NotifiedTypes`, `TreesAgreeAlways`, `PurgesLast`, `EpochsLeaveNothing` | the safety properties of the run `Notified` |
| `NotifTreesProofs` | `StoresHoldIntervals` | the stores hold intervals of the program's accesses (`TreeTypeOK`) |
| | `TreesStayOrdered` | both trees stay search trees with true heights (`Sorted`, `Measured`), equal keys included |
| | `ListBuildReportsAll` | a race reported with the tree is one reported with the list (`ListReportsAll`) |
| | `TreeStaysBalanced` | under `[]Apart`, the tree is balanced (`AvlShape`) |
| | `TreeHoldsSaved` | under `[]Apart`, it holds what was saved and not deleted (`HoldsSaved`) |
| | `TreesInStep`, `WaitFindsInterval` | under `[]Apart`, the notification tree points to the notified intervals stored, and a search by ID finds each (`SameNotified`, `FoundById`) |
| | `WaitsClearNoOther` | under `[]Apart`, a wait takes no interval but its own (`ClearsNoOther`) |
| | `TreeImplementsStore` | under `[]Apart`, the tree implements `IntervalStore` (`ImplementsStore`) |
| `AccessPairsProofs` | `PairsDetected` | for every displacement unit, accesses with the same displacement in bytes are reported exactly when they race on a byte (`DetectsSharedBytes`) |
| | `RemoteRacesReported` | for every displacement unit, no race of two remote accesses is overlooked (`RemoteRacesDetected`) |
| `WindowsProofs` | `RangesNeverLeak` | a range of tags is taken exactly while a live window uses it (`RangesAccounted`) |
| | `TagsNeverMeet` | with at most `RMA_ANALYZER_MAX_WIN` windows, two of a process use different tags (`TagsApart`) |
| | `TagsAlwaysAgree` | the processes of a window use one range (`TagsAgree`) |
| | `TablesAlwaysAgree` | a table iterates over the windows that exist, in the same order on processes that have made the same calls (`TablesAgree`) |
| | `TablesAlwaysFind` | a look-up finds the windows a table iterates over and no others, whatever their hash values, and no thread exits for a window it does not find (`TablesFind`) |
| | `TablesStaySound` | any sequence of additions and deletions, on any keys, leaves each key in the chain of its bucket, once (the first half of `TablesSound`) |
| | `EpochsAlwaysProfiled` | between the calls of any program a window has a thread exactly while it is active, and each the program is in an epoch of has one (`EpochsProfiled`) |
| `WindowsEpochs` | `ThreadsReceiveTheirOwn` | a receive matches intervals of its own window, life and epoch (`ReceivesOwn`) |
| | `ThreadsExpectWhatWasSent` | the number a thread is told to wait for is what was sent to its window (`ExpectedCounted`) |
| | `EndedEpochsLeaveNothing` | nothing is left to an epoch that has ended or to a window that was freed (`NoIntervalLeft`) |
| | `WindowsTypesCorrect` | the types, with the bound of sums and counts (`WindowsTypeOK`) |

`InvCorrect`, `FreeInvCorrect`, `RaceInvCorrect`, `NotifiedInvCorrect`,
`TagInvCorrect`, `CourseInvCorrect`, `EpochsInvCorrect`, `TreesInvCorrect` and
`ApartInvCorrect` state the inductive invariants.

**Assumptions.** The theorems about `RmaAnalyzer` but the first assume
`Disciplined`; without it `Stray` shows threads outside epochs. `TagsNeverMeet` assumes `FewWindows`, which is what the constant
`RMA_ANALYZER_MAX_WIN` is for: without a free range two windows have the tag of
none. The theorems of `WindowsEpochs` assume that too, and that the program is `Tidy`.
That is `Disciplined`, which in `Windows` says that a program calls barriers only in the
epochs of all windows a barrier has restarted, so that there are no stray epochs (the
course of stages in the proof has the program's epochs only; the run `Windows` checks the
four properties with `Disciplined = FALSE`), and `InOrder`, that the
processes end their epochs in one order: `MixedOrder` refutes
`ThreadsExpectWhatWasSent` without it, and a thread that leaves early leaves its
intervals behind. Six theorems about the trees assume `[]Apart`: of the intervals
stored at one time no two have one low bound, and no two that wait for a
notification have one ID. The analyzer does not see to it, and programs need
not: an array that is read twice in an epoch is enough for the first. `TreeTwins` shows what
becomes of `ClearsNoOther` otherwise, and the balance is lost as well (the rotations
of an insertion compare strictly). What holds of equal
keys too is stated without the premise. In `Windows`
one restriction on the program holds with and without `Disciplined`, in runs and proofs: it neither
opens nor frees a window while that has a stray epoch (`Strays`, in the guards of
`Open` and `WinFree`), which the code answers with a second thread or with a thread that
outlives its window; `Stray` is about `RmaAnalyzer`, which has both. Besides these there are the named assumptions on constants:
`AccessAssumption` says that a `LOAD` or `STORE` describes a local access, as both
handlers do, and that descriptions are intervals; `ItvsAssumption` and
`IdsAssumption` that intervals have bounds in the address space, a type of
access and an integer for an ID; the others give the constants their types.

**Epochs (`RmaAnalyzerInv`, `RmaAnalyzerProofs`).** `EpochComplete` is not
inductive: that the thread may leave rests on `value`, which rests on the
reduction, which rests on what each process had counted when it contributed,
which must be all it will ever send in that epoch. `IInv` states that chain:

- `ControlOK` ties the program counter to `open`, `active_epoch`, `from_sync`;
- `EpochOK` makes the number of clears the number of the epoch, on every process,
  so that the reductions of one clear are about one epoch (`Gave` says which
  contributions have been made);
- `ThreadOK`: only the current epoch's thread runs, with the current tag;
- `NetOK`, `TargetsOK`: the accesses to a process in an epoch are the disjoint
  union of those in flight and those analysed, and the numbers a source gave
  them are `1 .. SentCount`, the interval it is just sending included;
- `ReduceOK`, `ValueOK`: a contribution is the number of accesses of its source,
  so the sum is the number of all;
- `CountOK`: `count` is the number of intervals analysed.

When the thread finds `count = value`, the analysed set is a subset of the
expected one with the same cardinality, hence equal: nothing is in flight.
`RmaAnalyzerProofs` first sums up each action by its *effect* on the variables
that matter (`Opens`, `Sends`, `Joins`, ...) with one lemma that every step of
`Next` is one of the fourteen effects or stutters on them; the modules that follow
have, for each part of an invariant, one step per effect.

**What all processes agree on (`RmaAnalyzerAgreement`).** `IInv` mentions each
process only up to its `MPI_Win_free`: the free handler sets `value` to 0 without
a reduction. That nothing is in flight then is a fact about the whole program:
its calls lead through one *course* of stages (open or not, how many clears),
every process is at one of them (`Placed`), every one-sided call was made at a
stage that allows one (`SentAtStage`), and between such a stage and a later one
without an epoch there is a clear (`Later`). So every call to the freed window is of an
epoch that its target has closed, and `NoStragglers` applies.

**What is reported (`RmaAnalyzerAgreement`).** `RaceInv` says that the store holds
accesses of the program which have been analysed (`TreeOK`), that an access is
known by its epoch, its processes and its number (`TargetsApart`), and, for the
list, that nothing stored conflicts and everything analysed in the epoch is stored
(`ListOK`). With the tree only the first half holds: its search may overlook a
conflict (`TreeMisses`), and `RacesCaught` is about the list.

**Refinement (`RmaRefinementProofs`).** The interval that leaves in a one-sided
call is `Make`; receiving one is `Judge`; the beginning of a clear is `End`, the
join `Close` and `MPI_Win_free` `Retire`; a conflict found by a load, a store or the origin's side
of a call is `Report`; all else stutters. That a call is made only in an epoch its
target has not closed and that `Close` finds nothing pending come from `IInv`;
that `Retire` finds nothing comes from `FreeInv`.

**Notified calls (`NotifiedRmaProofs`).** `NotifiedInv` says who holds which lock
at each step, how the trees differ meanwhile (`TreesOK`: by the interval the
thread is entering and by the one the application is deleting), and that
intervals arrive in the order they were sent (`OrderOK`): so an interval that
was purged does not come again, and a thread that has counted `value` intervals
has seen them all.

**Trees (`NotifTreesProofs`).** A routine of the code that calls itself is a
recursive function on the subtrees of its argument. That there is such a function
is the first thing to prove of each: its equation has a solution, built one
height of trees at a time (`BelowExist`, `InsertExists`, `DeleteExists` and their like).
What the routines do is then said in three terms: the *entries* of a tree
(`Entries`, pairs of a key and an interval), its order (`OrderedBy(t, 0)`
where equal keys may meet, `OrderedBy(t, 1)` where they do not) and its balance;
that heights are true is part of being a tree (`IsTree`). `InsertIs`: an insertion adds one
entry, keeps the order, and the balance if the key is new. `DeleteIs`: a deletion adds
nothing, keeps order and balance, removes one node if there is one with the key,
and where keys differ exactly that key's. `OverlapIs` and `FoundIs` say what the searches
return, `FreeIs` that the rounds of a clear leave nothing. Each is proved by least
counterexample in the height of a tree, with the cases of the code; what one or two
rotations do to entries, order and heights are lemmas of their own. The
balance rests on how much a tree grows: an insertion raises it by one at most, and
then towards the key, which is what the code's comparison with the child's
key relies on; a deletion lowers it by one at most.

Two invariants follow. `TreesInv` needs no premise: the entries of both trees are the
program's intervals under their own keys, in order, and the list has what the
tree has unless it has reported. `ApartInv` holds in behaviours in which `Apart`
does throughout: the entries of the trees are *exactly* those of `saved`, in strict
order, the trees balanced. `HoldsSaved` alone is not inductive: that a deletion takes the
right node needs the order of the keys, and that a wait deletes the interval it
names needs the entries of the other tree. Where a key repeats, an insertion may leave
a node unbalanced, for none of the code's four comparisons is then true.

**Descriptions (`AccessPairsProofs`).** Of each kind of call, the stored interval
has the length of the bytes touched and begins at their first one, or, of a target,
where that would be if displacements were bytes (`Place`); two intervals of bytes
intersect exactly when they share a byte; and the bitwise or of two access types
is `RMA_WRITE` exactly for a race. Displacements in units are as far apart as in bytes or
farther (`UnitsWiden`), hence `RemoteRacesReported`. Programs are those whose accesses do not wrap around
the address space.

**Tags (`WindowsProofs`).** `RangesInv` is about one process: its live windows have
the tags of ranges, the taken ranges are theirs, and only windows without a
range share a tag. The ranges are apart by `RMA_ANALYZER_MAX_EPOCH_NUMBER`, so
the tags of epochs are. A new window finds a range by counting: were all
of them taken, each would have a window and the new one would be one too many.
That processes agree is about the program again: its calls lead through one
course of tables, since `rma_analyzer_get_tag_range_id` depends on nothing but the
table, and a window keeps its tag from a stage to a later one unless a free of it
lies between; `MPI_Win_free` returns only when all processes have called it
(`FreesBehind`), so none lies between two processes that both have the window.

**Tables and handlers (`WindowsProofs`).** `ProcessInv` is about each process by
itself: its table lists the windows that have tags (`TablesInv`), and `WindowsOf`
and `ThreadsOf` say, of each place a handler can be in, which windows are active,
which have been cleared by the barrier and wait to be restarted, and that a
window has a thread exactly while it is active. `EpochsAlwaysProfiled` is what
that says between calls. The course of the program here is one of *stages* that
hold all a process is left with by its calls: ranges, tags, the table, the open
windows and the number of epochs of each (`Led` says what one call makes of
them). A process inside a call has some of the next stage already, `Stage` says
which; that two processes at one stage have one table is `TablesAlwaysAgree`.

**Look-ups (`WindowsProofs`).** `BucketsOf` says that the chain of every bucket holds
the windows that hash to it, each once. Insertion and deletion change one chain;
an expansion takes each chain of the doubled table from one of the old, which is
where its keys were because `h % 2n % n = h % n` (`Halves`). What the loop over a chain
makes of it is a recursive function, `Fronts`, and proved by least
counterexample: that its equation has a solution (`FrontsExist`), and that the
solution keeps the keys of the bucket (`FrontsHold`). That a thread finds its window
is then `WindowsOf` again: a window with a thread is in an epoch, hence listed.

**Epochs side by side (`WindowsEpochs`).** The chain of `IInv` returns, for
several windows. A reduction is one step of all processes, each for the window it
is clearing, so the first thing to show is that they clear the same one:
`FirstInv` says that a barrier takes the active windows in the order of the table,
which is the same everywhere, and `InStep` that all processes are past the same
clears, those of earlier calls and those of the barrier they are in (`Cleared`).
Then nobody is past an epoch that another process is still in (`NobodyPast`).
`Counted` is the conservation law: as long as nobody is past an epoch, what
was received in it and what is on its way is what was sent in it, so the sum of the
reduction is right when it is made (`ReduceCounts`), and nothing more is sent
until the join (`NothingSent`): `ExpectedCounted`. A thread that has left has
received everything (`NothingComes`), hence `NoIntervalLeft`. `Witnessed` keeps,
for each interval on its way, the stage it was sent at, with the tag its window had
there. Between that stage and where the target is there is no free
(`NoFreeBetween`), for `MPI_Win_free` returns only when all have called it; so the
target's window has the same range, its epoch the same number, and by
`TagsNeverMeet` no other window could match (`OwnReceived`): `ReceivesOwn`.
The invariants need one another: that counts are of the right intervals rests on
`ReceivesOwn`, which rests on `NoIntervalLeft`, which rests on the counts.

**Only model-checked.** `HandlersReturn`, `EpochEnds` and `WaitReturns` are
liveness, out of the prover's reach, and so is the absence of deadlock.
Of `TablesSound`, `TablesStaySound` proves
what it asks of a table, for any keys and any number of calls; that nine calls on nine
colliding keys bring a table to the point where it expands no more (`noexpand`), so
that the run meets it, is a fact about that instance. That insertion, search and deletion take a number of steps
logarithmic in the number of intervals is in no property.

## Not modelled

- Of the LLVM pass, the transformation: `RmaAnalyzer` only says which calls it
  renames (`PassCalls`). Of the Fortran handlers, the window's size, and what
  a notified call does besides describing its accesses: the pass renames none in
  Fortran programs.
- Windows over different communicators: processes that create different windows
  draw different ranges, since each takes its first free one, `TagsAgree` is then
  false, and what a receive matches depends on the communicator. Fences together with several windows, and stored
  intervals of several windows: `RmaAnalyzer` has both for one.
- Post-start-complete-wait on a process that is origin and target of one epoch;
  `MPI_Barrier` over fewer processes than the window; `MPI_Win_lock` of one
  target from one process alone. The handlers are written for calls that every
  process makes once (see the hazards).
- An expansion of the hash table beside a look-up by a checking thread; hash
  functions, sorting and selection of uthash; debug fields, printing,
  statistics, `tree_size`; `core/interval_tree.c`, which no build file compiles.
- Calls that transfer nothing (count 0), windows allocated by
  `MPI_Win_allocate` (whose recorded base is that of the pointer), more windows
  than `RMA_ANALYZER_MAX_WIN`: hazards without a property, each with its reason
  in `PROJECT.json`.

## Plan

Done, the most important behaviour first: the epoch protocol (`RmaAnalyzer`, its
invariant and proofs), then trees, pairs and notified calls, then several windows
with their tags and tables, the end of an epoch with notified calls, the list
build, and the abstract epoch service; and the proofs above, those of the trees
last. What would come next is to state `Windows` as several instances of one
window: that each window of it goes through the steps of an abstract epoch service
of its own.
