---------------------------- MODULE RmaAnalyzer ----------------------------
(***************************************************************************)
(* The analyzer of one window: core/rma_analyzer.c driven by the handlers  *)
(* of static/lib/rma_analyzer_mpi_c_overload.c.                            *)
(*                                                                         *)
(* Every process runs an application thread, which calls the handlers, and *)
(* for each epoch a communication checking thread, which receives the      *)
(* intervals the other processes send about their one-sided accesses to    *)
(* this process.  A thread may stop when the owner has asked it to and it  *)
(* has received as many intervals as a sum over all processes promises.    *)
(* The tag of an interval carries the number of the epoch.                 *)
(*                                                                         *)
(* Stored intervals are a set here: what the list of interval_list.c       *)
(* answers exactly and what the tree of interval_avl_tree.c answers at     *)
(* least soundly (module IntervalTree models the tree itself).             *)
(***************************************************************************)
EXTENDS Intervals, Sequences, FiniteSets

CONSTANTS
  N,             \* number of processes of the window's communicator
  win_base,      \* address of the window on every process
  win_size,      \* its size in bytes
  FilterWindow,  \* RMA_ANALYZER_FILTER_WINDOW
  UseList,       \* TRUE: interval_list.c, FALSE: the tree, whose search may miss
  Buffered,      \* TRUE: MPI calls may complete locally, FALSE: only on a match
  Comms,         \* one-sided calls: [local |-> interval, target |-> interval]
  Touches,       \* intervals the program loads or stores
  Ops,           \* synchronisation calls the program may use
  Disciplined,   \* TRUE: the program avoids the two uses Barrier and LockAll name
  MaxCalls,      \* bound: synchronisation calls of a process
  MaxSend        \* bound: one-sided calls of a process to a target per epoch

ASSUME NAssumption == N \in Nat \ {0}
ASSUME BoundsAssumption == MaxCalls \in Nat \ {0} /\ MaxSend \in Nat
ASSUME WindowAssumption == win_base \in Nat /\ win_size \in Nat
ASSUME FlagsAssumption ==
  {FilterWindow, UseList, Buffered, Disciplined} \subseteq BOOLEAN
ASSUME AccessAssumption ==
  /\ Comms \subseteq [local : Interval, target : Interval]
  /\ Touches \subseteq {i \in Interval : i.access_type \in {LOCAL_READ, LOCAL_WRITE}}

\* The calls that reach a handler: the pass renames no fence, of C or of
\* Fortran, and the dynamic library has no MPI_Barrier.
PassCalls    == {"lock_all", "unlock_all", "barrier", "free"}
DynamicCalls == {"lock_all", "unlock_all", "fence", "fence_end", "free"}

SyncCalls == PassCalls \union DynamicCalls
ASSUME OpsAssumption == Ops \subseteq SyncCalls

Procs  == 0 .. N - 1
Epochs == 1 .. MaxCalls

VARIABLES
  \* the program, the same sequence of synchronisation calls on every process
  program, calls, open, arrived,
  \* the application thread inside a handler
  pc, call, dest, root, tmp,
  \* struct rma_analyzer_state
  count_epoch, thread_end, value, count, active_epoch, from_sync, count_fence,
  array, local_tree,
  \* the communication checking threads, the k-th one created being thr[p][k]
  thr, tag,
  \* MPI: intervals sent and not received, contributions to MPI_Reduce calls
  net, red,
  \* how the job ended
  halted,
  \* history: clears that reduced, intervals analysed and accesses made
  clears, analysed, accesses

envVars    == <<program, calls, open, arrived>>
appVars    == <<pc, call, dest, root, tmp>>
flagVars   == <<count_epoch, thread_end, active_epoch, array>>
threadVars == <<thr, tag>>
vars == <<program, calls, open, arrived, pc, call, dest, root, tmp,
          count_epoch, thread_end, value, count, active_epoch, from_sync,
          count_fence, array, local_tree, thr, tag, net, red, halted,
          clears, analysed, accesses>>

----------------------------------------------------------------------------
AppPC    == {"run", "send", "reduce", "join", "fence_mid", "restart", "sync", "freed"}
Handler  == {"none", "unlock_all", "fence", "fence_end", "barrier", "free"}
ThreadPC == {"none", "post", "poll", "done"}

Access == [dst : Procs, src : Procs, epoch : 0 .. MaxCalls, seq : Nat,
           side : {"target", "origin", "memory"}, itv : Interval]
Message == [dst : Procs, src : Procs, tag : 0 .. MaxCalls, epoch : 0 .. MaxCalls,
            seq : Nat, itv : Interval]
Contribution == [src : Procs, root : Procs, inst : Nat, n : Nat]

TypeProgram ==
  /\ program \in Seq(SyncCalls)
  /\ calls \in [Procs -> 0 .. MaxCalls]
  /\ open \in [Procs -> {"closed", "lock", "fence"}]
  /\ arrived \in [Procs -> Nat]

TypeHandler ==
  /\ pc \in [Procs -> AppPC]
  /\ call \in [Procs -> Handler]
  /\ dest \in [Procs -> Procs]
  /\ root \in [Procs -> 0 .. N]
  /\ tmp \in [Procs -> Nat]

TypeState ==
  /\ count_epoch \in [Procs -> 0 .. MaxCalls]
  /\ thread_end \in [Procs -> 0 .. 1]
  /\ value \in [Procs -> Nat]
  /\ count \in [Procs -> Nat]
  /\ active_epoch \in [Procs -> 0 .. 1]
  /\ from_sync \in [Procs -> 0 .. 1]
  /\ count_fence \in [Procs -> Nat]
  /\ array \in [Procs -> [Procs -> Nat]]
  /\ local_tree \in [Procs -> SUBSET Access]

TypeThreads ==
  /\ thr \in [Procs -> [Epochs -> ThreadPC]]
  /\ tag \in [Procs -> [Epochs -> 0 .. MaxCalls]]

TypeMPI ==
  /\ net \in SUBSET Message
  /\ red \in SUBSET Contribution /\ IsFiniteSet(red)
  /\ halted \in {"no", "race", "nostate"}

TypeHistory ==
  /\ clears \in [Procs -> Nat]
  /\ analysed \in [Procs -> SUBSET (Procs \X Nat)]
  /\ accesses \in SUBSET Access /\ IsFiniteSet(accesses)

\* The type invariant, over the program, the handlers, the analyzer's state,
\* its threads, MPI and the history.
TypeOK ==
  TypeProgram /\ TypeHandler /\ TypeState /\ TypeThreads /\ TypeMPI /\ TypeHistory

\* rma_analyzer_start: MPI_Win_create has returned everywhere.
Init ==
  /\ program = <<>>
  /\ calls = [p \in Procs |-> 0]
  /\ open = [p \in Procs |-> "closed"]
  /\ arrived = [p \in Procs |-> 0]
  /\ pc = [p \in Procs |-> "run"]
  /\ call = [p \in Procs |-> "none"]
  /\ dest = [p \in Procs |-> 0]
  /\ root = [p \in Procs |-> 0]
  /\ tmp = [p \in Procs |-> 0]
  /\ count_epoch = [p \in Procs |-> 0]
  /\ thread_end = [p \in Procs |-> 0]
  /\ value = [p \in Procs |-> 0]
  /\ count = [p \in Procs |-> 0]
  /\ active_epoch = [p \in Procs |-> 0]
  /\ from_sync = [p \in Procs |-> 0]
  /\ count_fence = [p \in Procs |-> 0]
  /\ array = [p \in Procs |-> [q \in Procs |-> 0]]
  /\ local_tree = [p \in Procs |-> {}]
  /\ thr = [p \in Procs |-> [k \in Epochs |-> "none"]]
  /\ tag = [p \in Procs |-> [k \in Epochs |-> 0]]
  /\ net = {}
  /\ red = {}
  /\ halted = "no"
  /\ clears = [p \in Procs |-> 0]
  /\ analysed = [p \in Procs |-> {}]
  /\ accesses = {}

----------------------------------------------------------------------------
(* Operators on accesses and messages. *)

OriginAccess(p, q, c) ==
  [dst |-> p, src |-> q, epoch |-> count_epoch[p], seq |-> array[p][q] + 1,
   side |-> "origin", itv |-> c.local]

MemoryAccess(p, i) ==
  [dst |-> p, src |-> p, epoch |-> count_epoch[p], seq |-> 0,
   side |-> "memory", itv |-> i]

\* Mutant: the tag is taken one epoch ahead.
SentMessageNextTag(p, q, c) ==
  [dst |-> q, src |-> p, tag |-> count_epoch[p] + 1, epoch |-> count_epoch[p],
   seq |-> array[p][q] + 1, itv |-> c.target]

\* The interval p sends to q: the datatype carries it, the tag the epoch.
SentMessage(p, q, c) ==
  [dst |-> q, src |-> p, tag |-> count_epoch[p], epoch |-> count_epoch[p],
   seq |-> array[p][q] + 1, itv |-> c.target]

\* The access a message is about, at the addresses of the process it lands on.
LandedAccess(m) ==
  [dst |-> m.dst, src |-> m.src, epoch |-> m.epoch, seq |-> m.seq,
   side |-> "target", itv |-> landed_interval(m.itv, win_base)]

\* The window filter of save_interval.
Kept(i) == FilterWindow => in_window(i, win_base, win_size)

\* Mutants: the access types are not looked at; the bounds are taken as half-open.
OverlapsAnyType(p, i) ==
  \E a \in local_tree[p] : a.itv.low_bound <= i.up_bound /\ a.itv.up_bound >= i.low_bound
OverlapsHalfOpen(p, i) ==
  \E a \in local_tree[p] : /\ if_intersects(a.itv, i)
                          /\ a.itv.low_bound < i.up_bound /\ a.itv.up_bound > i.low_bound

Overlaps(p, i) == \E a \in local_tree[p] : if_intersects(a.itv, i)

\* save_interval reports a race and calls MPI_Abort ...
SaveReports(p, a) ==
  /\ Kept(a.itv) /\ Overlaps(p, a.itv)
  /\ halted' = "race"
  /\ UNCHANGED local_tree

\* ... or inserts the interval, or filters it out.  The tree's search may
\* overlook an overlapping interval, the list's does not.
SaveInserts(p, a) ==
  /\ UseList => ~ (Kept(a.itv) /\ Overlaps(p, a.itv))
  /\ local_tree' = [local_tree EXCEPT ![p] = IF Kept(a.itv) THEN @ \union {a} ELSE @]
  /\ UNCHANGED halted

----------------------------------------------------------------------------
(* Routines the handlers share. *)

\* Process p makes the synchronisation call op, the next one of the program.
Follow(p, op) ==
  /\ halted = "no" /\ pc[p] = "run" /\ op \in Ops
  /\ calls[p] < MaxCalls
  /\ calls' = [calls EXCEPT ![p] = @ + 1]
  /\ \/ calls[p] < Len(program) /\ program[calls[p] + 1] = op /\ UNCHANGED program
     \/ calls[p] = Len(program) /\ program' = Append(program, op)

\* Mutant: the counts of the last epoch are kept.
InitThreadKeepsCounts(p) ==
  /\ count_epoch[p] < MaxCalls
  /\ UNCHANGED array
  /\ thread_end' = [thread_end EXCEPT ![p] = 0]
  /\ count_epoch' = [count_epoch EXCEPT ![p] = @ + 1]
  /\ active_epoch' = [active_epoch EXCEPT ![p] = 1]
  /\ thr' = [thr EXCEPT ![p][count_epoch[p] + 1] = "post"]

\* rma_analyzer_init_comm_check_thread; a call creates at most one thread.
InitThread(p) ==
  /\ count_epoch[p] < MaxCalls
  /\ array' = [array EXCEPT ![p] = [q \in Procs |-> 0]]
  /\ thread_end' = [thread_end EXCEPT ![p] = 0]
  /\ count_epoch' = [count_epoch EXCEPT ![p] = @ + 1]
  /\ active_epoch' = [active_epoch EXCEPT ![p] = 1]
  /\ thr' = [thr EXCEPT ![p][count_epoch[p] + 1] = "post"]

\* rma_analyzer_clear_comm_check_thread(DO_REDUCE), up to its loop of reductions.
BeginClear(p, handler) ==
  /\ pc' = [pc EXCEPT ![p] = "reduce"]
  /\ call' = [call EXCEPT ![p] = handler]
  /\ root' = [root EXCEPT ![p] = 0]
  /\ tmp' = [tmp EXCEPT ![p] = 0]

\* Mutant: the owner does not wait for its thread.
JoinableAtOnce(p) == count_epoch[p] > 0

\* The thread pthread_join waits for: threadId is the last one created.
Joinable(p) == count_epoch[p] > 0 /\ thr[p][count_epoch[p]] = "done"

----------------------------------------------------------------------------
(* The synchronisation handlers. *)

\* MPI_Win_lock_all and MPI_Win_lock.  A program that uses fences and then a
\* passive epoch leaves the thread of its last fence running.
LockAll(p) ==
  /\ Follow(p, "lock_all")
  /\ open[p] = "closed" /\ (Disciplined => count_fence[p] = 0)
  /\ open' = [open EXCEPT ![p] = "lock"]
  /\ InitThread(p)
  /\ UNCHANGED <<arrived, appVars, value, count, from_sync, count_fence, local_tree,
                 tag, net, red, halted, clears, analysed, accesses>>

\* MPI_Win_unlock_all and MPI_Win_unlock.
UnlockAll(p) ==
  /\ Follow(p, "unlock_all")
  /\ open[p] = "lock"
  /\ BeginClear(p, "unlock_all")
  /\ UNCHANGED <<open, arrived, dest, flagVars, value, count, from_sync, count_fence,
                 local_tree, threadVars, net, red, halted, clears, analysed, accesses>>

AfterFence(op) == IF op = "fence" THEN "fence" ELSE "closed"

\* MPI_Win_fence, the first one of the window.  "fence_end" is a fence no
\* one-sided call follows, which is all the program can do with the last one.
FirstFence(p, op) ==
  /\ Follow(p, op)
  /\ open[p] # "lock" /\ count_fence[p] = 0
  /\ count_fence' = [count_fence EXCEPT ![p] = @ + 1]
  /\ open' = [open EXCEPT ![p] = AfterFence(op)]
  /\ InitThread(p)
  /\ UNCHANGED <<arrived, appVars, value, count, from_sync, local_tree,
                 tag, net, red, halted, clears, analysed, accesses>>

\* MPI_Win_fence, a later one: it ends an epoch and begins the next.
NextFence(p, op) ==
  /\ Follow(p, op)
  /\ open[p] # "lock" /\ count_fence[p] > 0
  /\ BeginClear(p, op)
  /\ UNCHANGED <<open, arrived, dest, flagVars, value, count, from_sync, count_fence,
                 local_tree, threadVars, net, red, halted, clears, analysed, accesses>>

\* PMPI_Win_fence(0) has synchronised all processes; the new epoch begins.
\* The last PMPI_Win_fence may return at once (MPI_MODE_NOPRECEDE).
FenceMid(p) ==
  /\ halted = "no" /\ pc[p] = "fence_mid"
  /\ \A q \in Procs : arrived[q] >= arrived[p]
  /\ count_fence' = [count_fence EXCEPT ![p] = @ + 1]
  /\ open' = [open EXCEPT ![p] = AfterFence(call[p])]
  /\ InitThread(p)
  /\ pc' = [pc EXCEPT ![p] = "run"]
  /\ UNCHANGED <<program, calls, arrived, call, dest, root, tmp, value, count,
                 from_sync, local_tree, tag, net, red, halted, clears, analysed, accesses>>

\* MPI_Barrier: the window is cleared if its epoch is active.  A disciplined
\* program has no barrier outside epochs once it had one inside an epoch.
Barrier(p) ==
  /\ Follow(p, "barrier")
  /\ Disciplined => (open[p] # "closed" \/ count_fence[p] > 0 \/ from_sync[p] = 0)
  /\ \/ /\ active_epoch[p] = 1
        /\ BeginClear(p, "barrier")
     \/ /\ active_epoch[p] = 0
        /\ pc' = [pc EXCEPT ![p] = "restart"]
        /\ call' = [call EXCEPT ![p] = "barrier"]
        /\ UNCHANGED <<root, tmp>>
  /\ UNCHANGED <<open, arrived, dest, flagVars, value, count, from_sync, count_fence,
                 local_tree, threadVars, net, red, halted, clears, analysed, accesses>>

\* rma_analyzer_init_comm_check_thread_all_wins, then PMPI_Barrier is entered.
Restart(p) ==
  /\ halted = "no" /\ pc[p] = "restart"
  /\ \/ active_epoch[p] = 0 /\ from_sync[p] = 1 /\ InitThread(p)
     \/ (active_epoch[p] = 1 \/ from_sync[p] = 0) /\ UNCHANGED <<flagVars, thr>>
  /\ pc' = [pc EXCEPT ![p] = "sync"]
  /\ arrived' = [arrived EXCEPT ![p] = @ + 1]
  /\ UNCHANGED <<program, calls, open, call, dest, root, tmp, value, count, from_sync,
                 count_fence, local_tree, tag, net, red, halted, clears, analysed, accesses>>

BarrierReturn(p) ==
  /\ halted = "no" /\ pc[p] = "sync"
  /\ \A q \in Procs : arrived[q] >= arrived[p]
  /\ pc' = [pc EXCEPT ![p] = "run"]
  /\ UNCHANGED <<envVars, call, dest, root, tmp, flagVars, value, count, from_sync,
                 count_fence, local_tree, threadVars, net, red, halted,
                 clears, analysed, accesses>>

\* MPI_Win_free: after fences the last thread is told to expect nothing, and
\* then to end (RaiseEnd).
WinFree(p) ==
  /\ Follow(p, "free")
  /\ open[p] = "closed"
  /\ call' = [call EXCEPT ![p] = "free"]
  /\ \/ /\ count_fence[p] > 0
        /\ value' = [value EXCEPT ![p] = 0]
        /\ pc' = [pc EXCEPT ![p] = "join"]
     \/ /\ count_fence[p] = 0
        /\ pc' = [pc EXCEPT ![p] = "freed"]
        /\ UNCHANGED value
  /\ UNCHANGED <<open, arrived, dest, root, tmp, flagVars, count, from_sync, count_fence,
                 local_tree, threadVars, net, red, halted, clears, analysed, accesses>>

----------------------------------------------------------------------------
(* The reductions and the join of rma_analyzer_clear_comm_check_thread. *)

\* Collective calls match in the order each process makes them: a clear's
\* reductions are those of the same clear everywhere.
Contributions(p) == {c \in red : c.root = p /\ c.inst = clears[p] + 1}

\* p gives its count of intervals sent to another process.  A process that is
\* not the root may return before the root has entered the call.
ReduceSend(p) ==
  /\ halted = "no" /\ pc[p] = "reduce" /\ root[p] < N /\ root[p] # p
  /\ \/ Buffered
     \/ pc[root[p]] = "reduce" /\ clears[root[p]] = clears[p] /\ root[root[p]] = root[p]
  /\ red' = red \union {[src |-> p, root |-> root[p], inst |-> clears[p] + 1,
                         n |-> array[p][root[p]]]}
  /\ root' = [root EXCEPT ![p] = @ + 1]
  /\ UNCHANGED <<envVars, pc, call, dest, tmp, flagVars, value, count, from_sync,
                 count_fence, local_tree, threadVars, net, halted, clears,
                 analysed, accesses>>

\* Mutant: the sum leaves the other processes out.
UnitsOwn(p) == {p} \X (1 .. array[p][p])

\* MPI_SUM over what the processes gave, one unit per interval they sent.
Units(p) == UNION ({{c.src} \X (1 .. c.n) : c \in Contributions(p)}
                   \union {{p} \X (1 .. array[p][p])})

\* p is the root: it waits for all the others and gets the sum.
ReduceRoot(p) ==
  /\ halted = "no" /\ pc[p] = "reduce" /\ root[p] = p
  /\ \A s \in Procs \ {p} : \E c \in Contributions(p) : c.src = s
  /\ tmp' = [tmp EXCEPT ![p] = Cardinality(Units(p))]
  /\ red' = red \ Contributions(p)
  /\ root' = [root EXCEPT ![p] = @ + 1]
  /\ UNCHANGED <<envVars, pc, call, dest, flagVars, value, count, from_sync,
                 count_fence, local_tree, threadVars, net, halted, clears,
                 analysed, accesses>>

\* Mutant: thread_end is stored before value.
FinishReduceEndFirst(p) ==
  /\ halted = "no" /\ pc[p] = "reduce" /\ root[p] = N
  /\ \/ /\ thread_end[p] = 0
        /\ thread_end' = [thread_end EXCEPT ![p] = 1]
        /\ UNCHANGED <<value, pc, clears>>
     \/ /\ thread_end[p] = 1
        /\ value' = [value EXCEPT ![p] = tmp[p]]
        /\ pc' = [pc EXCEPT ![p] = "join"]
        /\ clears' = [clears EXCEPT ![p] = @ + 1]
        /\ UNCHANGED thread_end
  /\ UNCHANGED <<envVars, call, dest, root, tmp, count_epoch, active_epoch, array, count,
                 from_sync, count_fence, local_tree, threadVars, net, red, halted,
                 analysed, accesses>>

\* value is stored first, as the thread reads value and thread_end without a lock ...
FinishReduce(p) ==
  /\ halted = "no" /\ pc[p] = "reduce" /\ root[p] = N
  /\ value' = [value EXCEPT ![p] = tmp[p]]
  /\ pc' = [pc EXCEPT ![p] = "join"]
  /\ clears' = [clears EXCEPT ![p] = @ + 1]
  /\ UNCHANGED <<envVars, call, dest, root, tmp, flagVars, count, from_sync, count_fence,
                 local_tree, threadVars, net, red, halted, analysed, accesses>>

\* ... then thread_end.  The process is at pthread_join once it is set.
RaiseEnd(p) ==
  /\ halted = "no" /\ pc[p] = "join" /\ thread_end[p] = 0
  /\ thread_end' = [thread_end EXCEPT ![p] = 1]
  /\ UNCHANGED <<envVars, appVars, count_epoch, active_epoch, array, value, count, from_sync,
                 count_fence, local_tree, threadVars, net, red, halted, clears,
                 analysed, accesses>>

\* Where each handler goes once its clear is done.
AfterJoin(handler) ==
  CASE handler = "unlock_all" -> "run"
    [] handler = "barrier"    -> "restart"
    [] handler = "free"       -> "freed"
    [] OTHER                  -> "fence_mid"

\* pthread_join returns and the state of the epoch is cleared.
Join(p) ==
  /\ halted = "no" /\ pc[p] = "join" /\ thread_end[p] = 1 /\ Joinable(p)
  /\ count' = [count EXCEPT ![p] = 0]
  /\ active_epoch' = [active_epoch EXCEPT ![p] = 0]
  /\ local_tree' = [local_tree EXCEPT ![p] = {}]
  /\ from_sync' = [from_sync EXCEPT ![p] = IF call[p] = "barrier" THEN 1 ELSE @]
  /\ open' = [open EXCEPT ![p] = IF call[p] = "unlock_all" THEN "closed" ELSE @]
  /\ arrived' = [arrived EXCEPT ![p] = IF AfterJoin(call[p]) = "fence_mid" THEN @ + 1 ELSE @]
  /\ pc' = [pc EXCEPT ![p] = AfterJoin(call[p])]
  /\ analysed' = [analysed EXCEPT ![p] = {}]
  /\ accesses' = {a \in accesses : a.dst = p => a.epoch > count_epoch[p]}
  /\ UNCHANGED <<program, calls, call, dest, root, tmp, count_epoch, thread_end, array,
                 value, count_fence, threadVars, net, red, halted, clears>>

----------------------------------------------------------------------------
(* Memory accesses: rma_analyzer_update_on_comm_send and LOAD / STORE. *)

\* MPI_Put, MPI_Get, MPI_Accumulate: the access to the origin buffer is saved
\* here, which may already be a race ...
CommReports(p, q, c) ==
  /\ halted = "no" /\ pc[p] = "run" /\ open[p] # "closed" /\ array[p][q] < MaxSend
  /\ SaveReports(p, OriginAccess(p, q, c))
  /\ accesses' = accesses \union {OriginAccess(p, q, c)}
  /\ UNCHANGED <<envVars, appVars, flagVars, value, count, from_sync, count_fence,
                 threadVars, net, red, clears, analysed>>

\* ... and the access to the target's memory is sent to the target.
CommSend(p, q, c) ==
  /\ halted = "no" /\ pc[p] = "run" /\ open[p] # "closed" /\ array[p][q] < MaxSend
  /\ SaveInserts(p, OriginAccess(p, q, c))
  /\ net' = net \union {SentMessage(p, q, c)}
  /\ accesses' = accesses \union {OriginAccess(p, q, c), LandedAccess(SentMessage(p, q, c))}
  /\ pc' = [pc EXCEPT ![p] = "send"]
  /\ dest' = [dest EXCEPT ![p] = q]
  /\ UNCHANGED <<envVars, call, root, tmp, flagVars, value, count, from_sync, count_fence,
                 threadVars, red, clears, analysed>>

InFlight(p, q, k) ==
  \E m \in net : m.src = p /\ m.dst = q /\ m.epoch = count_epoch[p] /\ m.seq = k

\* MPI_Send returns and the interval is counted.
SendReturn(p) ==
  /\ halted = "no" /\ pc[p] = "send"
  /\ Buffered \/ ~ InFlight(p, dest[p], array[p][dest[p]] + 1)
  /\ array' = [array EXCEPT ![p][dest[p]] = @ + 1]
  /\ pc' = [pc EXCEPT ![p] = "run"]
  /\ UNCHANGED <<envVars, call, dest, root, tmp, count_epoch, thread_end, active_epoch,
                 value, count, from_sync, count_fence, local_tree, threadVars, net, red,
                 halted, clears, analysed, accesses>>

\* LOAD and STORE save their interval in windows with an active epoch.
LoadStore(p, i) ==
  /\ halted = "no" /\ pc[p] = "run" /\ active_epoch[p] = 1
  /\ SaveReports(p, MemoryAccess(p, i)) \/ SaveInserts(p, MemoryAccess(p, i))
  /\ accesses' = accesses \union {a \in {MemoryAccess(p, i)} :
                                    open[p] # "closed" \/ count_fence[p] > 0}
  /\ UNCHANGED <<envVars, appVars, flagVars, value, count, from_sync, count_fence,
                 threadVars, net, red, clears, analysed>>

----------------------------------------------------------------------------
(* The communication checking thread: rma_analyzer_comm_check_thread and   *)
(* rma_analyzer_check_communication.                                       *)

\* The state of a freed window is not found: exit(EXIT_FAILURE).
PostRecv(p, k) ==
  /\ halted = "no" /\ thr[p][k] = "post"
  /\ \/ /\ pc[p] = "freed"
        /\ halted' = "nostate" /\ UNCHANGED threadVars
     \/ /\ pc[p] # "freed"
        /\ thr' = [thr EXCEPT ![p][k] = "poll"]
        /\ tag' = [tag EXCEPT ![p][k] = count_epoch[p]]
        /\ UNCHANGED halted
  /\ UNCHANGED <<envVars, appVars, flagVars, value, count, from_sync, count_fence,
                 local_tree, net, red, clears, analysed, accesses>>

\* Mutant: the receive matches any epoch.
MatchesAnyEpoch(p, k) == {m \in net : m.dst = p}

\* Messages a receive posted by thread k of p can match: messages of one
\* source with one tag do not overtake each other.
Matches(p, k) ==
  {m \in net : /\ m.dst = p /\ m.tag = tag[p][k]
               /\ \A m2 \in net : /\ m2.dst = p /\ m2.tag = m.tag /\ m2.src = m.src
                                  => m2.seq >= m.seq}

\* MPI_Test succeeds: the interval is counted and saved, and the thread loops
\* to its next MPI_Irecv.
Receive(p, k, m) ==
  /\ halted = "no" /\ thr[p][k] = "poll" /\ m \in Matches(p, k)
  /\ net' = net \ {m}
  /\ count' = [count EXCEPT ![p] = @ + 1]
  /\ \/ /\ pc[p] = "freed"
        /\ halted' = "nostate" /\ UNCHANGED local_tree
     \/ /\ pc[p] # "freed"
        /\ SaveReports(p, LandedAccess(m)) \/ SaveInserts(p, LandedAccess(m))
  /\ thr' = [thr EXCEPT ![p][k] = "post"]
  /\ analysed' = [analysed EXCEPT ![p] = @ \union {<<m.src, m.seq>>}]
  /\ UNCHANGED <<envVars, appVars, flagVars, value, from_sync, count_fence, tag, red,
                 clears, accesses>>

\* The thread cancels its receive and exits; a message the receive has already
\* matched is lost with it.
Exit(p, k) ==
  /\ halted = "no" /\ thr[p][k] = "poll"
  /\ thread_end[p] = 1 /\ count[p] = value[p]
  /\ count' = [count EXCEPT ![p] = 0]
  /\ thr' = [thr EXCEPT ![p][k] = "done"]
  /\ UNCHANGED net \/ \E m \in Matches(p, k) : net' = net \ {m}
  /\ UNCHANGED <<envVars, appVars, flagVars, value, from_sync, count_fence, local_tree,
                 tag, red, halted, clears, analysed, accesses>>

----------------------------------------------------------------------------
SyncCall(p) ==
  \/ LockAll(p) \/ UnlockAll(p) \/ Barrier(p) \/ WinFree(p)
  \/ \E op \in {"fence", "fence_end"} : FirstFence(p, op) \/ NextFence(p, op)

Progress(p) ==
  \/ FenceMid(p) \/ Restart(p) \/ BarrierReturn(p)
  \/ ReduceSend(p) \/ ReduceRoot(p) \/ FinishReduce(p) \/ RaiseEnd(p)
  \/ Join(p) \/ SendReturn(p)

MemoryCall(p) ==
  \/ \E q \in Procs, c \in Comms : CommReports(p, q, c) \/ CommSend(p, q, c)
  \/ \E i \in Touches : LoadStore(p, i)

CheckThread(p, k) ==
  PostRecv(p, k) \/ (\E m \in net : Receive(p, k, m)) \/ Exit(p, k)

\* The job has ended, or every process is past the bound on its calls.
Terminating ==
  /\ \/ halted # "no"
     \/ \A p \in Procs : pc[p] = "freed" \/ (pc[p] = "run" /\ calls[p] = MaxCalls)
  /\ UNCHANGED vars

Next ==
  \/ \E p \in Procs : SyncCall(p) \/ Progress(p) \/ MemoryCall(p)
  \/ \E p \in Procs, k \in Epochs : CheckThread(p, k)
  \/ Terminating

Spec == Init /\ [][Next]_vars

\* The threads run, and the program makes its next synchronisation call.
Fairness ==
  /\ \A p \in Procs : WF_vars(SyncCall(p)) /\ WF_vars(Progress(p))
  /\ \A p \in Procs, k \in Epochs : WF_vars(CheckThread(p, k))

FairSpec == Spec /\ Fairness

----------------------------------------------------------------------------
(* Correctness. *)

\* Epochs of p that are over: the thread of that epoch has been joined.
Closed(p) == count_epoch[p] - active_epoch[p]

\* Remote accesses to p's memory in the epoch p is in, by source and number.
EpochTargets(p) == {a \in accesses : a.dst = p /\ a.side = "target" /\ a.epoch = count_epoch[p]}
Expected(p)     == {<<a.src, a.seq>> : a \in EpochTargets(p)}

\* The thread of the epoch p closes has exited: pthread_join is about to return.
EpochEnding(p) == pc[p] = "join" /\ Joinable(p)

Live(p, k) == thr[p][k] \in {"post", "poll"}

\* No interval is left behind: once a process has closed an epoch, no message
\* of that epoch is on its way to it.  The counting of check_communication is
\* what ensures it, and what keeps an old interval out of a new receive.
NoStragglers == \A m \in net : call[m.dst] # "free" => m.epoch > Closed(m.dst)

\* When pthread_join returns, the thread has analysed the interval of every
\* one-sided access to this process in this epoch and none else.
EpochComplete ==
  \A p \in Procs : EpochEnding(p) /\ call[p] # "free" => analysed[p] = Expected(p)

\* Win_free tells the thread of the last fence to expect nothing: no interval
\* is on its way to a window that is being freed, or is freed.
FreeIsClean == \A m \in net : call[m.dst] # "free"

\* The intervals compared with each other are all of the epoch the process is
\* in: a receive never takes an interval of the epoch before or after.
OneEpochPerTree ==
  \A p \in Procs : \A a \in local_tree[p] :
    active_epoch[p] = 1 /\ a.dst = p /\ a.epoch = count_epoch[p]

\* A reported race is one: two different accesses of the program, to the same
\* process in the same epoch, that conflict.
AbortJustified ==
  halted = "race" =>
    \E a, b \in accesses : /\ a # b /\ a.dst = b.dst /\ a.epoch = b.epoch
                           /\ if_intersects(a.itv, b.itv)

\* With the list, an epoch that is closed had no race among its accesses: the
\* two sides of a race meet in the store before the join returns.
RacesCaught ==
  UseList /\ halted = "no" => \A p \in Procs : EpochEnding(p) =>
    \A a, b \in {c \in accesses : c.dst = p /\ c.epoch = count_epoch[p] /\ Kept(c.itv)} :
      a # b => ~ if_intersects(a.itv, b.itv)

\* Between calls, a window without fences is profiled only inside an epoch:
\* "Only restarts if the epoch has not been really stopped".
RestartOnlyInEpoch ==
  \A p \in Procs : pc[p] = "run" /\ active_epoch[p] = 1 /\ count_fence[p] = 0
                   => open[p] # "closed"

\* A process has one checking thread at a time and no thread outlives the
\* window's state, so no thread looks up the state of a freed window.
ThreadsOwned ==
  /\ \A p \in Procs : \A j, k \in Epochs : Live(p, j) /\ Live(p, k) => j = k
  /\ \A p \in Procs, k \in Epochs : Live(p, k) => pc[p] # "freed"
  /\ halted # "nostate"

\* Every handler returns: the reductions, the join of the thread and the
\* synchronisations end, on every process.
HandlersReturn ==
  \A p \in Procs : pc[p] \notin {"run", "freed"}
                   ~> (pc[p] \in {"run", "freed"} \/ halted # "no")
=============================================================================
