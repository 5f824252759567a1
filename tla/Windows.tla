------------------------------ MODULE Windows -------------------------------
(***************************************************************************)
(* The windows of a job side by side: the table state_htbl of each         *)
(* process, the tags and the checking thread of each window, epochs that   *)
(* overlap, and MPI_Barrier, which ends and restarts the epochs of all of  *)
(* them.  All reductions run over one communicator, whose collective calls *)
(* match in the order each process makes them, whatever window they serve. *)
(* RmaAnalyzer models one window in more detail: here the reductions of a  *)
(* clear are one step, a send is received later and stored intervals are   *)
(* left out.  Epochs are passive or post-start-complete-wait; no fences.   *)
(***************************************************************************)
EXTENDS TagRanges, HashTable

CONSTANTS
  Disciplined, \* TRUE: once a barrier was inside an epoch of a window, so are
               \* all later ones, until the window is freed
  InOrder,  \* TRUE: every process ends its epochs in the program's order
  Targets,  \* bound: the processes a process makes one-sided calls to
  MaxSend   \* bound: one-sided calls of a process to a target in an epoch

ASSUME WindowsAssumption ==
  /\ IsFiniteSet(Procs) /\ Targets \in [Procs -> SUBSET Procs]
  /\ Disciplined \in BOOLEAN /\ InOrder \in BOOLEAN /\ MaxSend \in Nat
  /\ \A w \in Wins : hashv[w] \in Nat

VARIABLES
  pc,            \* of the application thread
  clearing,      \* the window the handler is clearing, while it is in a clear
  entered,       \* the last call of each process that has entered PMPI_Barrier
  open,          \* the windows the process is in an epoch of
  state_htbl,    \* the hash table of the windows' states
  active_epoch, from_sync, value, count, array,
  thr, tag,      \* the checking threads and the tags they receive
  net,           \* intervals sent and not received
  halted

appVars    == <<pc, clearing, entered>>
stateVars  == <<active_epoch, from_sync, value>>
threadVars == <<count, thr, tag>>
vars == <<tagVars, appVars, open, state_htbl, stateVars, array, threadVars, net, halted>>

\* How often p has created w: a window created anew has the handle of the old.
Life(p, w) == Cardinality({i \in 1 .. pos[p] : program[i] = <<"create", w>>})

Barrier == <<"barrier", "all">>

WindowsTypeOK ==
  /\ TagTypeOK
  /\ pc \in [Procs -> {"run", "reduce", "join", "restart", "sync"}]
  /\ clearing \in [Procs -> SUBSET Wins] /\ entered \in [Procs -> 0 .. MaxOps]
  /\ open \in [Procs -> SUBSET Wins] /\ \A p \in Procs : state_htbl[p].items \in Seq(Wins)
  /\ {active_epoch, from_sync} \subseteq [Procs -> [Wins -> 0 .. 1]]
  /\ {value, count} \subseteq [Procs -> [Wins -> 0 .. MaxSend * Cardinality(Procs)]]
  /\ array \in [Procs -> [Wins -> [Procs -> 0 .. MaxSend]]]
  /\ thr \in [Procs -> [Wins -> {"none", "post", "poll", "done"}]]
  /\ net \subseteq [src : Procs, dst : Procs, tag : Int, win : Wins, life : Nat,
                    epoch : 1 .. MaxEpochs, seq : 1 .. MaxSend]
  /\ tag \in [Procs -> [Wins -> Int]] /\ halted \in BOOLEAN

Zero == [p \in Procs |-> [w \in Wins |-> 0]]

Init ==
  /\ TagInit
  /\ pc = [p \in Procs |-> "run"]
  /\ clearing = [p \in Procs |-> {}] /\ state_htbl = [p \in Procs |-> NULL]
  /\ entered = [p \in Procs |-> 0]
  /\ open = [p \in Procs |-> {}]
  /\ active_epoch = Zero /\ from_sync = Zero /\ value = Zero /\ count = Zero /\ tag = Zero
  /\ array = [p \in Procs |-> [w \in Wins |-> [q \in Procs |-> 0]]]
  /\ thr = [p \in Procs |-> [w \in Wins |-> "none"]]
  /\ net = {} /\ halted = FALSE

\* The windows HASH_ITER goes over.
Listed(p) == Elements(state_htbl[p].items)
Active(p) == {w \in Listed(p) : active_epoch[p][w] = 1}

\* The windows a barrier has restarted outside their epochs: from_sync is never
\* reset.  Assumption on the program: it neither opens nor frees such a window.
\* The code starts a second thread there, or leaves the thread of a freed
\* window; RmaAnalyzer has both.
Strays(p) == Active(p) \ open[p]

\* The application thread of p makes its next call.
Call(p, op) == ~ halted /\ pc[p] = "run" /\ Follow(p, op)

----------------------------------------------------------------------------
(* The windows of a process. *)

\* MPI_Win_create and MPI_Win_allocate: rma_analyzer_start sets every field of
\* the new state and adds it to the table.
Create(p, w) ==
  /\ Call(p, <<"create", w>>) /\ Start(p, w)
  /\ state_htbl' = [state_htbl EXCEPT ![p] = HASH_ADD_KEYPTR(@, w)]
  /\ active_epoch' = [active_epoch EXCEPT ![p][w] = 0]
  /\ from_sync' = [from_sync EXCEPT ![p][w] = 0]
  /\ value' = [value EXCEPT ![p][w] = 0]
  /\ count' = [count EXCEPT ![p][w] = 0]
  /\ UNCHANGED <<appVars, open, array, thr, tag, net, halted>>

\* MPI_Win_free: rma_analyzer_stop takes the state out of the table.
WinFree(p, w) ==
  /\ Call(p, <<"free", w>>) /\ Stop(p, w) /\ w \notin open[p] \union Strays(p)
  /\ state_htbl' = [state_htbl EXCEPT ![p] = HASH_DELETE(@, w)]
  /\ UNCHANGED <<appVars, open, stateVars, array, threadVars, net, halted>>

\* Mutant: the counts of the last epoch are kept.
InitThreadsKeepsCounts(p, W) ==
  /\ \A w \in W : count_epoch[p][w] < MaxEpochs
  /\ Epoch(p, W)
  /\ UNCHANGED array
  /\ active_epoch' = [active_epoch EXCEPT ![p] = [w \in Wins |-> IF w \in W THEN 1 ELSE @[w]]]
  /\ thr' = [thr EXCEPT ![p] = [w \in Wins |-> IF w \in W THEN "post" ELSE @[w]]]

\* rma_analyzer_init_comm_check_thread of the windows W.
InitThreads(p, W) ==
  /\ \A w \in W : count_epoch[p][w] < MaxEpochs
  /\ Epoch(p, W)
  /\ array' = [array EXCEPT ![p] = [w \in Wins |-> IF w \in W THEN [q \in Procs |-> 0] ELSE @[w]]]
  /\ active_epoch' = [active_epoch EXCEPT ![p] = [w \in Wins |-> IF w \in W THEN 1 ELSE @[w]]]
  /\ thr' = [thr EXCEPT ![p] = [w \in Wins |-> IF w \in W THEN "post" ELSE @[w]]]

\* MPI_Win_lock_all and MPI_Win_lock, MPI_Win_start and MPI_Win_post.
Open(p, w) ==
  /\ Call(p, <<"open", w>>) /\ Live(p, w) /\ w \notin open[p] \union Strays(p)
  /\ open' = [open EXCEPT ![p] = @ \union {w}]
  /\ InitThreads(p, {w})
  /\ UNCHANGED <<appVars, state_htbl, from_sync, value, count, tag, net, halted>>

\* rma_analyzer_update_on_comm_send: the interval leaves with the window's tag.
Put(p, q, w) ==
  /\ ~ halted /\ pc[p] = "run" /\ Returned(p) /\ w \in open[p]
  /\ q \in Targets[p] /\ array[p][w][q] < MaxSend
  /\ net' = net \union {[src |-> p, dst |-> q, tag |-> EpochTag(p, w), win |-> w,
                         life |-> Life(p, w), epoch |-> count_epoch[p][w],
                         seq |-> array[p][w][q] + 1]}
  /\ array' = [array EXCEPT ![p][w][q] = @ + 1]
  /\ UNCHANGED <<tagVars, appVars, open, state_htbl, stateVars, threadVars, halted>>

----------------------------------------------------------------------------
(* The end of an epoch, and MPI_Barrier. *)

\* MPI_Win_unlock_all and MPI_Win_unlock, MPI_Win_complete and MPI_Win_wait.
\* MPI lets a process end epochs that are open together in an order of its own.
Close(p, w) ==
  /\ \E v \in Wins : Call(p, <<"close", v>>) /\ (InOrder => v = w)
  /\ w \in open[p]
  /\ pc' = [pc EXCEPT ![p] = "reduce"]
  /\ clearing' = [clearing EXCEPT ![p] = {w}]
  /\ UNCHANGED <<win_mpi_tag_id, mpi_tag, count_epoch, entered, open, state_htbl, stateVars,
                 array, threadVars, net, halted>>

\* The first of the windows W in the order of the table: the one that
\* rma_analyzer_clear_comm_check_thread_all_wins clears next.
First(p, W) ==
  {state_htbl[p].items[i] :
     i \in {j \in 1 .. Len(state_htbl[p].items) :
             /\ state_htbl[p].items[j] \in W
             /\ \A k \in 1 .. j - 1 : state_htbl[p].items[k] \notin W}}

\* The windows that have an epoch after the barrier p enters.
Synced(p) == Active(p) \union {w \in Listed(p) : from_sync[p][w] = 1}

\* new_Barrier.  A disciplined program calls it in the epochs of all windows
\* that a barrier has restarted.
EnterBarrier(p) ==
  /\ Call(p, Barrier)
  /\ Disciplined => Synced(p) \subseteq open[p]
  /\ \A w \in Synced(p) : count_epoch[p][w] < MaxEpochs
  /\ clearing' = [clearing EXCEPT ![p] = First(p, Active(p))]
  /\ pc' = [pc EXCEPT ![p] = IF Active(p) = {} THEN "restart" ELSE "reduce"]
  /\ UNCHANGED <<win_mpi_tag_id, mpi_tag, count_epoch, entered, open, state_htbl, stateVars,
                 array, threadVars, net, halted>>

\* What all processes give for p: each its number for the window it is clearing.
Given(p) ==
  {u \in Procs \X (1 .. MaxSend) : \E w \in clearing[u[1]] : u[2] <= array[u[1]][w][p]}

\* The loop of reductions of rma_analyzer_clear_comm_check_thread: one MPI_Reduce
\* per process, each summing what all processes give for it.
Reduce ==
  /\ ~ halted /\ \A p \in Procs : pc[p] = "reduce"
  /\ value' = [p \in Procs |-> [w \in Wins |->
                 IF w \in clearing[p] THEN Cardinality(Given(p)) ELSE value[p][w]]]
  /\ pc' = [p \in Procs |-> "join"]
  /\ UNCHANGED <<tagVars, clearing, entered, open, state_htbl, active_epoch, from_sync,
                 array, threadVars, net, halted>>

\* thread_end is set once the value is there, and reset by the next epoch.
thread_end(p, w) == pc[p] = "join" /\ w \in clearing[p]

\* The windows p has still to clear once w is.
Left(p, w) == IF program[pos[p]] = Barrier THEN Active(p) \ {w} ELSE {}

\* Where the handler goes when its clear is done.
AfterJoin(p, w) ==
  IF program[pos[p]] # Barrier THEN "run" ELSE IF Left(p, w) # {} THEN "reduce" ELSE "restart"

\* pthread_join returns and the epoch is over.
Join(p, w) ==
  /\ ~ halted /\ thread_end(p, w) /\ thr[p][w] = "done"
  /\ thr' = [thr EXCEPT ![p][w] = "none"]
  /\ count' = [count EXCEPT ![p][w] = 0]
  /\ active_epoch' = [active_epoch EXCEPT ![p][w] = 0]
  /\ from_sync' = [from_sync EXCEPT ![p][w] = IF program[pos[p]] = Barrier THEN 1 ELSE @]
  /\ open' = [open EXCEPT ![p] = IF program[pos[p]] = Barrier THEN @ ELSE @ \ {w}]
  /\ clearing' = [clearing EXCEPT ![p] = First(p, Left(p, w))]
  /\ pc' = [pc EXCEPT ![p] = AfterJoin(p, w)]
  /\ UNCHANGED <<tagVars, entered, state_htbl, value, array, tag, net, halted>>

\* Mutant: the first such window only.
ToRestartFirst(p) == First(p, {w \in Listed(p) \ Active(p) : from_sync[p][w] = 1})

\* The windows rma_analyzer_init_comm_check_thread_all_wins starts again, in an
\* epoch of the program or not.
ToRestart(p) == {w \in Listed(p) \ Active(p) : from_sync[p][w] = 1}

\* The epochs begin again, and the process enters PMPI_Barrier ...
Restart(p) ==
  /\ ~ halted /\ pc[p] = "restart"
  /\ InitThreads(p, ToRestart(p))
  /\ entered' = [entered EXCEPT ![p] = pos[p]]
  /\ pc' = [pc EXCEPT ![p] = "sync"]
  /\ UNCHANGED <<program, pos, clearing, open, state_htbl, from_sync, value, count, tag, net, halted>>

\* ... and leaves it when every process has entered it.
LeaveBarrier(p) ==
  /\ ~ halted /\ pc[p] = "sync" /\ \A q \in Procs : entered[q] >= pos[p]
  /\ pc' = [pc EXCEPT ![p] = "run"]
  /\ UNCHANGED <<tagVars, clearing, entered, open, state_htbl, stateVars, array, threadVars, net, halted>>

----------------------------------------------------------------------------
(* The checking thread of a window. *)

\* The thread looks up the state of its window by handle and posts its receive.
PostRecv(p, w) ==
  /\ ~ halted /\ thr[p][w] = "post"
  /\ halted' = ~ HASH_FIND(state_htbl[p], w)
  /\ thr' = [thr EXCEPT ![p][w] = "poll"]
  /\ tag' = [tag EXCEPT ![p][w] = EpochTag(p, w)]
  /\ UNCHANGED <<tagVars, appVars, open, state_htbl, stateVars, array, count, net>>

\* What the receive of window w can match: one communicator, one tag.
Matches(p, w) == {m \in net : m.dst = p /\ m.tag = tag[p][w]}

Receive(p, w, m) ==
  /\ ~ halted /\ thr[p][w] = "poll" /\ m \in Matches(p, w)
  /\ net' = net \ {m}
  /\ count' = [count EXCEPT ![p][w] = @ + 1]
  /\ thr' = [thr EXCEPT ![p][w] = "post"]
  /\ UNCHANGED <<tagVars, appVars, open, state_htbl, stateVars, array, tag, halted>>

\* Mutant: the thread does not count.
ReceivedAny(p, w) == TRUE

\* The thread has received what the sum promises.
ReceivedAll(p, w) == count[p][w] = value[p][w]

Exit(p, w) ==
  /\ ~ halted /\ thr[p][w] = "poll" /\ thread_end(p, w) /\ ReceivedAll(p, w)
  /\ count' = [count EXCEPT ![p][w] = 0]
  /\ thr' = [thr EXCEPT ![p][w] = "done"]
  /\ UNCHANGED <<tagVars, appVars, open, state_htbl, stateVars, array, tag, net, halted>>

----------------------------------------------------------------------------
\* Every process has made all its calls.
Terminating == (\A p \in Procs : pc[p] = "run" /\ pos[p] = MaxOps) /\ UNCHANGED vars

Next ==
  \/ Reduce
  \/ \E p \in Procs : EnterBarrier(p) \/ Restart(p) \/ LeaveBarrier(p)
  \/ \E p \in Procs, w \in Wins : Create(p, w) \/ WinFree(p, w) \/ Open(p, w) \/ Close(p, w) \/ Join(p, w)
  \/ \E p, q \in Procs, w \in Wins : Put(p, q, w)
  \/ \E p \in Procs, w \in Wins : PostRecv(p, w) \/ (\E m \in net : Receive(p, w, m)) \/ Exit(p, w)
  \/ Terminating

Spec == Init /\ [][Next]_vars

----------------------------------------------------------------------------
(* Correctness. *)

Closed(p, w) == count_epoch[p][w] - active_epoch[p][w]

\* What is on its way to window w of p in the epoch p is in.
Coming(p, w) ==
  {m \in net : m.dst = p /\ m.win = w /\ m.life = Life(p, w) /\ m.epoch = count_epoch[p][w]}

\* Whatever windows are created, freed and created again, a receive only ever
\* matches intervals of its own window, of this life of it and of its epoch.
ReceivesOwn ==
  \A p \in Procs, w \in Wins : thr[p][w] = "poll" => Matches(p, w) \subseteq Coming(p, w)

\* The table of every process finds what it iterates over: a thread that looks
\* up its window finds it.
TablesFind ==
  /\ ~ halted
  /\ \A p \in Procs : TableSound(state_htbl[p], Wins)

\* The table of every process iterates over the windows that exist, and over
\* them in the order they were created in, the same on all processes.
TablesAgree ==
  /\ \A p \in Procs : Listed(p) = {w \in Wins : Live(p, w)}
  /\ \A p, q \in Procs : pos[p] = pos[q] => state_htbl[p] = state_htbl[q]

\* No interval is left to a window that has ended the epoch it was sent in, or
\* that has been freed or even created again since.
NoIntervalLeft ==
  \A m \in net : \/ m.life > Life(m.dst, m.win)
                 \/ m.life = Life(m.dst, m.win) /\ m.epoch > Closed(m.dst, m.win)

\* "Get the number of expected communications on each process, to be able to
\* detect the termination of communication checking": what a thread is told to
\* wait for is what was sent to its window, whichever windows the reductions
\* of the other processes were about.
ExpectedCounted ==
  \A p \in Procs, w \in Wins : thread_end(p, w) /\ thr[p][w] \in {"post", "poll"}
    => value[p][w] = count[p][w] + Cardinality(Coming(p, w))

\* Between its calls a process has a checking thread for each window that has an
\* epoch, and each window the program is in an epoch of has one: barriers take
\* the threads of all windows away and give them back, stray restarts included.
EpochsProfiled ==
  \A p \in Procs : pc[p] = "run" =>
    /\ \A w \in Wins : thr[p][w] \in {"post", "poll"} <=> w \in Active(p)
    /\ open[p] \subseteq Active(p)
=============================================================================
