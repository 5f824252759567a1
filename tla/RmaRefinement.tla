--------------------------- MODULE RmaRefinement ----------------------------
(***************************************************************************)
(* RmaAnalyzer implements EpochService: an epoch of the service is ended   *)
(* when its handler has begun to clear, closed when its thread has been    *)
(* joined, and its accesses are judged when the thread receives them.      *)
(***************************************************************************)
EXTENDS RmaAnalyzerInv

\* Epochs p makes no more one-sided calls in.
Ended(p) == IF active_epoch[p] = 1 /\ pc[p] \notin {"reduce", "join"}
            THEN count_epoch[p] - 1 ELSE count_epoch[p]

\* MPI_Win_free closes the epoch of the last fence with its first step.
ClosedForAll(p) == IF call[p] = "free" THEN count_epoch[p] ELSE Closed(p)

Service == INSTANCE EpochService WITH
  pending  <- {[dst |-> m.dst, src |-> m.src, epoch |-> m.epoch, seq |-> m.seq] : m \in net},
  judged   <- analysed,
  ended    <- [p \in Procs |-> Ended(p)],
  closed   <- [p \in Procs |-> ClosedForAll(p)],
  retired  <- [p \in Procs |-> call[p] = "free"],
  reported <- (halted # "no")

\* Every handler and every thread step is a step of the epoch service or none
\* at all: accesses are judged in their own epoch, once, and an epoch closes
\* when all processes have ended it and no access of it is left.
ImplementsService == Service!ServiceSpec
=============================================================================
