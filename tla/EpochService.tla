---------------------------- MODULE EpochService ----------------------------
(***************************************************************************)
(* What the analyzer of a window promises, without threads, tags, counts   *)
(* and reductions.  Processes make accesses to each other's memory, in     *)
(* epochs each of them numbers on its own.  The owner of the memory judges *)
(* every access in the epoch it was made in, and closes an epoch when all  *)
(* processes have ended it and every access of it has been judged.  A race *)
(* that is reported ends the job.                                          *)
(***************************************************************************)
EXTENDS Naturals

CONSTANT Procs

VARIABLES
  pending,   \* accesses made and not judged
  judged,    \* of each process: those judged in the epoch it has not closed
  ended,     \* how many epochs a process has ended: it makes no access in them
  closed,    \* how many epochs of its own memory it has closed
  retired,   \* the process has freed the window
  reported

serviceVars == <<pending, judged, ended, closed, retired, reported>>

ServiceInit ==
  /\ pending = {} /\ judged = [p \in Procs |-> {}]
  /\ ended = [p \in Procs |-> 0] /\ closed = [p \in Procs |-> 0]
  /\ retired = [p \in Procs |-> FALSE] /\ reported = FALSE

\* What process p has still to judge of the epoch it has not closed.
Due(p) == {a \in pending : a.dst = p /\ a.epoch = closed[p] + 1}

\* s makes an access to d, in an epoch d has not closed.
Make(s, d) ==
  /\ closed[d] <= ended[s] /\ ~ retired[d]
  /\ \E a \in pending' \ pending :
       /\ a.src = s /\ a.dst = d /\ a.epoch = ended[s] + 1
       /\ a.epoch = closed[d] + 1 => <<s, a.seq>> \notin judged[d]
       /\ pending' = pending \union {a}
  /\ UNCHANGED <<judged, ended, closed, retired, reported>>

\* d judges an access, which may be the report of a race.
Judge(d) ==
  /\ \E a \in Due(d) :
       /\ pending' = pending \ {a}
       /\ judged' = [judged EXCEPT ![d] = @ \union {<<a.src, a.seq>>}]
  /\ reported' \in BOOLEAN
  /\ UNCHANGED <<ended, closed, retired>>

\* A race with an access of the process itself.
Report == reported' = TRUE /\ UNCHANGED <<pending, judged, ended, closed, retired>>

End(s) ==
  /\ ended' = [ended EXCEPT ![s] = @ + 1]
  /\ UNCHANGED <<pending, judged, closed, retired, reported>>

Close(d) ==
  /\ \A s \in Procs : ended[s] > closed[d]
  /\ Due(d) = {}
  /\ closed' = [closed EXCEPT ![d] = @ + 1]
  /\ judged' = [judged EXCEPT ![d] = {}]
  /\ UNCHANGED <<pending, ended, retired, reported>>

\* d frees its window, which may close its last epoch: one without accesses.
Retire(d) ==
  /\ ~ retired[d] /\ ended[d] = closed[d] /\ judged[d] = {}
  /\ \A a \in pending : a.dst # d
  /\ retired' = [retired EXCEPT ![d] = TRUE]
  /\ \E e \in {closed[d], closed[d] + 1} :
       closed' = [closed EXCEPT ![d] = e] /\ ended' = [ended EXCEPT ![d] = e]
  /\ UNCHANGED <<pending, judged, reported>>

ServiceNext ==
  /\ ~ reported
  /\ \/ Report
     \/ \E s, d \in Procs : Make(s, d)
     \/ \E d \in Procs : Judge(d) \/ End(d) \/ Close(d) \/ Retire(d)

ServiceSpec == ServiceInit /\ [][ServiceNext]_serviceVars
=============================================================================
