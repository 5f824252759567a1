-------------------------- MODULE RmaAnalyzerInv ---------------------------
(***************************************************************************)
(* The inductive invariant of RmaAnalyzer for disciplined programs, in     *)
(* named parts.  TLC checks it (MCRmaAnalyzer), RmaAnalyzerProofs proves   *)
(* it.  It speaks of every process up to MPI_Win_free: what reaches a      *)
(* window that is being freed depends on all processes agreeing on which   *)
(* fence is the last (RmaAnalyzerAgreement).                               *)
(***************************************************************************)
EXTENDS RmaAnalyzer

Active(p)  == active_epoch[p] = 1
Freeing(p) == call[p] = "free"

\* The window is inside an epoch, or between two fences.
Between(p) == open[p] = "lock" \/ count_fence[p] > 0

\* Intervals p has sent to q in its epoch, the one MPI_Send is at included.
SentCount(p, q) == array[p][q] + IF pc[p] = "send" /\ dest[p] = q THEN 1 ELSE 0

\* s has passed the reduction with root d of its i-th clear.
Gave(s, d, i) ==
  clears[s] >= i \/ (clears[s] + 1 = i /\ pc[s] = "reduce" /\ root[s] > d)

Targets == {a \in accesses : a.side = "target"}

\* The numbers s has given to its accesses to d in an epoch.
Numbers(s, d, e) == {a.seq : a \in {t \in Targets : t.src = s /\ t.dst = d /\ t.epoch = e}}

\* Where the application thread is, and what it then knows.
ControlOK(p) ==
  /\ open[p] = "lock" => count_fence[p] = 0
  /\ open[p] = "fence" => count_fence[p] > 0
  /\ pc[p] = "send" => open[p] # "closed"
  /\ pc[p] \in {"run", "send", "sync", "reduce", "join"} => (Active(p) <=> Between(p))
  /\ pc[p] \in {"reduce", "join"} =>
       /\ Active(p)
       /\ call[p] = "unlock_all" => open[p] = "lock"
       /\ call[p] \in {"fence", "fence_end", "free"} => open[p] # "lock" /\ count_fence[p] > 0
       /\ call[p] # "none"
  /\ pc[p] = "reduce" => call[p] # "free"
  /\ pc[p] \in {"fence_mid", "restart", "freed"} => ~ Active(p)
  /\ pc[p] = "fence_mid" => open[p] # "lock" /\ count_fence[p] > 0 /\ call[p] \in {"fence", "fence_end"}
  /\ pc[p] = "restart" => (from_sync[p] = 1 <=> Between(p))
  /\ Freeing(p) => pc[p] \in {"join", "freed"}
  /\ pc[p] = "freed" => Freeing(p)

\* Epochs are numbered by the clears that end them, on every process alike.
EpochOK(p) ==
  /\ Active(p) /\ pc[p] # "join" => count_epoch[p] = clears[p] + 1
  /\ ~ Freeing(p) /\ (~ Active(p) \/ pc[p] = "join") => count_epoch[p] = clears[p]

\* The only thread that may run is the one of the active epoch, and it stops
\* only when the owner is waiting for it.
ThreadOK(p) ==
  /\ \A k \in Epochs : Live(p, k) => k = count_epoch[p] /\ Active(p)
  /\ \A k \in Epochs : thr[p][k] = "poll" => tag[p][k] = k
  /\ Active(p) /\ thread_end[p] = 1 => pc[p] = "join"
  /\ Active(p) /\ Joinable(p) => pc[p] = "join"
  /\ Active(p) => count_epoch[p] \in Epochs

\* count is the number of intervals analysed in this epoch.
CountOK(p) ==
  /\ IsFiniteSet(analysed[p])
  /\ Active(p) /\ ~ Joinable(p) /\ ~ Freeing(p) => count[p] = Cardinality(analysed[p])
  /\ ~ Active(p) => count[p] = 0 /\ analysed[p] = {}

\* The messages in flight: each is about an access of an epoch its target has
\* not closed and has not been analysed.
NetOK ==
  /\ \A m \in net : m.tag = m.epoch
  /\ \A m \in net : ~ Freeing(m.dst) =>
       /\ LandedAccess(m) \in accesses
       /\ Active(m.dst) /\ m.epoch = count_epoch[m.dst]
            => <<m.src, m.seq>> \notin analysed[m.dst]
  /\ NoStragglers
  /\ \A m1, m2 \in net : /\ ~ Freeing(m1.dst)
                         /\ m1.src = m2.src /\ m1.dst = m2.dst
                         /\ m1.epoch = m2.epoch /\ m1.seq = m2.seq
                         => m1 = m2

\* The accesses to a process are in flight or analysed, until it closes their
\* epoch; a process numbers those it makes in an epoch from 1 on.
TargetsOK ==
  /\ \A a \in Targets : a.epoch <= count_epoch[a.src]
  /\ \A a \in Targets : ~ Freeing(a.dst) =>
       /\ a.epoch > Closed(a.dst)
       /\ \/ \E m \in net : m.dst = a.dst /\ m.src = a.src /\ m.epoch = a.epoch /\ m.seq = a.seq
          \/ /\ Active(a.dst) /\ a.epoch = count_epoch[a.dst]
             /\ <<a.src, a.seq>> \in analysed[a.dst]
  /\ \A s, d \in Procs : Active(s) /\ ~ Freeing(d) /\ count_epoch[s] > Closed(d)
                         => Numbers(s, d, count_epoch[s]) = 1 .. SentCount(s, d)
  /\ \A p \in Procs : ~ Freeing(p) => analysed[p] \subseteq Expected(p)

\* The reductions: who has given what, and that it is the right number.
ReduceOK ==
  /\ \A s, d \in Procs : Gave(s, d, clears[d])
  /\ \A s, d \in Procs : pc[d] = "reduce" /\ root[d] > d => Gave(s, d, clears[d] + 1)
  /\ \A c \in red : Gave(c.src, c.root, c.inst)
  /\ \A c1, c2 \in red : c1.src = c2.src /\ c1.root = c2.root /\ c1.inst = c2.inst => c1 = c2
  /\ \A c \in red : c.inst > clears[c.root] /\ ~ Freeing(c.root)
                    => Numbers(c.src, c.root, c.inst) = 1 .. c.n

\* The sum the reduction gives is the number of accesses of the epoch.
ValueOK(p) ==
  /\ pc[p] = "reduce" /\ root[p] > p => tmp[p] = Cardinality(Expected(p))
  /\ pc[p] = "join" /\ ~ Freeing(p) => value[p] = Cardinality(Expected(p))

IInv ==
  /\ TypeOK
  /\ \A p \in Procs : ControlOK(p) /\ EpochOK(p) /\ ThreadOK(p) /\ CountOK(p) /\ ValueOK(p)
  /\ NetOK /\ TargetsOK /\ ReduceOK
  /\ OneEpochPerTree /\ EpochComplete /\ halted # "nostate"
=============================================================================
