----------------------------- MODULE NotifTrees -----------------------------
(***************************************************************************)
(* The two trees of a window built with notified communications: every     *)
(* interval saved with a notification ID is also in the notification tree  *)
(* of core/notif_avl_tree.c, and a wait for the ID removes it from both.   *)
(* Each action is a critical section; NotifiedRma models how the sections  *)
(* of the two threads interleave.                                          *)
(***************************************************************************)
EXTENDS IntervalTree

ASSUME IdsAssumption == \A i \in Itvs : i.notification_id \in Int

VARIABLE notif_tree

notifVars == <<local_tree, saved, race, local_list, list_race, notif_tree>>

Notified(i) == i.notification_id >= 0

\* find_interval_from_notif
find_interval_from_notif(t, id) ==
  LET found[u \in Subtrees(t)] ==
        IF u = Nil THEN NoInterval
        ELSE IF id = u.key THEN u.itv
        ELSE CASE id < u.key -> found[u.left]
               [] id > u.key -> found[u.right]
               [] OTHER      -> NoInterval
  IN  found[t]

NotifInit == TreeInit /\ notif_tree = Nil

\* Mutant: the notification tree is ordered by the low bounds.
insert_by_bound(t, i) == insert(t, i.low_bound, i)

insert_notif_tree(t, i) == insert(t, i.notification_id, i)
delete_notif_tree(t, id) == delete(t, id)

\* rma_analyzer_save_interval with rma_analyzer_save_notif.
save_notified(i) ==
  /\ save_interval(i)
  /\ notif_tree' = IF Notified(i) /\ ~ race' THEN insert_notif_tree(notif_tree, i) ELSE notif_tree

\* rma_analyzer_clear_from_notif_id, for an ID whose interval has landed.
clear_from_notif_id(id) ==
  /\ find_interval_from_notif(notif_tree, id) # NoInterval
  /\ delete_interval(find_interval_from_notif(notif_tree, id))
  /\ notif_tree' = delete_notif_tree(notif_tree, id)

\* Mutant: the notification tree outlives the epoch.
clear_one_tree == free_stores /\ UNCHANGED notif_tree

\* The clear of an epoch frees both trees.
clear_trees == free_stores /\ notif_tree' = free(notif_tree)

NotifNext ==
  \/ clear_trees
  \/ \E i \in Itvs : save_notified(i) \/ clear_from_notif_id(i.notification_id)

NotifSpec == NotifInit /\ [][NotifNext]_notifVars

----------------------------------------------------------------------------
(* Correctness. *)

\* A key names one node of its tree: what the program has to keep to for the
\* trees to follow it.  Nothing in the analyzer sees to it.
BoundsApart == \A i, j \in saved : i.low_bound = j.low_bound => i = j
IdsApart ==
  \A i, j \in saved : Notified(i) /\ Notified(j) /\ i.notification_id = j.notification_id => i = j
Apart == BoundsApart /\ IdsApart

\* The trees hold the same notified intervals, each once: the pointers of the
\* notification tree lead to intervals that are still in the local tree.
SameNotified == Items(notif_tree) = {i \in Items(local_tree) : Notified(i)}

\* Every notified interval that is stored can be found by its notification ID,
\* whichever order the intervals came in and left.
FoundById ==
  \A i \in saved : Notified(i) =>
    LET found == find_interval_from_notif(notif_tree, i.notification_id)
    IN  found # NoInterval /\ found.notification_id = i.notification_id

\* "Remove a specific interval from the tree", the leftmost leaf that takes its
\* place being removed "instead": a clear leaves the intervals with other low
\* bounds alone.
ClearsNoOther ==
  [][\A i \in saved \ saved', j \in Items(local_tree) :
       saved' # {} /\ j.low_bound # i.low_bound => j \in Items(local_tree')]_notifVars
=============================================================================
