---------------------------- MODULE IntervalTree ----------------------------
(***************************************************************************)
(* The store of a window, as the analyzer is built (USE_TREE): the tree of *)
(* core/interval_avl_tree.c as save_interval, delete_interval and the      *)
(* clear of an epoch use it, each under interval_mutex; and in step with   *)
(* it the list of core/interval_list.c, the store of a build without       *)
(* USE_TREE.  NotifTrees joins the notification tree to them.              *)
(***************************************************************************)
EXTENDS Intervals, AvlTree

CONSTANT Itvs    \* the intervals of the accesses the program makes

ASSUME ItvsAssumption ==
  \A i \in Itvs : i.low_bound \in Addr /\ i.up_bound \in Addr /\ i.access_type \in Access_type

VARIABLES
  local_tree,
  saved,      \* history: the intervals saved and not deleted since
  race,       \* the tree build has reported a race
  local_list, \* the list build's store for the same accesses, its links as a set
  list_race   \* the list build has reported a race

NoInterval == [low_bound |-> -1, up_bound |-> -1]

\* overlap_search
overlap_search(t, i) ==
  LET found[u \in Subtrees(t)] ==
        IF u = Nil THEN NoInterval
        ELSE IF if_intersects(u.itv, i) THEN u.itv
        ELSE CASE i.low_bound < u.key -> found[u.left]
               [] i.low_bound > u.key -> found[u.right]
               [] OTHER               -> NoInterval
  IN  found[t]

----------------------------------------------------------------------------
(* core/interval_list.c.  It is asked of all links at once. *)

\* Mutant: the new head is not linked to the old one.
insert_interval_unlinked(li, i) == {i}

\* The new head keeps the old one as its next link.
insert_interval_head(li, i) == li \union {i}

\* The links are checked one by one, to the end or the first intersection.
if_intersects_interval_list(i, li) == \E link \in li : if_intersects(i, link)

\* The head is removed until none is left.
free_interval_list(li) == {}

----------------------------------------------------------------------------
TreeInit ==
  /\ local_tree = Nil /\ saved = {} /\ race = FALSE
  /\ local_list = {} /\ list_race = FALSE

\* rma_analyzer_save_interval inside its lock, in the tree build ...
save_in_tree(i) ==
  \/ /\ overlap_search(local_tree, i) # NoInterval
     /\ race' = TRUE
     /\ UNCHANGED <<local_tree, saved>>
  \/ /\ overlap_search(local_tree, i) = NoInterval
     /\ local_tree' = insert(local_tree, i.low_bound, i)
     /\ saved' = saved \union {i}
     /\ UNCHANGED race

\* ... and in the list build, which goes on as long as it has no race.
save_in_list(i) ==
  \/ list_race /\ UNCHANGED <<local_list, list_race>>
  \/ /\ ~ list_race /\ if_intersects_interval_list(i, local_list)
     /\ list_race' = TRUE /\ UNCHANGED local_list
  \/ /\ ~ list_race /\ ~ if_intersects_interval_list(i, local_list)
     /\ local_list' = insert_interval_head(local_list, i) /\ UNCHANGED list_race

\* Both builds save the same accesses.
save_interval(i) ==
  /\ ~ race /\ i \notin saved
  /\ save_in_tree(i) /\ save_in_list(i)

\* rma_analyzer_delete_interval inside its lock; the list build deletes nothing.
delete_interval(i) ==
  /\ ~ race
  /\ local_tree' = delete(local_tree, i.low_bound)
  /\ saved' = saved \ {i}
  /\ UNCHANGED <<race, local_list, list_race>>

\* The clear of an epoch: free_interval_tree, free_interval_list.
free_stores ==
  /\ ~ race
  /\ local_tree' = free(local_tree)
  /\ saved' = {}
  /\ local_list' = free_interval_list(local_list)
  /\ UNCHANGED <<race, list_race>>

----------------------------------------------------------------------------
(* Correctness. *)

TreeTypeOK ==
  /\ Items(local_tree) \subseteq Itvs /\ saved \subseteq Itvs /\ local_list \subseteq Itvs
  /\ race \in BOOLEAN /\ list_race \in BOOLEAN

\* The tree stays a search tree with true heights, and balanced: "Update the
\* balance factor of each node and balance the tree".
AvlShape == Sorted(local_tree) /\ Measured(local_tree) /\ Balanced(local_tree)

\* The tree implements a store that may overlook races: what it reports is
\* stored, insertions and deletions concern the interval given and no other.
Store == INSTANCE IntervalStore WITH stored <- Items(local_tree)
ImplementsStore == Store!StoreSpec

\* The tree holds the intervals saved and not deleted: "Remove a specific
\* interval from the tree".
HoldsSaved == Items(local_tree) = saved

\* The two builds: what is stored in the tree is stored in the list, and a race
\* the tree build reports is one the list build has reported, no later.  (The
\* list build reports more: what the tree's search overlooks, and intervals
\* that a wait for their notification has purged from the tree.)
ListReportsAll ==
  /\ list_race \/ Items(local_tree) \subseteq local_list
  /\ race => list_race

\* "Checks if the given interval overlaps with another interval in the
\* interval tree.  If yes, returns the guilty interval."
SearchFindsOverlap ==
  \A i \in Itvs \ saved :
    (\E s \in Items(local_tree) : if_intersects(s, i)) => overlap_search(local_tree, i) # NoInterval
=============================================================================
