--------------------------- MODULE IntervalStore ---------------------------
(***************************************************************************)
(* What save_interval asks of the store of a window, whatever the store    *)
(* is: a set of intervals.  Saving an interval either reports a race with  *)
(* one that is stored, or stores it; it may overlook a race, and does not  *)
(* report what is none.                                                    *)
(***************************************************************************)
EXTENDS Intervals

CONSTANT Itvs    \* the intervals of the accesses the program makes

VARIABLES stored, race

StoreInit == stored = {} /\ race = FALSE

Conflicts(i) == {s \in stored : if_intersects(s, i)}

Report(i) ==
  /\ ~ race /\ i \notin stored /\ Conflicts(i) # {}
  /\ race' = TRUE /\ UNCHANGED stored

Store(i) ==
  /\ ~ race /\ i \notin stored
  /\ stored' = stored \union {i} /\ UNCHANGED race

Remove(i) ==
  /\ ~ race /\ i \in stored
  /\ stored' = stored \ {i} /\ UNCHANGED race

Clear == ~ race /\ stored' = {} /\ UNCHANGED race

StoreNext == Clear \/ \E i \in Itvs : Report(i) \/ Store(i) \/ Remove(i)

StoreSpec == StoreInit /\ [][StoreNext]_<<stored, race>>
=============================================================================
