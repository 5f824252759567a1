---------------------------- MODULE NotifiedRma ----------------------------
(***************************************************************************)
(* Notified communications at their target: an origin sends the interval   *)
(* of a notified put and then makes the put; the target's application      *)
(* thread waits for the notification and purges the interval, while the    *)
(* checking thread receives and saves intervals.  The two threads share    *)
(* the trees under interval_mutex and notif_mutex, which are modelled lock *)
(* by lock.  Then the epoch ends: the target learns how many intervals the *)
(* origin sent, joins the thread and frees the trees.  Notified call n is  *)
(* told by its notification_id; the trees are sets (modules AvlTree and    *)
(* IntervalTree model them).                                               *)
(***************************************************************************)
EXTENDS Naturals, Sequences

CONSTANTS
  Calls,   \* number of notified calls of the origin
  Acked,   \* TRUE: the origin waits for an answer to a call before the next
  Locals   \* number of accesses the target makes to its own memory

ASSUME NotifiedAssumption == Calls \in Nat \ {0} /\ Acked \in BOOLEAN /\ Locals \in Nat

Ids == 1 .. Calls

\* The target's own accesses, with notification ID -1, are not purged.
Own(n) == Calls + n
OwnIds == {Own(n) : n \in 1 .. Locals}

VARIABLES
  sent, put,         \* calls whose interval was sent, whose put was made
  gave,              \* the origin has given its count to the reduction
  net,               \* intervals on their way to the target
  pc, waiting,       \* the target's application thread and the call it waits for
  tpc, received,     \* its checking thread and the interval it has received
  count, value,      \* intervals received, and how many there are in the epoch
  interval_mutex, notif_mutex,
  local_tree, notif_tree,
  owned,             \* accesses the target has made to its own memory
  waited, early      \* history: calls purged; those saved before their purge

originVars == <<sent, put, gave>>
appVars    == <<pc, waiting, value, owned, waited, early>>
threadVars == <<tpc, received, count>>
locks      == <<interval_mutex, notif_mutex>>
trees      == <<local_tree, notif_tree>>
vars == <<originVars, net, appVars, threadVars, locks, trees>>

Holder == {"free", "app", "thread"}

NotifiedTypeOK ==
  /\ sent \in 0 .. Calls /\ put \in 0 .. Calls /\ net \in Seq(Ids)
  /\ pc \in {"run", "clear", "delete", "unlock", "reduce", "end", "join", "closed", "crashed"}
  /\ tpc \in {"poll", "save", "notif", "done"} /\ gave \in BOOLEAN
  /\ {waiting, received, count, value} \subseteq 0 .. Calls
  /\ interval_mutex \in Holder /\ notif_mutex \in Holder
  /\ local_tree \subseteq Ids \union OwnIds /\ notif_tree \subseteq Ids
  /\ owned \in 0 .. Locals /\ waited \subseteq Ids /\ early \subseteq Ids

Init ==
  /\ sent = 0 /\ put = 0 /\ gave = FALSE /\ net = <<>>
  /\ pc = "run" /\ waiting = 0 /\ value = 0 /\ tpc = "poll" /\ received = 0 /\ count = 0
  /\ interval_mutex = "free" /\ notif_mutex = "free"
  /\ local_tree = {} /\ notif_tree = {} /\ owned = 0 /\ waited = {} /\ early = {}

----------------------------------------------------------------------------
(* The origin: rma_analyzer_update_on_comm_send, then MPIX_Put_notify. *)

Send ==
  /\ ~ gave /\ sent < Calls /\ put = sent
  /\ Acked => \A n \in 1 .. sent : n \in waited
  /\ sent' = sent + 1
  /\ net' = Append(net, sent + 1)
  /\ UNCHANGED <<put, gave, appVars, threadVars, locks, trees>>

\* Mutant: a put is made before its interval was sent.
PutAhead ==
  /\ put <= sent
  /\ put' = put + 1
  /\ UNCHANGED <<sent, gave, net, appVars, threadVars, locks, trees>>

Put ==
  /\ put < sent
  /\ put' = put + 1
  /\ UNCHANGED <<sent, gave, net, appVars, threadVars, locks, trees>>

\* The origin ends its epoch: its count of intervals goes into the reduction
\* whose root is the target.
OriginUnlock ==
  /\ ~ gave /\ put = sent
  /\ gave' = TRUE
  /\ UNCHANGED <<sent, put, net, appVars, threadVars, locks, trees>>

----------------------------------------------------------------------------
(* The application thread: new_Win_wait_notify, new_Win_test_notify. *)

\* The notification of call n has arrived.
Wait(n) ==
  /\ pc = "run" /\ n <= put /\ n \notin waited
  /\ pc' = "clear" /\ waiting' = n
  /\ UNCHANGED <<originVars, net, value, owned, waited, early, threadVars, locks, trees>>

\* rma_analyzer_clear_from_notif_id locks notif_mutex ...
ClearLock ==
  /\ pc = "clear" /\ notif_mutex = "free"
  /\ notif_mutex' = "app"
  /\ pc' = "delete"
  /\ early' = early \union ({waiting} \intersect notif_tree)
  /\ UNCHANGED <<originVars, net, waiting, value, owned, waited, threadVars, interval_mutex, trees>>

\* Mutant: the interval stays in the local tree.
DeleteIntervalKeeps ==
  /\ pc = "delete" /\ interval_mutex = "free"
  /\ pc' = "unlock"
  /\ UNCHANGED <<originVars, net, waiting, value, owned, waited, early, threadVars, locks, trees>>

\* ... and deletes the interval found for the notification.  If none is found,
\* delete_interval_tree reads the bounds of NULL unless the tree is empty.
DeleteInterval ==
  /\ pc = "delete" /\ interval_mutex = "free"
  /\ \/ /\ waiting \in notif_tree \/ local_tree = {}
        /\ local_tree' = local_tree \ {waiting}
        /\ pc' = "unlock"
     \/ /\ waiting \notin notif_tree /\ local_tree # {}
        /\ pc' = "crashed"
        /\ UNCHANGED local_tree
  /\ UNCHANGED <<originVars, net, waiting, value, owned, waited, early, threadVars, locks, notif_tree>>

\* Mutant: the entry of the notification tree is left behind.
DeleteNotifKeeps ==
  /\ pc = "unlock"
  /\ notif_mutex' = "free"
  /\ waited' = waited \union {waiting}
  /\ pc' = "run"
  /\ UNCHANGED <<originVars, net, waiting, value, owned, early, threadVars, interval_mutex, trees>>

DeleteNotif ==
  /\ pc = "unlock"
  /\ notif_tree' = notif_tree \ {waiting}
  /\ notif_mutex' = "free"
  /\ waited' = waited \union {waiting}
  /\ pc' = "run"
  /\ UNCHANGED <<originVars, net, waiting, value, owned, early, threadVars, interval_mutex, local_tree>>

\* A LOAD or STORE elsewhere in the window, saved without a notification.
SaveOwn ==
  /\ pc = "run" /\ owned < Locals /\ interval_mutex = "free"
  /\ owned' = owned + 1
  /\ local_tree' = local_tree \union {Own(owned + 1)}
  /\ UNCHANGED <<originVars, net, pc, waiting, value, waited, early, threadVars, locks, notif_tree>>

\* The target ends its epoch, whether or not it has waited for every call ...
Unlock ==
  /\ pc = "run" /\ pc' = "reduce"
  /\ UNCHANGED <<originVars, net, waiting, value, owned, waited, early, threadVars, locks, trees>>

\* Mutant: thread_end is raised before the sum is stored.
ReduceEndFirst ==
  /\ gave
  /\ \/ pc = "reduce" /\ pc' = "join" /\ UNCHANGED value
     \/ pc = "join" /\ value' = sent /\ UNCHANGED pc
  /\ UNCHANGED <<originVars, net, waiting, owned, waited, early, threadVars, locks, trees>>

\* ... gets the sum ...
Reduce ==
  /\ pc = "reduce" /\ gave
  /\ value' = sent
  /\ pc' = "end"
  /\ UNCHANGED <<originVars, net, waiting, owned, waited, early, threadVars, locks, trees>>

\* ... then raises thread_end, which is set while it is at the join ...
RaiseEnd ==
  /\ pc = "end"
  /\ pc' = "join"
  /\ UNCHANGED <<originVars, net, waiting, value, owned, waited, early, threadVars, locks, trees>>

\* ... and, when the thread is gone, frees both trees without a lock.
ClearTrees ==
  /\ pc = "join" /\ tpc = "done"
  /\ local_tree' = {} /\ notif_tree' = {}
  /\ pc' = "closed"
  /\ UNCHANGED <<originVars, net, waiting, value, owned, waited, early, threadVars, locks>>

----------------------------------------------------------------------------
(* The checking thread: rma_analyzer_save_interval. *)

Receive ==
  /\ pc # "crashed" /\ tpc = "poll" /\ net # <<>>
  /\ received' = Head(net) /\ net' = Tail(net) /\ count' = count + 1
  /\ tpc' = "save"
  /\ UNCHANGED <<originVars, appVars, locks, trees>>

\* Under interval_mutex the interval goes into the tree ...
SaveInterval ==
  /\ pc # "crashed" /\ tpc = "save" /\ interval_mutex = "free"
  /\ interval_mutex' = "thread"
  /\ local_tree' = local_tree \union {received}
  /\ tpc' = "notif"
  /\ UNCHANGED <<originVars, net, appVars, received, count, notif_mutex, notif_tree>>

\* ... and, under notif_mutex as well, into the notification tree.
SaveNotif ==
  /\ pc # "crashed" /\ tpc = "notif" /\ notif_mutex = "free"
  /\ notif_tree' = notif_tree \union {received}
  /\ interval_mutex' = "free"
  /\ tpc' = "poll"
  /\ UNCHANGED <<originVars, net, appVars, received, count, notif_mutex, local_tree>>

\* Mutant: the thread waits for one more.
ReceivedMore == count > value

ReceivedAll == count = value

\* thread_end is set and the intervals have all been received.
Exit ==
  /\ tpc = "poll" /\ pc = "join" /\ ReceivedAll
  /\ count' = 0
  /\ tpc' = "done"
  /\ UNCHANGED <<originVars, net, appVars, received, locks, trees>>

Origin == Send \/ Put \/ OriginUnlock
App ==
  \/ (\E n \in Ids : Wait(n)) \/ ClearLock \/ DeleteInterval \/ DeleteNotif \/ SaveOwn
  \/ Unlock \/ Reduce \/ RaiseEnd \/ ClearTrees
Thread == Receive \/ SaveInterval \/ SaveNotif \/ Exit

Next == Origin \/ App \/ Thread

Spec == Init /\ [][Next]_vars

\* Both threads are scheduled, and the origin goes on.
FairSpec == Spec /\ WF_vars(Origin) /\ WF_vars(App) /\ WF_vars(Thread)

----------------------------------------------------------------------------
(* Correctness. *)

\* The two trees agree on the notified intervals whenever neither is locked:
\* each entry of the notification tree leads to an interval of the local tree.
TreesAgree ==
  interval_mutex = "free" /\ notif_mutex = "free" => notif_tree = local_tree \intersect Ids

\* An interval that was saved before its notification was waited for is gone
\* once the wait returns, and stays gone.
EarlyIntervalsPurged == early \intersect waited \intersect local_tree = {}

\* Whatever waits came too early to purge, the end of the epoch leaves nothing:
\* no interval is stored, and none will come for the trees of the next epoch.
EpochLeavesNothing ==
  pc = "closed" => local_tree = {} /\ notif_tree = {} /\ net = <<>>

\* A target that ends its epoch gets through it, whatever the thread is at.
EpochEnds == pc \in {"reduce", "end", "join"} ~> pc = "closed"

\* "Clean up notification and interval when received": once the wait for a
\* notification has returned, its interval is not, and will not be, stored.
WaitPurges == \A n \in waited : n \notin local_tree

\* The wait for a notification that has arrived returns: the test passes its
\* MPI_Win_free.
WaitReturns == pc = "clear" ~> pc \in {"run", "crashed"}
=============================================================================
