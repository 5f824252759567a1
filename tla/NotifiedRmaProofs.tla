------------------------- MODULE NotifiedRmaProofs --------------------------
(***************************************************************************)
(* The safety properties of NotifiedRma for any number of calls and of     *)
(* accesses, acknowledged or not.  The inductive invariant says what the   *)
(* two locks protect: who holds which, how the trees differ while one of   *)
(* them is held, and that intervals arrive in the order they were sent,    *)
(* so that one which was purged never comes again.                         *)
(***************************************************************************)
EXTENDS NotifiedRma, TLAPS

\* The thread holds interval_mutex while it enters an interval in the
\* notification tree; the application holds notif_mutex while it purges.
Purging == pc \in {"delete", "unlock", "crashed"}
LockOK ==
  /\ interval_mutex = IF tpc = "notif" THEN "thread" ELSE "free"
  /\ notif_mutex = IF Purging THEN "app" ELSE "free"

\* The intervals on their way are those after the last one received.
OrderOK ==
  /\ received + Len(net) = sent
  /\ \A i \in 1 .. Len(net) : net[i] = received + i

\* The thread counts what it receives and leaves when it has received what
\* the origin gave: the origin sends nothing after that.
CountOK ==
  /\ tpc # "done" => count = received
  /\ tpc = "done" => pc \in {"join", "closed"} /\ net = <<>>
  /\ pc \in {"end", "join", "closed"} => gave /\ value = sent
  /\ pc = "closed" => tpc = "done"
  /\ put <= sent

\* Only what was received is stored, and what was just received is not yet.
Stored == (local_tree \intersect Ids) \union notif_tree \union early
ReceivedOK ==
  /\ \A n \in Stored : n <= received
  /\ tpc = "save" => received \notin Stored
  /\ tpc = "notif" => received \notin notif_tree \union early
  /\ tpc \in {"save", "notif"} => received \in Ids

\* The trees differ by the interval the thread is entering and by the one the
\* application is deleting.
Entered == IF tpc = "notif" THEN {received} ELSE {}
Cut     == IF pc = "unlock" THEN {waiting} ELSE {}
TreesOK == local_tree \intersect Ids = (notif_tree \ Cut) \union Entered

\* A call saved before its purge is stored only until the purge deletes it.
EarlyOK ==
  /\ early \subseteq waited \union IF Purging THEN {waiting} ELSE {}
  /\ pc \in {"clear", "delete", "unlock"} => waiting \in Ids \ waited
  /\ \A n \in early : n \notin local_tree \/ (pc = "delete" /\ n = waiting)
  /\ pc = "delete" /\ waiting \in early => waiting \in notif_tree

ClosedOK == pc = "closed" => local_tree = {} /\ notif_tree = {}

NotifiedInv ==
  /\ NotifiedTypeOK
  /\ LockOK /\ OrderOK /\ CountOK /\ ReceivedOK /\ TreesOK /\ EarlyOK /\ ClosedOK

----------------------------------------------------------------------------
(* Facts about the intervals of the target itself and about the net. *)

\* The target's own accesses are told from the notified calls.
LEMMA OwnApart ==
  ASSUME NEW n \in 1 .. Locals
  PROVE  Own(n) \in OwnIds /\ Own(n) \notin Ids
BY NotifiedAssumption DEF Own, OwnIds, Ids

\* An access of its own changes the local tree outside the notified calls.
LEMMA OwnStored ==
  ASSUME NotifiedTypeOK, SaveOwn
  PROVE  /\ local_tree' \intersect Ids = local_tree \intersect Ids
         /\ \A n \in Ids : n \in local_tree' <=> n \in local_tree
         /\ local_tree' \subseteq Ids \union OwnIds
<1>1. owned + 1 \in 1 .. Locals BY NotifiedAssumption DEF NotifiedTypeOK, SaveOwn
<1>2. Own(owned + 1) \in OwnIds /\ Own(owned + 1) \notin Ids BY <1>1, OwnApart
<1>3. local_tree' = local_tree \union {Own(owned + 1)} BY DEF SaveOwn
<1> QED BY <1>2, <1>3 DEF NotifiedTypeOK

\* The next interval to arrive is the one after the last that did.
LEMMA ReceiveEffect ==
  ASSUME NotifiedTypeOK, OrderOK, Receive
  PROVE  /\ received' = received + 1 /\ received' \in Ids
         /\ net' \in Seq(Ids) /\ Len(net') = Len(net) - 1 /\ Len(net') \in Nat
         /\ \A i \in 1 .. Len(net') : net'[i] = net[i + 1]
<1> USE DEF NotifiedTypeOK, Receive
<1>1. net # <<>> /\ net \in Seq(Ids) /\ Len(net) \in Nat \ {0} OBVIOUS
<1>2. Head(net) = net[1] /\ net[1] \in Ids BY <1>1
<1>3. net[1] = received + 1 BY <1>1 DEF OrderOK
<1>4. net' \in Seq(Ids) /\ Len(net') = Len(net) - 1 BY <1>1
<1>5. \A i \in 1 .. Len(net') : net'[i] = net[i + 1] BY <1>1, <1>4
<1> QED BY <1>1, <1>2, <1>3, <1>4, <1>5

----------------------------------------------------------------------------
(* Each part of the invariant is kept by each action. *)

\* The variables keep their types.
LEMMA TypeStep == ASSUME NotifiedInv, [Next]_vars PROVE NotifiedTypeOK'
<1> USE DEF NotifiedInv, NotifiedTypeOK
<1> USE DEF originVars, appVars, threadVars, locks, trees
<1>1. ASSUME Send PROVE NotifiedTypeOK'
  <2>1. sent + 1 \in Ids BY <1>1, NotifiedAssumption DEF Send, Ids
  <2>2. net' \in Seq(Ids) BY <1>1, <2>1 DEF Send
  <2>3. sent' \in 0 .. Calls BY <1>1, <2>1, NotifiedAssumption DEF Send, Ids
  <2> QED BY <1>1, <2>2, <2>3 DEF Send
<1>2. ASSUME Put PROVE NotifiedTypeOK'
  BY <1>2, NotifiedAssumption DEF Put, CountOK
<1>3. ASSUME OriginUnlock PROVE NotifiedTypeOK' BY <1>3 DEF OriginUnlock
<1>4. ASSUME NEW n \in Ids, Wait(n) PROVE NotifiedTypeOK'
  <2>1. n \in 0 .. Calls BY NotifiedAssumption DEF Ids
  <2> QED BY <1>4, <2>1 DEF Wait
<1>5. ASSUME ClearLock PROVE NotifiedTypeOK'
  <2>1. early' \subseteq Ids BY <1>5 DEF ClearLock
  <2> QED BY <1>5, <2>1 DEF ClearLock, Holder
<1>6. ASSUME DeleteInterval PROVE NotifiedTypeOK' BY <1>6 DEF DeleteInterval
<1>7. ASSUME DeleteNotif PROVE NotifiedTypeOK'
  <2>1. waiting \in Ids BY <1>7 DEF DeleteNotif, EarlyOK
  <2>2. waited' \subseteq Ids /\ notif_tree' \subseteq Ids BY <1>7, <2>1 DEF DeleteNotif
  <2> QED BY <1>7, <2>2 DEF DeleteNotif, Holder
<1>8. ASSUME SaveOwn PROVE NotifiedTypeOK'
  <2>1. owned + 1 \in 0 .. Locals BY <1>8, NotifiedAssumption DEF SaveOwn
  <2> QED BY <1>8, <2>1, OwnStored DEF SaveOwn
<1>9. ASSUME Unlock PROVE NotifiedTypeOK' BY <1>9 DEF Unlock
<1>10. ASSUME Reduce PROVE NotifiedTypeOK' BY <1>10 DEF Reduce
<1>17. ASSUME RaiseEnd PROVE NotifiedTypeOK' BY <1>17 DEF RaiseEnd
<1>11. ASSUME ClearTrees PROVE NotifiedTypeOK' BY <1>11 DEF ClearTrees
<1>12. ASSUME Receive PROVE NotifiedTypeOK'
  <2>1. count' = received' BY <1>12, ReceiveEffect DEF Receive, CountOK
  <2>2. received' \in 0 .. Calls BY <1>12, ReceiveEffect, NotifiedAssumption DEF Ids
  <2> QED BY <1>12, <2>1, <2>2, ReceiveEffect DEF Receive
<1>13. ASSUME SaveInterval PROVE NotifiedTypeOK'
  <2>1. received \in Ids BY <1>13 DEF SaveInterval, ReceivedOK
  <2>2. local_tree' \subseteq Ids \union OwnIds BY <1>13, <2>1 DEF SaveInterval
  <2> QED BY <1>13, <2>2 DEF SaveInterval, Holder
<1>14. ASSUME SaveNotif PROVE NotifiedTypeOK'
  <2>1. received \in Ids BY <1>14 DEF SaveNotif, ReceivedOK
  <2>2. notif_tree' \subseteq Ids BY <1>14, <2>1 DEF SaveNotif
  <2> QED BY <1>14, <2>2 DEF SaveNotif, Holder
<1>15. ASSUME Exit PROVE NotifiedTypeOK'
  BY <1>15, NotifiedAssumption DEF Exit
<1>16. CASE UNCHANGED vars BY <1>16 DEF vars
<1> QED
  BY <1>1, <1>2, <1>3, <1>4, <1>5, <1>6, <1>7, <1>8, <1>9, <1>10, <1>11, <1>12, <1>13, <1>14, <1>15, <1>16, <1>17
  DEF Next, Origin, App, Thread

\* The locks are held exactly where the code holds them.
LEMMA LockStep == ASSUME NotifiedInv, [Next]_vars PROVE LockOK'
<1> USE DEF NotifiedInv, NotifiedTypeOK, LockOK, Purging
<1> USE DEF originVars, appVars, threadVars, locks, trees
<1>1. ASSUME Send PROVE LockOK' BY <1>1 DEF Send
<1>2. ASSUME Put PROVE LockOK' BY <1>2 DEF Put
<1>3. ASSUME OriginUnlock PROVE LockOK' BY <1>3 DEF OriginUnlock
<1>4. ASSUME NEW n \in Ids, Wait(n) PROVE LockOK' BY <1>4 DEF Wait
<1>5. ASSUME ClearLock PROVE LockOK' BY <1>5 DEF ClearLock
<1>6. ASSUME DeleteInterval PROVE LockOK' BY <1>6 DEF DeleteInterval
<1>7. ASSUME DeleteNotif PROVE LockOK' BY <1>7 DEF DeleteNotif
<1>8. ASSUME SaveOwn PROVE LockOK' BY <1>8 DEF SaveOwn
<1>9. ASSUME Unlock PROVE LockOK' BY <1>9 DEF Unlock
<1>10. ASSUME Reduce PROVE LockOK' BY <1>10 DEF Reduce
<1>17. ASSUME RaiseEnd PROVE LockOK' BY <1>17 DEF RaiseEnd
<1>11. ASSUME ClearTrees PROVE LockOK' BY <1>11 DEF ClearTrees
<1>12. ASSUME Receive PROVE LockOK' BY <1>12 DEF Receive
<1>13. ASSUME SaveInterval PROVE LockOK' BY <1>13 DEF SaveInterval
<1>14. ASSUME SaveNotif PROVE LockOK' BY <1>14 DEF SaveNotif
<1>15. ASSUME Exit PROVE LockOK' BY <1>15 DEF Exit
<1>16. CASE UNCHANGED vars BY <1>16 DEF vars
<1> QED
  BY <1>1, <1>2, <1>3, <1>4, <1>5, <1>6, <1>7, <1>8, <1>9, <1>10, <1>11, <1>12, <1>13, <1>14, <1>15, <1>16, <1>17
  DEF Next, Origin, App, Thread

\* Intervals arrive in the order they were sent.
LEMMA OrderStep == ASSUME NotifiedInv, [Next]_vars PROVE OrderOK'
<1> USE DEF NotifiedInv, NotifiedTypeOK, OrderOK
<1> USE DEF originVars, appVars, threadVars, locks, trees
<1>1. ASSUME Send PROVE OrderOK'
  <2> HIDE DEF NotifiedInv, NotifiedTypeOK, OrderOK, appVars, threadVars
  <2>1. net \in Seq(Ids) /\ sent \in Nat /\ received \in Nat BY DEF NotifiedInv, NotifiedTypeOK
  <2>2. net' = Append(net, sent + 1) /\ sent' = sent + 1 /\ received' = received
    BY <1>1 DEF Send, threadVars
  <2>3. received + Len(net) = sent /\ \A i \in 1 .. Len(net) : net[i] = received + i
    BY DEF NotifiedInv, OrderOK
  <2> QED BY <2>1, <2>2, <2>3 DEF OrderOK
<1>2. ASSUME Put PROVE OrderOK' BY <1>2 DEF Put
<1>3. ASSUME OriginUnlock PROVE OrderOK' BY <1>3 DEF OriginUnlock
<1>4. ASSUME NEW n \in Ids, Wait(n) PROVE OrderOK' BY <1>4 DEF Wait
<1>5. ASSUME ClearLock PROVE OrderOK' BY <1>5 DEF ClearLock
<1>6. ASSUME DeleteInterval PROVE OrderOK' BY <1>6 DEF DeleteInterval
<1>7. ASSUME DeleteNotif PROVE OrderOK' BY <1>7 DEF DeleteNotif
<1>8. ASSUME SaveOwn PROVE OrderOK' BY <1>8 DEF SaveOwn
<1>9. ASSUME Unlock PROVE OrderOK' BY <1>9 DEF Unlock
<1>10. ASSUME Reduce PROVE OrderOK' BY <1>10 DEF Reduce
<1>17. ASSUME RaiseEnd PROVE OrderOK' BY <1>17 DEF RaiseEnd
<1>11. ASSUME ClearTrees PROVE OrderOK' BY <1>11 DEF ClearTrees
<1>12. ASSUME Receive PROVE OrderOK'
  <2> DEFINE len == Len(net)
  <2>1. received' = received + 1 /\ received \in Nat /\ sent' = sent /\ sent \in Nat /\ len \in Nat
    BY <1>12, ReceiveEffect DEF Receive
  <2>2. received' + Len(net') = sent'
    <3>1. received + len = sent /\ Len(net') = len - 1 BY <1>12, ReceiveEffect
    <3> QED BY <2>1, <3>1
  <2>3. ASSUME NEW i \in 1 .. Len(net') PROVE net'[i] = received' + i
    <3>1. net'[i] = net[i + 1] /\ i + 1 \in 1 .. len BY <1>12, <2>1, ReceiveEffect
    <3> QED BY <2>1, <3>1
  <2> QED BY <2>2, <2>3
<1>13. ASSUME SaveInterval PROVE OrderOK' BY <1>13 DEF SaveInterval
<1>14. ASSUME SaveNotif PROVE OrderOK' BY <1>14 DEF SaveNotif
<1>15. ASSUME Exit PROVE OrderOK' BY <1>15 DEF Exit
<1>16. CASE UNCHANGED vars BY <1>16 DEF vars
<1> QED
  BY <1>1, <1>2, <1>3, <1>4, <1>5, <1>6, <1>7, <1>8, <1>9, <1>10, <1>11, <1>12, <1>13, <1>14, <1>15, <1>16, <1>17
  DEF Next, Origin, App, Thread

\* The thread leaves when all intervals have been received.
LEMMA CountStep == ASSUME NotifiedInv, [Next]_vars PROVE CountOK'
<1> USE DEF NotifiedInv, NotifiedTypeOK, CountOK, OrderOK
<1> USE DEF originVars, appVars, threadVars, locks, trees
<1>1. ASSUME Send PROVE CountOK' BY <1>1 DEF Send
<1>2. ASSUME Put PROVE CountOK' BY <1>2 DEF Put
<1>3. ASSUME OriginUnlock PROVE CountOK' BY <1>3 DEF OriginUnlock
<1>4. ASSUME NEW n \in Ids, Wait(n) PROVE CountOK' BY <1>4 DEF Wait
<1>5. ASSUME ClearLock PROVE CountOK' BY <1>5 DEF ClearLock
<1>6. ASSUME DeleteInterval PROVE CountOK' BY <1>6 DEF DeleteInterval
<1>7. ASSUME DeleteNotif PROVE CountOK' BY <1>7 DEF DeleteNotif
<1>8. ASSUME SaveOwn PROVE CountOK' BY <1>8 DEF SaveOwn
<1>9. ASSUME Unlock PROVE CountOK' BY <1>9 DEF Unlock
<1>10. ASSUME Reduce PROVE CountOK' BY <1>10 DEF Reduce
<1>17. ASSUME RaiseEnd PROVE CountOK' BY <1>17 DEF RaiseEnd
<1>11. ASSUME ClearTrees PROVE CountOK' BY <1>11 DEF ClearTrees
<1>12. ASSUME Receive PROVE CountOK'
  BY <1>12, ReceiveEffect DEF Receive
<1>13. ASSUME SaveInterval PROVE CountOK' BY <1>13 DEF SaveInterval
<1>14. ASSUME SaveNotif PROVE CountOK' BY <1>14 DEF SaveNotif
<1>15. ASSUME Exit PROVE CountOK'
  <2>1. received = sent BY <1>15 DEF Exit, ReceivedAll
  <2>2. net = <<>> BY <2>1 DEF OrderOK
  <2> QED BY <1>15, <2>1, <2>2 DEF Exit
<1>16. CASE UNCHANGED vars BY <1>16 DEF vars
<1> QED
  BY <1>1, <1>2, <1>3, <1>4, <1>5, <1>6, <1>7, <1>8, <1>9, <1>10, <1>11, <1>12, <1>13, <1>14, <1>15, <1>16, <1>17
  DEF Next, Origin, App, Thread

\* What is received next is not stored.
LEMMA ReceivedStep == ASSUME NotifiedInv, [Next]_vars PROVE ReceivedOK'
<1> USE DEF NotifiedInv, NotifiedTypeOK, ReceivedOK, Stored, LockOK
<1> USE DEF originVars, appVars, threadVars, locks, trees
<1>1. ASSUME Send PROVE ReceivedOK' BY <1>1 DEF Send
<1>2. ASSUME Put PROVE ReceivedOK' BY <1>2 DEF Put
<1>3. ASSUME OriginUnlock PROVE ReceivedOK' BY <1>3 DEF OriginUnlock
<1>4. ASSUME NEW n \in Ids, Wait(n) PROVE ReceivedOK' BY <1>4 DEF Wait
<1>5. ASSUME ClearLock PROVE ReceivedOK'
  <2>1. Stored' = Stored BY <1>5 DEF ClearLock
  <2> QED BY <1>5, <2>1 DEF ClearLock
<1>6. ASSUME DeleteInterval PROVE ReceivedOK' BY <1>6 DEF DeleteInterval
<1>7. ASSUME DeleteNotif PROVE ReceivedOK' BY <1>7 DEF DeleteNotif
<1>8. ASSUME SaveOwn PROVE ReceivedOK'
  <2>1. Stored' = Stored BY <1>8, OwnStored DEF SaveOwn
  <2> QED BY <1>8, <2>1 DEF SaveOwn
<1>9. ASSUME Unlock PROVE ReceivedOK' BY <1>9 DEF Unlock
<1>10. ASSUME Reduce PROVE ReceivedOK' BY <1>10 DEF Reduce
<1>17. ASSUME RaiseEnd PROVE ReceivedOK' BY <1>17 DEF RaiseEnd
<1>11. ASSUME ClearTrees PROVE ReceivedOK' BY <1>11 DEF ClearTrees
<1>12. ASSUME Receive PROVE ReceivedOK'
  <2>1. Stored' = Stored BY <1>12 DEF Receive
  <2>2. tpc' = "save" /\ received' = received + 1 /\ received' \in Ids
    BY <1>12, ReceiveEffect DEF Receive
  <2>3. Stored \subseteq Ids /\ early \subseteq Stored OBVIOUS
  <2>4. \A n \in Stored : n <= received /\ n \in Nat BY <2>3 DEF Ids
  <2> QED BY <1>12, <2>1, <2>2, <2>4 DEF Receive
<1>13. ASSUME SaveInterval PROVE ReceivedOK' BY <1>13 DEF SaveInterval
<1>14. ASSUME SaveNotif PROVE ReceivedOK' BY <1>14 DEF SaveNotif
<1>15. ASSUME Exit PROVE ReceivedOK' BY <1>15 DEF Exit
<1>16. CASE UNCHANGED vars BY <1>16 DEF vars
<1> QED
  BY <1>1, <1>2, <1>3, <1>4, <1>5, <1>6, <1>7, <1>8, <1>9, <1>10, <1>11, <1>12, <1>13, <1>14, <1>15, <1>16, <1>17
  DEF Next, Origin, App, Thread

\* The trees differ by what the holders of the locks are at.
LEMMA TreesStep == ASSUME NotifiedInv, [Next]_vars PROVE TreesOK'
<1> USE DEF NotifiedInv, NotifiedTypeOK, TreesOK, LockOK, Purging, Entered, Cut, ReceivedOK, Stored
<1> USE DEF originVars, appVars, threadVars, locks, trees
<1>1. ASSUME Send PROVE TreesOK' BY <1>1 DEF Send
<1>2. ASSUME Put PROVE TreesOK' BY <1>2 DEF Put
<1>3. ASSUME OriginUnlock PROVE TreesOK' BY <1>3 DEF OriginUnlock
<1>4. ASSUME NEW n \in Ids, Wait(n) PROVE TreesOK' BY <1>4 DEF Wait
<1>5. ASSUME ClearLock PROVE TreesOK' BY <1>5 DEF ClearLock
<1>6. ASSUME DeleteInterval PROVE TreesOK' BY <1>6 DEF DeleteInterval
<1>7. ASSUME DeleteNotif PROVE TreesOK' BY <1>7 DEF DeleteNotif
<1>8. ASSUME SaveOwn PROVE TreesOK'
  BY <1>8, OwnStored DEF SaveOwn
<1>9. ASSUME Unlock PROVE TreesOK' BY <1>9 DEF Unlock
<1>10. ASSUME Reduce PROVE TreesOK' BY <1>10 DEF Reduce
<1>17. ASSUME RaiseEnd PROVE TreesOK' BY <1>17 DEF RaiseEnd
<1>11. ASSUME ClearTrees PROVE TreesOK' BY <1>11 DEF ClearTrees
<1>12. ASSUME Receive PROVE TreesOK' BY <1>12 DEF Receive
<1>13. ASSUME SaveInterval PROVE TreesOK' BY <1>13 DEF SaveInterval
<1>14. ASSUME SaveNotif PROVE TreesOK' BY <1>14 DEF SaveNotif
<1>15. ASSUME Exit PROVE TreesOK' BY <1>15 DEF Exit
<1>16. CASE UNCHANGED vars BY <1>16 DEF vars
<1> QED
  BY <1>1, <1>2, <1>3, <1>4, <1>5, <1>6, <1>7, <1>8, <1>9, <1>10, <1>11, <1>12, <1>13, <1>14, <1>15, <1>16, <1>17
  DEF Next, Origin, App, Thread

\* A call that was saved before its purge is purged for good.
LEMMA EarlyStep == ASSUME NotifiedInv, [Next]_vars PROVE EarlyOK'
<1> USE DEF NotifiedInv, NotifiedTypeOK, EarlyOK, LockOK, Purging, ReceivedOK, Stored
<1> USE DEF originVars, appVars, threadVars, locks, trees
<1>1. ASSUME Send PROVE EarlyOK' BY <1>1 DEF Send
<1>2. ASSUME Put PROVE EarlyOK' BY <1>2 DEF Put
<1>3. ASSUME OriginUnlock PROVE EarlyOK' BY <1>3 DEF OriginUnlock
<1>4. ASSUME NEW n \in Ids, Wait(n) PROVE EarlyOK' BY <1>4 DEF Wait
<1>5. ASSUME ClearLock PROVE EarlyOK' BY <1>5 DEF ClearLock
<1>6. ASSUME DeleteInterval PROVE EarlyOK' BY <1>6 DEF DeleteInterval
<1>7. ASSUME DeleteNotif PROVE EarlyOK' BY <1>7 DEF DeleteNotif
<1>8. ASSUME SaveOwn PROVE EarlyOK'
  <2>1. \A n \in early : n \in local_tree' <=> n \in local_tree BY <1>8, OwnStored
  <2> QED BY <1>8, <2>1 DEF SaveOwn
<1>9. ASSUME Unlock PROVE EarlyOK' BY <1>9 DEF Unlock
<1>10. ASSUME Reduce PROVE EarlyOK' BY <1>10 DEF Reduce
<1>17. ASSUME RaiseEnd PROVE EarlyOK' BY <1>17 DEF RaiseEnd
<1>11. ASSUME ClearTrees PROVE EarlyOK' BY <1>11 DEF ClearTrees
<1>12. ASSUME Receive PROVE EarlyOK' BY <1>12 DEF Receive
<1>13. ASSUME SaveInterval PROVE EarlyOK' BY <1>13 DEF SaveInterval
<1>14. ASSUME SaveNotif PROVE EarlyOK' BY <1>14 DEF SaveNotif
<1>15. ASSUME Exit PROVE EarlyOK' BY <1>15 DEF Exit
<1>16. CASE UNCHANGED vars BY <1>16 DEF vars
<1> QED
  BY <1>1, <1>2, <1>3, <1>4, <1>5, <1>6, <1>7, <1>8, <1>9, <1>10, <1>11, <1>12, <1>13, <1>14, <1>15, <1>16, <1>17
  DEF Next, Origin, App, Thread

\* Nothing is stored once the epoch is closed.
LEMMA ClosedStep == ASSUME NotifiedInv, [Next]_vars PROVE ClosedOK'
<1> USE DEF NotifiedInv, NotifiedTypeOK, ClosedOK, CountOK
<1> USE DEF originVars, appVars, threadVars, locks, trees
<1>1. ASSUME Send PROVE ClosedOK' BY <1>1 DEF Send
<1>2. ASSUME Put PROVE ClosedOK' BY <1>2 DEF Put
<1>3. ASSUME OriginUnlock PROVE ClosedOK' BY <1>3 DEF OriginUnlock
<1>4. ASSUME NEW n \in Ids, Wait(n) PROVE ClosedOK' BY <1>4 DEF Wait
<1>5. ASSUME ClearLock PROVE ClosedOK' BY <1>5 DEF ClearLock
<1>6. ASSUME DeleteInterval PROVE ClosedOK' BY <1>6 DEF DeleteInterval
<1>7. ASSUME DeleteNotif PROVE ClosedOK' BY <1>7 DEF DeleteNotif
<1>8. ASSUME SaveOwn PROVE ClosedOK' BY <1>8 DEF SaveOwn
<1>9. ASSUME Unlock PROVE ClosedOK' BY <1>9 DEF Unlock
<1>10. ASSUME Reduce PROVE ClosedOK' BY <1>10 DEF Reduce
<1>17. ASSUME RaiseEnd PROVE ClosedOK' BY <1>17 DEF RaiseEnd
<1>11. ASSUME ClearTrees PROVE ClosedOK' BY <1>11 DEF ClearTrees
<1>12. ASSUME Receive PROVE ClosedOK' BY <1>12 DEF Receive
<1>13. ASSUME SaveInterval PROVE ClosedOK' BY <1>13 DEF SaveInterval
<1>14. ASSUME SaveNotif PROVE ClosedOK' BY <1>14 DEF SaveNotif
<1>15. ASSUME Exit PROVE ClosedOK' BY <1>15 DEF Exit
<1>16. CASE UNCHANGED vars BY <1>16 DEF vars
<1> QED
  BY <1>1, <1>2, <1>3, <1>4, <1>5, <1>6, <1>7, <1>8, <1>9, <1>10, <1>11, <1>12, <1>13, <1>14, <1>15, <1>16, <1>17
  DEF Next, Origin, App, Thread

----------------------------------------------------------------------------
LEMMA NotifiedInitially == Init => NotifiedInv
<1> SUFFICES ASSUME Init PROVE NotifiedInv OBVIOUS
<1> USE DEF Init
<1>1. NotifiedTypeOK
  <2>1. 0 \in 0 .. Calls /\ 0 \in 0 .. Locals BY NotifiedAssumption
  <2>2. net \in Seq(Ids) OBVIOUS
  <2> QED BY <2>1, <2>2 DEF NotifiedTypeOK, Holder
<1>2. LockOK /\ CountOK BY DEF LockOK, CountOK, Purging
<1>3. OrderOK
  <2>1. Len(net) = 0 OBVIOUS
  <2> QED BY <2>1 DEF OrderOK
<1>4. ReceivedOK /\ TreesOK /\ EarlyOK /\ ClosedOK
  BY DEF ReceivedOK, TreesOK, EarlyOK, ClosedOK, Purging, Stored, Entered, Cut
<1> QED BY <1>1, <1>2, <1>3, <1>4 DEF NotifiedInv

\* The invariant holds in every state.
THEOREM NotifiedInvCorrect == Spec => []NotifiedInv
<1>1. NotifiedInv /\ [Next]_vars => NotifiedInv'
  <2> SUFFICES ASSUME NotifiedInv, [Next]_vars PROVE NotifiedInv' OBVIOUS
  <2> QED
    BY TypeStep, LockStep, OrderStep, CountStep, ReceivedStep, TreesStep, EarlyStep, ClosedStep
    DEF NotifiedInv
<1> QED BY NotifiedInitially, <1>1, PTL DEF Spec

\* The variables keep their types: no more intervals are counted than the
\* origin can send.
THEOREM NotifiedTypes == Spec => []NotifiedTypeOK
<1>1. NotifiedInv => NotifiedTypeOK BY DEF NotifiedInv
<1> QED BY <1>1, NotifiedInvCorrect, PTL

\* The two trees agree whenever neither lock is held, whatever the order in
\* which the threads take interval_mutex and notif_mutex.
THEOREM TreesAgreeAlways == Spec => []TreesAgree
<1>1. NotifiedInv => TreesAgree
  BY DEF NotifiedInv, NotifiedTypeOK, TreesAgree, LockOK, TreesOK, Purging, Entered, Cut
<1> QED BY <1>1, NotifiedInvCorrect, PTL

\* rma_analyzer_clear_from_notif_id purges for good what was saved before it:
\* no later message of the origin brings the interval back.
THEOREM PurgesLast == Spec => []EarlyIntervalsPurged
<1>1. NotifiedInv => EarlyIntervalsPurged
  BY DEF NotifiedInv, EarlyIntervalsPurged, EarlyOK
<1> QED BY <1>1, NotifiedInvCorrect, PTL

\* The end of the epoch leaves nothing stored and nothing on its way, however
\* many calls were made and whichever of them were waited for.
THEOREM EpochsLeaveNothing == Spec => []EpochLeavesNothing
<1>1. NotifiedInv => EpochLeavesNothing
  BY DEF NotifiedInv, EpochLeavesNothing, CountOK, ClosedOK
<1> QED BY <1>1, NotifiedInvCorrect, PTL
=============================================================================
