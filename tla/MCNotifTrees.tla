---------------------------- MODULE MCNotifTrees ----------------------------
(* Small sets of intervals for the two trees, over thirty-two addresses.   *)
EXTENDS NotifTrees

Itv(id, low, up, type) ==
  [low_bound |-> low, up_bound |-> up, access_type |-> type, notification_id |-> id]

\* Low bounds of their own, and notification IDs in another order than the
\* bounds, one of them used twice; two local accesses, one of which races
\* with a put, and a get that reaches over others.
Crossed ==
  {Itv(1, 9, 9, RMA_READ), Itv(2, 3, 3, RMA_WRITE), Itv(3, 7, 7, RMA_READ), Itv(4, 1, 1, RMA_READ),
   Itv(5, 5, 5, RMA_READ), Itv(5, 11, 11, RMA_READ), Itv(-1, 4, 4, LOCAL_READ), Itv(-1, 2, 3, LOCAL_READ)}

\* A get's buffer of ten bytes, loads in and around it, and two puts.
Reaching ==
  {Itv(-1, 0, 9, LOCAL_READ), Itv(-1, 4, 4, LOCAL_READ), Itv(-1, 6, 6, LOCAL_READ),
   Itv(1, 9, 9, RMA_WRITE), Itv(2, 12, 12, RMA_WRITE)}
\* Notified gets that read two bytes or one, two of them from the same place.
Twins ==
  {Itv(1, 4, 4, RMA_READ), Itv(2, 2, 2, RMA_READ), Itv(3, 5, 5, RMA_READ), Itv(4, 5, 6, RMA_READ),
   Itv(5, 6, 6, RMA_READ)}
=============================================================================
