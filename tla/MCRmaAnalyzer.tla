--------------------------- MODULE MCRmaAnalyzer ---------------------------
(* Small instances of RmaAnalyzer: two processes, a window of two bytes.   *)
EXTENDS RmaRefinement

\* The window holds addresses 4 and 5; address 1 is a private buffer.
Private == local_interval(1, 1, RMA_READ)

\* MPI_Put of a private byte to displacement 0; MPI_Get into address 4, which
\* is inside the origin's own window, from displacement 1.
PutByte == [local |-> Private, target |-> target_interval(0, 1, RMA_WRITE)]
GetByte == [local |-> local_interval(4, 1, RMA_WRITE), target |-> target_interval(1, 1, RMA_READ)]

OnePut   == {PutByte}
OneGet   == {GetByte}
StoreOne == {load_store_interval(5, 8, LOCAL_WRITE)}
=============================================================================
