------------------------- MODULE RmaRefinementProofs -------------------------
(***************************************************************************)
(* RmaAnalyzer implements EpochService, for every disciplined program: the *)
(* proof that each kind of step (RmaAnalyzerProofs) is a step of the       *)
(* service or leaves what the service sees unchanged.                      *)
(***************************************************************************)
EXTENDS RmaRefinement, RmaAnalyzerAgreement

\* What the service sees of the state.
Shown(m)   == [dst |-> m.dst, src |-> m.src, epoch |-> m.epoch, seq |-> m.seq]
Pending    == {Shown(m) : m \in net}
EndedOf    == [p \in Procs |-> Ended(p)]
ClosedOf   == [p \in Procs |-> ClosedForAll(p)]
RetiredOf  == [p \in Procs |-> Freeing(p)]
Reported   == halted # "no"

FreeingSame(r) == call'[r] = call[r] \/ (~ Freeing(r) /\ ~ Freeing(r)')

SameSeen(r) == Ended(r)' = Ended(r) /\ ClosedForAll(r)' = ClosedForAll(r)
                 /\ FreeingSame(r) /\ analysed'[r] = analysed[r]

\* The service sees no other process change.
LEMMA OthersSeen ==
  ASSUME NEW p \in Procs, Effect(p), NEW r \in Procs, r # p
  PROVE  SameSeen(r)
BY OtherSame DEF Same, SameWhere, SameEpoch, SameCount, SameSeen, FreeingSame, Ended, ClosedForAll, Closed, Freeing

\* Which windows are retired, as a function, from where the calls are.
LEMMA RetiredSame ==
  ASSUME \A r \in Procs : FreeingSame(r)
  PROVE  RetiredOf' = RetiredOf
<1>1. ASSUME NEW r \in Procs PROVE Freeing(r)' = Freeing(r)
  BY DEF Freeing, FreeingSame
<1> QED BY <1>1, Zenon DEF RetiredOf

\* One more window is retired.
LEMMA RetiredOnly ==
  ASSUME NEW p \in Procs, call'[p] = "free", \A r \in Procs \ {p} : FreeingSame(r)
  PROVE  RetiredOf' = [RetiredOf EXCEPT ![p] = TRUE]
<1>1. ASSUME NEW r \in Procs PROVE Freeing(r)' = IF r = p THEN TRUE ELSE Freeing(r)
  BY DEF Freeing, FreeingSame
<1>2. RetiredOf' = [r \in Procs |-> IF r = p THEN TRUE ELSE Freeing(r)]
  BY <1>1, Zenon DEF RetiredOf
<1>3. [RetiredOf EXCEPT ![p] = TRUE] = [r \in Procs |-> IF r = p THEN TRUE ELSE Freeing(r)]
  BY Zenon DEF RetiredOf
<1> QED BY <1>2, <1>3

\* The steps the service does not see.
LEMMA Unseen ==
  ASSUME TypeOK, TypeOK', NEW p \in Procs, Effect(p), net' = net, halted' = halted, SameSeen(p)
  PROVE  UNCHANGED Service!serviceVars
<1>1. \A r \in Procs : SameSeen(r) BY OthersSeen
<1>2. EndedOf' = EndedOf /\ ClosedOf' = ClosedOf /\ RetiredOf' = RetiredOf
  BY <1>1, RetiredSame DEF SameSeen, EndedOf, ClosedOf
<1>3. analysed' = analysed BY <1>1 DEF SameSeen, TypeOK, TypeHistory
<1> QED BY <1>2, <1>3 DEF Service!serviceVars, EndedOf, ClosedOf, RetiredOf, Freeing

\* Beginning an epoch, a reduction, a move between handlers and the loop of a
\* thread are such steps.
LEMMA UnseenKinds ==
  ASSUME TypeOK, NEW p \in Procs, ControlOK(p),
         Opens(p) \/ Moves(p) \/ Contributes(p) \/ Sums(p) \/ Finishes(p) \/ Returns(p) \/ Raises(p)
           \/ \E k \in Epochs : Posts(p, k)
  PROVE  net' = net /\ halted' = halted /\ SameSeen(p)
<1> USE DEF SameSeen, FreeingSame, Ended, ClosedForAll, Closed, Freeing, SameWhere, SameEpoch, SameCount
<1>0. count_epoch[p] \in Nat /\ active_epoch[p] \in 0 .. 1 BY DEF TypeOK, TypeState
<1>1. CASE Opens(p) BY <1>0, <1>1 DEF Opens, Active
<1>2. CASE Moves(p) BY <1>0, <1>2 DEF Moves
<1>3. CASE Contributes(p) BY <1>0, <1>3 DEF Contributes
<1>4. CASE Sums(p) BY <1>0, <1>4 DEF Sums
<1>5. CASE Finishes(p) BY <1>0, <1>5 DEF Finishes
<1>6. CASE Returns(p) BY <1>0, <1>6 DEF Returns
<1>8. CASE Raises(p) BY <1>0, <1>8 DEF Raises
<1>7. ASSUME NEW k \in Epochs, Posts(p, k) PROVE net' = net /\ halted' = halted /\ SameSeen(p)
  BY <1>0, <1>7 DEF Posts
<1> QED BY <1>1, <1>2, <1>3, <1>4, <1>5, <1>6, <1>7, <1>8

\* A thread that exits loses no interval of its epoch: none is left.
LEMMA ExitUnseen ==
  ASSUME TypeOK, NEW p \in Procs, NEW k \in Epochs, Exits(p, k), CountOK(p), ValueOK(p), TargetsOK,
         NetOK, FreedOK(p)
  PROVE  net' = net /\ halted' = halted /\ SameSeen(p)
<1>1. net' = net
  <2>1. CASE ~ Freeing(p) BY <2>1, ExitLosesNothing
  <2>2. CASE Freeing(p) BY <2>2 DEF FreedOK, Exits
  <2> QED BY <2>1, <2>2
<1> QED BY <1>1 DEF Exits, SameSeen, FreeingSame, Ended, ClosedForAll, Closed, Freeing, SameWhere, SameEpoch

----------------------------------------------------------------------------
(* The steps of the service. *)

\* The clear of an epoch begins.
LEMMA EndsEpoch ==
  ASSUME TypeOK, TypeOK', NEW p \in Procs, Effect(p), StartsClear(p)
  PROVE  Service!End(p)
<1>0. count_epoch[p] \in Nat /\ active_epoch[p] \in 0 .. 1 BY DEF TypeOK, TypeState
<1>1. \A r \in Procs \ {p} : SameSeen(r) BY OthersSeen
<1>2. /\ Ended(p)' = Ended(p) + 1 /\ ClosedForAll(p)' = ClosedForAll(p)
      /\ ~ Freeing(p)' /\ ~ Freeing(p) /\ analysed'[p] = analysed[p]
  BY <1>0 DEF StartsClear, Ended, ClosedForAll, Closed, Freeing, SameEpoch, SameCount, Active
<1>3. EndedOf' = [EndedOf EXCEPT ![p] = @ + 1] BY <1>1, <1>2 DEF EndedOf, SameSeen
<1>4. ClosedOf' = ClosedOf /\ RetiredOf' = RetiredOf BY <1>1, <1>2, RetiredSame DEF SameSeen, FreeingSame, ClosedOf
<1>5. analysed' = analysed BY <1>1, <1>2 DEF SameSeen, TypeOK, TypeHistory
<1>6. UNCHANGED <<net, halted>> BY DEF StartsClear
<1> QED BY <1>3, <1>4, <1>5, <1>6 DEF Service!End, EndedOf, ClosedOf, RetiredOf, Freeing

\* A process has ended every epoch it has cleared or passed the reduction of.
LEMMA EndedBound ==
  ASSUME TypeOK, NEW s \in Procs, ControlOK(s), EpochOK(s), FreedOK(s), NEW d \in Procs, NEW i \in Nat,
         Gave(s, d, i)
  PROVE  Ended(s) >= i
<1>0. count_epoch[s] \in Nat /\ active_epoch[s] \in 0 .. 1 /\ clears[s] \in Nat
  BY DEF TypeOK, TypeState, TypeHistory
<1>1. CASE Freeing(s)
  <2>1. Ended(s) = count_epoch[s] /\ count_epoch[s] >= clears[s] /\ pc[s] # "reduce"
    BY <1>0, <1>1 DEF FreedOK, ControlOK, Ended, Active
  <2> QED BY <1>0, <2>1 DEF Gave
<1>2. CASE ~ Freeing(s) BY <1>0, <1>2 DEF Gave, EpochOK, ControlOK, Ended, Active
<1> QED BY <1>1, <1>2

\* The join returns: every process has ended the epoch and its intervals have
\* all been judged.
LEMMA ClosesEpoch ==
  ASSUME TypeOK, TypeOK', NEW p \in Procs, Effect(p), Joins(p), ~ Freeing(p), NetOK, ReduceOK, EpochComplete,
         \A r \in Procs : ControlOK(r) /\ EpochOK(r) /\ FreedOK(r)
  PROVE  Service!Close(p)
<1>0. count_epoch[p] \in Nat /\ active_epoch[p] \in 0 .. 1 /\ clears[p] \in Nat
  BY DEF TypeOK, TypeState, TypeHistory
<1>1. active_epoch[p] = 1 /\ count_epoch[p] = clears[p] /\ pc[p] = "join"
  BY DEF Joins, ControlOK, EpochOK, Active
<1>2. \A r \in Procs \ {p} : SameSeen(r) BY OthersSeen
<1>3. /\ Ended(p)' = Ended(p) /\ ClosedForAll(p) = clears[p] - 1 /\ ClosedForAll(p)' = ClosedForAll(p) + 1
      /\ call'[p] = call[p] /\ analysed'[p] = {}
  BY <1>0, <1>1 DEF Joins, Ended, ClosedForAll, Closed, Freeing
<1>4. ASSUME NEW s \in Procs PROVE EndedOf[s] > ClosedOf[p]
  <2>1. Ended(s) >= clears[p] BY <1>0, EndedBound DEF ReduceOK
  <2>2. Ended(s) \in Int BY DEF Ended, TypeOK, TypeState
  <2> QED BY <1>0, <1>3, <2>1, <2>2 DEF EndedOf, ClosedOf
<1>5. \A a \in Pending : ~ (a.dst = p /\ a.epoch = ClosedOf[p] + 1)
  <2>1. ASSUME NEW m \in net, m.dst = p PROVE m.epoch # clears[p]
    BY <2>1, <1>0, <1>1, JoinLeavesNothing DEF TypeOK, TypeMPI, Message
  <2> QED BY <2>1, <1>0, <1>3 DEF Pending, Shown, ClosedOf
<1>6. ClosedOf' = [ClosedOf EXCEPT ![p] = @ + 1] BY <1>2, <1>3 DEF ClosedOf, SameSeen
<1>7. EndedOf' = EndedOf /\ RetiredOf' = RetiredOf BY <1>2, <1>3, RetiredSame DEF SameSeen, FreeingSame, EndedOf
<1>8. analysed' = [analysed EXCEPT ![p] = {}] BY <1>2, <1>3 DEF SameSeen, TypeOK, TypeHistory
<1>9. UNCHANGED <<net, halted>> BY DEF Joins
<1> QED BY <1>4, <1>5, <1>6, <1>7, <1>8, <1>9
  DEF Service!Close, Service!Due, EndedOf, ClosedOf, RetiredOf, Freeing, Pending, Shown

\* The join of a window that is being freed: its epoch counts as closed already.
LEMMA FreeJoinUnseen ==
  ASSUME TypeOK, NEW p \in Procs, Joins(p), Freeing(p), FreedOK(p)
  PROVE  net' = net /\ halted' = halted /\ SameSeen(p)
BY DEF Joins, FreedOK, SameSeen, FreeingSame, Ended, ClosedForAll, Freeing

\* MPI_Win_free finds nothing left to judge.
LEMMA RetiresWindow ==
  ASSUME TypeOK, TypeOK', NEW p \in Procs, Effect(p), StartsFree(p), FreedOK(p)'
  PROVE  Service!Retire(p)
<1>0. count_epoch[p] \in Nat /\ active_epoch[p] \in 0 .. 1 BY DEF TypeOK, TypeState
<1>1. \A r \in Procs \ {p} : SameSeen(r) BY OthersSeen
<1>2. /\ net' = net /\ halted' = halted /\ analysed'[p] = analysed[p] /\ ~ Freeing(p) /\ Freeing(p)'
      /\ count_epoch'[p] = count_epoch[p] /\ active_epoch'[p] = active_epoch[p]
      /\ pc[p] = "run" /\ (active_epoch[p] = 1 => pc'[p] = "join") /\ call'[p] = "free"
  BY <1>0 DEF StartsFree, SameEpoch, SameCount, Freeing, Active
<1>3. analysed[p] = {} /\ \A m \in net : m.dst # p BY <1>2 DEF FreedOK
<1>4. /\ Ended(p) = ClosedForAll(p) /\ Ended(p)' = count_epoch[p] /\ ClosedForAll(p)' = count_epoch[p]
      /\ count_epoch[p] \in {ClosedForAll(p), ClosedForAll(p) + 1}
  BY <1>0, <1>2 DEF Ended, ClosedForAll, Closed, Freeing
<1>5. /\ EndedOf' = [EndedOf EXCEPT ![p] = count_epoch[p]]
      /\ ClosedOf' = [ClosedOf EXCEPT ![p] = count_epoch[p]]
  BY <1>1, <1>2, <1>4 DEF EndedOf, ClosedOf, SameSeen
<1>9. RetiredOf' = [RetiredOf EXCEPT ![p] = TRUE]
  <2>1. \A r \in Procs \ {p} : FreeingSame(r) BY <1>1 DEF SameSeen
  <2>2. call'[p] = "free" BY <1>2
  <2> QED BY <2>1, <2>2, RetiredOnly
<1>6. analysed' = analysed BY <1>1, <1>2 DEF SameSeen, TypeOK, TypeHistory
<1>7. EndedOf[p] = ClosedOf[p] /\ count_epoch[p] \in {ClosedOf[p], ClosedOf[p] + 1} /\ ~ RetiredOf[p]
  BY <1>2, <1>4 DEF EndedOf, ClosedOf, RetiredOf
<1>8. \A a \in Pending : a.dst # p BY <1>3 DEF Pending, Shown
<1> QED BY <1>2, <1>3, <1>5, <1>6, <1>7, <1>8, <1>9
  DEF Service!Retire, EndedOf, ClosedOf, RetiredOf, Freeing, Pending, Shown

\* A load, a store or the origin side of a one-sided call is not the service's
\* business, unless it is the report of a race.
LEMMA StoresUnseen ==
  ASSUME TypeOK, TypeOK', NEW p \in Procs, Effect(p), Stores(p), halted = "no"
  PROVE  Service!Report \/ UNCHANGED Service!serviceVars
<1>1. SameSeen(p) /\ net' = net
  BY DEF Stores, SameSeen, FreeingSame, Ended, ClosedForAll, Closed, Freeing, SameWhere, SameEpoch, SameCount
<1>2. CASE halted' = halted BY <1>1, <1>2, Unseen
<1>3. CASE halted' # "no"
  <2>1. \A r \in Procs : SameSeen(r) BY <1>1, OthersSeen
  <2>2. EndedOf' = EndedOf /\ ClosedOf' = ClosedOf /\ RetiredOf' = RetiredOf
    BY <2>1, RetiredSame DEF SameSeen, EndedOf, ClosedOf
  <2>3. analysed' = analysed BY <2>1 DEF SameSeen, TypeOK, TypeHistory
  <2> QED BY <1>1, <1>3, <2>2, <2>3 DEF Service!Report, EndedOf, ClosedOf, RetiredOf, Freeing
<1> QED BY <1>2, <1>3

\* A one-sided call makes an access in an epoch its target has not closed, and
\* one the target has not judged.
LEMMA MakesAccess ==
  ASSUME TypeOK, TypeOK', NEW p \in Procs, NEW q \in Procs, NEW c \in Comms, Effect(p), Sends(p, q, c),
         NetOK, TargetsOK, ReduceOK, FreedOK(q)', \A r \in Procs : ControlOK(r) /\ EpochOK(r) /\ CountOK(r)
  PROVE  Service!Make(p, q)
<1> DEFINE m0 == SentMessage(p, q, c)
<1>0. /\ count_epoch[p] \in Nat /\ active_epoch[p] \in 0 .. 1 /\ array[p][q] \in Nat
      /\ count_epoch[q] \in Nat /\ active_epoch[q] \in 0 .. 1
  BY DEF TypeOK, TypeState
<1>1. /\ m0.epoch = count_epoch[p] /\ m0.dst = q /\ m0.src = p /\ m0.seq = array[p][q] + 1
  BY DEF SentMessage
<1>2. net' = net \union {m0} /\ halted' = halted /\ LandedAccess(m0) \in accesses' BY DEF Sends
<1> HIDE DEF m0
<1>3. /\ ~ Freeing(q) /\ Closed(q) < count_epoch[p]
      /\ array[p][q] + 1 \notin Numbers(p, q, count_epoch[p])
      /\ count_epoch[p] = Closed(q) + 1 => <<p, array[p][q] + 1>> \notin analysed[q]
  BY SendsFresh
<1>4. \A r \in Procs : SameSeen(r)
  <2>1. SameSeen(p) BY DEF Sends, SameSeen, FreeingSame, Ended, ClosedForAll, Closed, Freeing, SameEpoch, SameCount
  <2> QED BY <2>1, OthersSeen
<1>5. EndedOf' = EndedOf /\ ClosedOf' = ClosedOf /\ RetiredOf' = RetiredOf
  BY <1>4, RetiredSame DEF SameSeen, EndedOf, ClosedOf
<1>6. analysed' = analysed BY <1>4 DEF SameSeen, TypeOK, TypeHistory
<1>7. Active(p) /\ pc[p] = "run" BY DEF Sends
<1>8. Ended(p) = count_epoch[p] - 1 /\ ClosedForAll(q) = Closed(q) /\ Closed(q) < count_epoch[p]
  BY <1>3, <1>7 DEF Ended, Active, ClosedForAll, Freeing
<1>10. Shown(m0) \notin Pending
  <2>1. SUFFICES ASSUME NEW m \in net, Shown(m) = Shown(m0) PROVE FALSE BY DEF Pending
  <2>2. m.dst = q /\ m.src = p /\ m.epoch = count_epoch[p] /\ m.seq = array[p][q] + 1
    BY <1>1, <2>1 DEF Shown
  <2>3. LandedAccess(m) \in Targets BY <1>3, <2>2, LandedFields DEF NetOK, Targets
  <2> QED BY <1>3, <2>2, <2>3, LandedFields DEF Numbers
<1>11. Pending' = Pending \union {Shown(m0)} BY <1>2 DEF Pending, Shown
<1>12. count_epoch[p] = ClosedOf[q] + 1 => <<p, array[p][q] + 1>> \notin analysed[q]
  BY <1>3, <1>8 DEF ClosedOf
<1>13. /\ Shown(m0).src = p /\ Shown(m0).dst = q /\ Shown(m0).epoch = EndedOf[p] + 1
       /\ Shown(m0).seq = array[p][q] + 1 /\ Shown(m0).epoch = count_epoch[p]
  BY <1>0, <1>1, <1>8 DEF Shown, EndedOf
<1>14. ClosedOf[q] <= EndedOf[p] /\ ~ RetiredOf[q]
  BY <1>0, <1>3, <1>8 DEF ClosedOf, EndedOf, RetiredOf, Closed
<1>15. \E a \in Pending' \ Pending :
         /\ a.src = p /\ a.dst = q /\ a.epoch = EndedOf[p] + 1
         /\ a.epoch = ClosedOf[q] + 1 => <<p, a.seq>> \notin analysed[q]
         /\ Pending' = Pending \union {a}
  BY <1>10, <1>11, <1>12, <1>13
<1> QED BY <1>2, <1>5, <1>6, <1>14, <1>15
  DEF Service!Make, EndedOf, ClosedOf, RetiredOf, Freeing, Pending, Shown

\* The thread receives an interval: it judges an access of the open epoch.
LEMMA JudgesAccess ==
  ASSUME TypeOK, TypeOK', NEW p \in Procs, NEW k \in Epochs, NEW m \in net, Effect(p), Receives(p, k, m),
         NetOK, FreedOK(p)
  PROVE  Service!Judge(p)
<1>0. count_epoch[p] \in Nat BY DEF TypeOK, TypeState
<1>1. m.dst = p /\ m.epoch = count_epoch[p] /\ active_epoch[p] = 1 /\ net' = net \ {m}
  BY DEF Receives, NetOK, Active
<1>2. ~ Freeing(p) BY <1>1 DEF FreedOK
<1>3. /\ Ended(p)' = Ended(p) /\ ClosedForAll(p)' = ClosedForAll(p) /\ FreeingSame(p)
      /\ analysed'[p] = analysed[p] \union {<<m.src, m.seq>>}
  BY DEF Receives, FreeingSame, Ended, ClosedForAll, Closed, SameWhere, SameEpoch
<1>4. \A r \in Procs \ {p} : SameSeen(r) BY OthersSeen
<1>5. EndedOf' = EndedOf /\ ClosedOf' = ClosedOf /\ RetiredOf' = RetiredOf
  BY <1>3, <1>4, RetiredSame DEF SameSeen, EndedOf, ClosedOf
<1>6. analysed' = [analysed EXCEPT ![p] = @ \union {<<m.src, m.seq>>}]
  BY <1>3, <1>4 DEF SameSeen, TypeOK, TypeHistory
<1>7. Pending' = Pending \ {Shown(m)}
  <2>1. ASSUME NEW x \in net, Shown(x) = Shown(m) PROVE x = m
    <3>1. x.src = m.src /\ x.dst = m.dst /\ x.epoch = m.epoch /\ x.seq = m.seq BY <2>1 DEF Shown
    <3> QED BY <1>1, <1>2, <3>1 DEF NetOK
  <2> QED BY <1>1, <2>1 DEF Pending, Shown
<1>8. ClosedOf[p] = count_epoch[p] - 1 BY <1>1, <1>2 DEF ClosedOf, ClosedForAll, Closed, Freeing
<1>9. Shown(m) \in {a \in Pending : a.dst = p /\ a.epoch = ClosedOf[p] + 1}
  BY <1>0, <1>1, <1>8 DEF Pending, Shown
<1>10. Shown(m).src = m.src /\ Shown(m).seq = m.seq BY DEF Shown
<1>11. \E a \in {x \in Pending : x.dst = p /\ x.epoch = ClosedOf[p] + 1} :
         /\ Pending' = Pending \ {a}
         /\ analysed' = [analysed EXCEPT ![p] = @ \union {<<a.src, a.seq>>}]
  BY <1>6, <1>7, <1>9, <1>10
<1>12. (halted # "no")' \in BOOLEAN OBVIOUS
<1> QED BY <1>5, <1>11, <1>12
  DEF Service!Judge, Service!Due, EndedOf, ClosedOf, RetiredOf, Freeing, Pending, Shown

----------------------------------------------------------------------------
\* The first states of the analyzer are the first states of the service.
LEMMA ServiceInitially == Init => Service!ServiceInit
<1> SUFFICES ASSUME Init PROVE Service!ServiceInit OBVIOUS
<1>1. Pending = {} /\ halted = "no" /\ analysed = [p \in Procs |-> {}] BY DEF Init, Pending
<1>2. EndedOf = [p \in Procs |-> 0] /\ ClosedOf = [p \in Procs |-> 0]
  BY DEF Init, EndedOf, ClosedOf, Ended, ClosedForAll, Closed
<1>3. \A p \in Procs : Freeing(p) = FALSE BY DEF Init, Freeing
<1>4. RetiredOf = [p \in Procs |-> FALSE] BY <1>3, Zenon DEF RetiredOf
<1> QED BY <1>1, <1>2, <1>4 DEF Service!ServiceInit, Pending, Shown, EndedOf, ClosedOf, RetiredOf, Freeing

\* Every step is a step of the service, or one it does not see.
LEMMA ServiceStep ==
  ASSUME Disciplined, IInv, IInv', FreeInv, FreeInv', [Next]_vars
  PROVE  [Service!ServiceNext]_Service!serviceVars
<1>1. ASSUME NEW p \in Procs,
             SyncCall(p) \/ Progress(p) \/ MemoryCall(p) \/ \E k \in Epochs : CheckThread(p, k)
      PROVE  [Service!ServiceNext]_Service!serviceVars
  <2> USE DEF IInv, FreeInv
  <2>0. halted = "no" /\ Effect(p) BY <1>1, GoesOn, StepEffect
  <2>1. CASE net' = net /\ halted' = halted /\ SameSeen(p) BY <2>0, <2>1, Unseen
  <2>2. CASE StartsClear(p) BY <2>0, <2>2, EndsEpoch DEF Service!ServiceNext
  <2>3. CASE StartsFree(p) BY <2>0, <2>3, RetiresWindow DEF Service!ServiceNext
  <2>4. CASE Joins(p) /\ ~ Freeing(p) BY <2>0, <2>4, ClosesEpoch DEF Service!ServiceNext
  <2>5. CASE Joins(p) /\ Freeing(p) BY <2>1, <2>5, FreeJoinUnseen
  <2>6. CASE Stores(p) BY <2>0, <2>6, StoresUnseen DEF Service!ServiceNext
  <2>7. ASSUME NEW q \in Procs, NEW c \in Comms, Sends(p, q, c)
        PROVE  [Service!ServiceNext]_Service!serviceVars
    BY <2>0, <2>7, MakesAccess DEF Service!ServiceNext
  <2>8. ASSUME NEW k \in Epochs, NEW m \in net, Receives(p, k, m)
        PROVE  [Service!ServiceNext]_Service!serviceVars
    BY <2>0, <2>8, JudgesAccess DEF Service!ServiceNext
  <2>9. ASSUME NEW k \in Epochs, Exits(p, k) PROVE [Service!ServiceNext]_Service!serviceVars
    BY <2>1, <2>9, ExitUnseen
  <2>10. CASE Opens(p) \/ Moves(p) \/ Contributes(p) \/ Sums(p) \/ Finishes(p) \/ Returns(p) \/ Raises(p)
                \/ \E k \in Epochs : Posts(p, k)
    BY <2>1, <2>10, UnseenKinds
  <2> QED BY <2>0, <2>2, <2>3, <2>4, <2>5, <2>6, <2>7, <2>8, <2>9, <2>10 DEF Effect
<1>2. CASE vars' = vars
  BY <1>2 DEF vars, Service!serviceVars, Ended, ClosedForAll, Closed
<1> QED BY <1>1, <1>2 DEF Next, Terminating

\* The analyzer implements the epoch service, for any number of processes and
\* any disciplined program: every access is judged once, in its own epoch, and
\* an epoch is closed when all processes have ended it and nothing of it is left.
THEOREM Implements == Disciplined => (Spec => ImplementsService)
<1> SUFFICES ASSUME Disciplined PROVE Spec => ImplementsService OBVIOUS
<1>1. Init => Service!ServiceInit BY ServiceInitially
<1>2. IInv /\ IInv' /\ FreeInv /\ FreeInv' /\ [Next]_vars => [Service!ServiceNext]_Service!serviceVars
  BY ServiceStep
<1>3. Spec => [](IInv /\ FreeInv) BY FreeInvCorrect
<1> QED BY <1>1, <1>2, <1>3, PTL DEF Spec, ImplementsService, Service!ServiceSpec
=============================================================================
