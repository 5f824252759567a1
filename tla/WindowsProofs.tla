--------------------------- MODULE WindowsProofs ----------------------------
(***************************************************************************)
(* The windows of a job, for any number of processes, windows and calls:   *)
(* the ranges of their tags, the tables that hold them and the chains that *)
(* find them, what each call does to them, and the course of the program,  *)
(* which is the same for all processes and makes their tags and their      *)
(* tables agree.                                                           *)
(***************************************************************************)
EXTENDS Windows, FiniteSetTheorems, TLAPS

----------------------------------------------------------------------------
(* Numbers and ranges. *)

\* A set of natural numbers has a least element.
LEMMA LeastNat ==
  ASSUME NEW S \in SUBSET Nat, S # {} PROVE \E i \in S : \A j \in S : i <= j
<1>1. IsWellFoundedOn(StrictSubsetOrdering(Nat), FiniteSubsetsOf(Nat))
  BY FS_StrictSubsetOrderingWellFounded, Zenon
<1>2. {0 .. i - 1 : i \in S} \subseteq FiniteSubsetsOf(Nat)
  <2> SUFFICES ASSUME NEW i \in S PROVE 0 .. i - 1 \in FiniteSubsetsOf(Nat) OBVIOUS
  <2>1. i - 1 \in Int OBVIOUS
  <2>2. IsFiniteSet(0 .. i - 1) BY <2>1, FS_Interval
  <2>3. 0 .. i - 1 \in SUBSET Nat OBVIOUS
  <2> QED BY <2>2, <2>3 DEF FiniteSubsetsOf
<1>3. {0 .. i - 1 : i \in S} # {} OBVIOUS
<1>4. \E X \in {0 .. i - 1 : i \in S} : \A Y \in {0 .. i - 1 : i \in S} :
        ~ (<<Y, X>> \in StrictSubsetOrdering(Nat))
  BY <1>1, <1>2, <1>3, WFMin, Zenon
<1>5. PICK i \in S : \A Y \in {0 .. k - 1 : k \in S} : ~ (<<Y, 0 .. i - 1>> \in StrictSubsetOrdering(Nat))
  BY <1>4
<1>6. ASSUME NEW j \in S, j < i PROVE FALSE
  <2>1. ~ (<<0 .. j - 1, 0 .. i - 1>> \in StrictSubsetOrdering(Nat)) BY <1>5
  <2>2. 0 .. j - 1 \in SUBSET Nat /\ 0 .. i - 1 \in SUBSET Nat /\ 0 .. j - 1 \subseteq 0 .. i - 1
    BY <1>6
  <2>3. j \in 0 .. i - 1 /\ j \notin 0 .. j - 1 BY <1>6
  <2> QED BY <2>1, <2>2, <2>3 DEF StrictSubsetOrdering
<1> QED BY <1>6

\* The identifiers of ranges, and the one of no range.
RangeIds == Ids \union {-1}

\* There are RMA_ANALYZER_MAX_WIN ranges, numbered from 0.
LEMMA RangeIdTypes ==
  /\ RMA_ANALYZER_BASE_MPI_TAG \in Nat /\ RMA_ANALYZER_MAX_EPOCH_NUMBER \in Nat \ {0}
  /\ RMA_ANALYZER_MAX_WIN \in Nat \ {0} /\ RangeIds \subseteq Int
  /\ \A i \in RangeIds : -1 <= i /\ i <= RMA_ANALYZER_MAX_WIN - 1
BY TagAssumption DEF RangeIds, Ids

\* Ranges follow each other and do not overlap.
LEMMA TagsOfRanges ==
  ASSUME NEW i \in RangeIds, NEW j \in RangeIds
  PROVE  /\ Tag(i) \in FirstTags /\ Tag(i) \in Int /\ Tag(i) # NoTag
         /\ i < j => Tag(i) + RMA_ANALYZER_MAX_EPOCH_NUMBER <= Tag(j)
         /\ i # j => Tag(i) # Tag(j)
<1> DEFINE B == RMA_ANALYZER_BASE_MPI_TAG
           E == RMA_ANALYZER_MAX_EPOCH_NUMBER
           M == RMA_ANALYZER_MAX_WIN
<1>1. B \in Nat /\ E \in Nat \ {0} /\ M \in Nat \ {0} /\ i \in Int /\ j \in Int
  BY RangeIdTypes
<1>2. -1 <= i /\ i <= M - 1 /\ -1 <= j /\ j <= M - 1 BY RangeIdTypes
<1>3. ASSUME NEW a \in Int, NEW b \in Int, a < b PROVE E * a + E <= E * b
  <2>1. b - a >= 1 BY <1>3
  <2>2. E * (b - a) >= E BY <1>1, <2>1
  <2>3. E * (b - a) = E * b - E * a BY <1>1
  <2>4. E * a \in Int /\ E * b \in Int BY <1>1
  <2> QED BY <1>1, <2>2, <2>3, <2>4
<1>4. ASSUME NEW a \in Int, NEW b \in Int, a <= b PROVE E * a <= E * b
  <2>1. CASE a = b BY <1>1, <2>1
  <2>2. CASE a < b
    <3>1. E * a \in Int /\ E * b \in Int BY <1>1
    <3> QED BY <1>1, <1>3, <2>2, <3>1
  <2> QED BY <1>4, <2>1, <2>2
<1>5. E * (-1) = - E /\ E * i \in Int /\ E * j \in Int /\ E * (M - 1) \in Int BY <1>1
<1>6. - E <= E * i /\ E * i <= E * (M - 1) BY <1>1, <1>2, <1>4, <1>5
<1>7. Tag(i) = B + E * i /\ Tag(j) = B + E * j BY DEF Tag
<1>8. Tag(i) \in FirstTags /\ Tag(i) \in Int /\ Tag(i) # NoTag
  BY <1>1, <1>5, <1>6, <1>7 DEF FirstTags, NoTag
<1>9. i < j => Tag(i) + E <= Tag(j) BY <1>1, <1>3, <1>5, <1>7
<1>10. j < i => Tag(j) + E <= Tag(i) BY <1>1, <1>3, <1>5, <1>7
<1> QED BY <1>1, <1>5, <1>7, <1>8, <1>9, <1>10

\* rma_analyzer_free_tag_range finds the range of a tag it is given.
LEMMA FreedIdIs ==
  ASSUME NEW p \in Procs, NEW w \in Wins, NEW i \in RangeIds, mpi_tag[p][w] = Tag(i)
  PROVE  FreedId(p, w) = i
<1>1. /\ RMA_ANALYZER_BASE_MPI_TAG \in Nat /\ RMA_ANALYZER_MAX_EPOCH_NUMBER \in Nat \ {0} /\ i \in Int
  BY RangeIdTypes
<1>2. RMA_ANALYZER_MAX_EPOCH_NUMBER * i \in Int BY <1>1
<1>3. mpi_tag[p][w] - RMA_ANALYZER_BASE_MPI_TAG = RMA_ANALYZER_MAX_EPOCH_NUMBER * i
  BY <1>1, <1>2 DEF Tag
<1>4. ASSUME NEW e \in Nat \ {0}, NEW k \in Int PROVE (e * k) \div e = k OBVIOUS
<1> QED BY <1>1, <1>3, <1>4 DEF FreedId

\* rma_analyzer_get_tag_range_id gives a free range when there is one.
LEMMA RangeIsFree ==
  ASSUME NEW p \in Procs
  PROVE  /\ get_tag_range_id(p) \in RangeIds
         /\ Free(p) # {} => get_tag_range_id(p) \in Free(p)
         /\ Free(p) = {} => get_tag_range_id(p) = -1
<1>1. CASE Free(p) = {} BY <1>1 DEF get_tag_range_id, RangeIds
<1>2. CASE Free(p) # {}
  <2>1. Free(p) \in SUBSET Nat /\ Free(p) \subseteq Ids BY TagAssumption DEF Free, Ids
  <2>2. PICK i \in Free(p) : \A j \in Free(p) : i <= j BY <1>2, <2>1, LeastNat
  <2>3. get_tag_range_id(p) \in Free(p) BY <1>2, <2>2 DEF get_tag_range_id
  <2> QED BY <1>2, <2>1, <2>3 DEF RangeIds
<1> QED BY <1>1, <1>2

----------------------------------------------------------------------------
(* What a step does to the ranges of tags. *)

\* MPI_Win_create and MPI_Win_free.
Starts(p, w) == Follow(p, <<"create", w>>) /\ Start(p, w)
Stops(p, w) == Follow(p, <<"free", w>>) /\ Stop(p, w)

\* Another call, or a step within one.
Goes(p) ==
  /\ \E op \in Calls : op[1] \notin {"create", "free"} /\ Follow(p, op)
  /\ UNCHANGED <<win_mpi_tag_id, mpi_tag>>
Rests == UNCHANGED <<program, pos, win_mpi_tag_id, mpi_tag>>

\* Epochs are counted up to their bound.
Counts ==
  \/ UNCHANGED count_epoch
  \/ \E p \in Procs, w \in Wins : count_epoch' = [count_epoch EXCEPT ![p][w] = 0]
  \/ \E p \in Procs, W \in SUBSET Wins :
       /\ \A w \in W : count_epoch[p][w] < MaxEpochs
       /\ count_epoch' = [count_epoch EXCEPT ![p] =
                            [w \in Wins |-> IF w \in W THEN @[w] + 1 ELSE @[w]]]

\* Every step is one of these.
LEMMA TagEffect ==
  ASSUME [Next]_vars
  PROVE  /\ \/ \E p \in Procs, w \in Wins : Starts(p, w) \/ Stops(p, w)
            \/ \E p \in Procs : Goes(p)
            \/ Rests
         /\ Counts
<1>1. CASE UNCHANGED vars BY <1>1 DEF vars, tagVars, Rests, Counts
<1>2. CASE Reduce BY <1>2 DEF Reduce, tagVars, Rests, Counts
<1>3. ASSUME NEW p \in Procs, EnterBarrier(p) PROVE Goes(p) /\ Counts
  <2>1. Follow(p, Barrier) /\ UNCHANGED <<win_mpi_tag_id, mpi_tag, count_epoch>>
    BY <1>3 DEF EnterBarrier, Call
  <2>2. Barrier \in Calls /\ Barrier[1] \notin {"create", "free"} BY <2>1 DEF Follow, Barrier
  <2> QED BY <2>1, <2>2 DEF Goes, Counts
<1>4. ASSUME NEW p \in Procs, Restart(p) PROVE Rests /\ Counts
  <2>2. /\ \A w \in ToRestart(p) : count_epoch[p][w] < MaxEpochs
        /\ count_epoch' = [count_epoch EXCEPT ![p] =
                             [w \in Wins |-> IF w \in ToRestart(p) THEN @[w] + 1 ELSE @[w]]]
        /\ UNCHANGED <<program, pos, win_mpi_tag_id, mpi_tag>>
    BY <1>4 DEF Restart, InitThreads, Epoch
  <2>3. \A w \in Wins : w \in ToRestart(p) <=> w \in ToRestart(p) \cap Wins OBVIOUS
  <2>4. count_epoch' = [count_epoch EXCEPT ![p] =
          [w \in Wins |-> IF w \in ToRestart(p) \cap Wins THEN @[w] + 1 ELSE @[w]]]
    BY <2>2, <2>3
  <2> QED BY <2>2, <2>4 DEF Rests, Counts
<1>5. ASSUME NEW p \in Procs, LeaveBarrier(p) PROVE Rests /\ Counts
  BY <1>5 DEF LeaveBarrier, tagVars, Rests, Counts
<1>6. ASSUME NEW p \in Procs, NEW w \in Wins, Create(p, w) PROVE Starts(p, w) /\ Counts
  BY <1>6 DEF Create, Call, Start, Starts, Counts
<1>7. ASSUME NEW p \in Procs, NEW w \in Wins, WinFree(p, w) PROVE Stops(p, w) /\ Counts
  BY <1>7 DEF WinFree, Call, Stop, Stops, Counts
<1>8. ASSUME NEW p \in Procs, NEW w \in Wins, Open(p, w) PROVE Goes(p) /\ Counts
  <2>1. /\ Follow(p, <<"open", w>>) /\ UNCHANGED <<win_mpi_tag_id, mpi_tag>>
        /\ \A v \in {w} : count_epoch[p][v] < MaxEpochs
        /\ count_epoch' = [count_epoch EXCEPT ![p] =
                             [v \in Wins |-> IF v \in {w} THEN @[v] + 1 ELSE @[v]]]
    BY <1>8 DEF Open, Call, InitThreads, Epoch
  <2>2. <<"open", w>> \in Calls /\ <<"open", w>>[1] \notin {"create", "free"} BY <2>1 DEF Follow
  <2>3. Goes(p) BY <2>1, <2>2 DEF Goes
  <2>4. Counts BY <2>1 DEF Counts
  <2> QED BY <2>3, <2>4
<1>9. ASSUME NEW p \in Procs, NEW w \in Wins, Close(p, w) PROVE Goes(p) /\ Counts
  <2>1. PICK v \in Wins : Call(p, <<"close", v>>) BY <1>9 DEF Close
  <2>2. Follow(p, <<"close", v>>) /\ UNCHANGED <<win_mpi_tag_id, mpi_tag, count_epoch>>
    BY <1>9, <2>1 DEF Close, Call
  <2>3. <<"close", v>> \in Calls /\ <<"close", v>>[1] \notin {"create", "free"} BY <2>2 DEF Follow
  <2> QED BY <2>2, <2>3 DEF Goes, Counts
<1>10. ASSUME NEW p \in Procs, NEW w \in Wins, Join(p, w) PROVE Rests /\ Counts
  BY <1>10 DEF Join, tagVars, Rests, Counts
<1>11. ASSUME NEW p \in Procs, NEW q \in Procs, NEW w \in Wins, Put(p, q, w) PROVE Rests /\ Counts
  BY <1>11 DEF Put, tagVars, Rests, Counts
<1>12. ASSUME NEW p \in Procs, NEW w \in Wins,
              PostRecv(p, w) \/ (\E m \in net : Receive(p, w, m)) \/ Exit(p, w)
       PROVE  Rests /\ Counts
  BY <1>12 DEF PostRecv, Receive, Exit, tagVars, Rests, Counts
<1>13. CASE Terminating BY <1>13 DEF Terminating, vars, tagVars, Rests, Counts
<1> QED
  BY <1>1, <1>2, <1>3, <1>4, <1>5, <1>6, <1>7, <1>8, <1>9, <1>10, <1>11, <1>12, <1>13 DEF Next

----------------------------------------------------------------------------
(* Types. *)

LEMMA FollowTypes ==
  ASSUME TagTypeOK, NEW p \in Procs, NEW op \in Calls, Follow(p, op)
  PROVE  /\ program' \in Seq(Calls) /\ pos' \in [Procs -> 0 .. MaxOps]
         /\ pos[p] < Len(program')
         /\ program'[pos[p] + 1] = op
         /\ Len(program) <= Len(program')
         /\ \A k \in 1 .. Len(program) : program'[k] = program[k]
         /\ \/ pos[p] < Len(program) /\ program' = program
            \/ pos[p] = Len(program) /\ Len(program') = Len(program) + 1
         /\ pos'[p] = pos[p] + 1 /\ \A q \in Procs \ {p} : pos'[q] = pos[q]
<1>1. /\ program \in Seq(Calls) /\ pos \in [Procs -> 0 .. MaxOps] /\ MaxOps \in Nat
      /\ pos[p] \in 0 .. MaxOps /\ Len(program) \in Nat
  BY TagAssumption DEF TagTypeOK
<1>2. /\ pos[p] < MaxOps /\ pos' = [pos EXCEPT ![p] = @ + 1]
      /\ \/ pos[p] < Len(program) /\ program[pos[p] + 1] = op /\ UNCHANGED program
         \/ pos[p] = Len(program) /\ program' = Append(program, op)
  BY DEF Follow
<1>3. pos' \in [Procs -> 0 .. MaxOps] BY <1>1, <1>2
<1>4. pos'[p] = pos[p] + 1 /\ \A q \in Procs \ {p} : pos'[q] = pos[q] BY <1>1, <1>2
<1>5. CASE pos[p] < Len(program) /\ program[pos[p] + 1] = op /\ UNCHANGED program
  BY <1>1, <1>3, <1>4, <1>5
<1>6. CASE pos[p] = Len(program) /\ program' = Append(program, op)
  <2>1. /\ program' \in Seq(Calls) /\ Len(program') = Len(program) + 1
        /\ program'[Len(program) + 1] = op
        /\ \A k \in 1 .. Len(program) : program'[k] = program[k]
    BY <1>1, <1>6
  <2> QED BY <1>1, <1>3, <1>4, <1>6, <2>1
<1> QED BY <1>2, <1>5, <1>6

\* What rma_analyzer_start does to the table and the tag.
LEMMA StartEffect ==
  ASSUME TagTypeOK, NEW p \in Procs, NEW w \in Wins, Start(p, w)
  PROVE  /\ mpi_tag[p][w] = NoTag /\ mpi_tag'[p][w] = Tag(get_tag_range_id(p))
         /\ \A q \in Procs, v \in Wins : q # p \/ v # w => mpi_tag'[q][v] = mpi_tag[q][v]
         /\ \A i \in Ids : win_mpi_tag_id'[p][i] =
                             IF i = get_tag_range_id(p) THEN 1 ELSE win_mpi_tag_id[p][i]
         /\ \A q \in Procs \ {p} : win_mpi_tag_id'[q] = win_mpi_tag_id[q]
         /\ win_mpi_tag_id' \in [Procs -> [Ids -> 0 .. 1]]
         /\ mpi_tag' \in [Procs -> [Wins -> {NoTag} \union FirstTags]]
<1>1. /\ win_mpi_tag_id \in [Procs -> [Ids -> 0 .. 1]]
      /\ mpi_tag \in [Procs -> [Wins -> {NoTag} \union FirstTags]]
  BY DEF TagTypeOK
<1>2. PICK id \in RangeIds : id = get_tag_range_id(p) BY RangeIsFree
<1>3. Tag(id) \in FirstTags BY TagsOfRanges
<1>4. /\ mpi_tag[p][w] = NoTag
      /\ win_mpi_tag_id' = [win_mpi_tag_id EXCEPT ![p] = [i \in Ids |-> IF i = id THEN 1 ELSE @[i]]]
      /\ mpi_tag' = [mpi_tag EXCEPT ![p][w] = Tag(id)]
  BY <1>2 DEF Start, Live
<1>5. \A i \in Ids : win_mpi_tag_id[p][i] \in 0 .. 1 BY <1>1
<1>6. [i \in Ids |-> IF i = id THEN 1 ELSE win_mpi_tag_id[p][i]] \in [Ids -> 0 .. 1] BY <1>5
<1>7. /\ win_mpi_tag_id' \in [Procs -> [Ids -> 0 .. 1]]
      /\ \A i \in Ids : win_mpi_tag_id'[p][i] = IF i = id THEN 1 ELSE win_mpi_tag_id[p][i]
      /\ \A q \in Procs \ {p} : win_mpi_tag_id'[q] = win_mpi_tag_id[q]
  BY <1>1, <1>4, <1>6
<1>8. /\ mpi_tag' \in [Procs -> [Wins -> {NoTag} \union FirstTags]] /\ mpi_tag'[p][w] = Tag(id)
      /\ \A q \in Procs, v \in Wins : q # p \/ v # w => mpi_tag'[q][v] = mpi_tag[q][v]
  BY <1>1, <1>3, <1>4
<1> QED BY <1>2, <1>4, <1>7, <1>8

\* What rma_analyzer_stop does to them.
LEMMA StopEffect ==
  ASSUME TagTypeOK, NEW p \in Procs, NEW w \in Wins, Stop(p, w)
  PROVE  /\ mpi_tag[p][w] # NoTag /\ mpi_tag'[p][w] = NoTag
         /\ \A q \in Procs, v \in Wins : q # p \/ v # w => mpi_tag'[q][v] = mpi_tag[q][v]
         /\ \A i \in Ids : win_mpi_tag_id'[p][i] =
                             IF i = FreedId(p, w) THEN 0 ELSE win_mpi_tag_id[p][i]
         /\ \A q \in Procs \ {p} : win_mpi_tag_id'[q] = win_mpi_tag_id[q]
         /\ win_mpi_tag_id' \in [Procs -> [Ids -> 0 .. 1]]
         /\ mpi_tag' \in [Procs -> [Wins -> {NoTag} \union FirstTags]]
<1>1. /\ win_mpi_tag_id \in [Procs -> [Ids -> 0 .. 1]]
      /\ mpi_tag \in [Procs -> [Wins -> {NoTag} \union FirstTags]]
  BY DEF TagTypeOK
<1>2. PICK id : id = FreedId(p, w) OBVIOUS
<1>4. /\ mpi_tag[p][w] # NoTag
      /\ win_mpi_tag_id' = [win_mpi_tag_id EXCEPT ![p] = [i \in Ids |-> IF i = id THEN 0 ELSE @[i]]]
      /\ mpi_tag' = [mpi_tag EXCEPT ![p][w] = NoTag]
  BY <1>2 DEF Stop, Live
<1>5. \A i \in Ids : win_mpi_tag_id[p][i] \in 0 .. 1 BY <1>1
<1>6. [i \in Ids |-> IF i = id THEN 0 ELSE win_mpi_tag_id[p][i]] \in [Ids -> 0 .. 1] BY <1>5
<1>7. /\ win_mpi_tag_id' \in [Procs -> [Ids -> 0 .. 1]]
      /\ \A i \in Ids : win_mpi_tag_id'[p][i] = IF i = id THEN 0 ELSE win_mpi_tag_id[p][i]
      /\ \A q \in Procs \ {p} : win_mpi_tag_id'[q] = win_mpi_tag_id[q]
  BY <1>1, <1>4, <1>6
<1>8. /\ mpi_tag' \in [Procs -> [Wins -> {NoTag} \union FirstTags]] /\ mpi_tag'[p][w] = NoTag
      /\ \A q \in Procs, v \in Wins : q # p \/ v # w => mpi_tag'[q][v] = mpi_tag[q][v]
  BY <1>1, <1>4
<1> QED BY <1>2, <1>4, <1>7, <1>8

\* A step keeps the types.
LEMMA TagTypeStep ==
  ASSUME TagTypeOK, [Next]_vars
  PROVE  TagTypeOK'
<1>1. count_epoch' \in [Procs -> [Wins -> 0 .. MaxEpochs]]
  <2>1. count_epoch \in [Procs -> [Wins -> 0 .. MaxEpochs]] /\ MaxEpochs \in Nat
    BY TagAssumption DEF TagTypeOK
  <2>2. CASE UNCHANGED count_epoch BY <2>1, <2>2
  <2>3. ASSUME NEW p \in Procs, NEW w \in Wins, count_epoch' = [count_epoch EXCEPT ![p][w] = 0]
        PROVE  count_epoch' \in [Procs -> [Wins -> 0 .. MaxEpochs]]
    BY <2>1, <2>3
  <2>4. ASSUME NEW p \in Procs, NEW W \in SUBSET Wins, \A w \in W : count_epoch[p][w] < MaxEpochs,
               count_epoch' = [count_epoch EXCEPT ![p] =
                                 [w \in Wins |-> IF w \in W THEN @[w] + 1 ELSE @[w]]]
        PROVE  count_epoch' \in [Procs -> [Wins -> 0 .. MaxEpochs]]
    <3>1. [w \in Wins |-> IF w \in W THEN count_epoch[p][w] + 1 ELSE count_epoch[p][w]]
            \in [Wins -> 0 .. MaxEpochs]
      <4>1. \A w \in Wins : count_epoch[p][w] \in 0 .. MaxEpochs BY <2>1
      <4> QED BY <2>1, <2>4, <4>1
    <3> QED BY <2>1, <2>4, <3>1
  <2> QED BY <2>2, <2>3, <2>4, TagEffect DEF Counts
<1>2. ASSUME NEW p \in Procs, NEW w \in Wins, Starts(p, w) PROVE TagTypeOK'
  <2>1. <<"create", w>> \in Calls /\ Follow(p, <<"create", w>>) /\ Start(p, w)
    BY <1>2 DEF Starts, Follow
  <2> QED BY <1>1, <2>1, FollowTypes, StartEffect DEF TagTypeOK
<1>3. ASSUME NEW p \in Procs, NEW w \in Wins, Stops(p, w) PROVE TagTypeOK'
  <2>1. <<"free", w>> \in Calls /\ Follow(p, <<"free", w>>) /\ Stop(p, w)
    BY <1>3 DEF Stops, Follow
  <2> QED BY <1>1, <2>1, FollowTypes, StopEffect DEF TagTypeOK
<1>4. ASSUME NEW p \in Procs, Goes(p) PROVE TagTypeOK'
  <2>1. PICK op \in Calls : Follow(p, op) BY <1>4 DEF Goes
  <2> QED BY <1>1, <1>4, <2>1, FollowTypes DEF Goes, TagTypeOK
<1>5. CASE Rests BY <1>1, <1>5 DEF Rests, TagTypeOK
<1> QED BY <1>2, <1>3, <1>4, <1>5, TagEffect

LEMMA TagTypeInit == Init => TagTypeOK
<1>1. /\ RMA_ANALYZER_MAX_WIN \in Nat \ {0} /\ MaxEpochs \in Nat /\ MaxOps \in Nat
  BY TagAssumption
<1> QED BY <1>1 DEF Init, TagInit, TagTypeOK

----------------------------------------------------------------------------
(* A range is the range of one window, as long as there are enough. *)

FewWindows == IsFiniteSet(Wins) /\ Cardinality(Wins) <= RMA_ANALYZER_MAX_WIN

\* Of a process: its windows have the tags of ranges, the taken ranges are
\* theirs, and only windows without a range share a tag.
RangesOK(p) ==
  /\ \A w \in Wins : Live(p, w) => \E i \in RangeIds : mpi_tag[p][w] = Tag(i)
  /\ \A i \in Ids :
       win_mpi_tag_id[p][i] = 1 <=> \E w \in Wins : Live(p, w) /\ mpi_tag[p][w] = Tag(i)
  /\ \A v, w \in Wins :
       v # w /\ Live(p, v) /\ mpi_tag[p][v] = mpi_tag[p][w] => mpi_tag[p][w] = Tag(-1)
  /\ FewWindows => \A w \in Wins : mpi_tag[p][w] # Tag(-1)

RangesInv == \A p \in Procs : RangesOK(p)

\* A window that is created finds a free range.
LEMMA RangeLeft ==
  ASSUME TagTypeOK, NEW p \in Procs, NEW w \in Wins, RangesOK(p), FewWindows, ~ Live(p, w)
  PROVE  Free(p) # {}
<1> SUFFICES ASSUME Free(p) = {} PROVE FALSE OBVIOUS
<1>1. \A i \in Ids : win_mpi_tag_id[p][i] = 1
  BY DEF TagTypeOK, Free
<1>2. \A i \in Ids : \E v \in Wins \ {w} : mpi_tag[p][v] = Tag(i)
  BY <1>1 DEF RangesOK
<1> DEFINE f == [i \in Ids |-> CHOOSE v \in Wins \ {w} : mpi_tag[p][v] = Tag(i)]
<1>3. \A i \in Ids : f[i] \in Wins \ {w} /\ mpi_tag[p][f[i]] = Tag(i) BY <1>2
<1>4. \A i, j \in Ids : f[i] = f[j] => i = j BY <1>3, TagsOfRanges DEF RangeIds
<1>5. f \in [Ids -> Wins \ {w}] BY <1>3
<1> HIDE DEF f
<1>6. f \in Injection(Ids, Wins \ {w}) BY <1>4, <1>5 DEF Injection, IsInjective
<1>7. IsFiniteSet(Wins \ {w}) /\ Cardinality(Wins \ {w}) = Cardinality(Wins) - 1
  BY FS_RemoveElement DEF FewWindows
<1>8. Cardinality(Ids) <= Cardinality(Wins \ {w}) BY <1>6, <1>7, FS_Injection
<1>9. RMA_ANALYZER_MAX_WIN \in Nat \ {0} BY TagAssumption
<1>10. Cardinality(Ids) = RMA_ANALYZER_MAX_WIN
  <2>1. 0 \in Int /\ RMA_ANALYZER_MAX_WIN - 1 \in Int BY <1>9
  <2> QED BY <1>9, <2>1, FS_Interval DEF Ids
<1>11. Cardinality(Wins) \in Nat BY FS_CardinalityType DEF FewWindows
<1> QED BY <1>7, <1>8, <1>9, <1>10, <1>11 DEF FewWindows

\* rma_analyzer_start keeps the ranges apart.
LEMMA RangesStart ==
  ASSUME TagTypeOK, NEW p \in Procs, NEW w \in Wins, RangesOK(p), Start(p, w)
  PROVE  RangesOK(p)'
<1>1. PICK id \in RangeIds : id = get_tag_range_id(p) BY RangeIsFree
<1>2. /\ mpi_tag[p][w] = NoTag /\ mpi_tag'[p][w] = Tag(id)
      /\ \A v \in Wins \ {w} : mpi_tag'[p][v] = mpi_tag[p][v]
      /\ \A i \in Ids : win_mpi_tag_id'[p][i] = IF i = id THEN 1 ELSE win_mpi_tag_id[p][i]
  BY <1>1, StartEffect
<1>3. id \in Ids \ {-1} => id \in Free(p) BY <1>1, RangeIsFree, RangeIdTypes DEF Free
<1>4. id \in Ids => win_mpi_tag_id[p][id] # 1
  BY <1>3, RangeIdTypes DEF Free, Ids
<1>5. \A v \in Wins \ {w} : Live(p, v) => mpi_tag[p][v] = Tag(-1) \/ mpi_tag[p][v] # Tag(id)
  BY <1>4 DEF RangesOK, RangeIds
<1>6. -1 \in RangeIds /\ Ids \subseteq RangeIds BY DEF RangeIds
<1>7. \A i \in RangeIds : Tag(i) # NoTag /\ (Tag(i) = Tag(id) <=> i = id) BY <1>1, TagsOfRanges
<1>8. \A v \in Wins : Live(p, v)' => \E i \in RangeIds : mpi_tag'[p][v] = Tag(i)
  BY <1>1, <1>2 DEF RangesOK, Live
<1>9. ASSUME NEW i \in Ids
      PROVE  win_mpi_tag_id'[p][i] = 1 <=> \E v \in Wins : Live(p, v)' /\ mpi_tag'[p][v] = Tag(i)
  <2>1. CASE i = id BY <1>2, <1>6, <1>7, <2>1 DEF Live
  <2>2. CASE i # id
    <3>1. win_mpi_tag_id'[p][i] = win_mpi_tag_id[p][i] BY <1>2, <2>2
    <3>2. mpi_tag'[p][w] # Tag(i) /\ mpi_tag[p][w] # Tag(i) BY <1>2, <1>6, <1>7, <2>2
    <3>3. \A v \in Wins : Live(p, v)' /\ mpi_tag'[p][v] = Tag(i) <=> Live(p, v) /\ mpi_tag[p][v] = Tag(i)
      BY <1>2, <3>2 DEF Live
    <3> QED BY <3>1, <3>3 DEF RangesOK
  <2> QED BY <2>1, <2>2
<1>10. ASSUME NEW u \in Wins, NEW v \in Wins, u # v, Live(p, u)', mpi_tag'[p][u] = mpi_tag'[p][v]
       PROVE  mpi_tag'[p][v] = Tag(-1)
  <2>1. CASE u # w /\ v # w BY <1>2, <1>10, <2>1 DEF RangesOK, Live
  <2>2. CASE u = w BY <1>2, <1>5, <1>7, <1>1, <1>10, <2>2 DEF Live
  <2>3. CASE v = w BY <1>2, <1>5, <1>10, <2>3 DEF Live
  <2> QED BY <2>1, <2>2, <2>3
<1>11. ASSUME FewWindows PROVE \A v \in Wins : mpi_tag'[p][v] # Tag(-1)
  <2>1. id \in Free(p) BY <1>1, <1>2, <1>11, RangeLeft, RangeIsFree DEF Live
  <2>2. id # -1 BY <2>1, RangeIdTypes DEF Free, Ids
  <2> QED BY <1>2, <1>6, <1>7, <1>11, <2>2 DEF RangesOK
<1> QED BY <1>8, <1>9, <1>10, <1>11 DEF RangesOK, Live

\* rma_analyzer_stop gives back the range of its window.
LEMMA RangesStop ==
  ASSUME TagTypeOK, NEW p \in Procs, NEW w \in Wins, RangesOK(p), Stop(p, w)
  PROVE  RangesOK(p)'
<1>1. PICK id \in RangeIds : mpi_tag[p][w] = Tag(id) BY DEF RangesOK, Stop
<1>2. FreedId(p, w) = id BY <1>1, FreedIdIs
<1>3. /\ mpi_tag[p][w] # NoTag /\ mpi_tag'[p][w] = NoTag
      /\ \A v \in Wins \ {w} : mpi_tag'[p][v] = mpi_tag[p][v]
      /\ \A i \in Ids : win_mpi_tag_id'[p][i] = IF i = id THEN 0 ELSE win_mpi_tag_id[p][i]
  BY <1>2, StopEffect
<1>4. -1 \in RangeIds /\ Ids \subseteq RangeIds BY DEF RangeIds
<1>5. \A i \in RangeIds : Tag(i) # NoTag /\ (Tag(i) = Tag(id) <=> i = id) BY <1>1, TagsOfRanges
<1>6. ASSUME NEW i \in Ids
      PROVE  win_mpi_tag_id'[p][i] = 1 <=> \E v \in Wins : Live(p, v)' /\ mpi_tag'[p][v] = Tag(i)
  <2>1. CASE i = id
    <3>1. id # -1 BY <2>1, RangeIdTypes DEF Ids
    <3>2. Tag(id) # Tag(-1) BY <1>4, <1>5, <3>1
    <3>3. \A v \in Wins \ {w} : mpi_tag[p][v] # Tag(id)
      BY <1>1, <1>3, <3>2 DEF RangesOK, Live
    <3> QED BY <1>3, <1>4, <1>5, <2>1, <3>3 DEF Live
  <2>2. CASE i # id
    <3>1. win_mpi_tag_id'[p][i] = win_mpi_tag_id[p][i] BY <1>3, <2>2
    <3>2. mpi_tag'[p][w] # Tag(i) /\ mpi_tag[p][w] # Tag(i) BY <1>1, <1>3, <1>4, <1>5, <2>2
    <3>3. \A v \in Wins : Live(p, v)' /\ mpi_tag'[p][v] = Tag(i) <=> Live(p, v) /\ mpi_tag[p][v] = Tag(i)
      BY <1>3, <3>2 DEF Live
    <3> QED BY <3>1, <3>3 DEF RangesOK
  <2> QED BY <2>1, <2>2
<1>7. \A v \in Wins : Live(p, v)' => \E i \in RangeIds : mpi_tag'[p][v] = Tag(i)
  BY <1>3 DEF RangesOK, Live
<1>8. ASSUME NEW u \in Wins, NEW v \in Wins, u # v, Live(p, u)', mpi_tag'[p][u] = mpi_tag'[p][v]
      PROVE  mpi_tag'[p][v] = Tag(-1)
  BY <1>3, <1>8 DEF RangesOK, Live
<1>9. FewWindows => \A v \in Wins : mpi_tag'[p][v] # Tag(-1)
  BY <1>3, <1>4, <1>5 DEF RangesOK
<1> QED BY <1>6, <1>7, <1>8, <1>9 DEF RangesOK, Live

LEMMA RangesInit == Init => RangesInv
<1>1. -1 \in RangeIds /\ Ids \subseteq RangeIds BY DEF RangeIds
<1>2. \A i \in RangeIds : Tag(i) # NoTag BY TagsOfRanges
<1> QED BY <1>1, <1>2 DEF Init, TagInit, RangesInv, RangesOK, Live

LEMMA RangesStep ==
  ASSUME TagTypeOK, RangesInv, [Next]_vars PROVE RangesInv'
<1>1. ASSUME NEW p \in Procs, NEW w \in Wins, Starts(p, w) PROVE RangesInv'
  <2>1. RangesOK(p)' BY <1>1, RangesStart DEF RangesInv, Starts
  <2>2. \A q \in Procs \ {p} : /\ \A v \in Wins : mpi_tag'[q][v] = mpi_tag[q][v]
                               /\ win_mpi_tag_id'[q] = win_mpi_tag_id[q]
    BY <1>1, StartEffect DEF Starts
  <2>3. \A q \in Procs \ {p} : RangesOK(q)' BY <2>2 DEF RangesInv, RangesOK, Live
  <2> QED BY <2>1, <2>3 DEF RangesInv
<1>2. ASSUME NEW p \in Procs, NEW w \in Wins, Stops(p, w) PROVE RangesInv'
  <2>1. RangesOK(p)' BY <1>2, RangesStop DEF RangesInv, Stops
  <2>2. \A q \in Procs \ {p} : /\ \A v \in Wins : mpi_tag'[q][v] = mpi_tag[q][v]
                               /\ win_mpi_tag_id'[q] = win_mpi_tag_id[q]
    BY <1>2, StopEffect DEF Stops
  <2>3. \A q \in Procs \ {p} : RangesOK(q)' BY <2>2 DEF RangesInv, RangesOK, Live
  <2> QED BY <2>1, <2>3 DEF RangesInv
<1>3. CASE UNCHANGED <<win_mpi_tag_id, mpi_tag>> BY <1>3 DEF RangesInv, RangesOK, Live
<1> QED BY <1>1, <1>2, <1>3, TagEffect DEF Goes, Rests

\* The types of the tags, and whose range is whose.
THEOREM TagInvCorrect == Spec => [](TagTypeOK /\ RangesInv)
<1>1. Init => TagTypeOK /\ RangesInv BY TagTypeInit, RangesInit
<1>2. (TagTypeOK /\ RangesInv) /\ [Next]_vars => (TagTypeOK /\ RangesInv)'
  BY TagTypeStep, RangesStep
<1> QED BY <1>1, <1>2, PTL DEF Spec

\* No range leaks: rma_analyzer_start takes one that no window uses, and
\* rma_analyzer_stop gives back the one its window had (RangesAccounted).
THEOREM RangesNeverLeak == Spec => []RangesAccounted
<1>1. TagTypeOK /\ RangesInv => RangesAccounted BY DEF RangesInv, RangesOK, RangesAccounted
<1> QED BY <1>1, TagInvCorrect, PTL

\* Windows in an epoch use different tags (TagsApart) when the program has no
\* more windows than rma_analyzer.h has ranges for.
THEOREM TagsNeverMeet == FewWindows => (Spec => []TagsApart)
<1> SUFFICES ASSUME FewWindows PROVE Spec => []TagsApart OBVIOUS
<1>1. ASSUME TagTypeOK, RangesInv PROVE TagsApart
  <2> SUFFICES ASSUME NEW p \in Procs, NEW v \in Wins, NEW w \in Wins,
                      v # w, Live(p, v), Live(p, w),
                      count_epoch[p][v] \in 1 .. RMA_ANALYZER_MAX_EPOCH_NUMBER,
                      count_epoch[p][w] \in 1 .. RMA_ANALYZER_MAX_EPOCH_NUMBER
               PROVE  EpochTag(p, v) # EpochTag(p, w)
    BY DEF TagsApart
  <2>1. mpi_tag[p][v] # mpi_tag[p][w] BY <1>1 DEF RangesInv, RangesOK
  <2>2. PICK i \in RangeIds : mpi_tag[p][v] = Tag(i) BY <1>1 DEF RangesInv, RangesOK
  <2>3. PICK j \in RangeIds : mpi_tag[p][w] = Tag(j) BY <1>1 DEF RangesInv, RangesOK
  <2>4. i \in Int /\ j \in Int /\ RMA_ANALYZER_MAX_EPOCH_NUMBER \in Nat BY RangeIdTypes
  <2>5. /\ Tag(i) \in Int /\ Tag(j) \in Int
        /\ i < j => Tag(i) + RMA_ANALYZER_MAX_EPOCH_NUMBER <= Tag(j)
        /\ j < i => Tag(j) + RMA_ANALYZER_MAX_EPOCH_NUMBER <= Tag(i)
    BY TagsOfRanges
  <2>6. i < j \/ j < i BY <2>1, <2>2, <2>3, <2>4
  <2>7. EpochTag(p, v) = Tag(i) + count_epoch[p][v] /\ EpochTag(p, w) = Tag(j) + count_epoch[p][w]
    BY <2>2, <2>3 DEF EpochTag
  <2> QED BY <2>4, <2>5, <2>6, <2>7
<1> QED BY <1>1, TagInvCorrect, PTL

----------------------------------------------------------------------------
(* The buckets of the keys, before and after an expansion. *)

LEMMA Multiple ==
  ASSUME NEW n \in Nat \ {0}, NEW d \in Int
  PROVE  (d >= 1 => n * d >= n) /\ (d <= -1 => n * d <= -n)
<1>1. ASSUME NEW e \in Nat PROVE n * e \in Nat OBVIOUS
<1>2. ASSUME d >= 1 PROVE n * d >= n
  <2>1. d - 1 \in Nat BY <1>2
  <2>2. n * (d - 1) >= 0 BY <1>1, <2>1
  <2> QED BY <2>2
<1>3. ASSUME d <= -1 PROVE n * d <= -n
  <2>1. -1 - d \in Nat BY <1>3
  <2>2. n * (-1 - d) >= 0 BY <1>1, <2>1
  <2> QED BY <2>2
<1> QED BY <1>2, <1>3

LEMMA Divides ==
  ASSUME NEW a \in Nat, NEW n \in Nat \ {0}
  PROVE  a \div n \in Nat /\ a % n \in 0 .. n - 1 /\ a = n * (a \div n) + (a % n)
OBVIOUS

\* A key of bucket b of 2n was in the bucket of n that b has its items from.
LEMMA Halves ==
  ASSUME NEW h \in Nat, NEW n \in Nat \ {0} PROVE (h % (2 * n)) % n = h % n
<1>1. PICK m \in Nat \ {0} : m = 2 * n OBVIOUS
<1>2. PICK q \in Nat, r \in 0 .. m - 1 : h = m * q + r /\ r = h % m BY <1>1, Divides
<1>3. PICK u \in Nat, v \in 0 .. n - 1 : r = n * u + v /\ v = r % n
  <2>1. r \in Nat BY <1>2
  <2> QED BY <2>1, Divides
<1>4. PICK x \in Nat, y \in 0 .. n - 1 : h = n * x + y /\ y = h % n BY Divides
<1>5. PICK d \in Int : d = x - 2 * q - u OBVIOUS
<1>6. n * d = v - y
  <2>1. m * q = n * (2 * q) BY <1>1
  <2>2. n * d = n * x - n * (2 * q) - n * u BY <1>5
  <2>3. PICK i \in Int, j \in Int, k \in Int : i = n * x /\ j = n * (2 * q) /\ k = n * u OBVIOUS
  <2>4. h = j + r /\ r = k + v /\ h = i + y BY <1>2, <1>3, <1>4, <2>1, <2>3
  <2>5. r \in Int /\ v \in Int /\ y \in Int BY <1>2
  <2> QED BY <2>2, <2>3, <2>4, <2>5
<1>7. d = 0 BY <1>6, Multiple
<1>8. v = y BY <1>6, <1>7
<1> QED BY <1>1, <1>2, <1>3, <1>4, <1>8

LEMMA BucketType ==
  ASSUME NEW k \in Wins, NEW n \in Nat \ {0} PROVE HASH_TO_BKT(k, n) \in 1 .. n
<1>1. hashv[k] \in Nat BY WindowsAssumption
<1>2. hashv[k] % n \in 0 .. n - 1 BY <1>1, Divides
<1> QED BY <1>2 DEF HASH_TO_BKT

LEMMA BucketHalves ==
  ASSUME NEW k \in Wins, NEW n \in Nat \ {0}
  PROVE  HASH_TO_BKT(k, n) = 1 + ((HASH_TO_BKT(k, 2 * n) - 1) % n)
<1>1. hashv[k] \in Nat BY WindowsAssumption
<1>2. PICK x : x = hashv[k] % (2 * n) OBVIOUS
<1>3. x \in Int
  <2>1. 2 * n \in Nat \ {0} OBVIOUS
  <2> QED BY <1>1, <1>2, <2>1, Divides
<1>4. (1 + x) - 1 = x BY <1>3
<1>5. x % n = hashv[k] % n BY <1>1, <1>2, Halves
<1> QED BY <1>2, <1>4, <1>5 DEF HASH_TO_BKT

----------------------------------------------------------------------------
(* A chain. *)

\* A chain of windows holds those of K, each once.
ChainOf(c, K) ==
  /\ c \in Seq(Wins) /\ Elements(c) = K
  /\ \A i, j \in 1 .. Len(c) : c[i] = c[j] => i = j

\* The keys of K that go to bucket b of n.
InBucket(K, n, b) == {k \in K : HASH_TO_BKT(k, n) = b}

LEMMA ChainEmpty == ChainOf(<<>>, {})
BY DEF ChainOf, Elements

LEMMA ChainLonger ==
  ASSUME NEW c, NEW K, ChainOf(c, K), NEW k \in Wins \ K
  PROVE  ChainOf(<<k>> \o c, K \union {k})
<1>1. PICK d : d = <<k>> \o c OBVIOUS
<1>2. c \in Seq(Wins) /\ Len(c) \in Nat /\ K = Elements(c) BY DEF ChainOf
<1>3. d \in Seq(Wins) /\ Len(d) = Len(c) + 1 /\ d[1] = k /\ \A i \in 1 .. Len(c) : d[i + 1] = c[i]
  BY <1>1, <1>2
<1>4. \A i \in 1 .. Len(d) : i # 1 => i - 1 \in 1 .. Len(c) /\ d[i] = c[i - 1]
  <2> SUFFICES ASSUME NEW i \in 1 .. Len(d), i # 1 PROVE i - 1 \in 1 .. Len(c) /\ d[i] = c[i - 1] OBVIOUS
  <2>1. i - 1 \in 1 .. Len(c) /\ (i - 1) + 1 = i BY <1>2, <1>3
  <2>2. d[(i - 1) + 1] = c[i - 1] BY <1>3, <2>1
  <2> QED BY <2>1, <2>2
<1>5. \A i \in 1 .. Len(c) : c[i] # k BY <1>2 DEF Elements
<1>6. ASSUME NEW i \in 1 .. Len(d), NEW j \in 1 .. Len(d), d[i] = d[j] PROVE i = j
  <2>1. CASE i = 1 BY <1>3, <1>4, <1>5, <1>6, <2>1
  <2>2. CASE j = 1 BY <1>3, <1>4, <1>5, <1>6, <2>2
  <2>3. CASE i # 1 /\ j # 1
    <3>1. i - 1 = j - 1 BY <1>4, <1>6, <2>3 DEF ChainOf
    <3> QED BY <3>1
  <2> QED BY <2>1, <2>2, <2>3
<1>7. Elements(d) = K \union {k}
  <2>1. ASSUME NEW i \in 1 .. Len(d) PROVE d[i] \in K \union {k} BY <1>2, <1>3, <1>4 DEF Elements
  <2>2. k \in Elements(d)
    <3>1. 1 \in 1 .. Len(d) BY <1>2, <1>3
    <3> QED BY <1>3, <3>1 DEF Elements
  <2>3. ASSUME NEW i \in 1 .. Len(c) PROVE c[i] \in Elements(d)
    <3>1. i + 1 \in 1 .. Len(d) BY <1>2, <1>3
    <3> QED BY <1>3, <3>1 DEF Elements
  <2> QED BY <1>2, <2>1, <2>2, <2>3 DEF Elements
<1> QED BY <1>1, <1>3, <1>6, <1>7 DEF ChainOf

\* Without takes one window out of a chain.
LEMMA ChainWithout ==
  ASSUME NEW c, NEW K, ChainOf(c, K), NEW w \in K
  PROVE  ChainOf(Without(c, w), K \ {w})
<1>1. c \in Seq(Wins) /\ Len(c) \in Nat /\ K = Elements(c) /\ w \in Wins BY DEF ChainOf, Elements
<1>2. PICK u : u = Without(c, w) OBVIOUS
<1>3. PICK k \in 1 .. Len(c) : c[k] = w BY <1>1 DEF Elements
<1>4. \A j \in 1 .. Len(c) : c[j] = w => j = k BY <1>3 DEF ChainOf
<1>5. PICK n \in Nat : n + 1 = Len(c) /\ n = Len(c) - 1 BY <1>1, <1>3
<1>6. u = [i \in 1 .. n |-> IF \E j \in 1 .. i : c[j] = w THEN c[i + 1] ELSE c[i]]
  BY <1>2, <1>5 DEF Without
<1>7. \A i \in 1 .. n : (\E j \in 1 .. i : c[j] = w) <=> k <= i BY <1>1, <1>3, <1>4, <1>5
<1>8. \A i \in 1 .. n : u[i] = IF k <= i THEN c[i + 1] ELSE c[i] BY <1>6, <1>7
<1>9. \A i \in 1 .. n : i \in 1 .. Len(c) /\ i + 1 \in 1 .. Len(c) BY <1>5
<1>10. \A i \in 1 .. n : u[i] \in Wins BY SMTT(40), <1>1, <1>8, <1>9
<1>11. u \in Seq(Wins) /\ Len(u) = n
  <2>1. u \in [1 .. n -> Wins] BY <1>6, <1>10
  <2> QED BY <1>6, <2>1
<1>12. ASSUME NEW i \in 1 .. Len(u), NEW j \in 1 .. Len(u), u[i] = u[j] PROVE i = j
  <2>1. i \in 1 .. n /\ j \in 1 .. n BY <1>11
  <2>2. PICK a \in 1 .. Len(c) : u[i] = c[a] /\ a = IF k <= i THEN i + 1 ELSE i BY <1>8, <1>9, <2>1
  <2>3. PICK b \in 1 .. Len(c) : u[j] = c[b] /\ b = IF k <= j THEN j + 1 ELSE j BY <1>8, <1>9, <2>1
  <2>4. a = b BY <1>12, <2>2, <2>3 DEF ChainOf
  <2> QED BY <1>3, <2>2, <2>3, <2>4
<1>13. ASSUME NEW x \in Elements(u) PROVE x \in K \ {w}
  <2>1. PICK i \in 1 .. n : x = u[i] BY <1>11, <1>13 DEF Elements
  <2>2. PICK a \in 1 .. Len(c) : x = c[a] /\ a = IF k <= i THEN i + 1 ELSE i BY <1>8, <1>9, <2>1
  <2>3. a # k BY <1>3, <2>1, <2>2
  <2> QED BY <1>1, <1>4, <2>2, <2>3 DEF Elements
<1>14. ASSUME NEW x \in K, x # w PROVE x \in Elements(u)
  <2>1. PICK a \in 1 .. Len(c) : x = c[a] BY <1>1, <1>14 DEF Elements
  <2>2. a # k BY <1>3, <1>14, <2>1
  <2>3. CASE a < k
    <3>1. a \in 1 .. n /\ u[a] = c[a] BY <1>3, <1>5, <1>8, <2>1, <2>3
    <3> QED BY <1>11, <2>1, <3>1 DEF Elements
  <2>4. CASE a > k
    <3>1. a - 1 \in 1 .. n /\ k <= a - 1 /\ (a - 1) + 1 = a BY <1>3, <1>5, <2>1, <2>4
    <3>2. u[a - 1] = c[a] BY <1>8, <3>1
    <3> QED BY <1>11, <2>1, <3>1, <3>2 DEF Elements
  <2> QED BY <2>2, <2>3, <2>4
<1> QED BY <1>2, <1>11, <1>12, <1>13, <1>14 DEF ChainOf

----------------------------------------------------------------------------
(* The chains of the new buckets. *)

\* What a function over the first m items of a chain says of Fronts.
FrontsTo(f, m, chain, n, b) ==
  f = [i \in 0 .. m |->
         IF i = 0 THEN <<>>
         ELSE IF HASH_TO_BKT(chain[i], n) = b THEN <<chain[i]>> \o f[i - 1] ELSE f[i - 1]]

LEMMA FrontsExist ==
  ASSUME NEW chain, NEW n, NEW b, NEW m \in Nat PROVE \E f : FrontsTo(f, m, chain, n, b)
<1> DEFINE S == {k \in Nat : ~ \E f : FrontsTo(f, k, chain, n, b)}
<1> SUFFICES ASSUME m \in S PROVE FALSE OBVIOUS
<1>1. PICK k \in S : \A j \in S : k <= j BY LeastNat
<1>2. k # 0
  <2>1. FrontsTo([i \in 0 .. 0 |-> <<>>], 0, chain, n, b) BY DEF FrontsTo
  <2> QED BY <2>1
<1>3. k \in Nat /\ k - 1 \in Nat /\ k - 1 \notin S BY <1>1, <1>2
<1>4. PICK f : FrontsTo(f, k - 1, chain, n, b) BY <1>3
<1>5. PICK x : x = IF HASH_TO_BKT(chain[k], n) = b THEN <<chain[k]>> \o f[k - 1] ELSE f[k - 1] OBVIOUS
<1>6. PICK g : g = [i \in 0 .. k |-> IF i = k THEN x ELSE f[i]] OBVIOUS
<1>7. FrontsTo(g, k, chain, n, b)
  <2>1. ASSUME NEW i \in 0 .. k
        PROVE  g[i] = IF i = 0 THEN <<>>
                      ELSE IF HASH_TO_BKT(chain[i], n) = b THEN <<chain[i]>> \o g[i - 1] ELSE g[i - 1]
    <3>1. CASE i = k
      <4>1. g[i - 1] = f[i - 1] /\ i - 1 \in 0 .. k BY <1>3, <1>6, <3>1
      <4> QED BY <1>2, <1>5, <1>6, <3>1, <4>1
    <3>2. CASE i # k
      <4>1. i \in 0 .. k - 1 /\ g[i] = f[i] BY <1>3, <1>6, <3>2
      <4>2. i # 0 => i - 1 \in 0 .. k /\ i - 1 # k BY <1>3, <4>1
      <4>3. i # 0 => g[i - 1] = f[i - 1] BY <1>6, <4>2
      <4>4. f[i] = IF i = 0 THEN <<>>
                   ELSE IF HASH_TO_BKT(chain[i], n) = b THEN <<chain[i]>> \o f[i - 1] ELSE f[i - 1]
        BY <1>4, <4>1 DEF FrontsTo
      <4> QED BY <4>1, <4>3, <4>4
    <3> QED BY <3>1, <3>2
  <2> QED BY <1>6, <2>1 DEF FrontsTo
<1> QED BY <1>1, <1>7

LEMMA FrontsIs ==
  ASSUME NEW chain, Len(chain) \in Nat, NEW n, NEW b
  PROVE  FrontsTo(Fronts(chain, n, b), Len(chain), chain, n, b)
<1>1. \E f : FrontsTo(f, Len(chain), chain, n, b) BY FrontsExist
<1>2. Fronts(chain, n, b) = CHOOSE f : FrontsTo(f, Len(chain), chain, n, b) BY DEF Fronts, FrontsTo
<1> QED BY <1>1, <1>2

\* Fronts keeps the items of a bucket, each once.
LEMMA FrontsHold ==
  ASSUME NEW c, NEW K, ChainOf(c, K), NEW n, NEW b
  PROVE  ChainOf(Fronts(c, n, b)[Len(c)], InBucket(K, n, b))
<1>1. PICK f : f = Fronts(c, n, b) OBVIOUS
<1>2. c \in Seq(Wins) /\ Len(c) \in Nat /\ Elements(c) = K BY DEF ChainOf
<1>3. FrontsTo(f, Len(c), c, n, b) BY <1>1, <1>2, FrontsIs
<1> DEFINE Kept(m) == {c[i] : i \in {j \in 1 .. m : HASH_TO_BKT(c[j], n) = b}}
           S == {m \in 0 .. Len(c) : ~ ChainOf(f[m], Kept(m))}
<1>4. ASSUME S # {} PROVE FALSE
  <2>1. PICK m \in S : \A j \in S : m <= j
    <3>1. S \in SUBSET Nat BY <1>2
    <3> QED BY <1>4, <3>1, LeastNat
  <2>2. m # 0
    <3>1. f[0] = <<>> BY <1>2, <1>3 DEF FrontsTo
    <3>2. Kept(0) = {} OBVIOUS
    <3> QED BY <2>1, <3>1, <3>2, ChainEmpty
  <2>3. m \in 1 .. Len(c) /\ m - 1 \in 0 .. Len(c) /\ m - 1 \notin S
    <3>1. m \in 0 .. Len(c) BY <2>1
    <3>2. m \in Int /\ ~ m <= m - 1 BY <1>2, <3>1
    <3>3. m - 1 \notin S BY <2>1, <3>2
    <3> QED BY <1>2, <2>2, <3>1, <3>3
  <2>4. ChainOf(f[m - 1], Kept(m - 1)) BY <2>3
  <2>5. f[m] = IF HASH_TO_BKT(c[m], n) = b THEN <<c[m]>> \o f[m - 1] ELSE f[m - 1]
    BY <1>3, <2>2, <2>3 DEF FrontsTo
  <2>6. \A j : j \in 1 .. m <=> j \in 1 .. m - 1 \/ j = m BY <1>2, <2>3
  <2>7. CASE HASH_TO_BKT(c[m], n) = b
    <3>1. Kept(m) = Kept(m - 1) \union {c[m]} BY <2>6, <2>7
    <3>2. c[m] \in Wins BY <1>2, <2>3
    <3>3. c[m] \notin Kept(m - 1)
      <4>1. ASSUME NEW j \in 1 .. m - 1, c[j] = c[m] PROVE FALSE
        <5>1. j \in 1 .. Len(c) /\ j # m BY <1>2, <2>3
        <5> QED BY <2>3, <4>1, <5>1 DEF ChainOf
      <4> QED BY <4>1
    <3>4. ChainOf(<<c[m]>> \o f[m - 1], Kept(m - 1) \union {c[m]})
      <4> HIDE DEF Kept
      <4> QED BY <2>4, <3>2, <3>3, ChainLonger
    <3> QED BY <2>1, <2>5, <2>7, <3>1, <3>4
  <2>8. CASE HASH_TO_BKT(c[m], n) # b
    <3>1. Kept(m) = Kept(m - 1) BY <2>6, <2>8
    <3> QED BY <2>1, <2>4, <2>5, <2>8, <3>1
  <2> QED BY <2>7, <2>8
<1>5. ChainOf(f[Len(c)], Kept(Len(c)))
  <2>1. Len(c) \in 0 .. Len(c) BY <1>2
  <2> QED BY <1>4, <2>1
<1>6. Kept(Len(c)) = InBucket(K, n, b) BY <1>2 DEF Elements, InBucket
<1> QED BY <1>1, <1>5, <1>6

----------------------------------------------------------------------------
(* The buckets of a table. *)

\* Buckets B, n of them, hold the windows of K, each in its own.
BucketsOf(B, n, K) ==
  /\ n \in Nat \ {0} /\ DOMAIN B = 1 .. n /\ K \subseteq Wins
  /\ B = [b \in 1 .. n |-> [chain |-> B[b].chain, expand_mult |-> B[b].expand_mult]]
  /\ \A b \in 1 .. n : ChainOf(B[b].chain, InBucket(K, n, b))

LEMMA BucketsMade ==
  ASSUME NEW B, B = HASH_MAKE_TABLE.buckets
  PROVE  BucketsOf(B, HASH_INITIAL_NUM_BUCKETS, {})
<1>1. B = [b \in 1 .. HASH_INITIAL_NUM_BUCKETS |-> [chain |-> <<>>, expand_mult |-> 0]]
  BY DEF HASH_MAKE_TABLE, NULL
<1>2. \A b \in 1 .. HASH_INITIAL_NUM_BUCKETS : B[b] = [chain |-> <<>>, expand_mult |-> 0] BY <1>1
<1>3. \A b : InBucket({}, HASH_INITIAL_NUM_BUCKETS, b) = {} BY DEF InBucket
<1>4. \A b \in 1 .. HASH_INITIAL_NUM_BUCKETS : B[b].chain = <<>> /\ B[b].expand_mult = 0 BY <1>2
<1>5. B = [b \in 1 .. HASH_INITIAL_NUM_BUCKETS |-> [chain |-> B[b].chain, expand_mult |-> B[b].expand_mult]]
  BY <1>1, <1>4
<1>6. \A b \in 1 .. HASH_INITIAL_NUM_BUCKETS : ChainOf(B[b].chain, InBucket({}, HASH_INITIAL_NUM_BUCKETS, b))
  BY <1>3, <1>4, ChainEmpty
<1> QED BY <1>1, <1>5, <1>6, HashAssumption DEF BucketsOf

WithChain(B, b, x) == [B EXCEPT ![b].chain = x]

\* What changing one chain does to the buckets.
LEMMA ChainChanged ==
  ASSUME NEW B, NEW n, NEW K, BucketsOf(B, n, K), NEW b \in 1 .. n, NEW x, NEW C,
         C = WithChain(B, b, x)
  PROVE  /\ DOMAIN C = 1 .. n /\ \A d \in 1 .. n : C[d].chain = IF d = b THEN x ELSE B[d].chain
         /\ C = [d \in 1 .. n |-> [chain |-> C[d].chain, expand_mult |-> C[d].expand_mult]]
<1>1. DOMAIN B = 1 .. n /\ \A d \in 1 .. n : B[d] = [chain |-> B[d].chain, expand_mult |-> B[d].expand_mult]
  BY DEF BucketsOf
<1>2. [B[b] EXCEPT !.chain = x] = [chain |-> x, expand_mult |-> B[b].expand_mult] BY <1>1
<1>3. C = [d \in 1 .. n |-> IF d = b THEN [chain |-> x, expand_mult |-> B[b].expand_mult] ELSE B[d]]
  BY <1>1, <1>2 DEF WithChain
<1>4. \A d \in 1 .. n : C[d] = [chain |-> IF d = b THEN x ELSE B[d].chain, expand_mult |-> B[d].expand_mult]
  BY <1>1, <1>3
<1> QED BY <1>3, <1>4

LEMMA BucketsLen ==
  ASSUME NEW B, NEW n, NEW K, BucketsOf(B, n, K) PROVE Len(B) = n
BY DEF BucketsOf

LEMMA BucketsAdd ==
  ASSUME NEW B, NEW n, NEW K, BucketsOf(B, n, K), NEW k \in Wins \ K, NEW b, b = HASH_TO_BKT(k, n)
  PROVE  BucketsOf([B EXCEPT ![b].chain = <<k>> \o @], n, K \union {k})
<1>1. PICK C : C = [B EXCEPT ![b].chain = <<k>> \o @] OBVIOUS
<1>2. b \in 1 .. n BY BucketType DEF BucketsOf
<1>3. /\ DOMAIN C = 1 .. n
      /\ \A d \in 1 .. n : C[d].chain = IF d = b THEN <<k>> \o B[b].chain ELSE B[d].chain
      /\ C = [d \in 1 .. n |-> [chain |-> C[d].chain, expand_mult |-> C[d].expand_mult]]
  <2>1. PICK x : x = <<k>> \o B[b].chain OBVIOUS
  <2>2. C = WithChain(B, b, x) BY <1>1, <2>1 DEF WithChain
  <2>3. /\ DOMAIN C = 1 .. n /\ \A d \in 1 .. n : C[d].chain = IF d = b THEN x ELSE B[d].chain
        /\ C = [d \in 1 .. n |-> [chain |-> C[d].chain, expand_mult |-> C[d].expand_mult]]
    BY <1>2, <2>2, ChainChanged
  <2> QED BY <2>1, <2>3
<1>4. ASSUME NEW d \in 1 .. n
      PROVE  ChainOf(C[d].chain, InBucket(K \union {k}, n, d))
  <2>1. PICK I : I = InBucket(K, n, d) OBVIOUS
  <2>2. ChainOf(B[d].chain, I) BY <2>1 DEF BucketsOf
  <2>3. CASE d = b
    <3>1. C[d].chain = <<k>> \o B[d].chain BY <1>3, <2>3
    <3>2. k \in Wins \ I BY <2>1 DEF InBucket
    <3>3. ChainOf(C[d].chain, I \union {k}) BY <2>2, <3>1, <3>2, ChainLonger
    <3>4. I \union {k} = InBucket(K \union {k}, n, d) BY <2>1, <2>3 DEF InBucket
    <3> QED BY <3>3, <3>4
  <2>4. CASE d # b
    <3>1. C[d].chain = B[d].chain BY <1>3, <2>4
    <3>2. I = InBucket(K \union {k}, n, d) BY <2>1, <2>4 DEF InBucket
    <3> QED BY <2>2, <3>1, <3>2
  <2> QED BY <2>3, <2>4
<1> QED BY <1>1, <1>3, <1>4 DEF BucketsOf

\* An expansion moves every item to its bucket.
LEMMA BucketsExpand ==
  ASSUME NEW t, NEW K, BucketsOf(t.buckets, num_buckets(t), K)
  PROVE  BucketsOf(HASH_EXPAND_BUCKETS(t).buckets, 2 * num_buckets(t), K)
<1>1. PICK n \in Nat \ {0} : n = num_buckets(t) BY DEF BucketsOf
<1>2. PICK m \in Nat \ {0} : m = 2 * n OBVIOUS
<1>3. PICK B : B = t.buckets OBVIOUS
<1>4. PICK C : C = HASH_EXPAND_BUCKETS(t).buckets OBVIOUS
<1>5. /\ C = [b \in 1 .. m |-> [chain |-> C[b].chain, expand_mult |-> C[b].expand_mult]]
      /\ \A b \in 1 .. m : C[b].chain = Moved(t, b)
  <2>1. PICK e : e = [b \in 1 .. m |-> IF Len(Moved(t, b)) > ideal_chain_maxlen(t)
                                       THEN Len(Moved(t, b)) \div ideal_chain_maxlen(t) ELSE 0]
    OBVIOUS
  <2>2. C = [b \in 1 .. m |-> [chain |-> Moved(t, b), expand_mult |-> e[b]]]
    BY <1>1, <1>2, <1>4, <2>1, Zenon DEF HASH_EXPAND_BUCKETS
  <2> QED BY <2>2
<1>6. ASSUME NEW b \in 1 .. m PROVE ChainOf(C[b].chain, InBucket(K, m, b))
  <2>1. PICK a : a = 1 + ((b - 1) % n) OBVIOUS
  <2>2. a \in 1 .. n
    <3>1. b - 1 \in Nat BY <1>2
    <3>2. (b - 1) % n \in 0 .. n - 1 BY <3>1, Divides
    <3> QED BY <2>1, <3>2
  <2>3. PICK I : I = InBucket(K, n, a) OBVIOUS
  <2>4. ChainOf(B[a].chain, I) BY <1>1, <1>3, <2>2, <2>3 DEF BucketsOf
  <2>5. C[b].chain = Fronts(B[a].chain, m, b)[Len(B[a].chain)]
    BY <1>1, <1>2, <1>3, <1>5, <2>1 DEF Moved
  <2>6. ChainOf(C[b].chain, InBucket(I, m, b))
    <3>1. PICK c : c = B[a].chain OBVIOUS
    <3>2. ChainOf(Fronts(c, m, b)[Len(c)], InBucket(I, m, b)) BY <2>4, <3>1, FrontsHold
    <3> QED BY <2>5, <3>1, <3>2
  <2>7. ASSUME NEW k \in K, HASH_TO_BKT(k, m) = b PROVE HASH_TO_BKT(k, n) = a
    <3>1. k \in Wins BY DEF BucketsOf
    <3> QED BY <1>2, <2>1, <2>7, <3>1, BucketHalves
  <2>8. InBucket(I, m, b) = InBucket(K, m, b) BY <2>3, <2>7 DEF InBucket
  <2> QED BY <2>6, <2>8
<1> QED BY <1>1, <1>2, <1>4, <1>5, <1>6 DEF BucketsOf

LEMMA BucketsDelete ==
  ASSUME NEW B, NEW n, NEW K, BucketsOf(B, n, K), NEW k \in K, NEW b, b = HASH_TO_BKT(k, n)
  PROVE  BucketsOf([B EXCEPT ![b].chain = Without(@, k)], n, K \ {k})
<1>1. PICK C : C = [B EXCEPT ![b].chain = Without(@, k)] OBVIOUS
<1>2. b \in 1 .. n BY BucketType DEF BucketsOf
<1>3. /\ DOMAIN C = 1 .. n
      /\ \A d \in 1 .. n : C[d].chain = IF d = b THEN Without(B[b].chain, k) ELSE B[d].chain
      /\ C = [d \in 1 .. n |-> [chain |-> C[d].chain, expand_mult |-> C[d].expand_mult]]
  <2>1. PICK x : x = Without(B[b].chain, k) OBVIOUS
  <2>2. C = WithChain(B, b, x) BY <1>1, <2>1 DEF WithChain
  <2>3. /\ DOMAIN C = 1 .. n /\ \A d \in 1 .. n : C[d].chain = IF d = b THEN x ELSE B[d].chain
        /\ C = [d \in 1 .. n |-> [chain |-> C[d].chain, expand_mult |-> C[d].expand_mult]]
    BY <1>2, <2>2, ChainChanged
  <2> QED BY <2>1, <2>3
<1>4. ASSUME NEW d \in 1 .. n PROVE ChainOf(C[d].chain, InBucket(K \ {k}, n, d))
  <2>1. PICK I : I = InBucket(K, n, d) OBVIOUS
  <2>2. ChainOf(B[d].chain, I) BY <2>1 DEF BucketsOf
  <2>3. CASE d = b
    <3>1. C[d].chain = Without(B[d].chain, k) BY <1>3, <2>3
    <3>2. k \in I BY <2>1, <2>3 DEF InBucket
    <3>3. ChainOf(C[d].chain, I \ {k}) BY <2>2, <3>1, <3>2, ChainWithout
    <3>4. I \ {k} = InBucket(K \ {k}, n, d) BY <2>1 DEF InBucket
    <3> QED BY <3>3, <3>4
  <2>4. CASE d # b
    <3>1. C[d].chain = B[d].chain BY <1>3, <2>4
    <3>2. I = InBucket(K \ {k}, n, d) BY <2>1, <2>4 DEF InBucket
    <3> QED BY <2>2, <3>1, <3>2
  <2> QED BY <2>3, <2>4
<1>5. K \ {k} \subseteq Wins BY DEF BucketsOf
<1> QED BY <1>1, <1>3, <1>4, <1>5 DEF BucketsOf

----------------------------------------------------------------------------
(* The table of the windows. *)

\* A table is a record, and its items are windows, each of them once.
TableOK(t) ==
  /\ t = [items |-> t.items, buckets |-> t.buckets, ineff_expands |-> t.ineff_expands]
  /\ t.items \in Seq(Wins)
  /\ \A i, j \in 1 .. Len(t.items) : t.items[i] = t.items[j] => i = j

\* HASH_ADD_KEYPTR adds a window at the end, whether or not the table expands.
LEMMA TableAdds ==
  ASSUME NEW t, TableOK(t), NEW w \in Wins, w \notin Elements(t.items)
  PROVE  /\ TableOK(HASH_ADD_KEYPTR(t, w))
         /\ Elements(HASH_ADD_KEYPTR(t, w).items) = Elements(t.items) \union {w}
<1>1. PICK r : r = IF t = NULL THEN HASH_MAKE_TABLE ELSE t OBVIOUS
<1>2. r = [items |-> r.items, buckets |-> r.buckets, ineff_expands |-> r.ineff_expands] /\ r.items = t.items
  BY <1>1 DEF TableOK, HASH_MAKE_TABLE, NULL
<1>3. PICK a : a = [r EXCEPT !.items = Append(@, w)] OBVIOUS
<1>4. a = [items |-> Append(t.items, w), buckets |-> r.buckets, ineff_expands |-> r.ineff_expands]
  BY <1>2, <1>3
<1>5. PICK b : b = HASH_TO_BKT(w, num_buckets(r)) OBVIOUS
<1>6. HASH_ADD_KEYPTR(t, w) = HASH_ADD_TO_BKT(a, w, b) BY <1>1, <1>3, <1>5 DEF HASH_ADD_KEYPTR
<1>7. PICK c : c = [a EXCEPT !.buckets[b].chain = <<w>> \o @] OBVIOUS
<1>8. c = [items |-> Append(t.items, w), buckets |-> c.buckets, ineff_expands |-> c.ineff_expands]
  BY <1>4, <1>7
<1>9. HASH_ADD_KEYPTR(t, w) \in {c, HASH_EXPAND_BUCKETS(c)} BY <1>6, <1>7 DEF HASH_ADD_TO_BKT
<1>10. PICK u : u = HASH_ADD_KEYPTR(t, w) OBVIOUS
<1>11. u = [items |-> Append(t.items, w), buckets |-> u.buckets, ineff_expands |-> u.ineff_expands]
  <2>1. CASE u = c BY <1>8, <2>1
  <2>2. CASE u = HASH_EXPAND_BUCKETS(c)
    <3>1. PICK x, y : HASH_EXPAND_BUCKETS(c) = [items |-> c.items, buckets |-> x, ineff_expands |-> y]
      BY Zenon DEF HASH_EXPAND_BUCKETS
    <3>2. u.items = c.items /\ u.buckets = x /\ u.ineff_expands = y BY <2>2, <3>1
    <3>3. c.items = Append(t.items, w) BY <1>8
    <3> QED BY <2>2, <3>1, <3>2, <3>3
  <2> QED BY <1>9, <1>10, <2>1, <2>2
<1>12. t.items \in Seq(Wins) /\ Len(t.items) \in Nat BY DEF TableOK
<1>13. /\ u.items \in Seq(Wins) /\ Len(u.items) = Len(t.items) + 1
       /\ \A i \in 1 .. Len(t.items) : u.items[i] = t.items[i]
       /\ u.items[Len(t.items) + 1] = w
  BY SMTT(40), <1>11, <1>12
<1>14. \A i, j \in 1 .. Len(u.items) : u.items[i] = u.items[j] => i = j
  BY <1>12, <1>13 DEF TableOK, Elements
<1>15. Elements(u.items) = Elements(t.items) \union {w}
  <2>1. ASSUME NEW x \in Elements(u.items) PROVE x \in Elements(t.items) \union {w}
    <3>1. PICK i \in 1 .. Len(u.items) : x = u.items[i] BY <2>1 DEF Elements
    <3>2. CASE i = Len(t.items) + 1 BY <1>13, <3>1, <3>2
    <3>3. CASE i # Len(t.items) + 1
      <4>1. i \in 1 .. Len(t.items) BY <1>12, <1>13, <3>1, <3>3
      <4> QED BY <1>13, <3>1, <4>1 DEF Elements
    <3> QED BY <3>2, <3>3
  <2>2. w \in Elements(u.items)
    <3>1. Len(t.items) + 1 \in 1 .. Len(u.items) BY <1>12, <1>13
    <3> QED BY <1>13, <3>1 DEF Elements
  <2>3. ASSUME NEW x \in Elements(t.items) PROVE x \in Elements(u.items)
    <3>1. PICK i \in 1 .. Len(t.items) : x = t.items[i] BY <2>3 DEF Elements
    <3>2. i \in 1 .. Len(u.items) BY <1>12, <1>13
    <3> QED BY <1>13, <3>1, <3>2 DEF Elements
  <2> QED BY <2>1, <2>2, <2>3
<1> QED BY <1>10, <1>11, <1>13, <1>14, <1>15 DEF TableOK

\* HASH_DELETE takes one window out.
LEMMA TableDeletes ==
  ASSUME NEW t, TableOK(t), NEW w \in Wins, w \in Elements(t.items)
  PROVE  /\ TableOK(HASH_DELETE(t, w))
         /\ Elements(HASH_DELETE(t, w).items) = Elements(t.items) \ {w}
<1>1. CASE t.items = <<w>>
  <2>1. HASH_DELETE(t, w) = NULL BY <1>1 DEF HASH_DELETE
  <2>2. NULL = [items |-> NULL.items, buckets |-> NULL.buckets, ineff_expands |-> NULL.ineff_expands]
        /\ NULL.items = <<>>
    BY DEF NULL
  <2>3. TableOK(NULL) BY <2>2 DEF TableOK
  <2>4. Elements(NULL.items) = {} BY <2>2 DEF Elements
  <2>5. Elements(t.items) = {w} BY <1>1 DEF Elements
  <2> QED BY <2>1, <2>3, <2>4, <2>5
<1>2. CASE t.items # <<w>>
  <2>1. PICK u : u = HASH_DELETE(t, w) OBVIOUS
  <2>2. u = [items |-> Without(t.items, w), buckets |-> u.buckets, ineff_expands |-> u.ineff_expands]
    <3>1. PICK b : b = HASH_TO_BKT(w, num_buckets(t)) OBVIOUS
    <3>2. u = [t EXCEPT !.items = Without(@, w), !.buckets[b].chain = Without(@, w)]
      BY <1>2, <2>1, <3>1 DEF HASH_DELETE
    <3>3. t = [items |-> t.items, buckets |-> t.buckets, ineff_expands |-> t.ineff_expands] BY DEF TableOK
    <3> QED BY <3>2, <3>3
  <2>3. ChainOf(t.items, Elements(t.items)) BY DEF TableOK, ChainOf
  <2>4. ChainOf(Without(t.items, w), Elements(t.items) \ {w}) BY <2>3, ChainWithout
  <2>5. u.items = Without(t.items, w) BY <2>2
  <2> QED BY <2>1, <2>2, <2>4, <2>5 DEF TableOK, ChainOf
<1> QED BY <1>1, <1>2

----------------------------------------------------------------------------
(* A table finds its windows. *)

\* The buckets of a table hold its items; a table without items is none.
TableHolds(t) ==
  \/ t = NULL
  \/ t.items # <<>> /\ BucketsOf(t.buckets, num_buckets(t), Elements(t.items))

LEMMA TableAddsHold ==
  ASSUME NEW t, TableOK(t), TableHolds(t), NEW w \in Wins, w \notin Elements(t.items)
  PROVE  TableHolds(HASH_ADD_KEYPTR(t, w))
<1>1. PICK r : r = IF t = NULL THEN HASH_MAKE_TABLE ELSE t OBVIOUS
<1>2. r = [items |-> r.items, buckets |-> r.buckets, ineff_expands |-> r.ineff_expands] /\ r.items = t.items
  BY <1>1 DEF TableOK, HASH_MAKE_TABLE, NULL
<1>3. BucketsOf(r.buckets, num_buckets(r), Elements(t.items))
  <2>1. CASE t = NULL
    <3>1. BucketsOf(r.buckets, HASH_INITIAL_NUM_BUCKETS, {}) BY <1>1, <2>1, BucketsMade
    <3>2. Elements(t.items) = {} BY <2>1 DEF NULL, Elements
    <3> QED BY <3>1, <3>2, BucketsLen DEF num_buckets
  <2>2. CASE t # NULL BY <1>1, <2>2 DEF TableHolds
  <2> QED BY <2>1, <2>2
<1>4. PICK a : a = [r EXCEPT !.items = Append(@, w)] OBVIOUS
<1>5. a = [items |-> Append(t.items, w), buckets |-> r.buckets, ineff_expands |-> r.ineff_expands]
  BY <1>2, <1>4
<1>6. PICK n : n = num_buckets(r) OBVIOUS
<1>7. PICK b : b = HASH_TO_BKT(w, n) OBVIOUS
<1>8. HASH_ADD_KEYPTR(t, w) = HASH_ADD_TO_BKT(a, w, b) BY <1>1, <1>4, <1>6, <1>7 DEF HASH_ADD_KEYPTR
<1>9. PICK c : c = [a EXCEPT !.buckets[b].chain = <<w>> \o @] OBVIOUS
<1>10. c.buckets = [r.buckets EXCEPT ![b].chain = <<w>> \o @] BY <1>5, <1>9
<1>11. BucketsOf(c.buckets, n, Elements(t.items) \union {w})
  BY <1>3, <1>6, <1>7, <1>10, BucketsAdd
<1>12. num_buckets(c) = n BY <1>11, BucketsLen DEF num_buckets
<1>13. PICK u : u = HASH_ADD_KEYPTR(t, w) OBVIOUS
<1>14. u \in {c, HASH_EXPAND_BUCKETS(c)} BY <1>8, <1>9, <1>13 DEF HASH_ADD_TO_BKT
<1>15. Elements(u.items) = Elements(t.items) \union {w} BY <1>13, TableAdds
<1>16. \E m : BucketsOf(u.buckets, m, Elements(u.items))
  <2>1. CASE u = c BY <1>11, <1>15, <2>1
  <2>2. CASE u = HASH_EXPAND_BUCKETS(c) BY <1>11, <1>12, <1>15, <2>2, BucketsExpand
  <2> QED BY <1>14, <2>1, <2>2
<1>17. u.items # <<>> BY <1>15 DEF Elements
<1> QED BY <1>13, <1>16, <1>17, BucketsLen DEF TableHolds, num_buckets

LEMMA TableDeletesHold ==
  ASSUME NEW t, TableOK(t), TableHolds(t), NEW w \in Wins, w \in Elements(t.items)
  PROVE  TableHolds(HASH_DELETE(t, w))
<1>1. CASE t.items = <<w>> BY <1>1 DEF HASH_DELETE, TableHolds
<1>2. CASE t.items # <<w>>
  <2>1. PICK u : u = HASH_DELETE(t, w) OBVIOUS
  <2>2. t # NULL BY DEF NULL, Elements
  <2>3. PICK n : n = num_buckets(t) /\ BucketsOf(t.buckets, n, Elements(t.items)) BY <2>2 DEF TableHolds
  <2>4. PICK b : b = HASH_TO_BKT(w, n) OBVIOUS
  <2>5. u.buckets = [t.buckets EXCEPT ![b].chain = Without(@, w)]
    <3>1. u = [t EXCEPT !.items = Without(@, w), !.buckets[b].chain = Without(@, w)]
      BY <1>2, <2>1, <2>3, <2>4 DEF HASH_DELETE
    <3>2. t = [items |-> t.items, buckets |-> t.buckets, ineff_expands |-> t.ineff_expands] BY DEF TableOK
    <3> QED BY <3>1, <3>2
  <2>6. BucketsOf(u.buckets, n, Elements(t.items) \ {w}) BY <2>3, <2>4, <2>5, BucketsDelete
  <2>7. Elements(u.items) = Elements(t.items) \ {w} BY <2>1, TableDeletes
  <2>8. ASSUME \A x \in Elements(t.items) : x = w PROVE FALSE
    <3>1. t.items \in Seq(Wins) BY DEF TableOK
    <3>2. PICK l \in Nat : l = Len(t.items) BY <3>1
    <3>3. \A i \in 1 .. l : t.items[i] = w BY <2>8, <3>2 DEF Elements
    <3>4. l # 0 BY <3>2 DEF Elements
    <3>5. ~ l >= 2
      <4>1. ASSUME l >= 2 PROVE FALSE
        <5>1. 1 \in 1 .. l /\ 2 \in 1 .. l BY <4>1
        <5>2. t.items[1] = t.items[2] BY <3>3, <5>1
        <5> QED BY <3>2, <5>1, <5>2 DEF TableOK
      <4> QED BY <4>1
    <3>6. l = 1 BY <3>4, <3>5
    <3>7. t.items = <<w>>
      <4>1. PICK s \in Seq(Wins) : s = t.items BY <3>1
      <4>2. Len(s) = 1 /\ s[1] = w
        <5>1. 1 \in 1 .. l BY <3>6
        <5> QED BY <3>2, <3>3, <3>6, <4>1, <5>1
      <4>3. s = <<w>> BY <4>2
      <4> QED BY <4>1, <4>3
    <3> QED BY <1>2, <3>7
  <2>9. u.items # <<>> BY <2>7, <2>8 DEF Elements
  <2> QED BY <2>1, <2>6, <2>7, <2>9, BucketsLen DEF TableHolds, num_buckets
<1> QED BY <1>1, <1>2

LEMMA TableFinds ==
  ASSUME NEW t, TableOK(t), TableHolds(t) PROVE TableSound(t, Wins)
<1>1. CASE t = NULL
  <2>1. Elements(t.items) = {} /\ num_buckets(t) = 0 BY <1>1 DEF NULL, Elements, num_buckets
  <2> QED BY <1>1, <2>1 DEF TableSound, HASH_FIND
<1>2. CASE t # NULL
  <2>1. PICK n : n = num_buckets(t) /\ BucketsOf(t.buckets, n, Elements(t.items)) BY <1>2 DEF TableHolds
  <2>2. n \in Nat \ {0} /\ \A b \in 1 .. n : ChainOf(t.buckets[b].chain, InBucket(Elements(t.items), n, b))
    BY <2>1 DEF BucketsOf
  <2>3. \A b \in 1 .. n : Elements(t.buckets[b].chain) = InBucket(Elements(t.items), n, b)
    BY <2>2 DEF ChainOf
  <2>4. ASSUME NEW k \in Wins PROVE HASH_FIND(t, k) <=> k \in Elements(t.items)
    <3>1. HASH_TO_BKT(k, n) \in 1 .. n BY <2>2, BucketType
    <3>2. HASH_FIND(t, k) <=> k \in InBucket(Elements(t.items), n, HASH_TO_BKT(k, n))
      BY <1>2, <2>1, <2>3, <3>1 DEF HASH_FIND
    <3> QED BY <3>2 DEF InBucket
  <2>5. ASSUME NEW b \in 1 .. n
        PROVE  Elements(t.buckets[b].chain) \subseteq Elements(t.items) /\ IsInjective(t.buckets[b].chain)
    <3>1. Elements(t.buckets[b].chain) \subseteq Elements(t.items) BY <2>3 DEF InBucket
    <3>2. t.buckets[b].chain \in Seq(Wins)
          /\ \A i, j \in 1 .. Len(t.buckets[b].chain) :
               t.buckets[b].chain[i] = t.buckets[b].chain[j] => i = j
      BY <2>2 DEF ChainOf
    <3> QED BY <3>1, <3>2 DEF IsInjective
  <2>6. ASSUME NEW b \in 1 .. n, NEW c \in 1 .. n, b # c
        PROVE  Elements(t.buckets[b].chain) \intersect Elements(t.buckets[c].chain) = {}
    BY <2>3, <2>6 DEF InBucket
  <2> QED BY <2>1, <2>4, <2>5, <2>6 DEF TableSound
<1> QED BY <1>1, <1>2

----------------------------------------------------------------------------
(* The first window of a table. *)

\* A set of items of a table has a first one.
LEMMA FirstIs ==
  ASSUME NEW p \in Procs, TableOK(state_htbl[p]), NEW W \in SUBSET Listed(p)
  PROVE  /\ W = {} => First(p, W) = {}
         /\ W # {} => \E w \in W : First(p, W) = {w}
<1>1. PICK t : t = state_htbl[p].items /\ t \in Seq(Wins) BY DEF TableOK
<1>2. First(p, W) = {t[i] : i \in {j \in 1 .. Len(t) : t[j] \in W /\ \A k \in 1 .. j - 1 : t[k] \notin W}}
  BY <1>1 DEF First
<1>3. CASE W = {} BY <1>2, <1>3
<1>4. CASE W # {}
  <2> DEFINE S == {j \in 1 .. Len(t) : t[j] \in W}
  <2>1. S \in SUBSET Nat /\ Len(t) \in Nat BY <1>1
  <2>2. S # {} BY <1>1, <1>4 DEF Listed, Elements
  <2>3. PICK i \in S : \A j \in S : i <= j BY <2>1, <2>2, LeastNat
  <2>4. i \in 1 .. Len(t) /\ t[i] \in W /\ \A k \in 1 .. i - 1 : t[k] \notin W
    BY <2>1, <2>3
  <2>5. ASSUME NEW j \in 1 .. Len(t), t[j] \in W, \A k \in 1 .. j - 1 : t[k] \notin W PROVE j = i
    BY <2>1, <2>3, <2>4, <2>5
  <2>6. First(p, W) = {t[i]} BY <1>2, <2>4, <2>5
  <2> QED BY <1>4, <2>4, <2>6
<1> QED BY <1>3, <1>4

----------------------------------------------------------------------------
(* The tables hold the windows that exist. *)

TablesInv ==
  /\ state_htbl = [p \in Procs |-> state_htbl[p]]
  /\ \A p \in Procs : TableOK(state_htbl[p]) /\ Listed(p) = {w \in Wins : Live(p, w)}

\* Only MPI_Win_create and MPI_Win_free touch the table.
LEMMA TableEffect ==
  ASSUME [Next]_vars
  PROVE  \/ \E p \in Procs, w \in Wins :
              Start(p, w) /\ state_htbl' = [state_htbl EXCEPT ![p] = HASH_ADD_KEYPTR(@, w)]
         \/ \E p \in Procs, w \in Wins :
              Stop(p, w) /\ state_htbl' = [state_htbl EXCEPT ![p] = HASH_DELETE(@, w)]
         \/ UNCHANGED <<state_htbl, mpi_tag>>
<1>1. CASE UNCHANGED vars BY <1>1 DEF vars, tagVars
<1>2. CASE Reduce BY <1>2 DEF Reduce, tagVars
<1>3. ASSUME NEW p \in Procs, EnterBarrier(p) \/ Restart(p) \/ LeaveBarrier(p)
      PROVE  UNCHANGED <<state_htbl, mpi_tag>>
  BY <1>3 DEF EnterBarrier, Restart, InitThreads, Epoch, LeaveBarrier, tagVars
<1>4. ASSUME NEW p \in Procs, NEW w \in Wins, Create(p, w)
      PROVE  Start(p, w) /\ state_htbl' = [state_htbl EXCEPT ![p] = HASH_ADD_KEYPTR(@, w)]
  BY <1>4 DEF Create
<1>5. ASSUME NEW p \in Procs, NEW w \in Wins, WinFree(p, w)
      PROVE  Stop(p, w) /\ state_htbl' = [state_htbl EXCEPT ![p] = HASH_DELETE(@, w)]
  BY <1>5 DEF WinFree
<1>6. ASSUME NEW p \in Procs, NEW w \in Wins, Open(p, w) \/ Close(p, w) \/ Join(p, w)
      PROVE  UNCHANGED <<state_htbl, mpi_tag>>
  BY <1>6 DEF Open, InitThreads, Epoch, Close, Join, tagVars
<1>7. ASSUME NEW p \in Procs, NEW q \in Procs, NEW w \in Wins, Put(p, q, w)
      PROVE  UNCHANGED <<state_htbl, mpi_tag>>
  BY <1>7 DEF Put, tagVars
<1>8. ASSUME NEW p \in Procs, NEW w \in Wins,
             PostRecv(p, w) \/ (\E m \in net : Receive(p, w, m)) \/ Exit(p, w)
      PROVE  UNCHANGED <<state_htbl, mpi_tag>>
  BY <1>8 DEF PostRecv, Receive, Exit, tagVars
<1>9. CASE Terminating BY <1>9 DEF Terminating, vars, tagVars
<1> QED BY <1>1, <1>2, <1>3, <1>4, <1>5, <1>6, <1>7, <1>8, <1>9 DEF Next

LEMMA TablesInit == ASSUME Init PROVE TablesInv
<1>1. PICK e : e = NULL OBVIOUS
<1>2. state_htbl = [p \in Procs |-> e] BY <1>1 DEF Init
<1>3. e = [items |-> e.items, buckets |-> e.buckets, ineff_expands |-> e.ineff_expands] /\ e.items = <<>>
  BY <1>1 DEF NULL
<1>4. TableOK(e) /\ Elements(e.items) = {} BY <1>3 DEF TableOK, Elements
<1>5. \A p \in Procs : state_htbl[p] = e BY <1>2
<1>6. \A p \in Procs : Listed(p) = {} BY <1>4, <1>5 DEF Listed
<1>7. \A p \in Procs, w \in Wins : ~ Live(p, w) BY DEF Init, TagInit, Live
<1>8. state_htbl = [p \in Procs |-> state_htbl[p]] BY <1>2
<1> QED BY <1>4, <1>5, <1>6, <1>7, <1>8 DEF TablesInv

LEMMA TablesStep ==
  ASSUME TagTypeOK, TablesInv, [Next]_vars PROVE TablesInv'
<1>1. mpi_tag \in [Procs -> [Wins -> {NoTag} \union FirstTags]] BY DEF TagTypeOK
<1>2. ASSUME NEW p \in Procs, NEW w \in Wins, NEW t, NEW x,
             state_htbl' = [state_htbl EXCEPT ![p] = t], TableOK(t),
             Elements(t.items) = {v \in Wins : mpi_tag'[p][v] # NoTag},
             mpi_tag' = [mpi_tag EXCEPT ![p][w] = x]
      PROVE  TablesInv'
  <2>1. state_htbl'[p] = t /\ \A q \in Procs \ {p} : state_htbl'[q] = state_htbl[q]
    BY <1>2 DEF TablesInv
  <2>2. \A q \in Procs \ {p} : mpi_tag'[q] = mpi_tag[q] BY <1>1, <1>2
  <2>3. state_htbl' = [q \in Procs |-> state_htbl'[q]] BY <1>2 DEF TablesInv
  <2>4. TableOK(state_htbl'[p]) /\ Listed(p)' = {v \in Wins : Live(p, v)'}
    BY <1>2, <2>1 DEF Listed, Live
  <2>5. \A q \in Procs \ {p} : TableOK(state_htbl'[q]) /\ Listed(q)' = {v \in Wins : Live(q, v)'}
    BY <2>1, <2>2 DEF TablesInv, Listed, Live
  <2> QED BY <2>3, <2>4, <2>5 DEF TablesInv
<1>3. ASSUME NEW p \in Procs, NEW w \in Wins, Start(p, w),
             state_htbl' = [state_htbl EXCEPT ![p] = HASH_ADD_KEYPTR(@, w)]
      PROVE  TablesInv'
  <2>1. PICK t : t = HASH_ADD_KEYPTR(state_htbl[p], w) OBVIOUS
  <2>2. ~ Live(p, w) /\ TableOK(state_htbl[p]) /\ Elements(state_htbl[p].items) = {v \in Wins : Live(p, v)}
    BY <1>3 DEF Start, TablesInv, Listed
  <2>3. TableOK(t) /\ Elements(t.items) = Elements(state_htbl[p].items) \union {w}
    BY <2>1, <2>2, TableAdds
  <2>4. PICK x : mpi_tag' = [mpi_tag EXCEPT ![p][w] = x] /\ x = Tag(get_tag_range_id(p)) BY <1>3 DEF Start
  <2>5. x # NoTag BY <2>4, RangeIsFree, TagsOfRanges
  <2>6. Elements(t.items) = {v \in Wins : mpi_tag'[p][v] # NoTag}
    BY <1>1, <2>2, <2>3, <2>4, <2>5 DEF Live
  <2>7. state_htbl' = [state_htbl EXCEPT ![p] = t] BY <1>3, <2>1
  <2> QED BY <1>2, <2>3, <2>4, <2>6, <2>7
<1>4. ASSUME NEW p \in Procs, NEW w \in Wins, Stop(p, w),
             state_htbl' = [state_htbl EXCEPT ![p] = HASH_DELETE(@, w)]
      PROVE  TablesInv'
  <2>1. PICK t : t = HASH_DELETE(state_htbl[p], w) OBVIOUS
  <2>2. Live(p, w) /\ TableOK(state_htbl[p]) /\ Elements(state_htbl[p].items) = {v \in Wins : Live(p, v)}
    BY <1>4 DEF Stop, TablesInv, Listed
  <2>3. TableOK(t) /\ Elements(t.items) = Elements(state_htbl[p].items) \ {w}
    BY <2>1, <2>2, TableDeletes
  <2>4. mpi_tag' = [mpi_tag EXCEPT ![p][w] = NoTag] BY <1>4 DEF Stop
  <2>5. Elements(t.items) = {v \in Wins : mpi_tag'[p][v] # NoTag}
    BY <1>1, <2>2, <2>3, <2>4 DEF Live
  <2>6. state_htbl' = [state_htbl EXCEPT ![p] = t] BY <1>4, <2>1
  <2> QED BY <1>2, <2>3, <2>4, <2>5, <2>6
<1>5. CASE UNCHANGED <<state_htbl, mpi_tag>> BY <1>5 DEF TablesInv, Listed, Live
<1> QED BY <1>3, <1>4, <1>5, TableEffect

----------------------------------------------------------------------------
(* Types of what a process keeps of its windows. *)

StateTypes ==
  /\ pc \in [Procs -> {"run", "reduce", "join", "restart", "sync"}]
  /\ clearing \in [Procs -> SUBSET Wins] /\ entered \in [Procs -> 0 .. MaxOps]
  /\ open \in [Procs -> SUBSET Wins]
  /\ active_epoch \in [Procs -> [Wins -> 0 .. 1]] /\ from_sync \in [Procs -> [Wins -> 0 .. 1]]
  /\ value \in [Procs -> [Wins -> Nat]] /\ count \in [Procs -> [Wins -> Nat]]
  /\ array \in [Procs -> [Wins -> [Procs -> 0 .. MaxSend]]]
  /\ thr \in [Procs -> [Wins -> {"none", "post", "poll", "done"}]]
  /\ tag \in [Procs -> [Wins -> Int]] /\ halted \in BOOLEAN

Messages == [src : Procs, dst : Procs, tag : Int, win : Wins, life : Nat, epoch : Nat,
             seq : 1 .. MaxSend]

NetTypes == net \subseteq Messages /\ IsFiniteSet(net)

\* The number of times the calls up to the kth create w.
Births(calls, k, w) == Cardinality({i \in 1 .. k : calls[i] = <<"create", w>>})

LEMMA BirthsType ==
  ASSUME NEW calls, NEW k \in Int, NEW w PROVE Births(calls, k, w) \in Nat
<1>1. IsFiniteSet(1 .. k) BY FS_Interval
<1>2. IsFiniteSet({i \in 1 .. k : calls[i] = <<"create", w>>}) BY <1>1, FS_Subset
<1> QED BY <1>2, FS_CardinalityType DEF Births

LEMMA LifeIs == ASSUME NEW p, NEW w PROVE Life(p, w) = Births(program, pos[p], w)
BY DEF Life, Births

LEMMA EpochTagType ==
  ASSUME TagTypeOK, NEW p \in Procs, NEW w \in Wins
  PROVE  EpochTag(p, w) \in Int /\ count_epoch[p][w] \in Nat /\ mpi_tag[p][w] \in Int
<1>1. mpi_tag[p][w] \in {NoTag} \union FirstTags /\ count_epoch[p][w] \in 0 .. MaxEpochs
  BY DEF TagTypeOK
<1>2. /\ RMA_ANALYZER_BASE_MPI_TAG \in Nat /\ RMA_ANALYZER_MAX_EPOCH_NUMBER \in Nat \ {0}
      /\ RMA_ANALYZER_MAX_WIN \in Nat \ {0} /\ MaxEpochs \in Nat
  BY TagAssumption
<1>3. NoTag \in Int /\ FirstTags \subseteq Int BY <1>2 DEF NoTag, FirstTags
<1>4. mpi_tag[p][w] \in Int BY <1>1, <1>3
<1>5. count_epoch[p][w] \in Nat BY <1>1, <1>2
<1> QED BY <1>4, <1>5 DEF EpochTag

LEMMA GivenFinite ==
  ASSUME NEW p PROVE IsFiniteSet(Given(p)) /\ Cardinality(Given(p)) \in Nat
<1>1. IsFiniteSet(Procs) /\ IsFiniteSet(1 .. MaxSend)
  BY WindowsAssumption, FS_Interval
<1>2. IsFiniteSet(Procs \X (1 .. MaxSend)) BY <1>1, FS_Product
<1>3. Given(p) \subseteq Procs \X (1 .. MaxSend) BY DEF Given
<1> QED BY <1>2, <1>3, FS_Subset, FS_CardinalityType

LEMMA FirstType ==
  ASSUME TablesInv, NEW p \in Procs, NEW W PROVE First(p, W) \in SUBSET Wins
<1>1. state_htbl[p].items \in Seq(Wins) BY DEF TablesInv, TableOK
<1> QED BY <1>1 DEF First

LEMMA StateInit == ASSUME Init PROVE StateTypes /\ NetTypes
<1>1. MaxSend \in Nat /\ MaxOps \in Nat BY WindowsAssumption, TagAssumption
<1>2. IsFiniteSet({}) BY FS_EmptySet
<1>3. PICK z : z = [p \in Procs |-> [w \in Wins |-> 0]] OBVIOUS
<1>4. z \in [Procs -> [Wins -> 0 .. 1]] /\ z \in [Procs -> [Wins -> Nat]] /\ z \in [Procs -> [Wins -> Int]]
  BY <1>3
<1>5. /\ active_epoch = z /\ from_sync = z /\ value = z /\ count = z /\ tag = z
      /\ array = [p \in Procs |-> [w \in Wins |-> [q \in Procs |-> 0]]]
      /\ thr = [p \in Procs |-> [w \in Wins |-> "none"]]
      /\ pc = [p \in Procs |-> "run"] /\ clearing = [p \in Procs |-> {}] /\ halted = FALSE
      /\ entered = [p \in Procs |-> 0] /\ open = [p \in Procs |-> {}]
  BY <1>3 DEF Init, Zero
<1>6. StateTypes
  <2>1. array \in [Procs -> [Wins -> [Procs -> 0 .. MaxSend]]]
    <3>1. [q \in Procs |-> 0] \in [Procs -> 0 .. MaxSend] BY <1>1
    <3> QED BY <1>5, <3>1
  <2>2. thr \in [Procs -> [Wins -> {"none", "post", "poll", "done"}]] BY <1>5
  <2>3. /\ pc \in [Procs -> {"run", "reduce", "join", "restart", "sync"}]
        /\ clearing \in [Procs -> SUBSET Wins] /\ entered \in [Procs -> 0 .. MaxOps]
        /\ open \in [Procs -> SUBSET Wins]
    BY <1>1, <1>5
  <2>4. halted \in BOOLEAN BY <1>5, Zenon
  <2> QED BY <1>4, <1>5, <2>1, <2>2, <2>3, <2>4 DEF StateTypes
<1>7. NetTypes BY <1>2 DEF Init, NetTypes
<1> QED BY <1>6, <1>7

\* What rma_analyzer_init_comm_check_thread does to the types.
LEMMA InitThreadsTypes ==
  ASSUME StateTypes, NEW p \in Procs, NEW W, InitThreads(p, W)
  PROVE  /\ array' \in [Procs -> [Wins -> [Procs -> 0 .. MaxSend]]]
         /\ active_epoch' \in [Procs -> [Wins -> 0 .. 1]]
         /\ thr' \in [Procs -> [Wins -> {"none", "post", "poll", "done"}]]
<1>1. MaxSend \in Nat BY WindowsAssumption
<1>2. [w \in Wins |-> IF w \in W THEN [q \in Procs |-> 0] ELSE array[p][w]]
        \in [Wins -> [Procs -> 0 .. MaxSend]]
  BY <1>1 DEF StateTypes
<1>3. [w \in Wins |-> IF w \in W THEN 1 ELSE active_epoch[p][w]] \in [Wins -> 0 .. 1]
  BY DEF StateTypes
<1>4. [w \in Wins |-> IF w \in W THEN "post" ELSE thr[p][w]] \in [Wins -> {"none", "post", "poll", "done"}]
  BY DEF StateTypes
<1> QED BY <1>2, <1>3, <1>4 DEF InitThreads, StateTypes

LEMMA StateStep ==
  ASSUME TagTypeOK, TablesInv, StateTypes, [Next]_vars PROVE StateTypes'
<1> USE DEF StateTypes
<1>1. CASE UNCHANGED vars BY <1>1 DEF vars, tagVars, appVars, stateVars, threadVars
<1>2. CASE Reduce
  <2>1. \A p \in Procs : Cardinality(Given(p)) \in Nat BY GivenFinite
  <2>2. value' \in [Procs -> [Wins -> Nat]] BY <1>2, <2>1 DEF Reduce
  <2> QED BY <1>2, <2>2 DEF Reduce, tagVars, appVars, threadVars
<1>3. ASSUME NEW p \in Procs, EnterBarrier(p) PROVE StateTypes'
  <2>1. First(p, Active(p)) \in SUBSET Wins BY FirstType
  <2> QED BY <1>3, <2>1 DEF EnterBarrier, stateVars, threadVars
<1>4. ASSUME NEW p \in Procs, Restart(p) PROVE StateTypes'
  <2>1. pos[p] \in 0 .. MaxOps BY DEF TagTypeOK
  <2>2. InitThreads(p, ToRestart(p)) BY <1>4 DEF Restart
  <2> QED BY <1>4, <2>1, <2>2, InitThreadsTypes DEF Restart
<1>5. ASSUME NEW p \in Procs, LeaveBarrier(p) PROVE StateTypes'
  BY <1>5 DEF LeaveBarrier, stateVars, threadVars
<1>6. ASSUME NEW p \in Procs, NEW w \in Wins, Create(p, w) PROVE StateTypes'
  BY <1>6 DEF Create, appVars
<1>7. ASSUME NEW p \in Procs, NEW w \in Wins, WinFree(p, w) PROVE StateTypes'
  BY <1>7 DEF WinFree, appVars, stateVars, threadVars
<1>8. ASSUME NEW p \in Procs, NEW w \in Wins, Open(p, w) PROVE StateTypes'
  <2>1. InitThreads(p, {w}) BY <1>8 DEF Open
  <2> QED BY <1>8, <2>1, InitThreadsTypes DEF Open, appVars
<1>9. ASSUME NEW p \in Procs, NEW w \in Wins, Close(p, w) PROVE StateTypes'
  BY <1>9 DEF Close, stateVars, threadVars
<1>10. ASSUME NEW p \in Procs, NEW w \in Wins, Join(p, w) PROVE StateTypes'
  <2>1. First(p, Left(p, w)) \in SUBSET Wins BY FirstType
  <2>2. AfterJoin(p, w) \in {"run", "reduce", "restart"} BY DEF AfterJoin
  <2> QED BY <1>10, <2>1, <2>2 DEF Join
<1>11. ASSUME NEW p \in Procs, NEW q \in Procs, NEW w \in Wins, Put(p, q, w) PROVE StateTypes'
  <2>1. MaxSend \in Nat BY WindowsAssumption
  <2>2. array[p][w][q] + 1 \in 0 .. MaxSend BY <1>11, <2>1 DEF Put
  <2> QED BY <1>11, <2>2 DEF Put, appVars, stateVars, threadVars
<1>12. ASSUME NEW p \in Procs, NEW w \in Wins, PostRecv(p, w) PROVE StateTypes'
  <2>1. EpochTag(p, w) \in Int BY EpochTagType
  <2> QED BY <1>12, <2>1 DEF PostRecv, appVars, stateVars
<1>13. ASSUME NEW p \in Procs, NEW w \in Wins, NEW m, Receive(p, w, m) PROVE StateTypes'
  BY <1>13 DEF Receive, appVars, stateVars
<1>14. ASSUME NEW p \in Procs, NEW w \in Wins, Exit(p, w) PROVE StateTypes'
  BY <1>14 DEF Exit, appVars, stateVars
<1>15. CASE Terminating BY <1>1, <1>15 DEF Terminating
<1> QED
  BY <1>1, <1>2, <1>3, <1>4, <1>5, <1>6, <1>7, <1>8, <1>9, <1>10, <1>11, <1>12, <1>13, <1>14, <1>15
  DEF Next

LEMMA NetStep ==
  ASSUME TagTypeOK, StateTypes, NetTypes, [Next]_vars PROVE NetTypes'
<1>1. ASSUME NEW p \in Procs, NEW q \in Procs, NEW w \in Wins, Put(p, q, w) PROVE NetTypes'
  <2>1. PICK m : m = [src |-> p, dst |-> q, tag |-> EpochTag(p, w), win |-> w, life |-> Life(p, w),
                      epoch |-> count_epoch[p][w], seq |-> array[p][w][q] + 1]
    OBVIOUS
  <2>2. net' = net \union {m} BY <1>1, <2>1 DEF Put
  <2>3. pos[p] \in Int BY DEF TagTypeOK
  <2>4. Life(p, w) \in Nat BY <2>3, BirthsType, LifeIs
  <2>5. array[p][w][q] + 1 \in 1 .. MaxSend
    <3>1. array[p][w][q] \in 0 .. MaxSend /\ MaxSend \in Nat BY WindowsAssumption DEF StateTypes
    <3> QED BY <1>1, <3>1 DEF Put
  <2>6. m \in Messages BY <2>1, <2>4, <2>5, EpochTagType DEF Messages
  <2> QED BY <2>2, <2>6, FS_AddElement DEF NetTypes
<1>2. ASSUME NEW m, net' = net \ {m} PROVE NetTypes' BY <1>2, FS_RemoveElement, FS_Subset DEF NetTypes
<1>3. CASE UNCHANGED net BY <1>3 DEF NetTypes
<1>4. \/ \E p \in Procs, q \in Procs, w \in Wins : Put(p, q, w)
      \/ \E m : net' = net \ {m}
      \/ UNCHANGED net
  <2>1. CASE Reduce BY <2>1 DEF Reduce
  <2>2. ASSUME NEW p \in Procs, EnterBarrier(p) \/ Restart(p) \/ LeaveBarrier(p) PROVE UNCHANGED net
    BY <2>2 DEF EnterBarrier, Restart, LeaveBarrier
  <2>3. ASSUME NEW p \in Procs, NEW w \in Wins,
               Create(p, w) \/ WinFree(p, w) \/ Open(p, w) \/ Close(p, w) \/ Join(p, w)
        PROVE UNCHANGED net
    BY <2>3 DEF Create, WinFree, Open, Close, Join
  <2>4. ASSUME NEW p \in Procs, NEW w \in Wins, PostRecv(p, w) \/ Exit(p, w) PROVE UNCHANGED net
    BY <2>4 DEF PostRecv, Exit
  <2>5. ASSUME NEW p \in Procs, NEW w \in Wins, NEW m \in net, Receive(p, w, m) PROVE net' = net \ {m}
    BY <2>5 DEF Receive
  <2>6. CASE Terminating \/ UNCHANGED vars BY <2>6 DEF Terminating, vars
  <2> QED BY <2>1, <2>2, <2>3, <2>4, <2>5, <2>6 DEF Next
<1> QED BY <1>1, <1>2, <1>3, <1>4

----------------------------------------------------------------------------
(* What a process does with its windows, call by call. *)

\* The process has yet to end or restart the epochs of its windows for a barrier.
AtBarrier(p) == pc[p] \in {"reduce", "join", "restart"} /\ program[pos[p]] = Barrier

\* In a clear, the window being cleared is in an epoch.  The windows the program
\* is in an epoch of have one for the analyzer; in a barrier, they have one or
\* have been cleared, which from_sync says.  If the program is disciplined, it is
\* the other way round as well.
WindowsOf(p) ==
  /\ open[p] \subseteq Listed(p)
  /\ pc[p] \in {"reduce", "join"} => \E w \in Wins : clearing[p] = {w} /\ active_epoch[p][w] = 1
  /\ pc[p] \notin {"reduce", "join"} => clearing[p] = {}
  /\ pc[p] \in {"reduce", "join"} /\ program[pos[p]] # Barrier =>
       \E w \in Wins : program[pos[p]] = <<"close", w>> /\ (InOrder => clearing[p] = {w})
  /\ pc[p] \in {"reduce", "join", "restart"} => pos[p] > 0
  /\ pc[p] = "restart" => program[pos[p]] = Barrier /\ \A w \in Wins : active_epoch[p][w] = 0
  /\ \A w \in Wins :
       /\ active_epoch[p][w] = 1 => w \in Listed(p) /\ count_epoch[p][w] > 0
       /\ w \in open[p] => active_epoch[p][w] = 1 \/ (AtBarrier(p) /\ from_sync[p][w] = 1)
       /\ Disciplined /\ active_epoch[p][w] = 1 => w \in open[p]
       /\ Disciplined /\ AtBarrier(p) /\ from_sync[p][w] = 1 /\ w \in Listed(p) => w \in open[p]

\* A window in an epoch has its checking thread, which listens to the tag of
\* the epoch and stops only in the clear of the window.
ThreadsOf(p) ==
  \A w \in Wins :
    /\ thr[p][w] = "none" <=> active_epoch[p][w] = 0
    /\ thr[p][w] = "done" => thread_end(p, w)
    /\ thr[p][w] = "poll" => tag[p][w] = EpochTag(p, w)
    /\ thr[p][w] \in {"none", "done"} => count[p][w] = 0

Placed == \A p \in Procs : pos[p] <= Len(program)

HandlersInv == Placed /\ \A p \in Procs : WindowsOf(p) /\ ThreadsOf(p)

\* The calls a process has made stay where they are in the program.
LEMMA ProgramGrows ==
  ASSUME TagTypeOK, Placed, [Next]_vars
  PROVE  /\ Placed' /\ Len(program) <= Len(program')
         /\ \A k \in 1 .. Len(program) : program'[k] = program[k]
<1>1. pos \in [Procs -> 0 .. MaxOps] /\ Len(program) \in Nat /\ MaxOps \in Nat
  BY TagAssumption DEF TagTypeOK
<1>2. ASSUME NEW p \in Procs, NEW op \in Calls, Follow(p, op)
      PROVE  /\ Placed' /\ Len(program) <= Len(program')
             /\ \A k \in 1 .. Len(program) : program'[k] = program[k]
  <2>1. /\ Len(program') \in Nat /\ pos[p] < Len(program') /\ Len(program) <= Len(program')
        /\ \A k \in 1 .. Len(program) : program'[k] = program[k]
        /\ pos'[p] = pos[p] + 1 /\ \A q \in Procs \ {p} : pos'[q] = pos[q]
    BY <1>2, FollowTypes
  <2>2. \A q \in Procs : pos'[q] <= Len(program') BY <1>1, <2>1 DEF Placed
  <2> QED BY <2>1, <2>2 DEF Placed
<1>3. CASE Rests BY <1>1, <1>3 DEF Rests, Placed
<1>4. ASSUME NEW p \in Procs, NEW w \in Wins, Starts(p, w) \/ Stops(p, w)
      PROVE  \E op \in Calls : Follow(p, op)
  BY <1>4 DEF Starts, Stops, Follow
<1> QED BY <1>2, <1>3, <1>4, TagEffect DEF Goes

\* What stays of the windows of a process that does nothing to them.
SameWindows(q) ==
  /\ pc'[q] = pc[q] /\ clearing'[q] = clearing[q] /\ open'[q] = open[q]
  /\ state_htbl'[q] = state_htbl[q] /\ win_mpi_tag_id'[q] = win_mpi_tag_id[q] /\ mpi_tag'[q] = mpi_tag[q]
  /\ active_epoch'[q] = active_epoch[q] /\ from_sync'[q] = from_sync[q]
  /\ count_epoch'[q] = count_epoch[q] /\ pos'[q] = pos[q]

SameThreads(q) ==
  /\ pc'[q] = pc[q] /\ clearing'[q] = clearing[q] /\ active_epoch'[q] = active_epoch[q]
  /\ thr'[q] = thr[q] /\ tag'[q] = tag[q] /\ count'[q] = count[q]
  /\ mpi_tag'[q] = mpi_tag[q] /\ count_epoch'[q] = count_epoch[q]

LEMMA WindowsKept ==
  ASSUME TagTypeOK, Placed, [Next]_vars, NEW q \in Procs, WindowsOf(q), SameWindows(q)
  PROVE  WindowsOf(q)'
<1>1. pos[q] \in Nat /\ Len(program) \in Nat /\ pos[q] <= Len(program) BY DEF TagTypeOK, Placed
<1>2. pos[q] > 0 => program'[pos'[q]] = program[pos[q]]
  BY <1>1, ProgramGrows DEF SameWindows
<1>3. AtBarrier(q)' <=> AtBarrier(q) BY <1>2 DEF SameWindows, AtBarrier, WindowsOf
<1> QED BY <1>2, <1>3 DEF WindowsOf, SameWindows, Listed

LEMMA ThreadsKept ==
  ASSUME NEW q \in Procs, ThreadsOf(q), SameThreads(q) PROVE ThreadsOf(q)'
BY DEF ThreadsOf, SameThreads, thread_end, EpochTag

LEMMA HandlersInit == ASSUME Init PROVE HandlersInv
<1>1. /\ \A p \in Procs : /\ pos[p] = 0 /\ pc[p] = "run" /\ clearing[p] = {} /\ open[p] = {}
                          /\ \A w \in Wins : /\ active_epoch[p][w] = 0 /\ thr[p][w] = "none"
                                             /\ count[p][w] = 0
      /\ program = <<>>
  BY DEF Init, TagInit, Zero
<1>2. Placed BY <1>1 DEF Placed
<1>3. \A p \in Procs : WindowsOf(p) /\ ThreadsOf(p) BY <1>1 DEF WindowsOf, ThreadsOf, AtBarrier
<1> QED BY <1>2, <1>3 DEF HandlersInv

\* The calls about one window.
LEMMA WindowCalls ==
  ASSUME TagTypeOK, TablesInv, TablesInv', StateTypes, HandlersInv,
         NEW p \in Procs, NEW w \in Wins,
         Create(p, w) \/ WinFree(p, w) \/ Open(p, w) \/ Close(p, w)
  PROVE  WindowsOf(p)' /\ ThreadsOf(p)'
<1>1. /\ Listed(p) = {v \in Wins : Live(p, v)} /\ Listed(p)' = {v \in Wins : Live(p, v)'}
      /\ WindowsOf(p) /\ ThreadsOf(p)
  BY DEF TablesInv, HandlersInv
<1>2. pc[p] = "run" /\ ~ AtBarrier(p) /\ clearing[p] = {}
  BY <1>1 DEF Create, WinFree, Open, Close, Call, AtBarrier, WindowsOf
<1>3. /\ open[p] \subseteq Listed(p)
      /\ \A v \in Wins : /\ active_epoch[p][v] = 1 => v \in Listed(p) /\ count_epoch[p][v] > 0
                         /\ v \in open[p] => active_epoch[p][v] = 1
                         /\ Disciplined /\ active_epoch[p][v] = 1 => v \in open[p]
                         /\ active_epoch[p][v] \in 0 .. 1
  BY <1>1, <1>2 DEF WindowsOf, StateTypes
<1>4. \A v \in Wins : thr[p][v] # "done" BY <1>1, <1>2 DEF ThreadsOf, thread_end
<1>5. mpi_tag \in [Procs -> [Wins -> {NoTag} \union FirstTags]] /\ pos \in [Procs -> 0 .. MaxOps]
      /\ count_epoch \in [Procs -> [Wins -> 0 .. MaxEpochs]] /\ MaxEpochs \in Nat /\ MaxOps \in Nat
  BY TagAssumption DEF TagTypeOK
<1>6. CASE Create(p, w)
  <2>1. /\ pc'[p] = "run" /\ clearing'[p] = {} /\ open'[p] = open[p] /\ thr'[p] = thr[p] /\ tag'[p] = tag[p]
        /\ \A v \in Wins : /\ active_epoch'[p][v] = IF v = w THEN 0 ELSE active_epoch[p][v]
                           /\ count'[p][v] = IF v = w THEN 0 ELSE count[p][v]
    BY <1>2, <1>6 DEF Create, appVars, StateTypes
  <2>2. /\ ~ Live(p, w) /\ \A v \in Wins : v # w => mpi_tag'[p][v] = mpi_tag[p][v]
        /\ \A v \in Wins : v # w => count_epoch'[p][v] = count_epoch[p][v]
    BY <1>5, <1>6 DEF Create, Start
  <2>3. w \notin open[p] BY <1>1, <1>3, <2>2
  <2>4. \A v \in Wins : v # w /\ v \in Listed(p) => v \in Listed(p)' BY <1>1, <2>2 DEF Live
  <2>5. ~ AtBarrier(p)' BY <2>1 DEF AtBarrier
  <2>8. open[p] \subseteq Wins BY DEF StateTypes
  <2>6. WindowsOf(p)' BY <1>3, <2>1, <2>2, <2>3, <2>4, <2>5, <2>8 DEF WindowsOf
  <2>9. active_epoch[p][w] = 0 BY <1>1, <1>3, <2>2
  <2>7. ThreadsOf(p)' BY <1>1, <1>3, <1>4, <2>1, <2>2, <2>3, <2>9 DEF ThreadsOf, EpochTag
  <2> QED BY <2>6, <2>7
<1>7. CASE WinFree(p, w)
  <2>1. /\ pc'[p] = "run" /\ clearing'[p] = {} /\ open'[p] = open[p] /\ thr'[p] = thr[p] /\ tag'[p] = tag[p]
        /\ active_epoch'[p] = active_epoch[p] /\ count'[p] = count[p] /\ w \notin open[p]
        /\ w \notin Strays(p)
    BY <1>2, <1>7 DEF WinFree, appVars, stateVars, threadVars
  <2>2. /\ \A v \in Wins : v # w => mpi_tag'[p][v] = mpi_tag[p][v]
        /\ count_epoch' = count_epoch
    BY <1>5, <1>7 DEF WinFree, Stop
  <2>4. \A v \in Wins : v # w /\ v \in Listed(p) => v \in Listed(p)' BY <1>1, <2>2 DEF Live
  <2>3. active_epoch[p][w] = 0 BY <1>3, <2>1 DEF Strays, Active
  <2>8. open[p] \subseteq Wins BY DEF StateTypes
  <2>5. ~ AtBarrier(p)' BY <2>1 DEF AtBarrier
  <2>6. WindowsOf(p)' BY <1>3, <2>1, <2>2, <2>3, <2>4, <2>5, <2>8 DEF WindowsOf
  <2>7. ThreadsOf(p)' BY <1>1, <1>3, <1>4, <2>1, <2>2, <2>3 DEF ThreadsOf, EpochTag
  <2> QED BY <2>6, <2>7
<1>8. CASE Open(p, w)
  <2>1. /\ pc'[p] = "run" /\ clearing'[p] = {} /\ open'[p] = open[p] \union {w} /\ tag'[p] = tag[p]
        /\ count'[p] = count[p] /\ w \notin open[p] /\ w \in Listed(p) /\ state_htbl' = state_htbl
    BY <1>1, <1>2, <1>8 DEF Open, appVars, StateTypes
  <2>2. mpi_tag' = mpi_tag
        /\ \A v \in Wins : /\ active_epoch'[p][v] = IF v = w THEN 1 ELSE active_epoch[p][v]
                           /\ thr'[p][v] = IF v = w THEN "post" ELSE thr[p][v]
                           /\ count_epoch'[p][v] = IF v = w THEN count_epoch[p][v] + 1 ELSE count_epoch[p][v]
    BY <1>5, <1>8 DEF Open, InitThreads, Epoch, StateTypes
  <2>3. Listed(p)' = Listed(p) BY <2>1 DEF Listed
  <2>4. open'[p] \subseteq Listed(p)' BY <1>1, <1>3, <2>1, <2>3
  <2>5. ~ AtBarrier(p)' BY <2>1 DEF AtBarrier
  <2>6. \A v \in Wins : count_epoch[p][v] \in Nat BY <1>5
  <2>7. WindowsOf(p)' BY <1>3, <2>1, <2>2, <2>3, <2>4, <2>5, <2>6 DEF WindowsOf
  <2>8. ThreadsOf(p)' BY <1>1, <1>3, <1>4, <2>1, <2>2 DEF ThreadsOf, EpochTag
  <2> QED BY <2>7, <2>8
<1>9. CASE Close(p, w)
  <2>1. PICK v \in Wins : Call(p, <<"close", v>>) /\ (InOrder => v = w) BY <1>9 DEF Close
  <2>2. <<"close", v>> \in Calls /\ Follow(p, <<"close", v>>) BY <2>1 DEF Call, Follow
  <2>3. program'[pos[p] + 1] = <<"close", v>> /\ pos'[p] = pos[p] + 1 BY <2>2, FollowTypes
  <2>4. program'[pos'[p]] = <<"close", v>> /\ pos'[p] > 0 BY <1>5, <2>3
  <2>5. <<"close", v>> # Barrier BY DEF Barrier
  <2>6. /\ pc'[p] = "reduce" /\ clearing'[p] = {w} /\ w \in open[p] /\ open'[p] = open[p]
        /\ active_epoch'[p] = active_epoch[p] /\ thr'[p] = thr[p] /\ tag'[p] = tag[p]
        /\ count'[p] = count[p] /\ mpi_tag' = mpi_tag /\ count_epoch' = count_epoch
        /\ state_htbl' = state_htbl
    BY <1>9 DEF Close, stateVars, threadVars, StateTypes
  <2>7. ~ AtBarrier(p)' BY <2>4, <2>5 DEF AtBarrier
  <2>8. Listed(p)' = Listed(p) BY <2>6 DEF Listed
  <2>9. WindowsOf(p)' BY <1>3, <2>1, <2>4, <2>5, <2>6, <2>7, <2>8 DEF WindowsOf
  <2>10. ThreadsOf(p)' BY <1>1, <1>4, <2>6 DEF ThreadsOf, EpochTag
  <2> QED BY <2>9, <2>10
<1> QED BY <1>6, <1>7, <1>8, <1>9

\* A barrier of a disciplined program restarts the epochs the program is in.
LEMMA RestartsOpen ==
  ASSUME Disciplined, TablesInv, StateTypes, HandlersInv, NEW p \in Procs, pc[p] = "restart"
  PROVE  ToRestart(p) = open[p]
<1>1. WindowsOf(p) /\ Listed(p) \subseteq Wins BY DEF TablesInv, HandlersInv
<1>2. AtBarrier(p) /\ \A v \in Wins : active_epoch[p][v] = 0 BY <1>1 DEF WindowsOf, AtBarrier
<1>3. Active(p) = {} BY <1>1, <1>2 DEF Active
<1>4. ToRestart(p) = {v \in Listed(p) : from_sync[p][v] = 1} BY <1>3 DEF ToRestart
<1>5. \A v \in Wins : v \in open[p] <=> v \in Listed(p) /\ from_sync[p][v] = 1
  BY <1>1, <1>2 DEF WindowsOf
<1>6. open[p] \subseteq Wins BY DEF StateTypes
<1> QED BY <1>1, <1>4, <1>5, <1>6

\* The end of an epoch, and the barrier.
LEMMA ClearCalls ==
  ASSUME TagTypeOK, TablesInv, StateTypes, HandlersInv, NEW p \in Procs,
         EnterBarrier(p) \/ Restart(p) \/ LeaveBarrier(p) \/ (\E w \in Wins : Join(p, w))
  PROVE  WindowsOf(p)' /\ ThreadsOf(p)'
<1>1. WindowsOf(p) /\ ThreadsOf(p) /\ TableOK(state_htbl[p]) /\ Listed(p) \subseteq Wins
  BY DEF TablesInv, HandlersInv
<1>2. /\ mpi_tag \in [Procs -> [Wins -> {NoTag} \union FirstTags]] /\ pos \in [Procs -> 0 .. MaxOps]
      /\ count_epoch \in [Procs -> [Wins -> 0 .. MaxEpochs]] /\ MaxEpochs \in Nat /\ MaxOps \in Nat
  BY TagAssumption DEF TagTypeOK
<1>3. \A v \in Wins : active_epoch[p][v] \in 0 .. 1 /\ count_epoch[p][v] \in Nat
  BY <1>2 DEF StateTypes
<1>4. CASE EnterBarrier(p)
  <2>1. pc[p] = "run" /\ ~ AtBarrier(p) /\ Barrier \in Calls /\ Follow(p, Barrier)
    BY <1>4 DEF EnterBarrier, Call, AtBarrier, Follow
  <2>2. program'[pos[p] + 1] = Barrier /\ pos'[p] = pos[p] + 1 BY <2>1, FollowTypes
  <2>3. program'[pos'[p]] = Barrier /\ pos'[p] > 0 BY <1>2, <2>2
  <2>4. /\ open'[p] = open[p] /\ active_epoch'[p] = active_epoch[p] /\ from_sync'[p] = from_sync[p]
        /\ thr'[p] = thr[p] /\ tag'[p] = tag[p] /\ count'[p] = count[p] /\ mpi_tag' = mpi_tag
        /\ count_epoch' = count_epoch /\ state_htbl' = state_htbl
        /\ clearing'[p] = First(p, Active(p))
        /\ pc'[p] = IF Active(p) = {} THEN "restart" ELSE "reduce"
        /\ Disciplined => \A v \in Listed(p) : from_sync[p][v] = 1 => v \in open[p]
    BY <1>4 DEF EnterBarrier, Synced, stateVars, threadVars, StateTypes
  <2>5. Listed(p)' = Listed(p) BY <2>4 DEF Listed
  <2>6. /\ open[p] \subseteq Listed(p)
        /\ \A v \in Wins : /\ active_epoch[p][v] = 1 => v \in Listed(p) /\ count_epoch[p][v] > 0
                           /\ v \in open[p] => active_epoch[p][v] = 1
                           /\ Disciplined /\ active_epoch[p][v] = 1 => v \in open[p]
    BY <1>1, <2>1 DEF WindowsOf
  <2>7. Active(p) \in SUBSET Listed(p) /\ \A v \in Wins : active_epoch[p][v] = 1 <=> v \in Active(p)
    BY <1>1, <2>6 DEF Active
  <2>8. /\ Active(p) = {} => clearing'[p] = {} /\ pc'[p] = "restart"
        /\ Active(p) # {} => (\E w \in Active(p) : clearing'[p] = {w}) /\ pc'[p] = "reduce"
    BY <1>1, <2>4, <2>7, FirstIs
  <2>9. Active(p) = {} => \A v \in Wins : active_epoch'[p][v] = 0 BY <1>3, <2>4, <2>7
  <2>10. \A v \in Wins : thr[p][v] # "done" BY <1>1, <2>1 DEF ThreadsOf, thread_end
  <2>11. AtBarrier(p)' BY <2>3, <2>8 DEF AtBarrier
  <2>12. WindowsOf(p)' BY <1>1, <2>3, <2>4, <2>5, <2>6, <2>7, <2>8, <2>9, <2>11 DEF WindowsOf
  <2>13. ThreadsOf(p)' BY <1>1, <2>4, <2>10 DEF ThreadsOf, EpochTag
  <2> QED BY <2>12, <2>13
<1>5. CASE Restart(p)
  <2>1. PICK W : W = ToRestart(p) OBVIOUS
  <2>2. /\ pc[p] = "restart" /\ pc'[p] = "sync" /\ clearing'[p] = clearing[p] /\ open'[p] = open[p]
        /\ from_sync' = from_sync /\ tag' = tag /\ count' = count /\ state_htbl' = state_htbl
        /\ InitThreads(p, W)
    BY <1>5, <2>1 DEF Restart, StateTypes
  <2>3. /\ mpi_tag' = mpi_tag
        /\ \A v \in Wins : /\ active_epoch'[p][v] = IF v \in W THEN 1 ELSE active_epoch[p][v]
                           /\ thr'[p][v] = IF v \in W THEN "post" ELSE thr[p][v]
                           /\ count_epoch'[p][v] = IF v \in W THEN count_epoch[p][v] + 1 ELSE count_epoch[p][v]
    BY <1>2, <2>2 DEF InitThreads, Epoch, StateTypes
  <2>4. /\ clearing[p] = {} /\ program[pos[p]] = Barrier /\ AtBarrier(p)
        /\ \A v \in Wins : active_epoch[p][v] = 0
    BY <1>1, <2>2 DEF WindowsOf, AtBarrier
  <2>5. W = {v \in Listed(p) : from_sync[p][v] = 1} BY <1>1, <2>1, <2>4 DEF ToRestart, Active
  <2>6. /\ open[p] \subseteq W /\ W \subseteq Listed(p) /\ open[p] \subseteq Wins
        /\ Disciplined => W \subseteq open[p]
    BY <1>1, <2>4, <2>5 DEF WindowsOf, StateTypes
  <2>7. Listed(p)' = Listed(p) BY <2>2 DEF Listed
  <2>8. ~ AtBarrier(p)' BY <2>2 DEF AtBarrier
  <2>9. open[p] \subseteq Listed(p) BY <1>1 DEF WindowsOf
  <2>10. \A v \in Wins : /\ active_epoch'[p][v] = 1 => v \in Listed(p)' /\ count_epoch'[p][v] > 0
                         /\ v \in open'[p] => active_epoch'[p][v] = 1
                         /\ Disciplined /\ active_epoch'[p][v] = 1 => v \in open'[p]
    BY <1>3, <2>2, <2>3, <2>4, <2>6, <2>7
  <2>11. WindowsOf(p)' BY <2>2, <2>4, <2>7, <2>8, <2>9, <2>10 DEF WindowsOf
  <2>12. \A v \in Wins : thr[p][v] = "none" BY <1>1, <2>4 DEF ThreadsOf
  <2>13. ThreadsOf(p)' BY <1>1, <2>2, <2>3, <2>4, <2>12 DEF ThreadsOf, EpochTag
  <2> QED BY <2>11, <2>13
<1>6. CASE LeaveBarrier(p)
  <2>1. /\ pc[p] = "sync" /\ pc'[p] = "run" /\ clearing' = clearing /\ open' = open
        /\ active_epoch' = active_epoch /\ from_sync' = from_sync /\ thr' = thr /\ tag' = tag
        /\ count' = count /\ mpi_tag' = mpi_tag /\ count_epoch' = count_epoch /\ state_htbl' = state_htbl
    BY <1>6 DEF LeaveBarrier, tagVars, stateVars, threadVars, StateTypes
  <2>2. Listed(p)' = Listed(p) /\ ~ AtBarrier(p) /\ ~ AtBarrier(p)' BY <2>1 DEF Listed, AtBarrier
  <2>3. WindowsOf(p)' BY <1>1, <2>1, <2>2 DEF WindowsOf
  <2>4. ThreadsOf(p)' BY <1>1, <2>1 DEF ThreadsOf, EpochTag, thread_end
  <2> QED BY <2>3, <2>4
<1>7. ASSUME NEW w \in Wins, Join(p, w) PROVE WindowsOf(p)' /\ ThreadsOf(p)'
  <2>1. /\ pc[p] = "join" /\ w \in clearing[p] BY <1>7 DEF Join, thread_end
  <2>2. clearing[p] = {w} /\ active_epoch[p][w] = 1 /\ pos[p] > 0 BY <1>1, <2>1 DEF WindowsOf
  <2>3. /\ \A v \in Wins : /\ active_epoch'[p][v] = IF v = w THEN 0 ELSE active_epoch[p][v]
                           /\ thr'[p][v] = IF v = w THEN "none" ELSE thr[p][v]
                           /\ count'[p][v] = IF v = w THEN 0 ELSE count[p][v]
        /\ clearing'[p] = First(p, Left(p, w)) /\ pc'[p] = AfterJoin(p, w)
        /\ tag' = tag /\ mpi_tag' = mpi_tag /\ count_epoch' = count_epoch
        /\ state_htbl' = state_htbl /\ program' = program /\ pos' = pos
    BY <1>7 DEF Join, tagVars, StateTypes
  <2>4. Listed(p)' = Listed(p) BY <2>3 DEF Listed
  <2>5. \A v \in Wins : thr'[p][v] # "done"
    BY <1>1, <2>2, <2>3 DEF ThreadsOf, thread_end
  <2>6. ThreadsOf(p)' BY <1>1, <1>3, <2>3, <2>5 DEF ThreadsOf, EpochTag
  <2>7. CASE program[pos[p]] # Barrier
    <3>1. open'[p] = open[p] \ {w} /\ from_sync'[p] = from_sync[p]
      BY <1>7, <2>7 DEF Join, StateTypes
    <3>2. Left(p, w) = {} /\ pc'[p] = "run" BY <2>3, <2>7 DEF Left, AfterJoin
    <3>3. clearing'[p] = {} BY <1>1, <2>3, <3>2, FirstIs
    <3>4. ~ AtBarrier(p) /\ ~ AtBarrier(p)' BY <2>7, <3>2 DEF AtBarrier
    <3>5. WindowsOf(p)' BY <1>1, <2>3, <2>4, <3>1, <3>2, <3>3, <3>4 DEF WindowsOf
    <3> QED BY <2>6, <3>5
  <2>8. CASE program[pos[p]] = Barrier
    <3>1. /\ open'[p] = open[p]
          /\ \A v \in Wins : from_sync'[p][v] = IF v = w THEN 1 ELSE from_sync[p][v]
      BY <1>7, <2>8 DEF Join, StateTypes
    <3>2. Left(p, w) = Active(p) \ {w}
          /\ pc'[p] = IF Left(p, w) # {} THEN "reduce" ELSE "restart"
      BY <2>3, <2>8 DEF Left, AfterJoin
    <3>3. \A v \in Wins : active_epoch[p][v] = 1 <=> v \in Active(p)
      BY <1>1 DEF WindowsOf, Active
    <3>4. Left(p, w) \in SUBSET Listed(p) /\ \A v \in Wins : active_epoch'[p][v] = 1 <=> v \in Left(p, w)
      BY <1>1, <1>3, <2>3, <3>2, <3>3 DEF Active
    <3>5. /\ Left(p, w) = {} => clearing'[p] = {} /\ pc'[p] = "restart"
          /\ Left(p, w) # {} => (\E v \in Left(p, w) : clearing'[p] = {v}) /\ pc'[p] = "reduce"
      BY <1>1, <2>3, <3>2, <3>4, FirstIs
    <3>6. Left(p, w) = {} => \A v \in Wins : active_epoch'[p][v] = 0
      BY <1>3, <2>3, <3>4
    <3>7. AtBarrier(p) /\ AtBarrier(p)' BY <2>1, <2>3, <2>8, <3>5 DEF AtBarrier
    <3>8. open[p] \subseteq Listed(p) /\ (Disciplined => w \in open[p])
          /\ \A v \in Wins : /\ active_epoch[p][v] = 1 => v \in Listed(p) /\ count_epoch[p][v] > 0
                             /\ v \in open[p] => active_epoch[p][v] = 1 \/ from_sync[p][v] = 1
                             /\ Disciplined /\ active_epoch[p][v] = 1 => v \in open[p]
                             /\ Disciplined /\ from_sync[p][v] = 1 /\ v \in Listed(p) => v \in open[p]
      BY <1>1, <2>2, <3>7 DEF WindowsOf
    <3>9. \A v \in Wins :
            /\ active_epoch'[p][v] = 1 => v \in Listed(p)' /\ count_epoch'[p][v] > 0
            /\ v \in open'[p] => active_epoch'[p][v] = 1 \/ from_sync'[p][v] = 1
            /\ Disciplined /\ active_epoch'[p][v] = 1 => v \in open'[p]
            /\ Disciplined /\ from_sync'[p][v] = 1 /\ v \in Listed(p)' => v \in open'[p]
      BY <2>3, <2>4, <3>1, <3>8
    <3>10. WindowsOf(p)'
      BY <1>1, <2>2, <2>3, <2>4, <2>8, <3>1, <3>4, <3>5, <3>6, <3>7, <3>8, <3>9 DEF WindowsOf
    <3> QED BY <2>6, <3>10
  <2> QED BY <2>7, <2>8
<1> QED BY <1>4, <1>5, <1>6, <1>7

\* The checking threads of a process.
LEMMA ThreadSteps ==
  ASSUME HandlersInv, StateTypes, NEW p \in Procs, NEW w \in Wins,
         PostRecv(p, w) \/ (\E m \in net : Receive(p, w, m)) \/ Exit(p, w)
  PROVE  ThreadsOf(p)'
<1>1. ThreadsOf(p) BY DEF HandlersInv
<1>2. /\ pc' = pc /\ clearing' = clearing /\ active_epoch' = active_epoch /\ mpi_tag' = mpi_tag
      /\ count_epoch' = count_epoch
  BY DEF PostRecv, Receive, Exit, tagVars, appVars, stateVars
<1>3. CASE PostRecv(p, w)
  <2>1. /\ thr[p][w] = "post" /\ count' = count
        /\ \A v \in Wins : /\ thr'[p][v] = IF v = w THEN "poll" ELSE thr[p][v]
                           /\ tag'[p][v] = IF v = w THEN EpochTag(p, w) ELSE tag[p][v]
    BY <1>3 DEF PostRecv, StateTypes
  <2> QED BY <1>1, <1>2, <2>1 DEF ThreadsOf, thread_end, EpochTag
<1>4. ASSUME NEW m, Receive(p, w, m) PROVE ThreadsOf(p)'
  <2>1. /\ thr[p][w] = "poll" /\ tag' = tag
        /\ \A v \in Wins : /\ thr'[p][v] = IF v = w THEN "post" ELSE thr[p][v]
                           /\ v # w => count'[p][v] = count[p][v]
    BY <1>4 DEF Receive, StateTypes
  <2> QED BY <1>1, <1>2, <2>1 DEF ThreadsOf, thread_end, EpochTag
<1>5. CASE Exit(p, w)
  <2>1. /\ thr[p][w] = "poll" /\ tag' = tag /\ thread_end(p, w)
        /\ \A v \in Wins : /\ thr'[p][v] = IF v = w THEN "done" ELSE thr[p][v]
                           /\ count'[p][v] = IF v = w THEN 0 ELSE count[p][v]
    BY <1>5 DEF Exit, StateTypes
  <2> QED BY <1>1, <1>2, <2>1 DEF ThreadsOf, thread_end, EpochTag
<1> QED BY <1>3, <1>4, <1>5

\* A reduction moves all processes to the join of the window they clear.
LEMMA ReduceSteps ==
  ASSUME HandlersInv, StateTypes, Reduce, NEW p \in Procs PROVE WindowsOf(p)' /\ ThreadsOf(p)'
<1>1. WindowsOf(p) /\ ThreadsOf(p) BY DEF HandlersInv
<1>2. /\ pc[p] = "reduce" /\ pc'[p] = "join"
      /\ UNCHANGED <<program, pos, win_mpi_tag_id, mpi_tag, count_epoch, clearing, open, state_htbl,
                     active_epoch, from_sync, count, thr, tag>>
  BY DEF Reduce, tagVars, threadVars
<1>3. Listed(p)' = Listed(p) /\ (AtBarrier(p)' <=> AtBarrier(p)) BY <1>2 DEF Listed, AtBarrier
<1>4. WindowsOf(p)' BY <1>1, <1>2, <1>3 DEF WindowsOf
<1>5. ThreadsOf(p)' BY <1>1, <1>2 DEF ThreadsOf, EpochTag, thread_end
<1> QED BY <1>4, <1>5

\* A step on p leaves the other processes alone.
LEMMA OthersKept ==
  ASSUME TagTypeOK, TablesInv, StateTypes, NEW p \in Procs, NEW q \in Procs, q # p,
         \/ EnterBarrier(p) \/ Restart(p) \/ LeaveBarrier(p)
         \/ \E w \in Wins : Create(p, w) \/ WinFree(p, w) \/ Open(p, w) \/ Close(p, w) \/ Join(p, w)
  PROVE  SameWindows(q) /\ SameThreads(q)
<1> USE DEF StateTypes, SameWindows, SameThreads
<1>1. /\ win_mpi_tag_id \in [Procs -> [Ids -> 0 .. 1]]
      /\ mpi_tag \in [Procs -> [Wins -> {NoTag} \union FirstTags]] /\ pos \in [Procs -> 0 .. MaxOps]
      /\ count_epoch \in [Procs -> [Wins -> 0 .. MaxEpochs]]
      /\ state_htbl = [r \in Procs |-> state_htbl[r]]
  BY DEF TagTypeOK, TablesInv
<1>2. ASSUME NEW op, Follow(p, op) PROVE pos'[q] = pos[q] BY <1>1, <1>2 DEF Follow
<1>3. CASE EnterBarrier(p)
  BY <1>1, <1>2, <1>3 DEF EnterBarrier, Call, stateVars, threadVars
<1>4. CASE Restart(p) BY <1>1, <1>4 DEF Restart, InitThreads, Epoch
<1>5. CASE LeaveBarrier(p) BY <1>5 DEF LeaveBarrier, tagVars, stateVars, threadVars
<1>6. ASSUME NEW w \in Wins, Create(p, w) PROVE SameWindows(q) /\ SameThreads(q)
  <2>1. pos'[q] = pos[q] BY <1>2, <1>6 DEF Create, Call
  <2>2. PICK t : state_htbl' = [state_htbl EXCEPT ![p] = t] BY <1>6 DEF Create
  <2>3. state_htbl'[q] = state_htbl[q] BY <1>1, <2>2
  <2> QED BY <1>1, <1>6, <2>1, <2>3 DEF Create, Start, appVars
<1>7. ASSUME NEW w \in Wins, WinFree(p, w) PROVE SameWindows(q) /\ SameThreads(q)
  <2>1. pos'[q] = pos[q] BY <1>2, <1>7 DEF WinFree, Call
  <2>2. PICK t : state_htbl' = [state_htbl EXCEPT ![p] = t] BY <1>7 DEF WinFree
  <2>3. state_htbl'[q] = state_htbl[q] BY <1>1, <2>2
  <2> QED BY <1>1, <1>7, <2>1, <2>3 DEF WinFree, Stop, appVars, stateVars, threadVars
<1>8. ASSUME NEW w \in Wins, Open(p, w) PROVE SameWindows(q) /\ SameThreads(q)
  BY <1>1, <1>2, <1>8 DEF Open, Call, InitThreads, Epoch, appVars
<1>9. ASSUME NEW w \in Wins, Close(p, w) PROVE SameWindows(q) /\ SameThreads(q)
  BY <1>1, <1>2, <1>9 DEF Close, Call, stateVars, threadVars
<1>10. ASSUME NEW w \in Wins, Join(p, w) PROVE SameWindows(q) /\ SameThreads(q)
  BY <1>1, <1>10 DEF Join, tagVars
<1> QED BY <1>3, <1>4, <1>5, <1>6, <1>7, <1>8, <1>9, <1>10

LEMMA HandlersStep ==
  ASSUME TagTypeOK, TablesInv, StateTypes, HandlersInv, [Next]_vars PROVE HandlersInv'
<1>1. Placed' /\ TablesInv' BY ProgramGrows, TablesStep DEF HandlersInv
<1>2. Placed /\ \A q \in Procs : WindowsOf(q) /\ ThreadsOf(q) BY DEF HandlersInv
<1>3. ASSUME NEW p \in Procs, WindowsOf(p)', ThreadsOf(p)',
             \A q \in Procs \ {p} : SameWindows(q) /\ SameThreads(q)
      PROVE  HandlersInv'
  <2>1. \A q \in Procs \ {p} : WindowsOf(q)' /\ ThreadsOf(q)' BY <1>2, <1>3, WindowsKept, ThreadsKept
  <2> QED BY <1>1, <1>3, <2>1 DEF HandlersInv
<1>4. CASE UNCHANGED vars
  <2>1. \A q \in Procs : SameWindows(q) /\ SameThreads(q)
    BY <1>4 DEF vars, tagVars, appVars, stateVars, threadVars, SameWindows, SameThreads
  <2>2. \A q \in Procs : WindowsOf(q)' /\ ThreadsOf(q)' BY <1>2, <2>1, WindowsKept, ThreadsKept
  <2> QED BY <1>1, <2>2 DEF HandlersInv
<1>5. CASE Reduce
  <2>1. \A q \in Procs : WindowsOf(q)' /\ ThreadsOf(q)' BY <1>5, ReduceSteps
  <2> QED BY <1>1, <2>1 DEF HandlersInv
<1>6. ASSUME NEW p \in Procs, EnterBarrier(p) \/ Restart(p) \/ LeaveBarrier(p) PROVE HandlersInv'
  <2>1. WindowsOf(p)' /\ ThreadsOf(p)' BY <1>6, ClearCalls
  <2>2. \A q \in Procs \ {p} : SameWindows(q) /\ SameThreads(q) BY <1>6, OthersKept
  <2> QED BY <1>3, <2>1, <2>2
<1>7. ASSUME NEW p \in Procs, NEW w \in Wins,
             Create(p, w) \/ WinFree(p, w) \/ Open(p, w) \/ Close(p, w) \/ Join(p, w)
      PROVE  HandlersInv'
  <2>1. WindowsOf(p)' /\ ThreadsOf(p)' BY <1>1, <1>7, ClearCalls, WindowCalls
  <2>2. \A q \in Procs \ {p} : SameWindows(q) /\ SameThreads(q) BY <1>7, OthersKept
  <2> QED BY <1>3, <2>1, <2>2
<1>8. ASSUME NEW p \in Procs, NEW q \in Procs, NEW w \in Wins, Put(p, q, w) PROVE HandlersInv'
  <2>1. \A r \in Procs : SameWindows(r) /\ SameThreads(r)
    BY <1>8 DEF Put, tagVars, appVars, stateVars, threadVars, SameWindows, SameThreads
  <2>2. \A r \in Procs : WindowsOf(r)' /\ ThreadsOf(r)' BY <1>2, <2>1, WindowsKept, ThreadsKept
  <2> QED BY <1>1, <2>2 DEF HandlersInv
<1>9. ASSUME NEW p \in Procs, NEW w \in Wins,
             PostRecv(p, w) \/ (\E m \in net : Receive(p, w, m)) \/ Exit(p, w)
      PROVE  HandlersInv'
  <2>1. ThreadsOf(p)' BY <1>2, <1>9, ThreadSteps
  <2>2. \A r \in Procs : SameWindows(r)
    BY <1>9 DEF PostRecv, Receive, Exit, tagVars, appVars, stateVars, SameWindows
  <2>3. \A r \in Procs : r # p => SameThreads(r)
    BY <1>9 DEF PostRecv, Receive, Exit, tagVars, appVars, stateVars, SameThreads, StateTypes
  <2>4. WindowsOf(p)' BY <1>2, <2>2, WindowsKept
  <2> QED BY <1>3, <2>1, <2>2, <2>3, <2>4
<1>10. CASE Terminating BY <1>4, <1>10 DEF Terminating
<1> QED BY <1>4, <1>5, <1>6, <1>7, <1>8, <1>9, <1>10 DEF Next

\* What holds of every process by itself.
ProcessInv == TagTypeOK /\ TablesInv /\ StateTypes /\ NetTypes /\ HandlersInv

LEMMA ProcessInit == ASSUME Init PROVE ProcessInv
BY TagTypeInit, TablesInit, StateInit, HandlersInit DEF ProcessInv

LEMMA ProcessStep == ASSUME ProcessInv, [Next]_vars PROVE ProcessInv'
BY TagTypeStep, TablesStep, StateStep, NetStep, HandlersStep DEF ProcessInv

\* MPI_Barrier takes the checking threads of all windows away and gives them
\* back: between its calls a process has one for each window that has an epoch,
\* and each window the program is in an epoch of has one (EpochsProfiled).  For
\* every program, stray restarts included.
THEOREM EpochsAlwaysProfiled == Spec => []EpochsProfiled
<1>1. Init => ProcessInv BY ProcessInit
<1>2. ProcessInv /\ [Next]_vars => ProcessInv' BY ProcessStep
<1>3. ASSUME ProcessInv PROVE EpochsProfiled
  <2> SUFFICES ASSUME NEW p \in Procs, pc[p] = "run", NEW w \in Wins
               PROVE  /\ thr[p][w] \in {"post", "poll"} <=> w \in Active(p)
                      /\ w \in open[p] => w \in Active(p)
    BY <1>3 DEF EpochsProfiled, ProcessInv, StateTypes
  <2>1. WindowsOf(p) /\ ThreadsOf(p) /\ ~ AtBarrier(p)
    BY <1>3 DEF ProcessInv, HandlersInv, AtBarrier
  <2>2. active_epoch[p][w] \in 0 .. 1 /\ thr[p][w] \in {"none", "post", "poll", "done"}
    BY <1>3 DEF ProcessInv, StateTypes
  <2>3. /\ w \in open[p] => active_epoch[p][w] = 1
        /\ active_epoch[p][w] = 1 => w \in Listed(p)
    BY <2>1 DEF WindowsOf
  <2>4. thr[p][w] # "done" BY <2>1 DEF ThreadsOf, thread_end
  <2>5. thr[p][w] = "none" <=> active_epoch[p][w] = 0 BY <2>1 DEF ThreadsOf
  <2> QED BY <2>2, <2>3, <2>4, <2>5 DEF Active
<1> QED BY <1>1, <1>2, <1>3, PTL DEF Spec

----------------------------------------------------------------------------
(* The course of the program: what a process is left with by the calls it  *)
(* has made, which is the same for all processes.                          *)

\* The epochs of a process are the program's: they end in the program's order,
\* and no barrier restarts one that the program is not in.
Tidy == InOrder /\ Disciplined
USE DEF Tidy

\* The windows and the epochs of a process once its call is over, if the program
\* tells.
Opened(p) ==
  IF ~ Tidy THEN {}
  ELSE IF AtBarrier(p) THEN open[p] ELSE open[p] \ clearing[p]
Epochs(p) ==
  [w \in Wins |-> IF ~ Tidy THEN 0
                  ELSE IF AtBarrier(p) /\ w \in open[p] THEN count_epoch[p][w] + 1
                  ELSE count_epoch[p][w]]

Stage(p) ==
  [ids |-> win_mpi_tag_id[p], tags |-> mpi_tag[p], table |-> state_htbl[p],
   open |-> Opened(p), epochs |-> Epochs(p)]

\* The range that a table of ranges gives, and the one that a tag is of.
RangeFrom(ids) ==
  LET free == {i \in Ids : ids[i] = 0}
  IN  IF free = {} THEN -1 ELSE CHOOSE i \in free : \A j \in free : i <= j
RangeOf(t) == (t - RMA_ANALYZER_BASE_MPI_TAG) \div RMA_ANALYZER_MAX_EPOCH_NUMBER
Mark(ids, id, mark) == [i \in Ids |-> IF i = id THEN mark ELSE ids[i]]

\* What each call makes of a stage.
IdsAfter(s, op) ==
  IF op[1] = "create" THEN Mark(s.ids, RangeFrom(s.ids), 1)
  ELSE IF op[1] = "free" THEN Mark(s.ids, RangeOf(s.tags[op[2]]), 0) ELSE s.ids
TagsAfter(s, op) ==
  IF op[1] = "create" THEN [s.tags EXCEPT ![op[2]] = Tag(RangeFrom(s.ids))]
  ELSE IF op[1] = "free" THEN [s.tags EXCEPT ![op[2]] = NoTag] ELSE s.tags
TableAfter(s, op) ==
  IF op[1] = "create" THEN HASH_ADD_KEYPTR(s.table, op[2])
  ELSE IF op[1] = "free" THEN HASH_DELETE(s.table, op[2]) ELSE s.table
OpenAfter(s, op) ==
  IF ~ Tidy THEN {}
  ELSE IF op[1] = "open" THEN s.open \union {op[2]}
  ELSE IF op[1] = "close" THEN s.open \ {op[2]} ELSE s.open
Begins(s, op, w) == op = <<"open", w>> \/ (op = Barrier /\ w \in s.open)
EpochsAfter(s, op) ==
  [w \in Wins |-> IF ~ Tidy \/ op = <<"create", w>> THEN 0
                  ELSE IF Begins(s, op, w) THEN s.epochs[w] + 1 ELSE s.epochs[w]]

\* The calls a process may make at a stage.
May(s, op) ==
  \/ op = Barrier
  \/ \E w \in Wins : \/ op = <<"create", w>> /\ s.tags[w] = NoTag
                     \/ op = <<"free", w>> /\ s.tags[w] # NoTag /\ w \notin s.open
                     \/ op = <<"open", w>> /\ s.tags[w] # NoTag /\ w \notin s.open
                     \/ op = <<"close", w>> /\ (Tidy => w \in s.open)

Led(s, t, op) ==
  /\ May(s, op)
  /\ t = [ids |-> IdsAfter(s, op), tags |-> TagsAfter(s, op), table |-> TableAfter(s, op),
          open |-> OpenAfter(s, op), epochs |-> EpochsAfter(s, op)]

\* Between two calls the stage is what the process has.
LEMMA StageRunning ==
  ASSUME HandlersInv, NEW p \in Procs, pc[p] \notin {"reduce", "join", "restart"}
  PROVE  /\ ~ AtBarrier(p) /\ clearing[p] = {}
         /\ Opened(p) = IF Tidy THEN open[p] ELSE {}
         /\ Epochs(p) = [w \in Wins |-> IF Tidy THEN count_epoch[p][w] ELSE 0]
<1>1. ~ AtBarrier(p) /\ clearing[p] = {} BY DEF HandlersInv, WindowsOf, AtBarrier
<1> QED BY <1>1 DEF Opened, Epochs

LEMMA StageRunningNext ==
  ASSUME HandlersInv', NEW p \in Procs, pc'[p] \notin {"reduce", "join", "restart"}
  PROVE  /\ Opened(p)' = IF Tidy THEN open'[p] ELSE {}
         /\ Epochs(p)' = [w \in Wins |-> IF Tidy THEN count_epoch'[p][w] ELSE 0]
<1>1. ~ AtBarrier(p)' /\ clearing'[p] = {} BY DEF HandlersInv, WindowsOf, AtBarrier
<1> QED BY <1>1 DEF Opened, Epochs

LEMMA StageKept ==
  ASSUME ProcessInv, [Next]_vars, NEW q \in Procs, SameWindows(q) PROVE Stage(q)' = Stage(q)
<1>1. pos[q] \in Nat /\ Len(program) \in Nat /\ pos[q] <= Len(program) /\ WindowsOf(q)
  BY DEF ProcessInv, TagTypeOK, HandlersInv, Placed
<1>2. pos[q] > 0 => program'[pos'[q]] = program[pos[q]]
  BY <1>1, ProgramGrows DEF SameWindows, ProcessInv, HandlersInv
<1>3. AtBarrier(q)' <=> AtBarrier(q) BY <1>1, <1>2 DEF SameWindows, AtBarrier, WindowsOf
<1>4. Opened(q)' = Opened(q) BY <1>3 DEF SameWindows, Opened
<1>5. Epochs(q)' = Epochs(q) BY <1>3 DEF SameWindows, Epochs
<1> QED BY <1>4, <1>5 DEF Stage, SameWindows

\* MPI_Win_create and MPI_Win_free.
LEMMA StageWindow ==
  ASSUME ProcessInv, ProcessInv', NEW p \in Procs, NEW w \in Wins, NEW op,
         \/ Create(p, w) /\ op = <<"create", w>>
         \/ WinFree(p, w) /\ op = <<"free", w>>
  PROVE  op \in Calls /\ Follow(p, op) /\ Led(Stage(p), Stage(p)', op)
<1>1. /\ win_mpi_tag_id \in [Procs -> [Ids -> 0 .. 1]]
      /\ mpi_tag \in [Procs -> [Wins -> {NoTag} \union FirstTags]]
      /\ count_epoch \in [Procs -> [Wins -> 0 .. MaxEpochs]]
      /\ state_htbl = [q \in Procs |-> state_htbl[q]]
      /\ HandlersInv /\ HandlersInv' /\ StateTypes
  BY DEF ProcessInv, TagTypeOK, TablesInv
<1>2. pc[p] = "run" /\ pc'[p] = "run" /\ open'[p] = open[p]
  BY DEF Create, WinFree, Call, appVars
<1>3. op \in Calls /\ Follow(p, op) BY DEF Create, WinFree, Call, Follow
<1>4. Opened(p) = IF Tidy THEN open[p] ELSE {} BY <1>1, <1>2, StageRunning
<1>5. Opened(p)' = Opened(p) BY <1>1, <1>2, <1>4, StageRunningNext
<1>6. Epochs(p) = [v \in Wins |-> IF Tidy THEN count_epoch[p][v] ELSE 0]
  BY <1>1, <1>2, StageRunning
<1>7. Epochs(p)' = [v \in Wins |-> IF Tidy THEN count_epoch'[p][v] ELSE 0]
  BY <1>1, <1>2, StageRunningNext
<1>8. PICK s : s = Stage(p) OBVIOUS
<1>9. /\ s.ids = win_mpi_tag_id[p] /\ s.tags = mpi_tag[p] /\ s.table = state_htbl[p]
      /\ s.open = Opened(p) /\ s.epochs = Epochs(p)
  BY <1>8 DEF Stage
<1>10. Stage(p)' = [ids |-> win_mpi_tag_id'[p], tags |-> mpi_tag'[p], table |-> state_htbl'[p],
                    open |-> Opened(p)', epochs |-> Epochs(p)']
  BY DEF Stage
<1>11. CASE Create(p, w) /\ op = <<"create", w>>
  <2>1. PICK id : id = get_tag_range_id(p) OBVIOUS
  <2>2. id = RangeFrom(s.ids) BY <1>9, <2>1 DEF get_tag_range_id, Free, RangeFrom
  <2>3. /\ s.tags[w] = NoTag
        /\ win_mpi_tag_id'[p] = Mark(s.ids, id, 1) /\ mpi_tag'[p] = [s.tags EXCEPT ![w] = Tag(id)]
        /\ \A v \in Wins : count_epoch'[p][v] = IF v = w THEN 0 ELSE count_epoch[p][v]
    BY <1>1, <1>9, <1>11, <2>1 DEF Create, Start, Live, Mark
  <2>4. state_htbl'[p] = HASH_ADD_KEYPTR(s.table, w)
    <3>1. PICK t : t = HASH_ADD_KEYPTR(state_htbl[p], w) OBVIOUS
    <3>2. state_htbl' = [state_htbl EXCEPT ![p] = t] BY <1>11, <3>1 DEF Create
    <3> QED BY <1>1, <1>9, <3>1, <3>2
  <2>5. op[1] = "create" /\ op[2] = w /\ (\A v \in Wins : op = <<"create", v>> <=> v = w)
        /\ (\A v \in Wins : op # <<"open", v>>) /\ op # Barrier
    BY <1>11 DEF Barrier
  <2>6. Opened(p)' = OpenAfter(s, op) BY <1>4, <1>5, <1>9, <2>5 DEF OpenAfter
  <2>7. Epochs(p)' = EpochsAfter(s, op)
    BY <1>6, <1>7, <1>9, <2>3, <2>5 DEF EpochsAfter, Begins
  <2>8. Mark(s.ids, id, 1) = IdsAfter(s, op) BY <2>2, <2>5 DEF IdsAfter
  <2>9. [s.tags EXCEPT ![w] = Tag(id)] = TagsAfter(s, op) BY <2>2, <2>5 DEF TagsAfter
  <2>10. HASH_ADD_KEYPTR(s.table, w) = TableAfter(s, op) BY <2>5 DEF TableAfter
  <2>11. May(s, op) BY <1>11, <2>3 DEF May
  <2>12. Led(s, Stage(p)', op)
    BY <1>10, <2>3, <2>4, <2>6, <2>7, <2>8, <2>9, <2>10, <2>11 DEF Led
  <2> QED BY <1>3, <1>8, <2>12
<1>12. CASE WinFree(p, w) /\ op = <<"free", w>>
  <2>1. PICK id : id = FreedId(p, w) OBVIOUS
  <2>2. id = RangeOf(s.tags[w]) BY <1>9, <2>1 DEF FreedId, RangeOf
  <2>3. /\ s.tags[w] # NoTag /\ w \notin s.open
        /\ win_mpi_tag_id'[p] = Mark(s.ids, id, 0) /\ mpi_tag'[p] = [s.tags EXCEPT ![w] = NoTag]
        /\ count_epoch' = count_epoch
    BY <1>1, <1>4, <1>9, <1>12, <2>1 DEF WinFree, Stop, Live, Mark
  <2>4. state_htbl'[p] = HASH_DELETE(s.table, w)
    <3>1. PICK t : t = HASH_DELETE(state_htbl[p], w) OBVIOUS
    <3>2. state_htbl' = [state_htbl EXCEPT ![p] = t] BY <1>12, <3>1 DEF WinFree
    <3> QED BY <1>1, <1>9, <3>1, <3>2
  <2>5. op[1] = "free" /\ op[2] = w /\ (\A v \in Wins : op # <<"create", v>>)
        /\ (\A v \in Wins : op # <<"open", v>>) /\ op # Barrier
    BY <1>12 DEF Barrier
  <2>6. Opened(p)' = OpenAfter(s, op) BY <1>4, <1>5, <1>9, <2>5 DEF OpenAfter
  <2>7. Epochs(p)' = EpochsAfter(s, op)
    BY <1>6, <1>7, <1>9, <2>3, <2>5 DEF EpochsAfter, Begins
  <2>8. Mark(s.ids, id, 0) = IdsAfter(s, op) BY <2>2, <2>5 DEF IdsAfter
  <2>9. [s.tags EXCEPT ![w] = NoTag] = TagsAfter(s, op) BY <2>2, <2>5 DEF TagsAfter
  <2>10. HASH_DELETE(s.table, w) = TableAfter(s, op) BY <2>5 DEF TableAfter
  <2>11. May(s, op) BY <1>12, <2>3 DEF May
  <2>12. Led(s, Stage(p)', op)
    BY <1>10, <2>3, <2>4, <2>6, <2>7, <2>8, <2>9, <2>10, <2>11 DEF Led
  <2> QED BY <1>3, <1>8, <2>12
<1> QED BY <1>11, <1>12

\* The other calls.
LEMMA StageEpoch ==
  ASSUME ProcessInv, ProcessInv', NEW p \in Procs,
         EnterBarrier(p) \/ (\E w \in Wins : Open(p, w) \/ Close(p, w))
  PROVE  \E op \in Calls : Follow(p, op) /\ Led(Stage(p), Stage(p)', op)
<1>1. /\ mpi_tag \in [Procs -> [Wins -> {NoTag} \union FirstTags]]
      /\ count_epoch \in [Procs -> [Wins -> 0 .. MaxEpochs]] /\ pos \in [Procs -> Nat]
      /\ HandlersInv /\ HandlersInv' /\ StateTypes /\ TagTypeOK
  BY DEF ProcessInv, TagTypeOK
<1>2. pc[p] = "run" /\ ~ AtBarrier(p) /\ clearing[p] = {}
  BY <1>1, StageRunning DEF EnterBarrier, Open, Close, Call
<1>3. UNCHANGED <<win_mpi_tag_id, mpi_tag, state_htbl>>
  BY DEF EnterBarrier, Open, Close, InitThreads, Epoch
<1>4. Opened(p) = IF Tidy THEN open[p] ELSE {} BY <1>1, <1>2, StageRunning
<1>6. Epochs(p) = [v \in Wins |-> IF Tidy THEN count_epoch[p][v] ELSE 0]
  BY <1>1, <1>2, StageRunning
<1>8. PICK s : s = Stage(p) OBVIOUS
<1>9. /\ s.ids = win_mpi_tag_id[p] /\ s.tags = mpi_tag[p] /\ s.table = state_htbl[p]
      /\ s.open = Opened(p) /\ s.epochs = Epochs(p)
  BY <1>8 DEF Stage
<1>10. Stage(p)' = [ids |-> s.ids, tags |-> s.tags, table |-> s.table,
                    open |-> Opened(p)', epochs |-> Epochs(p)']
  BY <1>3, <1>9 DEF Stage
<1>11. ASSUME NEW op \in Calls, op[1] \notin {"create", "free"}, May(s, op),
              Opened(p)' = OpenAfter(s, op), Epochs(p)' = EpochsAfter(s, op)
       PROVE  Led(Stage(p), Stage(p)', op)
  <2>1. IdsAfter(s, op) = s.ids /\ TagsAfter(s, op) = s.tags /\ TableAfter(s, op) = s.table
    BY <1>11 DEF IdsAfter, TagsAfter, TableAfter
  <2>2. Led(s, Stage(p)', op) BY <1>10, <1>11, <2>1 DEF Led
  <2> QED BY <1>8, <2>2
<1>12. CASE EnterBarrier(p)
  <2>1. Barrier \in Calls /\ Follow(p, Barrier) BY <1>12 DEF EnterBarrier, Call, Follow
  <2>2. program'[pos[p] + 1] = Barrier /\ pos'[p] = pos[p] + 1 BY <1>1, <2>1, FollowTypes
  <2>3. program'[pos'[p]] = Barrier BY <2>2
  <2>4. open' = open /\ count_epoch' = count_epoch /\ pc'[p] \in {"restart", "reduce"}
    BY <1>1, <1>12 DEF EnterBarrier, StateTypes
  <2>5. AtBarrier(p)' BY <2>3, <2>4 DEF AtBarrier
  <2>6. Barrier[1] = "barrier" /\ (\A v \in Wins : Barrier # <<"create", v>> /\ Barrier # <<"open", v>>)
    BY DEF Barrier
  <2>7. Opened(p)' = OpenAfter(s, Barrier) BY <1>4, <1>9, <2>4, <2>5, <2>6 DEF Opened, OpenAfter
  <2>8. Epochs(p)' = EpochsAfter(s, Barrier)
    BY <1>4, <1>6, <1>9, <2>4, <2>5, <2>6 DEF Epochs, EpochsAfter, Begins
  <2>9. May(s, Barrier) BY DEF May
  <2> QED BY <1>11, <2>1, <2>6, <2>7, <2>8, <2>9
<1>13. ASSUME NEW w \in Wins, Open(p, w)
       PROVE  \E op \in Calls : Follow(p, op) /\ Led(Stage(p), Stage(p)', op)
  <2>1. PICK op : op = <<"open", w>> OBVIOUS
  <2>2. op \in Calls /\ Follow(p, op) BY <1>13, <2>1 DEF Open, Call, Follow
  <2>3. op[1] = "open" /\ op[2] = w /\ (\A v \in Wins : op # <<"create", v>>)
        /\ (\A v \in Wins : op = <<"open", v>> <=> v = w) /\ op # Barrier
    BY <2>1 DEF Barrier
  <2>4. /\ open'[p] = open[p] \union {w} /\ pc'[p] = "run" /\ Live(p, w) /\ w \notin open[p]
        /\ \A v \in Wins : count_epoch'[p][v] = IF v = w THEN count_epoch[p][v] + 1 ELSE count_epoch[p][v]
    BY <1>1, <1>2, <1>13 DEF Open, appVars, InitThreads, Epoch, StateTypes
  <2>5. Opened(p)' = (IF Tidy THEN open'[p] ELSE {})
        /\ Epochs(p)' = [v \in Wins |-> IF Tidy THEN count_epoch'[p][v] ELSE 0]
    BY <1>1, <2>4, StageRunningNext
  <2>6. Opened(p)' = OpenAfter(s, op) BY <1>4, <1>9, <2>3, <2>4, <2>5 DEF OpenAfter
  <2>7. Epochs(p)' = EpochsAfter(s, op)
    <3>1. \A v \in Wins : op # <<"create", v>> /\ (Begins(s, op, v) <=> v = w) BY <2>3 DEF Begins
    <3>2. EpochsAfter(s, op) =
            [v \in Wins |-> IF ~ Tidy THEN 0 ELSE IF v = w THEN s.epochs[v] + 1 ELSE s.epochs[v]]
      BY <3>1 DEF EpochsAfter
    <3>3. \A v \in Wins : Tidy => s.epochs[v] = count_epoch[p][v] BY <1>6, <1>9
    <3> QED BY <2>4, <2>5, <3>2, <3>3
  <2>8. May(s, op) BY <1>4, <1>9, <2>1, <2>4 DEF May, Live
  <2> QED BY <1>11, <2>2, <2>3, <2>6, <2>7, <2>8
<1>14. ASSUME NEW w \in Wins, Close(p, w)
       PROVE  \E op \in Calls : Follow(p, op) /\ Led(Stage(p), Stage(p)', op)
  <2>1. PICK v \in Wins : Call(p, <<"close", v>>) /\ (InOrder => v = w) BY <1>14 DEF Close
  <2>2. PICK op : op = <<"close", v>> OBVIOUS
  <2>3. op \in Calls /\ Follow(p, op) BY <2>1, <2>2 DEF Call, Follow
  <2>4. op[1] = "close" /\ op[2] = v /\ (\A u \in Wins : op # <<"create", u>>)
        /\ (\A u \in Wins : op # <<"open", u>>) /\ op # Barrier
    BY <2>2 DEF Barrier
  <2>5. program'[pos[p] + 1] = op /\ pos'[p] = pos[p] + 1 BY <1>1, <2>3, FollowTypes
  <2>6. ~ AtBarrier(p)' BY <2>4, <2>5 DEF AtBarrier
  <2>7. open' = open /\ count_epoch' = count_epoch /\ clearing'[p] = {w} /\ w \in open[p]
    BY <1>1, <1>14 DEF Close, StateTypes
  <2>8. Opened(p)' = OpenAfter(s, op) BY <1>4, <1>9, <2>1, <2>4, <2>6, <2>7 DEF Opened, OpenAfter
  <2>9. Epochs(p)' = EpochsAfter(s, op)
    BY <1>6, <1>9, <2>4, <2>6, <2>7 DEF Epochs, EpochsAfter, Begins
  <2>10. May(s, op) BY <1>4, <1>9, <2>1, <2>2, <2>7 DEF May
  <2> QED BY <1>11, <2>3, <2>4, <2>8, <2>9, <2>10
<1> QED BY <1>12, <1>13, <1>14

\* The steps within a call leave the stage as it is.
LEMMA StageWithin ==
  ASSUME ProcessInv, ProcessInv', [Next]_vars, NEW p \in Procs,
         Restart(p) \/ LeaveBarrier(p) \/ \E w \in Wins : Join(p, w)
  PROVE  Stage(p)' = Stage(p)
<1>1. /\ count_epoch \in [Procs -> [Wins -> 0 .. MaxEpochs]]
      /\ TablesInv /\ HandlersInv /\ HandlersInv' /\ StateTypes /\ WindowsOf(p)
  BY DEF ProcessInv, TagTypeOK, HandlersInv
<1>2. UNCHANGED <<win_mpi_tag_id, mpi_tag, state_htbl, program, pos>>
  BY DEF Restart, InitThreads, Epoch, LeaveBarrier, Join, tagVars
<1> SUFFICES Opened(p)' = Opened(p) /\ Epochs(p)' = Epochs(p) BY <1>2 DEF Stage
<1>3. CASE Restart(p)
  <2>1. pc[p] = "restart" /\ pc'[p] = "sync" /\ open' = open BY <1>1, <1>3 DEF Restart, StateTypes
  <2>2. AtBarrier(p) BY <1>1, <2>1 DEF AtBarrier, WindowsOf
  <2>3. open[p] \subseteq Wins /\ (Tidy => ToRestart(p) = open[p])
    BY <1>1, <2>1, RestartsOpen DEF StateTypes
  <2>4. Tidy => \A v \in Wins : count_epoch'[p][v] = IF v \in open[p] THEN count_epoch[p][v] + 1 ELSE count_epoch[p][v]
    <3>1. PICK W : W = ToRestart(p) OBVIOUS
    <3>2. count_epoch' = [count_epoch EXCEPT ![p] = [w \in Wins |-> IF w \in W THEN @[w] + 1 ELSE @[w]]]
      BY <1>3, <3>1 DEF Restart, InitThreads, Epoch
    <3> QED BY <1>1, <2>3, <3>1, <3>2
  <2>5. /\ Opened(p)' = IF Tidy THEN open'[p] ELSE {}
        /\ Epochs(p)' = [w \in Wins |-> IF Tidy THEN count_epoch'[p][w] ELSE 0]
    BY <1>1, <2>1, StageRunningNext
  <2>6. Opened(p) = (IF Tidy THEN open[p] ELSE {})
        /\ Epochs(p) = [w \in Wins |-> IF Tidy THEN IF w \in open[p] THEN count_epoch[p][w] + 1
                                                       ELSE count_epoch[p][w] ELSE 0]
    BY <2>2 DEF Opened, Epochs
  <2> QED BY <2>1, <2>4, <2>5, <2>6
<1>4. CASE LeaveBarrier(p)
  <2>1. /\ pc[p] = "sync" /\ pc'[p] = "run" /\ open' = open /\ count_epoch' = count_epoch
    BY <1>1, <1>4 DEF LeaveBarrier, tagVars, StateTypes
  <2>2. Opened(p)' = (IF Tidy THEN open[p] ELSE {})
        /\ Epochs(p)' = [w \in Wins |-> IF Tidy THEN count_epoch[p][w] ELSE 0]
    BY <1>1, <2>1, StageRunningNext
  <2>3. Opened(p) = (IF Tidy THEN open[p] ELSE {})
        /\ Epochs(p) = [w \in Wins |-> IF Tidy THEN count_epoch[p][w] ELSE 0]
    BY <1>1, <2>1, StageRunning
  <2> QED BY <2>2, <2>3
<1>5. ASSUME NEW w \in Wins, Join(p, w) PROVE Opened(p)' = Opened(p) /\ Epochs(p)' = Epochs(p)
  <2>1. pc[p] = "join" /\ w \in clearing[p] /\ count_epoch' = count_epoch
    BY <1>5 DEF Join, thread_end, tagVars
  <2>2. clearing[p] = {w} BY <1>1, <2>1 DEF WindowsOf
  <2>3. pc'[p] = AfterJoin(p, w) BY <1>1, <1>5 DEF Join, StateTypes
  <2>4. CASE program[pos[p]] # Barrier
    <3>1. open'[p] = open[p] \ {w} /\ pc'[p] = "run"
      BY <1>1, <1>5, <2>3, <2>4 DEF Join, AfterJoin, StateTypes
    <3>2. /\ Opened(p)' = IF Tidy THEN open'[p] ELSE {}
          /\ Epochs(p)' = [v \in Wins |-> IF Tidy THEN count_epoch'[p][v] ELSE 0]
      BY <1>1, <3>1, StageRunningNext
    <3>3. /\ Opened(p) = IF Tidy THEN open[p] \ {w} ELSE {}
          /\ Epochs(p) = [v \in Wins |-> IF Tidy THEN count_epoch[p][v] ELSE 0]
      BY <2>2, <2>4 DEF Opened, Epochs, AtBarrier
    <3> QED BY <2>1, <3>1, <3>2, <3>3
  <2>5. CASE program[pos[p]] = Barrier
    <3>1. open'[p] = open[p] /\ pc'[p] \in {"reduce", "restart"}
      BY <1>1, <1>5, <2>3, <2>5 DEF Join, AfterJoin, StateTypes
    <3>2. AtBarrier(p) /\ AtBarrier(p)' BY <1>2, <2>1, <2>5, <3>1 DEF AtBarrier
    <3> QED BY <2>1, <3>1, <3>2 DEF Opened, Epochs
  <2> QED BY <2>4, <2>5
<1> QED BY <1>3, <1>4, <1>5

\* Every step is a call of one process, or leaves all processes at their stages.
LEMMA StageStep ==
  ASSUME ProcessInv, [Next]_vars
  PROVE  \/ UNCHANGED <<program, pos>> /\ \A q \in Procs : Stage(q)' = Stage(q)
         \/ \E p \in Procs, op \in Calls :
              /\ Follow(p, op) /\ Led(Stage(p), Stage(p)', op)
              /\ \A q \in Procs \ {p} : Stage(q)' = Stage(q)
<1>1. ProcessInv' BY ProcessStep
<1>2. TagTypeOK /\ TablesInv /\ StateTypes /\ HandlersInv BY DEF ProcessInv
<1>3. CASE UNCHANGED vars
  BY <1>3 DEF vars, tagVars, appVars, Stage, Opened, Epochs, AtBarrier
<1>4. CASE Reduce
  <2>1. /\ UNCHANGED <<program, pos, win_mpi_tag_id, mpi_tag, count_epoch, clearing, open, state_htbl>>
        /\ \A q \in Procs : pc[q] = "reduce" /\ pc'[q] = "join"
    BY <1>4 DEF Reduce, tagVars
  <2>2. \A q \in Procs : Stage(q)' = Stage(q) BY ZenonT(60), <2>1 DEF Stage, Opened, Epochs, AtBarrier
  <2> QED BY <2>1, <2>2
<1>5. ASSUME NEW p \in Procs,
             Restart(p) \/ LeaveBarrier(p) \/ \E w \in Wins : Join(p, w)
      PROVE  UNCHANGED <<program, pos>> /\ \A q \in Procs : Stage(q)' = Stage(q)
  <2>1. UNCHANGED <<program, pos>> BY <1>5 DEF Restart, LeaveBarrier, Join, tagVars
  <2>2. Stage(p)' = Stage(p) BY <1>1, <1>5, StageWithin
  <2>3. \A q \in Procs \ {p} : SameWindows(q) BY <1>2, <1>5, OthersKept
  <2>4. \A q \in Procs \ {p} : Stage(q)' = Stage(q) BY <2>3, StageKept
  <2> QED BY <2>1, <2>2, <2>4
<1>6. ASSUME NEW p \in Procs, NEW op \in Calls, Follow(p, op), Led(Stage(p), Stage(p)', op),
             \A q \in Procs \ {p} : SameWindows(q)
      PROVE  \A q \in Procs \ {p} : Stage(q)' = Stage(q)
  BY <1>6, StageKept
<1>7. ASSUME NEW p \in Procs, NEW w \in Wins, Create(p, w) \/ WinFree(p, w)
      PROVE  \E op \in Calls : /\ Follow(p, op) /\ Led(Stage(p), Stage(p)', op)
                               /\ \A q \in Procs \ {p} : Stage(q)' = Stage(q)
  <2>1. \E op \in Calls : Follow(p, op) /\ Led(Stage(p), Stage(p)', op) BY <1>1, <1>7, StageWindow
  <2>2. \A q \in Procs \ {p} : SameWindows(q) BY <1>2, <1>7, OthersKept
  <2> QED BY <1>6, <2>1, <2>2
<1>8. ASSUME NEW p \in Procs, EnterBarrier(p) \/ \E w \in Wins : Open(p, w) \/ Close(p, w)
      PROVE  \E op \in Calls : /\ Follow(p, op) /\ Led(Stage(p), Stage(p)', op)
                               /\ \A q \in Procs \ {p} : Stage(q)' = Stage(q)
  <2>1. \E op \in Calls : Follow(p, op) /\ Led(Stage(p), Stage(p)', op) BY <1>1, <1>8, StageEpoch
  <2>2. \A q \in Procs \ {p} : SameWindows(q) BY <1>2, <1>8, OthersKept
  <2> QED BY <1>6, <2>1, <2>2
<1>9. ASSUME NEW p \in Procs, NEW w \in Wins,
             \/ \E q \in Procs : Put(p, q, w)
             \/ PostRecv(p, w) \/ (\E m \in net : Receive(p, w, m)) \/ Exit(p, w)
      PROVE  UNCHANGED <<program, pos>> /\ \A q \in Procs : Stage(q)' = Stage(q)
  BY ZenonT(60), <1>9 DEF Put, PostRecv, Receive, Exit, tagVars, appVars, Stage, Opened, Epochs, AtBarrier
<1>10. CASE Terminating BY <1>3, <1>10 DEF Terminating
<1> QED BY <1>3, <1>4, <1>5, <1>7, <1>8, <1>9, <1>10 DEF Next

\* What a stage is like: the windows in an epoch exist, and the tags of two
\* windows are those of two ranges.
StageOK(s) ==
  /\ s.tags \in [Wins -> Int] /\ s.open \subseteq Wins /\ s.epochs \in [Wins -> Nat]
  /\ \A w \in s.open : s.tags[w] # NoTag
  /\ ~ Tidy => s.open = {} /\ \A w \in Wins : s.epochs[w] = 0
  /\ FewWindows =>
       \A v, w \in Wins : v # w /\ s.tags[v] # NoTag /\ s.tags[w] # NoTag =>
         \A d, e \in 1 .. RMA_ANALYZER_MAX_EPOCH_NUMBER : s.tags[v] + d # s.tags[w] + e

LEMMA StageIsOK == ASSUME ProcessInv, RangesInv, NEW p \in Procs PROVE StageOK(Stage(p))
<1>1. /\ mpi_tag \in [Procs -> [Wins -> {NoTag} \union FirstTags]]
      /\ count_epoch \in [Procs -> [Wins -> 0 .. MaxEpochs]]
      /\ WindowsOf(p) /\ StateTypes /\ TagTypeOK /\ Listed(p) = {w \in Wins : Live(p, w)}
  BY DEF ProcessInv, TagTypeOK, HandlersInv, TablesInv
<1>2. PICK s : s = Stage(p) OBVIOUS
<1>3. s.tags = mpi_tag[p] /\ s.open = Opened(p) /\ s.epochs = Epochs(p) BY <1>2 DEF Stage
<1>4. s.tags \in [Wins -> Int] BY <1>1, <1>3, EpochTagType
<1>5. s.open \subseteq open[p] BY <1>3 DEF Opened
<1>6. open[p] \subseteq Wins /\ \A w \in open[p] : Live(p, w) BY <1>1 DEF StateTypes, WindowsOf
<1>7. \A w \in Wins : count_epoch[p][w] \in Nat BY <1>1, EpochTagType
<1>8. s.epochs \in [Wins -> Nat] BY <1>3, <1>7 DEF Epochs
<1>9. ~ Tidy => s.open = {} /\ \A w \in Wins : s.epochs[w] = 0 BY <1>3 DEF Opened, Epochs
<1>10. ASSUME FewWindows, NEW v \in Wins, NEW w \in Wins, v # w, s.tags[v] # NoTag, s.tags[w] # NoTag,
              NEW d \in 1 .. RMA_ANALYZER_MAX_EPOCH_NUMBER, NEW e \in 1 .. RMA_ANALYZER_MAX_EPOCH_NUMBER
       PROVE  s.tags[v] + d # s.tags[w] + e
  <2>1. Live(p, v) /\ Live(p, w) BY <1>3, <1>10 DEF Live
  <2>2. mpi_tag[p][v] # mpi_tag[p][w] BY <1>10, <2>1 DEF RangesInv, RangesOK
  <2>3. PICK i \in RangeIds : mpi_tag[p][v] = Tag(i) BY <2>1 DEF RangesInv, RangesOK
  <2>4. PICK j \in RangeIds : mpi_tag[p][w] = Tag(j) BY <2>1 DEF RangesInv, RangesOK
  <2>5. i \in Int /\ j \in Int /\ RMA_ANALYZER_MAX_EPOCH_NUMBER \in Nat BY RangeIdTypes
  <2>6. /\ Tag(i) \in Int /\ Tag(j) \in Int
        /\ i < j => Tag(i) + RMA_ANALYZER_MAX_EPOCH_NUMBER <= Tag(j)
        /\ j < i => Tag(j) + RMA_ANALYZER_MAX_EPOCH_NUMBER <= Tag(i)
    BY TagsOfRanges
  <2>7. i < j \/ j < i BY <2>2, <2>3, <2>4, <2>5
  <2> QED BY <1>3, <2>3, <2>4, <2>5, <2>6, <2>7
<1> QED BY <1>2, <1>4, <1>5, <1>6, <1>3, <1>8, <1>9, <1>10 DEF StageOK, Live

StagesOK == \A p \in Procs : StageOK(Stage(p))

LEMMA StagesAreOK == ProcessInv /\ RangesInv => StagesOK
BY StageIsOK DEF StagesOK

LEMMA StagesStayOK == ProcessInv' /\ RangesInv' => StagesOK'
BY StagesAreOK, PTL

\* The epochs of w that are over, and whether the call op ends the one it is in.
Ended(s, w) == s.epochs[w] - (IF w \in s.open THEN 1 ELSE 0)
Ends(s, op, w) == w \in s.open /\ op \in {Barrier, <<"close", w>>}

\* What a call does to a window.
LEMMA LedEffect ==
  ASSUME NEW s, NEW t, NEW op, NEW w \in Wins, StageOK(s), StageOK(t), Led(s, t, op)
  PROVE  /\ s.tags[w] # NoTag /\ op # <<"free", w>> => t.tags[w] = s.tags[w] /\ op # <<"create", w>>
         /\ op # <<"create", w>> => s.epochs[w] <= t.epochs[w] /\ Ended(s, w) <= Ended(t, w)
         /\ s.tags[w] = NoTag /\ op # <<"create", w>> => t.tags[w] = NoTag
         /\ w \in s.open /\ ~ Ends(s, op, w) =>
              /\ w \in t.open /\ t.epochs[w] = s.epochs[w] /\ t.tags[w] = s.tags[w]
              /\ op # <<"create", w>>
         /\ Ends(s, op, w) => Ended(t, w) >= s.epochs[w] /\ op # <<"create", w>>
<1>1. /\ s.tags \in [Wins -> Int] /\ s.open \subseteq Wins /\ s.epochs[w] \in Nat
      /\ t.tags \in [Wins -> Int] /\ t.open \subseteq Wins /\ t.epochs[w] \in Nat
      /\ w \in s.open => s.tags[w] # NoTag
      /\ ~ Tidy => s.open = {} /\ s.epochs[w] = 0
  BY DEF StageOK
<1>2. /\ t.tags = TagsAfter(s, op) /\ t.open = OpenAfter(s, op)
      /\ t.epochs[w] = IF ~ Tidy \/ op = <<"create", w>> THEN 0
                       ELSE IF Begins(s, op, w) THEN s.epochs[w] + 1 ELSE s.epochs[w]
  BY DEF Led, EpochsAfter
<1>3. CASE op = Barrier
  <2>1. /\ op[1] = "barrier" /\ \A v \in Wins : /\ op # <<"create", v>> /\ op # <<"open", v>>
                                                /\ op # <<"free", v>> /\ op # <<"close", v>>
    BY <1>3 DEF Barrier
  <2>2. t.tags = s.tags BY <1>2, <2>1 DEF TagsAfter
  <2>3. t.open = s.open BY <1>1, <1>2, <2>1 DEF OpenAfter
  <2>4. t.epochs[w] = IF w \in s.open THEN s.epochs[w] + 1 ELSE s.epochs[w]
    BY <1>1, <1>2, <1>3, <2>1 DEF Begins
  <2> QED BY <1>1, <1>3, <2>1, <2>2, <2>3, <2>4 DEF Ended, Ends
<1>4. ASSUME NEW v \in Wins, op = <<"create", v>>, s.tags[v] = NoTag
      PROVE  /\ s.tags[w] # NoTag /\ op # <<"free", w>> => t.tags[w] = s.tags[w] /\ op # <<"create", w>>
             /\ op # <<"create", w>> => s.epochs[w] <= t.epochs[w] /\ Ended(s, w) <= Ended(t, w)
             /\ s.tags[w] = NoTag /\ op # <<"create", w>> => t.tags[w] = NoTag
             /\ w \in s.open /\ ~ Ends(s, op, w) =>
                  /\ w \in t.open /\ t.epochs[w] = s.epochs[w] /\ t.tags[w] = s.tags[w]
                  /\ op # <<"create", w>>
             /\ ~ Ends(s, op, w)
  <2>1. /\ op[1] = "create" /\ op[2] = v /\ op # Barrier /\ op # <<"open", w>> /\ op # <<"close", w>>
        /\ op = <<"create", w>> <=> v = w
    BY <1>4 DEF Barrier
  <2>2. PICK x : t.tags = [s.tags EXCEPT ![v] = x] BY <1>2, <2>1 DEF TagsAfter
  <2>3. w # v => t.tags[w] = s.tags[w] BY <1>1, <2>2
  <2>4. t.open = s.open BY <1>1, <1>2, <2>1 DEF OpenAfter
  <2>5. w # v => t.epochs[w] = s.epochs[w] BY <1>1, <1>2, <2>1 DEF Begins
  <2> QED BY <1>1, <1>4, <2>1, <2>3, <2>4, <2>5 DEF Ended, Ends
<1>5. ASSUME NEW v \in Wins, op = <<"free", v>>, v \notin s.open
      PROVE  /\ s.tags[w] # NoTag /\ op # <<"free", w>> => t.tags[w] = s.tags[w]
             /\ s.tags[w] = NoTag => t.tags[w] = NoTag
             /\ s.epochs[w] <= t.epochs[w] /\ Ended(s, w) <= Ended(t, w)
             /\ w \in s.open => w \in t.open /\ t.epochs[w] = s.epochs[w] /\ t.tags[w] = s.tags[w]
             /\ op # <<"create", w>> /\ ~ Ends(s, op, w)
  <2>1. /\ op[1] = "free" /\ op[2] = v /\ op # Barrier /\ op # <<"open", w>> /\ op # <<"close", w>>
        /\ op # <<"create", w>> /\ (op = <<"free", w>> <=> v = w)
    BY <1>5 DEF Barrier
  <2>2. t.tags = [s.tags EXCEPT ![v] = NoTag] BY <1>2, <2>1 DEF TagsAfter
  <2>3. t.tags[w] = IF w = v THEN NoTag ELSE s.tags[w] BY <1>1, <2>2
  <2>4. t.open = s.open BY <1>1, <1>2, <2>1 DEF OpenAfter
  <2>5. t.epochs[w] = s.epochs[w] BY <1>1, <1>2, <2>1 DEF Begins
  <2> QED BY <1>1, <1>5, <2>1, <2>3, <2>4, <2>5 DEF Ended, Ends
<1>6. ASSUME NEW v \in Wins, op = <<"open", v>>, v \notin s.open
      PROVE  /\ t.tags[w] = s.tags[w]
             /\ s.epochs[w] <= t.epochs[w] /\ Ended(s, w) <= Ended(t, w)
             /\ w \in s.open => w \in t.open /\ t.epochs[w] = s.epochs[w]
             /\ op # <<"create", w>> /\ ~ Ends(s, op, w)
  <2>1. /\ op[1] = "open" /\ op[2] = v /\ op # Barrier /\ op # <<"close", w>>
        /\ op # <<"create", w>> /\ (op = <<"open", w>> <=> v = w)
    BY <1>6 DEF Barrier
  <2>2. t.tags = s.tags BY <1>2, <2>1 DEF TagsAfter
  <2>3. Tidy => t.open = s.open \union {v} BY <1>2, <2>1 DEF OpenAfter
  <2>4. ~ Tidy => t.open = {} BY <1>2 DEF OpenAfter
  <2>5. Tidy => t.epochs[w] = IF w = v THEN s.epochs[w] + 1 ELSE s.epochs[w]
    BY <1>1, <1>2, <2>1 DEF Begins
  <2>6. ~ Tidy => t.epochs[w] = 0 BY <1>2
  <2> QED BY <1>1, <1>6, <2>1, <2>2, <2>3, <2>4, <2>5, <2>6 DEF Ended, Ends
<1>7. ASSUME NEW v \in Wins, op = <<"close", v>>, Tidy => v \in s.open
      PROVE  /\ t.tags[w] = s.tags[w]
             /\ s.epochs[w] <= t.epochs[w] /\ Ended(s, w) <= Ended(t, w)
             /\ w \in s.open /\ ~ Ends(s, op, w) => w \in t.open /\ t.epochs[w] = s.epochs[w]
             /\ Ends(s, op, w) => Ended(t, w) >= s.epochs[w]
             /\ op # <<"create", w>>
  <2>1. /\ op[1] = "close" /\ op[2] = v /\ op # Barrier /\ op # <<"open", w>>
        /\ op # <<"create", w>> /\ (op = <<"close", w>> <=> v = w)
    BY <1>7 DEF Barrier
  <2>2. t.tags = s.tags BY <1>2, <2>1 DEF TagsAfter
  <2>3. t.open = s.open \ {v} BY <1>1, <1>2, <2>1 DEF OpenAfter
  <2>4. t.epochs[w] = s.epochs[w] BY <1>1, <1>2, <2>1 DEF Begins
  <2> QED BY <1>1, <1>7, <2>1, <2>2, <2>3, <2>4 DEF Ended, Ends
<1>8. May(s, op) BY DEF Led
<1> QED BY <1>3, <1>4, <1>5, <1>6, <1>7, <1>8 DEF May

LEMMA BirthsNext ==
  ASSUME NEW calls, NEW k \in Nat, NEW w
  PROVE  Births(calls, k + 1, w) = Births(calls, k, w) + (IF calls[k + 1] = <<"create", w>> THEN 1 ELSE 0)
<1> DEFINE S(n) == {i \in 1 .. n : calls[i] = <<"create", w>>}
<1>1. IsFiniteSet(1 .. k) BY FS_Interval
<1>2. IsFiniteSet(S(k)) BY <1>1, FS_Subset
<1>3. 1 .. k + 1 = (1 .. k) \union {k + 1} /\ k + 1 \notin 1 .. k OBVIOUS
<1>4. Births(calls, k, w) = Cardinality(S(k)) /\ Births(calls, k + 1, w) = Cardinality(S(k + 1))
  BY DEF Births
<1>5. PICK b \in Nat : b = Births(calls, k, w) BY BirthsType
<1>6. CASE calls[k + 1] = <<"create", w>>
  <2>1. S(k + 1) = S(k) \union {k + 1} /\ k + 1 \notin S(k) BY <1>3, <1>6
  <2>2. Cardinality(S(k) \union {k + 1}) = Cardinality(S(k)) + 1 BY <1>2, <2>1, FS_AddElement
  <2>3. Births(calls, k + 1, w) = b + 1 BY <1>4, <1>5, <2>1, <2>2
  <2> QED BY <1>5, <1>6, <2>3
<1>7. CASE calls[k + 1] # <<"create", w>>
  <2>1. S(k + 1) = S(k) BY <1>3, <1>7
  <2>2. Births(calls, k + 1, w) = b BY <1>4, <1>5, <2>1
  <2> QED BY <1>5, <1>7, <2>2
<1> QED BY <1>6, <1>7

LEMMA BirthsSame ==
  ASSUME NEW P, NEW Q, NEW k \in Nat, NEW w, \A i \in 1 .. k : P[i] = Q[i]
  PROVE  Births(P, k, w) = Births(Q, k, w)
<1>1. {i \in 1 .. k : P[i] = <<"create", w>>} = {i \in 1 .. k : Q[i] = <<"create", w>>} OBVIOUS
<1> QED BY <1>1 DEF Births

\* From the stage i of the calls P to the stage j: a window that is not freed
\* keeps its range and is not created again; lives and epochs are counted up;
\* an epoch goes on until it is ended.
Since(H, P, i, j, w) ==
  /\ Births(P, i, w) <= Births(P, j, w)
  /\ H[i].tags[w] # NoTag /\ (\A k \in i + 1 .. j : P[k] # <<"free", w>>) =>
       H[j].tags[w] = H[i].tags[w] /\ Births(P, j, w) = Births(P, i, w)
  /\ Births(P, i, w) = Births(P, j, w) =>
       /\ H[i].epochs[w] <= H[j].epochs[w] /\ Ended(H[i], w) <= Ended(H[j], w)
       /\ H[i].tags[w] = NoTag => H[j].tags[w] = NoTag
  /\ w \in H[i].open =>
       \/ /\ w \in H[j].open /\ H[j].epochs[w] = H[i].epochs[w] /\ H[j].tags[w] = H[i].tags[w]
          /\ Births(P, j, w) = Births(P, i, w)
       \/ \E k \in i + 1 .. j :
            /\ Ends(H[k - 1], P[k], w) /\ H[k - 1].epochs[w] = H[i].epochs[w]
            /\ Births(P, k - 1, w) = Births(P, i, w)

LEMMA EndedType ==
  ASSUME NEW s, StageOK(s), NEW w \in Wins PROVE Ended(s, w) \in Int /\ s.epochs[w] \in Nat
BY DEF Ended, StageOK

LEMMA SinceNext ==
  ASSUME NEW H, NEW P, NEW i \in Nat, NEW j \in Nat, NEW w \in Wins, i <= j, Since(H, P, i, j, w),
         StageOK(H[i]), StageOK(H[j]), StageOK(H[j + 1]), Led(H[j], H[j + 1], P[j + 1])
  PROVE  Since(H, P, i, j + 1, w)
<1> DEFINE b(k) == Births(P, k, w)
<1>1. PICK op : op = P[j + 1] OBVIOUS
<1>2. PICK s, t : s = H[j] /\ t = H[j + 1] OBVIOUS
<1>0. /\ H[j].tags[w] # NoTag /\ op # <<"free", w>> =>
           H[j + 1].tags[w] = H[j].tags[w] /\ op # <<"create", w>>
      /\ op # <<"create", w>> =>
           /\ H[j].epochs[w] <= H[j + 1].epochs[w] /\ Ended(H[j], w) <= Ended(H[j + 1], w)
           /\ H[j].tags[w] = NoTag => H[j + 1].tags[w] = NoTag
      /\ w \in H[j].open /\ ~ Ends(H[j], op, w) =>
           /\ w \in H[j + 1].open /\ H[j + 1].epochs[w] = H[j].epochs[w]
           /\ H[j + 1].tags[w] = H[j].tags[w] /\ op # <<"create", w>>
  <2>1. StageOK(s) /\ StageOK(t) /\ Led(s, t, op) BY <1>1, <1>2
  <2>2. /\ s.tags[w] # NoTag /\ op # <<"free", w>> => t.tags[w] = s.tags[w] /\ op # <<"create", w>>
        /\ op # <<"create", w>> => s.epochs[w] <= t.epochs[w] /\ Ended(s, w) <= Ended(t, w)
        /\ s.tags[w] = NoTag /\ op # <<"create", w>> => t.tags[w] = NoTag
        /\ w \in s.open /\ ~ Ends(s, op, w) =>
             /\ w \in t.open /\ t.epochs[w] = s.epochs[w] /\ t.tags[w] = s.tags[w]
             /\ op # <<"create", w>>
    BY <2>1, LedEffect
  <2> QED BY <1>2, <2>2
<1>3. b(i) \in Nat /\ b(j) \in Nat /\ b(j + 1) = b(j) + (IF op = <<"create", w>> THEN 1 ELSE 0)
  BY <1>1, BirthsType, BirthsNext
<1>4. /\ Ended(H[i], w) \in Int /\ H[i].epochs[w] \in Nat /\ Ended(H[j], w) \in Int /\ H[j].epochs[w] \in Nat
      /\ Ended(H[j + 1], w) \in Int /\ H[j + 1].epochs[w] \in Nat
  BY EndedType
<1>5. (j + 1) - 1 = j /\ j + 1 \in i + 1 .. j + 1 /\ i + 1 .. j \subseteq i + 1 .. j + 1 OBVIOUS
<1>6. /\ b(i) <= b(j)
      /\ H[i].tags[w] # NoTag /\ (\A k \in i + 1 .. j : P[k] # <<"free", w>>) =>
           H[j].tags[w] = H[i].tags[w] /\ b(j) = b(i)
      /\ b(i) = b(j) => /\ H[i].epochs[w] <= H[j].epochs[w] /\ Ended(H[i], w) <= Ended(H[j], w)
                        /\ H[i].tags[w] = NoTag => H[j].tags[w] = NoTag
      /\ w \in H[i].open =>
           \/ /\ w \in H[j].open /\ H[j].epochs[w] = H[i].epochs[w] /\ H[j].tags[w] = H[i].tags[w]
              /\ b(j) = b(i)
           \/ \E k \in i + 1 .. j : /\ Ends(H[k - 1], P[k], w) /\ H[k - 1].epochs[w] = H[i].epochs[w]
                                    /\ b(k - 1) = b(i)
  BY DEF Since
<1> HIDE DEF b
<1>7. b(i) <= b(j + 1) BY <1>3, <1>6
<1>8. ASSUME H[i].tags[w] # NoTag, \A k \in i + 1 .. j + 1 : P[k] # <<"free", w>>
      PROVE  H[j + 1].tags[w] = H[i].tags[w] /\ b(j + 1) = b(i)
  <2>1. H[j].tags[w] = H[i].tags[w] /\ b(j) = b(i) BY <1>5, <1>6, <1>8
  <2>2. op # <<"free", w>> BY <1>1, <1>5, <1>8
  <2> QED BY <1>0, <1>3, <1>8, <2>1, <2>2
<1>9. ASSUME b(i) = b(j + 1)
      PROVE  /\ H[i].epochs[w] <= H[j + 1].epochs[w] /\ Ended(H[i], w) <= Ended(H[j + 1], w)
             /\ H[i].tags[w] = NoTag => H[j + 1].tags[w] = NoTag
  <2>1. b(i) = b(j) /\ op # <<"create", w>> BY <1>3, <1>6, <1>9
  <2> QED BY <1>0, <1>4, <1>6, <2>1
<1>10. ASSUME w \in H[i].open
       PROVE  \/ /\ w \in H[j + 1].open /\ H[j + 1].epochs[w] = H[i].epochs[w]
                 /\ H[j + 1].tags[w] = H[i].tags[w] /\ b(j + 1) = b(i)
              \/ \E k \in i + 1 .. j + 1 :
                   /\ Ends(H[k - 1], P[k], w) /\ H[k - 1].epochs[w] = H[i].epochs[w]
                   /\ b(k - 1) = b(i)
  <2>1. CASE /\ w \in H[j].open /\ H[j].epochs[w] = H[i].epochs[w] /\ H[j].tags[w] = H[i].tags[w]
             /\ b(j) = b(i)
    <3>1. CASE Ends(H[j], op, w)
      <4>1. /\ Ends(H[(j + 1) - 1], P[j + 1], w) /\ H[(j + 1) - 1].epochs[w] = H[i].epochs[w]
            /\ b((j + 1) - 1) = b(i)
        BY <1>1, <1>5, <2>1, <3>1
      <4> QED BY <1>5, <4>1
    <3>2. CASE ~ Ends(H[j], op, w) BY <1>0, <1>3, <2>1, <3>2
    <3> QED BY <3>1, <3>2
  <2>2. CASE \E k \in i + 1 .. j : /\ Ends(H[k - 1], P[k], w) /\ H[k - 1].epochs[w] = H[i].epochs[w]
                                   /\ b(k - 1) = b(i)
    BY <1>5, <2>2
  <2> QED BY <1>6, <1>10, <2>1, <2>2
<1> QED BY <1>7, <1>8, <1>9, <1>10 DEF Since, b

LEMMA SinceSelf ==
  ASSUME NEW H, NEW P, NEW i \in Nat, NEW w \in Wins, StageOK(H[i]) PROVE Since(H, P, i, i, w)
BY BirthsType, EndedType DEF Since

\* The stages after each call of the program.
Course(H, P) ==
  /\ \A k \in 0 .. Len(P) : StageOK(H[k])
  /\ \A k \in 1 .. Len(P) : Led(H[k - 1], H[k], P[k])
  /\ \A i, j \in 0 .. Len(P), w \in Wins : i <= j => Since(H, P, i, j, w)

\* The process that is ahead takes the program one call further.
LEMMA CourseGrows ==
  ASSUME NEW L \in Nat, NEW P, NEW Q, Len(P) = L, Len(Q) = L + 1, \A k \in 1 .. L : Q[k] = P[k],
         NEW H, Course(H, P), NEW G, \A k \in 0 .. L : G[k] = H[k],
         StageOK(G[L + 1]), Led(G[L], G[L + 1], Q[L + 1])
  PROVE  Course(G, Q)
<1>1. \A k \in 0 .. L + 1 : StageOK(G[k])
  <2>1. \A k \in 0 .. L : StageOK(G[k]) BY DEF Course
  <2>2. 0 .. L + 1 = (0 .. L) \union {L + 1} OBVIOUS
  <2> QED BY <2>1, <2>2
<1>2. \A k \in 1 .. L + 1 : Led(G[k - 1], G[k], Q[k])
  <2> SUFFICES ASSUME NEW k \in 1 .. L + 1 PROVE Led(G[k - 1], G[k], Q[k]) OBVIOUS
  <2>1. CASE k = L + 1
    <3>1. k - 1 = L BY <2>1
    <3> QED BY <2>1, <3>1
  <2>2. CASE k # L + 1
    <3>1. k \in 1 .. L /\ k - 1 \in 0 .. L /\ k \in 0 .. L BY <2>2
    <3>2. Led(H[k - 1], H[k], P[k]) BY <3>1 DEF Course
    <3> QED BY <3>1, <3>2
  <2> QED BY <2>1, <2>2
<1>3. ASSUME NEW i \in 0 .. L, NEW j \in 0 .. L, NEW w \in Wins, i <= j PROVE Since(G, Q, i, j, w)
  <2>1. Since(H, P, i, j, w) BY <1>3 DEF Course
  <2>2. \A k \in 0 .. L : Births(Q, k, w) = Births(P, k, w)
    <3> SUFFICES ASSUME NEW k \in 0 .. L PROVE Births(Q, k, w) = Births(P, k, w) OBVIOUS
    <3>1. k \in Nat /\ \A n \in 1 .. k : Q[n] = P[n] OBVIOUS
    <3> QED BY <3>1, BirthsSame
  <2>3. G[i] = H[i] /\ G[j] = H[j] OBVIOUS
  <2>4. \A k \in i + 1 .. j : G[k - 1] = H[k - 1] /\ Q[k] = P[k] /\ k - 1 \in 0 .. L OBVIOUS
  <2>5. \A k \in i + 1 .. j : Births(Q, k - 1, w) = Births(P, k - 1, w) BY <2>2, <2>4
  <2>6. Births(Q, i, w) = Births(P, i, w) /\ Births(Q, j, w) = Births(P, j, w) BY <2>2
  <2> QED BY <2>1, <2>3, <2>4, <2>5, <2>6 DEF Since
<1>4. ASSUME NEW i \in 0 .. L + 1, NEW j \in 0 .. L + 1, NEW w \in Wins, i <= j
      PROVE  Since(G, Q, i, j, w)
  <2>1. CASE j = L + 1 /\ i # j
    <3>1. i \in 0 .. L /\ L \in 0 .. L /\ i <= L BY <1>4, <2>1
    <3>2. Since(G, Q, i, L, w) BY <1>3, <3>1
    <3>3. i \in Nat /\ StageOK(G[i]) /\ StageOK(G[L]) BY <1>1, <3>1
    <3>4. Since(G, Q, i, L + 1, w) BY <3>1, <3>2, <3>3, SinceNext
    <3> QED BY <2>1, <3>4
  <2>2. CASE j # L + 1
    <3>1. i \in 0 .. L /\ j \in 0 .. L BY <1>4, <2>2
    <3> QED BY <1>3, <1>4, <3>1
  <2>3. CASE i = j BY <1>1, <2>3, SinceSelf
  <2> QED BY <2>1, <2>2, <2>3
<1> QED BY <1>1, <1>2, <1>4 DEF Course

\* Each process is at its stage of the course, and nobody goes on from a free
\* that not everyone has called.
Reached(H) == \A p \in Procs : Stage(p) = H[pos[p]]
FreesBehind ==
  \A p, q \in Procs : \A k \in 1 .. pos[p] - 1 : program[k][1] = "free" => pos[q] >= k

CourseOf(H) == Course(H, program) /\ Reached(H)

LEMMA FreesBehindStep ==
  ASSUME TagTypeOK, FreesBehind, Placed, NEW p \in Procs, NEW op \in Calls, Follow(p, op)
  PROVE  FreesBehind'
<1>1. /\ pos \in [Procs -> Nat] /\ Len(program) \in Nat /\ \A q \in Procs : pos[q] <= Len(program)
  BY DEF TagTypeOK, Placed
<1>2. /\ pos'[p] = pos[p] + 1 /\ \A q \in Procs \ {p} : pos'[q] = pos[q]
      /\ \A k \in 1 .. Len(program) : program'[k] = program[k]
  BY FollowTypes
<1>3. Returned(p) BY DEF Follow
<1>4. \A q \in Procs : pos'[q] >= pos[q] /\ pos'[q] \in Nat /\ pos[q] \in Nat BY <1>1, <1>2
<1> SUFFICES ASSUME NEW q \in Procs, NEW r \in Procs, NEW k \in 1 .. pos'[q] - 1,
                    program'[k][1] = "free"
             PROVE  pos'[r] >= k
  BY DEF FreesBehind
<1>5. k \in Nat /\ k \in 1 .. Len(program) /\ program[k][1] = "free"
  BY <1>1, <1>2, <1>4
<1>6. CASE k \in 1 .. pos[q] - 1 BY <1>4, <1>5, <1>6 DEF FreesBehind
<1>7. CASE k \notin 1 .. pos[q] - 1
  <2>1. q = p /\ k = pos[p] BY <1>1, <1>2, <1>4, <1>5, <1>7
  <2> QED BY <1>1, <1>3, <1>4, <1>5, <2>1 DEF Returned
<1> QED BY <1>6, <1>7

\* A step extends the course, or follows it.
LEMMA CourseStep ==
  ASSUME ProcessInv, RangesInv, [Next]_vars, NEW H, CourseOf(H)
  PROVE  \E G : CourseOf(G)' /\ \A k \in 0 .. Len(program) : G[k] = H[k]
<1>1. ProcessInv' /\ RangesInv' BY ProcessStep, RangesStep DEF ProcessInv
<1>2. /\ pos \in [Procs -> Nat] /\ Len(program) \in Nat /\ \A q \in Procs : pos[q] <= Len(program)
      /\ TagTypeOK /\ Placed
  BY DEF ProcessInv, TagTypeOK, HandlersInv, Placed
<1>3. Course(H, program) /\ \A q \in Procs : Stage(q) = H[pos[q]] BY DEF CourseOf, Reached
<1>4. CASE UNCHANGED <<program, pos>> /\ \A q \in Procs : Stage(q)' = Stage(q)
  <2>1. Course(H, program') BY <1>3, <1>4
  <2>2. \A q \in Procs : Stage(q)' = H[pos'[q]] BY <1>3, <1>4
  <2>3. CourseOf(H)' BY <2>1, <2>2 DEF CourseOf, Reached
  <2> QED BY <2>3
<1>5. ASSUME NEW p \in Procs, NEW op \in Calls, Follow(p, op), Led(Stage(p), Stage(p)', op),
             \A q \in Procs \ {p} : Stage(q)' = Stage(q)
      PROVE  \E G : CourseOf(G)' /\ \A k \in 0 .. Len(program) : G[k] = H[k]
  <2>1. /\ pos'[p] = pos[p] + 1 /\ \A q \in Procs \ {p} : pos'[q] = pos[q]
        /\ program'[pos[p] + 1] = op
        /\ \A k \in 1 .. Len(program) : program'[k] = program[k]
        /\ \/ pos[p] < Len(program) /\ program' = program
           \/ pos[p] = Len(program) /\ Len(program') = Len(program) + 1
    BY <1>2, <1>5, FollowTypes
  <2>2. PICK t : t = Stage(p)' OBVIOUS
  <2>3. StageOK(t) BY <1>1, <2>2, StagesStayOK DEF StagesOK, StageOK
  <2>4. Led(H[pos[p]], t, op) BY <1>3, <1>5, <2>2
  <2>5. CASE pos[p] < Len(program) /\ program' = program
    <3>1. pos[p] + 1 \in 1 .. Len(program) /\ (pos[p] + 1) - 1 = pos[p] BY <1>2, <2>5
    <3>2. Led(H[(pos[p] + 1) - 1], H[pos[p] + 1], program[pos[p] + 1]) BY <1>3, <3>1 DEF Course
    <3>3. Led(H[pos[p]], H[pos[p] + 1], op) BY <2>1, <2>5, <3>1, <3>2
    <3>4. t = H[pos[p] + 1] BY <2>4, <3>3 DEF Led
    <3>5. \A q \in Procs : Stage(q)' = H[pos'[q]] BY <1>3, <1>5, <2>1, <2>2, <3>4
    <3>6. Course(H, program') BY <1>3, <2>5
    <3>7. CourseOf(H)' BY <3>5, <3>6 DEF CourseOf, Reached
    <3> QED BY <3>7
  <2>6. CASE pos[p] = Len(program) /\ Len(program') = Len(program) + 1
    <3>1. PICK L \in Nat : L = Len(program) BY <1>2
    <3>2. PICK P, Q : P = program /\ Q = program' OBVIOUS
    <3>3. PICK G : G = [k \in 0 .. L + 1 |-> IF k = L + 1 THEN t ELSE H[k]] OBVIOUS
    <3>4. G[L + 1] = t /\ \A k \in 0 .. L : G[k] = H[k] BY <3>1, <3>3
    <3>5. Course(G, Q)
      <4>1. Len(P) = L /\ Len(Q) = L + 1 /\ (\A k \in 1 .. L : Q[k] = P[k]) /\ Q[L + 1] = op
        BY <2>1, <2>6, <3>1, <3>2
      <4>2. Course(H, P) BY <1>3, <3>2
      <4>3. G[L] = H[L] BY <3>1, <3>4
      <4>4. StageOK(G[L + 1]) /\ Led(G[L], G[L + 1], Q[L + 1]) BY <2>3, <2>4, <2>6, <3>1, <3>4, <4>1, <4>3
      <4> QED BY <3>4, <4>1, <4>2, <4>4, CourseGrows
    <3>6. \A q \in Procs : Stage(q)' = G[pos'[q]]
      <4> SUFFICES ASSUME NEW q \in Procs PROVE Stage(q)' = G[pos'[q]] OBVIOUS
      <4>1. CASE q = p BY <2>1, <2>2, <2>6, <3>1, <3>4, <4>1
      <4>2. CASE q # p
        <5>1. pos'[q] = pos[q] /\ pos[q] \in 0 .. L BY <1>2, <2>1, <3>1, <4>2
        <5> QED BY <1>3, <1>5, <3>4, <4>2, <5>1
      <4> QED BY <4>1, <4>2
    <3>7. CourseOf(G)' BY <3>2, <3>5, <3>6 DEF CourseOf, Reached
    <3> QED BY <3>1, <3>4, <3>7
  <2> QED BY <2>1, <2>5, <2>6
<1> QED BY <1>4, <1>5, StageStep

----------------------------------------------------------------------------
(* What follows for the tags and the tables. *)

CourseInv == FreesBehind /\ \E H : CourseOf(H)

LEMMA FreesInit == ASSUME Init PROVE FreesBehind
BY DEF Init, TagInit, FreesBehind

LEMMA FreesStep ==
  ASSUME ProcessInv, FreesBehind, [Next]_vars PROVE FreesBehind'
<1>1. CASE UNCHANGED <<program, pos>> BY <1>1 DEF FreesBehind
<1>2. ASSUME NEW p \in Procs, NEW op \in Calls, Follow(p, op) PROVE FreesBehind'
  BY <1>2, FreesBehindStep DEF ProcessInv, HandlersInv
<1> QED BY <1>1, <1>2, StageStep

LEMMA CourseInit == ASSUME Init, ProcessInv, RangesInv PROVE \E H : CourseOf(H)
<1>1. program = <<>> /\ pos = [p \in Procs |-> 0] BY DEF Init, TagInit
<1>2. PICK s : s = [ids |-> [i \in Ids |-> 0], tags |-> [w \in Wins |-> NoTag], table |-> NULL,
                    open |-> {}, epochs |-> [w \in Wins |-> 0]]
  OBVIOUS
<1>3. \A p \in Procs : Stage(p) = s
  <2> SUFFICES ASSUME NEW p \in Procs PROVE Stage(p) = s OBVIOUS
  <2>1. pc[p] = "run" /\ open[p] = {} /\ clearing[p] = {} /\ \A w \in Wins : count_epoch[p][w] = 0
    BY DEF Init, TagInit
  <2>2. Opened(p) = {} /\ Epochs(p) = [w \in Wins |-> 0] BY <2>1 DEF Opened, Epochs, AtBarrier
  <2>3. win_mpi_tag_id[p] = [i \in Ids |-> 0] /\ mpi_tag[p] = [w \in Wins |-> NoTag] /\ state_htbl[p] = NULL
    BY DEF Init, TagInit
  <2> QED BY <1>2, <2>2, <2>3 DEF Stage
<1>4. StageOK(s)
  <2>1. NoTag \in Int BY TagAssumption DEF NoTag
  <2> QED BY <1>2, <2>1 DEF StageOK
<1>5. PICK H : H = [k \in {0} |-> s] OBVIOUS
<1>6. Len(program) = 0 /\ 0 .. 0 = {0} /\ 1 .. 0 = {} /\ H[0] = s BY <1>1, <1>5
<1>7. \A w \in Wins : Since(H, program, 0, 0, w) BY <1>4, <1>6, SinceSelf
<1>8. Course(H, program) BY <1>4, <1>6, <1>7 DEF Course
<1>9. Reached(H) BY <1>1, <1>3, <1>6 DEF Reached
<1> QED BY <1>8, <1>9 DEF CourseOf

LEMMA CourseInvStep ==
  ASSUME ProcessInv, RangesInv, CourseInv, [Next]_vars PROVE CourseInv'
<1>1. PICK H : CourseOf(H) BY DEF CourseInv
<1>2. \E G : CourseOf(G)' BY <1>1, CourseStep
<1>3. FreesBehind' BY FreesStep DEF CourseInv
<1> QED BY <1>2, <1>3 DEF CourseInv

\* Two processes that have a window have it since the same call.
LEMMA CourseAgrees ==
  ASSUME ProcessInv, CourseInv PROVE TagsAgree
<1>1. PICK H : CourseOf(H) BY DEF CourseInv
<1>2. /\ pos \in [Procs -> Nat] /\ Len(program) \in Nat /\ \A p \in Procs : pos[p] <= Len(program)
  BY DEF ProcessInv, TagTypeOK, HandlersInv, Placed
<1>3. ASSUME NEW p \in Procs, NEW q \in Procs, NEW w \in Wins, Live(p, w), Live(q, w), pos[p] <= pos[q]
      PROVE  mpi_tag[p][w] = mpi_tag[q][w]
  <2>1. pos[p] \in 0 .. Len(program) /\ pos[q] \in 0 .. Len(program) BY <1>2
  <2>2. Stage(p) = H[pos[p]] /\ Stage(q) = H[pos[q]] BY <1>1 DEF CourseOf, Reached
  <2>3. H[pos[p]].tags[w] = mpi_tag[p][w] /\ H[pos[q]].tags[w] = mpi_tag[q][w] BY <2>2 DEF Stage
  <2>4. ASSUME NEW k \in pos[p] + 1 .. pos[q] PROVE program[k] # <<"free", w>>
    <3> SUFFICES ASSUME program[k] = <<"free", w>> PROVE FALSE OBVIOUS
    <3>1. program[k][1] = "free" OBVIOUS
    <3>2. CASE k < pos[q]
      <4>1. k \in 1 .. pos[q] - 1 /\ ~ pos[p] >= k BY <1>2, <3>2
      <4> QED BY <1>1, <3>1, <4>1 DEF CourseInv, FreesBehind
    <3>3. CASE k = pos[q]
      <4>1. pos[q] \in 1 .. Len(program) BY <1>2, <2>1, <3>3
      <4>2. Led(H[pos[q] - 1], H[pos[q]], <<"free", w>>)
        BY <1>1, <3>3, <4>1 DEF CourseOf, Course
      <4>3. <<"free", w>>[1] = "free" /\ <<"free", w>>[2] = w OBVIOUS
      <4>4. \E s : H[pos[q]].tags = [s EXCEPT ![w] = NoTag] BY <4>2, <4>3 DEF Led, TagsAfter
      <4>5. w \in DOMAIN H[pos[q]].tags BY <2>2 DEF Stage, ProcessInv, TagTypeOK
      <4>6. H[pos[q]].tags[w] = NoTag BY <4>4, <4>5
      <4> QED BY <1>3, <2>3, <4>6 DEF Live
    <3> QED BY <1>2, <3>2, <3>3
  <2>5. Since(H, program, pos[p], pos[q], w) BY <1>1, <1>3, <2>1 DEF CourseOf, Course
  <2> QED BY <1>3, <2>3, <2>4, <2>5 DEF Since, Live
<1>4. \A p, q \in Procs : pos[p] <= pos[q] \/ pos[q] <= pos[p] BY <1>2
<1> QED BY <1>3, <1>4 DEF TagsAgree

THEOREM CourseInvCorrect == Spec => [](ProcessInv /\ RangesInv /\ CourseInv)
<1>1. Init => ProcessInv /\ RangesInv /\ CourseInv
  BY ProcessInit, RangesInit, FreesInit, CourseInit DEF CourseInv
<1>2. (ProcessInv /\ RangesInv /\ CourseInv) /\ [Next]_vars => (ProcessInv /\ RangesInv /\ CourseInv)'
  BY ProcessStep, RangesStep, CourseInvStep DEF ProcessInv
<1> QED BY <1>1, <1>2, PTL DEF Spec

\* The processes of a window use one range for it, however far each has come
\* in the program: rma_analyzer_start draws it alone, but from a table that the
\* same calls have filled (TagsAgree).
THEOREM TagsAlwaysAgree == Spec => []TagsAgree
<1>1. ProcessInv /\ RangesInv /\ CourseInv => TagsAgree BY CourseAgrees
<1> QED BY <1>1, CourseInvCorrect, PTL

\* HASH_ITER goes over the windows that exist, and processes that have made the
\* same calls go over them in the same order (TablesAgree).
THEOREM TablesAlwaysAgree == Spec => []TablesAgree
<1>1. ASSUME ProcessInv, CourseInv PROVE TablesAgree
  <2>1. \A p \in Procs : Listed(p) = {w \in Wins : Live(p, w)} BY <1>1 DEF ProcessInv, TablesInv
  <2>2. PICK H : CourseOf(H) BY <1>1 DEF CourseInv
  <2>3. \A p \in Procs : Stage(p) = H[pos[p]] BY <2>2 DEF CourseOf, Reached
  <2>4. \A p \in Procs : Stage(p).table = state_htbl[p] BY DEF Stage
  <2>5. ASSUME NEW p \in Procs, NEW q \in Procs, pos[p] = pos[q] PROVE state_htbl[p] = state_htbl[q]
    <3>1. Stage(p) = Stage(q) BY <2>3, <2>5
    <3> QED BY <2>4, <3>1
  <2> QED BY <2>1, <2>5 DEF TablesAgree
<1> QED BY <1>1, CourseInvCorrect, PTL

----------------------------------------------------------------------------
(* The tables of the job. *)

FindInv == ~ halted /\ \A p \in Procs : TableHolds(state_htbl[p])

LEMMA FindInit == ASSUME Init PROVE FindInv
BY DEF Init, FindInv, TableHolds

\* A thread at its look-up has its window in the table.
LEMMA FindStep ==
  ASSUME ProcessInv, FindInv, [Next]_vars PROVE FindInv'
<1>1. state_htbl = [p \in Procs |-> state_htbl[p]] /\ \A p \in Procs : TableOK(state_htbl[p])
  BY DEF ProcessInv, TablesInv
<1>2. \A p \in Procs : TableHolds(state_htbl'[p])
  <2>1. ASSUME NEW p \in Procs, NEW w \in Wins, Start(p, w),
               state_htbl' = [state_htbl EXCEPT ![p] = HASH_ADD_KEYPTR(@, w)]
        PROVE  \A q \in Procs : TableHolds(state_htbl'[q])
    <3>1. w \notin Elements(state_htbl[p].items) BY <2>1 DEF ProcessInv, TablesInv, Listed, Start
    <3>2. TableHolds(HASH_ADD_KEYPTR(state_htbl[p], w)) BY <1>1, <3>1, TableAddsHold DEF FindInv
    <3>3. \A q \in Procs : state_htbl'[q] = IF q = p THEN HASH_ADD_KEYPTR(state_htbl[p], w) ELSE state_htbl[q]
      BY <1>1, <2>1
    <3> QED BY <3>2, <3>3 DEF FindInv
  <2>2. ASSUME NEW p \in Procs, NEW w \in Wins, Stop(p, w),
               state_htbl' = [state_htbl EXCEPT ![p] = HASH_DELETE(@, w)]
        PROVE  \A q \in Procs : TableHolds(state_htbl'[q])
    <3>1. w \in Elements(state_htbl[p].items) BY <2>2 DEF ProcessInv, TablesInv, Listed, Stop
    <3>2. TableHolds(HASH_DELETE(state_htbl[p], w)) BY <1>1, <3>1, TableDeletesHold DEF FindInv
    <3>3. \A q \in Procs : state_htbl'[q] = IF q = p THEN HASH_DELETE(state_htbl[p], w) ELSE state_htbl[q]
      BY <1>1, <2>2
    <3> QED BY <3>2, <3>3 DEF FindInv
  <2>3. CASE UNCHANGED <<state_htbl, mpi_tag>> BY <2>3 DEF FindInv
  <2> QED BY <2>1, <2>2, <2>3, TableEffect
<1>3. ASSUME NEW p \in Procs, NEW w \in Wins, PostRecv(p, w) PROVE ~ halted'
  <2>1. thr[p][w] = "post" /\ halted' = ~ HASH_FIND(state_htbl[p], w) BY <1>3 DEF PostRecv
  <2>2. ThreadsOf(p) /\ WindowsOf(p) /\ StateTypes BY DEF ProcessInv, HandlersInv
  <2>3. active_epoch[p][w] = 1 BY <2>1, <2>2 DEF ThreadsOf, StateTypes
  <2>4. w \in Elements(state_htbl[p].items) BY <2>2, <2>3 DEF WindowsOf, Listed
  <2>5. TableSound(state_htbl[p], Wins) BY <1>1, TableFinds DEF FindInv
  <2> QED BY <2>1, <2>4, <2>5 DEF TableSound
<1>4. halted' = halted \/ \E p \in Procs, w \in Wins : PostRecv(p, w)
  <2>1. CASE Reduce BY <2>1 DEF Reduce
  <2>2. ASSUME NEW p \in Procs, EnterBarrier(p) \/ Restart(p) \/ LeaveBarrier(p) PROVE halted' = halted
    BY <2>2 DEF EnterBarrier, Restart, LeaveBarrier
  <2>3. ASSUME NEW p \in Procs, NEW w \in Wins,
               Create(p, w) \/ WinFree(p, w) \/ Open(p, w) \/ Close(p, w) \/ Join(p, w)
        PROVE halted' = halted
    BY <2>3 DEF Create, WinFree, Open, Close, Join
  <2>4. ASSUME NEW p \in Procs, NEW w \in Wins, Exit(p, w) \/ \E m \in net : Receive(p, w, m)
        PROVE halted' = halted
    BY <2>4 DEF Receive, Exit
  <2>5. ASSUME NEW p \in Procs, NEW q \in Procs, NEW w \in Wins, Put(p, q, w) PROVE halted' = halted
    BY <2>5 DEF Put
  <2>6. CASE Terminating \/ UNCHANGED vars BY <2>6 DEF Terminating, vars
  <2> QED BY <2>1, <2>2, <2>3, <2>4, <2>5, <2>6 DEF Next
<1> QED BY <1>2, <1>3, <1>4 DEF FindInv

\* The table of every process finds the windows it iterates over and no others,
\* however it has grown, expanded and shrunk, for any hash values: the thread
\* of a window that looks up its state finds it, so that the program never
\* exits there (TablesFind).
THEOREM TablesAlwaysFind == Spec => []TablesFind
<1>1. Init => ProcessInv /\ FindInv BY ProcessInit, FindInit
<1>2. (ProcessInv /\ FindInv) /\ [Next]_vars => (ProcessInv /\ FindInv)' BY ProcessStep, FindStep
<1>3. ASSUME ProcessInv, FindInv PROVE TablesFind
  BY <1>3, TableFinds DEF ProcessInv, TablesInv, FindInv, TablesFind
<1> QED BY <1>1, <1>2, <1>3, PTL DEF Spec

----------------------------------------------------------------------------
(* Tables by themselves. *)

\* n calls on a table, the first of them on none: each adds a key that is not in
\* the table or deletes one that is.  T has the table before and after each.
TableCalls(T, n) ==
  /\ T[0] = NULL
  /\ \A i \in 1 .. n :
       \/ \E k \in Wins \ Elements(T[i - 1].items) : T[i] = HASH_ADD_KEYPTR(T[i - 1], k)
       \/ \E k \in Elements(T[i - 1].items) : T[i] = HASH_DELETE(T[i - 1], k)

\* Whatever is added and deleted in whatever order, and however often a table has
\* expanded with effect or without (HASH_EXPAND_BUCKETS, ineff_expands), each key
\* stands in one chain, its own, once: what TablesSound asks of nine keys.
THEOREM TablesStaySound ==
  ASSUME NEW n \in Nat, NEW T, TableCalls(T, n) PROVE TableSound(T[n], Wins)
<1> DEFINE Sound(i) == TableOK(T[i]) /\ TableHolds(T[i])
<1>1. Sound(0)
  <2>1. NULL = [items |-> NULL.items, buckets |-> NULL.buckets, ineff_expands |-> NULL.ineff_expands]
        /\ NULL.items = <<>>
    BY DEF NULL
  <2>2. TableOK(NULL) /\ TableHolds(NULL) BY <2>1 DEF TableOK, TableHolds
  <2> QED BY <2>2 DEF TableCalls
<1>2. ASSUME NEW i \in 1 .. n, Sound(i - 1) PROVE Sound(i)
  <2>1. PICK t : t = T[i - 1] OBVIOUS
  <2>2. TableOK(t) /\ TableHolds(t) BY <1>2, <2>1
  <2>3. CASE \E k \in Wins \ Elements(t.items) : T[i] = HASH_ADD_KEYPTR(t, k)
    <3>1. PICK k \in Wins : k \notin Elements(t.items) /\ T[i] = HASH_ADD_KEYPTR(t, k) BY <2>3
    <3>2. TableOK(HASH_ADD_KEYPTR(t, k)) /\ TableHolds(HASH_ADD_KEYPTR(t, k))
      BY <2>2, <3>1, TableAdds, TableAddsHold
    <3> QED BY <3>1, <3>2
  <2>4. CASE \E k \in Elements(t.items) : T[i] = HASH_DELETE(t, k)
    <3>1. PICK k : k \in Elements(t.items) /\ T[i] = HASH_DELETE(t, k) BY <2>4
    <3>2. k \in Wins BY <2>2, <3>1 DEF TableOK, Elements
    <3>3. TableOK(HASH_DELETE(t, k)) /\ TableHolds(HASH_DELETE(t, k))
      BY <2>2, <3>1, <3>2, TableDeletes, TableDeletesHold
    <3> QED BY <3>1, <3>3
  <2> QED BY <2>1, <2>3, <2>4 DEF TableCalls
<1>3. Sound(n)
  <2> HIDE DEF Sound
  <2>1. PICK S : S = {i \in 0 .. n : ~ Sound(i)} OBVIOUS
  <2>2. SUFFICES ASSUME S # {} PROVE FALSE BY <2>1
  <2>3. PICK i \in S : \A j \in S : i <= j
    <3>1. S \in SUBSET Nat BY <2>1
    <3> QED BY <2>2, <3>1, LeastNat
  <2>4. i \in 1 .. n BY <1>1, <2>1, <2>3
  <2>5. i - 1 \in 0 .. n /\ ~ i <= i - 1 BY <2>4
  <2>6. Sound(i - 1) BY <2>1, <2>3, <2>5
  <2> QED BY <1>2, <2>1, <2>3, <2>4, <2>6
<1> QED BY <1>3, TableFinds
=============================================================================
