--------------------------- MODULE WindowsEpochs ----------------------------
(***************************************************************************)
(* The epochs of the windows of a job, for programs whose processes end    *)
(* them in order and that have as many ranges of tags as windows: what is  *)
(* sent in an epoch is received in it, by the thread of its window, which  *)
(* is told to wait for just that, and nothing is left to later epochs.     *)
(***************************************************************************)
EXTENDS WindowsProofs

USE DEF Tidy

----------------------------------------------------------------------------
(* The order of the clears, for programs that end their epochs in order.   *)

\* A barrier clears the windows in the order of the table.
FirstInv ==
  \A p \in Procs : pc[p] = "reduce" /\ program[pos[p]] = Barrier => clearing[p] = First(p, Active(p))

LEMMA FirstKept ==
  ASSUME ProcessInv, FirstInv, [Next]_vars, NEW q \in Procs, SameWindows(q)
  PROVE  pc'[q] = "reduce" /\ program'[pos'[q]] = Barrier => clearing'[q] = First(q, Active(q))'
<1> SUFFICES ASSUME pc'[q] = "reduce", program'[pos'[q]] = Barrier
             PROVE  clearing'[q] = First(q, Active(q))'
  OBVIOUS
<1>1. pos[q] \in Nat /\ Len(program) \in Nat /\ pos[q] <= Len(program) /\ WindowsOf(q)
  BY DEF ProcessInv, TagTypeOK, HandlersInv, Placed
<1>2. pc[q] = "reduce" /\ pos[q] > 0 BY <1>1 DEF SameWindows, WindowsOf
<1>3. program'[pos'[q]] = program[pos[q]]
  BY <1>1, <1>2, ProgramGrows DEF SameWindows, ProcessInv, HandlersInv
<1>4. clearing[q] = First(q, Active(q)) BY <1>2, <1>3 DEF FirstInv
<1>5. PICK W : W = Active(q) OBVIOUS
<1>6. Active(q)' = W BY <1>5 DEF Active, Listed, SameWindows
<1>7. First(q, Active(q))' = First(q, W) BY <1>6 DEF First, SameWindows
<1> QED BY <1>4, <1>5, <1>7 DEF SameWindows

LEMMA FirstStep == ASSUME ProcessInv, FirstInv, [Next]_vars PROVE FirstInv'
<1>1. TagTypeOK /\ TablesInv /\ StateTypes /\ HandlersInv BY DEF ProcessInv
<1>2. ASSUME NEW p \in Procs,
             pc'[p] = "reduce" /\ program'[pos'[p]] = Barrier => clearing'[p] = First(p, Active(p))',
             \A q \in Procs \ {p} : SameWindows(q)
      PROVE  FirstInv'
  <2>1. \A q \in Procs \ {p} :
          pc'[q] = "reduce" /\ program'[pos'[q]] = Barrier => clearing'[q] = First(q, Active(q))'
    BY <1>2, FirstKept
  <2>2. \A q \in Procs :
          pc'[q] = "reduce" /\ program'[pos'[q]] = Barrier => clearing'[q] = First(q, Active(q))'
    BY <1>2, <2>1
  <2> QED BY <2>2 DEF FirstInv
<1>3. ASSUME \A q \in Procs : SameWindows(q) PROVE FirstInv'
  <2>1. \A q \in Procs :
          pc'[q] = "reduce" /\ program'[pos'[q]] = Barrier => clearing'[q] = First(q, Active(q))'
    BY <1>3, FirstKept
  <2> QED BY <2>1 DEF FirstInv
<1>4. CASE UNCHANGED vars
  BY <1>3, <1>4 DEF vars, tagVars, appVars, stateVars, threadVars, SameWindows
<1>5. CASE Reduce BY <1>5 DEF Reduce, FirstInv
<1>6. ASSUME NEW p \in Procs, NEW w \in Wins, Create(p, w) \/ WinFree(p, w) \/ Open(p, w)
      PROVE  FirstInv'
  <2>1. \A q \in Procs \ {p} : SameWindows(q) BY <1>1, <1>6, OthersKept
  <2>2. pc'[p] # "reduce" BY <1>1, <1>6 DEF Create, WinFree, Open, Call, appVars, StateTypes
  <2> QED BY <1>2, <2>1, <2>2
<1>12. ASSUME NEW p \in Procs, Restart(p) \/ LeaveBarrier(p) PROVE FirstInv'
  <2>1. \A q \in Procs \ {p} : SameWindows(q) BY <1>1, <1>12, OthersKept
  <2>2. pc'[p] # "reduce" BY <1>1, <1>12 DEF Restart, LeaveBarrier, StateTypes
  <2> QED BY <1>2, <2>1, <2>2
<1>7. ASSUME NEW p \in Procs, NEW w \in Wins, Close(p, w) PROVE FirstInv'
  <2>1. \A q \in Procs \ {p} : SameWindows(q) BY <1>1, <1>7, OthersKept
  <2>2. PICK v \in Wins : Call(p, <<"close", v>>) BY <1>7 DEF Close
  <2>3. <<"close", v>> \in Calls /\ Follow(p, <<"close", v>>) BY <2>2 DEF Call, Follow
  <2>4. program'[pos[p] + 1] = <<"close", v>> /\ pos'[p] = pos[p] + 1 BY <1>1, <2>3, FollowTypes
  <2>5. program'[pos'[p]] # Barrier BY <2>4 DEF Barrier
  <2> QED BY <1>2, <2>1, <2>5
<1>8. ASSUME NEW p \in Procs, EnterBarrier(p) PROVE FirstInv'
  <2>1. \A q \in Procs \ {p} : SameWindows(q) BY <1>1, <1>8, OthersKept
  <2>2. PICK W : W = Active(p) OBVIOUS
  <2>3. state_htbl' = state_htbl /\ active_epoch' = active_epoch /\ clearing'[p] = First(p, W)
    BY <1>1, <1>8, <2>2 DEF EnterBarrier, stateVars, StateTypes
  <2>4. Active(p)' = W BY <2>2, <2>3 DEF Active, Listed
  <2>5. First(p, Active(p))' = First(p, W) BY <2>3, <2>4 DEF First
  <2> QED BY <1>2, <2>1, <2>3, <2>5
<1>9. ASSUME NEW p \in Procs, NEW w \in Wins, Join(p, w) PROVE FirstInv'
  <2>1. \A q \in Procs \ {p} : SameWindows(q) BY <1>1, <1>9, OthersKept
  <2> SUFFICES ASSUME pc'[p] = "reduce", program'[pos'[p]] = Barrier
               PROVE  clearing'[p] = First(p, Active(p))'
    BY <1>2, <2>1
  <2>2. PICK W : W = Left(p, w) OBVIOUS
  <2>3. /\ program[pos[p]] = Barrier /\ state_htbl' = state_htbl /\ clearing'[p] = First(p, W)
        /\ \A v \in Wins : active_epoch'[p][v] = IF v = w THEN 0 ELSE active_epoch[p][v]
    BY <1>1, <1>9, <2>2 DEF Join, tagVars, StateTypes
  <2>4. W = Active(p) \ {w} /\ Listed(p) \subseteq Wins BY <1>1, <2>2, <2>3 DEF Left, TablesInv
  <2>5. Active(p)' = W BY <2>3, <2>4 DEF Active, Listed
  <2>6. First(p, Active(p))' = First(p, W) BY <2>3, <2>5 DEF First
  <2> QED BY <2>3, <2>6
<1>10. ASSUME NEW p \in Procs, NEW w \in Wins,
              \/ \E q \in Procs : Put(p, q, w)
              \/ PostRecv(p, w) \/ (\E m \in net : Receive(p, w, m)) \/ Exit(p, w)
       PROVE  FirstInv'
  <2>1. \A q \in Procs : SameWindows(q)
    BY <1>10 DEF Put, PostRecv, Receive, Exit, tagVars, appVars, stateVars, SameWindows
  <2> QED BY <1>3, <2>1
<1>11. CASE Terminating BY <1>4, <1>11 DEF Terminating
<1> QED BY <1>4, <1>5, <1>6, <1>7, <1>8, <1>9, <1>10, <1>11, <1>12 DEF Next

LEMMA FirstInit == ASSUME Init PROVE FirstInv
BY DEF Init, FirstInv

\* The stage that a process has what it has from: the one before a call that it
\* has not gone through.
Within(p) == pc[p] \in {"reduce", "join", "restart"}
Base(p) == IF Within(p) THEN pos[p] - 1 ELSE pos[p]

LEMMA BaseIs ==
  ASSUME Tidy, ProcessInv, NEW H, CourseOf(H), NEW p \in Procs
  PROVE  /\ Base(p) \in 0 .. Len(program) /\ pos[p] \in 0 .. Len(program)
         /\ H[Base(p)].open = open[p] /\ H[Base(p)].tags = mpi_tag[p]
         /\ \A w \in Wins : /\ H[Base(p)].epochs[w] = count_epoch[p][w]
                            /\ Births(program, Base(p), w) = Life(p, w)
         /\ Within(p) => /\ pos[p] = Base(p) + 1 /\ pos[p] \in 1 .. Len(program)
                         /\ Led(H[Base(p)], H[pos[p]], program[pos[p]])
                         /\ \A w \in Wins :
                              /\ w \in clearing[p] => Ends(H[Base(p)], program[pos[p]], w)
                              /\ Ends(H[Base(p)], program[pos[p]], w) =>
                                   AtBarrier(p) \/ clearing[p] = {w}
                              /\ AtBarrier(p) /\ w \in open[p] => Ends(H[Base(p)], program[pos[p]], w)
<1>1. /\ pos[p] \in Nat /\ Len(program) \in Nat /\ pos[p] <= Len(program) /\ WindowsOf(p)
      /\ HandlersInv /\ StateTypes
      /\ \A w \in Wins : count_epoch[p][w] \in Nat
  BY EpochTagType DEF ProcessInv, TagTypeOK, HandlersInv, Placed
<1>2. Stage(p) = H[pos[p]] /\ Course(H, program) BY DEF CourseOf, Reached
<1>3. PICK t : t = H[pos[p]] OBVIOUS
<1>4. t.open = Opened(p) /\ t.epochs = Epochs(p) /\ t.tags = mpi_tag[p] BY <1>2, <1>3 DEF Stage
<1>5. \A w \in Wins : Life(p, w) = Births(program, pos[p], w) BY LifeIs
<1>6. CASE ~ Within(p)
  <2>1. Base(p) = pos[p] BY <1>6 DEF Base
  <2>2. Opened(p) = open[p] /\ \A w \in Wins : Epochs(p)[w] = count_epoch[p][w]
    BY <1>1, <1>6, StageRunning DEF Within
  <2> QED BY <1>1, <1>3, <1>4, <1>5, <1>6, <2>1, <2>2
<1>7. CASE Within(p)
  <2>1. pos[p] > 0 BY <1>1, <1>7 DEF WindowsOf, Within
  <2>2. Base(p) = pos[p] - 1 /\ Base(p) \in Nat /\ pos[p] = Base(p) + 1 /\ pos[p] \in 1 .. Len(program)
        /\ Base(p) \in 0 .. Len(program)
    BY <1>1, <1>7, <2>1 DEF Base
  <2>3. PICK s, op : s = H[Base(p)] /\ op = program[pos[p]] OBVIOUS
  <2>4. Led(s, t, op) /\ StageOK(s)
    <3>1. Led(H[pos[p] - 1], H[pos[p]], program[pos[p]]) BY <1>2, <2>2 DEF Course
    <3>2. StageOK(H[Base(p)]) BY <1>2, <2>2 DEF Course
    <3> QED BY <1>3, <2>2, <2>3, <3>1, <3>2
  <2>5. /\ s.open \subseteq Wins /\ \A w \in Wins : s.epochs[w] \in Nat
        /\ t.open = OpenAfter(s, op) /\ t.tags = TagsAfter(s, op)
        /\ \A w \in Wins : t.epochs[w] = IF op = <<"create", w>> THEN 0
                                         ELSE IF Begins(s, op, w) THEN s.epochs[w] + 1 ELSE s.epochs[w]
    BY <2>4 DEF StageOK, Led, EpochsAfter
  <2>6. CASE op = Barrier
    <3>1. AtBarrier(p) BY <1>7, <2>3, <2>6 DEF AtBarrier, Within
    <3>2. op[1] = "barrier" /\ \A v \in Wins : op # <<"create", v>> /\ op # <<"open", v>>
      BY <2>6 DEF Barrier
    <3>3. s.open = t.open /\ t.open = open[p] BY <1>4, <2>5, <3>1, <3>2 DEF OpenAfter, Opened
    <3>4. \A w \in Wins : t.epochs[w] = IF w \in open[p] THEN count_epoch[p][w] + 1 ELSE count_epoch[p][w]
      BY <1>4, <3>1 DEF Epochs
    <3>5. \A w \in Wins : t.epochs[w] = IF w \in open[p] THEN s.epochs[w] + 1 ELSE s.epochs[w]
      BY <2>5, <2>6, <3>2, <3>3 DEF Begins
    <3>6. \A w \in Wins : s.epochs[w] = count_epoch[p][w] BY <1>1, <2>5, <3>4, <3>5
    <3>7. s.tags = mpi_tag[p] BY <1>4, <2>5, <3>2 DEF TagsAfter
    <3>8. \A w \in Wins : Births(program, Base(p), w) = Life(p, w)
      <4> SUFFICES ASSUME NEW w \in Wins PROVE Births(program, Base(p), w) = Life(p, w) OBVIOUS
      <4>1. Births(program, Base(p) + 1, w) = Births(program, Base(p), w)
        BY SMTT(40), <2>2, <2>3, <3>2, BirthsNext, BirthsType
      <4> QED BY <1>5, <2>2, <4>1
    <3>9. \A w \in Wins : Ends(s, op, w) <=> w \in open[p] BY <2>6, <3>3 DEF Ends
    <3>10. \A w \in Wins : w \in clearing[p] => w \in open[p] BY <1>1, <1>7 DEF WindowsOf, Within
    <3>11. s.open = open[p] /\ \A w \in Wins : w \in open[p] \/ w \notin open[p] BY <3>3
    <3>12. Led(H[Base(p)], H[pos[p]], program[pos[p]]) BY <1>3, <2>3, <2>4
    <3>13. /\ H[Base(p)].open = open[p] /\ H[Base(p)].tags = mpi_tag[p]
           /\ \A w \in Wins : /\ H[Base(p)].epochs[w] = count_epoch[p][w]
                              /\ Ends(H[Base(p)], program[pos[p]], w) <=> w \in open[p]
      BY <2>3, <3>6, <3>7, <3>9, <3>11
    <3> QED BY <1>1, <2>2, <3>1, <3>8, <3>10, <3>12, <3>13
  <2>7. CASE op # Barrier
    <3>1. pc[p] \in {"reduce", "join"} /\ ~ AtBarrier(p)
      BY <1>1, <1>7, <2>3, <2>7 DEF WindowsOf, Within, AtBarrier
    <3>2. PICK v \in Wins : op = <<"close", v>> /\ clearing[p] = {v}
      BY <1>1, <2>3, <2>7, <3>1 DEF WindowsOf
    <3>3. v \in open[p] /\ open[p] \subseteq Wins BY <1>1, <3>1, <3>2 DEF WindowsOf, StateTypes
    <3>4. /\ op[1] = "close" /\ op[2] = v /\ \A w \in Wins : /\ op # <<"create", w>> /\ op # <<"open", w>>
                                                             /\ op # <<"free", w>>
                                                             /\ (op = <<"close", w>> <=> v = w)
      BY <3>2
    <3>5. v \in s.open BY <2>4, <2>7, <3>4 DEF Led, May
    <3>6. t.open = s.open \ {v} /\ t.open = open[p] \ {v}
      BY <1>4, <2>5, <3>1, <3>2, <3>4 DEF OpenAfter, Opened
    <3>7. s.open = open[p] BY <3>3, <3>5, <3>6
    <3>8. \A w \in Wins : t.epochs[w] = s.epochs[w] /\ t.epochs[w] = count_epoch[p][w]
      BY <1>4, <2>5, <2>7, <3>1, <3>4 DEF Begins, Epochs
    <3>9. s.tags = mpi_tag[p] BY <1>4, <2>5, <3>4 DEF TagsAfter
    <3>10. \A w \in Wins : Births(program, Base(p), w) = Life(p, w)
      <4> SUFFICES ASSUME NEW w \in Wins PROVE Births(program, Base(p), w) = Life(p, w) OBVIOUS
      <4>1. Births(program, Base(p) + 1, w) = Births(program, Base(p), w)
        <5>1. program[Base(p) + 1] # <<"create", w>> BY <2>2, <2>3, <3>4
        <5>2. Base(p) \in Nat BY <2>2
        <5> QED BY <5>1, <5>2, BirthsNext, BirthsType
      <4> QED BY <1>5, <2>2, <4>1
    <3>11. \A w \in Wins : Ends(s, op, w) <=> w = v BY <2>7, <3>4, <3>5 DEF Ends
    <3>12. Led(H[Base(p)], H[pos[p]], program[pos[p]]) BY <1>3, <2>3, <2>4
    <3>13. /\ H[Base(p)].open = open[p] /\ H[Base(p)].tags = mpi_tag[p]
           /\ \A w \in Wins : /\ H[Base(p)].epochs[w] = count_epoch[p][w]
                              /\ Ends(H[Base(p)], program[pos[p]], w) <=> w = v
      BY <2>3, <3>7, <3>8, <3>9, <3>11
    <3>14. \A w \in Wins : w \in clearing[p] <=> w = v BY <3>2
    <3> QED BY <1>1, <2>2, <3>1, <3>2, <3>10, <3>12, <3>13, <3>14
  <2> QED BY <2>6, <2>7
<1> QED BY <1>6, <1>7

\* Process p is past the reductions of window w in the kth call of the program.
Cleared(H, p, k, w) ==
  /\ k \in 1 .. pos[p] /\ Ends(H[k - 1], program[k], w)
  /\ k = pos[p] /\ Within(p) => active_epoch[p][w] = 0 \/ thread_end(p, w)

\* A reduction is one of all processes: they are past the same ones.
InStep(H) ==
  \A p, q \in Procs, w \in Wins :
    \A k \in 1 .. Len(program) : Cleared(H, p, k, w) <=> Cleared(H, q, k, w)

LEMMA ClearedKept ==
  ASSUME ProcessInv, [Next]_vars, NEW H, NEW G, \A n \in 0 .. Len(program) : G[n] = H[n],
         NEW p \in Procs, SameWindows(p), NEW k \in Int, NEW w \in Wins
  PROVE  Cleared(G, p, k, w)' <=> Cleared(H, p, k, w)
<1>1. pos[p] \in Nat /\ Len(program) \in Nat /\ pos[p] <= Len(program)
  BY DEF ProcessInv, TagTypeOK, HandlersInv, Placed
<1>2. \A n \in 1 .. Len(program) : program'[n] = program[n] BY ProgramGrows DEF ProcessInv, HandlersInv
<1>3. k \in 1 .. pos[p] => program'[k] = program[k] /\ G[k - 1] = H[k - 1] BY <1>1, <1>2
<1>4. (Within(p)' <=> Within(p)) /\ (thread_end(p, w)' <=> thread_end(p, w))
  BY DEF SameWindows, Within, thread_end
<1>5. pos'[p] = pos[p] /\ active_epoch'[p][w] = active_epoch[p][w] BY DEF SameWindows
<1> QED BY <1>3, <1>4, <1>5 DEF Cleared

LEMMA ClearedCalls ==
  ASSUME Tidy, ProcessInv, NEW H, CourseOf(H), NEW G, \A n \in 0 .. Len(program) : G[n] = H[n],
         NEW p \in Procs,
         EnterBarrier(p) \/ \E v \in Wins : Create(p, v) \/ WinFree(p, v) \/ Open(p, v) \/ Close(p, v),
         NEW k \in Int, NEW w \in Wins
  PROVE  Cleared(G, p, k, w)' <=> Cleared(H, p, k, w)
<1>1. /\ pos[p] \in Nat /\ Len(program) \in Nat /\ pos[p] <= Len(program)
      /\ WindowsOf(p) /\ StateTypes /\ TagTypeOK
  BY DEF ProcessInv, TagTypeOK, HandlersInv, Placed
<1>2. pc[p] = "run" /\ ~ Within(p) /\ Base(p) = pos[p]
  BY DEF EnterBarrier, Create, WinFree, Open, Close, Call, Within, Base
<1>3. PICK op \in Calls :
        /\ Call(p, op)
        /\ \/ op = Barrier /\ EnterBarrier(p)
           \/ \E v \in Wins : op = <<"close", v>> /\ Close(p, v)
           \/ \E v \in Wins : op \in {<<"create", v>>, <<"free", v>>, <<"open", v>>}
  <2>1. CASE EnterBarrier(p)
    <3>1. Call(p, Barrier) /\ Barrier \in Calls BY <2>1 DEF EnterBarrier, Call, Follow
    <3> QED BY <2>1, <3>1
  <2>2. ASSUME NEW v \in Wins, Close(p, v)
        PROVE  Call(p, <<"close", v>>) /\ <<"close", v>> \in Calls
    BY <2>2 DEF Close, Call, Follow
  <2>3. ASSUME NEW v \in Wins, Create(p, v)
        PROVE  Call(p, <<"create", v>>) /\ <<"create", v>> \in Calls
    BY <2>3 DEF Create, Call, Follow
  <2>4. ASSUME NEW v \in Wins, WinFree(p, v)
        PROVE  Call(p, <<"free", v>>) /\ <<"free", v>> \in Calls
    BY <2>4 DEF WinFree, Call, Follow
  <2>5. ASSUME NEW v \in Wins, Open(p, v)
        PROVE  Call(p, <<"open", v>>) /\ <<"open", v>> \in Calls
    BY <2>5 DEF Open, Call, Follow
  <2> QED BY <2>1, <2>2, <2>3, <2>4, <2>5
<1>4. /\ pos'[p] = pos[p] + 1 /\ program'[pos[p] + 1] = op
      /\ \A n \in 1 .. Len(program) : program'[n] = program[n]
  BY <1>1, <1>3, FollowTypes DEF Call
<1>5. ASSUME k \in 1 .. pos[p] PROVE Cleared(G, p, k, w)' <=> Cleared(H, p, k, w)
  <2>1. k \in 1 .. pos'[p] /\ k # pos'[p] /\ k \in 1 .. Len(program) /\ k - 1 \in 0 .. Len(program)
    BY <1>1, <1>4, <1>5
  <2>2. program'[k] = program[k] /\ G[k - 1] = H[k - 1] BY <1>1, <1>4, <2>1
  <2> QED BY <1>2, <1>5, <2>1, <2>2 DEF Cleared
<1>6. ASSUME k \notin 1 .. pos[p], Cleared(G, p, k, w)' PROVE FALSE
  <2>1. k = pos[p] + 1 /\ k - 1 = pos[p] BY <1>1, <1>4, <1>6 DEF Cleared
  <2>2. program'[k] = op /\ k = pos'[p] /\ G[k - 1] = H[Base(p)] BY <1>1, <1>2, <1>4, <2>1
  <2>3. Ends(H[Base(p)], op, w) /\ (Within(p)' => active_epoch'[p][w] = 0 \/ thread_end(p, w)')
    BY <1>6, <2>2 DEF Cleared
  <2>4. w \in open[p] /\ op \in {Barrier, <<"close", w>>} BY <2>3, BaseIs DEF Ends
  <2>5. active_epoch[p][w] = 1 BY <1>1, <1>2, <2>4 DEF WindowsOf, AtBarrier
  <2>6. CASE op = Barrier
    <3>1. EnterBarrier(p) BY <1>3, <2>6 DEF Barrier
    <3>2. active_epoch' = active_epoch /\ pc'[p] \in {"restart", "reduce"}
      BY <1>1, <3>1 DEF EnterBarrier, stateVars, StateTypes
    <3>3. Within(p)' /\ ~ thread_end(p, w)' BY <3>2 DEF Within, thread_end
    <3> QED BY <2>3, <2>5, <3>2, <3>3
  <2>7. CASE op = <<"close", w>>
    <3>1. \E v \in Wins : Close(p, v) BY <1>3, <2>7 DEF Barrier
    <3>2. active_epoch' = active_epoch /\ pc'[p] = "reduce" BY <1>1, <3>1 DEF Close, stateVars, StateTypes
    <3>3. Within(p)' /\ ~ thread_end(p, w)' BY <3>2 DEF Within, thread_end
    <3> QED BY <2>3, <2>5, <3>2, <3>3
  <2> QED BY <2>4, <2>6, <2>7
<1> QED BY <1>5, <1>6 DEF Cleared

LEMMA ClearedWithin ==
  ASSUME Tidy, ProcessInv, NEW H, CourseOf(H), NEW G, \A n \in 0 .. Len(program) : G[n] = H[n],
         NEW p \in Procs, Restart(p) \/ LeaveBarrier(p) \/ \E v \in Wins : Join(p, v),
         NEW k \in Int, NEW w \in Wins
  PROVE  Cleared(G, p, k, w)' <=> Cleared(H, p, k, w)
<1>1. /\ pos[p] \in Nat /\ Len(program) \in Nat /\ pos[p] <= Len(program)
      /\ WindowsOf(p) /\ StateTypes /\ TagTypeOK
  BY DEF ProcessInv, TagTypeOK, HandlersInv, Placed
<1>2. UNCHANGED <<program, pos>> BY DEF Restart, LeaveBarrier, Join, tagVars
<1>3. k \in 1 .. pos[p] => G[k - 1] = H[k - 1] BY <1>1
<1>4. ASSUME k = pos[p], k \in 1 .. pos[p], Ends(H[k - 1], program[k], w)
      PROVE  (Within(p)' => active_epoch'[p][w] = 0 \/ thread_end(p, w)') <=>
             (Within(p) => active_epoch[p][w] = 0 \/ thread_end(p, w))
  <2>1. CASE Restart(p)
    <3>1. pc[p] = "restart" /\ pc'[p] = "sync" BY <1>1, <2>1 DEF Restart, StateTypes
    <3>2. ~ Within(p)' /\ active_epoch[p][w] = 0 BY <1>1, <3>1 DEF Within, WindowsOf
    <3> QED BY <3>2
  <2>2. CASE LeaveBarrier(p)
    <3>1. pc[p] = "sync" /\ pc'[p] = "run" BY <1>1, <2>2 DEF LeaveBarrier, StateTypes
    <3> QED BY <3>1 DEF Within
  <2>3. ASSUME NEW v \in Wins, Join(p, v)
        PROVE  (Within(p)' => active_epoch'[p][w] = 0 \/ thread_end(p, w)') <=>
               (Within(p) => active_epoch[p][w] = 0 \/ thread_end(p, w))
    <3>1. pc[p] = "join" /\ v \in clearing[p] /\ pc'[p] = AfterJoin(p, v)
      BY <1>1, <2>3 DEF Join, thread_end, StateTypes
    <3>2. clearing[p] = {v} /\ Within(p) BY <1>1, <3>1 DEF WindowsOf, Within
    <3>3. k - 1 = Base(p) BY <1>1, <1>4, <3>2 DEF Base
    <3>4. Ends(H[Base(p)], program[pos[p]], w) BY <1>4, <3>3
    <3>5. AtBarrier(p) \/ w = v BY <3>2, <3>4, BaseIs
    <3>6. active_epoch'[p][w] = IF w = v THEN 0 ELSE active_epoch[p][w]
      BY <1>1, <2>3 DEF Join, StateTypes
    <3>7. thread_end(p, w) <=> w = v BY <3>1, <3>2 DEF thread_end
    <3>8. pc'[p] # "join" /\ ~ thread_end(p, w)' BY <3>1 DEF AfterJoin, thread_end
    <3>9. CASE w = v BY <3>6, <3>7, <3>9
    <3>10. CASE w # v
      <4>1. Within(p)' BY <3>1, <3>2, <3>5, <3>10 DEF AfterJoin, AtBarrier, Within
      <4> QED BY <3>2, <3>6, <3>7, <3>8, <3>10, <4>1
    <3> QED BY <3>9, <3>10
  <2> QED BY <2>1, <2>2, <2>3
<1> QED BY <1>2, <1>3, <1>4 DEF Cleared

LEMMA ClearedReduce ==
  ASSUME Tidy, ProcessInv, NEW H, CourseOf(H), NEW G, \A n \in 0 .. Len(program) : G[n] = H[n],
         Reduce, NEW p \in Procs, NEW k \in Int, NEW w \in Wins
  PROVE  Cleared(G, p, k, w)' <=> Cleared(H, p, k, w) \/ (k = pos[p] /\ w \in clearing[p])
<1>1. /\ pos[p] \in Nat /\ Len(program) \in Nat /\ pos[p] <= Len(program) /\ WindowsOf(p)
  BY DEF ProcessInv, TagTypeOK, HandlersInv, Placed
<1>2. pc[p] = "reduce" /\ pc'[p] = "join" /\ UNCHANGED <<program, pos, clearing, active_epoch>>
  BY DEF Reduce, tagVars
<1>3. k \in 1 .. pos[p] => G[k - 1] = H[k - 1] BY <1>1
<1>4. Within(p) /\ Within(p)' /\ ~ thread_end(p, w) /\ (thread_end(p, w)' <=> w \in clearing[p])
  BY <1>2 DEF Within, thread_end
<1>5. pos[p] \in 1 .. pos[p] /\ pos[p] - 1 = Base(p) BY <1>1, <1>2, <1>4 DEF WindowsOf, Base
<1>6. w \in clearing[p] => Ends(H[Base(p)], program[pos[p]], w) BY <1>4, BaseIs
<1> QED BY <1>2, <1>3, <1>4, <1>5, <1>6 DEF Cleared

\* In a reduction, all processes are in the same call and clear the same window.
LEMMA AtReduce ==
  ASSUME Tidy, ProcessInv, FirstInv, NEW H, CourseOf(H), InStep(H),
         \A p \in Procs : pc[p] = "reduce", NEW p \in Procs, NEW q \in Procs
  PROVE  pos[p] = pos[q] /\ clearing[p] = clearing[q]
<1>1. \A r \in Procs : /\ pos[r] \in Nat /\ Len(program) \in Nat /\ pos[r] <= Len(program) /\ WindowsOf(r)
                       /\ Within(r) /\ pos[r] > 0 /\ Listed(r) \subseteq Wins
  BY DEF ProcessInv, TagTypeOK, HandlersInv, Placed, Within, WindowsOf, TablesInv
<1>2. ASSUME NEW r \in Procs, NEW s \in Procs, pos[r] < pos[s] PROVE FALSE
  <2>1. PICK w \in Wins : clearing[r] = {w} /\ active_epoch[r][w] = 1 BY <1>1 DEF WindowsOf
  <2>2. Ends(H[Base(r)], program[pos[r]], w) BY <1>1, <2>1, BaseIs
  <2>3. pos[r] - 1 = Base(r) /\ pos[r] \in 1 .. pos[s] /\ pos[r] # pos[s] /\ pos[r] \in 1 .. Len(program)
    BY <1>1, <1>2 DEF Base
  <2>4. Cleared(H, s, pos[r], w) BY <2>2, <2>3 DEF Cleared
  <2>5. ~ Cleared(H, r, pos[r], w) BY <1>1, <2>1 DEF Cleared, thread_end
  <2> QED BY <2>3, <2>4, <2>5 DEF InStep
<1>3. pos[p] = pos[q] BY <1>1, <1>2
<1>4. CASE program[pos[p]] # Barrier
  <2>1. /\ \E w \in Wins : program[pos[p]] = <<"close", w>> /\ clearing[p] = {w}
        /\ \E w \in Wins : program[pos[p]] = <<"close", w>> /\ clearing[q] = {w}
    BY <1>1, <1>3, <1>4 DEF WindowsOf
  <2> QED BY <1>3, <2>1
<1>5. CASE program[pos[p]] = Barrier
  <2>1. clearing[p] = First(p, Active(p)) /\ clearing[q] = First(q, Active(q))
    BY <1>3, <1>5 DEF FirstInv
  <2>2. Base(p) = Base(q) /\ pos[p] \in 1 .. pos[p] /\ pos[p] - 1 = Base(p) BY <1>1, <1>3 DEF Base
  <2>3. /\ AtBarrier(p) /\ AtBarrier(q)
        /\ H[Base(p)].open = open[p] /\ H[Base(p)].open = open[q]
    BY <1>1, <1>3, <1>5, <2>2, BaseIs DEF AtBarrier
  <2>4. ASSUME NEW r \in Procs, pos[r] = pos[p], open[r] = open[p]
        PROVE  Active(r) = {w \in open[p] : ~ Cleared(H, r, pos[p], w)}
    <3>1. /\ open[p] \subseteq Listed(r) /\ Listed(r) \subseteq Wins
          /\ \A w \in Wins : active_epoch[r][w] = 1 => w \in open[p]
      BY <1>1, <2>4 DEF WindowsOf
    <3>2. \A w \in open[p] : Ends(H[Base(p)], program[pos[p]], w) BY <1>5, <2>3 DEF Ends
    <3>3. \A w \in open[p] : Cleared(H, r, pos[p], w) <=> active_epoch[r][w] = 0
      BY <1>1, <2>2, <2>4, <3>2 DEF Cleared, thread_end
    <3>4. \A w \in Wins : active_epoch[r][w] \in {0, 1} BY DEF ProcessInv, StateTypes
    <3> QED BY <3>1, <3>3, <3>4 DEF Active
  <2>5. Active(p) = {w \in open[p] : ~ Cleared(H, p, pos[p], w)} BY <2>4
  <2>6. Active(q) = {w \in open[p] : ~ Cleared(H, q, pos[p], w)} BY <1>3, <2>3, <2>4
  <2>7. \A w \in open[p] : Cleared(H, p, pos[p], w) <=> Cleared(H, q, pos[p], w)
    <3>1. open[p] \subseteq Wins /\ pos[p] \in 1 .. Len(program) BY <1>1 DEF ProcessInv, StateTypes
    <3> QED BY <3>1 DEF InStep
  <2>8. PICK W : W = Active(p) /\ W = Active(q) BY <2>5, <2>6, <2>7
  <2>9. state_htbl[p] = state_htbl[q]
    <3>1. Stage(p) = Stage(q) BY <1>3 DEF CourseOf, Reached
    <3>2. Stage(p).table = state_htbl[p] /\ Stage(q).table = state_htbl[q] BY DEF Stage
    <3> QED BY <3>1, <3>2
  <2>10. First(p, W) = First(q, W) BY <2>9 DEF First
  <2> QED BY <1>3, <2>1, <2>8, <2>10
<1> QED BY <1>3, <1>4, <1>5

LEMMA InStepStep ==
  ASSUME Tidy, ProcessInv, FirstInv, [Next]_vars, NEW H, CourseOf(H), InStep(H),
         NEW G, CourseOf(G)', \A n \in 0 .. Len(program) : G[n] = H[n]
  PROVE  InStep(G)'
<1>1. /\ pos \in [Procs -> Nat] /\ Len(program) \in Nat /\ \A p \in Procs : pos[p] <= Len(program)
      /\ TagTypeOK /\ TablesInv /\ StateTypes
  BY DEF ProcessInv, TagTypeOK, HandlersInv, Placed
<1>2. Len(program') \in Nat BY ProcessStep DEF ProcessInv, TagTypeOK
<1>3. ASSUME \A p \in Procs, w \in Wins : \A k \in Int : Cleared(G, p, k, w)' <=> Cleared(H, p, k, w)
      PROVE  InStep(G)'
  <2> SUFFICES ASSUME NEW p \in Procs, NEW q \in Procs, NEW w \in Wins, NEW k \in 1 .. Len(program')
               PROVE  Cleared(G, p, k, w)' <=> Cleared(G, q, k, w)'
    BY DEF InStep
  <2>1. k \in Int BY <1>2
  <2>2. Cleared(H, p, k, w) <=> Cleared(H, q, k, w)
    <3>1. CASE k \in 1 .. Len(program) BY <3>1 DEF InStep
    <3>2. CASE k \notin 1 .. Len(program)
      <4>1. k \notin 1 .. pos[p] /\ k \notin 1 .. pos[q] BY <1>1, <2>1, <3>2
      <4> QED BY <4>1 DEF Cleared
    <3> QED BY <3>1, <3>2
  <2> QED BY <1>3, <2>1, <2>2
<1>4. ASSUME NEW p \in Procs, \A q \in Procs \ {p} : SameWindows(q),
             \A k \in Int, w \in Wins : Cleared(G, p, k, w)' <=> Cleared(H, p, k, w)
      PROVE  InStep(G)'
  <2>1. \A q \in Procs \ {p}, w \in Wins : \A k \in Int : Cleared(G, q, k, w)' <=> Cleared(H, q, k, w)
    BY <1>4, ClearedKept
  <2> QED BY <1>3, <1>4, <2>1
<1>5. ASSUME \A q \in Procs : SameWindows(q) PROVE InStep(G)' BY <1>3, <1>5, ClearedKept
<1>6. CASE UNCHANGED vars
  BY <1>5, <1>6 DEF vars, tagVars, appVars, stateVars, threadVars, SameWindows
<1>7. CASE Reduce
  <2> SUFFICES ASSUME NEW p \in Procs, NEW q \in Procs, NEW w \in Wins, NEW k \in 1 .. Len(program')
               PROVE  Cleared(G, p, k, w)' <=> Cleared(G, q, k, w)'
    BY DEF InStep
  <2>1. k \in 1 .. Len(program) /\ k \in Int BY <1>1, <1>7 DEF Reduce, tagVars
  <2>2. Cleared(H, p, k, w) <=> Cleared(H, q, k, w) BY <2>1 DEF InStep
  <2>3. pos[p] = pos[q] /\ clearing[p] = clearing[q] BY <1>7, AtReduce DEF Reduce
  <2> QED BY <1>7, <2>1, <2>2, <2>3, ClearedReduce
<1>8. ASSUME NEW p \in Procs,
             EnterBarrier(p) \/ \E v \in Wins : Create(p, v) \/ WinFree(p, v) \/ Open(p, v) \/ Close(p, v)
      PROVE  InStep(G)'
  <2>1. \A q \in Procs \ {p} : SameWindows(q) BY <1>1, <1>8, OthersKept
  <2>2. \A k \in Int, w \in Wins : Cleared(G, p, k, w)' <=> Cleared(H, p, k, w) BY <1>8, ClearedCalls
  <2> QED BY <1>4, <2>1, <2>2
<1>9. ASSUME NEW p \in Procs, Restart(p) \/ LeaveBarrier(p) \/ \E v \in Wins : Join(p, v)
      PROVE  InStep(G)'
  <2>1. \A q \in Procs \ {p} : SameWindows(q) BY <1>1, <1>9, OthersKept
  <2>2. \A k \in Int, w \in Wins : Cleared(G, p, k, w)' <=> Cleared(H, p, k, w) BY <1>9, ClearedWithin
  <2> QED BY <1>4, <2>1, <2>2
<1>10. ASSUME NEW p \in Procs, NEW w \in Wins,
              \/ \E q \in Procs : Put(p, q, w)
              \/ PostRecv(p, w) \/ (\E m \in net : Receive(p, w, m)) \/ Exit(p, w)
       PROVE  InStep(G)'
  <2>1. \A q \in Procs : SameWindows(q)
    BY <1>10 DEF Put, PostRecv, Receive, Exit, tagVars, appVars, stateVars, SameWindows
  <2> QED BY <1>5, <2>1
<1>11. CASE Terminating BY <1>6, <1>11 DEF Terminating
<1> QED BY <1>6, <1>7, <1>8, <1>9, <1>10, <1>11 DEF Next

----------------------------------------------------------------------------
(* Nobody is past an epoch that another process is still in.               *)

\* Process p has ended epoch e of the lth life of w, or is past its reductions.
Past(p, w, l, e) ==
  \/ Life(p, w) > l
  \/ Life(p, w) = l /\ (Closed(p, w) >= e \/ (count_epoch[p][w] = e /\ thread_end(p, w)))

\* The call that ends an epoch leaves it behind for good.
LEMMA LeftBehind ==
  ASSUME NEW H, Course(H, program), Len(program) \in Nat, NEW w \in Wins,
         NEW k \in 1 .. Len(program), NEW j \in 0 .. Len(program), k <= j, Ends(H[k - 1], program[k], w)
  PROVE  \/ Births(program, j, w) > Births(program, k - 1, w)
         \/ /\ Births(program, j, w) = Births(program, k - 1, w)
            /\ Ended(H[j], w) >= H[k - 1].epochs[w]
<1>1. k - 1 \in Nat /\ k - 1 \in 0 .. Len(program) /\ k \in 0 .. Len(program) /\ (k - 1) + 1 = k OBVIOUS
<1>2. PICK s, t, op : s = H[k - 1] /\ t = H[k] /\ op = program[k] OBVIOUS
<1>3. StageOK(s) /\ StageOK(t) /\ StageOK(H[j]) /\ Led(s, t, op) /\ Since(H, program, k, j, w)
  BY <1>1, <1>2 DEF Course
<1>4. Ends(s, op, w) BY <1>2
<1>5. Ended(t, w) >= s.epochs[w] /\ op # <<"create", w>> BY <1>3, <1>4, LedEffect
<1>6. Births(program, k, w) = Births(program, k - 1, w)
  <2>1. PICK n \in Nat : n = k - 1 /\ n + 1 = k BY <1>1
  <2>2. program[n + 1] # <<"create", w>> BY <1>2, <1>5, <2>1
  <2>3. Births(program, n + 1, w) = Births(program, n, w) BY SMTT(40), <2>2, BirthsNext, BirthsType
  <2> QED BY <2>1, <2>3
<1>7. /\ Ended(H[j], w) \in Int /\ Ended(t, w) \in Int /\ s.epochs[w] \in Nat
      /\ Births(program, k, w) \in Nat /\ Births(program, j, w) \in Nat
  BY <1>1, <1>3, EndedType, BirthsType
<1>8. /\ Births(program, k, w) <= Births(program, j, w)
      /\ Births(program, k, w) = Births(program, j, w) => Ended(H[k], w) <= Ended(H[j], w)
  BY <1>3 DEF Since
<1> QED BY <1>2, <1>5, <1>6, <1>7, <1>8

\* What a process has ended in its course it has closed.
LEMMA ClosedIs ==
  ASSUME Tidy, ProcessInv, NEW H, CourseOf(H), NEW p \in Procs, NEW w \in Wins
  PROVE  /\ Ended(H[Base(p)], w) \in Int /\ Closed(p, w) \in Int /\ count_epoch[p][w] \in Nat
         /\ active_epoch[p][w] \in {0, 1} /\ Life(p, w) \in Nat
         /\ Ended(H[Base(p)], w) <= Closed(p, w)
         /\ w \in open[p] => Ended(H[Base(p)], w) = count_epoch[p][w] - 1
         /\ w \notin open[p] => Ended(H[Base(p)], w) = count_epoch[p][w]
<1>1. count_epoch[p][w] \in Nat /\ active_epoch[p][w] \in {0, 1} /\ WindowsOf(p) /\ pos[p] \in Int
  BY EpochTagType DEF ProcessInv, StateTypes, HandlersInv, TagTypeOK
<1>2. H[Base(p)].open = open[p] /\ H[Base(p)].epochs[w] = count_epoch[p][w] BY BaseIs
<1>3. Ended(H[Base(p)], w) = count_epoch[p][w] - (IF w \in open[p] THEN 1 ELSE 0) BY <1>2 DEF Ended
<1>4. active_epoch[p][w] = 1 => w \in open[p] BY <1>1 DEF WindowsOf
<1>5. Life(p, w) \in Nat BY <1>1, BirthsType, LifeIs
<1> QED BY <1>1, <1>3, <1>4, <1>5 DEF Closed

\* A process past an epoch that is not ended in its course is in the call that
\* ends it.
LEMMA PastWithin ==
  ASSUME Tidy, ProcessInv, NEW H, CourseOf(H), NEW p \in Procs, NEW w \in Wins, NEW e \in Nat,
         Closed(p, w) >= e \/ (count_epoch[p][w] = e /\ thread_end(p, w)), Ended(H[Base(p)], w) < e
  PROVE  /\ count_epoch[p][w] = e /\ Within(p) /\ Ends(H[Base(p)], program[pos[p]], w)
         /\ Cleared(H, p, pos[p], w)
<1>1. /\ Ended(H[Base(p)], w) \in Int /\ Closed(p, w) \in Int /\ count_epoch[p][w] \in Nat
      /\ active_epoch[p][w] \in {0, 1}
      /\ w \in open[p] => Ended(H[Base(p)], w) = count_epoch[p][w] - 1
      /\ w \notin open[p] => Ended(H[Base(p)], w) = count_epoch[p][w]
  BY ClosedIs
<1>2. Closed(p, w) = count_epoch[p][w] - active_epoch[p][w] BY DEF Closed
<1>3. WindowsOf(p) BY DEF ProcessInv, HandlersInv
<1>4. /\ Base(p) \in 0 .. Len(program) /\ pos[p] \in 0 .. Len(program)
      /\ Within(p) => /\ pos[p] = Base(p) + 1
                      /\ w \in clearing[p] => Ends(H[Base(p)], program[pos[p]], w)
                      /\ AtBarrier(p) /\ w \in open[p] => Ends(H[Base(p)], program[pos[p]], w)
  BY BaseIs
<1>5. count_epoch[p][w] = e /\ Within(p) /\ Ends(H[Base(p)], program[pos[p]], w)
      /\ (active_epoch[p][w] = 0 \/ thread_end(p, w))
  <2>1. CASE thread_end(p, w)
    <3>1. Within(p) /\ w \in clearing[p] BY <2>1 DEF thread_end, Within
    <3>2. Ends(H[Base(p)], program[pos[p]], w) /\ w \in open[p]
      <4>1. Ends(H[Base(p)], program[pos[p]], w) BY <1>4, <3>1
      <4>2. H[Base(p)].open = open[p] BY BaseIs
      <4> QED BY <4>1, <4>2 DEF Ends
    <3> QED BY <1>1, <1>2, <2>1, <3>1, <3>2
  <2>2. CASE ~ thread_end(p, w)
    <3>1. count_epoch[p][w] = e /\ active_epoch[p][w] = 0 /\ w \in open[p] BY <1>1, <1>2, <2>2
    <3>2. AtBarrier(p) BY <1>3, <3>1 DEF WindowsOf
    <3>3. Within(p) BY <3>2 DEF AtBarrier, Within
    <3> QED BY <1>4, <3>1, <3>2, <3>3
  <2> QED BY <2>1, <2>2
<1>6. pos[p] \in 1 .. pos[p] /\ pos[p] - 1 = Base(p)
  <2>1. pos[p] = Base(p) + 1 /\ Base(p) \in 0 .. Len(program) BY <1>4, <1>5
  <2>2. Len(program) \in Nat BY DEF ProcessInv, TagTypeOK
  <2> QED BY <2>1, <2>2
<1> QED BY <1>5, <1>6 DEF Cleared

LEMMA NobodyPast ==
  ASSUME Tidy, ProcessInv, NEW H, CourseOf(H), InStep(H),
         NEW p \in Procs, NEW q \in Procs, NEW w \in Wins, active_epoch[q][w] = 1, ~ thread_end(q, w)
  PROVE  ~ Past(p, w, Life(q, w), count_epoch[q][w])
<1> SUFFICES ASSUME Past(p, w, Life(q, w), count_epoch[q][w]) PROVE FALSE OBVIOUS
<1>1. /\ Len(program) \in Nat /\ WindowsOf(q) /\ Course(H, program)
      /\ pos[p] \in Nat /\ pos[q] \in Nat
  BY DEF ProcessInv, TagTypeOK, HandlersInv, CourseOf
<1>2. PICK i, j, e, l : i = Base(q) /\ j = Base(p) /\ e = count_epoch[q][w] /\ l = Life(q, w) OBVIOUS
<1>3. w \in open[q] BY <1>1 DEF WindowsOf
<1>4. /\ i \in 0 .. Len(program) /\ j \in 0 .. Len(program) /\ i \in Nat /\ j \in Nat
      /\ w \in H[i].open /\ H[i].epochs[w] = e /\ Births(program, i, w) = l
      /\ H[j].epochs[w] = count_epoch[p][w] /\ Births(program, j, w) = Life(p, w)
  BY <1>1, <1>2, <1>3, BaseIs
<1>5. /\ e \in Nat /\ l \in Nat /\ Life(p, w) \in Nat /\ Ended(H[i], w) = e - 1 /\ Ended(H[j], w) \in Int
  BY <1>2, <1>3, ClosedIs
<1>6. /\ Within(p) => pos[p] = j + 1
      /\ ~ Within(p) => pos[p] = j
      /\ Within(q) => pos[q] = i + 1
      /\ ~ Within(q) => pos[q] = i
  BY <1>1, <1>2 DEF Base
<1>7. ASSUME NEW k \in 1 .. Len(program), k > i, Cleared(H, p, k, w) PROVE FALSE
  <2>1. Cleared(H, q, k, w) BY <1>7 DEF InStep
  <2>2. k \in 1 .. pos[q] BY <2>1 DEF Cleared
  <2>3. k = pos[q] /\ Within(q) BY <1>1, <1>4, <1>6, <1>7, <2>2
  <2> QED BY <2>1, <2>3 DEF Cleared
<1>8. ASSUME Life(p, w) = l, Ended(H[j], w) < e
      PROVE  /\ count_epoch[p][w] = e /\ Within(p) /\ Ends(H[j], program[pos[p]], w)
             /\ Cleared(H, p, pos[p], w)
  <2>1. Closed(p, w) >= e \/ (count_epoch[p][w] = e /\ thread_end(p, w))
    BY <1>2, <1>5, <1>8 DEF Past
  <2> QED BY <1>2, <1>5, <1>8, <2>1, PastWithin
<1>9. CASE i <= j
  <2>1. Since(H, program, i, j, w) BY <1>1, <1>4, <1>9 DEF Course
  <2>2. CASE /\ w \in H[j].open /\ H[j].epochs[w] = H[i].epochs[w]
             /\ Births(program, j, w) = Births(program, i, w)
    <3>1. Life(p, w) = l /\ Ended(H[j], w) < e BY <1>4, <1>5, <2>2 DEF Ended
    <3>2. Within(p) /\ Cleared(H, p, pos[p], w) BY <1>8, <3>1
    <3>3. pos[p] = j + 1 /\ pos[p] \in 1 .. pos[p] BY <1>4, <1>6, <3>2
    <3>4. pos[p] \in 1 .. Len(program) /\ pos[p] > i BY <1>4, <1>9, <3>2, <3>3, BaseIs
    <3> QED BY <1>7, <3>2, <3>4
  <2>3. ASSUME NEW k \in i + 1 .. j, Ends(H[k - 1], program[k], w) PROVE FALSE
    <3>1. k \in 1 .. pos[p] /\ k \in 1 .. Len(program) /\ k > i /\ (k = pos[p] => ~ Within(p))
      BY <1>1, <1>4, <1>6
    <3>2. Cleared(H, p, k, w) BY <2>3, <3>1 DEF Cleared
    <3> QED BY <1>7, <3>1, <3>2
  <2> QED BY <1>4, <2>1, <2>2, <2>3 DEF Since
<1>10. CASE j < i
  <2>1. Since(H, program, j, i, w) BY <1>1, <1>4, <1>10 DEF Course
  <2>2. /\ Births(program, j, w) <= Births(program, i, w)
        /\ Births(program, j, w) = Births(program, i, w) => Ended(H[j], w) <= Ended(H[i], w)
    BY <2>1 DEF Since
  <2>3. Life(p, w) = l BY <1>2, <1>4, <1>5, <2>2 DEF Past
  <2>4. Ended(H[j], w) < e BY <1>4, <1>5, <2>2, <2>3
  <2>5. count_epoch[p][w] = e /\ Within(p) /\ Ends(H[j], program[pos[p]], w) BY <1>8, <2>3, <2>4
  <2>6. PICK k : k = pos[p] OBVIOUS
  <2>7. k - 1 = j /\ k \in 1 .. Len(program) /\ k <= i BY <1>1, <1>4, <1>6, <1>10, <2>5, <2>6
  <2>8. Ends(H[k - 1], program[k], w) BY <2>5, <2>6, <2>7
  <2>9. \/ Births(program, i, w) > Births(program, k - 1, w)
        \/ /\ Births(program, i, w) = Births(program, k - 1, w)
           /\ Ended(H[i], w) >= H[k - 1].epochs[w]
    BY <1>1, <1>4, <2>7, <2>8, LeftBehind
  <2> QED BY <1>4, <1>5, <2>3, <2>5, <2>7, <2>9
<1> QED BY <1>4, <1>9, <1>10

----------------------------------------------------------------------------
(* What a step does to an epoch of a window, to what has been sent in it   *)
(* and to what has been received.                                          *)

LEMMA LifeKept ==
  ASSUME ProcessInv, [Next]_vars, NEW q \in Procs, pos'[q] = pos[q], NEW w
  PROVE  Life(q, w)' = Life(q, w)
<1>1. pos[q] \in Nat /\ Len(program) \in Nat /\ pos[q] <= Len(program)
  BY DEF ProcessInv, TagTypeOK, HandlersInv, Placed
<1>2. \A n \in 1 .. pos[q] : program'[n] = program[n] BY <1>1, ProgramGrows DEF ProcessInv, HandlersInv
<1>3. Births(program', pos[q], w) = Births(program, pos[q], w) BY SMTT(40), <1>1, <1>2, BirthsSame
<1> QED BY <1>3 DEF Life, Births

LEMMA LifeCalls ==
  ASSUME ProcessInv, NEW p \in Procs, NEW op \in Calls, Follow(p, op), NEW w
  PROVE  Life(p, w)' = Life(p, w) + (IF op = <<"create", w>> THEN 1 ELSE 0)
<1>1. /\ pos[p] \in Nat /\ Len(program) \in Nat /\ pos[p] <= Len(program) /\ TagTypeOK
  BY DEF ProcessInv, TagTypeOK, HandlersInv, Placed
<1>2. /\ pos'[p] = pos[p] + 1 /\ program'[pos[p] + 1] = op
      /\ \A n \in 1 .. pos[p] : program'[n] = program[n]
  BY <1>1, FollowTypes
<1>3. Births(program', pos[p], w) = Births(program, pos[p], w) BY <1>1, <1>2, BirthsSame
<1>4. Births(program', pos[p] + 1, w) =
        Births(program', pos[p], w) + (IF program'[pos[p] + 1] = <<"create", w>> THEN 1 ELSE 0)
  BY <1>1, BirthsNext
<1>5. Life(p, w)' = Births(program', pos[p] + 1, w) BY <1>2 DEF Life, Births
<1>6. Life(p, w) = Births(program, pos[p], w) BY LifeIs
<1> QED BY <1>2, <1>3, <1>4, <1>5, <1>6

\* Each process goes through the calls in order.
LEMMA PosGrows ==
  ASSUME ProcessInv, [Next]_vars, NEW q \in Procs PROVE pos'[q] >= pos[q] /\ pos'[q] \in Nat /\ pos[q] \in Nat
<1>1. pos[q] \in Nat /\ TagTypeOK BY DEF ProcessInv, TagTypeOK
<1>2. CASE UNCHANGED <<program, pos>> BY <1>1, <1>2
<1>3. ASSUME NEW p \in Procs, NEW op \in Calls, Follow(p, op)
      PROVE  pos'[q] >= pos[q] /\ pos'[q] \in Nat /\ pos[q] \in Nat
  BY <1>1, <1>3, FollowTypes
<1> QED BY <1>2, <1>3, StageStep

EpochGoesOn(q, w) ==
  /\ Life(q, w)' = Life(q, w) /\ count_epoch'[q][w] = count_epoch[q][w]
  /\ active_epoch'[q][w] = active_epoch[q][w] /\ (thread_end(q, w) => thread_end(q, w)')

EpochBegins(q, w) ==
  /\ Life(q, w)' = Life(q, w) /\ count_epoch'[q][w] = count_epoch[q][w] + 1
  /\ active_epoch[q][w] = 0 /\ active_epoch'[q][w] = 1 /\ ~ thread_end(q, w)
  /\ \A r \in Procs : array'[q][w][r] = 0

EpochEnds(q, w) ==
  /\ Life(q, w)' = Life(q, w) /\ count_epoch'[q][w] = count_epoch[q][w]
  /\ active_epoch[q][w] = 1 /\ active_epoch'[q][w] = 0 /\ thread_end(q, w) /\ thr[q][w] = "done"

WindowBorn(q, w) ==
  /\ Create(q, w) /\ Life(q, w)' = Life(q, w) + 1 /\ count_epoch'[q][w] = 0
  /\ active_epoch[q][w] = 0 /\ active_epoch'[q][w] = 0 /\ ~ thread_end(q, w)

\* The calls of a process.
LEMMA EpochOfCall ==
  ASSUME ProcessInv, NEW p \in Procs, NEW w \in Wins,
         EnterBarrier(p) \/ \E v \in Wins : Create(p, v) \/ WinFree(p, v) \/ Open(p, v) \/ Close(p, v)
  PROVE  /\ EpochGoesOn(p, w) \/ EpochBegins(p, w) \/ WindowBorn(p, w)
         /\ EpochBegins(p, w) \/ \A r \in Procs : array'[p][w][r] = array[p][w][r]
         /\ count'[p][w] = count[p][w]
<1>1. /\ WindowsOf(p) /\ ThreadsOf(p) /\ StateTypes /\ TagTypeOK
      /\ count_epoch \in [Procs -> [Wins -> 0 .. MaxEpochs]]
      /\ Listed(p) = {v \in Wins : Live(p, v)}
  BY DEF ProcessInv, TagTypeOK, HandlersInv, TablesInv
<1>2. pc[p] = "run" /\ ~ thread_end(p, w) /\ ~ AtBarrier(p)
  BY DEF EnterBarrier, Create, WinFree, Open, Close, Call, thread_end, AtBarrier
<1>3. ASSUME NEW op \in Calls, Follow(p, op), op # <<"create", w>> PROVE Life(p, w)' = Life(p, w)
  <2>1. Life(p, w)' = Life(p, w) + 0 BY <1>3, LifeCalls
  <2>2. Life(p, w) \in Nat
    <3>1. pos[p] \in Int BY <1>1 DEF TagTypeOK
    <3> QED BY <3>1, BirthsType, LifeIs
  <2> QED BY <2>1, <2>2
<1>4. CASE EnterBarrier(p)
  <2>1. Barrier \in Calls /\ Follow(p, Barrier) /\ Barrier # <<"create", w>>
    BY <1>4 DEF EnterBarrier, Call, Follow, Barrier
  <2>2. UNCHANGED <<count_epoch, active_epoch, array, count>>
    BY <1>4 DEF EnterBarrier, stateVars, threadVars
  <2> QED BY <1>2, <1>3, <2>1, <2>2 DEF EpochGoesOn
<1>5. ASSUME NEW v \in Wins, WinFree(p, v)
      PROVE  EpochGoesOn(p, w) /\ UNCHANGED <<array, count>>
  <2>1. <<"free", v>> \in Calls /\ Follow(p, <<"free", v>>) BY <1>5 DEF WinFree, Call, Follow
  <2>2. UNCHANGED <<count_epoch, active_epoch, array, count>>
    BY <1>5 DEF WinFree, Stop, stateVars, threadVars
  <2> QED BY <1>2, <1>3, <2>1, <2>2 DEF EpochGoesOn
<1>6. ASSUME NEW v \in Wins, Close(p, v)
      PROVE  EpochGoesOn(p, w) /\ UNCHANGED <<array, count>>
  <2>1. PICK u \in Wins : <<"close", u>> \in Calls /\ Follow(p, <<"close", u>>)
    BY <1>6 DEF Close, Call, Follow
  <2>2. UNCHANGED <<count_epoch, active_epoch, array, count>>
    BY <1>6 DEF Close, stateVars, threadVars
  <2> QED BY <1>2, <1>3, <2>1, <2>2 DEF EpochGoesOn
<1>7. ASSUME NEW v \in Wins, Open(p, v)
      PROVE  /\ EpochGoesOn(p, w) \/ EpochBegins(p, w)
             /\ EpochBegins(p, w) \/ \A r \in Procs : array'[p][w][r] = array[p][w][r]
             /\ count' = count
  <2>1. <<"open", v>> \in Calls /\ Follow(p, <<"open", v>>) BY <1>7 DEF Open, Call, Follow
  <2>2. Life(p, w)' = Life(p, w) BY <1>3, <2>1
  <2>3. /\ count_epoch' = [count_epoch EXCEPT ![p] = [u \in Wins |-> IF u \in {v} THEN @[u] + 1 ELSE @[u]]]
        /\ array' = [array EXCEPT ![p] = [u \in Wins |-> IF u \in {v} THEN [r \in Procs |-> 0] ELSE @[u]]]
        /\ active_epoch' = [active_epoch EXCEPT ![p] = [u \in Wins |-> IF u \in {v} THEN 1 ELSE @[u]]]
        /\ count' = count /\ v \notin open[p] /\ v \notin Strays(p)
    BY <1>7 DEF Open, InitThreads, Epoch
  <2>4. /\ count_epoch'[p][w] = IF w = v THEN count_epoch[p][w] + 1 ELSE count_epoch[p][w]
        /\ active_epoch'[p][w] = IF w = v THEN 1 ELSE active_epoch[p][w]
        /\ array'[p][w] = IF w = v THEN [r \in Procs |-> 0] ELSE array[p][w]
    BY <1>1, <2>3 DEF StateTypes
  <2>5. active_epoch[p][v] = 0
    <3>1. active_epoch[p][v] \in {0, 1} BY <1>1 DEF StateTypes
    <3>2. active_epoch[p][v] # 1 BY <1>1, <2>3 DEF WindowsOf, Strays, Active
    <3> QED BY <3>1, <3>2
  <2> QED BY <1>2, <2>2, <2>3, <2>4, <2>5 DEF EpochGoesOn, EpochBegins
<1>8. ASSUME NEW v \in Wins, Create(p, v)
      PROVE  (EpochGoesOn(p, w) \/ WindowBorn(p, w)) /\ array' = array /\ count'[p][w] = count[p][w]
  <2>1. <<"create", v>> \in Calls /\ Follow(p, <<"create", v>>) /\ ~ Live(p, v)
    BY <1>8 DEF Create, Call, Follow, Start
  <2>2. /\ count_epoch'[p][w] = IF w = v THEN 0 ELSE count_epoch[p][w]
        /\ active_epoch'[p][w] = IF w = v THEN 0 ELSE active_epoch[p][w]
        /\ count'[p][w] = IF w = v THEN 0 ELSE count[p][w]
        /\ array' = array
    BY <1>1, <1>8 DEF Create, Start, StateTypes
  <2>3. active_epoch[p][v] = 0 BY <1>1, <2>1 DEF WindowsOf, StateTypes
  <2>4. count[p][v] = 0 BY <1>1, <2>3 DEF ThreadsOf
  <2>5. CASE w = v
    <3>1. Life(p, w)' = Life(p, w) + 1 BY <2>1, <2>5, LifeCalls
    <3> QED BY <1>2, <1>8, <2>2, <2>3, <2>4, <2>5, <3>1 DEF WindowBorn
  <2>6. CASE w # v
    <3>1. Life(p, w)' = Life(p, w) BY <1>3, <2>1, <2>6
    <3> QED BY <1>2, <2>2, <2>6, <3>1 DEF EpochGoesOn
  <2> QED BY <2>5, <2>6
<1> QED BY <1>4, <1>5, <1>6, <1>7, <1>8

\* The steps of a process within a call.
LEMMA EpochWithin ==
  ASSUME ProcessInv, [Next]_vars, NEW p \in Procs, NEW w \in Wins,
         Restart(p) \/ LeaveBarrier(p) \/ \E v \in Wins : Join(p, v)
  PROVE  /\ EpochGoesOn(p, w) \/ EpochBegins(p, w) \/ EpochEnds(p, w)
         /\ EpochBegins(p, w) \/ \A r \in Procs : array'[p][w][r] = array[p][w][r]
         /\ count'[p][w] = count[p][w]
<1>1. /\ WindowsOf(p) /\ ThreadsOf(p) /\ StateTypes /\ TablesInv /\ HandlersInv
      /\ count_epoch \in [Procs -> [Wins -> 0 .. MaxEpochs]]
  BY DEF ProcessInv, TagTypeOK, HandlersInv
<1>2. pos' = pos BY DEF Restart, LeaveBarrier, Join, tagVars
<1>3. Life(p, w)' = Life(p, w) BY <1>2, LifeKept
<1>4. CASE Restart(p)
  <2>1. PICK W : W = ToRestart(p) OBVIOUS
  <2>2. /\ count_epoch' = [count_epoch EXCEPT ![p] = [u \in Wins |-> IF u \in W THEN @[u] + 1 ELSE @[u]]]
        /\ array' = [array EXCEPT ![p] = [u \in Wins |-> IF u \in W THEN [r \in Procs |-> 0] ELSE @[u]]]
        /\ active_epoch' = [active_epoch EXCEPT ![p] = [u \in Wins |-> IF u \in W THEN 1 ELSE @[u]]]
        /\ count' = count /\ pc[p] = "restart"
    BY <1>4, <2>1 DEF Restart, InitThreads, Epoch
  <2>3. /\ count_epoch'[p][w] = IF w \in W THEN count_epoch[p][w] + 1 ELSE count_epoch[p][w]
        /\ active_epoch'[p][w] = IF w \in W THEN 1 ELSE active_epoch[p][w]
        /\ array'[p][w] = IF w \in W THEN [r \in Procs |-> 0] ELSE array[p][w]
    BY <1>1, <2>2 DEF StateTypes
  <2>4. active_epoch[p][w] = 0 /\ ~ thread_end(p, w) BY <1>1, <2>2 DEF WindowsOf, thread_end
  <2> QED BY <1>3, <2>2, <2>3, <2>4 DEF EpochGoesOn, EpochBegins
<1>5. CASE LeaveBarrier(p)
  <2>1. pc[p] = "sync" /\ UNCHANGED <<count_epoch, active_epoch, array, count>>
    BY <1>5 DEF LeaveBarrier, tagVars, stateVars, threadVars
  <2> QED BY <1>3, <2>1 DEF EpochGoesOn, thread_end
<1>6. ASSUME NEW v \in Wins, Join(p, v)
      PROVE  (EpochGoesOn(p, w) \/ EpochEnds(p, w)) /\ array' = array /\ count'[p][w] = count[p][w]
  <2>1. /\ pc[p] = "join" /\ v \in clearing[p] /\ thread_end(p, v) /\ thr[p][v] = "done"
        /\ count_epoch' = count_epoch /\ array' = array
        /\ active_epoch'[p][w] = (IF w = v THEN 0 ELSE active_epoch[p][w])
        /\ count'[p][w] = (IF w = v THEN 0 ELSE count[p][w])
    BY <1>1, <1>6 DEF Join, thread_end, tagVars, StateTypes
  <2>2. clearing[p] = {v} /\ active_epoch[p][v] = 1 BY <1>1, <2>1 DEF WindowsOf
  <2>3. count[p][v] = 0 BY <1>1, <2>1 DEF ThreadsOf
  <2>4. w # v => ~ thread_end(p, w) BY <2>2 DEF thread_end
  <2> QED BY <1>3, <2>1, <2>2, <2>3, <2>4 DEF EpochGoesOn, EpochEnds
<1> QED BY <1>4, <1>5, <1>6

\* Every step.
LEMMA EpochEffect ==
  ASSUME ProcessInv, [Next]_vars, NEW q \in Procs, NEW w \in Wins
  PROVE  /\ EpochGoesOn(q, w) \/ EpochBegins(q, w) \/ EpochEnds(q, w) \/ WindowBorn(q, w)
         /\ \/ EpochBegins(q, w)
            \/ \A r \in Procs : array'[q][w][r] = array[q][w][r]
            \/ EpochGoesOn(q, w) /\ \E r \in Procs : Put(q, r, w)
         /\ \/ count'[q][w] = count[q][w]
            \/ EpochGoesOn(q, w) /\ (Exit(q, w) \/ \E m \in net : Receive(q, w, m))
<1>1. TagTypeOK /\ TablesInv /\ StateTypes /\ HandlersInv BY DEF ProcessInv
<1>2. ASSUME SameWindows(q) PROVE EpochGoesOn(q, w)
  <2>1. Life(q, w)' = Life(q, w) BY <1>2, LifeKept DEF SameWindows
  <2> QED BY <1>2, <2>1 DEF SameWindows, EpochGoesOn, thread_end
<1>3. CASE UNCHANGED vars
  <2>1. SameWindows(q) /\ UNCHANGED <<array, count>>
    BY <1>3 DEF vars, tagVars, appVars, stateVars, threadVars, SameWindows
  <2> QED BY <1>2, <2>1
<1>4. CASE Reduce
  <2>1. /\ UNCHANGED <<pos, count_epoch, active_epoch, array, count>> /\ pc[q] = "reduce"
    BY <1>4 DEF Reduce, tagVars, threadVars
  <2>2. Life(q, w)' = Life(q, w) BY <2>1, LifeKept
  <2> QED BY <2>1, <2>2 DEF EpochGoesOn, thread_end
<1>5. ASSUME NEW p \in Procs,
             \/ EnterBarrier(p) \/ Restart(p) \/ LeaveBarrier(p)
             \/ \E v \in Wins : Create(p, v) \/ WinFree(p, v) \/ Open(p, v) \/ Close(p, v) \/ Join(p, v),
             p # q
      PROVE  EpochGoesOn(q, w) /\ array'[q] = array[q] /\ count'[q] = count[q]
  <2>1. SameWindows(q) /\ SameThreads(q) BY <1>1, <1>5, OthersKept
  <2>2. array'[q] = array[q]
    <3>1. ASSUME NEW x, array' = [array EXCEPT ![p] = x] PROVE array'[q] = array[q]
      BY <1>1, <1>5, <3>1 DEF StateTypes
    <3>2. ASSUME NEW W, InitThreads(p, W) PROVE array'[q] = array[q] BY <3>1, <3>2 DEF InitThreads
    <3> QED
      BY <1>5, <3>2 DEF EnterBarrier, Restart, LeaveBarrier, Create, WinFree, Open, Close, Join
  <2> QED BY <1>2, <2>1, <2>2 DEF SameThreads
<1>6. ASSUME NEW p \in Procs, NEW v \in Wins, NEW r \in Procs, Put(p, r, v)
      PROVE  /\ EpochGoesOn(q, w) /\ count' = count
             /\ (\A s \in Procs : array'[q][w][s] = array[q][w][s]) \/ Put(q, r, w)
  <2>1. SameWindows(q) /\ count' = count
    BY <1>6 DEF Put, tagVars, appVars, stateVars, threadVars, SameWindows
  <2>2. (p = q /\ v = w) \/ array'[q][w] = array[q][w] BY <1>1, <1>6 DEF Put, StateTypes
  <2> QED BY <1>2, <1>6, <2>1, <2>2
<1>7. ASSUME NEW p \in Procs, NEW v \in Wins,
             PostRecv(p, v) \/ (\E m \in net : Receive(p, v, m)) \/ Exit(p, v)
      PROVE  /\ EpochGoesOn(q, w) /\ array' = array
             /\ \/ count'[q][w] = count[q][w]
                \/ Exit(q, w) \/ \E m \in net : Receive(q, w, m)
  <2>1. SameWindows(q) /\ array' = array
    BY <1>7 DEF PostRecv, Receive, Exit, tagVars, appVars, stateVars, SameWindows
  <2>2. (p = q /\ v = w) \/ count'[q][w] = count[q][w]
    <3>1. count' = count \/ \E x : count' = [count EXCEPT ![p][v] = x]
      BY <1>7 DEF PostRecv, Receive, Exit
    <3>2. count \in [Procs -> [Wins -> Nat]] BY <1>1 DEF StateTypes
    <3>3. ASSUME NEW x, count' = [count EXCEPT ![p][v] = x]
          PROVE  (p = q /\ v = w) \/ count'[q][w] = count[q][w]
      BY <3>2, <3>3
    <3> QED BY <3>1, <3>3
  <2>3. PostRecv(p, v) => count'[q][w] = count[q][w] BY DEF PostRecv
  <2> QED BY <1>2, <1>7, <2>1, <2>2, <2>3
<1>8. CASE Terminating BY <1>3, <1>8 DEF Terminating
<1>9. CASE \E p \in Procs :
             EnterBarrier(p) \/ \E v \in Wins : Create(p, v) \/ WinFree(p, v) \/ Open(p, v) \/ Close(p, v)
  BY <1>5, <1>9, EpochOfCall
<1>10. CASE \E p \in Procs : Restart(p) \/ LeaveBarrier(p) \/ \E v \in Wins : Join(p, v)
  BY <1>5, <1>10, EpochWithin
<1> QED BY <1>3, <1>4, <1>6, <1>7, <1>8, <1>9, <1>10 DEF Next

----------------------------------------------------------------------------
(* The intervals on their way: each was sent in an epoch of its window, at *)
(* a stage of the course.                                                  *)

LEMMA NetEffect ==
  ASSUME [Next]_vars
  PROVE  \/ net' = net
         \/ \E p, q \in Procs, w \in Wins : Put(p, q, w)
         \/ \E p \in Procs, w \in Wins, m \in net : Receive(p, w, m)
<1>1. CASE UNCHANGED vars \/ Reduce \/ Terminating BY <1>1 DEF vars, Reduce, Terminating
<1>2. ASSUME NEW p \in Procs, EnterBarrier(p) \/ Restart(p) \/ LeaveBarrier(p) PROVE net' = net
  BY <1>2 DEF EnterBarrier, Restart, LeaveBarrier
<1>3. ASSUME NEW p \in Procs, NEW w \in Wins,
             Create(p, w) \/ WinFree(p, w) \/ Open(p, w) \/ Close(p, w) \/ Join(p, w)
      PROVE  net' = net
  BY <1>3 DEF Create, WinFree, Open, Close, Join
<1>4. ASSUME NEW p \in Procs, NEW w \in Wins, PostRecv(p, w) \/ Exit(p, w) PROVE net' = net
  BY <1>4 DEF PostRecv, Exit
<1> QED BY <1>1, <1>2, <1>3, <1>4 DEF Next

LEMMA PutEffect ==
  ASSUME ProcessInv, NEW p \in Procs, NEW q \in Procs, NEW w \in Wins, Put(p, q, w)
  PROVE  /\ \E m \in Messages :
              /\ net' = net \union {m}
              /\ m.src = p /\ m.dst = q /\ m.win = w /\ m.tag = EpochTag(p, w) /\ m.life = Life(p, w)
              /\ m.epoch = count_epoch[p][w] /\ m.seq = array[p][w][q] + 1
         /\ active_epoch[p][w] = 1 /\ w \in open[p] /\ ~ thread_end(p, w) /\ pc[p] = "run" /\ Returned(p)
         /\ count_epoch[p][w] \in 1 .. MaxEpochs
         /\ array'[p][w][q] = array[p][w][q] + 1 /\ array[p][w][q] < MaxSend
         /\ \A r, s \in Procs, v \in Wins : <<r, v, s>> # <<p, w, q>> => array'[r][v][s] = array[r][v][s]
         /\ UNCHANGED <<tagVars, appVars, open, state_htbl, stateVars, threadVars>>
<1>1. /\ WindowsOf(p) /\ StateTypes /\ TagTypeOK /\ pos[p] \in Int
      /\ count_epoch[p][w] \in 0 .. MaxEpochs /\ MaxEpochs \in Nat
  BY TagAssumption DEF ProcessInv, HandlersInv, TagTypeOK
<1>2. PICK m : m = [src |-> p, dst |-> q, tag |-> EpochTag(p, w), win |-> w, life |-> Life(p, w),
                    epoch |-> count_epoch[p][w], seq |-> array[p][w][q] + 1]
  OBVIOUS
<1>3. array[p][w][q] \in 0 .. MaxSend /\ MaxSend \in Nat BY <1>1, WindowsAssumption DEF StateTypes
<1>4. /\ net' = net \union {m} /\ w \in open[p] /\ pc[p] = "run" /\ Returned(p) /\ array[p][w][q] < MaxSend
      /\ array' = [array EXCEPT ![p][w][q] = @ + 1]
      /\ UNCHANGED <<tagVars, appVars, open, state_htbl, stateVars, threadVars>>
  BY <1>2 DEF Put
<1>5. m \in Messages
  <2>1. Life(p, w) \in Nat BY <1>1, BirthsType, LifeIs
  <2> QED BY <1>1, <1>2, <1>3, <1>4, <2>1, EpochTagType DEF Messages
<1>6. ~ AtBarrier(p) /\ ~ thread_end(p, w) BY <1>4 DEF AtBarrier, thread_end
<1>7. active_epoch[p][w] = 1 /\ count_epoch[p][w] > 0 BY <1>1, <1>4, <1>6 DEF WindowsOf
<1>8. count_epoch[p][w] \in 1 .. MaxEpochs BY <1>1, <1>7
<1>9. /\ array'[p][w][q] = array[p][w][q] + 1
      /\ \A r, s \in Procs, v \in Wins : <<r, v, s>> # <<p, w, q>> => array'[r][v][s] = array[r][v][s]
  BY <1>1, <1>4 DEF StateTypes
<1> QED BY <1>2, <1>4, <1>5, <1>6, <1>7, <1>8, <1>9

EpochsSent == \A m \in net : m.epoch \in 1 .. MaxEpochs

LEMMA EpochsSentStep == ASSUME ProcessInv, EpochsSent, [Next]_vars PROVE EpochsSent'
<1>1. CASE net' = net BY <1>1 DEF EpochsSent
<1>2. ASSUME NEW p \in Procs, NEW q \in Procs, NEW w \in Wins, Put(p, q, w) PROVE EpochsSent'
  <2>1. \E m \in Messages : net' = net \union {m} /\ m.epoch \in 1 .. MaxEpochs BY <1>2, PutEffect
  <2> QED BY <2>1 DEF EpochsSent
<1>3. ASSUME NEW p \in Procs, NEW w \in Wins, NEW m \in net, Receive(p, w, m) PROVE EpochsSent'
  BY <1>3 DEF Receive, EpochsSent
<1> QED BY <1>1, <1>2, <1>3, NetEffect

\* An interval was sent in the epoch its source is in, and counted, or before.
Sent ==
  \A m \in net :
    \/ m.life < Life(m.src, m.win)
    \/ /\ m.life = Life(m.src, m.win)
       /\ \/ m.epoch < count_epoch[m.src][m.win]
          \/ m.epoch = count_epoch[m.src][m.win] /\ m.seq <= array[m.src][m.win][m.dst]

LEMMA SentStep == ASSUME ProcessInv, Sent, [Next]_vars PROVE Sent'
<1>1. /\ net \subseteq Messages /\ StateTypes
      /\ \A p \in Procs, w \in Wins : Life(p, w) \in Nat /\ count_epoch[p][w] \in Nat
  <2>1. \A p \in Procs : pos[p] \in Int BY DEF ProcessInv, TagTypeOK
  <2> QED BY <2>1, EpochTagType, BirthsType, LifeIs DEF ProcessInv, NetTypes
<1>2. ASSUME NEW m \in net
      PROVE  \/ m.life < Life(m.src, m.win)'
             \/ /\ m.life = Life(m.src, m.win)'
                /\ \/ m.epoch < count_epoch'[m.src][m.win]
                   \/ m.epoch = count_epoch'[m.src][m.win] /\ m.seq <= array'[m.src][m.win][m.dst]
  <2>1. PICK p, w, q : p = m.src /\ w = m.win /\ q = m.dst OBVIOUS
  <2>2. p \in Procs /\ w \in Wins /\ q \in Procs /\ m.life \in Nat /\ m.epoch \in Nat /\ m.seq \in Nat
    BY <1>1, <2>1 DEF Messages
  <2>3. \/ m.life < Life(p, w)
        \/ /\ m.life = Life(p, w)
           /\ \/ m.epoch < count_epoch[p][w]
              \/ m.epoch = count_epoch[p][w] /\ m.seq <= array[p][w][q]
    BY <2>1 DEF Sent
  <2>4. /\ EpochGoesOn(p, w) \/ EpochBegins(p, w) \/ EpochEnds(p, w) \/ WindowBorn(p, w)
        /\ \/ EpochBegins(p, w)
           \/ \A r \in Procs : array'[p][w][r] = array[p][w][r]
           \/ EpochGoesOn(p, w) /\ \E r \in Procs : Put(p, r, w)
    BY <2>2, EpochEffect
  <2>5. EpochBegins(p, w) \/ array'[p][w][q] >= array[p][w][q]
    <3>1. array[p][w][q] \in Nat BY <1>1, <2>2, WindowsAssumption DEF StateTypes
    <3>2. ASSUME NEW r \in Procs, Put(p, r, w) PROVE array'[p][w][q] >= array[p][w][q]
      <4>1. array'[p][w][q] = IF q = r THEN array[p][w][q] + 1 ELSE array[p][w][q]
        BY <2>2, <3>2, PutEffect
      <4> QED BY <3>1, <4>1
    <3> QED BY <2>2, <2>4, <3>1, <3>2
  <2>6. CASE EpochBegins(p, w)
    <3>1. Life(p, w)' = Life(p, w) /\ count_epoch'[p][w] = count_epoch[p][w] + 1
      BY <2>6 DEF EpochBegins
    <3>2. m.life < Life(p, w)' \/ (m.life = Life(p, w)' /\ m.epoch < count_epoch'[p][w])
      BY <1>1, <2>2, <2>3, <3>1
    <3> QED BY <2>1, <3>2 DEF Life
  <2>7. CASE WindowBorn(p, w)
    <3>1. m.life < Life(p, w)' BY <1>1, <2>2, <2>3, <2>7 DEF WindowBorn
    <3> QED BY <2>1, <3>1 DEF Life
  <2>8. CASE ~ EpochBegins(p, w) /\ (EpochGoesOn(p, w) \/ EpochEnds(p, w))
    <3>1. /\ Life(p, w)' = Life(p, w) /\ count_epoch'[p][w] = count_epoch[p][w]
          /\ array'[p][w][q] >= array[p][w][q]
      BY <2>5, <2>8 DEF EpochGoesOn, EpochEnds
    <3>2. array[p][w][q] \in Nat /\ array'[p][w][q] \in Nat
      <4>1. StateTypes' BY StateStep DEF ProcessInv
      <4> QED BY <1>1, <2>2, <4>1, WindowsAssumption DEF StateTypes
    <3>3. m.seq <= array[p][w][q] => m.seq <= array'[p][w][q] BY <2>2, <3>1, <3>2
    <3>4. \/ m.life < Life(p, w)'
          \/ /\ m.life = Life(p, w)'
             /\ \/ m.epoch < count_epoch'[p][w]
                \/ m.epoch = count_epoch'[p][w] /\ m.seq <= array'[p][w][q]
      BY <2>3, <3>1, <3>3
    <3> QED BY <2>1, <3>4 DEF Life
  <2> QED BY <2>4, <2>6, <2>7, <2>8
<1>3. ASSUME net' \subseteq net PROVE Sent' BY <1>2, <1>3 DEF Sent
<1>4. ASSUME NEW p \in Procs, NEW q \in Procs, NEW w \in Wins, Put(p, q, w) PROVE Sent'
  <2>1. PICK m \in Messages :
          /\ net' = net \union {m}
          /\ m.src = p /\ m.dst = q /\ m.win = w /\ m.life = Life(p, w)
          /\ m.epoch = count_epoch[p][w] /\ m.seq = array[p][w][q] + 1
    BY <1>4, PutEffect
  <2>2. count_epoch' = count_epoch /\ pos' = pos /\ program' = program /\ array'[p][w][q] = array[p][w][q] + 1
    BY <1>4, PutEffect DEF tagVars
  <2>3. Life(p, w)' = Life(p, w) BY <2>2 DEF Life
  <2>4. array[p][w][q] \in Nat BY <1>1, WindowsAssumption DEF StateTypes
  <2>5. m.life = Life(p, w)' /\ m.epoch = count_epoch'[p][w] /\ m.seq <= array'[p][w][q]
    BY <2>1, <2>2, <2>3, <2>4
  <2>6. m.life = Life(m.src, m.win)' BY <2>1, <2>5 DEF Life
  <2> QED BY <1>2, <2>1, <2>5, <2>6 DEF Sent
<1>5. ASSUME NEW p \in Procs, NEW w \in Wins, NEW m \in net, Receive(p, w, m) PROVE Sent'
  BY <1>3, <1>5 DEF Receive
<1> QED BY <1>3, <1>4, <1>5, NetEffect

\* The interval m was sent at stage i, and everyone has made the frees before it.
Witness(H, m, i) ==
  /\ m.win \in H[i].open /\ H[i].epochs[m.win] = m.epoch /\ Births(program, i, m.win) = m.life
  /\ m.tag = H[i].tags[m.win] + m.epoch
  /\ \A k \in 1 .. i, q \in Procs : program[k][1] = "free" => pos[q] >= k

Witnessed(H) == \A m \in net : \E i \in 0 .. Len(program) : Witness(H, m, i)

LEMMA WitnessedStep ==
  ASSUME Tidy, ProcessInv, FreesBehind, [Next]_vars, NEW H, CourseOf(H), Witnessed(H),
         NEW G, \A n \in 0 .. Len(program) : G[n] = H[n]
  PROVE  Witnessed(G)'
<1>1. /\ Len(program) \in Nat /\ Len(program) <= Len(program') /\ Len(program') \in Nat
      /\ \A n \in 1 .. Len(program) : program'[n] = program[n]
  BY ProgramGrows, ProcessStep DEF ProcessInv, TagTypeOK, HandlersInv
<1>2. ASSUME NEW m \in net PROVE \E i \in 0 .. Len(program') : Witness(G, m, i)'
  <2>1. PICK i \in 0 .. Len(program) : Witness(H, m, i) BY DEF Witnessed
  <2>2. i \in Nat /\ i \in 0 .. Len(program') /\ G[i] = H[i] BY <1>1
  <2>3. Births(program', i, m.win) = Births(program, i, m.win) BY <1>1, <2>2, BirthsSame
  <2>4. ASSUME NEW k \in 1 .. i, NEW q \in Procs, program'[k][1] = "free" PROVE pos'[q] >= k
    <3>1. program[k][1] = "free" BY <1>1, <2>1, <2>4
    <3>2. pos[q] >= k BY <2>1, <2>4, <3>1 DEF Witness
    <3> QED BY <2>2, <3>2, PosGrows
  <2>5. Witness(G, m, i)' BY <2>1, <2>2, <2>3, <2>4 DEF Witness
  <2> QED BY <2>2, <2>5
<1>3. ASSUME net' \subseteq net PROVE Witnessed(G)' BY <1>2, <1>3 DEF Witnessed
<1>4. ASSUME NEW p \in Procs, NEW q \in Procs, NEW w \in Wins, Put(p, q, w) PROVE Witnessed(G)'
  <2>1. PICK m \in Messages :
          /\ net' = net \union {m} /\ m.win = w /\ m.tag = EpochTag(p, w) /\ m.life = Life(p, w)
          /\ m.epoch = count_epoch[p][w]
    BY <1>4, PutEffect
  <2>2. w \in open[p] /\ pc[p] = "run" /\ Returned(p) /\ program' = program /\ pos' = pos
    BY <1>4, PutEffect DEF tagVars
  <2>3. Base(p) = pos[p] BY <2>2 DEF Base, Within
  <2>4. /\ pos[p] \in 0 .. Len(program) /\ H[pos[p]].open = open[p] /\ H[pos[p]].tags = mpi_tag[p]
        /\ H[pos[p]].epochs[w] = count_epoch[p][w] /\ Births(program, pos[p], w) = Life(p, w)
    BY <2>3, BaseIs
  <2>5. PICK i \in 0 .. Len(program) : i = pos[p] BY <2>4
  <2>6. ASSUME NEW k \in 1 .. i, NEW r \in Procs, program[k][1] = "free" PROVE pos[r] >= k
    <3>1. CASE k = i BY <2>2, <2>5, <2>6, <3>1 DEF Returned
    <3>2. CASE k # i
      <4>1. k \in 1 .. pos[p] - 1 BY <1>1, <2>5, <3>2
      <4> QED BY <2>6, <4>1 DEF FreesBehind
    <3> QED BY <3>1, <3>2
  <2>7. Witness(H, m, i) BY <2>1, <2>2, <2>4, <2>5, <2>6 DEF Witness, EpochTag
  <2>8. i \in 0 .. Len(program') /\ Witness(G, m, i)' BY <2>2, <2>7 DEF Witness
  <2> QED BY <1>2, <2>1, <2>8 DEF Witnessed
<1>5. ASSUME NEW p \in Procs, NEW w \in Wins, NEW m \in net, Receive(p, w, m) PROVE Witnessed(G)'
  BY <1>3, <1>5 DEF Receive
<1> QED BY <1>3, <1>4, <1>5, NetEffect

----------------------------------------------------------------------------
(* Intervals reach the epoch they were sent in.                            *)

NothingComes ==
  \A p \in Procs, w \in Wins : thread_end(p, w) /\ thr[p][w] = "done" => Coming(p, w) = {}

\* A process that has not got as far as the source of an interval, or has gone
\* on without ending the epoch, has the window in that epoch.
LEMMA StillOpen ==
  ASSUME Tidy, ProcessInv, NEW H, CourseOf(H), NEW m \in net, NEW i \in 0 .. Len(program),
         Witness(H, m, i), i <= Base(m.dst),
         m.life > Life(m.dst, m.win) \/ (m.life = Life(m.dst, m.win) /\ m.epoch > Closed(m.dst, m.win))
  PROVE  /\ m.win \in open[m.dst] /\ count_epoch[m.dst][m.win] = m.epoch /\ Life(m.dst, m.win) = m.life
         /\ m.tag = mpi_tag[m.dst][m.win] + m.epoch
<1>1. /\ Len(program) \in Nat /\ Course(H, program) /\ net \subseteq Messages
  BY DEF ProcessInv, TagTypeOK, CourseOf, NetTypes
<1>2. PICK p, v : p = m.dst /\ v = m.win OBVIOUS
<1>3. p \in Procs /\ v \in Wins /\ m.life \in Nat /\ m.epoch \in Nat BY <1>1, <1>2 DEF Messages
<1>4. PICK j : j = Base(p) OBVIOUS
<1>5. /\ j \in 0 .. Len(program) /\ H[j].open = open[p] /\ H[j].tags = mpi_tag[p]
      /\ H[j].epochs[v] = count_epoch[p][v] /\ Births(program, j, v) = Life(p, v)
  BY <1>3, <1>4, BaseIs
<1>6. v \in H[i].open /\ H[i].epochs[v] = m.epoch /\ Births(program, i, v) = m.life
      /\ m.tag = H[i].tags[v] + m.epoch
  BY <1>2 DEF Witness
<1>7. Since(H, program, i, j, v) BY <1>1, <1>2, <1>3, <1>4, <1>5 DEF Course
<1>8. ASSUME NEW k \in i + 1 .. j, Ends(H[k - 1], program[k], v), H[k - 1].epochs[v] = m.epoch,
             Births(program, k - 1, v) = m.life
      PROVE  FALSE
  <2>1. k \in 1 .. Len(program) /\ k <= j BY <1>1, <1>5
  <2>2. Life(p, v) > m.life \/ (Life(p, v) = m.life /\ Ended(H[j], v) >= m.epoch)
    BY <1>1, <1>3, <1>5, <1>8, <2>1, LeftBehind
  <2>3. Ended(H[j], v) \in Int /\ Closed(p, v) \in Int /\ Ended(H[j], v) <= Closed(p, v) /\ Life(p, v) \in Nat
    BY <1>3, <1>4, ClosedIs
  <2> QED BY <1>2, <1>3, <2>2, <2>3
<1>9. /\ v \in H[j].open /\ H[j].epochs[v] = H[i].epochs[v] /\ H[j].tags[v] = H[i].tags[v]
      /\ Births(program, j, v) = Births(program, i, v)
  BY <1>6, <1>7, <1>8 DEF Since
<1> QED BY <1>2, <1>5, <1>6, <1>9

\* A window that an interval is on its way to is not created again.
LEMMA NotRecreated ==
  ASSUME Tidy, ProcessInv, NEW H, CourseOf(H), Witnessed(H), NoIntervalLeft,
         NEW m \in net, m.life = Life(m.dst, m.win)
  PROVE  Live(m.dst, m.win) \/ Within(m.dst)
<1> SUFFICES ASSUME ~ Live(m.dst, m.win), ~ Within(m.dst) PROVE FALSE OBVIOUS
<1>1. /\ Len(program) \in Nat /\ Course(H, program) /\ net \subseteq Messages
      /\ pos \in [Procs -> Nat]
  BY DEF ProcessInv, TagTypeOK, CourseOf, NetTypes
<1>2. PICK p, v, j : p = m.dst /\ v = m.win /\ j = Base(p) OBVIOUS
<1>3. p \in Procs /\ v \in Wins /\ m.life \in Nat /\ m.epoch \in Nat BY <1>1, <1>2 DEF Messages
<1>4. /\ j \in 0 .. Len(program) /\ H[j].open = open[p] /\ H[j].tags = mpi_tag[p]
      /\ Births(program, j, v) = Life(p, v)
  BY <1>2, <1>3, BaseIs
<1>5. PICK i \in 0 .. Len(program) : Witness(H, m, i) BY DEF Witnessed
<1>6. m.life > Life(m.dst, m.win) \/ (m.life = Life(m.dst, m.win) /\ m.epoch > Closed(m.dst, m.win))
  BY DEF NoIntervalLeft
<1>7. v \in H[i].open /\ Births(program, i, v) = m.life BY <1>2, <1>5 DEF Witness
<1>8. CASE i <= j
  <2>1. v \in open[p] BY <1>2, <1>5, <1>6, <1>8, StillOpen
  <2>2. Live(p, v) BY <1>3, <2>1 DEF ProcessInv, HandlersInv, WindowsOf, TablesInv
  <2> QED BY <1>2, <2>2
<1>9. CASE j < i
  <2>1. Since(H, program, j, i, v) /\ StageOK(H[i]) BY <1>1, <1>3, <1>4, <1>9 DEF Course
  <2>2. H[j].tags[v] = NoTag BY <1>2, <1>4 DEF Live
  <2>3. Births(program, j, v) = Births(program, i, v) BY <1>2, <1>4, <1>7
  <2>4. H[i].tags[v] = NoTag BY <2>1, <2>2, <2>3 DEF Since
  <2>5. H[i].tags[v] # NoTag BY <1>7, <2>1 DEF StageOK
  <2> QED BY <2>4, <2>5
<1> QED BY <1>4, <1>8, <1>9

LEMMA NoIntervalLeftStep ==
  ASSUME Tidy, ProcessInv, [Next]_vars, NEW H, CourseOf(H), InStep(H), Witnessed(H), EpochsSent,
         NoIntervalLeft, NothingComes
  PROVE  NoIntervalLeft'
<1>1. /\ net \subseteq Messages
      /\ \A p \in Procs, w \in Wins :
           /\ Life(p, w) \in Nat /\ Closed(p, w) \in Int /\ count_epoch[p][w] \in Nat
           /\ active_epoch[p][w] \in {0, 1}
  BY ClosedIs DEF ProcessInv, NetTypes
<1>2. ASSUME NEW m \in net
      PROVE  \/ m.life > Life(m.dst, m.win)'
             \/ m.life = Life(m.dst, m.win)' /\ m.epoch > Closed(m.dst, m.win)'
  <2>1. PICK p, w : p = m.dst /\ w = m.win OBVIOUS
  <2>2. p \in Procs /\ w \in Wins /\ m.life \in Nat /\ m.epoch \in Nat /\ m.epoch > 0
    <3>1. m.epoch \in 1 .. MaxEpochs BY DEF EpochsSent
    <3> QED BY <1>1, <2>1, <3>1 DEF Messages
  <2>3. m.life > Life(p, w) \/ (m.life = Life(p, w) /\ m.epoch > count_epoch[p][w] - active_epoch[p][w])
    BY <2>1 DEF NoIntervalLeft, Closed
  <2>4. EpochGoesOn(p, w) \/ EpochBegins(p, w) \/ EpochEnds(p, w) \/ WindowBorn(p, w)
    BY <2>2, EpochEffect
  <2> SUFFICES \/ m.life > Life(p, w)'
               \/ m.life = Life(p, w)' /\ m.epoch > count_epoch'[p][w] - active_epoch'[p][w]
    BY <2>1 DEF Closed, Life
  <2>5. CASE EpochGoesOn(p, w) \/ EpochBegins(p, w)
    <3>1. Life(p, w)' = Life(p, w)
          /\ count_epoch'[p][w] - active_epoch'[p][w] = count_epoch[p][w] - active_epoch[p][w]
      BY <1>1, <2>2, <2>5 DEF EpochGoesOn, EpochBegins
    <3> QED BY <2>3, <3>1
  <2>6. CASE EpochEnds(p, w)
    <3>1. /\ Life(p, w)' = Life(p, w) /\ count_epoch'[p][w] = count_epoch[p][w]
          /\ active_epoch[p][w] = 1 /\ active_epoch'[p][w] = 0
          /\ thread_end(p, w) /\ thr[p][w] = "done"
      BY <2>6 DEF EpochEnds
    <3>2. Coming(p, w) = {} BY <2>2, <3>1 DEF NothingComes
    <3>3. ~ (m.life = Life(p, w) /\ m.epoch = count_epoch[p][w]) BY <2>1, <3>2 DEF Coming
    <3> QED BY <1>1, <2>2, <2>3, <3>1, <3>3
  <2>7. CASE WindowBorn(p, w)
    <3>1. Create(p, w) /\ Life(p, w)' = Life(p, w) + 1 /\ count_epoch'[p][w] = 0 /\ active_epoch'[p][w] = 0
      BY <2>7 DEF WindowBorn
    <3>2. ~ Live(p, w) /\ ~ Within(p) BY <3>1 DEF Create, Start, Call, Within
    <3>3. m.life # Life(p, w) BY <2>1, <3>2, NotRecreated
    <3> QED BY <1>1, <2>2, <2>3, <3>1, <3>3
  <2> QED BY <2>4, <2>5, <2>6, <2>7
<1>3. ASSUME net' \subseteq net PROVE NoIntervalLeft' BY <1>2, <1>3 DEF NoIntervalLeft
<1>4. ASSUME NEW p \in Procs, NEW q \in Procs, NEW w \in Wins, Put(p, q, w) PROVE NoIntervalLeft'
  <2>1. PICK m \in Messages :
          /\ net' = net \union {m}
          /\ m.dst = q /\ m.win = w /\ m.life = Life(p, w) /\ m.epoch = count_epoch[p][w]
    BY <1>4, PutEffect
  <2>2. active_epoch[p][w] = 1 /\ ~ thread_end(p, w) /\ UNCHANGED <<program, pos, count_epoch, active_epoch>>
    BY <1>4, PutEffect DEF tagVars, stateVars
  <2>3. ~ Past(q, w, Life(p, w), count_epoch[p][w]) BY <2>2, NobodyPast
  <2>4. m.life > Life(q, w) \/ (m.life = Life(q, w) /\ m.epoch > Closed(q, w))
    BY <1>1, <2>1, <2>3 DEF Past
  <2>5. Life(q, w)' = Life(q, w) /\ Closed(q, w)' = Closed(q, w) BY <2>2 DEF Life, Closed
  <2>6. m.life > Life(m.dst, m.win)' \/ (m.life = Life(m.dst, m.win)' /\ m.epoch > Closed(m.dst, m.win)')
    BY <2>1, <2>4, <2>5 DEF Life, Closed
  <2> QED BY <1>2, <2>1, <2>6 DEF NoIntervalLeft
<1>5. ASSUME NEW p \in Procs, NEW w \in Wins, NEW m \in net, Receive(p, w, m) PROVE NoIntervalLeft'
  BY <1>3, <1>5 DEF Receive
<1> QED BY <1>3, <1>4, <1>5, NetEffect

\* No free of a window that a process is in an epoch of is among the calls that
\* a source ahead of it has made.
LEMMA NoFreeBetween ==
  ASSUME Tidy, ProcessInv, NEW H, CourseOf(H), NEW m \in net, NEW i \in 0 .. Len(program),
         Witness(H, m, i), NEW p \in Procs, NEW k \in Base(p) + 1 .. i
  PROVE  program[k][1] # "free"
<1> SUFFICES ASSUME program[k][1] = "free" PROVE FALSE OBVIOUS
<1>1. /\ Len(program) \in Nat /\ pos[p] \in Nat /\ WindowsOf(p)
  BY DEF ProcessInv, TagTypeOK, HandlersInv
<1>2. Base(p) \in 0 .. Len(program) /\ (Within(p) => pos[p] = Base(p) + 1) BY BaseIs
<1>3. k \in 1 .. i BY <1>1, <1>2
<1>4. pos[p] >= k BY <1>3 DEF Witness
<1>5. Within(p) /\ k = pos[p] BY <1>1, <1>2, <1>4 DEF Base
<1>6. program[pos[p]] = Barrier \/ \E w \in Wins : program[pos[p]] = <<"close", w>>
  BY <1>1, <1>5 DEF WindowsOf, Within
<1>7. program[k][1] = "barrier" \/ program[k][1] = "close" BY <1>5, <1>6 DEF Barrier
<1> QED BY <1>7

LEMMA OwnReceived ==
  ASSUME Tidy, FewWindows, ProcessInv, NEW H, CourseOf(H), Witnessed(H), EpochsSent, NoIntervalLeft
  PROVE  ReceivesOwn
<1> SUFFICES ASSUME NEW p \in Procs, NEW w \in Wins, thr[p][w] = "poll", NEW m \in Matches(p, w)
             PROVE  m \in Coming(p, w)
  BY DEF ReceivesOwn
<1>1. /\ Len(program) \in Nat /\ Course(H, program) /\ net \subseteq Messages
      /\ WindowsOf(p) /\ ThreadsOf(p) /\ StateTypes /\ TagTypeOK
      /\ count_epoch[p][w] \in 0 .. MaxEpochs
      /\ MaxEpochs \in 0 .. RMA_ANALYZER_MAX_EPOCH_NUMBER /\ RMA_ANALYZER_MAX_EPOCH_NUMBER \in Nat
  BY TagAssumption DEF ProcessInv, TagTypeOK, CourseOf, NetTypes, HandlersInv
<1>2. m \in net /\ m.dst = p /\ m.tag = mpi_tag[p][w] + count_epoch[p][w]
  BY <1>1 DEF Matches, ThreadsOf, EpochTag
<1>3. active_epoch[p][w] = 1 BY <1>1 DEF ThreadsOf, StateTypes
<1>4. w \in open[p] /\ count_epoch[p][w] > 0 BY <1>1, <1>3 DEF WindowsOf
<1>5. PICK j, v : j = Base(p) /\ v = m.win OBVIOUS
<1>6. /\ v \in Wins /\ j \in 0 .. Len(program) /\ H[j].open = open[p] /\ H[j].tags = mpi_tag[p]
      /\ H[j].epochs[w] = count_epoch[p][w] /\ Births(program, j, w) = Life(p, w)
      /\ StageOK(H[j])
  BY <1>1, <1>2, <1>5, BaseIs DEF Messages, Course
<1>7. PICK i \in 0 .. Len(program) : Witness(H, m, i) BY <1>2 DEF Witnessed
<1>8. /\ v \in H[i].open /\ H[i].epochs[v] = m.epoch /\ Births(program, i, v) = m.life
      /\ m.tag = H[i].tags[v] + m.epoch /\ StageOK(H[i])
  BY <1>1, <1>5, <1>7 DEF Witness, Course
<1>9. /\ m.epoch \in 1 .. RMA_ANALYZER_MAX_EPOCH_NUMBER
      /\ count_epoch[p][w] \in 1 .. RMA_ANALYZER_MAX_EPOCH_NUMBER
  <2>1. m.epoch \in 1 .. MaxEpochs BY <1>2 DEF EpochsSent
  <2> QED BY <1>1, <1>4, <2>1
<1>10. CASE i <= j
  <2>1. \/ m.life > Life(m.dst, m.win)
        \/ m.life = Life(m.dst, m.win) /\ m.epoch > Closed(m.dst, m.win)
    BY <1>2 DEF NoIntervalLeft
  <2>2. v \in open[p] /\ count_epoch[p][v] = m.epoch /\ Life(p, v) = m.life
        /\ m.tag = mpi_tag[p][v] + m.epoch
    BY <1>2, <1>5, <1>7, <1>10, <2>1, StillOpen
  <2>3. H[j].tags[v] # NoTag /\ H[j].tags[w] # NoTag BY <1>4, <1>6, <2>2 DEF StageOK
  <2>4. v = w BY SMTT(40), <1>2, <1>6, <1>9, <2>2, <2>3 DEF StageOK
  <2> QED BY <1>2, <1>5, <2>2, <2>4 DEF Coming
<1>11. CASE j < i
  <2>1. \A k \in j + 1 .. i : program[k] # <<"free", w>>
    <3> SUFFICES ASSUME NEW k \in j + 1 .. i, program[k] = <<"free", w>> PROVE FALSE OBVIOUS
    <3>1. program[k][1] # "free" BY <1>2, <1>5, <1>7, NoFreeBetween
    <3> QED BY <3>1
  <2>2. Since(H, program, j, i, w) BY <1>1, <1>6, <1>11 DEF Course
  <2>3. H[j].tags[w] # NoTag BY <1>4, <1>6 DEF StageOK
  <2>4. H[i].tags[w] = H[j].tags[w] /\ Births(program, i, w) = Births(program, j, w)
    BY <2>1, <2>2, <2>3 DEF Since
  <2>5. H[i].tags[v] # NoTag /\ H[i].tags[w] # NoTag BY <1>8, <2>3, <2>4 DEF StageOK
  <2>6. v = w BY SMTT(40), <1>2, <1>6, <1>8, <1>9, <2>4, <2>5 DEF StageOK
  <2>7. m.epoch = count_epoch[p][w]
    <3>1. mpi_tag[p][w] \in Int BY <1>1, EpochTagType
    <3> QED BY <1>2, <1>6, <1>8, <1>9, <2>4, <2>6, <3>1
  <2> QED BY <1>2, <1>5, <1>6, <1>8, <2>4, <2>6, <2>7 DEF Coming
<1> QED BY <1>6, <1>10, <1>11

----------------------------------------------------------------------------
(* What has been counted of an epoch: until a process is past it, what its *)
(* processes have sent to p is on its way to p or has been received there. *)

InEpoch(p, w, l, e) == active_epoch[p][w] = 1 /\ Life(p, w) = l /\ count_epoch[p][w] = e

Incoming(p, w, l, e) == {m \in net : m.dst = p /\ m.win = w /\ m.life = l /\ m.epoch = e}

Units(p, w, l, e) ==
  {u \in Procs \X (1 .. MaxSend) : InEpoch(u[1], w, l, e) /\ u[2] <= array[u[1]][w][p]}

Received(p, w, l, e) == IF InEpoch(p, w, l, e) THEN count[p][w] ELSE 0

Counted ==
  \A p \in Procs, w \in Wins, l \in Nat, e \in Nat :
    (\A q \in Procs : ~ Past(q, w, l, e)) =>
      Received(p, w, l, e) + Cardinality(Incoming(p, w, l, e)) = Cardinality(Units(p, w, l, e))

LEMMA UnitsFinite ==
  ASSUME ProcessInv, NEW p, NEW w, NEW l, NEW e
  PROVE  /\ IsFiniteSet(Units(p, w, l, e)) /\ Cardinality(Units(p, w, l, e)) \in Nat
         /\ IsFiniteSet(Incoming(p, w, l, e)) /\ Cardinality(Incoming(p, w, l, e)) \in Nat
<1>1. IsFiniteSet(Procs) /\ IsFiniteSet(1 .. MaxSend) /\ IsFiniteSet(net)
  BY WindowsAssumption, FS_Interval DEF ProcessInv, NetTypes
<1>2. IsFiniteSet(Procs \X (1 .. MaxSend)) BY <1>1, FS_Product
<1>3. Units(p, w, l, e) \subseteq Procs \X (1 .. MaxSend) BY DEF Units
<1>4. Incoming(p, w, l, e) \subseteq net BY DEF Incoming
<1> QED BY <1>1, <1>2, <1>3, <1>4, FS_Subset, FS_CardinalityType

\* A process that is past an epoch stays past it.
LEMMA PastStays ==
  ASSUME Tidy, ProcessInv, [Next]_vars, NEW H, CourseOf(H),
         NEW q \in Procs, NEW w \in Wins, NEW l \in Nat, NEW e \in Nat, Past(q, w, l, e)
  PROVE  Past(q, w, l, e)'
<1>1. Life(q, w) \in Nat /\ count_epoch[q][w] \in Nat /\ active_epoch[q][w] \in {0, 1} BY ClosedIs
<1>2. \/ Life(q, w) > l
      \/ /\ Life(q, w) = l
         /\ \/ count_epoch[q][w] - active_epoch[q][w] >= e
            \/ count_epoch[q][w] = e /\ thread_end(q, w)
  BY DEF Past, Closed
<1> SUFFICES \/ Life(q, w)' > l
             \/ /\ Life(q, w)' = l
                /\ \/ count_epoch'[q][w] - active_epoch'[q][w] >= e
                   \/ count_epoch'[q][w] = e /\ thread_end(q, w)'
  BY DEF Past, Closed
<1>3. CASE EpochGoesOn(q, w) BY <1>2, <1>3 DEF EpochGoesOn
<1>4. CASE EpochBegins(q, w) BY <1>1, <1>2, <1>4 DEF EpochBegins
<1>5. CASE EpochEnds(q, w) BY <1>1, <1>2, <1>5 DEF EpochEnds
<1>6. CASE WindowBorn(q, w) BY <1>1, <1>2, <1>6 DEF WindowBorn
<1> QED BY <1>3, <1>4, <1>5, <1>6, EpochEffect

\* While nobody is past it, a process is in the epoch as before, or begins it.
LEMMA InEpochStep ==
  ASSUME ProcessInv, [Next]_vars, NEW q \in Procs, NEW w \in Wins, NEW l \in Nat, NEW e \in Nat,
         ~ Past(q, w, l, e)
  PROVE  \/ InEpoch(q, w, l, e)' <=> InEpoch(q, w, l, e)
         \/ EpochBegins(q, w) /\ ~ InEpoch(q, w, l, e) /\ count[q][w] = 0
<1>1. ThreadsOf(q) BY DEF ProcessInv, HandlersInv
<1>2. CASE EpochGoesOn(q, w) BY <1>2 DEF EpochGoesOn, InEpoch
<1>3. CASE EpochBegins(q, w)
  <2>1. active_epoch[q][w] = 0 BY <1>3 DEF EpochBegins
  <2>2. count[q][w] = 0 BY <1>1, <2>1 DEF ThreadsOf
  <2> QED BY <1>3, <2>1, <2>2 DEF InEpoch
<1>4. CASE EpochEnds(q, w) BY <1>4 DEF EpochEnds, InEpoch, Past
<1>5. CASE WindowBorn(q, w) BY <1>5 DEF WindowBorn, InEpoch
<1> QED BY <1>2, <1>3, <1>4, <1>5, EpochEffect

\* A step that neither sends nor receives.
LEMMA CountedElse ==
  ASSUME Tidy, ProcessInv, [Next]_vars, net' = net,
         \A a, b \in Procs, v \in Wins : ~ Put(a, b, v),
         \A a \in Procs, v \in Wins : \A m \in net : ~ Receive(a, v, m),
         NEW p \in Procs, NEW w \in Wins, NEW l \in Nat, NEW e \in Nat,
         \A q \in Procs : ~ Past(q, w, l, e)
  PROVE  /\ Received(p, w, l, e)' = Received(p, w, l, e)
         /\ Incoming(p, w, l, e)' = Incoming(p, w, l, e)
         /\ Units(p, w, l, e)' = Units(p, w, l, e)
<1>1. \A q \in Procs :
        /\ \/ InEpoch(q, w, l, e)' <=> InEpoch(q, w, l, e)
           \/ EpochBegins(q, w) /\ ~ InEpoch(q, w, l, e) /\ count[q][w] = 0
        /\ EpochBegins(q, w) \/ array'[q][w][p] = array[q][w][p]
        /\ count'[q][w] = count[q][w] \/ (EpochGoesOn(q, w) /\ Exit(q, w))
  BY InEpochStep, EpochEffect
<1>2. Incoming(p, w, l, e)' = Incoming(p, w, l, e) BY DEF Incoming
<1>3. ASSUME NEW u \in Procs \X (1 .. MaxSend)
      PROVE  (InEpoch(u[1], w, l, e)' /\ u[2] <= array'[u[1]][w][p]) <=>
             (InEpoch(u[1], w, l, e) /\ u[2] <= array[u[1]][w][p])
  <2>1. PICK q \in Procs, n \in 1 .. MaxSend : u[1] = q /\ u[2] = n OBVIOUS
  <2>2. n \in Nat /\ ~ n <= 0 BY WindowsAssumption
  <2>3. CASE EpochBegins(q, w)
    <3>1. array'[q][w][p] = 0 /\ active_epoch[q][w] = 0 BY <2>3 DEF EpochBegins
    <3>2. ~ InEpoch(q, w, l, e) BY <3>1 DEF InEpoch
    <3> QED BY <2>1, <2>2, <3>1, <3>2
  <2>4. CASE ~ EpochBegins(q, w)
    <3>1. (InEpoch(q, w, l, e)' <=> InEpoch(q, w, l, e)) /\ array'[q][w][p] = array[q][w][p]
      BY <1>1, <2>4
    <3> QED BY <2>1, <3>1 DEF InEpoch, Life
  <2> QED BY <2>3, <2>4
<1>4. Units(p, w, l, e)' = Units(p, w, l, e) BY <1>3 DEF Units
<1>5. Received(p, w, l, e)' = Received(p, w, l, e)
  <2>1. CASE EpochGoesOn(p, w) /\ Exit(p, w)
    <3>1. thread_end(p, w) /\ active_epoch' = active_epoch BY <2>1 DEF Exit, stateVars
    <3>2. ~ InEpoch(p, w, l, e) BY <3>1 DEF InEpoch, Past
    <3>3. ~ InEpoch(p, w, l, e)' BY <2>1, <3>2 DEF EpochGoesOn, InEpoch
    <3> QED BY <3>2, <3>3 DEF Received
  <2>2. CASE count'[p][w] = count[p][w] BY <1>1, <2>2 DEF Received
  <2> QED BY <1>1, <2>1, <2>2
<1> QED BY <1>2, <1>4, <1>5

LEMMA CountedPut ==
  ASSUME Tidy, ProcessInv, Sent, NEW a \in Procs, NEW b \in Procs, NEW v \in Wins, Put(a, b, v),
         NEW p \in Procs, NEW w \in Wins, NEW l \in Nat, NEW e \in Nat,
         Received(p, w, l, e) + Cardinality(Incoming(p, w, l, e)) = Cardinality(Units(p, w, l, e))
  PROVE  (Received(p, w, l, e) + Cardinality(Incoming(p, w, l, e)) = Cardinality(Units(p, w, l, e)))'
<1>1. PICK m \in Messages :
        /\ net' = net \union {m}
        /\ m.src = a /\ m.dst = b /\ m.win = v /\ m.life = Life(a, v)
        /\ m.epoch = count_epoch[a][v] /\ m.seq = array[a][v][b] + 1
  BY PutEffect
<1>2. /\ UNCHANGED <<program, pos, count_epoch, active_epoch, count>> /\ active_epoch[a][v] = 1
      /\ array'[a][v][b] = array[a][v][b] + 1 /\ array[a][v][b] < MaxSend
      /\ \A r, s \in Procs, x \in Wins : <<r, x, s>> # <<a, v, b>> => array'[r][x][s] = array[r][x][s]
  BY PutEffect DEF tagVars, stateVars, threadVars
<1>3. array[a][v][b] \in 0 .. MaxSend /\ MaxSend \in Nat
  BY WindowsAssumption DEF ProcessInv, StateTypes
<1>4. m \notin net
  <2> SUFFICES ASSUME m \in net PROVE FALSE OBVIOUS
  <2>1. /\ Life(a, v) \in Nat /\ count_epoch[a][v] \in Nat
    <3>1. pos[a] \in Int /\ TagTypeOK BY DEF ProcessInv, TagTypeOK
    <3> QED BY <3>1, EpochTagType, BirthsType, LifeIs
  <2>2. m.seq <= array[a][v][b] BY <1>1, <2>1 DEF Sent
  <2> QED BY <1>1, <1>3, <2>2
<1>5. PICK R \in Nat : R = Received(p, w, l, e)
  <2>1. count[p][w] \in Nat BY DEF ProcessInv, StateTypes
  <2> QED BY <2>1 DEF Received
<1>6. PICK I, U : I = Incoming(p, w, l, e) /\ U = Units(p, w, l, e) OBVIOUS
<1>7. IsFiniteSet(I) /\ IsFiniteSet(U) /\ Cardinality(I) \in Nat /\ Cardinality(U) \in Nat
      /\ R + Cardinality(I) = Cardinality(U)
  BY <1>5, <1>6, UnitsFinite
<1>8. \A q \in Procs : InEpoch(q, w, l, e)' <=> InEpoch(q, w, l, e) BY <1>2 DEF InEpoch, Life
<1>9. Received(p, w, l, e)' = R BY <1>2, <1>5, <1>8 DEF Received
<1>10. CASE b = p /\ v = w /\ InEpoch(a, w, l, e)
  <2>1. Incoming(p, w, l, e)' = I \union {m} /\ m \notin I
    BY <1>1, <1>4, <1>6, <1>10 DEF Incoming, InEpoch
  <2>2. PICK n \in 1 .. MaxSend : n = array[a][v][b] + 1 BY <1>2, <1>3
  <2>3. <<a, n>> \notin U BY <1>3, <1>6, <1>10, <2>2 DEF Units
  <2>4. ASSUME NEW u \in Procs \X (1 .. MaxSend)
        PROVE  (InEpoch(u[1], w, l, e)' /\ u[2] <= array'[u[1]][w][p]) <=>
               (InEpoch(u[1], w, l, e) /\ u[2] <= array[u[1]][w][p]) \/ u = <<a, n>>
    <3>1. PICK q \in Procs, k \in 1 .. MaxSend : u = <<q, k>> OBVIOUS
    <3>2. u[1] = q /\ u[2] = k /\ k \in Nat BY <3>1
    <3>3. CASE q = a
      <4>1. InEpoch(q, w, l, e)' /\ InEpoch(q, w, l, e) BY <1>8, <1>10, <3>3
      <4>2. k <= array'[q][w][p] <=> (k <= array[q][w][p] \/ k = n)
        BY <1>2, <1>3, <1>10, <2>2, <3>2, <3>3
      <4>3. u = <<a, n>> <=> k = n BY <3>1, <3>3
      <4>4. InEpoch(u[1], w, l, e)' <=> InEpoch(q, w, l, e)' BY <3>2 DEF InEpoch, Life
      <4>5. InEpoch(u[1], w, l, e) <=> InEpoch(q, w, l, e) BY <3>2
      <4> QED BY <3>2, <4>1, <4>2, <4>3, <4>4, <4>5
    <3>4. CASE q # a
      <4>1. array'[q][w][p] = array[q][w][p] /\ u # <<a, n>> BY <1>2, <3>1, <3>4
      <4>2. InEpoch(u[1], w, l, e)' <=> InEpoch(q, w, l, e)' BY <3>2 DEF InEpoch, Life
      <4> QED BY <1>8, <3>2, <4>1, <4>2
    <3> QED BY <3>3, <3>4
  <2>5. Units(p, w, l, e)' =
          {u \in Procs \X (1 .. MaxSend) : InEpoch(u[1], w, l, e)' /\ u[2] <= array'[u[1]][w][p]}
    BY DEF Units
  <2>6. U = {u \in Procs \X (1 .. MaxSend) : InEpoch(u[1], w, l, e) /\ u[2] <= array[u[1]][w][p]}
    BY <1>6 DEF Units
  <2>7. <<a, n>> \in Procs \X (1 .. MaxSend) OBVIOUS
  <2>8. Units(p, w, l, e)' = U \union {<<a, n>>} BY <2>4, <2>5, <2>6, <2>7
  <2>9. /\ Cardinality(I \union {m}) = Cardinality(I) + 1
        /\ Cardinality(U \union {<<a, n>>}) = Cardinality(U) + 1
    BY <1>7, <2>1, <2>3, FS_AddElement
  <2> QED BY <1>7, <1>9, <2>1, <2>8, <2>9
<1>11. CASE ~ (b = p /\ v = w /\ InEpoch(a, w, l, e))
  <2>1. Incoming(p, w, l, e)' = I
    <3>1. ~ (m.dst = p /\ m.win = w /\ m.life = l /\ m.epoch = e) BY <1>1, <1>2, <1>11 DEF InEpoch
    <3> QED BY <1>1, <1>6, <3>1 DEF Incoming
  <2>2. ASSUME NEW u \in Procs \X (1 .. MaxSend)
        PROVE  (InEpoch(u[1], w, l, e)' /\ u[2] <= array'[u[1]][w][p]) <=>
               (InEpoch(u[1], w, l, e) /\ u[2] <= array[u[1]][w][p])
    <3>1. PICK q \in Procs : u[1] = q OBVIOUS
    <3>2. InEpoch(q, w, l, e) => array'[q][w][p] = array[q][w][p] BY <1>2, <1>11
    <3>3. InEpoch(u[1], w, l, e)' <=> InEpoch(q, w, l, e)' BY <3>1 DEF InEpoch, Life
    <3> QED BY <1>8, <3>1, <3>2, <3>3
  <2>3. Units(p, w, l, e)' = U BY <1>6, <2>2 DEF Units
  <2> QED BY <1>7, <1>9, <2>1, <2>3
<1> QED BY <1>10, <1>11

LEMMA CountedReceive ==
  ASSUME Tidy, ProcessInv, ReceivesOwn, NEW a \in Procs, NEW v \in Wins, NEW m \in net, Receive(a, v, m),
         NEW p \in Procs, NEW w \in Wins, NEW l \in Nat, NEW e \in Nat,
         Received(p, w, l, e) + Cardinality(Incoming(p, w, l, e)) = Cardinality(Units(p, w, l, e))
  PROVE  (Received(p, w, l, e) + Cardinality(Incoming(p, w, l, e)) = Cardinality(Units(p, w, l, e)))'
<1>1. /\ net' = net \ {m} /\ thr[a][v] = "poll" /\ m \in Matches(a, v)
      /\ count' = [count EXCEPT ![a][v] = @ + 1]
      /\ UNCHANGED <<program, pos, count_epoch, active_epoch, array>>
  BY DEF Receive, tagVars, stateVars
<1>2. m.dst = a /\ m.win = v /\ m.life = Life(a, v) /\ m.epoch = count_epoch[a][v]
  BY <1>1 DEF ReceivesOwn, Coming
<1>3. active_epoch[a][v] = 1
  BY <1>1 DEF ProcessInv, HandlersInv, ThreadsOf, StateTypes
<1>4. \A q \in Procs : InEpoch(q, w, l, e)' <=> InEpoch(q, w, l, e) BY <1>1 DEF InEpoch, Life
<1>5. Units(p, w, l, e)' = Units(p, w, l, e) BY <1>1 DEF Units, InEpoch, Life
<1>6. count \in [Procs -> [Wins -> Nat]] BY DEF ProcessInv, StateTypes
<1>7. PICK I, U : I = Incoming(p, w, l, e) /\ U = Units(p, w, l, e) OBVIOUS
<1>8. IsFiniteSet(I) /\ Cardinality(I) \in Nat /\ Cardinality(U) \in Nat BY <1>7, UnitsFinite
<1>9. CASE a = p /\ v = w /\ InEpoch(p, w, l, e)
  <2>1. Incoming(p, w, l, e)' = I \ {m} /\ m \in I
    BY <1>1, <1>2, <1>7, <1>9 DEF Incoming, InEpoch
  <2>2. Cardinality(I \ {m}) = Cardinality(I) - 1 BY <1>8, <2>1, FS_RemoveElement
  <2>3. Received(p, w, l, e) = count[p][w] /\ Received(p, w, l, e)' = count[p][w] + 1
    BY <1>1, <1>4, <1>6, <1>9 DEF Received
  <2> QED BY <1>5, <1>6, <1>7, <1>8, <2>1, <2>2, <2>3
<1>10. CASE ~ (a = p /\ v = w /\ InEpoch(p, w, l, e))
  <2>1. m \notin I BY <1>2, <1>3, <1>7, <1>10 DEF Incoming, InEpoch
  <2>2. Incoming(p, w, l, e)' = I BY <1>1, <1>7, <2>1 DEF Incoming
  <2>3. InEpoch(p, w, l, e) => count'[p][w] = count[p][w] BY <1>1, <1>6, <1>10
  <2>4. Received(p, w, l, e)' = Received(p, w, l, e) BY <1>4, <2>3 DEF Received
  <2> QED BY <1>5, <1>7, <2>2, <2>4
<1> QED BY <1>9, <1>10

LEMMA CountedStep ==
  ASSUME Tidy, ProcessInv, [Next]_vars, NEW H, CourseOf(H), Sent, ReceivesOwn, Counted
  PROVE  Counted'
<1> SUFFICES ASSUME NEW p \in Procs, NEW w \in Wins, NEW l \in Nat, NEW e \in Nat,
                    \A q \in Procs : ~ Past(q, w, l, e)'
             PROVE  (Received(p, w, l, e) + Cardinality(Incoming(p, w, l, e))
                      = Cardinality(Units(p, w, l, e)))'
  BY DEF Counted
<1>1. \A q \in Procs : ~ Past(q, w, l, e) BY PastStays
<1>2. Received(p, w, l, e) + Cardinality(Incoming(p, w, l, e)) = Cardinality(Units(p, w, l, e))
  BY <1>1 DEF Counted
<1>3. ASSUME NEW a \in Procs, NEW b \in Procs, NEW v \in Wins, Put(a, b, v)
      PROVE  (Received(p, w, l, e) + Cardinality(Incoming(p, w, l, e)) = Cardinality(Units(p, w, l, e)))'
  BY <1>2, <1>3, CountedPut
<1>4. ASSUME NEW a \in Procs, NEW v \in Wins, NEW m \in net, Receive(a, v, m)
      PROVE  (Received(p, w, l, e) + Cardinality(Incoming(p, w, l, e)) = Cardinality(Units(p, w, l, e)))'
  BY <1>2, <1>4, CountedReceive
<1>5. CASE /\ \A a, b \in Procs, v \in Wins : ~ Put(a, b, v)
           /\ \A a \in Procs, v \in Wins : \A m \in net : ~ Receive(a, v, m)
  <2>1. net' = net BY <1>5, NetEffect
  <2>2. /\ Received(p, w, l, e)' = Received(p, w, l, e)
        /\ Incoming(p, w, l, e)' = Incoming(p, w, l, e)
        /\ Units(p, w, l, e)' = Units(p, w, l, e)
    BY <1>1, <1>5, <2>1, CountedElse
  <2> QED BY <1>2, <2>2
<1> QED BY <1>3, <1>4, <1>5

----------------------------------------------------------------------------
(* What a thread is told to wait for.                                      *)

\* A reduction adds up what was sent to the window being cleared.
LEMMA ReduceCounts ==
  ASSUME Tidy, ProcessInv, FirstInv, NEW H, CourseOf(H), InStep(H), Counted, Reduce,
         NEW p \in Procs, NEW w \in Wins, w \in clearing[p]
  PROVE  value'[p][w] = count'[p][w] + Cardinality(Coming(p, w)')
<1>1. /\ \A q \in Procs : pc[q] = "reduce" /\ WindowsOf(q)
      /\ UNCHANGED <<program, pos, count_epoch, count, net>>
      /\ value'[p][w] = Cardinality(Given(p))
  BY DEF Reduce, tagVars, threadVars, ProcessInv, HandlersInv
<1>2. \A q \in Procs : /\ clearing[q] = {w} /\ active_epoch[q][w] = 1 /\ ~ thread_end(q, w)
                       /\ pos[q] = pos[p]
  <2> SUFFICES ASSUME NEW q \in Procs
               PROVE  clearing[q] = {w} /\ active_epoch[q][w] = 1 /\ ~ thread_end(q, w) /\ pos[q] = pos[p]
    OBVIOUS
  <2>1. clearing[q] = clearing[p] /\ pos[q] = pos[p] BY <1>1, AtReduce
  <2> QED BY <1>1, <2>1 DEF WindowsOf, thread_end
<1>3. PICK l, e : l = Life(p, w) /\ e = count_epoch[p][w] OBVIOUS
<1>4. l \in Nat /\ e \in Nat BY <1>3, ClosedIs
<1>5. \A q \in Procs : InEpoch(q, w, l, e)
  <2> SUFFICES ASSUME NEW q \in Procs PROVE InEpoch(q, w, l, e) OBVIOUS
  <2>1. Life(q, w) = l BY <1>2, <1>3, LifeIs
  <2>2. Base(q) = Base(p) BY <1>1, <1>2 DEF Base, Within
  <2>3. H[Base(q)].epochs[w] = count_epoch[q][w] /\ H[Base(p)].epochs[w] = count_epoch[p][w] BY BaseIs
  <2> QED BY <1>2, <1>3, <2>1, <2>2, <2>3 DEF InEpoch
<1>6. \A q \in Procs : ~ Past(q, w, l, e) BY <1>2, <1>3, NobodyPast
<1>7. count[p][w] + Cardinality(Incoming(p, w, l, e)) = Cardinality(Units(p, w, l, e))
  BY <1>4, <1>5, <1>6 DEF Counted, Received
<1>8. Given(p) = Units(p, w, l, e)
  <2>1. ASSUME NEW u \in Procs \X (1 .. MaxSend)
        PROVE  (\E x \in clearing[u[1]] : u[2] <= array[u[1]][x][p]) <=>
               (InEpoch(u[1], w, l, e) /\ u[2] <= array[u[1]][w][p])
    <3>1. u[1] \in Procs OBVIOUS
    <3>2. clearing[u[1]] = {w} /\ InEpoch(u[1], w, l, e) BY <1>2, <1>5, <3>1
    <3> QED BY <3>2
  <2> QED BY <2>1 DEF Given, Units
<1>9. Coming(p, w)' = Incoming(p, w, l, e)
  <2>1. Life(p, w)' = l BY <1>1, <1>3 DEF Life
  <2> QED BY <1>1, <1>3, <2>1 DEF Coming, Incoming
<1> QED BY <1>1, <1>7, <1>8, <1>9

\* Between the reduction and the end of the clear a process waits.
Waits(p) ==
  /\ SameWindows(p) /\ value'[p] = value[p]
  /\ \A w \in Wins : /\ thr[p][w] = "done" => thr'[p][w] = "done"
                     /\ thr'[p][w] = "done" => thr[p][w] = "done" \/ Exit(p, w)

LEMMA JoinWaits ==
  ASSUME ProcessInv, [Next]_vars, ~ Reduce, NEW p \in Procs, pc'[p] = "join"
  PROVE  Waits(p)
<1>1. TagTypeOK /\ TablesInv /\ StateTypes /\ HandlersInv BY DEF ProcessInv
<1>2. CASE UNCHANGED vars BY <1>2 DEF vars, tagVars, appVars, stateVars, threadVars, SameWindows, Waits
<1>3. ASSUME NEW q \in Procs,
             \/ EnterBarrier(q) \/ Restart(q) \/ LeaveBarrier(q)
             \/ \E v \in Wins : Create(q, v) \/ WinFree(q, v) \/ Open(q, v) \/ Close(q, v) \/ Join(q, v)
      PROVE  Waits(p)
  <2>1. q # p
    <3>1. pc'[q] # "join"
      <4>1. CASE EnterBarrier(q) BY <1>1, <4>1 DEF EnterBarrier, StateTypes
      <4>2. CASE Restart(q) \/ LeaveBarrier(q) BY <1>1, <4>2 DEF Restart, LeaveBarrier, StateTypes
      <4>3. ASSUME NEW v \in Wins, Create(q, v) \/ WinFree(q, v) \/ Open(q, v) PROVE pc'[q] # "join"
        BY <4>3 DEF Create, WinFree, Open, Call, appVars
      <4>4. ASSUME NEW v \in Wins, Close(q, v) PROVE pc'[q] # "join" BY <1>1, <4>4 DEF Close, StateTypes
      <4>5. ASSUME NEW v \in Wins, Join(q, v) PROVE pc'[q] # "join"
        BY <1>1, <4>5 DEF Join, AfterJoin, StateTypes
      <4> QED BY <1>3, <4>1, <4>2, <4>3, <4>4, <4>5
    <3> QED BY <3>1
  <2>2. SameWindows(p) /\ thr'[p] = thr[p] BY <1>1, <1>3, <2>1, OthersKept DEF SameThreads
  <2>3. value'[p] = value[p]
    <3>1. value' = value \/ \E v \in Wins : value' = [value EXCEPT ![q][v] = 0]
      BY <1>3 DEF EnterBarrier, Restart, LeaveBarrier, Create, WinFree, Open, Close, Join, stateVars
    <3> QED BY <1>1, <2>1, <3>1 DEF StateTypes
  <2> QED BY <2>2, <2>3 DEF Waits
<1>4. ASSUME NEW q \in Procs, NEW v \in Wins,
             \/ \E r \in Procs : Put(q, r, v)
             \/ PostRecv(q, v) \/ (\E m \in net : Receive(q, v, m)) \/ Exit(q, v)
      PROVE  Waits(p)
  <2>1. SameWindows(p) /\ value'[p] = value[p]
    BY <1>4 DEF Put, PostRecv, Receive, Exit, tagVars, appVars, stateVars, SameWindows
  <2>2. thr \in [Procs -> [Wins -> {"none", "post", "poll", "done"}]] BY <1>1 DEF StateTypes
  <2>3. CASE thr' = thr BY <2>1, <2>3 DEF Waits
  <2>4. CASE Exit(q, v)
    <3>1. thr' = [thr EXCEPT ![q][v] = "done"] BY <2>4 DEF Exit
    <3>2. \A w \in Wins : thr'[p][w] = IF p = q /\ w = v THEN "done" ELSE thr[p][w] BY <2>2, <3>1
    <3> QED BY <2>1, <2>4, <3>2 DEF Waits
  <2>5. CASE PostRecv(q, v) \/ (\E m \in net : Receive(q, v, m))
    <3>1. PICK x \in {"poll", "post"} : thr[q][v] # "done" /\ thr' = [thr EXCEPT ![q][v] = x]
      BY <2>5 DEF PostRecv, Receive
    <3>2. \A w \in Wins : thr'[p][w] = IF p = q /\ w = v THEN x ELSE thr[p][w] BY <2>2, <3>1
    <3> QED BY <2>1, <3>1, <3>2 DEF Waits
  <2> QED BY <1>4, <2>3, <2>4, <2>5 DEF Put, threadVars
<1>5. CASE Terminating BY <1>2, <1>5 DEF Terminating
<1> QED BY <1>2, <1>3, <1>4, <1>5 DEF Next

\* Meanwhile nothing more is sent to the window in this epoch.
LEMMA NothingSent ==
  ASSUME Tidy, ProcessInv, NEW H, CourseOf(H), InStep(H),
         NEW p \in Procs, NEW w \in Wins, thread_end(p, w),
         NEW a \in Procs, NEW b \in Procs, NEW v \in Wins, Put(a, b, v)
  PROVE  Coming(p, w)' = Coming(p, w)
<1>1. PICK m \in Messages :
        /\ net' = net \union {m} /\ m.dst = b /\ m.win = v /\ m.life = Life(a, v)
        /\ m.epoch = count_epoch[a][v]
  BY PutEffect
<1>2. active_epoch[a][v] = 1 /\ ~ thread_end(a, v) /\ UNCHANGED <<program, pos, count_epoch>>
  BY PutEffect DEF tagVars
<1>3. Life(p, w)' = Life(p, w) BY <1>2 DEF Life
<1>4. ~ Past(p, v, Life(a, v), count_epoch[a][v]) BY <1>2, NobodyPast
<1>5. ~ (m.win = w /\ m.life = Life(p, w) /\ m.epoch = count_epoch[p][w])
  BY <1>1, <1>4 DEF Past
<1> QED BY <1>1, <1>2, <1>3, <1>5 DEF Coming

LEMMA ExpectedStep ==
  ASSUME Tidy, ProcessInv, FirstInv, [Next]_vars, NEW H, CourseOf(H), InStep(H),
         Counted, ReceivesOwn, ExpectedCounted
  PROVE  ExpectedCounted'
<1> SUFFICES ASSUME NEW p \in Procs, NEW w \in Wins, thread_end(p, w)', thr'[p][w] \in {"post", "poll"}
             PROVE  value'[p][w] = count'[p][w] + Cardinality(Coming(p, w)')
  <2>1. ASSUME \A p \in Procs, w \in Wins : thread_end(p, w)' /\ thr'[p][w] \in {"post", "poll"} =>
                 value'[p][w] = count'[p][w] + Cardinality(Coming(p, w)')
        PROVE  ExpectedCounted'
    BY <2>1 DEF ExpectedCounted
  <2> QED BY <2>1
<1>1. CASE Reduce
  <2>1. w \in clearing[p] BY <1>1 DEF Reduce, thread_end
  <2> QED BY <1>1, <2>1, ReduceCounts
<1>2. CASE ~ Reduce
  <2>1. SameWindows(p) /\ value'[p] = value[p] BY <1>2, JoinWaits DEF Waits, thread_end
  <2>2. thread_end(p, w) BY <2>1 DEF SameWindows, thread_end
  <2>3. pos'[p] = pos[p] /\ count_epoch'[p] = count_epoch[p] /\ active_epoch'[p] = active_epoch[p]
    BY <2>1 DEF SameWindows
  <2>4. Life(p, w)' = Life(p, w) BY <2>3, LifeKept
  <2>5. count \in [Procs -> [Wins -> Nat]] /\ thr \in [Procs -> [Wins -> {"none", "post", "poll", "done"}]]
        /\ ThreadsOf(p) /\ IsFiniteSet(net)
    BY DEF ProcessInv, StateTypes, HandlersInv, NetTypes
  <2>6. PICK C : C = Coming(p, w) OBVIOUS
  <2>7. IsFiniteSet(C) /\ Cardinality(C) \in Nat
    <3>1. C \subseteq net BY <2>6 DEF Coming
    <3> QED BY <2>5, <3>1, FS_Subset, FS_CardinalityType
  <2>8. thr[p][w] \in {"post", "poll"} => value[p][w] = count[p][w] + Cardinality(C)
    BY <2>2, <2>6 DEF ExpectedCounted
  <2>9. ASSUME NEW a \in Procs, NEW b \in Procs, NEW v \in Wins, Put(a, b, v)
        PROVE  value'[p][w] = count'[p][w] + Cardinality(Coming(p, w)')
    <3>1. Coming(p, w)' = C BY <2>2, <2>6, <2>9, NothingSent
    <3>2. thr' = thr /\ count' = count BY <2>9, PutEffect DEF threadVars
    <3> QED BY <2>1, <2>8, <3>1, <3>2
  <2>10. ASSUME NEW a \in Procs, NEW v \in Wins, NEW m \in net, Receive(a, v, m)
         PROVE  value'[p][w] = count'[p][w] + Cardinality(Coming(p, w)')
    <3>1. /\ net' = net \ {m} /\ thr[a][v] = "poll" /\ m \in Matches(a, v)
          /\ count' = [count EXCEPT ![a][v] = @ + 1] /\ thr' = [thr EXCEPT ![a][v] = "post"]
      BY <2>10 DEF Receive
    <3>2. m \in Coming(a, v) BY <3>1 DEF ReceivesOwn
    <3>3. Coming(p, w)' = C \ {m} BY <2>3, <2>4, <2>6, <3>1 DEF Coming
    <3>4. CASE a = p /\ v = w
      <4>1. Cardinality(C \ {m}) = Cardinality(C) - 1 BY <2>6, <2>7, <3>2, <3>4, FS_RemoveElement
      <4>2. count'[p][w] = count[p][w] + 1 /\ count[p][w] \in Nat BY <2>5, <3>1, <3>4
      <4> QED BY <2>1, <2>7, <2>8, <3>1, <3>3, <3>4, <4>1, <4>2
    <3>5. CASE ~ (a = p /\ v = w)
      <4>1. m \notin C BY <2>6, <3>2, <3>5 DEF Coming
      <4>2. count'[p][w] = count[p][w] /\ thr'[p][w] = thr[p][w] BY <2>5, <3>1, <3>5
      <4>3. C \ {m} = C BY <4>1
      <4> QED BY <2>1, <2>8, <3>3, <4>2, <4>3
    <3> QED BY <3>4, <3>5
  <2>11. CASE /\ \A a, b \in Procs, v \in Wins : ~ Put(a, b, v)
              /\ \A a \in Procs, v \in Wins : \A m \in net : ~ Receive(a, v, m)
    <3>1. net' = net BY <2>11, NetEffect
    <3>2. Coming(p, w)' = C BY <2>3, <2>4, <2>6, <3>1 DEF Coming
    <3>3. ~ Exit(p, w) BY <2>5 DEF Exit
    <3>4. count'[p][w] = count[p][w] BY <2>11, <3>3, EpochEffect
    <3>5. thr[p][w] \in {"post", "poll"}
      <4>1. active_epoch[p][w] = 1 /\ w \in clearing[p]
        BY <2>2 DEF ProcessInv, HandlersInv, WindowsOf, thread_end
      <4>2. thr[p][w] # "none" BY <2>5, <4>1 DEF ThreadsOf
      <4>3. thr[p][w] # "done" BY <1>2, JoinWaits DEF Waits, thread_end
      <4> QED BY <2>5, <4>2, <4>3
    <3> QED BY <2>1, <2>8, <3>2, <3>4, <3>5
  <2> QED BY <2>9, <2>10, <2>11
<1> QED BY <1>1, <1>2

LEMMA NothingComesStep ==
  ASSUME Tidy, ProcessInv, [Next]_vars, NEW H, CourseOf(H), InStep(H),
         ExpectedCounted, NothingComes
  PROVE  NothingComes'
<1> SUFFICES ASSUME NEW p \in Procs, NEW w \in Wins, thread_end(p, w)', thr'[p][w] = "done"
             PROVE  Coming(p, w)' = {}
  <2>1. ASSUME \A p \in Procs, w \in Wins : thread_end(p, w)' /\ thr'[p][w] = "done" => Coming(p, w)' = {}
        PROVE  NothingComes'
    BY <2>1 DEF NothingComes
  <2> QED BY <2>1
<1>1. /\ count \in [Procs -> [Wins -> Nat]] /\ thr \in [Procs -> [Wins -> {"none", "post", "poll", "done"}]]
      /\ ThreadsOf(p) /\ WindowsOf(p) /\ IsFiniteSet(net)
  BY DEF ProcessInv, StateTypes, HandlersInv, NetTypes
<1>2. CASE Reduce
  <2>1. thr[p][w] = "done" /\ pc[p] = "reduce" BY <1>2 DEF Reduce, threadVars
  <2> QED BY <1>1, <2>1 DEF ThreadsOf, thread_end
<1>3. CASE ~ Reduce
  <2>1. SameWindows(p) /\ (thr[p][w] = "done" \/ Exit(p, w)) BY <1>3, JoinWaits DEF Waits, thread_end
  <2>2. thread_end(p, w) BY <2>1 DEF SameWindows, thread_end
  <2>3. pos'[p] = pos[p] /\ count_epoch'[p] = count_epoch[p] BY <2>1 DEF SameWindows
  <2>4. Life(p, w)' = Life(p, w) BY <2>3, LifeKept
  <2>5. Coming(p, w)' \subseteq Coming(p, w)
    <3>1. ASSUME NEW a \in Procs, NEW b \in Procs, NEW v \in Wins, Put(a, b, v)
          PROVE  Coming(p, w)' \subseteq Coming(p, w)
      BY <2>2, <3>1, NothingSent
    <3>2. CASE \A a, b \in Procs, v \in Wins : ~ Put(a, b, v)
      <4>1. net' \subseteq net BY <3>2, NetEffect DEF Receive
      <4> QED BY <2>3, <2>4, <4>1 DEF Coming
    <3> QED BY <3>1, <3>2
  <2>6. CASE thr[p][w] = "done" BY <2>2, <2>5, <2>6 DEF NothingComes
  <2>7. CASE Exit(p, w)
    <3>1. thr[p][w] = "poll" /\ count[p][w] = value[p][w] BY <2>7 DEF Exit, ReceivedAll
    <3>2. value[p][w] = count[p][w] + Cardinality(Coming(p, w)) BY <2>2, <3>1 DEF ExpectedCounted
    <3>3. IsFiniteSet(Coming(p, w))
      <4>1. Coming(p, w) \subseteq net BY DEF Coming
      <4> QED BY <1>1, <4>1, FS_Subset
    <3>4. PICK n \in Nat : n = Cardinality(Coming(p, w)) BY <3>3, FS_CardinalityType
    <3>5. n = 0
      <4>1. PICK c \in Nat : c = count[p][w] BY <1>1
      <4>2. c = c + n BY <3>1, <3>2, <3>4, <4>1
      <4> QED BY <4>1, <4>2
    <3>6. Coming(p, w) = {} BY <3>3, <3>4, <3>5, FS_EmptySet
    <3> QED BY <2>5, <3>6
  <2> QED BY <2>1, <2>6, <2>7
<1> QED BY <1>2, <1>3

----------------------------------------------------------------------------
(* How far sums and counts go.                                             *)

ValuesBounded == \A p \in Procs, w \in Wins : value[p][w] <= MaxSend * Cardinality(Procs)

LEMMA SumBound ==
  /\ MaxSend * Cardinality(Procs) \in Nat
  /\ \A S \in SUBSET (Procs \X (1 .. MaxSend)) : Cardinality(S) <= MaxSend * Cardinality(Procs)
<1>1. IsFiniteSet(Procs) /\ MaxSend \in Nat BY WindowsAssumption
<1>2. PICK c \in Nat : c = Cardinality(Procs) BY <1>1, FS_CardinalityType
<1>3. IsFiniteSet(1 .. MaxSend) /\ Cardinality(1 .. MaxSend) = MaxSend BY <1>1, FS_Interval
<1>4. /\ IsFiniteSet(Procs \X (1 .. MaxSend))
      /\ Cardinality(Procs \X (1 .. MaxSend)) = c * MaxSend
  BY <1>1, <1>2, <1>3, FS_Product
<1>5. c * MaxSend = MaxSend * Cardinality(Procs) /\ c * MaxSend \in Nat BY <1>1, <1>2
<1>6. \A S \in SUBSET (Procs \X (1 .. MaxSend)) : Cardinality(S) <= c * MaxSend
  BY <1>4, FS_Subset
<1> QED BY <1>5, <1>6

LEMMA ValuesStep == ASSUME ProcessInv, ValuesBounded, [Next]_vars PROVE ValuesBounded'
<1>1. PICK N \in Nat : N = MaxSend * Cardinality(Procs) BY SumBound
<1>2. \A p \in Procs, w \in Wins : value[p][w] <= N BY <1>1 DEF ValuesBounded
<1> SUFFICES ASSUME NEW p \in Procs, NEW w \in Wins PROVE value'[p][w] <= N
  BY <1>1 DEF ValuesBounded
<1>3. CASE Reduce
  <2>1. Given(p) \in SUBSET (Procs \X (1 .. MaxSend)) BY DEF Given
  <2>2. Cardinality(Given(p)) <= N BY <1>1, <2>1, SumBound
  <2> QED BY <1>2, <1>3, <2>2 DEF Reduce
<1>4. CASE UNCHANGED value BY <1>2, <1>4
<1>5. ASSUME NEW q \in Procs, NEW v \in Wins, Create(q, v) PROVE value'[p][w] <= N
  <2>1. value' = [value EXCEPT ![q][v] = 0] /\ value \in [Procs -> [Wins -> Nat]]
    BY <1>5 DEF Create, ProcessInv, StateTypes
  <2>2. value'[p][w] = IF p = q /\ w = v THEN 0 ELSE value[p][w] BY <2>1
  <2> QED BY <1>2, <2>2
<1>6. CASE UNCHANGED vars BY <1>2, <1>6 DEF vars, stateVars
<1>7. ASSUME NEW q \in Procs, EnterBarrier(q) \/ Restart(q) \/ LeaveBarrier(q) PROVE UNCHANGED value
  BY <1>7 DEF EnterBarrier, Restart, LeaveBarrier, stateVars
<1>8. ASSUME NEW q \in Procs, NEW v \in Wins, WinFree(q, v) \/ Open(q, v) \/ Close(q, v) \/ Join(q, v)
      PROVE  UNCHANGED value
  BY <1>8 DEF WinFree, Open, Close, Join, stateVars
<1>9. ASSUME NEW q \in Procs, NEW v \in Wins,
             \/ \E r \in Procs : Put(q, r, v)
             \/ PostRecv(q, v) \/ (\E m \in net : Receive(q, v, m)) \/ Exit(q, v)
      PROVE  UNCHANGED value
  BY <1>9 DEF Put, PostRecv, Receive, Exit, stateVars
<1> QED BY <1>3, <1>4, <1>5, <1>6, <1>7, <1>8, <1>9 DEF Next, Terminating

\* A thread counts no more than was sent: while nobody is past the epoch, by what
\* has been counted of it, and then by what it is told to wait for.
LEMMA CountsBounded ==
  ASSUME Tidy, ProcessInv, NEW H, CourseOf(H), InStep(H), Counted, ExpectedCounted, ValuesBounded,
         NEW p \in Procs, NEW w \in Wins
  PROVE  count[p][w] <= MaxSend * Cardinality(Procs)
<1>1. PICK N \in Nat : N = MaxSend * Cardinality(Procs) BY SumBound
<1>2. /\ count[p][w] \in Nat /\ value[p][w] \in Nat /\ active_epoch[p][w] \in {0, 1} /\ ThreadsOf(p)
      /\ thr[p][w] \in {"none", "post", "poll", "done"} /\ IsFiniteSet(net)
  BY DEF ProcessInv, StateTypes, HandlersInv, NetTypes
<1>3. CASE thr[p][w] \in {"none", "done"} BY <1>1, <1>2, <1>3 DEF ThreadsOf
<1>4. CASE thr[p][w] \in {"post", "poll"} /\ thread_end(p, w)
  <2>1. value[p][w] = count[p][w] + Cardinality(Coming(p, w)) BY <1>4 DEF ExpectedCounted
  <2>2. Cardinality(Coming(p, w)) \in Nat
    <3>1. Coming(p, w) \subseteq net BY DEF Coming
    <3> QED BY <1>2, <3>1, FS_Subset, FS_CardinalityType
  <2>3. value[p][w] <= N BY <1>1 DEF ValuesBounded
  <2> QED BY <1>1, <1>2, <2>1, <2>2, <2>3
<1>5. CASE thr[p][w] # "none" /\ ~ thread_end(p, w)
  <2>1. PICK l, e : l = Life(p, w) /\ e = count_epoch[p][w] OBVIOUS
  <2>2. l \in Nat /\ e \in Nat BY <2>1, ClosedIs
  <2>3. active_epoch[p][w] = 1 BY <1>2, <1>5 DEF ThreadsOf
  <2>4. \A q \in Procs : ~ Past(q, w, l, e) BY <1>5, <2>1, <2>3, NobodyPast
  <2>5. count[p][w] + Cardinality(Incoming(p, w, l, e)) = Cardinality(Units(p, w, l, e))
    BY <2>1, <2>2, <2>3, <2>4 DEF Counted, Received, InEpoch
  <2>6. Cardinality(Incoming(p, w, l, e)) \in Nat BY UnitsFinite
  <2>7. Units(p, w, l, e) \in SUBSET (Procs \X (1 .. MaxSend)) BY DEF Units
  <2>8. Cardinality(Units(p, w, l, e)) <= N BY <1>1, <2>7, SumBound
  <2>9. PICK u \in Nat : u = Cardinality(Units(p, w, l, e)) BY UnitsFinite
  <2> QED BY <1>1, <1>2, <2>5, <2>6, <2>8, <2>9
<1> QED BY <1>2, <1>3, <1>4, <1>5

----------------------------------------------------------------------------
(* The theorems: of a program whose processes end their epochs in order,   *)
(* and that has few enough windows for the ranges of their tags.           *)

\* What the intervals sent and the counts make of the course of the program.
EpochsInv ==
  /\ ProcessInv /\ RangesInv /\ FreesBehind /\ FirstInv
  /\ EpochsSent /\ Sent /\ NoIntervalLeft /\ NothingComes /\ Counted /\ ExpectedCounted
  /\ ValuesBounded
  /\ \E H : CourseOf(H) /\ InStep(H) /\ Witnessed(H)

LEMMA EpochsInit == ASSUME Init PROVE EpochsInv
<1>1. ProcessInv /\ RangesInv /\ FreesBehind /\ FirstInv
  BY ProcessInit, RangesInit, FreesInit, FirstInit
<1>2. PICK H : CourseOf(H) BY <1>1, CourseInit
<1>3. /\ net = {} /\ program = <<>>
      /\ \A p \in Procs, w \in Wins : /\ active_epoch[p][w] = 0 /\ pc[p] = "run"
                                      /\ \A q \in Procs : array[p][w][q] = 0
  BY DEF Init, TagInit, Zero
<1>4. EpochsSent /\ Sent /\ NoIntervalLeft /\ Witnessed(H)
  BY <1>3 DEF EpochsSent, Sent, NoIntervalLeft, Witnessed
<1>5. NothingComes /\ ExpectedCounted BY <1>3 DEF NothingComes, ExpectedCounted, thread_end
<1>6. Counted
  <2> SUFFICES ASSUME NEW p \in Procs, NEW w \in Wins, NEW l \in Nat, NEW e \in Nat
               PROVE  Received(p, w, l, e) + Cardinality(Incoming(p, w, l, e))
                        = Cardinality(Units(p, w, l, e))
    BY DEF Counted
  <2>1. Received(p, w, l, e) = 0 BY <1>3 DEF Received, InEpoch
  <2>2. Incoming(p, w, l, e) = {} /\ Units(p, w, l, e) = {} BY <1>3 DEF Incoming, Units, InEpoch
  <2>3. Cardinality({}) = 0 BY FS_EmptySet
  <2> QED BY <2>1, <2>2, <2>3
<1>7. ValuesBounded BY SumBound DEF Init, Zero, ValuesBounded
<1>8. InStep(H)
  <2>1. 1 .. Len(program) = {} BY <1>3
  <2> QED BY <2>1 DEF InStep
<1> QED BY <1>1, <1>2, <1>4, <1>5, <1>6, <1>7, <1>8 DEF EpochsInv

LEMMA EpochsReceive == ASSUME Tidy, FewWindows, EpochsInv PROVE ReceivesOwn
BY OwnReceived DEF EpochsInv

LEMMA EpochsStep == ASSUME Tidy, FewWindows, EpochsInv, [Next]_vars PROVE EpochsInv'
<1>1. PICK H : CourseOf(H) /\ InStep(H) /\ Witnessed(H) BY DEF EpochsInv
<1>2. /\ ProcessInv /\ RangesInv /\ FreesBehind /\ FirstInv /\ EpochsSent /\ Sent /\ NoIntervalLeft
      /\ NothingComes /\ Counted /\ ExpectedCounted /\ ValuesBounded
  BY DEF EpochsInv
<1>3. ReceivesOwn BY EpochsReceive
<1>4. PICK G : CourseOf(G)' /\ \A k \in 0 .. Len(program) : G[k] = H[k] BY <1>1, <1>2, CourseStep
<1>5. InStep(G)' BY <1>1, <1>2, <1>4, InStepStep
<1>6. Witnessed(G)' BY <1>1, <1>2, <1>4, WitnessedStep
<1>7. ProcessInv' /\ RangesInv' /\ FreesBehind' /\ FirstInv'
  BY <1>2, ProcessStep, RangesStep, FreesStep, FirstStep DEF ProcessInv
<1>8. EpochsSent' /\ Sent' BY <1>2, EpochsSentStep, SentStep
<1>9. NoIntervalLeft' BY <1>1, <1>2, NoIntervalLeftStep
<1>10. NothingComes' BY <1>1, <1>2, NothingComesStep
<1>11. Counted' BY <1>1, <1>2, <1>3, CountedStep
<1>12. ExpectedCounted' BY <1>1, <1>2, <1>3, ExpectedStep
<1>13. ValuesBounded' BY <1>2, ValuesStep
<1> QED BY <1>4, <1>5, <1>6, <1>7, <1>8, <1>9, <1>10, <1>11, <1>12, <1>13 DEF EpochsInv

\* The inductive invariant, of the programs the checking is meant for.
THEOREM EpochsInvCorrect == Tidy /\ FewWindows => (Spec => []EpochsInv)
<1> SUFFICES ASSUME Tidy, FewWindows PROVE Spec => []EpochsInv OBVIOUS
<1>1. Init => EpochsInv BY EpochsInit
<1>2. EpochsInv /\ [Next]_vars => EpochsInv' BY EpochsStep
<1> QED BY <1>1, <1>2, PTL DEF Spec

\* Whatever windows are created, freed and created again, the receive of a
\* thread matches intervals of its own window and epoch only (ReceivesOwn).
THEOREM ThreadsReceiveTheirOwn == Tidy /\ FewWindows => (Spec => []ReceivesOwn)
<1> SUFFICES ASSUME Tidy, FewWindows PROVE Spec => []ReceivesOwn OBVIOUS
<1>1. EpochsInv => ReceivesOwn BY EpochsReceive
<1>2. Spec => []EpochsInv BY EpochsInvCorrect
<1> QED BY <1>1, <1>2, PTL

\* What a thread is told to wait for is what was sent to its window: the
\* reductions of all processes are about the same window (ExpectedCounted).
THEOREM ThreadsExpectWhatWasSent == Tidy /\ FewWindows => (Spec => []ExpectedCounted)
<1> SUFFICES ASSUME Tidy, FewWindows PROVE Spec => []ExpectedCounted OBVIOUS
<1>1. EpochsInv => ExpectedCounted BY DEF EpochsInv
<1>2. Spec => []EpochsInv BY EpochsInvCorrect
<1> QED BY <1>1, <1>2, PTL

\* An epoch, and a window that is freed, leave no interval behind that a later
\* epoch or window could receive (NoIntervalLeft).
THEOREM EndedEpochsLeaveNothing == Tidy /\ FewWindows => (Spec => []NoIntervalLeft)
<1> SUFFICES ASSUME Tidy, FewWindows PROVE Spec => []NoIntervalLeft OBVIOUS
<1>1. EpochsInv => NoIntervalLeft BY DEF EpochsInv
<1>2. Spec => []EpochsInv BY EpochsInvCorrect
<1> QED BY <1>1, <1>2, PTL

\* The types, with the bound that sums and counts keep to (WindowsTypeOK).
THEOREM WindowsTypesCorrect == Tidy /\ FewWindows => (Spec => []WindowsTypeOK)
<1> SUFFICES ASSUME Tidy, FewWindows PROVE Spec => []WindowsTypeOK OBVIOUS
<1>1. ASSUME EpochsInv PROVE WindowsTypeOK
  <2>1. PICK N \in Nat : N = MaxSend * Cardinality(Procs) BY SumBound
  <2>2. PICK H : CourseOf(H) /\ InStep(H) BY <1>1 DEF EpochsInv
  <2>3. TagTypeOK /\ TablesInv /\ StateTypes /\ NetTypes BY <1>1 DEF EpochsInv, ProcessInv
  <2>4. \A p \in Procs, w \in Wins : value[p][w] <= N BY <1>1, <2>1 DEF EpochsInv, ValuesBounded
  <2>5. \A p \in Procs, w \in Wins : count[p][w] <= N
    BY <1>1, <2>1, <2>2, CountsBounded DEF EpochsInv
  <2>6. value \in [Procs -> [Wins -> 0 .. N]] /\ count \in [Procs -> [Wins -> 0 .. N]]
    BY <2>1, <2>3, <2>4, <2>5 DEF StateTypes
  <2>7. \A p \in Procs : state_htbl[p].items \in Seq(Wins) BY <2>3 DEF TablesInv, TableOK
  <2>8. net \subseteq [src : Procs, dst : Procs, tag : Int, win : Wins, life : Nat,
                       epoch : 1 .. MaxEpochs, seq : 1 .. MaxSend]
    BY <1>1, <2>3 DEF EpochsInv, EpochsSent, NetTypes, Messages
  <2> QED BY <2>1, <2>3, <2>6, <2>7, <2>8 DEF StateTypes, WindowsTypeOK
<1>2. Spec => []EpochsInv BY EpochsInvCorrect
<1> QED BY <1>1, <1>2, PTL
=============================================================================
