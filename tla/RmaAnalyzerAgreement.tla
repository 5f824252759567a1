------------------------ MODULE RmaAnalyzerAgreement ------------------------
(***************************************************************************)
(* The processes make the same synchronisation calls, so they agree on     *)
(* what each call does to the window: which epochs there are, which of     *)
(* them allow one-sided calls, and which call is the last.  This is what   *)
(* makes MPI_Win_free safe, although its clear has no reduction: the epoch *)
(* of the last fence is one no process makes a one-sided call in.          *)
(***************************************************************************)
EXTENDS RmaAnalyzerProofs

\* What the program has made of the window after some of its calls.
Stage == [open : {"closed", "lock", "fence"}, fenced : BOOLEAN, clears : Nat, freed : BOOLEAN]

FirstStage == [open |-> "closed", fenced |-> FALSE, clears |-> 0, freed |-> FALSE]

FenceCalls == {"fence", "fence_end"}

\* A call that ends an epoch everywhere.
Clears(c, op) ==
  \/ op = "unlock_all"
  \/ op \in FenceCalls /\ c.fenced
  \/ op = "barrier" /\ (c.open = "lock" \/ c.fenced)

OpenAfter(c, op) ==
  CASE op = "lock_all"     -> "lock"
    [] op = "unlock_all"   -> "closed"
    [] op \in FenceCalls   -> AfterFence(op)
    [] OTHER               -> c.open

After(c, op) ==
  [open   |-> OpenAfter(c, op),
   fenced |-> c.fenced \/ op \in FenceCalls,
   clears |-> c.clears + IF Clears(c, op) THEN 1 ELSE 0,
   freed  |-> op = "free"]

\* The calls a program may make at a stage.
May(c, op) ==
  /\ ~ c.freed
  /\ op = "lock_all" => c.open = "closed" /\ ~ c.fenced
  /\ op = "unlock_all" => c.open = "lock"
  /\ op \in FenceCalls => c.open # "lock"
  /\ op = "free" => c.open = "closed"

Sound(c) ==
  /\ c.open = "lock" => ~ c.fenced
  /\ c.open = "fence" => c.fenced
  /\ c.freed => c.open = "closed"

\* Between an epoch that allows one-sided calls and a stage that allows none
\* there is a clear.
Later(c, d) ==
  /\ c.clears <= d.clears
  /\ c.freed => d.freed
  /\ c.open # "closed" /\ d.open = "closed" => c.clears < d.clears

\* The stages a sequence of calls leads through.
Course(h, prog) ==
  /\ h \in [0 .. Len(prog) -> Stage] /\ h[0] = FirstStage
  /\ \A n \in 1 .. Len(prog) : May(h[n - 1], prog[n]) /\ h[n] = After(h[n - 1], prog[n])
  /\ \A n \in 0 .. Len(prog) : Sound(h[n])
  /\ \A i, j \in 0 .. Len(prog) : i <= j => Later(h[i], h[j])

\* p is inside the clear its last call has begun.
Clearing(p) == pc[p] = "reduce" \/ (pc[p] = "join" /\ ~ Freeing(p))

\* The window of p is at stage c.
AtStage(p, c) == open[p] = c.open /\ (count_fence[p] > 0 <=> c.fenced)

\* The window of p is at the stage its calls have led to, or on its way there.
Placed(p, h) ==
  /\ calls[p] <= Len(program)
  /\ Clearing(p) =>
       /\ calls[p] > 0 /\ program[calls[p]] = call[p]
       /\ AtStage(p, h[calls[p] - 1])
       /\ clears[p] = h[calls[p] - 1].clears + IF pc[p] = "join" THEN 1 ELSE 0
  /\ ~ Clearing(p) =>
       /\ clears[p] = h[calls[p]].clears
       /\ Freeing(p) <=> h[calls[p]].freed
       /\ pc[p] = "fence_mid" => h[calls[p]].open = AfterFence(call[p]) /\ h[calls[p]].fenced
       /\ pc[p] # "fence_mid" => AtStage(p, h[calls[p]])

\* Every one-sided call was made at a stage that allows it, in the epoch after
\* the clears of that stage.
SentAtStage(a, h) ==
  \E j \in 0 .. calls[a.src] : h[j].open # "closed" /\ a.epoch = h[j].clears + 1

Agreement ==
  \E h : /\ Course(h, program)
         /\ \A p \in Procs : Placed(p, h)
         /\ \A a \in Targets : SentAtStage(a, h)

\* Nothing reaches a window from the moment MPI_Win_free is called.
FreedOK(p) ==
  Freeing(p) =>
    /\ \A m \in net : m.dst # p
    /\ \A a \in Targets : a.dst # p
    /\ analysed[p] = {}
    /\ count_epoch[p] \in {clears[p], clears[p] + 1}

FreeInv == Agreement /\ \A p \in Procs : FreedOK(p)

----------------------------------------------------------------------------
(* Courses. *)

\* The stages of a call are stages.
LEMMA StageAfter ==
  ASSUME NEW c \in Stage, NEW op \in SyncCalls, Sound(c), May(c, op)
  PROVE  After(c, op) \in Stage /\ Sound(After(c, op)) /\ Later(c, After(c, op))
<1> USE DEF Stage, SyncCalls, PassCalls, DynamicCalls, Sound, May, FenceCalls
<1>1. /\ After(c, op).open = OpenAfter(c, op) /\ After(c, op).fenced = (c.fenced \/ op \in FenceCalls)
      /\ After(c, op).clears = c.clears + IF Clears(c, op) THEN 1 ELSE 0
      /\ After(c, op).freed = (op = "free")
  BY DEF After
<1>2. OpenAfter(c, op) \in {"closed", "lock", "fence"} BY DEF OpenAfter, AfterFence
<1>3. After(c, op) \in Stage BY <1>2 DEF After
<1>4. Sound(After(c, op)) BY <1>1 DEF OpenAfter, AfterFence
<1>5. Later(c, After(c, op)) BY <1>1 DEF Later, OpenAfter, AfterFence, Clears
<1> QED BY <1>3, <1>4, <1>5

\* What is later than an earlier stage is later than it.
LEMMA LaterAgain ==
  ASSUME NEW b \in Stage, NEW c \in Stage, NEW d \in Stage, Later(b, c), Later(c, d)
  PROVE  Later(b, d)
BY DEF Stage, Later

\* A course goes on with a call the program may make.
LEMMA Extend ==
  ASSUME NEW prog \in Seq(SyncCalls), NEW op \in SyncCalls, NEW h, Course(h, prog),
         May(h[Len(prog)], op)
  PROVE  \E h2 : /\ Course(h2, Append(prog, op)) /\ \A n \in 0 .. Len(prog) : h2[n] = h[n]
                 /\ h2[Len(prog) + 1] = After(h[Len(prog)], op)
<1> DEFINE L == Len(prog)
           c == h[L]
           h2 == [n \in 0 .. L + 1 |-> IF n <= L THEN h[n] ELSE After(c, op)]
<1>1. L \in Nat /\ Len(Append(prog, op)) = L + 1 OBVIOUS
<1>2. \A n \in 1 .. L : Append(prog, op)[n] = prog[n] OBVIOUS
<1>3. Append(prog, op)[L + 1] = op OBVIOUS
<1>4. c \in Stage /\ Sound(c) BY <1>1 DEF Course
<1>5. After(c, op) \in Stage /\ Sound(After(c, op)) /\ Later(c, After(c, op)) BY <1>4, StageAfter
<1>6. \A n \in 0 .. L : h2[n] = h[n] BY <1>1
<1>7. h2[L + 1] = After(c, op) BY <1>1
<1>8. \A n \in 0 .. L : h[n] \in Stage BY <1>1 DEF Course
<1> HIDE DEF c
<1>9. h2 \in [0 .. L + 1 -> Stage] BY <1>5, <1>8
<1> HIDE DEF h2
<1>10. h2[0] = FirstStage BY <1>6, <1>1 DEF Course
<1>11. ASSUME NEW n \in 1 .. L + 1
       PROVE  May(h2[n - 1], Append(prog, op)[n]) /\ h2[n] = After(h2[n - 1], Append(prog, op)[n])
  <2>1. CASE n \in 1 .. L
    <3>1. n - 1 \in 0 .. L /\ n \in 0 .. L BY <2>1, <1>1
    <3> QED BY <3>1, <2>1, <1>2, <1>6 DEF Course
  <2>2. CASE n = L + 1
    <3>1. n - 1 = L /\ L \in 0 .. L BY <2>2, <1>1
    <3>2. h2[n - 1] = c BY <3>1, <1>6 DEF c
    <3> QED BY <2>2, <3>2, <1>3, <1>7 DEF c
  <2> QED BY <2>1, <2>2, <1>1
<1>12. ASSUME NEW n \in 0 .. L + 1 PROVE Sound(h2[n])
  <2>1. CASE n \in 0 .. L BY <2>1, <1>6 DEF Course
  <2>2. CASE n = L + 1 BY <2>2, <1>5, <1>7
  <2> QED BY <2>1, <2>2, <1>1
<1>13. ASSUME NEW i \in 0 .. L + 1, NEW j \in 0 .. L + 1, i <= j PROVE Later(h2[i], h2[j])
  <2>1. CASE j \in 0 .. L
    <3>1. i \in 0 .. L BY <2>1, <1>1, <1>13
    <3> QED BY <2>1, <3>1, <1>6, <1>13 DEF Course
  <2>2. CASE j = L + 1 /\ i \in 0 .. L
    <3>1. L \in 0 .. L /\ i <= L BY <2>2, <1>1
    <3>2. Later(h[i], c) BY <3>1, <2>2 DEF Course, c
    <3>3. Later(h[i], After(c, op)) BY <3>2, <1>4, <1>5, <1>8, <2>2, LaterAgain
    <3> QED BY <3>3, <2>2, <1>6, <1>7
  <2>3. CASE j = L + 1 /\ i = L + 1
    <3>1. h2[i] = h2[j] /\ h2[j] \in Stage BY <2>3, <1>5, <1>7
    <3> QED BY <3>1 DEF Later, Stage
  <2> QED BY <2>1, <2>2, <2>3, <1>1
<1>14. Course(h2, Append(prog, op))
  BY <1>1, <1>9, <1>10, <1>11, <1>12, <1>13 DEF Course
<1> QED BY <1>14, <1>6, <1>7 DEF c

\* The program after a step continues the one before, and so does its course.
Continues(h, h2) ==
  /\ Len(program) <= Len(program') /\ \A n \in 1 .. Len(program) : program'[n] = program[n]
  /\ \A n \in 0 .. Len(program) : h2[n] = h[n]

\* A call leads to the next stage of the course.
LEMMA FollowCourse ==
  ASSUME TypeOK, NEW p \in Procs, NEW op \in SyncCalls, Follow(p, op), NEW h, Course(h, program),
         calls[p] <= Len(program), May(h[calls[p]], op)
  PROVE  \E h2 : /\ Course(h2, program') /\ Continues(h, h2)
                 /\ calls'[p] = calls[p] + 1 /\ calls'[p] <= Len(program')
                 /\ program'[calls'[p]] = op
                 /\ h2[calls[p]] = h[calls[p]] /\ h2[calls'[p]] = After(h[calls[p]], op)
<1>1. program \in Seq(SyncCalls) /\ calls[p] \in Nat /\ calls'[p] = calls[p] + 1 /\ Len(program) \in Nat
  BY DEF TypeOK, TypeProgram, Follow
<1>2. CASE calls[p] < Len(program) /\ program[calls[p] + 1] = op /\ UNCHANGED program
  <2>1. calls[p] + 1 \in 1 .. Len(program) BY <1>1, <1>2
  <2>2. h[calls[p] + 1] = After(h[calls[p]], op) BY <2>1, <1>1, <1>2 DEF Course
  <2> QED BY <1>1, <1>2, <2>1, <2>2 DEF Continues
<1>3. CASE calls[p] = Len(program) /\ program' = Append(program, op)
  <2>1. PICK h2 : /\ Course(h2, program') /\ \A n \in 0 .. Len(program) : h2[n] = h[n]
                  /\ h2[Len(program) + 1] = After(h[Len(program)], op)
    BY <1>1, <1>3, Extend
  <2>2. /\ Len(program') = Len(program) + 1 /\ program'[Len(program) + 1] = op
        /\ \A n \in 1 .. Len(program) : program'[n] = program[n]
    BY <1>1, <1>3
  <2> QED BY <1>1, <1>3, <2>1, <2>2 DEF Continues
<1> QED BY <1>2, <1>3 DEF Follow

\* A program that does not change keeps its course.
LEMMA SameCourse ==
  ASSUME TypeOK, program' = program, NEW h, Course(h, program)
  PROVE  Course(h, program') /\ Continues(h, h)
BY DEF Continues, TypeOK, TypeProgram

----------------------------------------------------------------------------
(* Where the processes are on the course. *)

SameStage(r) ==
  /\ open'[r] = open[r] /\ (count_fence'[r] > 0 <=> count_fence[r] > 0)
  /\ calls'[r] = calls[r] /\ clears'[r] = clears[r] /\ call'[r] = call[r]

SamePlace(r) ==
  SameStage(r) /\ (Clearing(r)' <=> Clearing(r)) /\ (pc'[r] = "join" <=> pc[r] = "join")
    /\ (pc'[r] = "fence_mid" <=> pc[r] = "fence_mid")

\* A process that stays where it is.
LEMMA PlacedKeeps ==
  ASSUME TypeOK, NEW r \in Procs, NEW h, NEW h2, Continues(h, h2), Placed(r, h), SamePlace(r)
  PROVE  Placed(r, h2)'
<1>1. calls[r] \in Nat /\ Len(program) \in Nat /\ Len(program') >= Len(program)
  BY DEF TypeOK, TypeProgram, Continues
<1>2. calls[r] <= Len(program) BY DEF Placed
<1>3. h2[calls[r]] = h[calls[r]] BY <1>1, <1>2 DEF Continues
<1>4. calls[r] > 0 => h2[calls[r] - 1] = h[calls[r] - 1] /\ program'[calls[r]] = program[calls[r]]
  BY <1>1, <1>2 DEF Continues
<1>5. calls'[r] <= Len(program') BY <1>1, <1>2 DEF SamePlace, SameStage
<1>6. Freeing(r)' <=> Freeing(r) BY DEF SamePlace, SameStage, Freeing
<1>7. AtStage(r, h2[calls[r]])' <=> AtStage(r, h[calls[r]])
  BY <1>3 DEF AtStage, SamePlace, SameStage
<1>8. calls[r] > 0 => (AtStage(r, h2[calls[r] - 1])' <=> AtStage(r, h[calls[r] - 1]))
  BY <1>4 DEF AtStage, SamePlace, SameStage
<1>9. CASE Clearing(r)
  <2>1. /\ calls[r] > 0 /\ program[calls[r]] = call[r] /\ AtStage(r, h[calls[r] - 1])
        /\ clears[r] = h[calls[r] - 1].clears + IF pc[r] = "join" THEN 1 ELSE 0
    BY <1>9 DEF Placed
  <2>2. Clearing(r)' BY <1>9 DEF SamePlace
  <2> QED BY <2>1, <2>2, <1>4, <1>5, <1>8 DEF Placed, SamePlace, SameStage
<1>10. CASE ~ Clearing(r)
  <2>1. /\ clears[r] = h[calls[r]].clears /\ (Freeing(r) <=> h[calls[r]].freed)
        /\ pc[r] = "fence_mid" => h[calls[r]].open = AfterFence(call[r]) /\ h[calls[r]].fenced
        /\ pc[r] # "fence_mid" => AtStage(r, h[calls[r]])
    BY <1>10 DEF Placed
  <2>2. ~ Clearing(r)' BY <1>10 DEF SamePlace
  <2> QED BY <2>1, <2>2, <1>3, <1>5, <1>6, <1>7 DEF Placed, SamePlace, SameStage
<1> QED BY <1>9, <1>10

\* A step of a process moves no other process on.
LEMMA OthersPlace ==
  ASSUME TypeOK, NEW p \in Procs, NEW r \in Procs, r # p,
         SyncCall(p) \/ Progress(p) \/ MemoryCall(p) \/ \E k \in Epochs : CheckThread(p, k)
  PROVE  SamePlace(r)
<1> USE DEF TypeOK, TypeProgram, TypeHandler, TypeState, TypeHistory, SamePlace, SameStage, Clearing, Freeing
<1>1. ASSUME LockAll(p) PROVE SamePlace(r) BY <1>1 DEF LockAll, Follow, appVars
<1>2. ASSUME UnlockAll(p) PROVE SamePlace(r) BY <1>2 DEF UnlockAll, Follow, BeginClear
<1>3. ASSUME NEW op \in {"fence", "fence_end"}, FirstFence(p, op) PROVE SamePlace(r) BY <1>3 DEF FirstFence, Follow, appVars
<1>4. ASSUME NEW op \in {"fence", "fence_end"}, NextFence(p, op) PROVE SamePlace(r) BY <1>4 DEF NextFence, Follow, BeginClear
<1>5. ASSUME FenceMid(p) PROVE SamePlace(r) BY <1>5 DEF FenceMid
<1>6. ASSUME Barrier(p) PROVE SamePlace(r) BY <1>6 DEF Barrier, Follow, BeginClear
<1>7. ASSUME Restart(p) PROVE SamePlace(r) BY <1>7 DEF Restart
<1>8. ASSUME BarrierReturn(p) PROVE SamePlace(r) BY <1>8 DEF BarrierReturn, envVars
<1>9. ASSUME WinFree(p) PROVE SamePlace(r) BY <1>9 DEF WinFree, Follow
<1>10. ASSUME ReduceSend(p) PROVE SamePlace(r) BY <1>10 DEF ReduceSend, envVars
<1>11. ASSUME ReduceRoot(p) PROVE SamePlace(r) BY <1>11 DEF ReduceRoot, envVars
<1>12. ASSUME FinishReduce(p) PROVE SamePlace(r) BY <1>12 DEF FinishReduce, envVars
<1>21. ASSUME RaiseEnd(p) PROVE SamePlace(r) BY <1>21 DEF RaiseEnd, envVars, appVars
<1>13. ASSUME Join(p) PROVE SamePlace(r) BY <1>13 DEF Join
<1>14. ASSUME NEW q \in Procs, NEW c \in Comms, CommReports(p, q, c) PROVE SamePlace(r) BY <1>14 DEF CommReports, envVars, appVars
<1>15. ASSUME NEW q \in Procs, NEW c \in Comms, CommSend(p, q, c) PROVE SamePlace(r) BY <1>15 DEF CommSend, envVars
<1>16. ASSUME SendReturn(p) PROVE SamePlace(r) BY <1>16 DEF SendReturn, envVars
<1>17. ASSUME NEW i \in Touches, LoadStore(p, i) PROVE SamePlace(r) BY <1>17 DEF LoadStore, envVars, appVars
<1>18. ASSUME NEW k \in Epochs, PostRecv(p, k) PROVE SamePlace(r) BY <1>18 DEF PostRecv, envVars, appVars
<1>19. ASSUME NEW k \in Epochs, NEW m \in net, Receive(p, k, m) PROVE SamePlace(r) BY <1>19 DEF Receive, envVars, appVars
<1>20. ASSUME NEW k \in Epochs, Exit(p, k) PROVE SamePlace(r) BY <1>20 DEF Exit, envVars, appVars
<1> QED BY <1>1, <1>2, <1>3, <1>4, <1>5, <1>6, <1>7, <1>8, <1>9, <1>10, <1>11, <1>12, <1>13, <1>14, <1>15, <1>16, <1>17, <1>18, <1>19, <1>20, <1>21
  DEF SyncCall, Progress, MemoryCall, CheckThread

\* What is known of a process between two calls.
LEMMA BetweenCalls ==
  ASSUME TypeOK, NEW p \in Procs, ControlOK(p), NEW h, Course(h, program), Placed(p, h), pc[p] = "run"
  PROVE  /\ ~ Freeing(p) /\ calls[p] <= Len(program) /\ h[calls[p]] \in Stage
         /\ AtStage(p, h[calls[p]]) /\ clears[p] = h[calls[p]].clears /\ ~ h[calls[p]].freed
<1>1. calls[p] \in Nat /\ Len(program) \in Nat BY DEF TypeOK, TypeProgram
<1>2. ~ Freeing(p) /\ ~ Clearing(p) BY DEF ControlOK, Clearing, Freeing
<1> QED BY <1>1, <1>2 DEF Placed, Course

\* A call the process may make leads it to the next stage, or into a clear.
Led(p, h, op) ==
  \E h2 : /\ Course(h2, program') /\ Continues(h, h2)
          /\ calls'[p] = calls[p] + 1 /\ calls'[p] <= Len(program')
          /\ program'[calls'[p]] = op
          /\ h2[calls[p]] = h[calls[p]] /\ h2[calls'[p]] = After(h[calls[p]], op)

PlacedNext(p, h) ==
  \E h2 : Course(h2, program') /\ Continues(h, h2) /\ Placed(p, h2)'

\* The call begins a clear.
LEMMA LedIntoClear ==
  ASSUME TypeOK, NEW p \in Procs, NEW op \in SyncCalls, NEW h, Led(p, h, op),
         AtStage(p, h[calls[p]]), clears[p] = h[calls[p]].clears,
         open'[p] = open[p], count_fence'[p] = count_fence[p], clears'[p] = clears[p],
         pc'[p] = "reduce", call'[p] = op
  PROVE  PlacedNext(p, h)
<1>1. PICK h2 : /\ Course(h2, program') /\ Continues(h, h2)
          /\ calls'[p] = calls[p] + 1 /\ calls'[p] <= Len(program')
          /\ program'[calls'[p]] = op
          /\ h2[calls[p]] = h[calls[p]] /\ h2[calls'[p]] = After(h[calls[p]], op)
  BY DEF Led
<1>0. calls[p] \in Nat BY DEF TypeOK, TypeProgram
<1>2. calls'[p] - 1 = calls[p] /\ calls'[p] > 0 BY <1>0, <1>1
<1>3. Clearing(p)' BY DEF Clearing
<1>4. open'[p] = h2[calls[p]].open /\ (count_fence'[p] > 0 <=> h2[calls[p]].fenced) BY <1>1 DEF AtStage
<1>5. clears'[p] = h2[calls[p]].clears + IF pc'[p] = "join" THEN 1 ELSE 0
  BY <1>1 DEF TypeOK, TypeHistory
<1> QED BY <1>1, <1>2, <1>3, <1>4, <1>5 DEF Placed, PlacedNext, AtStage

\* The call takes effect at once.
LEMMA LedOn ==
  ASSUME TypeOK, NEW p \in Procs, NEW op \in SyncCalls, NEW h, Led(p, h, op),
         h[calls[p]] \in Stage, AtStage(p, h[calls[p]]), clears[p] = h[calls[p]].clears,
         ~ Clears(h[calls[p]], op), clears'[p] = clears[p], open'[p] = OpenAfter(h[calls[p]], op),
         count_fence'[p] > 0 <=> count_fence[p] > 0 \/ op \in FenceCalls,
         pc'[p] # "fence_mid", ~ Clearing(p)', Freeing(p)' <=> op = "free"
  PROVE  PlacedNext(p, h)
<1>1. PICK h2 : /\ Course(h2, program') /\ Continues(h, h2)
          /\ calls'[p] = calls[p] + 1 /\ calls'[p] <= Len(program')
          /\ program'[calls'[p]] = op
          /\ h2[calls[p]] = h[calls[p]] /\ h2[calls'[p]] = After(h[calls[p]], op)
  BY DEF Led
<1> DEFINE c == h[calls[p]]
<1>2. /\ After(c, op).open = OpenAfter(c, op) /\ After(c, op).fenced = (c.fenced \/ op \in FenceCalls)
      /\ After(c, op).clears = c.clears + IF Clears(c, op) THEN 1 ELSE 0
      /\ After(c, op).freed = (op = "free")
  BY DEF After
<1>3. c.clears \in Nat /\ c.fenced \in BOOLEAN BY DEF Stage
<1>4. open'[p] = After(c, op).open /\ (count_fence'[p] > 0 <=> After(c, op).fenced) BY <1>2, <1>3 DEF AtStage
<1>5. clears'[p] = After(c, op).clears BY <1>2, <1>3
<1>6. Freeing(p)' <=> After(c, op).freed BY <1>2
<1>7. /\ open'[p] = h2[calls'[p]].open /\ (count_fence'[p] > 0 <=> h2[calls'[p]].fenced)
      /\ clears'[p] = h2[calls'[p]].clears /\ (Freeing(p)' <=> h2[calls'[p]].freed)
  BY <1>1, <1>4, <1>5, <1>6
<1> QED BY <1>1, <1>7 DEF Placed, PlacedNext, AtStage

\* A process that makes no call.
LEMMA PlacedStays ==
  ASSUME TypeOK, NEW p \in Procs, NEW h, Course(h, program), Placed(p, h), program' = program,
         SamePlace(p)
  PROVE  PlacedNext(p, h)
BY SameCourse, PlacedKeeps DEF PlacedNext

\* Every step takes the process that makes it to its place on the course.
LEMMA PlacedStep ==
  ASSUME TypeOK, Disciplined, NEW p \in Procs, ControlOK(p), NEW h, Course(h, program), Placed(p, h),
         SyncCall(p) \/ Progress(p) \/ MemoryCall(p) \/ \E k \in Epochs : CheckThread(p, k)
  PROVE  PlacedNext(p, h)
<1> DEFINE c == h[calls[p]]
<1>0. /\ pc \in [Procs -> AppPC] /\ call \in [Procs -> Handler] /\ open[p] \in {"closed", "lock", "fence"}
      /\ clears[p] \in Nat /\ count_fence[p] \in Nat
  BY DEF TypeOK, TypeHandler, TypeProgram, TypeHistory, TypeState
<1>a. pc[p] = "run" => /\ ~ Freeing(p) /\ calls[p] <= Len(program) /\ c \in Stage
                       /\ AtStage(p, c) /\ clears[p] = c.clears /\ ~ c.freed
  BY BetweenCalls
<1>b. ASSUME NEW op \in SyncCalls, Follow(p, op), May(c, op) PROVE Led(p, h, op)
  BY <1>a, <1>b, FollowCourse DEF Led, Follow
<1>c. {"lock_all", "unlock_all", "barrier", "free", "fence", "fence_end"} \subseteq SyncCalls
  BY DEF SyncCalls, PassCalls, DynamicCalls
<1> HIDE DEF c
<1>1. ASSUME LockAll(p) PROVE PlacedNext(p, h)
  <2>1. Follow(p, "lock_all") /\ pc[p] = "run" /\ open[p] = "closed" /\ count_fence[p] = 0
        /\ open'[p] = "lock" /\ UNCHANGED <<pc, call, clears, count_fence>>
    BY <1>1 DEF LockAll, Follow, appVars, TypeOK, TypeProgram
  <2>2. May(c, "lock_all") BY <1>a, <2>1 DEF May, AtStage, FenceCalls, Stage
  <2>3. Led(p, h, "lock_all") BY <1>b, <1>c, <2>1, <2>2
  <2>4. ~ Clears(c, "lock_all") /\ OpenAfter(c, "lock_all") = "lock" BY DEF Clears, OpenAfter, FenceCalls
  <2>5. "lock_all" \notin FenceCalls BY DEF FenceCalls
  <2> QED BY <1>a, <1>c, <2>1, <2>3, <2>4, <2>5, LedOn DEF Clearing, Freeing, c
<1>2. ASSUME UnlockAll(p) PROVE PlacedNext(p, h)
  <2>1. Follow(p, "unlock_all") /\ pc[p] = "run" /\ open[p] = "lock" /\ pc'[p] = "reduce"
        /\ call'[p] = "unlock_all" /\ UNCHANGED <<open, clears, count_fence>>
    BY <1>0, <1>2 DEF UnlockAll, Follow, BeginClear
  <2>2. May(c, "unlock_all") BY <1>a, <2>1 DEF May, AtStage, FenceCalls
  <2>3. Led(p, h, "unlock_all") BY <1>b, <1>c, <2>1, <2>2
  <2> QED BY <1>a, <1>c, <2>1, <2>3, LedIntoClear DEF c
<1>3. ASSUME NEW op \in FenceCalls, FirstFence(p, op) PROVE PlacedNext(p, h)
  <2>1. Follow(p, op) /\ pc[p] = "run" /\ open[p] # "lock" /\ count_fence[p] = 0 /\ count_fence'[p] = 1
        /\ open'[p] = AfterFence(op) /\ UNCHANGED <<pc, call, clears>>
    BY <1>3 DEF FirstFence, Follow, appVars, TypeOK, TypeProgram, TypeState
  <2>2. May(c, op) BY <1>a, <2>1 DEF May, AtStage, FenceCalls
  <2>3. Led(p, h, op) BY <1>b, <1>c, <2>1, <2>2 DEF FenceCalls
  <2>4. ~ Clears(c, op) /\ OpenAfter(c, op) = AfterFence(op)
    BY <1>a, <2>1 DEF Clears, OpenAfter, FenceCalls, AtStage
  <2>5. op \in SyncCalls /\ op # "free" BY <1>c DEF FenceCalls
  <2> QED BY <1>a, <2>1, <2>3, <2>4, <2>5, LedOn DEF Clearing, Freeing, c
<1>4. ASSUME NEW op \in FenceCalls, NextFence(p, op) PROVE PlacedNext(p, h)
  <2>1. Follow(p, op) /\ pc[p] = "run" /\ open[p] # "lock" /\ count_fence[p] > 0 /\ pc'[p] = "reduce"
        /\ call'[p] = op /\ UNCHANGED <<open, clears, count_fence>>
    BY <1>0, <1>4 DEF NextFence, Follow, BeginClear
  <2>2. May(c, op) BY <1>a, <2>1 DEF May, AtStage, FenceCalls
  <2>3. op \in SyncCalls BY <1>c DEF FenceCalls
  <2>4. Led(p, h, op) BY <1>b, <2>1, <2>2, <2>3
  <2> QED BY <1>a, <2>1, <2>3, <2>4, LedIntoClear DEF c
<1>5. ASSUME FenceMid(p) PROVE PlacedNext(p, h)
  <2>1. /\ program' = program /\ calls' = calls /\ clears' = clears /\ call' = call
        /\ pc[p] = "fence_mid" /\ pc'[p] = "run" /\ ~ Clearing(p) /\ ~ Clearing(p)'
        /\ open'[p] = AfterFence(call[p]) /\ count_fence'[p] > 0
    BY <1>0, <1>5 DEF FenceMid, Clearing, TypeOK, TypeProgram, TypeState
  <2>2. /\ calls[p] <= Len(program) /\ clears[p] = c.clears /\ (Freeing(p) <=> c.freed)
        /\ c.open = AfterFence(call[p]) /\ c.fenced
    BY <2>1 DEF Placed, c
  <2>3. AtStage(p, h[calls[p]])' /\ (Freeing(p)' <=> Freeing(p))
    BY <2>1, <2>2 DEF AtStage, Freeing, c
  <2>4. Placed(p, h)' BY <2>1, <2>2, <2>3 DEF Placed, c
  <2> QED BY <2>1, <2>4, SameCourse DEF PlacedNext
<1>6. ASSUME Barrier(p) PROVE PlacedNext(p, h)
  <2>1. Follow(p, "barrier") /\ pc[p] = "run" /\ UNCHANGED <<open, clears, count_fence>> /\ call'[p] = "barrier"
    BY <1>0, <1>6 DEF Barrier, Follow, BeginClear
  <2>2. May(c, "barrier") BY <1>a, <2>1 DEF May, AtStage, FenceCalls
  <2>3. Led(p, h, "barrier") BY <1>b, <1>c, <2>1, <2>2
  <2>4. CASE pc'[p] = "reduce" BY <1>a, <1>c, <2>1, <2>3, <2>4, LedIntoClear DEF c
  <2>5. CASE active_epoch[p] = 0 /\ pc'[p] = "restart"
    <3>1. open[p] # "lock" /\ ~ (count_fence[p] > 0)
      BY <2>1, <2>5 DEF ControlOK, Active, Between
    <3>2. ~ Clears(c, "barrier") /\ OpenAfter(c, "barrier") = c.open /\ "barrier" \notin FenceCalls
      BY <1>a, <2>1, <3>1 DEF Clears, OpenAfter, FenceCalls, AtStage
    <3>3. open'[p] = c.open BY <1>a, <2>1 DEF AtStage
    <3> QED BY <1>a, <1>c, <2>1, <2>3, <2>5, <3>2, <3>3, LedOn DEF Clearing, Freeing, c
  <2> QED BY <1>0, <1>6, <2>4, <2>5 DEF Barrier, BeginClear
<1>7. ASSUME Restart(p) PROVE PlacedNext(p, h)
  <2>1. program' = program /\ SamePlace(p)
    BY <1>0, <1>7 DEF Restart, SamePlace, SameStage, Clearing, Freeing
  <2> QED BY <2>1, PlacedStays
<1>8. ASSUME BarrierReturn(p) PROVE PlacedNext(p, h)
  <2>1. program' = program /\ SamePlace(p)
    BY <1>0, <1>8 DEF BarrierReturn, envVars, SamePlace, SameStage, Clearing, Freeing
  <2> QED BY <2>1, PlacedStays
<1>9. ASSUME WinFree(p) PROVE PlacedNext(p, h)
  <2>1. Follow(p, "free") /\ pc[p] = "run" /\ open[p] = "closed" /\ call'[p] = "free"
        /\ pc'[p] \in {"join", "freed"} /\ UNCHANGED <<open, clears, count_fence>>
    BY <1>0, <1>9 DEF WinFree, Follow
  <2>2. May(c, "free") BY <1>a, <2>1 DEF May, AtStage, FenceCalls
  <2>3. Led(p, h, "free") BY <1>b, <1>c, <2>1, <2>2
  <2>4. ~ Clears(c, "free") /\ OpenAfter(c, "free") = c.open /\ "free" \notin FenceCalls
    BY DEF Clears, OpenAfter, FenceCalls
  <2>5. ~ Clearing(p)' /\ Freeing(p)' BY <2>1 DEF Clearing, Freeing
  <2>6. open'[p] = c.open BY <1>a, <2>1 DEF AtStage
  <2> QED BY <1>a, <1>c, <2>1, <2>3, <2>4, <2>5, <2>6, LedOn DEF c
<1>10. ASSUME ReduceSend(p) PROVE PlacedNext(p, h)
  BY <1>10, PlacedStays DEF ReduceSend, envVars, SamePlace, SameStage, Clearing, Freeing
<1>11. ASSUME ReduceRoot(p) PROVE PlacedNext(p, h)
  BY <1>11, PlacedStays DEF ReduceRoot, envVars, SamePlace, SameStage, Clearing, Freeing
<1>12. ASSUME FinishReduce(p) PROVE PlacedNext(p, h)
  <2>1. /\ program' = program /\ calls' = calls /\ clears'[p] = clears[p] + 1 /\ call' = call
        /\ pc[p] = "reduce" /\ pc'[p] = "join" /\ ~ Freeing(p) /\ Clearing(p) /\ Clearing(p)'
        /\ open' = open /\ count_fence' = count_fence
    BY <1>0, <1>12 DEF FinishReduce, envVars, Clearing, Freeing, ControlOK, TypeOK, TypeHistory
  <2>2. /\ calls[p] <= Len(program) /\ calls[p] > 0 /\ program[calls[p]] = call[p]
        /\ AtStage(p, h[calls[p] - 1]) /\ clears[p] = h[calls[p] - 1].clears + 0
    BY <2>1 DEF Placed
  <2>3. AtStage(p, h[calls[p] - 1])' BY <2>1, <2>2 DEF AtStage
  <2>4. calls[p] - 1 \in 0 .. Len(program) BY <2>2 DEF TypeOK, TypeProgram
  <2>5. h[calls[p] - 1].clears \in Nat BY <2>4 DEF Course, Stage
  <2>6. clears'[p] = h[calls[p] - 1].clears + 1 BY <2>1, <2>2, <2>5
  <2>7. Placed(p, h)' BY <2>1, <2>2, <2>3, <2>6 DEF Placed
  <2> QED BY <2>1, <2>7, SameCourse DEF PlacedNext
<1>21. ASSUME RaiseEnd(p) PROVE PlacedNext(p, h)
  BY <1>21, PlacedStays DEF RaiseEnd, envVars, appVars, SamePlace, SameStage, Clearing, Freeing
<1>13. ASSUME Join(p) PROVE PlacedNext(p, h)
  <2>1. /\ program' = program /\ calls' = calls /\ clears' = clears /\ call' = call /\ count_fence' = count_fence
        /\ pc[p] = "join" /\ pc'[p] = AfterJoin(call[p]) /\ (Freeing(p)' <=> Freeing(p))
        /\ open'[p] = IF call[p] = "unlock_all" THEN "closed" ELSE open[p]
    BY <1>0, <1>13 DEF Join, Freeing, TypeOK, TypeProgram
  <2>2. CASE Freeing(p)
    <3>2. SameStage(p) /\ ~ Clearing(p) /\ ~ Clearing(p)' /\ pc'[p] = "freed"
      BY <2>1, <2>2 DEF AfterJoin, Freeing, Clearing, SameStage
    <3>3. /\ calls[p] <= Len(program) /\ clears[p] = c.clears /\ (Freeing(p) <=> c.freed) /\ AtStage(p, c)
      BY <2>1, <3>2 DEF Placed, c
    <3>4. AtStage(p, h[calls[p]])' BY <2>1, <3>2, <3>3 DEF AtStage, SameStage, c
    <3>5. Placed(p, h)' BY <2>1, <3>2, <3>3, <3>4 DEF Placed, c
    <3> QED BY <2>1, <3>5, SameCourse DEF PlacedNext
  <2>3. CASE ~ Freeing(p)
    <3> DEFINE b == h[calls[p] - 1]
    <3>1. Clearing(p) BY <2>1, <2>3 DEF Clearing
    <3>2. /\ calls[p] <= Len(program) /\ calls[p] > 0 /\ program[calls[p]] = call[p]
          /\ AtStage(p, b) /\ clears[p] = b.clears + 1
      BY <2>1, <3>1 DEF Placed
    <3>3. calls[p] \in 1 .. Len(program) /\ calls[p] - 1 \in 0 .. Len(program)
      BY <3>2 DEF TypeOK, TypeProgram
    <3>4. c = After(b, call[p]) /\ b \in Stage BY <3>2, <3>3 DEF Course, c
    <3>5. call[p] \in {"unlock_all", "fence", "fence_end", "barrier"}
      BY <1>0, <2>1, <2>3 DEF Handler, Freeing, ControlOK
    <3>6. Active(p) /\ Between(p) BY <2>1 DEF ControlOK
    <3> HIDE DEF b
    <3>7. /\ c.open = OpenAfter(b, call[p]) /\ c.fenced = (b.fenced \/ call[p] \in FenceCalls)
          /\ c.clears = b.clears + IF Clears(b, call[p]) THEN 1 ELSE 0
          /\ c.freed = (call[p] = "free")
      BY <3>4 DEF After
    <3>8. Clears(b, call[p])
      BY <2>1, <3>2, <3>5, <3>6 DEF Clears, FenceCalls, AtStage, Between, ControlOK
    <3>9. clears[p] = c.clears /\ ~ c.freed BY <3>2, <3>5, <3>7, <3>8
    <3>10. ~ Clearing(p)' BY <2>1, <3>5 DEF Clearing, AfterJoin
    <3>11. CASE call[p] \in FenceCalls
      <4>1. pc'[p] = "fence_mid" BY <2>1, <3>11 DEF AfterJoin, FenceCalls
      <4>2. c.open = AfterFence(call[p]) /\ c.fenced BY <3>7, <3>11 DEF OpenAfter, FenceCalls
      <4>3. Placed(p, h)' BY <2>1, <2>3, <3>2, <3>9, <3>10, <4>1, <4>2 DEF Placed, c
      <4> QED BY <2>1, <4>3, SameCourse DEF PlacedNext
    <3>12. CASE call[p] \in {"unlock_all", "barrier"}
      <4>1. pc'[p] # "fence_mid" BY <2>1, <3>12 DEF AfterJoin
      <4>2. open'[p] = c.open /\ (count_fence'[p] > 0 <=> c.fenced)
        BY <2>1, <3>2, <3>7, <3>12 DEF OpenAfter, FenceCalls, AtStage
      <4>3. AtStage(p, h[calls[p]])' BY <2>1, <4>2 DEF AtStage, c
      <4>4. Placed(p, h)' BY <2>1, <2>3, <3>2, <3>9, <3>10, <4>1, <4>3 DEF Placed, c
      <4> QED BY <2>1, <4>4, SameCourse DEF PlacedNext
    <3> QED BY <3>5, <3>11, <3>12 DEF FenceCalls
  <2> QED BY <2>2, <2>3
<1>14. ASSUME NEW q \in Procs, NEW x \in Comms, CommReports(p, q, x) PROVE PlacedNext(p, h)
  BY <1>14, PlacedStays DEF CommReports, envVars, appVars, SamePlace, SameStage, Clearing, Freeing
<1>15. ASSUME NEW q \in Procs, NEW x \in Comms, CommSend(p, q, x) PROVE PlacedNext(p, h)
  <2>1. program' = program /\ SamePlace(p)
    BY <1>0, <1>15 DEF CommSend, envVars, SamePlace, SameStage, Clearing, Freeing
  <2> QED BY <2>1, PlacedStays
<1>16. ASSUME SendReturn(p) PROVE PlacedNext(p, h)
  <2>1. program' = program /\ SamePlace(p)
    BY <1>0, <1>16 DEF SendReturn, envVars, SamePlace, SameStage, Clearing, Freeing
  <2> QED BY <2>1, PlacedStays
<1>17. ASSUME NEW i \in Touches, LoadStore(p, i) PROVE PlacedNext(p, h)
  BY <1>17, PlacedStays DEF LoadStore, envVars, appVars, SamePlace, SameStage, Clearing, Freeing
<1>18. ASSUME NEW k \in Epochs, PostRecv(p, k) PROVE PlacedNext(p, h)
  BY <1>18, PlacedStays DEF PostRecv, envVars, appVars, SamePlace, SameStage, Clearing, Freeing
<1>19. ASSUME NEW k \in Epochs, NEW m \in net, Receive(p, k, m) PROVE PlacedNext(p, h)
  BY <1>19, PlacedStays DEF Receive, envVars, appVars, SamePlace, SameStage, Clearing, Freeing
<1>20. ASSUME NEW k \in Epochs, Exit(p, k) PROVE PlacedNext(p, h)
  BY <1>20, PlacedStays DEF Exit, envVars, appVars, SamePlace, SameStage, Clearing, Freeing
<1> QED BY <1>1, <1>2, <1>3, <1>4, <1>5, <1>6, <1>7, <1>8, <1>9, <1>10, <1>11, <1>12, <1>13, <1>14, <1>15, <1>16, <1>17, <1>18, <1>19, <1>20, <1>21
  DEF SyncCall, Progress, MemoryCall, CheckThread, FenceCalls

----------------------------------------------------------------------------
(* The accesses, and the window that is freed. *)

\* A step makes no access but the one that CommSend sends.
LEMMA TargetsGrow ==
  ASSUME TypeOK, NEW p \in Procs, Effect(p), EpochOK(p), NEW a \in Targets', a \notin Targets
  PROVE  /\ pc'[p] = "send" /\ a.src = p /\ a.epoch = clears'[p] + 1
         /\ \E q \in Procs, c \in Comms : Sends(p, q, c) /\ a.dst = q
<1>1. PICK q \in Procs, c \in Comms : Sends(p, q, c)
  BY DEF Effect, Targets, Opens, StartsClear, Moves, StartsFree, Contributes, Sums, Finishes,
     Joins, Stores, Returns, Raises, Posts, Exits, Receives
<1>2. a \in {OriginAccess(p, q, c), LandedAccess(SentMessage(p, q, c))} /\ a.side = "target"
  BY <1>1 DEF Sends, Targets
<1>3. a = LandedAccess(SentMessage(p, q, c)) BY <1>2 DEF OriginAccess
<1>4. a.src = p /\ a.dst = q /\ a.epoch = count_epoch[p]
  BY <1>3, LandedFields DEF SentMessage
<1> QED BY <1>1, <1>4 DEF Sends, EpochOK

\* The course of the program after a step.
LEMMA AgreementStep ==
  ASSUME TypeOK, Disciplined, NEW p \in Procs, \A r \in Procs : ControlOK(r) /\ EpochOK(r),
         ControlOK(p)', Agreement, TypeOK', Effect(p),
         SyncCall(p) \/ Progress(p) \/ MemoryCall(p) \/ \E k \in Epochs : CheckThread(p, k)
  PROVE  Agreement'
<1>1. PICK h : /\ Course(h, program) /\ \A r \in Procs : Placed(r, h)
               /\ \A a \in Targets : SentAtStage(a, h)
  BY DEF Agreement
<1>2. PICK h2 : Course(h2, program') /\ Continues(h, h2) /\ Placed(p, h2)'
  BY <1>1, PlacedStep DEF PlacedNext
<1>3. ASSUME NEW r \in Procs PROVE Placed(r, h2)'
  BY <1>1, <1>2, OthersPlace, PlacedKeeps
<1>4. ASSUME NEW r \in Procs PROVE calls'[r] \in Nat /\ calls[r] \in Nat /\ calls[r] <= Len(program)
  BY <1>1 DEF Placed, TypeOK, TypeProgram
<1>5. ASSUME NEW r \in Procs PROVE calls'[r] >= calls[r]
  <2>1. CASE r # p BY <2>1, <1>4, OthersPlace DEF SamePlace, SameStage
  <2>2. CASE r = p
    BY <2>2, <1>4 DEF SyncCall, Progress, MemoryCall, CheckThread, LockAll, UnlockAll, FirstFence, NextFence,
       Barrier, WinFree, FenceMid, Restart, BarrierReturn, ReduceSend, ReduceRoot, FinishReduce, RaiseEnd, Join,
       SendReturn, CommReports, CommSend, LoadStore, PostRecv, Receive, Exit, envVars, Follow, TypeOK, TypeProgram
  <2> QED BY <2>1, <2>2
<1>6. ASSUME NEW a \in Targets' PROVE SentAtStage(a, h2)'
  <2>1. CASE a \in Targets
    <3>1. PICK j \in 0 .. calls[a.src] : h[j].open # "closed" /\ a.epoch = h[j].clears + 1
      BY <2>1, <1>1 DEF SentAtStage
    <3>2. a.src \in Procs BY <2>1, TargetFields
    <3>3. j \in 0 .. calls'[a.src] /\ j \in 0 .. Len(program)
      BY <3>1, <3>2, <1>4, <1>5 DEF TypeOK, TypeProgram
    <3>4. h2[j] = h[j] BY <3>3, <1>2 DEF Continues
    <3> QED BY <3>1, <3>3, <3>4 DEF SentAtStage
  <2>2. CASE a \notin Targets
    <3>1. pc'[p] = "send" /\ a.src = p /\ a.epoch = clears'[p] + 1 BY <2>2, TargetsGrow
    <3>2. open'[p] # "closed" BY <3>1 DEF ControlOK
    <3>3. open'[p] = h2[calls'[p]].open /\ clears'[p] = h2[calls'[p]].clears
      BY <1>2, <3>1 DEF Placed, Clearing, AtStage
    <3>4. calls'[p] \in 0 .. calls'[p] BY <1>4
    <3> QED BY <3>1, <3>2, <3>3, <3>4 DEF SentAtStage
  <2> QED BY <2>1, <2>2
<1> QED BY <1>2, <1>3, <1>6 DEF Agreement

EarlierThanFree == \A p \in Procs, a \in Targets : Freeing(p) => a.epoch <= clears[p]
AllControlled   == \A p \in Procs : ControlOK(p)

\* The accesses to any process were made in epochs that a process which is
\* freeing its window has cleared.
LEMMA FreedAfterAll == TypeOK /\ Agreement /\ AllControlled => EarlierThanFree
<1> SUFFICES ASSUME TypeOK, Agreement, NEW p \in Procs, ControlOK(p), Freeing(p), NEW a \in Targets
             PROVE  a.epoch <= clears[p]
  BY DEF EarlierThanFree, AllControlled
<1>1. PICK h : /\ Course(h, program) /\ \A r \in Procs : Placed(r, h)
               /\ \A t \in Targets : SentAtStage(t, h)
  BY DEF Agreement
<1>2. PICK j \in 0 .. calls[a.src] : h[j].open # "closed" /\ a.epoch = h[j].clears + 1
  BY <1>1 DEF SentAtStage
<1> DEFINE n == calls[p]
<1>3. a.src \in Procs BY TargetFields
<1>4. j \in 0 .. Len(program) /\ n \in 0 .. Len(program)
  BY <1>1, <1>2, <1>3 DEF Placed, TypeOK, TypeProgram
<1>5. h[j] \in Stage /\ h[n] \in Stage /\ Sound(h[j]) /\ Sound(h[n]) BY <1>1, <1>4 DEF Course
<1>6. ~ Clearing(p) BY DEF Clearing, ControlOK
<1>7. h[n].freed /\ clears[p] = h[n].clears BY <1>1, <1>6 DEF Placed
<1>8. ~ (n <= j)
  <2>1. n <= j => Later(h[n], h[j]) BY <1>1, <1>4 DEF Course
  <2> QED BY <2>1, <1>2, <1>5, <1>7 DEF Later, Sound
<1>9. Later(h[j], h[n]) BY <1>1, <1>4, <1>8 DEF Course
<1>10. h[n].open = "closed" BY <1>5, <1>7 DEF Sound
<1>11. h[j].clears < h[n].clears BY <1>2, <1>9, <1>10 DEF Later
<1> QED BY <1>2, <1>5, <1>7, <1>11 DEF Stage

\* Nothing reaches a window that is being freed.
LEMMA FreedStep ==
  ASSUME TypeOK, TypeOK', NEW p \in Procs, Effect(p), Agreement', TargetsOK, NetOK, ReduceOK',
         \A r \in Procs : ControlOK(r) /\ EpochOK(r) /\ ControlOK(r)' /\ CountOK(r) /\ FreedOK(r),
         NEW r \in Procs
  PROVE  FreedOK(r)'
<1> SUFFICES ASSUME Freeing(r)' PROVE FreedOK(r)' BY DEF FreedOK
<1>0. EarlierThanFree'
  <2>1. TypeOK' /\ Agreement' /\ AllControlled' BY DEF AllControlled
  <2> QED BY <2>1, FreedAfterAll, PTL
<1>1. \A a \in Targets' : a.epoch <= clears'[r] BY <1>0 DEF EarlierThanFree
<1>2. CASE ~ Freeing(r)
  <2>1. r = p /\ StartsFree(p)
    <3>1. r = p BY <1>2, OtherSame DEF Same, SameWhere, Freeing
    <3> QED BY <1>2, <3>1 DEF Effect, Freeing, SameWhere, Opens, StartsClear, Moves, StartsFree, Contributes,
         Sums, Finishes, Joins, Stores, Returns, Raises, Sends, Posts, Exits, Receives
  <2>2. /\ net' = net /\ Targets' = Targets /\ clears'[r] = clears[r] /\ analysed'[r] = analysed[r]
        /\ count_epoch'[r] = count_epoch[r]
    BY <2>1 DEF StartsFree, Targets, SameCount, SameEpoch
  <2>3. pc[r] = "run" /\ (active_epoch[r] = 1 => count_epoch[r] = clears[r] + 1)
                      /\ (active_epoch[r] # 1 => count_epoch[r] = clears[r])
    BY <1>2, <2>1 DEF StartsFree, EpochOK, Active
  <2>4. clears[r] \in Nat /\ count_epoch[r] \in Nat /\ active_epoch[r] \in 0 .. 1
    BY DEF TypeOK, TypeState, TypeHistory
  <2>5. Closed(r) = clears[r] BY <2>3, <2>4 DEF Closed
  <2>6. ASSUME NEW a \in Targets, a.dst = r PROVE FALSE
    <3>1. a.epoch > clears[r] BY <1>2, <2>5, <2>6 DEF TargetsOK
    <3>2. a.epoch <= clears[r] BY <1>1, <2>2
    <3>3. a.epoch \in Nat BY TargetFields
    <3> QED BY <3>1, <3>2, <3>3, <2>4
  <2>7. analysed[r] = {}
    <3>1. Expected(r) = {} BY <2>6 DEF Expected, EpochTargets, Targets
    <3> QED BY <1>2, <3>1 DEF TargetsOK
  <2>8. ASSUME NEW m \in net, m.dst = r PROVE FALSE
    <3>1. LandedAccess(m) \in accesses BY <1>2, <2>8 DEF NetOK
    <3> QED BY <3>1, <2>6, <2>8, LandedFields DEF Targets
  <2> QED BY <2>2, <2>3, <2>4, <2>6, <2>7, <2>8 DEF FreedOK
<1>3. CASE Freeing(r)
  <2>1. FreedOK(r) /\ (\A m \in net : m.dst # r) /\ (\A a \in Targets : a.dst # r) /\ analysed[r] = {}
    BY <1>3 DEF FreedOK
  <2>2. ASSUME NEW q \in Procs, NEW c \in Comms, Sends(p, q, c) PROVE q # r
    <3> DEFINE a == LandedAccess(SentMessage(p, q, c))
    <3>1. a \in Targets' /\ a.epoch = count_epoch[p]
      BY <2>2, LandedFields DEF Targets, Sends, SentMessage
    <3>2. count_epoch[p] = clears'[p] + 1 BY <2>2 DEF Sends, EpochOK
    <3>3. clears'[p] >= clears'[r] BY <2>2 DEF ReduceOK, Gave, Sends
    <3>4. clears'[p] \in Nat /\ clears'[r] \in Nat BY DEF TypeOK, TypeHistory
    <3>5. clears'[p] + 1 <= clears'[r] BY <1>1, <3>1, <3>2
    <3> QED BY <3>3, <3>4, <3>5
  <2>3. \A a \in Targets' : a.dst # r BY <2>1, <2>2, TargetsGrow
  <2>4. \A m \in net' : m.dst # r
    <3>1. ASSUME NEW m \in net', m \notin net
          PROVE  \E q \in Procs, c \in Comms : Sends(p, q, c) /\ m.dst = q
      <4>1. PICK q \in Procs, c \in Comms : Sends(p, q, c)
        BY <3>1 DEF Effect, Opens, StartsClear, Moves, StartsFree, Contributes, Sums, Finishes,
           Joins, Stores, Returns, Raises, Posts, Exits, Receives
      <4>2. m = SentMessage(p, q, c) BY <3>1, <4>1 DEF Sends
      <4> QED BY <4>1, <4>2 DEF SentMessage
    <3> QED BY <2>1, <2>2, <3>1
  <2>5. /\ count_epoch'[r] = count_epoch[r] /\ clears'[r] = clears[r]
        /\ analysed'[r] = {}
    <3>1. CASE r # p BY <3>1, <2>1, OtherSame DEF Same, SameEpoch, SameCount
    <3>2. CASE r = p
      <4>1. pc[p] # "reduce" /\ (pc[p] = "run" => FALSE) BY <1>3, <3>2 DEF ControlOK
      <4> QED BY <1>3, <2>1, <3>2, <4>1 DEF Effect, Freeing, SameEpoch, SameCount, Opens, StartsClear, Moves,
           StartsFree, Contributes, Sums, Finishes, Joins, Stores, Returns, Raises, Sends, Posts, Exits, Receives
    <3> QED BY <3>1, <3>2
  <2> QED BY <2>1, <2>3, <2>4, <2>5, <1>3 DEF FreedOK
<1> QED BY <1>2, <1>3

\* The access a one-sided call makes is a new one, in an epoch of a target that
\* is not being freed, and one the target has not analysed.
LEMMA SendsFresh ==
  ASSUME TypeOK, NEW p \in Procs, NEW q \in Procs, NEW c \in Comms, Effect(p), Sends(p, q, c),
         TargetsOK, ReduceOK, FreedOK(q)', \A r \in Procs : ControlOK(r) /\ EpochOK(r) /\ CountOK(r)
  PROVE  /\ ~ Freeing(q) /\ Closed(q) < count_epoch[p]
         /\ array[p][q] + 1 \notin Numbers(p, q, count_epoch[p])
         /\ count_epoch[p] = Closed(q) + 1 => <<p, array[p][q] + 1>> \notin analysed[q]
<1> DEFINE m0 == SentMessage(p, q, c)
<1>0. /\ count_epoch[p] \in Nat /\ array[p][q] \in Nat
      /\ count_epoch[q] \in Nat /\ active_epoch[q] \in 0 .. 1
  BY DEF TypeOK, TypeState
<1>1. m0.dst = q /\ m0 \in net' BY DEF SentMessage, Sends
<1>2. ~ Freeing(q)
  <2>1. ~ Freeing(q)' BY <1>1 DEF FreedOK
  <2> QED BY <2>1, FreeingStays
<1>3. Active(p) /\ pc[p] = "run" BY DEF Sends
<1>4. Closed(q) < count_epoch[p] BY <1>2, <1>3, SendAhead
<1>5. array[p][q] + 1 \notin Numbers(p, q, count_epoch[p]) BY <1>2, <1>3, NextNumberFree
<1>6. ASSUME count_epoch[p] = Closed(q) + 1, <<p, array[p][q] + 1>> \in analysed[q] PROVE FALSE
  <2>1. Active(q) BY <1>6 DEF CountOK
  <2>2. count_epoch[q] = count_epoch[p] BY <1>0, <1>6, <2>1 DEF Closed, Active
  <2>3. <<p, array[p][q] + 1>> \in Expected(q) BY <1>2, <1>6 DEF TargetsOK
  <2>4. PICK a \in EpochTargets(q) : <<p, array[p][q] + 1>> = <<a.src, a.seq>> BY <2>3 DEF Expected
  <2>5. a \in Targets /\ a.src = p /\ a.dst = q /\ a.epoch = count_epoch[p] /\ a.seq = array[p][q] + 1
    BY <2>2, <2>4 DEF EpochTargets, Targets
  <2> QED BY <1>5, <2>5 DEF Numbers
<1> QED BY <1>2, <1>4, <1>5, <1>6

\* FreeInv holds at first.
LEMMA FreeInit == Init => FreeInv
<1> SUFFICES ASSUME Init PROVE FreeInv OBVIOUS
<1> DEFINE h == [n \in 0 .. 0 |-> FirstStage]
<1>1. FirstStage \in Stage /\ Sound(FirstStage) /\ Later(FirstStage, FirstStage)
  BY DEF FirstStage, Stage, Sound, Later
<1>2. Len(program) = 0 /\ h[0] = FirstStage /\ h \in [0 .. 0 -> Stage] BY <1>1 DEF Init
<1> HIDE DEF h
<1>3. Course(h, program) BY <1>1, <1>2 DEF Course
<1>4. ASSUME NEW p \in Procs PROVE Placed(p, h) /\ FreedOK(p)
  BY <1>2 DEF Init, Placed, Clearing, Freeing, FirstStage, AtStage, FreedOK
<1>5. Targets = {} BY DEF Init, Targets
<1> QED BY <1>3, <1>4, <1>5 DEF FreeInv, Agreement

\* FreeInv is kept.
LEMMA FreeStep == Disciplined /\ IInv /\ IInv' /\ FreeInv /\ [Next]_vars => FreeInv'
<1> SUFFICES ASSUME Disciplined, IInv, IInv', FreeInv, [Next]_vars PROVE FreeInv' OBVIOUS
<1>1. ASSUME NEW p \in Procs,
             SyncCall(p) \/ Progress(p) \/ MemoryCall(p) \/ \E k \in Epochs : CheckThread(p, k)
      PROVE  FreeInv'
  <2>1. Effect(p) BY <1>1, StepEffect DEF IInv
  <2>2. Agreement' BY <1>1, <2>1, AgreementStep DEF IInv, FreeInv
  <2>3. \A r \in Procs : FreedOK(r)' BY <2>1, <2>2, FreedStep DEF IInv, FreeInv
  <2> QED BY <2>2, <2>3 DEF FreeInv
<1>2. CASE vars' = vars
  <2>1. Agreement' <=> Agreement
    BY <1>2 DEF vars, Agreement, Course, Placed, Clearing, AtStage, Freeing, SentAtStage, Targets
  <2>2. \A p \in Procs : FreedOK(p)' <=> FreedOK(p) BY <1>2 DEF vars, FreedOK, Freeing, Targets
  <2> QED BY <2>1, <2>2 DEF FreeInv
<1> QED BY <1>1, <1>2 DEF Next, Terminating

\* All processes of a disciplined program follow one course, and a window that
\* is being freed has no access left.
THEOREM FreeInvCorrect == Disciplined => (Spec => [](IInv /\ FreeInv))
<1> SUFFICES ASSUME Disciplined PROVE Spec => [](IInv /\ FreeInv) OBVIOUS
<1>1. Spec => []IInv BY InvCorrect
<1>2. Init => FreeInv BY FreeInit
<1>3. IInv /\ IInv' /\ FreeInv /\ [Next]_vars => FreeInv' BY FreeStep
<1> QED BY <1>1, <1>2, <1>3, PTL DEF Spec

\* No interval is on its way to a window that is being freed or is freed, for
\* any number of processes, calls and one-sided calls: MPI_Win_free may tell
\* its thread to expect nothing, without a reduction.
THEOREM FreesAreClean == Disciplined => (Spec => []FreeIsClean)
<1>1. TypeOK /\ FreeInv => FreeIsClean
  BY DEF FreeInv, FreedOK, FreeIsClean, Freeing, TypeOK, TypeMPI, Message
<1>2. IInv => TypeOK BY DEF IInv
<1> QED BY <1>1, <1>2, FreeInvCorrect, PTL

----------------------------------------------------------------------------
(* What the analyzer reports: a race that is reported is one, and, with    *)
(* the list of interval_list.c, every race of an epoch is reported before  *)
(* the epoch is closed.                                                    *)

\* The tree holds accesses of the program: those of p itself up to the last
\* one it has sent, those of the others once they are analysed.
TreeOK(p) ==
  \A a \in local_tree[p] :
    /\ a \in accesses
    /\ a.side = "origin" => a.seq <= SentCount(p, a.src)
    /\ a.side = "target" => <<a.src, a.seq>> \in analysed[p]

\* An access is known by its epoch, its two processes and its number.
TargetsApart ==
  \A a, b \in Targets : a.dst = b.dst /\ a.src = b.src /\ a.epoch = b.epoch /\ a.seq = b.seq => a = b

Own(p)  == {a \in accesses : a.dst = p /\ a.side # "target"}
Here(p) == {a \in accesses : a.dst = p /\ a.epoch = count_epoch[p] /\ Kept(a.itv)}

Analysed(p, a) == a.side = "target" => <<a.src, a.seq>> \in analysed[p]

\* With the list: what is stored has no race, and every access of the epoch is
\* stored once it is analysed.
ListOK(p) ==
  /\ \A a \in Own(p) : a.epoch <= count_epoch[p]
  /\ Active(p) => \A a \in Here(p) : Analysed(p, a) => a \in local_tree[p]
  /\ \A a, b \in local_tree[p] : a # b => ~ if_intersects(a.itv, b.itv)

RaceInv ==
  /\ \A p \in Procs : TreeOK(p)
  /\ TargetsApart
  /\ UseList /\ halted = "no" => \A p \in Procs : ListOK(p)
  /\ AbortJustified

----------------------------------------------------------------------------
(* Intervals, and what saving one does. *)

\* The test for a conflict does not depend on the order of the two intervals.
LEMMA IntersectsSymmetric ==
  ASSUME NEW a \in Interval, NEW b \in Interval
  PROVE  if_intersects(a, b) <=> if_intersects(b, a)
<1>1. BitOr(a.access_type, b.access_type) = BitOr(b.access_type, a.access_type)
  BY DEF BitOr, BitMax
<1>2. a.low_bound \in Int /\ b.low_bound \in Int /\ a.up_bound \in Int /\ b.up_bound \in Int
  BY AddrSpaceAssumption DEF Interval, Addr
<1> QED BY <1>1, <1>2 DEF if_intersects, check_access_rights

\* A load or a store is not in conflict with itself.
LEMMA LocalAlone ==
  ASSUME NEW i \in Touches PROVE ~ if_intersects(i, i)
<1>1. i.access_type \in {0, 1} BY AccessAssumption DEF LOCAL_READ, LOCAL_WRITE
<1>2. BitOr(0, 0) = 0 /\ BitOr(1, 1) = 1 BY DEF BitOr, BitMax, RmaBit, WriteBit
<1> QED BY <1>1, <1>2 DEF if_intersects, check_access_rights, RMA_WRITE

Peaceful(T) == \A a, b \in T : a # b => ~ if_intersects(a.itv, b.itv)

\* The list takes an interval only when nothing in it is in conflict with it.
LEMMA Inserted ==
  ASSUME TypeOK, NEW p \in Procs, NEW a \in Access, SaveInserts(p, a)
  PROVE  /\ local_tree[p] \subseteq local_tree'[p] /\ local_tree'[p] \subseteq local_tree[p] \union {a}
         /\ \A r \in Procs \ {p} : local_tree'[r] = local_tree[r]
         /\ Kept(a.itv) => a \in local_tree'[p]
         /\ UseList /\ Peaceful(local_tree[p]) => Peaceful(local_tree'[p])
<1> USE DEF TypeOK, TypeState
<1>1. local_tree'[p] = IF Kept(a.itv) THEN local_tree[p] \union {a} ELSE local_tree[p]
  BY DEF SaveInserts
<1>2. \A r \in Procs \ {p} : local_tree'[r] = local_tree[r] BY DEF SaveInserts
<1>3. ASSUME UseList, Peaceful(local_tree[p]) PROVE Peaceful(local_tree'[p])
  <2>1. CASE ~ Kept(a.itv) BY <1>1, <1>3, <2>1
  <2>2. CASE Kept(a.itv)
    <3>1. \A b \in local_tree[p] : ~ if_intersects(b.itv, a.itv)
      BY <1>3, <2>2 DEF SaveInserts, Overlaps
    <3>2. \A b \in local_tree[p] : b.itv \in Interval /\ a.itv \in Interval BY DEF Access
    <3>3. \A b \in local_tree[p] : ~ if_intersects(a.itv, b.itv) BY <3>1, <3>2, IntersectsSymmetric
    <3> QED BY <1>1, <1>3, <2>2, <3>1, <3>3 DEF Peaceful
  <2> QED BY <2>1, <2>2
<1> QED BY <1>1, <1>2, <1>3

----------------------------------------------------------------------------
(* The steps that touch the tree or the accesses. *)

Quiet == UNCHANGED <<local_tree, accesses, halted, analysed>>

\* All steps but these leave the tree, the accesses and the verdict alone.
LEMMA StoreSteps ==
  ASSUME TypeOK, NEW p \in Procs, halted' # "nostate",
         SyncCall(p) \/ Progress(p) \/ MemoryCall(p) \/ \E k \in Epochs : CheckThread(p, k)
  PROVE  \/ Quiet \/ Join(p)
         \/ \E q \in Procs, c \in Comms : CommReports(p, q, c) \/ CommSend(p, q, c)
         \/ \E i \in Touches : LoadStore(p, i)
         \/ \E k \in Epochs, m \in net : Receive(p, k, m)
BY DEF SyncCall, Progress, MemoryCall, CheckThread, LockAll, UnlockAll, FirstFence, NextFence,
   Barrier, WinFree, FenceMid, Restart, BarrierReturn, ReduceSend, ReduceRoot, FinishReduce, RaiseEnd,
   SendReturn, PostRecv, Exit, Quiet

\* The number of intervals a process has sent only grows while its epoch lasts.
LEMMA SentGrows ==
  ASSUME TypeOK, NEW p \in Procs, Effect(p), ~ Opens(p), NEW s \in Procs, NEW d \in Procs
  PROVE  SentCount(s, d)' >= SentCount(s, d)
<1>0. array[s][d] \in Nat BY DEF TypeOK, TypeState
<1>1. CASE StartsClear(p) \/ Moves(p) \/ StartsFree(p) \/ Contributes(p) \/ Sums(p)
             \/ Finishes(p) \/ Stores(p) \/ Returns(p) \/ Raises(p) \/ \E k \in Epochs : Posts(p, k)
  BY <1>0, <1>1, SentQuiet DEF SentCount
<1>2. CASE Joins(p)
  <2>1. CASE s # p BY <1>0, <2>1, OtherSame DEF Same, SameWhere, SameSends, SentCount
  <2>2. CASE s = p BY <1>0, <1>2, <2>2 DEF Joins, SameSends, SentCount
  <2> QED BY <2>1, <2>2
<1>3. ASSUME NEW q \in Procs, NEW c \in Comms, Sends(p, q, c) PROVE SentCount(s, d)' >= SentCount(s, d)
  <2>1. CASE s # p BY <1>0, <2>1, OtherSame DEF Same, SameWhere, SameSends, SentCount
  <2>2. CASE s = p BY <1>0, <1>3, <2>2 DEF Sends, SentCount
  <2> QED BY <2>1, <2>2
<1>4. ASSUME NEW k \in Epochs, Exits(p, k) \/ \E m \in net : Receives(p, k, m)
      PROVE  SentCount(s, d)' >= SentCount(s, d)
  BY <1>0, <1>4, ThreadQuiet DEF SentCount
<1> QED BY <1>1, <1>2, <1>3, <1>4 DEF Effect

\* A process begins an epoch with an empty tree and nothing analysed.
LEMMA OpensEmpty ==
  ASSUME NEW p \in Procs, Opens(p), OneEpochPerTree, CountOK(p)
  PROVE  local_tree[p] = {} /\ analysed[p] = {}
BY DEF Opens, OneEpochPerTree, CountOK, Active

\* Only the beginning of an epoch numbers a new one.
LEMMA SameEpochs ==
  ASSUME TypeOK, NEW p \in Procs, Effect(p), ~ Opens(p), NEW r \in Procs
  PROVE  count_epoch'[r] = count_epoch[r] /\ (Active(r)' => Active(r))
<1>1. CASE r # p BY <1>1, OtherSame DEF Same, SameEpoch, Active
<1>2. CASE r = p
  BY <1>2 DEF Effect, SameEpoch, Active, StartsClear, Moves, StartsFree, Contributes, Sums, Finishes,
     Joins, Stores, Returns, Raises, Posts, Exits, Receives, Sends
<1> QED BY <1>1, <1>2

----------------------------------------------------------------------------
(* The invariant, part by part. *)

\* The interval a thread receives is an access to its own process.
LEMMA ReceivedAccess ==
  ASSUME IInv, FreeInv, NEW p \in Procs, NEW k \in Epochs, NEW m \in net, Receives(p, k, m)
  PROVE  /\ ~ Freeing(p) /\ Active(p) /\ pc[p] # "freed"
         /\ LandedAccess(m) \in accesses /\ LandedAccess(m) \in Access
         /\ LandedAccess(m).dst = p /\ LandedAccess(m).src = m.src /\ LandedAccess(m).seq = m.seq
         /\ LandedAccess(m).epoch = count_epoch[p] /\ LandedAccess(m).side = "target"
         /\ <<m.src, m.seq>> \notin analysed[p]
<1>1. m.dst = p /\ m.epoch = count_epoch[p] /\ Active(p) BY DEF Receives, IInv, NetOK
<1>2. ~ Freeing(p) BY <1>1 DEF FreeInv, FreedOK
<1>3. pc[p] # "freed" BY <1>2 DEF IInv, ControlOK
<1>4. LandedAccess(m) \in accesses /\ <<m.src, m.seq>> \notin analysed[p]
  BY <1>1, <1>2 DEF IInv, NetOK
<1>5. LandedAccess(m) \in Access BY <1>4 DEF IInv, TypeOK, TypeHistory
<1> QED BY <1>1, <1>2, <1>3, <1>4, <1>5, LandedFields

\* TreeOK is kept.
LEMMA StoredStep ==
  ASSUME IInv, IInv', FreeInv, Disciplined, NEW p \in Procs, Effect(p), \A r \in Procs : TreeOK(r),
         SyncCall(p) \/ Progress(p) \/ MemoryCall(p) \/ \E k \in Epochs : CheckThread(p, k),
         NEW r \in Procs
  PROVE  TreeOK(r)'
<1> USE DEF IInv
<1>0. \A a \in Access : a.src \in Procs BY DEF Access
<1>a. local_tree[r] \subseteq Access /\ local_tree'[r] \subseteq Access BY DEF TypeOK, TypeState
<1>b. ~ Opens(p) => \A q \in Procs : SentCount(r, q)' >= SentCount(r, q) BY SentGrows
<1>c. \A q \in Procs : SentCount(r, q) \in Int /\ SentCount(r, q)' \in Int
  BY DEF SentCount, TypeOK, TypeState
<1>d. ASSUME ~ Opens(p), NEW a \in local_tree[r], a \in accesses', analysed[r] \subseteq analysed'[r]
      PROVE  /\ a \in accesses'
             /\ a.side = "origin" => a.seq <= SentCount(r, a.src)'
             /\ a.side = "target" => <<a.src, a.seq>> \in analysed'[r]
  <2>1. a.src \in Procs /\ a.seq \in Int BY <1>a DEF Access
  <2>2. a.side = "origin" => a.seq <= SentCount(r, a.src) BY DEF TreeOK
  <2>3. SentCount(r, a.src)' >= SentCount(r, a.src) BY <1>b, <1>d, <2>1
  <2> QED BY <1>c, <1>d, <2>1, <2>2, <2>3 DEF TreeOK
<1>1. CASE Quiet
  <2>1. CASE Opens(p) /\ r = p BY <1>1, <2>1, OpensEmpty DEF TreeOK, Quiet
  <2>2. CASE Opens(p) /\ r # p
    <3>1. /\ local_tree' = local_tree /\ accesses' = accesses /\ analysed' = analysed
          /\ pc'[r] = pc[r] /\ dest'[r] = dest[r] /\ array'[r] = array[r]
      BY <1>1, <2>2, OtherSame DEF Quiet, Same, SameWhere, SameSends
    <3>2. \A q \in Procs : SentCount(r, q)' = SentCount(r, q) BY <3>1 DEF SentCount
    <3>3. \A a \in local_tree[r] : SentCount(r, a.src)' = SentCount(r, a.src) BY <1>0, <1>a, <3>2
    <3> QED BY <3>1, <3>3 DEF TreeOK
  <2>3. CASE ~ Opens(p) BY <1>1, <1>d, <2>3 DEF TreeOK, Quiet
  <2> QED BY <2>1, <2>2, <2>3
<1>2. CASE Join(p)
  <2>1. CASE r = p BY <1>2, <2>1 DEF Join, TreeOK, TypeOK, TypeState
  <2>2. CASE r # p
    <3>1. local_tree'[r] = local_tree[r] /\ analysed'[r] = analysed[r]
      BY <2>2, OtherSame DEF Same, SameTree, SameCount
    <3>2. \A a \in local_tree[r] : a \in accesses'
      BY <1>2, <2>2 DEF Join, TreeOK, OneEpochPerTree
    <3>3. ~ Opens(p) BY <1>2 DEF Join, Opens
    <3> QED BY <1>d, <3>1, <3>2, <3>3 DEF TreeOK
  <2> QED BY <2>1, <2>2
<1>3. ASSUME NEW q \in Procs, NEW c \in Comms, CommReports(p, q, c) PROVE TreeOK(r)'
  <2>1. local_tree' = local_tree /\ analysed' = analysed /\ accesses \subseteq accesses' /\ ~ Opens(p)
    BY <1>3, ReportsEffect DEF CommReports, SaveReports, Stores, Opens
  <2> QED BY <1>d, <2>1 DEF TreeOK
<1>4. ASSUME NEW q \in Procs, NEW c \in Comms, CommSend(p, q, c) PROVE TreeOK(r)'
  <2> DEFINE o == OriginAccess(p, q, c)
  <2>1. /\ analysed' = analysed /\ accesses \subseteq accesses' /\ o \in accesses' /\ SaveInserts(p, o)
        /\ Sends(p, q, c)
    BY <1>4, SendsEffect DEF CommSend
  <2>2. o \in Access BY AccessTypes
  <2>3. o.side = "origin" /\ o.src = q /\ o.seq = array[p][q] + 1 BY DEF OriginAccess
  <2> HIDE DEF o
  <2>4. ~ Opens(p) BY <2>1 DEF Opens, Sends, Active
  <2>5. SentCount(p, q)' = array[p][q] + 1 BY <2>1 DEF Sends, SentCount, TypeOK, TypeState
  <2>6. local_tree'[r] \subseteq local_tree[r] \union {a \in {o} : r = p} BY <2>1, <2>2, Inserted
  <2>7. ASSUME NEW a \in local_tree'[r], a = o, r = p
        PROVE  a \in accesses' /\ a.side = "origin" /\ a.seq <= SentCount(r, a.src)'
    <3>1. a.src = q /\ a.seq = array[p][q] + 1 BY <2>3, <2>7
    <3>2. SentCount(r, a.src)' = array[p][q] + 1 BY <2>5, <2>7, <3>1
    <3> QED BY <2>1, <2>3, <2>7, <3>1, <3>2 DEF TypeOK, TypeState
  <2>8. ASSUME NEW a \in local_tree'[r]
        PROVE  /\ a \in accesses'
               /\ a.side = "origin" => a.seq <= SentCount(r, a.src)'
               /\ a.side = "target" => <<a.src, a.seq>> \in analysed'[r]
    <3>1. CASE a \in local_tree[r]
      <4>1. a \in accesses' /\ analysed[r] \subseteq analysed'[r] BY <2>1, <3>1 DEF TreeOK
      <4> QED BY <1>d, <2>4, <3>1, <4>1
    <3>2. CASE a = o /\ r = p BY <2>7, <3>2
    <3> QED BY <2>6, <3>1, <3>2
  <2> QED BY <2>8 DEF TreeOK
<1>5. ASSUME NEW i \in Touches, LoadStore(p, i) PROVE TreeOK(r)'
  <2> DEFINE o == MemoryAccess(p, i)
  <2>1. analysed' = analysed /\ accesses \subseteq accesses' /\ ~ Opens(p)
    BY <1>5 DEF LoadStore, Opens, Active
  <2>2. o \in Access /\ o.side = "memory" BY MemoryAccessType DEF MemoryAccess
  <2>3. o \in accesses'
    <3>1. open[p] # "closed" \/ count_fence[p] > 0 BY <1>5 DEF LoadStore, ControlOK, Active, Between
    <3> QED BY <1>5, <3>1 DEF LoadStore
  <2> HIDE DEF o
  <2>4. local_tree'[r] \subseteq local_tree[r] \union {o}
    <3>1. CASE SaveInserts(p, o) BY <2>2, <3>1, Inserted
    <3>2. CASE SaveReports(p, o) BY <3>2 DEF SaveReports
    <3> QED BY <1>5, <3>1, <3>2 DEF LoadStore, o
  <2> QED BY <1>d, <2>1, <2>2, <2>3, <2>4 DEF TreeOK
<1>6. ASSUME NEW k \in Epochs, NEW m \in net, Receive(p, k, m) PROVE TreeOK(r)'
  <2> DEFINE o == LandedAccess(m)
  <2>1. Receives(p, k, m) BY <1>6, ReceivesEffect
  <2>2. /\ accesses' = accesses /\ ~ Opens(p)
        /\ analysed'[p] = analysed[p] \union {<<m.src, m.seq>>}
    BY <2>1 DEF Receives, Opens, Active
  <2>3. /\ o \in accesses /\ o.side = "target" /\ o.src = m.src /\ o.seq = m.seq
    <3>1. LandedAccess(m) \in accesses BY <2>1, ReceivedAccess
    <3> QED BY <3>1, LandedFields
  <2>4. analysed[r] \subseteq analysed'[r] BY <2>2, OtherSame DEF Same, SameCount
  <2>5. local_tree'[r] \subseteq local_tree[r] \union {a \in {o} : r = p}
    BY <2>1, OtherSame DEF Receives, Same, SameTree
  <2> HIDE DEF o
  <2>6. \A a \in local_tree[r] : a \in accesses' BY <2>2 DEF TreeOK
  <2> QED BY <1>d, <2>2, <2>3, <2>4, <2>5, <2>6 DEF TreeOK
<1>7. \/ Quiet \/ Join(p)
      \/ \E q \in Procs, c \in Comms : CommReports(p, q, c) \/ CommSend(p, q, c)
      \/ \E i \in Touches : LoadStore(p, i)
      \/ \E k \in Epochs, m \in net : Receive(p, k, m)
  <2>1. TypeOK /\ halted' # "nostate" OBVIOUS
  <2> QED BY <2>1, StoreSteps
<1> QED BY <1>1, <1>2, <1>3, <1>4, <1>5, <1>6, <1>7

\* TargetsApart is kept: an access has a number of its own.
LEMMA ApartStep ==
  ASSUME IInv, FreeInv', NEW p \in Procs, Effect(p), TargetsApart
  PROVE  TargetsApart'
<1> USE DEF IInv, FreeInv
<1>1. CASE Targets' \subseteq Targets BY <1>1 DEF TargetsApart
<1>2. ASSUME NEW t \in Targets', t \notin Targets PROVE TargetsApart'
  <2>1. PICK q \in Procs, c \in Comms : Sends(p, q, c) BY <1>2, TargetsGrow
  <2> DEFINE t0 == LandedAccess(SentMessage(p, q, c))
  <2>2. Targets' = Targets \union {t0}
    BY <2>1, LandedFields DEF Sends, Targets, OriginAccess
  <2>3. t0.src = p /\ t0.dst = q /\ t0.epoch = count_epoch[p] /\ t0.seq = array[p][q] + 1
    BY LandedFields DEF SentMessage
  <2>4. array[p][q] + 1 \notin Numbers(p, q, count_epoch[p]) BY <2>1, SendsFresh
  <2> HIDE DEF t0
  <2>5. \A a \in Targets : ~ (a.src = p /\ a.dst = q /\ a.epoch = count_epoch[p] /\ a.seq = array[p][q] + 1)
    BY <2>4 DEF Numbers
  <2> QED BY <2>2, <2>3, <2>5 DEF TargetsApart
<1> QED BY <1>1, <1>2

\* A race that is reported is one.
LEMMA AbortStep ==
  ASSUME IInv, IInv', FreeInv, Disciplined, NEW p \in Procs, Effect(p), \A r \in Procs : TreeOK(r),
         SyncCall(p) \/ Progress(p) \/ MemoryCall(p) \/ \E k \in Epochs : CheckThread(p, k)
  PROVE  AbortJustified'
<1> USE DEF IInv
<1>0. halted = "no" BY GoesOn
<1>a. ASSUME NEW o \in accesses', SaveReports(p, o), o.dst = p, o.epoch = count_epoch[p],
             accesses \subseteq accesses', \A b \in local_tree[p] : if_intersects(b.itv, o.itv) => b # o
      PROVE  AbortJustified'
  <2>1. PICK b \in local_tree[p] : if_intersects(b.itv, o.itv) BY <1>a DEF SaveReports, Overlaps
  <2>2. b \in accesses' /\ b.dst = p /\ b.epoch = count_epoch[p] /\ b # o
    BY <1>a, <2>1 DEF TreeOK, OneEpochPerTree
  <2> QED BY <1>a, <2>1, <2>2 DEF AbortJustified
<1>1. CASE halted' = halted BY <1>0, <1>1 DEF AbortJustified
<1>2. ASSUME NEW q \in Procs, NEW c \in Comms, CommReports(p, q, c) PROVE AbortJustified'
  <2> DEFINE o == OriginAccess(p, q, c)
  <2>1. o \in accesses' /\ SaveReports(p, o) /\ accesses \subseteq accesses' /\ pc[p] = "run"
    BY <1>2 DEF CommReports
  <2>2. o.dst = p /\ o.epoch = count_epoch[p] /\ o.side = "origin" /\ o.src = q /\ o.seq = array[p][q] + 1
    BY DEF OriginAccess
  <2> HIDE DEF o
  <2>3. SentCount(p, q) = array[p][q] /\ array[p][q] \in Nat BY <2>1 DEF SentCount, TypeOK, TypeState
  <2>4. o \notin local_tree[p]
    <3>1. SentCount(p, o.src) = array[p][q] BY <2>2, <2>3
    <3>2. o \in local_tree[p] => o.seq <= SentCount(p, o.src) BY <2>2 DEF TreeOK
    <3> QED BY <2>2, <2>3, <3>1, <3>2
  <2> QED BY <1>a, <2>1, <2>2, <2>4
<1>3. ASSUME NEW i \in Touches, LoadStore(p, i), halted' # "no" PROVE AbortJustified'
  <2> DEFINE o == MemoryAccess(p, i)
  <2>1. SaveReports(p, o) /\ accesses \subseteq accesses' BY <1>0, <1>3 DEF LoadStore, SaveInserts
  <2>2. o \in accesses'
    <3>1. open[p] # "closed" \/ count_fence[p] > 0 BY <1>3 DEF LoadStore, ControlOK, Active, Between
    <3> QED BY <1>3, <3>1 DEF LoadStore
  <2>3. o.dst = p /\ o.epoch = count_epoch[p] /\ o.itv = i BY DEF MemoryAccess
  <2>4. ~ if_intersects(i, i) BY LocalAlone
  <2> HIDE DEF o
  <2> QED BY <1>a, <2>1, <2>2, <2>3, <2>4
<1>4. ASSUME NEW k \in Epochs, NEW m \in net, Receive(p, k, m), halted' # "no" PROVE AbortJustified'
  <2> DEFINE o == LandedAccess(m)
  <2>1. Receives(p, k, m) BY <1>4, ReceivesEffect
  <2>2. /\ pc[p] # "freed" /\ o \in accesses /\ o.dst = p /\ o.epoch = count_epoch[p]
        /\ o.side = "target" /\ o.src = m.src /\ o.seq = m.seq /\ <<m.src, m.seq>> \notin analysed[p]
    BY <2>1, ReceivedAccess
  <2>3. SaveReports(p, o) BY <1>0, <1>4, <2>2 DEF Receive, SaveInserts
  <2>4. accesses' = accesses BY <2>1 DEF Receives
  <2> HIDE DEF o
  <2>5. o \notin local_tree[p] BY <2>2 DEF TreeOK
  <2> QED BY <1>a, <2>2, <2>3, <2>4, <2>5
<1>5. \/ halted' = halted
      \/ \E q \in Procs, c \in Comms : CommReports(p, q, c)
      \/ \E i \in Touches : LoadStore(p, i)
      \/ \E k \in Epochs, m \in net : Receive(p, k, m)
  <2>1. TypeOK /\ halted' # "nostate" OBVIOUS
  <2>2. Quiet \/ Join(p) \/ (\E q \in Procs, c \in Comms : CommSend(p, q, c)) => halted' = halted
    BY DEF Quiet, Join, CommSend, SaveInserts
  <2> QED BY <2>1, <2>2, StoreSteps
<1> QED BY <1>0, <1>1, <1>2, <1>3, <1>4, <1>5

----------------------------------------------------------------------------
(* The list. *)

\* a was there before the step, and is analysed no more than before.
Known(r, a) == a \in accesses /\ (Analysed(r, a)' => Analysed(r, a))

\* What the step does with a, an access to r.
Stored(r, a) ==
  /\ a.side # "target" => a.epoch <= count_epoch[r]
  /\ Active(r) /\ a.epoch = count_epoch[r] /\ Kept(a.itv) /\ Analysed(r, a)' => a \in local_tree'[r]

\* ListOK is kept within an epoch if each access the step makes or analyses is
\* stored and the list stays without conflict.
LEMMA ListKeeps ==
  ASSUME NEW r \in Procs, ListOK(r), count_epoch'[r] = count_epoch[r], Active(r)' => Active(r),
         local_tree[r] \subseteq local_tree'[r], Peaceful(local_tree'[r]),
         \A a \in accesses' : a.dst = r => Known(r, a) \/ Stored(r, a)
  PROVE  ListOK(r)'
<1>1. ASSUME NEW a \in Own(r)' PROVE a.epoch <= count_epoch'[r]
  <2>1. a \in accesses' /\ a.dst = r /\ a.side # "target" BY <1>1 DEF Own
  <2>2. Known(r, a) => a \in Own(r) BY <2>1 DEF Known, Own
  <2> QED BY <2>1, <2>2 DEF ListOK, Stored
<1>2. ASSUME Active(r)', NEW a \in Here(r)', Analysed(r, a)' PROVE a \in local_tree'[r]
  <2>1. a \in accesses' /\ a.dst = r /\ a.epoch = count_epoch[r] /\ Kept(a.itv) BY <1>2 DEF Here
  <2>2. CASE Known(r, a)
    <3>1. a \in Here(r) /\ Analysed(r, a) BY <1>2, <2>1, <2>2 DEF Known, Here
    <3> QED BY <1>2, <3>1 DEF ListOK
  <2>3. CASE Stored(r, a) BY <1>2, <2>1, <2>3 DEF Stored
  <2> QED BY <2>1, <2>2, <2>3
<1> QED BY <1>1, <1>2 DEF ListOK, Peaceful

\* With the list, and as long as no race is reported, ListOK is kept.
LEMMA ListStep ==
  ASSUME IInv, IInv', FreeInv, FreeInv', Disciplined, NEW p \in Procs, Effect(p),
         SyncCall(p) \/ Progress(p) \/ MemoryCall(p) \/ \E k \in Epochs : CheckThread(p, k),
         UseList, halted' = "no", TargetsApart, \A r \in Procs : ListOK(r), NEW r \in Procs
  PROVE  ListOK(r)'
<1>0. /\ TypeOK /\ OneEpochPerTree /\ NetOK /\ TargetsOK /\ ReduceOK /\ TypeOK'
      /\ \A q \in Procs : ControlOK(q) /\ EpochOK(q) /\ CountOK(q) /\ ThreadOK(q)
  BY DEF IInv
<1>a. \A q \in Procs : Peaceful(local_tree[q]) BY DEF ListOK, Peaceful
<1>b. ~ Opens(p) \/ r # p => count_epoch'[r] = count_epoch[r] /\ (Active(r)' => Active(r))
  BY <1>0, SameEpochs, OtherSame DEF Same, SameEpoch, Active
<1>c. ASSUME ~ Opens(p) \/ r # p, accesses' \subseteq accesses, analysed'[r] = analysed[r],
             local_tree'[r] = local_tree[r]
      PROVE  ListOK(r)'
  <2>1. \A a \in accesses' : Known(r, a) BY <1>c DEF Known, Analysed
  <2> QED BY <1>a, <1>b, <1>c, <2>1, ListKeeps
<1>1. CASE Quiet
  <2>1. CASE Opens(p) /\ r = p
    <3>1. local_tree[p] = {} /\ analysed[p] = {} BY <1>0, <2>1, OpensEmpty
    <3>2. count_epoch'[p] = count_epoch[p] + 1 /\ count_epoch[p] \in Nat
      BY <1>0, <2>1 DEF Opens, TypeOK, TypeState
    <3>3. \A a \in Own(p) : a.epoch <= count_epoch[p] BY DEF ListOK
    <3>4. \A a \in Own(p) : a.epoch \in Nat
      BY <1>0 DEF Own, TypeOK, TypeHistory, Access
    <3>5. Own(p)' = Own(p) BY <1>1 DEF Own, Quiet
    <3>6. \A a \in Own(p) : a.epoch < count_epoch'[p] BY <3>2, <3>3, <3>4
    <3>7. ASSUME NEW a \in Here(p)', Analysed(p, a)' PROVE FALSE
      <4>1. a \in accesses /\ a.dst = p /\ a.epoch = count_epoch'[p] BY <1>1, <3>7 DEF Here, Quiet
      <4>2. a.side # "target" BY <1>1, <3>1, <3>7 DEF Analysed, Quiet
      <4>3. a \in Own(p) BY <4>1, <4>2 DEF Own
      <4> QED BY <3>2, <3>6, <4>1, <4>3
    <3>8. local_tree'[p] = {} BY <1>1, <3>1 DEF Quiet
    <3>9. \A a \in Own(p)' : a.epoch <= count_epoch'[p] BY <3>2, <3>4, <3>5, <3>6
    <3> QED BY <2>1, <3>7, <3>8, <3>9 DEF ListOK
  <2>2. CASE ~ Opens(p) \/ r # p BY <1>1, <1>c, <2>2 DEF Quiet
  <2> QED BY <2>1, <2>2
<1>2. CASE Join(p)
  <2>1. accesses' \subseteq accesses BY <1>2 DEF Join
  <2>2. ~ Opens(p) BY <1>2 DEF Join, Opens
  <2>3. CASE r = p
    <3>1. ~ Active(p)' /\ local_tree'[p] = {} BY <1>0, <1>2 DEF Join, Active, TypeOK, TypeState
    <3>2. Own(p)' \subseteq Own(p) BY <2>1 DEF Own
    <3> QED BY <1>b, <2>2, <2>3, <3>1, <3>2 DEF ListOK
  <2>4. CASE r # p
    <3>1. local_tree'[r] = local_tree[r] /\ analysed'[r] = analysed[r]
      BY <2>4, OtherSame DEF Same, SameTree, SameCount
    <3> QED BY <1>c, <2>1, <2>4, <3>1
  <2> QED BY <2>3, <2>4
<1>3. ASSUME NEW q \in Procs, NEW c \in Comms, CommReports(p, q, c) PROVE FALSE
  BY <1>3 DEF CommReports, SaveReports
<1>4. ASSUME NEW q \in Procs, NEW c \in Comms, CommSend(p, q, c) PROVE ListOK(r)'
  <2> DEFINE o == OriginAccess(p, q, c)
             t == LandedAccess(SentMessage(p, q, c))
  <2>1. /\ analysed' = analysed /\ accesses' = accesses \union {o, t} /\ SaveInserts(p, o)
        /\ Sends(p, q, c)
    BY <1>0, <1>4, SendsEffect DEF CommSend
  <2>2. o \in Access /\ o.dst = p /\ o.epoch = count_epoch[p] BY <1>0, AccessTypes DEF OriginAccess
  <2>3. /\ t.dst = q /\ t.src = p /\ t.epoch = count_epoch[p] /\ t.seq = array[p][q] + 1
        /\ t.side = "target"
    BY LandedFields DEF SentMessage
  <2>4. count_epoch[p] = Closed(q) + 1 => <<p, array[p][q] + 1>> \notin analysed[q]
    BY <1>0, <2>1, SendsFresh DEF FreeInv
  <2> HIDE DEF o, t
  <2>5. ~ Opens(p) BY <2>1 DEF Opens, Sends, Active
  <2>6. local_tree[r] \subseteq local_tree'[r] /\ Peaceful(local_tree'[r])
    BY <1>0, <1>a, <2>1, <2>2, Inserted
  <2>7. ASSUME r = p, NEW a, a = o PROVE Stored(r, a)
    <3>1. Kept(o.itv) => o \in local_tree'[p] BY <1>0, <2>1, <2>2, Inserted
    <3>2. count_epoch[p] \in Nat BY <1>0 DEF TypeOK, TypeState
    <3> QED BY <2>2, <2>7, <3>1, <3>2 DEF Stored
  <2>8. ASSUME r = q, NEW a, a = t PROVE Stored(r, a)
    <3>1. ASSUME Active(q), a.epoch = count_epoch[q] PROVE <<a.src, a.seq>> \notin analysed[q]
      <4>1. count_epoch[q] = Closed(q) + 1 BY <1>0, <3>1 DEF Closed, Active, TypeOK, TypeState
      <4> QED BY <2>3, <2>4, <2>8, <3>1, <4>1
    <3> QED BY <2>1, <2>3, <2>8, <3>1 DEF Stored, Analysed
  <2>9. ASSUME NEW a \in accesses', a.dst = r PROVE Known(r, a) \/ Stored(r, a)
    <3>1. CASE a \in accesses BY <2>1, <3>1 DEF Known, Analysed
    <3>2. CASE a = o BY <2>2, <2>7, <2>9, <3>2
    <3>3. CASE a = t BY <2>3, <2>8, <2>9, <3>3
    <3> QED BY <2>1, <3>1, <3>2, <3>3
  <2> QED BY <1>b, <2>5, <2>6, <2>9, ListKeeps
<1>5. ASSUME NEW i \in Touches, LoadStore(p, i) PROVE ListOK(r)'
  <2> DEFINE o == MemoryAccess(p, i)
  <2>1. analysed' = analysed /\ accesses' \subseteq accesses \union {o} /\ SaveInserts(p, o) /\ pc[p] = "run"
    BY <1>5 DEF LoadStore, SaveReports
  <2>2. o \in Access /\ o.dst = p /\ o.epoch = count_epoch[p] BY <1>0, MemoryAccessType DEF MemoryAccess
  <2> HIDE DEF o
  <2>5. ~ Opens(p) BY <1>5 DEF Opens, LoadStore, Active
  <2>6. local_tree[r] \subseteq local_tree'[r] /\ Peaceful(local_tree'[r])
    BY <1>0, <1>a, <2>1, <2>2, Inserted
  <2>7. ASSUME r = p, NEW a, a = o PROVE Stored(r, a)
    <3>1. Kept(o.itv) => o \in local_tree'[p] BY <1>0, <2>1, <2>2, Inserted
    <3>2. count_epoch[p] \in Nat BY <1>0 DEF TypeOK, TypeState
    <3> QED BY <2>2, <2>7, <3>1, <3>2 DEF Stored
  <2>8. ASSUME NEW a \in accesses', a.dst = r PROVE Known(r, a) \/ Stored(r, a)
    <3>1. CASE a \in accesses BY <2>1, <3>1 DEF Known, Analysed
    <3>2. CASE a = o BY <2>2, <2>7, <2>8, <3>2
    <3> QED BY <2>1, <3>1, <3>2
  <2> QED BY <1>b, <2>5, <2>6, <2>8, ListKeeps
<1>6. ASSUME NEW k \in Epochs, NEW m \in net, Receive(p, k, m) PROVE ListOK(r)'
  <2> DEFINE o == LandedAccess(m)
  <2>1. Receives(p, k, m) BY <1>0, <1>6, ReceivesEffect
  <2>2. accesses' = accesses /\ ~ Opens(p) /\ analysed'[p] = analysed[p] \union {<<m.src, m.seq>>}
    BY <2>1 DEF Receives, Opens, Active
  <2>3. /\ pc[p] # "freed" /\ o \in accesses /\ o \in Access /\ o.dst = p /\ o.epoch = count_epoch[p]
        /\ o.side = "target" /\ o.src = m.src /\ o.seq = m.seq
    <3>1. LandedAccess(m) \in accesses /\ LandedAccess(m) \in Access /\ pc[p] # "freed"
      BY <2>1, ReceivedAccess
    <3>2. m.dst = p /\ m.epoch = count_epoch[p] BY <1>0, <2>1 DEF Receives, NetOK
    <3> QED BY <3>1, <3>2, LandedFields
  <2>4. SaveInserts(p, o) BY <1>6, <2>3 DEF Receive, SaveReports
  <2> HIDE DEF o
  <2>5. local_tree[r] \subseteq local_tree'[r] /\ Peaceful(local_tree'[r])
    BY <1>0, <1>a, <2>3, <2>4, Inserted
  <2>6. ASSUME NEW a \in accesses', a.dst = r PROVE Known(r, a) \/ Stored(r, a)
    <3>1. CASE Known(r, a) BY <3>1
    <3>2. CASE ~ Known(r, a)
      <4>1. a \in accesses /\ Analysed(r, a)' /\ ~ Analysed(r, a) BY <2>2, <3>2 DEF Known
      <4>2. r = p
        <5>1. r # p => analysed'[r] = analysed[r] BY OtherSame DEF Same, SameCount
        <5> QED BY <4>1, <5>1 DEF Analysed
      <4>3. a.side = "target" /\ a.src = m.src /\ a.seq = m.seq
        BY <2>2, <4>1, <4>2 DEF Analysed
      <4>4. a.epoch = count_epoch[p] => a = o
        BY <2>3, <2>6, <4>1, <4>2, <4>3 DEF TargetsApart, Targets
      <4>5. Kept(o.itv) => o \in local_tree'[p] BY <1>0, <2>3, <2>4, Inserted
      <4> QED BY <4>2, <4>3, <4>4, <4>5 DEF Stored
    <3> QED BY <3>1, <3>2
  <2> QED BY <1>b, <2>2, <2>5, <2>6, ListKeeps
<1>7. \/ Quiet \/ Join(p)
      \/ \E q \in Procs, c \in Comms : CommReports(p, q, c) \/ CommSend(p, q, c)
      \/ \E i \in Touches : LoadStore(p, i)
      \/ \E k \in Epochs, m \in net : Receive(p, k, m)
  <2>1. halted' # "nostate" OBVIOUS
  <2> QED BY <1>0, <2>1, StoreSteps
<1> QED BY <1>1, <1>2, <1>3, <1>4, <1>5, <1>6, <1>7

----------------------------------------------------------------------------
(* The invariant, and what it gives. *)

\* RaceInv holds at first.
LEMMA RaceInit == Init => RaceInv
<1> SUFFICES ASSUME Init PROVE RaceInv OBVIOUS
<1>1. \A p \in Procs : local_tree[p] = {} BY DEF Init
<1>2. accesses = {} /\ halted = "no" BY DEF Init
<1>3. \A p \in Procs : TreeOK(p) BY <1>1 DEF TreeOK
<1>4. TargetsApart BY <1>2 DEF TargetsApart, Targets
<1>5. \A p \in Procs : ListOK(p) BY <1>1, <1>2 DEF ListOK, Own, Here
<1>6. AbortJustified BY <1>2 DEF AbortJustified
<1> QED BY <1>3, <1>4, <1>5, <1>6 DEF RaceInv

\* RaceInv is kept.
LEMMA RaceStep ==
  Disciplined /\ IInv /\ IInv' /\ FreeInv /\ FreeInv' /\ RaceInv /\ [Next]_vars => RaceInv'
<1> SUFFICES ASSUME Disciplined, IInv, IInv', FreeInv, FreeInv', RaceInv, [Next]_vars
             PROVE  RaceInv'
  OBVIOUS
<1>1. ASSUME NEW p \in Procs,
             SyncCall(p) \/ Progress(p) \/ MemoryCall(p) \/ \E k \in Epochs : CheckThread(p, k)
      PROVE  RaceInv'
  <2>0. Effect(p) BY <1>1, StepEffect DEF IInv
  <2>1. halted = "no" BY <1>1, GoesOn
  <2>2. \A r \in Procs : TreeOK(r)' BY <1>1, <2>0, StoredStep DEF RaceInv
  <2>3. TargetsApart' BY <2>0, ApartStep DEF RaceInv
  <2>4. AbortJustified' BY <1>1, <2>0, AbortStep DEF RaceInv
  <2>5. ASSUME UseList, halted' = "no" PROVE \A r \in Procs : ListOK(r)'
    BY <1>1, <2>0, <2>1, <2>5, ListStep DEF RaceInv
  <2> QED BY <2>2, <2>3, <2>4, <2>5 DEF RaceInv
<1>2. CASE vars' = vars
  <2>1. /\ local_tree' = local_tree /\ accesses' = accesses /\ analysed' = analysed /\ halted' = halted
        /\ count_epoch' = count_epoch /\ active_epoch' = active_epoch /\ array' = array
        /\ pc' = pc /\ dest' = dest
    BY <1>2 DEF vars
  <2>2. \A p \in Procs : TreeOK(p)' <=> TreeOK(p) BY <2>1 DEF TreeOK, SentCount
  <2>3. TargetsApart' <=> TargetsApart BY <2>1 DEF TargetsApart, Targets
  <2>4. AbortJustified' <=> AbortJustified BY <2>1 DEF AbortJustified
  <2>5. \A p \in Procs : ListOK(p)' <=> ListOK(p) BY <2>1 DEF ListOK, Own, Here, Active, Analysed
  <2> QED BY <2>1, <2>2, <2>3, <2>4, <2>5 DEF RaceInv
<1> QED BY <1>1, <1>2 DEF Next, Terminating

\* The tree holds nothing but accesses of the epoch, and the list all of those
\* that were analysed, for any number of processes, calls and accesses.
THEOREM RaceInvCorrect == Disciplined => (Spec => []RaceInv)
<1> SUFFICES ASSUME Disciplined PROVE Spec => []RaceInv OBVIOUS
<1>1. Spec => [](IInv /\ FreeInv) BY FreeInvCorrect
<1>2. Init => RaceInv BY RaceInit
<1>3. IInv /\ IInv' /\ FreeInv /\ FreeInv' /\ RaceInv /\ [Next]_vars => RaceInv' BY RaceStep
<1> QED BY <1>1, <1>2, <1>3, PTL DEF Spec

\* A race the analyzer reports with MPI_Abort is one: two different accesses of
\* the program to the memory of one process, in one epoch, that conflict.  With
\* the tree as with the list, and whichever part of the window is filtered.
THEOREM AbortsJustified == Disciplined => (Spec => []AbortJustified)
<1>1. RaceInv => AbortJustified BY DEF RaceInv
<1> QED BY <1>1, RaceInvCorrect, PTL

\* With the list, the accesses of an epoch that ends have no conflict: if two
\* of them had one, the analyzer would have reported it before pthread_join
\* returns.
LEMMA ListCatches == IInv /\ FreeInv /\ RaceInv => RacesCaught
<1> SUFFICES ASSUME IInv, FreeInv, RaceInv, UseList, halted = "no", NEW p \in Procs, EpochEnding(p)
             PROVE  \A a, b \in Here(p) : a # b => ~ if_intersects(a.itv, b.itv)
  BY DEF RacesCaught, Here
<1>1. ControlOK(p) /\ TypeOK /\ EpochComplete BY DEF IInv
<1>2. Active(p) BY <1>1 DEF EpochEnding, ControlOK
<1>3. ASSUME NEW a \in Here(p) PROVE Analysed(p, a)
  <2>1. CASE ~ Freeing(p)
    <3>1. analysed[p] = Expected(p) BY <1>1, <2>1 DEF EpochComplete, EpochEnding, Freeing
    <3>2. a.side = "target" => <<a.src, a.seq>> \in Expected(p)
      BY DEF Here, Expected, EpochTargets
    <3> QED BY <3>1, <3>2 DEF Analysed
  <2>2. CASE Freeing(p)
    <3>1. \A t \in Targets : t.dst # p BY <2>2 DEF FreeInv, FreedOK
    <3> QED BY <3>1 DEF Here, Targets, Analysed
  <2> QED BY <2>1, <2>2
<1>4. ListOK(p) BY DEF RaceInv
<1>5. Here(p) \subseteq local_tree[p] BY <1>2, <1>3, <1>4 DEF ListOK
<1> QED BY <1>4, <1>5 DEF ListOK

\* Built with interval_list.c, the analyzer misses no race of the accesses it is
\* told about and does not filter: an epoch closes only without one.
THEOREM RacesAreCaught == Disciplined => (Spec => []RacesCaught)
BY ListCatches, FreeInvCorrect, RaceInvCorrect, PTL
=============================================================================
