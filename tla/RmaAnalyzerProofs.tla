------------------------- MODULE RmaAnalyzerProofs -------------------------
(***************************************************************************)
(* Type correctness of RmaAnalyzer, for every program, disciplined or not: *)
(* each action preserves TypeOK, part by part.  Then what the actions do,  *)
(* sorted into kinds of step, the inductive invariant IInv of disciplined  *)
(* programs, kept by each kind, and what follows from it.                  *)
(***************************************************************************)
EXTENDS RmaAnalyzerInv, FiniteSetTheorems, TLAPS

\* create_interval gives an interval, whatever the sums it is given.
LEMMA CreateType ==
  ASSUME NEW l \in Int, NEW u \in Int, NEW t \in Access_type
  PROVE  create_interval(l, u, t) \in Interval
BY AddrSpaceAssumption, SMT DEF create_interval, Interval, Addr, Access_type, LOCAL_READ, LOCAL_WRITE, RMA_READ, RMA_WRITE

\* The access a message is about is one.
LEMMA LandedType ==
  ASSUME NEW m \in Message PROVE LandedAccess(m) \in Access
<1>1. m.itv \in Interval BY DEF Message
<1>2. m.itv.low_bound \in Int /\ m.itv.up_bound \in Int /\ m.itv.access_type \in Access_type
  BY <1>1 DEF Interval, Addr
<1>3. landed_interval(m.itv, win_base) \in Interval
  BY <1>2, CreateType, WindowAssumption DEF landed_interval
<1> QED BY <1>3 DEF LandedAccess, Access, Message

\* The initial states are typed.
LEMMA TypeInit == Init => TypeOK
<1> SUFFICES ASSUME Init PROVE TypeOK OBVIOUS
<1> USE NAssumption, BoundsAssumption DEF Init, Procs
<1>1. TypeProgram BY DEF TypeProgram
<1>2. TypeHandler BY DEF TypeHandler, AppPC, Handler
<1>3. TypeState BY DEF TypeState
<1>4. TypeThreads BY DEF TypeThreads, ThreadPC
<1>5. TypeMPI BY FS_EmptySet DEF TypeMPI
<1>6. TypeHistory BY FS_EmptySet DEF TypeHistory
<1> QED BY <1>1, <1>2, <1>3, <1>4, <1>5, <1>6 DEF TypeOK

\* The program and the number of calls stay typed when a call is made.
LEMMA FollowType ==
  ASSUME TypeProgram, NEW p \in Procs, NEW op, Follow(p, op)
  PROVE  program' \in Seq(SyncCalls) /\ calls' \in [Procs -> 0 .. MaxCalls]
<1>1. op \in SyncCalls BY OpsAssumption DEF Follow
<1>2. program \in Seq(SyncCalls) /\ Append(program, op) \in Seq(SyncCalls)
  BY <1>1 DEF TypeProgram
<1>3. program' \in Seq(SyncCalls) BY <1>2 DEF Follow
<1>4. calls' \in [Procs -> 0 .. MaxCalls] BY BoundsAssumption DEF Follow, TypeProgram
<1> QED BY <1>3, <1>4

\* What rma_analyzer_init_comm_check_thread assigns is typed.
LEMMA InitThreadType ==
  ASSUME TypeState, TypeThreads, NEW p \in Procs, InitThread(p)
  PROVE  /\ count_epoch' \in [Procs -> 0 .. MaxCalls]
         /\ thread_end' \in [Procs -> 0 .. 1]
         /\ active_epoch' \in [Procs -> 0 .. 1]
         /\ array' \in [Procs -> [Procs -> Nat]]
         /\ thr' \in [Procs -> [Epochs -> ThreadPC]]
<1>1. count_epoch' \in [Procs -> 0 .. MaxCalls] BY BoundsAssumption DEF InitThread, TypeState
<1>2. thread_end' \in [Procs -> 0 .. 1] /\ active_epoch' \in [Procs -> 0 .. 1]
  BY DEF InitThread, TypeState
<1>3. array' \in [Procs -> [Procs -> Nat]] BY DEF InitThread, TypeState
<1>4. thr' \in [Procs -> [Epochs -> ThreadPC]] BY DEF InitThread, TypeThreads, ThreadPC
<1> QED BY <1>1, <1>2, <1>3, <1>4

\* What the beginning of a clear assigns is typed.
LEMMA BeginClearType ==
  ASSUME TypeHandler, NEW p \in Procs, NEW h \in Handler, BeginClear(p, h)
  PROVE  /\ pc' \in [Procs -> AppPC] /\ call' \in [Procs -> Handler]
         /\ root' \in [Procs -> 0 .. N] /\ tmp' \in [Procs -> Nat]
<1>1. 0 \in 0 .. N BY NAssumption
<1> QED BY <1>1 DEF TypeHandler, BeginClear, AppPC

\* LockAll keeps the types.
LEMMA TypeLockAll == ASSUME TypeOK, NEW p \in Procs, LockAll(p) PROVE TypeOK'
<1> USE DEF LockAll, appVars, TypeOK
<1>1. TypeProgram' BY FollowType DEF TypeProgram
<1>2. TypeHandler' BY DEF TypeHandler
<1>3. TypeState' BY InitThreadType DEF TypeState
<1>4. TypeThreads' BY InitThreadType DEF TypeThreads
<1>5. TypeMPI' BY DEF TypeMPI
<1>6. TypeHistory' BY DEF TypeHistory
<1> QED BY <1>1, <1>2, <1>3, <1>4, <1>5, <1>6

\* UnlockAll keeps the types.
LEMMA TypeUnlockAll == ASSUME TypeOK, NEW p \in Procs, UnlockAll(p) PROVE TypeOK'
<1> USE DEF UnlockAll, envVars, appVars, flagVars, threadVars, TypeOK
<1>1. TypeProgram' BY FollowType DEF TypeProgram
<1>2. TypeHandler' BY BeginClearType DEF TypeHandler, Handler, AppPC
<1>3. TypeState' BY DEF TypeState
<1>4. TypeThreads' BY DEF TypeThreads
<1>5. TypeMPI' BY DEF TypeMPI
<1>6. TypeHistory' BY DEF TypeHistory
<1> QED BY <1>1, <1>2, <1>3, <1>4, <1>5, <1>6

\* FirstFence keeps the types.
LEMMA TypeFirstFence == ASSUME TypeOK, NEW p \in Procs, NEW op \in {"fence", "fence_end"}, FirstFence(p, op) PROVE TypeOK'
<1> USE DEF FirstFence, envVars, appVars, flagVars, threadVars, TypeOK
<1>1. TypeProgram' BY FollowType DEF TypeProgram, AfterFence
<1>2. TypeHandler' BY DEF TypeHandler
<1>3. TypeState' BY InitThreadType DEF TypeState
<1>4. TypeThreads' BY InitThreadType DEF TypeThreads
<1>5. TypeMPI' BY DEF TypeMPI
<1>6. TypeHistory' BY DEF TypeHistory
<1> QED BY <1>1, <1>2, <1>3, <1>4, <1>5, <1>6

\* NextFence keeps the types.
LEMMA TypeNextFence == ASSUME TypeOK, NEW p \in Procs, NEW op \in {"fence", "fence_end"}, NextFence(p, op) PROVE TypeOK'
<1> USE DEF NextFence, envVars, appVars, flagVars, threadVars, TypeOK
<1>1. TypeProgram' BY FollowType DEF TypeProgram
<1>2. TypeHandler' BY BeginClearType DEF TypeHandler, Handler, AppPC
<1>3. TypeState' BY DEF TypeState
<1>4. TypeThreads' BY DEF TypeThreads
<1>5. TypeMPI' BY DEF TypeMPI
<1>6. TypeHistory' BY DEF TypeHistory
<1> QED BY <1>1, <1>2, <1>3, <1>4, <1>5, <1>6

\* FenceMid keeps the types.
LEMMA TypeFenceMid == ASSUME TypeOK, NEW p \in Procs, FenceMid(p) PROVE TypeOK'
<1> USE DEF FenceMid, envVars, appVars, flagVars, threadVars, TypeOK
<1>1. TypeProgram' BY DEF TypeProgram, AfterFence
<1>2. TypeHandler' BY DEF TypeHandler, AppPC
<1>3. TypeState' BY InitThreadType DEF TypeState
<1>4. TypeThreads' BY InitThreadType DEF TypeThreads
<1>5. TypeMPI' BY DEF TypeMPI
<1>6. TypeHistory' BY DEF TypeHistory
<1> QED BY <1>1, <1>2, <1>3, <1>4, <1>5, <1>6

\* Barrier keeps the types.
LEMMA TypeBarrier == ASSUME TypeOK, NEW p \in Procs, Barrier(p) PROVE TypeOK'
<1> USE DEF Barrier, envVars, appVars, flagVars, threadVars, TypeOK
<1>1. TypeProgram' BY FollowType DEF TypeProgram
<1>2. TypeHandler' BY BeginClearType DEF TypeHandler, Handler, AppPC
<1>3. TypeState' BY DEF TypeState
<1>4. TypeThreads' BY DEF TypeThreads
<1>5. TypeMPI' BY DEF TypeMPI
<1>6. TypeHistory' BY DEF TypeHistory
<1> QED BY <1>1, <1>2, <1>3, <1>4, <1>5, <1>6

\* Restart keeps the types.
LEMMA TypeRestart == ASSUME TypeOK, NEW p \in Procs, Restart(p) PROVE TypeOK'
<1> USE DEF Restart, envVars, appVars, flagVars, threadVars, TypeOK
<1>1. TypeProgram' BY DEF TypeProgram
<1>2. TypeHandler' BY DEF TypeHandler, AppPC
<1>3. TypeState' BY InitThreadType DEF TypeState
<1>4. TypeThreads' BY InitThreadType DEF TypeThreads
<1>5. TypeMPI' BY DEF TypeMPI
<1>6. TypeHistory' BY DEF TypeHistory
<1> QED BY <1>1, <1>2, <1>3, <1>4, <1>5, <1>6

\* BarrierReturn keeps the types.
LEMMA TypeBarrierReturn == ASSUME TypeOK, NEW p \in Procs, BarrierReturn(p) PROVE TypeOK'
<1> USE DEF BarrierReturn, envVars, appVars, flagVars, threadVars, TypeOK
<1>1. TypeProgram' BY DEF TypeProgram
<1>2. TypeHandler' BY DEF TypeHandler, AppPC
<1>3. TypeState' BY DEF TypeState
<1>4. TypeThreads' BY DEF TypeThreads
<1>5. TypeMPI' BY DEF TypeMPI
<1>6. TypeHistory' BY DEF TypeHistory
<1> QED BY <1>1, <1>2, <1>3, <1>4, <1>5, <1>6

\* WinFree keeps the types.
LEMMA TypeWinFree == ASSUME TypeOK, NEW p \in Procs, WinFree(p) PROVE TypeOK'
<1> USE DEF WinFree, envVars, appVars, flagVars, threadVars, TypeOK
<1>1. TypeProgram' BY FollowType DEF TypeProgram
<1>2. TypeHandler' BY DEF TypeHandler, AppPC, Handler
<1>3. TypeState'
  <2>1. thread_end' \in [Procs -> 0 .. 1] BY DEF TypeState
  <2>2. value' \in [Procs -> Nat] BY DEF TypeState
  <2> QED BY <2>1, <2>2 DEF TypeState
<1>4. TypeThreads' BY DEF TypeThreads
<1>5. TypeMPI' BY DEF TypeMPI
<1>6. TypeHistory' BY DEF TypeHistory
<1> QED BY <1>1, <1>2, <1>3, <1>4, <1>5, <1>6

\* FinishReduce keeps the types.
LEMMA TypeFinishReduce == ASSUME TypeOK, NEW p \in Procs, FinishReduce(p) PROVE TypeOK'
<1> USE DEF FinishReduce, envVars, appVars, flagVars, threadVars, TypeOK
<1>1. TypeProgram' BY DEF TypeProgram
<1>2. TypeHandler' BY DEF TypeHandler, AppPC
<1>3. TypeState'
  <2>1. thread_end' \in [Procs -> 0 .. 1] BY DEF TypeState
  <2>2. value' \in [Procs -> Nat] BY DEF TypeState, TypeHandler
  <2> QED BY <2>1, <2>2 DEF TypeState
<1>4. TypeThreads' BY DEF TypeThreads
<1>5. TypeMPI' BY DEF TypeMPI
<1>6. TypeHistory' BY DEF TypeHistory
<1> QED BY <1>1, <1>2, <1>3, <1>4, <1>5, <1>6

\* RaiseEnd keeps the types.
LEMMA TypeRaiseEnd == ASSUME TypeOK, NEW p \in Procs, RaiseEnd(p) PROVE TypeOK'
<1> USE DEF RaiseEnd, envVars, appVars, flagVars, threadVars, TypeOK
<1>1. TypeProgram' BY DEF TypeProgram
<1>2. TypeHandler' BY DEF TypeHandler
<1>3. TypeState' BY DEF TypeState
<1>4. TypeThreads' BY DEF TypeThreads
<1>5. TypeMPI' BY DEF TypeMPI
<1>6. TypeHistory' BY DEF TypeHistory
<1> QED BY <1>1, <1>2, <1>3, <1>4, <1>5, <1>6

\* Join keeps the types.
LEMMA TypeJoin == ASSUME TypeOK, NEW p \in Procs, Join(p) PROVE TypeOK'
<1> USE DEF Join, envVars, appVars, flagVars, threadVars, TypeOK
<1>1. TypeProgram' BY DEF TypeProgram
<1>2. TypeHandler' BY DEF TypeHandler, AppPC, AfterJoin
<1>3. TypeState' BY DEF TypeState
<1>4. TypeThreads' BY DEF TypeThreads
<1>5. TypeMPI' BY DEF TypeMPI
<1>6. TypeHistory' BY FS_Subset DEF TypeHistory
<1> QED BY <1>1, <1>2, <1>3, <1>4, <1>5, <1>6

\* SendReturn keeps the types.
LEMMA TypeSendReturn == ASSUME TypeOK, NEW p \in Procs, SendReturn(p) PROVE TypeOK'
<1> USE DEF SendReturn, envVars, appVars, flagVars, threadVars, TypeOK
<1>1. TypeProgram' BY DEF TypeProgram
<1>2. TypeHandler' BY DEF TypeHandler, AppPC
<1>3. TypeState'
  <2>1. array' \in [Procs -> [Procs -> Nat]] BY DEF TypeState, TypeHandler
  <2> QED BY <2>1 DEF TypeState
<1>4. TypeThreads' BY DEF TypeThreads
<1>5. TypeMPI' BY DEF TypeMPI
<1>6. TypeHistory' BY DEF TypeHistory
<1> QED BY <1>1, <1>2, <1>3, <1>4, <1>5, <1>6

\* PostRecv keeps the types.
LEMMA TypePostRecv == ASSUME TypeOK, NEW p \in Procs, NEW k \in Epochs, PostRecv(p, k) PROVE TypeOK'
<1> USE DEF PostRecv, envVars, appVars, flagVars, threadVars, TypeOK
<1>1. TypeProgram' BY DEF TypeProgram
<1>2. TypeHandler' BY DEF TypeHandler
<1>3. TypeState' BY DEF TypeState
<1>4. TypeThreads'
  <2>1. count_epoch[p] \in 0 .. MaxCalls BY DEF TypeState
  <2>2. CASE pc[p] = "freed" BY <2>2 DEF TypeThreads
  <2>3. CASE pc[p] # "freed"
    <3>1. /\ thr' = [thr EXCEPT ![p][k] = "poll"]
          /\ tag' = [tag EXCEPT ![p][k] = count_epoch[p]]
      BY <2>3
    <3>2. thr' \in [Procs -> [Epochs -> ThreadPC]] BY <3>1 DEF TypeThreads, ThreadPC
    <3>3. tag' \in [Procs -> [Epochs -> 0 .. MaxCalls]] BY <2>1, <3>1 DEF TypeThreads
    <3> QED BY <3>2, <3>3 DEF TypeThreads
  <2> QED BY <2>2, <2>3
<1>5. TypeMPI' BY DEF TypeMPI
<1>6. TypeHistory' BY DEF TypeHistory
<1> QED BY <1>1, <1>2, <1>3, <1>4, <1>5, <1>6

\* The accesses a one-sided call makes are typed.
LEMMA AccessTypes ==
  ASSUME TypeOK, NEW p \in Procs, NEW q \in Procs, NEW c \in Comms
  PROVE  /\ OriginAccess(p, q, c) \in Access
         /\ SentMessage(p, q, c) \in Message
         /\ LandedAccess(SentMessage(p, q, c)) \in Access
<1>1. count_epoch[p] \in 0 .. MaxCalls /\ array[p][q] + 1 \in Nat
  BY DEF TypeOK, TypeState
<1>2. c.local \in Interval /\ c.target \in Interval BY AccessAssumption
<1>3. OriginAccess(p, q, c) \in Access BY <1>1, <1>2 DEF OriginAccess, Access
<1>4. SentMessage(p, q, c) \in Message BY <1>1, <1>2 DEF SentMessage, Message
<1> QED BY <1>3, <1>4, LandedType

\* A load or store is an access.
LEMMA MemoryAccessType ==
  ASSUME TypeOK, NEW p \in Procs, NEW i \in Touches
  PROVE  MemoryAccess(p, i) \in Access
BY AccessAssumption DEF TypeOK, TypeState, MemoryAccess, Access

\* The trees stay typed when an access is saved.
LEMMA SaveInsertsType ==
  ASSUME TypeState, NEW p \in Procs, NEW a \in Access, SaveInserts(p, a)
  PROVE  local_tree' \in [Procs -> SUBSET Access]
BY DEF TypeState, SaveInserts

\* CommReports keeps the types.
LEMMA TypeCommReports ==
  ASSUME TypeOK, NEW p \in Procs, NEW q \in Procs, NEW c \in Comms, CommReports(p, q, c)
  PROVE  TypeOK'
<1> USE DEF CommReports, envVars, appVars, flagVars, threadVars, TypeOK, SaveReports
<1>1. TypeProgram' BY DEF TypeProgram
<1>2. TypeHandler' BY DEF TypeHandler
<1>3. TypeState' BY DEF TypeState
<1>4. TypeThreads' BY DEF TypeThreads
<1>5. TypeMPI' BY DEF TypeMPI
<1>6. TypeHistory' BY AccessTypes, FS_AddElement DEF TypeHistory
<1> QED BY <1>1, <1>2, <1>3, <1>4, <1>5, <1>6

\* CommSend keeps the types.
LEMMA TypeCommSend ==
  ASSUME TypeOK, NEW p \in Procs, NEW q \in Procs, NEW c \in Comms, CommSend(p, q, c)
  PROVE  TypeOK'
<1> USE DEF CommSend, envVars, flagVars, threadVars, TypeOK
<1>1. TypeProgram' BY DEF TypeProgram
<1>2. TypeHandler' BY DEF TypeHandler, AppPC
<1>3. TypeState' BY AccessTypes, SaveInsertsType DEF TypeState
<1>4. TypeThreads' BY DEF TypeThreads
<1>5. TypeMPI' BY AccessTypes DEF TypeMPI, SaveInserts
<1>6. TypeHistory'
  <2>1. accesses' = (accesses \union {OriginAccess(p, q, c)})
                    \union {LandedAccess(SentMessage(p, q, c))}
    OBVIOUS
  <2>3. IsFiniteSet(accesses \union {OriginAccess(p, q, c)}) BY FS_AddElement DEF TypeHistory
  <2>2. IsFiniteSet(accesses') BY <2>1, <2>3, FS_AddElement
  <2> QED BY <2>1, <2>2, AccessTypes DEF TypeHistory
<1> QED BY <1>1, <1>2, <1>3, <1>4, <1>5, <1>6

\* LoadStore keeps the types.
LEMMA TypeLoadStore ==
  ASSUME TypeOK, NEW p \in Procs, NEW i \in Touches, LoadStore(p, i) PROVE TypeOK'
<1> USE DEF LoadStore, envVars, appVars, flagVars, threadVars, TypeOK
<1>1. TypeProgram' BY DEF TypeProgram
<1>2. TypeHandler' BY DEF TypeHandler
<1>3. TypeState' BY MemoryAccessType, SaveInsertsType DEF TypeState, SaveReports
<1>4. TypeThreads' BY DEF TypeThreads
<1>5. TypeMPI' BY DEF TypeMPI, SaveInserts, SaveReports
<1>6. TypeHistory'
  <2>1. accesses' = accesses \/ accesses' = accesses \union {MemoryAccess(p, i)} OBVIOUS
  <2>2. MemoryAccess(p, i) \in Access BY MemoryAccessType
  <2>3. IsFiniteSet(accesses) /\ accesses \subseteq Access BY DEF TypeHistory
  <2>4. IsFiniteSet(accesses \union {MemoryAccess(p, i)}) BY <2>3, FS_AddElement
  <2>5. IsFiniteSet(accesses') /\ accesses' \subseteq Access BY <2>1, <2>2, <2>3, <2>4
  <2>6. clears' = clears /\ analysed' = analysed OBVIOUS
  <2> QED BY <2>5, <2>6 DEF TypeHistory
<1> QED BY <1>1, <1>2, <1>3, <1>4, <1>5, <1>6

\* Receive keeps the types.
LEMMA TypeReceive ==
  ASSUME TypeOK, NEW p \in Procs, NEW k \in Epochs, NEW m \in net, Receive(p, k, m)
  PROVE  TypeOK'
<1> USE DEF Receive, envVars, appVars, flagVars, threadVars, TypeOK
<1>1. TypeProgram' BY DEF TypeProgram
<1>2. TypeHandler' BY DEF TypeHandler
<1>0. m \in Message /\ LandedAccess(m) \in Access BY LandedType DEF TypeMPI
<1>3. TypeState'
  <2>1. count' \in [Procs -> Nat] BY DEF TypeState
  <2>2. local_tree' \in [Procs -> SUBSET Access]
    BY <1>0, SaveInsertsType DEF SaveReports, TypeState
  <2> QED BY <2>1, <2>2 DEF TypeState
<1>4. TypeThreads' BY DEF TypeThreads, ThreadPC
<1>5. TypeMPI' BY DEF TypeMPI, SaveInserts, SaveReports
<1>6. TypeHistory'
  <2>1. <<m.src, m.seq>> \in Procs \X Nat BY <1>0 DEF Message
  <2> QED BY <2>1 DEF TypeHistory
<1> QED BY <1>1, <1>2, <1>3, <1>4, <1>5, <1>6

\* Exit keeps the types.
LEMMA TypeExit ==
  ASSUME TypeOK, NEW p \in Procs, NEW k \in Epochs, Exit(p, k) PROVE TypeOK'
<1> USE DEF Exit, envVars, appVars, flagVars, threadVars, TypeOK
<1>1. TypeProgram' BY DEF TypeProgram
<1>2. TypeHandler' BY DEF TypeHandler
<1>3. TypeState' BY DEF TypeState
<1>4. TypeThreads' BY DEF TypeThreads, ThreadPC
<1>5. TypeMPI' BY DEF TypeMPI
<1>6. TypeHistory' BY DEF TypeHistory
<1> QED BY <1>1, <1>2, <1>3, <1>4, <1>5, <1>6

\* ReduceSend keeps the types.
LEMMA TypeReduceSend ==
  ASSUME TypeOK, NEW p \in Procs, ReduceSend(p) PROVE TypeOK'
<1> USE DEF ReduceSend, envVars, appVars, flagVars, threadVars, TypeOK
<1>1. TypeProgram' BY DEF TypeProgram
<1>2. TypeHandler'
  <2>1. root[p] \in 0 .. N /\ root[p] + 1 \in 0 .. N BY NAssumption DEF TypeHandler
  <2> QED BY <2>1 DEF TypeHandler
<1>3. TypeState' BY DEF TypeState
<1>4. TypeThreads' BY DEF TypeThreads
<1>5. TypeMPI'
  <2> DEFINE c == [src |-> p, root |-> root[p], inst |-> clears[p] + 1, n |-> array[p][root[p]]]
  <2>1. root[p] \in Procs BY NAssumption DEF TypeHandler, Procs
  <2>2. array[p][root[p]] \in Nat /\ clears[p] + 1 \in Nat
    BY <2>1 DEF TypeState, TypeHistory
  <2>3. c \in Contribution BY <2>1, <2>2 DEF Contribution
  <2>4. red' = red \union {c} OBVIOUS
  <2>6. IsFiniteSet(red) BY DEF TypeMPI
  <2>5. IsFiniteSet(red') BY <2>4, <2>6, FS_AddElement
  <2> QED BY <2>3, <2>4, <2>5 DEF TypeMPI
<1>6. TypeHistory' BY DEF TypeHistory
<1> QED BY <1>1, <1>2, <1>3, <1>4, <1>5, <1>6

\* The units of one contribution are finitely many, and so ...
LEMMA ImageFinite ==
  ASSUME NEW S, IsFiniteSet(S), NEW f, f = [x \in S |-> f[x]]
  PROVE  IsFiniteSet({f[x] : x \in S})
<1>1. f \in Surjection(S, {f[x] : x \in S}) BY DEF Surjection
<1> QED BY <1>1, FS_Surjection

\* The intervals the processes have counted make a finite set, so their sum
\* is a number.
LEMMA UnitsFinite == ASSUME TypeOK, NEW p \in Procs PROVE IsFiniteSet(Units(p))
<1> DEFINE C == Contributions(p)
           f == [c \in C |-> {c.src} \X (1 .. c.n)]
           own == {p} \X (1 .. array[p][p])
<1>1. IsFiniteSet(C) BY FS_Subset DEF TypeOK, TypeMPI, Contributions
<1>0. f = [c \in C |-> f[c]] OBVIOUS
<1>2. IsFiniteSet({f[c] : c \in C})
  <2> HIDE DEF f, C
  <2> QED BY <1>0, <1>1, ImageFinite
<1>3. {f[c] : c \in C} = {{c.src} \X (1 .. c.n) : c \in C} OBVIOUS
<1>4. IsFiniteSet({{c.src} \X (1 .. c.n) : c \in C} \union {own})
  BY <1>2, <1>3, FS_AddElement
<1>5. ASSUME NEW s, NEW n \in Nat PROVE IsFiniteSet({s} \X (1 .. n))
  <2>1. IsFiniteSet({s}) BY FS_Singleton
  <2>2. IsFiniteSet(1 .. n) BY FS_Interval
  <2> QED BY <2>1, <2>2, FS_Product
<1>6. array[p][p] \in Nat BY DEF TypeOK, TypeState
<1>7. \A c \in C : c.n \in Nat BY DEF TypeOK, TypeMPI, Contribution, Contributions
<1>8. \A U \in {{c.src} \X (1 .. c.n) : c \in C} \union {own} : IsFiniteSet(U)
  <2>1. \A c \in C : IsFiniteSet({c.src} \X (1 .. c.n)) BY <1>5, <1>7
  <2>2. IsFiniteSet(own) BY <1>5, <1>6
  <2> QED BY <2>1, <2>2
<1> QED BY <1>4, <1>8, FS_UNION DEF Units

\* ReduceRoot keeps the types.
LEMMA TypeReduceRoot ==
  ASSUME TypeOK, NEW p \in Procs, ReduceRoot(p) PROVE TypeOK'
<1> USE DEF ReduceRoot, envVars, appVars, flagVars, threadVars, TypeOK
<1>1. TypeProgram' BY DEF TypeProgram
<1>2. TypeHandler'
  <2>1. root[p] + 1 \in 0 .. N BY NAssumption DEF TypeHandler, Procs
  <2>2. Cardinality(Units(p)) \in Nat BY UnitsFinite, FS_CardinalityType
  <2> QED BY <2>1, <2>2 DEF TypeHandler
<1>3. TypeState' BY DEF TypeState
<1>4. TypeThreads' BY DEF TypeThreads
<1>5. TypeMPI' BY FS_Subset DEF TypeMPI
<1>6. TypeHistory' BY DEF TypeHistory
<1> QED BY <1>1, <1>2, <1>3, <1>4, <1>5, <1>6

\* Every step keeps the types.
LEMMA TypeStep == TypeOK /\ [Next]_vars => TypeOK'
<1> SUFFICES ASSUME TypeOK, [Next]_vars PROVE TypeOK' OBVIOUS
<1>1. CASE vars' = vars
  BY <1>1 DEF vars, TypeOK, TypeProgram, TypeHandler, TypeState, TypeThreads, TypeMPI, TypeHistory
<1>2. ASSUME NEW p \in Procs, SyncCall(p) PROVE TypeOK'
  BY <1>2, TypeLockAll, TypeUnlockAll, TypeBarrier, TypeWinFree, TypeFirstFence, TypeNextFence
  DEF SyncCall
<1>3. ASSUME NEW p \in Procs, Progress(p) PROVE TypeOK'
  BY <1>3, TypeFenceMid, TypeRestart, TypeBarrierReturn, TypeReduceSend, TypeReduceRoot,
     TypeFinishReduce, TypeRaiseEnd, TypeJoin, TypeSendReturn
  DEF Progress
<1>4. ASSUME NEW p \in Procs, MemoryCall(p) PROVE TypeOK'
  BY <1>4, TypeCommReports, TypeCommSend, TypeLoadStore DEF MemoryCall
<1>5. ASSUME NEW p \in Procs, NEW k \in Epochs, CheckThread(p, k) PROVE TypeOK'
  BY <1>5, TypePostRecv, TypeReceive, TypeExit DEF CheckThread
<1> QED BY <1>1, <1>2, <1>3, <1>4, <1>5 DEF Next, Terminating

\* The variables of the analyzer have the types of struct rma_analyzer_state,
\* whatever the program does.
THEOREM TypeCorrect == Spec => []TypeOK
BY TypeInit, TypeStep, PTL DEF Spec

----------------------------------------------------------------------------
(* What the actions do. *)

\* Where the application thread is, and what it then knows (ControlOK), is kept.
LEMMA ControlStep ==
  ASSUME TypeOK, Disciplined, NEW r \in Procs, \A p \in Procs : ControlOK(p), [Next]_vars
  PROVE  ControlOK(r)'
<1> USE DEF ControlOK, Active, Freeing, Between, TypeOK, TypeHandler, TypeState, TypeProgram, AppPC, Handler
<1>1. ASSUME NEW p \in Procs, LockAll(p) PROVE ControlOK(r)'
  BY <1>1 DEF LockAll, Follow, InitThread, appVars
<1>2. ASSUME NEW p \in Procs, UnlockAll(p) PROVE ControlOK(r)'
  BY <1>2 DEF UnlockAll, Follow, BeginClear, flagVars
<1>3. ASSUME NEW p \in Procs, NEW op \in {"fence", "fence_end"}, FirstFence(p, op) PROVE ControlOK(r)'
  <2>1. CASE r # p BY <1>3, <2>1 DEF FirstFence, Follow, InitThread, appVars, AfterFence
  <2>2. CASE r = p
    <3>1. pc[p] = "run" /\ pc' = pc /\ call' = call BY <1>3 DEF FirstFence, Follow, appVars
    <3>2. active_epoch'[p] = 1 /\ count_fence'[p] > 0 BY <1>3 DEF FirstFence, InitThread
    <3>3. open'[p] \in {"fence", "closed"} BY <1>3 DEF FirstFence, AfterFence
    <3> QED BY <2>2, <3>1, <3>2, <3>3
  <2> QED BY <2>1, <2>2
<1>4. ASSUME NEW p \in Procs, NEW op \in {"fence", "fence_end"}, NextFence(p, op) PROVE ControlOK(r)'
  BY <1>4 DEF NextFence, Follow, BeginClear, flagVars
<1>5. ASSUME NEW p \in Procs, FenceMid(p) PROVE ControlOK(r)'
  BY <1>5 DEF FenceMid, InitThread, AfterFence
<1>6. ASSUME NEW p \in Procs, Barrier(p) PROVE ControlOK(r)'
  <2>1. CASE r # p
    <3>1. /\ pc'[r] = pc[r] /\ call'[r] = call[r] /\ open'[r] = open[r] /\ from_sync'[r] = from_sync[r]
          /\ active_epoch'[r] = active_epoch[r] /\ count_fence'[r] = count_fence[r]
      <4> HIDE DEF ControlOK
      <4> QED BY <1>6, <2>1 DEF Barrier, Follow, BeginClear, flagVars
    <3> QED BY <3>1
  <2>2. CASE r = p BY <1>6, <2>2 DEF Barrier, Follow, BeginClear, flagVars
  <2> QED BY <2>1, <2>2
<1>7. ASSUME NEW p \in Procs, Restart(p) PROVE ControlOK(r)'
  <2>1. CASE r # p BY ZenonT(60), <1>7, <2>1 DEF Restart, InitThread, flagVars
  <2>2. CASE r = p BY <1>7, <2>2 DEF Restart, InitThread, flagVars
  <2> QED BY <2>1, <2>2
<1>8. ASSUME NEW p \in Procs, BarrierReturn(p) PROVE ControlOK(r)'
  BY <1>8 DEF BarrierReturn, envVars, flagVars
<1>9. ASSUME NEW p \in Procs, WinFree(p) PROVE ControlOK(r)'
  <2>1. CASE r # p BY ZenonT(60), <1>9, <2>1 DEF WinFree, Follow, flagVars
  <2>2. CASE r = p BY <1>9, <2>2 DEF WinFree, Follow, flagVars
  <2> QED BY <2>1, <2>2
<1>10. ASSUME NEW p \in Procs, ReduceSend(p) PROVE ControlOK(r)'
  BY <1>10 DEF ReduceSend, envVars, flagVars
<1>11. ASSUME NEW p \in Procs, ReduceRoot(p) PROVE ControlOK(r)'
  BY <1>11 DEF ReduceRoot, envVars, flagVars
<1>12. ASSUME NEW p \in Procs, FinishReduce(p) PROVE ControlOK(r)'
  BY <1>12 DEF FinishReduce, envVars, flagVars
<1>21. ASSUME NEW p \in Procs, RaiseEnd(p) PROVE ControlOK(r)'
  BY <1>21 DEF RaiseEnd, envVars, appVars
<1>13. ASSUME NEW p \in Procs, Join(p) PROVE ControlOK(r)'
  <2>1. CASE r # p BY <1>13, <2>1 DEF Join, AfterJoin
  <2>2. CASE r = p BY <1>13, <2>2 DEF Join, AfterJoin
  <2> QED BY <2>1, <2>2
<1>14. ASSUME NEW p \in Procs, NEW q \in Procs, NEW c \in Comms, CommReports(p, q, c) PROVE ControlOK(r)'
  BY <1>14 DEF CommReports, envVars, appVars, flagVars
<1>15. ASSUME NEW p \in Procs, NEW q \in Procs, NEW c \in Comms, CommSend(p, q, c) PROVE ControlOK(r)'
  BY <1>15 DEF CommSend, envVars, flagVars
<1>16. ASSUME NEW p \in Procs, SendReturn(p) PROVE ControlOK(r)'
  BY <1>16 DEF SendReturn, envVars
<1>17. ASSUME NEW p \in Procs, NEW i \in Touches, LoadStore(p, i) PROVE ControlOK(r)'
  BY <1>17 DEF LoadStore, envVars, appVars, flagVars
<1>18. ASSUME NEW p \in Procs, NEW k \in Epochs, PostRecv(p, k) PROVE ControlOK(r)'
  BY <1>18 DEF PostRecv, envVars, appVars, flagVars
<1>19. ASSUME NEW p \in Procs, NEW k \in Epochs, NEW m \in net, Receive(p, k, m) PROVE ControlOK(r)'
  BY <1>19 DEF Receive, envVars, appVars, flagVars
<1>20. ASSUME NEW p \in Procs, NEW k \in Epochs, Exit(p, k) PROVE ControlOK(r)'
  BY <1>20 DEF Exit, envVars, appVars, flagVars
<1>30. CASE vars' = vars BY <1>30 DEF vars
<1> QED BY ZenonT(60), <1>1, <1>2, <1>3, <1>4, <1>5, <1>6, <1>7, <1>8, <1>9, <1>10, <1>11, <1>12, <1>13, <1>14, <1>15, <1>16, <1>17, <1>18, <1>19, <1>20, <1>21, <1>30 DEF Next, SyncCall, Progress, MemoryCall, CheckThread, Terminating

----------------------------------------------------------------------------
(* What a step does, by kind, to the variables the invariant speaks about. *)
(* Handlers that do the same thing to them are one kind.                   *)

SameWhere(p)  == pc'[p] = pc[p] /\ call'[p] = call[p] /\ root'[p] = root[p]
SameEpoch(p)  == count_epoch'[p] = count_epoch[p] /\ active_epoch'[p] = active_epoch[p]
SameThread(p) == thread_end'[p] = thread_end[p] /\ thr'[p] = thr[p] /\ tag'[p] = tag[p]
SameCount(p)  == count'[p] = count[p] /\ analysed'[p] = analysed[p]
SameSum(p)    == value'[p] = value[p] /\ tmp'[p] = tmp[p]
SameSends(p)  == array'[p] = array[p] /\ dest'[p] = dest[p]
SameTree(p)   == local_tree'[p] = local_tree[p]

Same(p) ==
  /\ SameWhere(p) /\ SameEpoch(p) /\ SameThread(p) /\ SameCount(p) /\ SameSum(p)
  /\ SameSends(p) /\ SameTree(p) /\ clears'[p] = clears[p]

Others(p) == \A q \in Procs \ {p} : Same(q)

\* An epoch begins: LockAll, FirstFence, FenceMid, Restart.
Opens(p) ==
  /\ ~ Active(p) /\ ~ Freeing(p)
  /\ pc[p] \in {"run", "fence_mid", "restart"} /\ pc'[p] \in {"run", "sync"}
  /\ call'[p] = call[p] /\ root'[p] = root[p] /\ clears'[p] = clears[p]
  /\ count_epoch[p] + 1 \in Epochs
  /\ count_epoch'[p] = count_epoch[p] + 1 /\ active_epoch'[p] = 1
  /\ thread_end'[p] = 0 /\ tag'[p] = tag[p]
  /\ \A k \in Epochs : thr'[p][k] = IF k = count_epoch[p] + 1 THEN "post" ELSE thr[p][k]
  /\ \A d \in Procs : array'[p][d] = 0
  /\ SameCount(p) /\ SameSum(p) /\ SameTree(p)
  /\ UNCHANGED <<net, red, accesses, halted>>

\* A clear begins: UnlockAll, NextFence, Barrier inside an epoch.
StartsClear(p) ==
  /\ Active(p) /\ ~ Freeing(p) /\ call'[p] # "free"
  /\ pc[p] = "run" /\ pc'[p] = "reduce" /\ root'[p] = 0
  /\ value'[p] = value[p] /\ clears'[p] = clears[p]
  /\ SameEpoch(p) /\ SameThread(p) /\ SameCount(p) /\ SameSends(p) /\ SameTree(p)
  /\ UNCHANGED <<net, red, accesses, halted>>

\* Barrier outside an epoch, BarrierReturn, Restart when nothing restarts.
Moves(p) ==
  /\ ~ Freeing(p) /\ call'[p] # "free"
  /\ pc[p] \in {"run", "restart", "sync"} /\ pc'[p] \in {"run", "restart", "sync"}
  /\ root'[p] = root[p] /\ clears'[p] = clears[p]
  /\ SameEpoch(p) /\ SameThread(p) /\ SameCount(p) /\ SameSum(p) /\ SameSends(p) /\ SameTree(p)
  /\ UNCHANGED <<net, red, accesses, halted>>

\* WinFree.
StartsFree(p) ==
  /\ ~ Freeing(p) /\ call'[p] = "free" /\ pc[p] = "run"
  /\ \/ Active(p) /\ pc'[p] = "join"
     \/ ~ Active(p) /\ pc'[p] = "freed"
  /\ root'[p] = root[p] /\ clears'[p] = clears[p]
  /\ SameEpoch(p) /\ SameThread(p) /\ SameCount(p) /\ SameSends(p) /\ SameTree(p)
  /\ UNCHANGED <<net, red, accesses, halted>>

\* ReduceSend.
Contributes(p) ==
  /\ pc[p] = "reduce" /\ pc'[p] = "reduce" /\ call'[p] = call[p] /\ clears'[p] = clears[p]
  /\ root[p] \in Procs \ {p} /\ root'[p] = root[p] + 1
  /\ red' = red \union {[src |-> p, root |-> root[p], inst |-> clears[p] + 1,
                         n |-> array[p][root[p]]]}
  /\ SameEpoch(p) /\ SameThread(p) /\ SameCount(p) /\ SameSum(p) /\ SameSends(p) /\ SameTree(p)
  /\ UNCHANGED <<net, accesses, halted>>

\* ReduceRoot.
Sums(p) ==
  /\ pc[p] = "reduce" /\ pc'[p] = "reduce" /\ call'[p] = call[p] /\ clears'[p] = clears[p]
  /\ root[p] = p /\ root'[p] = p + 1
  /\ \A s \in Procs \ {p} : \E c \in Contributions(p) : c.src = s
  /\ tmp'[p] = Cardinality(Units(p)) /\ value'[p] = value[p]
  /\ red' = red \ Contributions(p)
  /\ SameEpoch(p) /\ SameThread(p) /\ SameCount(p) /\ SameSends(p) /\ SameTree(p)
  /\ UNCHANGED <<net, accesses, halted>>

\* FinishReduce.
Finishes(p) ==
  /\ pc[p] = "reduce" /\ pc'[p] = "join" /\ call'[p] = call[p]
  /\ root[p] = N /\ root'[p] = N /\ clears'[p] = clears[p] + 1
  /\ value'[p] = tmp[p] /\ tmp'[p] = tmp[p]
  /\ SameEpoch(p) /\ SameThread(p) /\ SameCount(p) /\ SameSends(p) /\ SameTree(p)
  /\ UNCHANGED <<net, red, accesses, halted>>

\* RaiseEnd.
Raises(p) ==
  /\ pc[p] = "join" /\ SameWhere(p) /\ clears'[p] = clears[p]
  /\ thr'[p] = thr[p] /\ tag'[p] = tag[p]
  /\ SameEpoch(p) /\ SameCount(p) /\ SameSum(p) /\ SameSends(p) /\ SameTree(p)
  /\ UNCHANGED <<net, red, accesses, halted>>

\* Join.
Joins(p) ==
  /\ pc[p] = "join" /\ Joinable(p) /\ pc'[p] \in {"run", "restart", "freed", "fence_mid"}
  /\ call'[p] = call[p] /\ root'[p] = root[p] /\ clears'[p] = clears[p]
  /\ count_epoch'[p] = count_epoch[p] /\ active_epoch'[p] = 0
  /\ count'[p] = 0 /\ analysed'[p] = {} /\ local_tree'[p] = {}
  /\ accesses' = {a \in accesses : a.dst = p => a.epoch > count_epoch[p]}
  /\ SameThread(p) /\ SameSum(p) /\ SameSends(p)
  /\ UNCHANGED <<net, red, halted>>

\* CommReports and LoadStore: an access of p to its own memory.
Stores(p) ==
  /\ pc[p] = "run" /\ Active(p) /\ ~ Freeing(p)
  /\ SameWhere(p) /\ SameEpoch(p) /\ SameThread(p) /\ SameCount(p) /\ SameSum(p)
  /\ SameSends(p) /\ clears'[p] = clears[p]
  /\ {a \in accesses' : a.side = "target"} = {a \in accesses : a.side = "target"}
  /\ \A a \in local_tree'[p] : a \in local_tree[p] \/ (a.dst = p /\ a.epoch = count_epoch[p])
  /\ accesses \subseteq accesses'
  /\ UNCHANGED <<net, red>> /\ halted' # "nostate"

\* CommSend.
Sends(p, q, c) ==
  /\ pc[p] = "run" /\ pc'[p] = "send" /\ dest'[p] = q /\ Active(p) /\ ~ Freeing(p)
  /\ call'[p] = call[p] /\ root'[p] = root[p] /\ clears'[p] = clears[p]
  /\ array'[p] = array[p]
  /\ net' = net \union {SentMessage(p, q, c)}
  /\ accesses' = accesses \union {OriginAccess(p, q, c), LandedAccess(SentMessage(p, q, c))}
  /\ \A a \in local_tree'[p] : a \in local_tree[p] \/ (a.dst = p /\ a.epoch = count_epoch[p])
  /\ SameEpoch(p) /\ SameThread(p) /\ SameCount(p) /\ SameSum(p)
  /\ UNCHANGED <<red, halted>>

\* SendReturn.
Returns(p) ==
  /\ pc[p] = "send" /\ pc'[p] = "run" /\ dest'[p] = dest[p]
  /\ call'[p] = call[p] /\ root'[p] = root[p] /\ clears'[p] = clears[p]
  /\ \A d \in Procs : array'[p][d] = array[p][d] + IF d = dest[p] THEN 1 ELSE 0
  /\ SameEpoch(p) /\ SameThread(p) /\ SameCount(p) /\ SameSum(p) /\ SameTree(p)
  /\ UNCHANGED <<net, red, accesses, halted>>

\* PostRecv.
Posts(p, k) ==
  /\ thr[p][k] = "post" /\ k = count_epoch[p] /\ Active(p)
  /\ \A j \in Epochs : thr'[p][j] = IF j = k THEN "poll" ELSE thr[p][j]
  /\ \A j \in Epochs : tag'[p][j] = IF j = k THEN k ELSE tag[p][j]
  /\ thread_end'[p] = thread_end[p] /\ clears'[p] = clears[p]
  /\ SameWhere(p) /\ SameEpoch(p) /\ SameCount(p) /\ SameSum(p) /\ SameSends(p) /\ SameTree(p)
  /\ UNCHANGED <<net, red, accesses, halted>>

\* Receive.
Receives(p, k, m) ==
  /\ thr[p][k] = "poll" /\ k = count_epoch[p] /\ Active(p)
  /\ m \in net /\ m.dst = p /\ m.tag = k /\ net' = net \ {m}
  /\ \A j \in Epochs : thr'[p][j] = IF j = k THEN "post" ELSE thr[p][j]
  /\ thread_end'[p] = thread_end[p] /\ tag'[p] = tag[p] /\ clears'[p] = clears[p]
  /\ count'[p] = count[p] + 1 /\ analysed'[p] = analysed[p] \union {<<m.src, m.seq>>}
  /\ local_tree'[p] \subseteq local_tree[p] \union {LandedAccess(m)}
  /\ SameWhere(p) /\ SameEpoch(p) /\ SameSum(p) /\ SameSends(p)
  /\ UNCHANGED <<red, accesses>> /\ halted' # "nostate"

\* Exit.
Exits(p, k) ==
  /\ thr[p][k] = "poll" /\ k = count_epoch[p] /\ Active(p) /\ pc[p] = "join"
  /\ count[p] = value[p] /\ count'[p] = 0 /\ analysed'[p] = analysed[p]
  /\ \A j \in Epochs : thr'[p][j] = IF j = k THEN "done" ELSE thr[p][j]
  /\ net' \subseteq net /\ \A m \in net \ net' : m.dst = p /\ m.tag = k
  /\ thread_end'[p] = thread_end[p] /\ tag'[p] = tag[p] /\ clears'[p] = clears[p]
  /\ SameWhere(p) /\ SameEpoch(p) /\ SameSum(p) /\ SameSends(p) /\ SameTree(p)
  /\ UNCHANGED <<red, accesses, halted>>

Effect(p) ==
  /\ Others(p)
  /\ \/ Opens(p) \/ StartsClear(p) \/ Moves(p) \/ StartsFree(p) \/ Contributes(p)
     \/ Sums(p) \/ Finishes(p) \/ Joins(p) \/ Stores(p) \/ Returns(p) \/ Raises(p)
     \/ \E q \in Procs, c \in Comms : Sends(p, q, c)
     \/ \E k \in Epochs : Posts(p, k) \/ Exits(p, k)
     \/ \E k \in Epochs, m \in net : Receives(p, k, m)

\* A step of a process changes no other process.
LEMMA OthersSame ==
  ASSUME TypeOK, NEW p \in Procs,
         SyncCall(p) \/ Progress(p) \/ MemoryCall(p) \/ \E k \in Epochs : CheckThread(p, k)
  PROVE  Others(p)
<1> USE DEF TypeOK, TypeHandler, TypeState, TypeThreads, TypeHistory, Same, SameWhere, SameEpoch,
            SameThread, SameCount, SameSum, SameSends, SameTree, Others
<1>1. ASSUME LockAll(p) PROVE Others(p) BY <1>1 DEF LockAll, Follow, InitThread, appVars, threadVars
<1>2. ASSUME UnlockAll(p) PROVE Others(p) BY <1>2 DEF UnlockAll, Follow, BeginClear, flagVars, threadVars
<1>3. ASSUME NEW op \in {"fence", "fence_end"}, FirstFence(p, op) PROVE Others(p) BY <1>3 DEF FirstFence, Follow, InitThread, appVars, AfterFence, threadVars
<1>4. ASSUME NEW op \in {"fence", "fence_end"}, NextFence(p, op) PROVE Others(p) BY <1>4 DEF NextFence, Follow, BeginClear, flagVars, threadVars
<1>5. ASSUME FenceMid(p) PROVE Others(p) BY <1>5 DEF FenceMid, InitThread, AfterFence, threadVars
<1>6. ASSUME Barrier(p) PROVE Others(p) BY SMTT(40), <1>6 DEF Barrier, Follow, BeginClear, flagVars, threadVars
<1>7. ASSUME Restart(p) PROVE Others(p) BY <1>7 DEF Restart, InitThread, flagVars, threadVars
<1>8. ASSUME BarrierReturn(p) PROVE Others(p) BY <1>8 DEF BarrierReturn, flagVars, threadVars
<1>9. ASSUME WinFree(p) PROVE Others(p) BY ZenonT(60), <1>9 DEF WinFree, Follow, flagVars, threadVars
<1>10. ASSUME ReduceSend(p) PROVE Others(p) BY <1>10 DEF ReduceSend, flagVars, threadVars
<1>11. ASSUME ReduceRoot(p) PROVE Others(p) BY <1>11 DEF ReduceRoot, flagVars, threadVars
<1>12. ASSUME FinishReduce(p) PROVE Others(p) BY <1>12 DEF FinishReduce, flagVars, threadVars
<1>21. ASSUME RaiseEnd(p) PROVE Others(p) BY <1>21 DEF RaiseEnd, appVars, threadVars
<1>13. ASSUME Join(p) PROVE Others(p) BY <1>13 DEF Join, AfterJoin, threadVars
<1>14. ASSUME NEW q \in Procs, NEW c \in Comms, CommReports(p, q, c) PROVE Others(p) BY <1>14 DEF CommReports, appVars, flagVars, threadVars, SaveReports, SaveInserts
<1>15. ASSUME NEW q \in Procs, NEW c \in Comms, CommSend(p, q, c) PROVE Others(p) BY <1>15 DEF CommSend, flagVars, threadVars, SaveReports, SaveInserts
<1>16. ASSUME SendReturn(p) PROVE Others(p) BY <1>16 DEF SendReturn, threadVars
<1>17. ASSUME NEW i \in Touches, LoadStore(p, i) PROVE Others(p) BY <1>17 DEF LoadStore, appVars, flagVars, threadVars, SaveReports, SaveInserts
<1>18. ASSUME NEW k \in Epochs, PostRecv(p, k) PROVE Others(p) BY <1>18 DEF PostRecv, appVars, flagVars, threadVars
<1>19. ASSUME NEW k \in Epochs, NEW m \in net, Receive(p, k, m) PROVE Others(p) BY <1>19 DEF Receive, appVars, flagVars, threadVars, SaveReports, SaveInserts
<1>20. ASSUME NEW k \in Epochs, Exit(p, k) PROVE Others(p) BY <1>20 DEF Exit, appVars, flagVars, threadVars
<1> QED BY <1>1, <1>2, <1>3, <1>4, <1>5, <1>6, <1>7, <1>8, <1>9, <1>10, <1>11, <1>12, <1>13, <1>14, <1>15, <1>16, <1>17, <1>18, <1>19, <1>20, <1>21
  DEF SyncCall, Progress, MemoryCall, CheckThread

\* Beginning an epoch, in the terms of the invariant.
LEMMA InitThreadEffect ==
  ASSUME TypeOK, NEW p \in Procs, InitThread(p)
  PROVE  /\ count_epoch[p] + 1 \in Epochs
         /\ count_epoch'[p] = count_epoch[p] + 1 /\ active_epoch'[p] = 1
         /\ thread_end'[p] = 0
         /\ \A k \in Epochs : thr'[p][k] = IF k = count_epoch[p] + 1 THEN "post" ELSE thr[p][k]
         /\ \A d \in Procs : array'[p][d] = 0
<1> USE DEF TypeOK, TypeState, TypeThreads, InitThread
<1>1. count_epoch[p] + 1 \in Epochs BY BoundsAssumption DEF Epochs
<1>2. count_epoch'[p] = count_epoch[p] + 1 /\ active_epoch'[p] = 1 /\ thread_end'[p] = 0
  OBVIOUS
<1>3. ASSUME NEW k \in Epochs
      PROVE  thr'[p][k] = IF k = count_epoch[p] + 1 THEN "post" ELSE thr[p][k]
  <2>1. thr' = [thr EXCEPT ![p] = [thr[p] EXCEPT ![count_epoch[p] + 1] = "post"]]
    OBVIOUS
  <2>2. thr'[p] = [thr[p] EXCEPT ![count_epoch[p] + 1] = "post"] BY <2>1
  <2> QED BY <2>2, <1>1
<1>4. \A d \in Procs : array'[p][d] = 0 OBVIOUS
<1> QED BY <1>1, <1>2, <1>3, <1>4

\* The report of a race with the origin buffer, in these terms.
LEMMA ReportsEffect ==
  ASSUME TypeOK, Disciplined, NEW p \in Procs, ControlOK(p), ThreadOK(p), NetOK,
         NEW q \in Procs, NEW c \in Comms, CommReports(p, q, c)
  PROVE  Stores(p)
<1> USE DEF SameWhere, SameEpoch, SameThread, SameCount, SameSum, SameSends, SameTree,
            Active, Freeing, Between
<1> USE DEF CommReports
<1>1. pc[p] = "run" /\ Active(p) /\ ~ Freeing(p) BY DEF ControlOK, TypeOK, TypeProgram
<1>2. {a \in accesses' : a.side = "target"} = {a \in accesses : a.side = "target"}
  BY DEF OriginAccess
<1> QED BY <1>1, <1>2 DEF Stores, SaveReports, appVars, flagVars, threadVars

\* A one-sided call.
LEMMA SendsEffect ==
  ASSUME TypeOK, Disciplined, NEW p \in Procs, ControlOK(p), ThreadOK(p), NetOK,
         NEW q \in Procs, NEW c \in Comms, CommSend(p, q, c)
  PROVE  Sends(p, q, c)
<1> USE DEF SameWhere, SameEpoch, SameThread, SameCount, SameSum, SameSends, SameTree,
            Active, Freeing, Between
<1> USE DEF CommSend
<1>1. pc[p] = "run" /\ Active(p) /\ ~ Freeing(p) BY DEF ControlOK, TypeOK, TypeProgram
<1>2. pc'[p] = "send" /\ dest'[p] = q BY DEF TypeOK, TypeHandler
<1>3. \A a \in local_tree'[p] : a \in local_tree[p] \/ (a.dst = p /\ a.epoch = count_epoch[p])
  BY DEF SaveInserts, TypeOK, TypeState, OriginAccess
<1> QED BY <1>1, <1>2, <1>3 DEF Sends, SaveInserts, flagVars, threadVars

\* A load or a store.
LEMMA LoadStoreEffect ==
  ASSUME TypeOK, Disciplined, NEW p \in Procs, ControlOK(p), ThreadOK(p), NetOK,
         NEW i \in Touches, LoadStore(p, i)
  PROVE  Stores(p)
<1> USE DEF SameWhere, SameEpoch, SameThread, SameCount, SameSum, SameSends, SameTree,
            Active, Freeing, Between
<1> QED
  BY DEF LoadStore, appVars, flagVars, threadVars, SaveReports, SaveInserts, MemoryAccess, Stores,
     TypeOK, TypeHandler, TypeState, TypeThreads, TypeHistory, AppPC, Handler, ControlOK, ThreadOK, Live, Epochs

\* A thread receives an interval.
LEMMA ReceivesEffect ==
  ASSUME TypeOK, Disciplined, NEW p \in Procs, ControlOK(p), ThreadOK(p), NetOK,
         NEW k \in Epochs, NEW m \in net, Receive(p, k, m)
  PROVE  Receives(p, k, m)
<1> USE DEF SameWhere, SameEpoch, SameSum, SameSends, Active
<1>1. k = count_epoch[p] /\ Active(p) /\ tag[p][k] = k BY DEF Receive, ThreadOK, Live
<1>2. m.dst = p /\ m.tag = k BY <1>1 DEF Receive, Matches
<1>3. pc[p] # "freed" BY <1>1 DEF ControlOK
<1>4. /\ halted' # "nostate"
      /\ local_tree'[p] \subseteq local_tree[p] \union {LandedAccess(m)}
  BY <1>3 DEF Receive, SaveReports, SaveInserts, TypeOK, TypeState
<1>5. /\ \A j \in Epochs : thr'[p][j] = IF j = k THEN "post" ELSE thr[p][j]
      /\ count'[p] = count[p] + 1 /\ analysed'[p] = analysed[p] \union {<<m.src, m.seq>>}
  BY DEF Receive, TypeOK, TypeState, TypeThreads, TypeHistory, Epochs
<1> QED
  BY <1>1, <1>2, <1>4, <1>5 DEF Receive, envVars, appVars, flagVars, threadVars, Receives

\* Every step is of one of the kinds above, each with what it changes.
LEMMA StepEffect ==
  ASSUME TypeOK, Disciplined, NEW p \in Procs, ControlOK(p), ThreadOK(p), NetOK
  PROVE  /\ SyncCall(p) \/ Progress(p) \/ MemoryCall(p) => Effect(p)
         /\ \A k \in Epochs : CheckThread(p, k) => Effect(p)
<1> USE DEF SameWhere, SameEpoch, SameThread, SameCount, SameSum, SameSends, SameTree,
            Active, Freeing, Between
<1>1. ASSUME LockAll(p) PROVE Opens(p)
  <2> USE <1>1 DEF LockAll
  <2>1. pc[p] = "run" /\ count_fence[p] = 0 /\ open[p] # "lock" BY DEF Follow
  <2>2. ~ Active(p) /\ ~ Freeing(p) BY <2>1 DEF ControlOK
  <2> QED BY <2>1, <2>2, InitThreadEffect DEF Opens, appVars
<1>2. ASSUME UnlockAll(p) PROVE StartsClear(p)
  BY <1>2 DEF UnlockAll, Follow, BeginClear, flagVars, threadVars, StartsClear,
     TypeOK, TypeHandler, TypeState, TypeThreads, TypeHistory, AppPC, Handler, ControlOK, ThreadOK, Live, Epochs
<1>3. ASSUME NEW op \in {"fence", "fence_end"}, FirstFence(p, op) PROVE Opens(p)
  <2> USE <1>3 DEF FirstFence
  <2>1. pc[p] = "run" /\ count_fence[p] = 0 /\ open[p] # "lock" BY DEF Follow
  <2>2. ~ Active(p) /\ ~ Freeing(p) BY <2>1 DEF ControlOK
  <2> QED BY <2>1, <2>2, InitThreadEffect DEF Opens, appVars
<1>4. ASSUME NEW op \in {"fence", "fence_end"}, NextFence(p, op) PROVE StartsClear(p)
  BY <1>4 DEF NextFence, Follow, BeginClear, flagVars, threadVars, StartsClear,
     TypeOK, TypeHandler, TypeState, TypeThreads, TypeHistory, AppPC, Handler, ControlOK, ThreadOK, Live, Epochs
<1>5. ASSUME FenceMid(p) PROVE Opens(p)
  BY <1>5, InitThreadEffect DEF FenceMid, AfterFence, threadVars, Opens,
     TypeOK, TypeHandler, TypeState, TypeProgram, AppPC, ControlOK, ThreadOK, Live, Epochs
<1>6. ASSUME Barrier(p) PROVE StartsClear(p) \/ Moves(p)
  BY <1>6 DEF Barrier, Follow, BeginClear, flagVars, threadVars, StartsClear, Moves,
     TypeOK, TypeHandler, TypeState, TypeThreads, TypeHistory, AppPC, Handler, ControlOK, ThreadOK, Live, Epochs
<1>7. ASSUME Restart(p) PROVE Opens(p) \/ Moves(p)
  <2> USE DEF Restart, TypeOK, TypeHandler, ControlOK
  <2>1. CASE active_epoch[p] = 0 /\ from_sync[p] = 1 /\ InitThread(p)
    BY <1>7, <2>1, InitThreadEffect DEF Opens
  <2>2. CASE UNCHANGED <<flagVars, thr>> BY <1>7, <2>2 DEF flagVars, Moves
  <2> QED BY <1>7, <2>1, <2>2
<1>8. ASSUME BarrierReturn(p) PROVE Moves(p)
  BY <1>8 DEF BarrierReturn, flagVars, threadVars, Moves,
     TypeOK, TypeHandler, TypeState, TypeThreads, TypeHistory, AppPC, Handler, ControlOK, ThreadOK, Live, Epochs
<1>9. ASSUME WinFree(p) PROVE StartsFree(p)
  BY <1>9 DEF WinFree, Follow, flagVars, threadVars, StartsFree,
     TypeOK, TypeHandler, TypeState, TypeThreads, TypeHistory, AppPC, Handler, ControlOK, ThreadOK, Live, Epochs
<1>10. ASSUME ReduceSend(p) PROVE Contributes(p)
  <2>1. root[p] \in Procs \ {p} BY <1>10, NAssumption DEF ReduceSend, TypeOK, TypeHandler, Procs
  <2> QED BY <1>10, <2>1 DEF ReduceSend, Contributes, flagVars, threadVars, TypeOK, TypeHandler
<1>11. ASSUME ReduceRoot(p) PROVE Sums(p)
  BY <1>11 DEF ReduceRoot, flagVars, threadVars, Sums,
     TypeOK, TypeHandler, TypeState, TypeThreads, TypeHistory, AppPC, Handler, ControlOK, ThreadOK, Live, Epochs
<1>12. ASSUME FinishReduce(p) PROVE Finishes(p)
  BY <1>12 DEF FinishReduce, flagVars, threadVars, Finishes,
     TypeOK, TypeHandler, TypeState, TypeThreads, TypeHistory, AppPC, Handler, ControlOK, ThreadOK, Live, Epochs
<1>21. ASSUME RaiseEnd(p) PROVE Raises(p)
  BY <1>21 DEF RaiseEnd, appVars, threadVars, Raises
<1>13. ASSUME Join(p) PROVE Joins(p)
  BY <1>13 DEF Join, AfterJoin, threadVars, Joins,
     TypeOK, TypeHandler, TypeState, TypeThreads, TypeHistory, AppPC, Handler, ControlOK, ThreadOK, Live, Epochs
<1>14. ASSUME NEW q \in Procs, NEW c \in Comms, CommReports(p, q, c) PROVE Stores(p)
  BY <1>14, ReportsEffect
<1>15. ASSUME NEW q \in Procs, NEW c \in Comms, CommSend(p, q, c) PROVE Sends(p, q, c)
  BY <1>15, SendsEffect
<1>16. ASSUME SendReturn(p) PROVE Returns(p)
  <2> USE <1>16 DEF SendReturn, TypeOK, TypeHandler, TypeState
  <2>1. pc'[p] = "run" OBVIOUS
  <2>2. array'[p] = [array[p] EXCEPT ![dest[p]] = array[p][dest[p]] + 1] OBVIOUS
  <2>3. \A d \in Procs : array'[p][d] = array[p][d] + IF d = dest[p] THEN 1 ELSE 0
    BY <2>2
  <2> QED BY <2>1, <2>3 DEF Returns, threadVars
<1>17. ASSUME NEW i \in Touches, LoadStore(p, i) PROVE Stores(p) BY <1>17, LoadStoreEffect
<1>18. ASSUME NEW k \in Epochs, PostRecv(p, k) PROVE Posts(p, k)
  <2> USE <1>18 DEF PostRecv, TypeOK, TypeThreads
  <2>1. k = count_epoch[p] /\ Active(p) /\ pc[p] # "freed" BY DEF ThreadOK, Live, ControlOK
  <2>2. thr'[p] = [thr[p] EXCEPT ![k] = "poll"] /\ tag'[p] = [tag[p] EXCEPT ![k] = k] BY <2>1
  <2>3. UNCHANGED halted BY <2>1
  <2>4. \A j \in Epochs : /\ thr'[p][j] = IF j = k THEN "poll" ELSE thr[p][j]
                         /\ tag'[p][j] = IF j = k THEN k ELSE tag[p][j]
    BY <2>2
  <2> QED BY <2>1, <2>3, <2>4 DEF Posts, appVars, flagVars
<1>19. ASSUME NEW k \in Epochs, NEW m \in net, Receive(p, k, m) PROVE Receives(p, k, m)
  BY <1>19, ReceivesEffect
<1>20. ASSUME NEW k \in Epochs, Exit(p, k) PROVE Exits(p, k)
  BY <1>20 DEF Exit, appVars, flagVars, threadVars, Matches, Exits,
     TypeOK, TypeHandler, TypeState, TypeThreads, TypeHistory, AppPC, Handler, ControlOK, ThreadOK, Live, Epochs
<1> QED BY OthersSame, <1>1, <1>2, <1>3, <1>4, <1>5, <1>6, <1>7, <1>8, <1>9, <1>10, <1>11, <1>12, <1>13, <1>14, <1>15, <1>16, <1>17, <1>18, <1>19, <1>20, <1>21
  DEF SyncCall, Progress, MemoryCall, CheckThread, Effect

\* Only a job that goes on takes a step.
LEMMA GoesOn ==
  ASSUME NEW p \in Procs,
         SyncCall(p) \/ Progress(p) \/ MemoryCall(p) \/ \E k \in Epochs : CheckThread(p, k)
  PROVE  halted = "no"
BY DEF SyncCall, Progress, MemoryCall, CheckThread, LockAll, UnlockAll, FirstFence, NextFence,
   Barrier, WinFree, FenceMid, Restart, BarrierReturn, ReduceSend, ReduceRoot, FinishReduce, RaiseEnd, Join,
   SendReturn, CommReports, CommSend, LoadStore, PostRecv, Receive, Exit, Follow

\* The state of the other processes after a step of p.
LEMMA OtherSame ==
  ASSUME NEW p \in Procs, Effect(p), NEW r \in Procs, r # p
  PROVE  Same(r)
BY DEF Effect, Others

----------------------------------------------------------------------------
(* The epochs, the sums and the messages. *)

\* The numbering of epochs by clears (EpochOK) is kept by every step.
LEMMA EpochStep ==
  ASSUME TypeOK, NEW p \in Procs, Effect(p), NEW r \in Procs,
         \A s \in Procs : ControlOK(s) /\ EpochOK(s)
  PROVE  EpochOK(r)'
<1> USE DEF EpochOK, ControlOK, Active, Freeing, TypeOK, TypeState, TypeHistory, SameWhere, SameEpoch, SameThread, SameCount, SameSum, SameSends, SameTree
<1>1. ASSUME Opens(p) PROVE EpochOK(p)'
  BY <1>1 DEF Opens
<1>2. ASSUME StartsClear(p) PROVE EpochOK(p)'
  BY <1>2 DEF StartsClear
<1>3. ASSUME Moves(p) PROVE EpochOK(p)'
  BY <1>3 DEF Moves
<1>4. ASSUME StartsFree(p) PROVE EpochOK(p)'
  BY <1>4 DEF StartsFree
<1>5. ASSUME Contributes(p) PROVE EpochOK(p)'
  BY <1>5 DEF Contributes
<1>6. ASSUME Sums(p) PROVE EpochOK(p)'
  BY <1>6 DEF Sums
<1>7. ASSUME Finishes(p) PROVE EpochOK(p)'
  BY <1>7 DEF Finishes
<1>8. ASSUME Joins(p) PROVE EpochOK(p)'
  BY <1>8 DEF Joins
<1>9. ASSUME Stores(p) PROVE EpochOK(p)'
  BY <1>9 DEF Stores
<1>10. ASSUME Returns(p) PROVE EpochOK(p)'
  BY <1>10 DEF Returns
<1>15. ASSUME Raises(p) PROVE EpochOK(p)'
  BY <1>15 DEF Raises
<1>11. ASSUME NEW q \in Procs, NEW c \in Comms, Sends(p, q, c) PROVE EpochOK(p)'
  BY <1>11 DEF Sends
<1>12. ASSUME NEW k \in Epochs, Posts(p, k) PROVE EpochOK(p)'
  BY <1>12 DEF Posts
<1>13. ASSUME NEW k \in Epochs, Exits(p, k) PROVE EpochOK(p)'
  BY <1>13 DEF Exits
<1>14. ASSUME NEW k \in Epochs, NEW m \in net, Receives(p, k, m) PROVE EpochOK(p)'
  BY <1>14 DEF Receives
<1>20. CASE r # p BY <1>20, OtherSame DEF Same
<1> QED BY <1>1, <1>2, <1>3, <1>4, <1>5, <1>6, <1>7, <1>8, <1>9, <1>10, <1>11, <1>12, <1>13, <1>14, <1>15, <1>20 DEF Effect

\* Only the thread of the active epoch runs (ThreadOK), after every step.
LEMMA ThreadStep ==
  ASSUME TypeOK, NEW p \in Procs, Effect(p), NEW r \in Procs,
         \A s \in Procs : ControlOK(s) /\ ThreadOK(s)
  PROVE  ThreadOK(r)'
<1> USE DEF ThreadOK, Live, Joinable, Active, SameWhere, SameEpoch, SameThread
<1>0. count_epoch[p] \in Nat BY DEF TypeOK, TypeState
<1>1. CASE r # p
  <2>1. SameWhere(r) /\ SameEpoch(r) /\ SameThread(r) BY <1>1, OtherSame DEF Same
  <2> QED BY <2>1
<1>2. ASSUME SameEpoch(p), SameThread(p), thread_end[p] = 1 /\ pc[p] = "join" => pc'[p] = "join",
             Joinable(p) /\ pc[p] = "join" => pc'[p] = "join"
      PROVE  ThreadOK(p)'
  BY <1>2
<1>3. ASSUME Opens(p) PROVE ThreadOK(p)'
  <2>1. \A k \in Epochs : ~ Live(p, k) BY <1>3 DEF Opens
  <2>2. \A k \in Epochs : Live(p, k)' => k = count_epoch'[p] BY <1>3, <2>1 DEF Opens
  <2>3. thr'[p][count_epoch'[p]] = "post" BY <1>3 DEF Opens
  <2>4. \A k \in Epochs : thr'[p][k] # "poll" BY <1>3, <2>1 DEF Opens
  <2> QED BY <1>3, <2>2, <2>3, <2>4 DEF Opens
<1>4. ASSUME StartsFree(p) PROVE ThreadOK(p)'
  BY <1>4 DEF StartsFree
<1>5. ASSUME Finishes(p) PROVE ThreadOK(p)'
  BY <1>5 DEF Finishes
<1>6. ASSUME Joins(p) PROVE ThreadOK(p)'
  <2>1. \A k \in Epochs : ~ Live(p, k) BY <1>6 DEF Joins
  <2> QED BY <1>6, <2>1 DEF Joins
<1>7. ASSUME NEW k \in Epochs, Posts(p, k) PROVE ThreadOK(p)'
  <2>1. \A j \in Epochs : Live(p, j)' <=> Live(p, j) BY <1>7 DEF Posts
  <2>2. \A j \in Epochs : thr'[p][j] = "poll" => tag'[p][j] = j BY <1>7 DEF Posts
  <2>3. ~ Joinable(p)' BY <1>7 DEF Posts
  <2> QED BY <1>7, <2>1, <2>2, <2>3 DEF Posts
<1>8. ASSUME NEW k \in Epochs, NEW m \in net, Receives(p, k, m) PROVE ThreadOK(p)'
  <2>1. \A j \in Epochs : Live(p, j)' <=> Live(p, j) BY <1>8 DEF Receives
  <2>2. \A j \in Epochs : thr'[p][j] = "poll" => tag'[p][j] = j BY <1>8 DEF Receives
  <2>3. ~ Joinable(p)' BY <1>8 DEF Receives
  <2> QED BY <1>8, <2>1, <2>2, <2>3 DEF Receives
<1>9. ASSUME NEW k \in Epochs, Exits(p, k) PROVE ThreadOK(p)'
  <2>1. \A j \in Epochs : ~ Live(p, j)' BY <1>9 DEF Exits
  <2> QED BY <1>9, <2>1 DEF Exits
<1>10. ASSUME StartsClear(p) \/ Moves(p) \/ Contributes(p) \/ Sums(p) \/ Stores(p) \/ Returns(p)
      PROVE  ThreadOK(p)'
  <2>1. ASSUME StartsClear(p) PROVE ThreadOK(p)' BY <2>1, <1>2 DEF StartsClear
  <2>2. ASSUME Moves(p) PROVE ThreadOK(p)' BY <2>2, <1>2 DEF Moves
  <2>3. ASSUME Contributes(p) PROVE ThreadOK(p)' BY <2>3, <1>2 DEF Contributes
  <2>4. ASSUME Sums(p) PROVE ThreadOK(p)' BY <2>4, <1>2 DEF Sums
  <2>5. ASSUME Stores(p) PROVE ThreadOK(p)' BY <2>5, <1>2 DEF Stores
  <2>6. ASSUME Returns(p) PROVE ThreadOK(p)' BY <2>6, <1>2 DEF Returns
  <2> QED BY <1>10, <2>1, <2>2, <2>3, <2>4, <2>5, <2>6
<1>11. ASSUME NEW q \in Procs, NEW c \in Comms, Sends(p, q, c) PROVE ThreadOK(p)'
  BY <1>11, <1>2 DEF Sends
<1>12. ASSUME Raises(p) PROVE ThreadOK(p)'
  BY <1>12 DEF Raises
<1> QED BY <1>1, <1>3, <1>4, <1>5, <1>6, <1>7, <1>8, <1>9, <1>10, <1>11, <1>12 DEF Effect

\* A process that sends in its epoch is ahead of what the others have closed.
LEMMA ClosedBound ==
  ASSUME TypeOK, NEW d \in Procs, ControlOK(d), EpochOK(d), ~ Freeing(d)
  PROVE  Closed(d) <= clears[d]
BY DEF TypeOK, TypeState, TypeHistory, Closed, ControlOK, EpochOK, Active

\* A sender is in an epoch its target has not closed yet.
LEMMA SendAhead ==
  ASSUME TypeOK, NEW s \in Procs, NEW d \in Procs, EpochOK(s), ControlOK(d), EpochOK(d),
         ReduceOK, ~ Freeing(d), Active(s), pc[s] = "run"
  PROVE  count_epoch[s] = clears[s] + 1 /\ count_epoch[s] > Closed(d)
<1>1. count_epoch[s] = clears[s] + 1 BY DEF EpochOK
<1>2. clears[s] >= clears[d] BY DEF ReduceOK, Gave
<1>3. Closed(d) <= clears[d] BY ClosedBound
<1>4. count_epoch[d] \in Nat /\ active_epoch[d] \in 0 .. 1 BY DEF TypeOK, TypeState
<1>5. clears[s] \in Nat /\ clears[d] \in Nat BY DEF TypeOK, TypeHistory
<1>6. Closed(d) \in Int BY <1>4 DEF Closed
<1> QED BY <1>1, <1>2, <1>3, <1>5, <1>6

\* count stays the number of intervals analysed in the epoch (CountOK).
LEMMA CountStep ==
  ASSUME TypeOK, NEW p \in Procs, Effect(p), NEW r \in Procs,
         \A s \in Procs : ControlOK(s) /\ ThreadOK(s) /\ CountOK(s), NetOK
  PROVE  CountOK(r)'
<1> USE DEF CountOK, Active, Freeing, Joinable, SameWhere, SameEpoch, SameThread, SameCount
<1>0. count_epoch[p] \in Nat /\ IsFiniteSet(analysed[p]) /\ count[p] \in Nat BY DEF TypeOK, TypeState
<1>1. CASE r # p
  <2>1. SameWhere(r) /\ SameEpoch(r) /\ SameThread(r) /\ SameCount(r) BY <1>1, OtherSame DEF Same
  <2> QED BY <2>1
<1>2. ASSUME SameEpoch(p), thr'[p] = thr[p], SameCount(p), call'[p] = call[p] \/ call[p] # "free"
      PROVE  CountOK(p)'
  BY <1>2
<1>3. ASSUME Opens(p) PROVE CountOK(p)'
  <2>1. count'[p] = 0 /\ analysed'[p] = {} BY <1>3 DEF Opens
  <2> QED BY <2>1, <1>3, FS_EmptySet DEF Opens
<1>4. ASSUME StartsClear(p) PROVE CountOK(p)' BY <1>4, <1>2 DEF StartsClear
<1>5. ASSUME Moves(p) PROVE CountOK(p)' BY <1>5, <1>2 DEF Moves
<1>6. ASSUME StartsFree(p) PROVE CountOK(p)' BY <1>6, <1>2 DEF StartsFree
<1>7. ASSUME Contributes(p) PROVE CountOK(p)' BY <1>7, <1>2 DEF Contributes
<1>8. ASSUME Sums(p) PROVE CountOK(p)' BY <1>8, <1>2 DEF Sums
<1>9. ASSUME Finishes(p) PROVE CountOK(p)' BY <1>9, <1>2 DEF Finishes
<1>10. ASSUME Joins(p) PROVE CountOK(p)' BY <1>10, FS_EmptySet DEF Joins
<1>11. ASSUME Stores(p) PROVE CountOK(p)' BY <1>11, <1>2 DEF Stores
<1>12. ASSUME Returns(p) PROVE CountOK(p)' BY <1>12, <1>2 DEF Returns
<1>17. ASSUME Raises(p) PROVE CountOK(p)' BY <1>17, <1>2 DEF Raises
<1>13. ASSUME NEW q \in Procs, NEW c \in Comms, Sends(p, q, c) PROVE CountOK(p)'
  BY <1>13, <1>2 DEF Sends
<1>14. ASSUME NEW k \in Epochs, Posts(p, k) PROVE CountOK(p)'
  <2>1. ~ Joinable(p) BY <1>14 DEF Posts
  <2> QED BY <2>1, <1>14 DEF Posts
<1>15. ASSUME NEW k \in Epochs, NEW m \in net, Receives(p, k, m) PROVE CountOK(p)'
  <2>1. ~ Joinable(p) BY <1>15 DEF Receives
  <2> DEFINE id == <<m.src, m.seq>>
  <2>5. analysed'[p] = analysed[p] \union {id} BY <1>15 DEF Receives
  <2>6. /\ IsFiniteSet(analysed[p] \union {id})
        /\ id \notin analysed[p] => Cardinality(analysed[p] \union {id}) = Cardinality(analysed[p]) + 1
    <3> HIDE DEF id
    <3> QED BY <1>0, FS_AddElement
  <2>2. IsFiniteSet(analysed'[p]) BY <2>5, <2>6
  <2>3. CASE Freeing(p) BY <2>2, <2>3, <1>15 DEF Receives
  <2>4. CASE ~ Freeing(p)
    <3>1. <<m.src, m.seq>> \notin analysed[p] BY <1>15, <2>4 DEF Receives, NetOK
    <3>2. Cardinality(analysed'[p]) = Cardinality(analysed[p]) + 1
      BY <2>5, <2>6, <3>1
    <3> QED BY <2>1, <2>2, <2>4, <3>2, <1>15 DEF Receives
  <2> QED BY <2>3, <2>4
<1>16. ASSUME NEW k \in Epochs, Exits(p, k) PROVE CountOK(p)'
  <2>1. Joinable(p)' BY <1>16, <1>0 DEF Exits, Epochs
  <2> QED BY <2>1, <1>16, <1>0 DEF Exits
<1> QED BY <1>1, <1>3, <1>4, <1>5, <1>6, <1>7, <1>8, <1>9, <1>10, <1>11, <1>12, <1>13, <1>14,
           <1>15, <1>16, <1>17 DEF Effect

----------------------------------------------------------------------------
(* Messages and the accesses they are about. *)

\* The processes the messages and accesses depend on have not moved.
QuietNet ==
  /\ net' = net /\ Targets' = Targets /\ accesses \subseteq accesses'
  /\ \A d \in Procs : SameEpoch(d) /\ analysed'[d] = analysed[d] /\ (Freeing(d) => Freeing(d)')

\* A window being freed stays so.
LEMMA FreeingStays ==
  ASSUME NEW p \in Procs, Effect(p), NEW d \in Procs
  PROVE  Freeing(d) => Freeing(d)'
<1>1. CASE d # p BY <1>1, OtherSame DEF Same, SameWhere, Freeing
<1>2. CASE d = p
  BY <1>2 DEF Effect, Freeing, SameWhere, Opens, StartsClear, Moves, StartsFree, Contributes, Sums,
     Finishes, Joins, Stores, Returns, Raises, Sends, Posts, Exits, Receives
<1> QED BY <1>1, <1>2

\* The steps that neither begin nor end an epoch, nor send or receive.
LEMMA QuietKinds ==
  ASSUME NEW p \in Procs, Effect(p),
         StartsClear(p) \/ Moves(p) \/ StartsFree(p) \/ Contributes(p) \/ Sums(p)
           \/ Finishes(p) \/ Stores(p) \/ Returns(p) \/ Raises(p) \/ \E k \in Epochs : Posts(p, k)
  PROVE  QuietNet
<1>1. \A d \in Procs : Freeing(d) => Freeing(d)' BY FreeingStays
<1>2. \A d \in Procs \ {p} : SameEpoch(d) /\ analysed'[d] = analysed[d]
  BY DEF Effect, Others, Same, SameCount
<1>3. SameEpoch(p) /\ analysed'[p] = analysed[p] /\ net' = net
  BY DEF StartsClear, Moves, StartsFree, Contributes, Sums, Finishes, Stores, Returns, Raises, Posts, SameCount
<1>4. Targets' = Targets /\ accesses \subseteq accesses'
  BY DEF StartsClear, Moves, StartsFree, Contributes, Sums, Finishes, Stores, Returns, Raises, Posts, Targets
<1> QED BY <1>1, <1>2, <1>3, <1>4 DEF QuietNet

\* The fields of the access a message is about.
LEMMA LandedFields ==
  ASSUME NEW m
  PROVE  /\ LandedAccess(m).dst = m.dst /\ LandedAccess(m).src = m.src
         /\ LandedAccess(m).epoch = m.epoch /\ LandedAccess(m).seq = m.seq
         /\ LandedAccess(m).side = "target"
BY DEF LandedAccess

\* A process that is about to send has used the numbers up to its counter.
LEMMA NextNumberFree ==
  ASSUME TypeOK, NEW p \in Procs, NEW q \in Procs, EpochOK(p), ControlOK(q), EpochOK(q), ReduceOK,
         TargetsOK, ~ Freeing(q), Active(p), pc[p] = "run"
  PROVE  /\ Numbers(p, q, count_epoch[p]) = 1 .. array[p][q]
         /\ array[p][q] + 1 \notin Numbers(p, q, count_epoch[p])
<1>1. count_epoch[p] > Closed(q) BY SendAhead
<1>2. SentCount(p, q) = array[p][q] BY DEF SentCount, TypeOK, TypeState
<1>3. Numbers(p, q, count_epoch[p]) = 1 .. array[p][q] BY <1>1, <1>2 DEF TargetsOK
<1>4. array[p][q] \in Nat BY DEF TypeOK, TypeState
<1> QED BY <1>3, <1>4

\* NetOK over steps that send and receive nothing and open or close no epoch.
LEMMA NetQuiet ==
  ASSUME TypeOK, QuietNet, NetOK
  PROVE  NetOK'
<1> USE DEF NetOK, QuietNet, SameEpoch
<1>1. \A m \in net : m.dst \in Procs BY DEF TypeOK, TypeMPI, Message
<1>2. \A d \in Procs : Closed(d)' = Closed(d) /\ (Active(d)' <=> Active(d)) BY DEF Closed, Active
<1>3. \A m : LandedAccess(m)' = LandedAccess(m) BY DEF LandedAccess
<1>4. NoStragglers' BY <1>1, <1>2 DEF NoStragglers, Freeing
<1>5. ASSUME NEW m \in net', ~ Freeing(m.dst)'
      PROVE  /\ LandedAccess(m)' \in accesses'
             /\ (Active(m.dst) /\ m.epoch = count_epoch[m.dst])' => <<m.src, m.seq>> \notin analysed'[m.dst]
  BY <1>1, <1>2, <1>3, <1>5
<1>6. ASSUME NEW m1 \in net', NEW m2 \in net', ~ Freeing(m1.dst)',
             m1.src = m2.src, m1.dst = m2.dst, m1.epoch = m2.epoch, m1.seq = m2.seq
      PROVE  m1 = m2
  BY <1>1, <1>6
<1> QED BY <1>4, <1>5, <1>6

\* NetOK when a process begins an epoch.
LEMMA NetOpens ==
  ASSUME TypeOK, NEW p \in Procs, Effect(p), Opens(p), NetOK, CountOK(p)
  PROVE  NetOK'
<1> USE DEF NetOK
<1>1. \A m \in net : m.dst \in Procs BY DEF TypeOK, TypeMPI, Message
<1>2. \A d \in Procs : Closed(d)' = Closed(d)
  <2>1. ASSUME NEW d \in Procs, d # p PROVE Closed(d)' = Closed(d)
    BY <2>1, OtherSame DEF Same, SameEpoch, Closed
  <2>2. Closed(p)' = Closed(p) BY DEF Opens, Closed, Active, TypeOK, TypeState
  <2> QED BY <2>1, <2>2
<1>3. \A d \in Procs : Freeing(d) => Freeing(d)' BY FreeingStays
<1>4. net' = net /\ accesses' = accesses BY DEF Opens
<1>5. NoStragglers' BY <1>1, <1>2, <1>3, <1>4 DEF NoStragglers, Freeing
<1>6. analysed'[p] = {} BY DEF CountOK, Opens, SameCount
<1>7. ASSUME NEW d \in Procs, d # p
      PROVE  Active(d)' = Active(d) /\ count_epoch'[d] = count_epoch[d] /\ analysed'[d] = analysed[d]
  BY <1>7, OtherSame DEF Same, SameEpoch, SameCount, Active
<1>8. ASSUME NEW m \in net', ~ Freeing(m.dst)'
      PROVE  /\ LandedAccess(m)' \in accesses'
             /\ (Active(m.dst) /\ m.epoch = count_epoch[m.dst])' => <<m.src, m.seq>> \notin analysed'[m.dst]
  <2>1. LandedAccess(m)' \in accesses' BY <1>1, <1>3, <1>4, <1>8 DEF LandedAccess
  <2>2. CASE m.dst = p BY <2>1, <2>2, <1>6
  <2>3. CASE m.dst # p BY <2>1, <2>3, <1>1, <1>3, <1>4, <1>7, <1>8
  <2> QED BY <2>2, <2>3
<1> QED BY <1>1, <1>3, <1>4, <1>5, <1>8

\* No message of the epoch a join closes is in flight.
LEMMA JoinLeavesNothing ==
  ASSUME TypeOK, NEW p \in Procs, Joins(p), ControlOK(p), NetOK, EpochComplete, ~ Freeing(p),
         NEW m \in net, m.dst = p
  PROVE  m.epoch > count_epoch[p]
<1>1. Active(p) BY DEF ControlOK, Joins
<1>2. m.epoch > count_epoch[p] - 1
  BY <1>1 DEF NetOK, NoStragglers, Closed, Active, Freeing
<1>3. m.epoch \in Int /\ count_epoch[p] \in Int BY DEF TypeOK, TypeState, TypeMPI, Message
<1>4. m.epoch # count_epoch[p]
  <2>1. SUFFICES ASSUME m.epoch = count_epoch[p] PROVE FALSE OBVIOUS
  <2>2. LandedAccess(m) \in accesses BY DEF NetOK
  <2>3. <<m.src, m.seq>> \in Expected(p)
    BY <2>1, <2>2, LandedFields DEF Expected, EpochTargets
  <2>4. analysed[p] = Expected(p) BY DEF EpochComplete, EpochEnding, Joins, Freeing
  <2> QED BY <2>1, <2>3, <2>4, <1>1 DEF NetOK
<1> QED BY <1>2, <1>3, <1>4

\* NetOK when a process closes its epoch.
LEMMA NetJoins ==
  ASSUME TypeOK, NEW p \in Procs, Effect(p), Joins(p), ControlOK(p), NetOK, EpochComplete
  PROVE  NetOK'
<1>1. \A m \in net : m.dst \in Procs BY DEF TypeOK, TypeMPI, Message
<1>2. net' = net /\ \A d \in Procs : Freeing(d)' <=> Freeing(d)
  <2>1. ASSUME NEW d \in Procs, d # p PROVE Freeing(d)' <=> Freeing(d)
    BY <2>1, OtherSame DEF Same, SameWhere, Freeing
  <2> QED BY <2>1 DEF Joins, Freeing
<1>3. ASSUME NEW d \in Procs, d # p
      PROVE  /\ Active(d)' = Active(d) /\ count_epoch'[d] = count_epoch[d] /\ analysed'[d] = analysed[d]
             /\ Closed(d)' = Closed(d)
  BY <1>3, OtherSame DEF Same, SameEpoch, SameCount, Active, Closed
<1>4. ~ Active(p)' /\ Closed(p)' = count_epoch[p]
  BY DEF Joins, Active, Closed, TypeOK, TypeState
<1>5. ASSUME NEW m \in net, ~ Freeing(m.dst), m.dst = p PROVE m.epoch > count_epoch[p]
  BY <1>5, JoinLeavesNothing
<1>6. NoStragglers' BY <1>1, <1>2, <1>3, <1>4, <1>5 DEF NetOK, NoStragglers, Freeing
<1>7. ASSUME NEW m \in net, ~ Freeing(m.dst)
      PROVE  /\ LandedAccess(m)' \in accesses'
             /\ (Active(m.dst) /\ m.epoch = count_epoch[m.dst])' => <<m.src, m.seq>> \notin analysed'[m.dst]
  <2>1. LandedAccess(m) \in accesses' BY <1>5, <1>7, LandedFields DEF Joins, NetOK
  <2>2. LandedAccess(m)' = LandedAccess(m) BY DEF LandedAccess
  <2>3. CASE m.dst = p BY <2>1, <2>2, <2>3, <1>4
  <2>4. CASE m.dst # p BY <2>1, <2>2, <2>4, <1>1, <1>3, <1>7 DEF NetOK
  <2> QED BY <2>3, <2>4
<1> QED BY <1>1, <1>2, <1>6, <1>7 DEF NetOK

\* NetOK when a process sends an interval.
LEMMA NetSends ==
  ASSUME TypeOK, NEW p \in Procs, NEW q \in Procs, NEW c \in Comms, Effect(p), Sends(p, q, c),
         \A s \in Procs : ControlOK(s) /\ EpochOK(s), NetOK, TargetsOK, ReduceOK
  PROVE  NetOK'
<1> DEFINE m0 == SentMessage(p, q, c)
<1>1. \A m \in net : m.dst \in Procs BY DEF TypeOK, TypeMPI, Message
<1>2. /\ m0.tag = count_epoch[p] /\ m0.epoch = count_epoch[p] /\ m0.dst = q /\ m0.src = p
      /\ m0.seq = array[p][q] + 1
  BY DEF SentMessage
<1>3. net' = net \union {m0} /\ LandedAccess(m0) \in accesses' /\ accesses \subseteq accesses'
  BY DEF Sends
<1> HIDE DEF m0
<1>4. ASSUME NEW d \in Procs
      PROVE  /\ Closed(d)' = Closed(d) /\ (Active(d)' <=> Active(d)) /\ (Freeing(d)' <=> Freeing(d))
             /\ count_epoch'[d] = count_epoch[d] /\ analysed'[d] = analysed[d]
  <2>1. CASE d # p
    BY <2>1, OtherSame DEF Same, SameEpoch, SameCount, SameWhere, Closed, Active, Freeing
  <2>2. CASE d = p BY <2>2 DEF Sends, SameEpoch, SameCount, Closed, Active, Freeing
  <2> QED BY <2>1, <2>2
<1>5. \A m : LandedAccess(m)' = LandedAccess(m) BY DEF LandedAccess
<1>6. ASSUME ~ Freeing(q)
      PROVE  count_epoch[p] > Closed(q) /\ array[p][q] + 1 \notin Numbers(p, q, count_epoch[p])
  BY <1>6, SendAhead, NextNumberFree DEF Sends
<1>7. ASSUME ~ Freeing(q), Active(q), count_epoch[p] = count_epoch[q]
      PROVE  <<p, array[p][q] + 1>> \notin analysed[q]
  <2>1. SUFFICES ASSUME <<p, array[p][q] + 1>> \in Expected(q) PROVE FALSE
    BY <1>7 DEF TargetsOK
  <2>2. array[p][q] + 1 \in Numbers(p, q, count_epoch[p])
    BY <2>1, <1>7 DEF Expected, EpochTargets, Numbers, Targets
  <2> QED BY <2>2, <1>6, <1>7
<1>8. ASSUME NEW m \in net, ~ Freeing(q), m.src = p, m.dst = q, m.epoch = count_epoch[p]
      PROVE  m.seq # array[p][q] + 1
  <2>1. LandedAccess(m) \in accesses BY <1>8 DEF NetOK
  <2>2. m.seq \in Numbers(p, q, count_epoch[p])
    BY <2>1, <1>8, LandedFields DEF Numbers, Targets
  <2> QED BY <2>2, <1>6, <1>8
<1>9. NoStragglers' BY <1>1, <1>2, <1>3, <1>4, <1>6 DEF NoStragglers, Freeing, NetOK
<1>10. \A m \in net' : m.tag = m.epoch BY <1>2, <1>3 DEF NetOK
<1>11. ASSUME NEW m \in net', ~ Freeing(m.dst)'
       PROVE  /\ LandedAccess(m)' \in accesses'
              /\ (Active(m.dst) /\ m.epoch = count_epoch[m.dst])' => <<m.src, m.seq>> \notin analysed'[m.dst]
  <2>1. CASE m = m0 BY <2>1, <1>2, <1>3, <1>4, <1>5, <1>7, <1>11
  <2>2. CASE m \in net BY <2>2, <1>1, <1>3, <1>4, <1>5, <1>11 DEF NetOK
  <2> QED BY <2>1, <2>2, <1>3
<1>12. ASSUME NEW m1 \in net', NEW m2 \in net', ~ Freeing(m1.dst)',
              m1.src = m2.src, m1.dst = m2.dst, m1.epoch = m2.epoch, m1.seq = m2.seq
       PROVE  m1 = m2
  <2>1. CASE m1 \in net /\ m2 \in net BY <2>1, <1>1, <1>4, <1>12 DEF NetOK
  <2>2. CASE m1 = m0 /\ m2 \in net BY <2>2, <1>2, <1>4, <1>8, <1>12
  <2>3. CASE m2 = m0 /\ m1 \in net BY <2>3, <1>2, <1>4, <1>8, <1>12
  <2> QED BY <2>1, <2>2, <2>3, <1>3
<1> QED BY <1>9, <1>10, <1>11, <1>12 DEF NetOK

\* NetOK when a checking thread receives an interval.
LEMMA NetReceives ==
  ASSUME TypeOK, NEW p \in Procs, NEW k \in Epochs, NEW m \in net, Effect(p), Receives(p, k, m), NetOK
  PROVE  NetOK'
<1>1. \A x \in net : x.dst \in Procs BY DEF TypeOK, TypeMPI, Message
<1>2. ASSUME NEW d \in Procs
      PROVE  /\ Closed(d)' = Closed(d) /\ (Active(d)' <=> Active(d)) /\ (Freeing(d)' <=> Freeing(d))
             /\ count_epoch'[d] = count_epoch[d] /\ (d # p => analysed'[d] = analysed[d])
  <2>1. CASE d # p
    BY <2>1, OtherSame DEF Same, SameEpoch, SameCount, SameWhere, Closed, Active, Freeing
  <2>2. CASE d = p BY <2>2 DEF Receives, SameEpoch, SameWhere, Closed, Active, Freeing
  <2> QED BY <2>1, <2>2
<1>3. net' = net \ {m} /\ accesses' = accesses BY DEF Receives
<1>4. NoStragglers' BY <1>1, <1>2, <1>3 DEF NetOK, NoStragglers, Freeing
<1>5. ASSUME NEW x \in net', ~ Freeing(x.dst)'
      PROVE  /\ LandedAccess(x)' \in accesses'
             /\ (Active(x.dst) /\ x.epoch = count_epoch[x.dst])' => <<x.src, x.seq>> \notin analysed'[x.dst]
  <2>1. x \in net /\ x # m /\ x.dst \in Procs /\ ~ Freeing(x.dst) BY <1>1, <1>2, <1>3, <1>5
  <2>2. LandedAccess(x)' \in accesses' BY <2>1, <1>3 DEF NetOK, LandedAccess
  <2>3. ASSUME Active(x.dst), x.epoch = count_epoch[x.dst] PROVE <<x.src, x.seq>> \notin analysed'[x.dst]
    <3>1. <<x.src, x.seq>> \notin analysed[x.dst] BY <2>1, <2>3 DEF NetOK
    <3>2. CASE x.dst # p BY <3>1, <3>2, <2>1, <1>2
    <3>3. CASE x.dst = p
      <4>1. m.dst = p /\ m.epoch = x.epoch BY <3>3, <2>3 DEF Receives, NetOK
      <4>2. <<x.src, x.seq>> # <<m.src, m.seq>> BY <4>1, <3>3, <2>1 DEF NetOK
      <4>3. analysed'[p] = analysed[p] \union {<<m.src, m.seq>>} BY DEF Receives
      <4> QED BY <3>1, <3>3, <4>2, <4>3
    <3> QED BY <3>2, <3>3
  <2> QED BY <2>1, <2>2, <2>3, <1>2
<1> QED BY <1>1, <1>2, <1>3, <1>4, <1>5 DEF NetOK

\* The thread exits when every interval of the epoch has been analysed ...
LEMMA ExpectedFinite ==
  ASSUME TypeOK, NEW p \in Procs
  PROVE  IsFiniteSet(Expected(p)) /\ Cardinality(Expected(p)) \in Nat
<1>1. IsFiniteSet(EpochTargets(p)) BY FS_Subset DEF EpochTargets, TypeOK, TypeHistory
<1>2. IsFiniteSet(Expected(p))
  <2> DEFINE T == EpochTargets(p)
             f == [a \in T |-> <<a.src, a.seq>>]
  <2>1. IsFiniteSet({f[a] : a \in T})
    <3>1. f = [a \in T |-> f[a]] OBVIOUS
    <3>2. IsFiniteSet(T) BY <1>1
    <3> HIDE DEF f, T
    <3> QED BY <3>1, <3>2, ImageFinite
  <2>2. Expected(p) = {f[a] : a \in T} BY DEF Expected
  <2> QED BY <2>1, <2>2
<1> QED BY <1>2, FS_CardinalityType

\* ... so that all of them are analysed then.
LEMMA ExitComplete ==
  ASSUME TypeOK, NEW p \in Procs, NEW k \in Epochs, Exits(p, k), CountOK(p), ValueOK(p), TargetsOK,
         ~ Freeing(p)
  PROVE  analysed[p] = Expected(p)
<1>1. value[p] = Cardinality(Expected(p)) BY DEF ValueOK, Exits
<1>2. count[p] = Cardinality(analysed[p]) BY DEF CountOK, Exits, Joinable
<1>3. analysed[p] \subseteq Expected(p) BY DEF TargetsOK
<1>4. Cardinality(analysed[p]) = Cardinality(Expected(p)) BY <1>1, <1>2 DEF Exits
<1> QED BY <1>3, <1>4, ExpectedFinite, FS_Subset

\* ... and so loses no message with the receive it cancels.
LEMMA ExitLosesNothing ==
  ASSUME TypeOK, NEW p \in Procs, NEW k \in Epochs, Exits(p, k), CountOK(p), ValueOK(p), TargetsOK,
         NetOK, ~ Freeing(p)
  PROVE  net' = net
<1>1. SUFFICES ASSUME NEW m \in net \ net' PROVE FALSE BY DEF Exits
<1>2. m.dst = p /\ m.epoch = count_epoch[p] /\ Active(p) BY DEF Exits, NetOK
<1>3. LandedAccess(m) \in accesses /\ <<m.src, m.seq>> \notin analysed[p] BY <1>2 DEF NetOK
<1>4. <<m.src, m.seq>> \in Expected(p)
  BY <1>2, <1>3, LandedFields DEF Expected, EpochTargets
<1> QED BY <1>3, <1>4, ExitComplete

\* NetOK when a checking thread exits.
LEMMA NetExits ==
  ASSUME TypeOK, NEW p \in Procs, NEW k \in Epochs, Effect(p), Exits(p, k), NetOK
  PROVE  NetOK'
<1>1. \A x \in net : x.dst \in Procs BY DEF TypeOK, TypeMPI, Message
<1>2. ASSUME NEW d \in Procs
      PROVE  /\ Closed(d)' = Closed(d) /\ (Active(d)' <=> Active(d)) /\ (Freeing(d)' <=> Freeing(d))
             /\ count_epoch'[d] = count_epoch[d] /\ analysed'[d] = analysed[d]
  <2>1. CASE d # p
    BY <2>1, OtherSame DEF Same, SameEpoch, SameCount, SameWhere, Closed, Active, Freeing
  <2>2. CASE d = p BY <2>2 DEF Exits, SameEpoch, SameWhere, Closed, Active, Freeing
  <2> QED BY <2>1, <2>2
<1>3. net' \subseteq net /\ accesses' = accesses BY DEF Exits
<1>4. NoStragglers' BY <1>1, <1>2, <1>3 DEF NetOK, NoStragglers, Freeing
<1> QED BY <1>1, <1>2, <1>3, <1>4 DEF NetOK, LandedAccess

\* NetOK is kept by every step.
LEMMA NetStep ==
  ASSUME TypeOK, NEW p \in Procs, Effect(p), NetOK, TargetsOK, ReduceOK, EpochComplete,
         \A s \in Procs : ControlOK(s) /\ EpochOK(s) /\ CountOK(s)
  PROVE  NetOK'
BY NetQuiet, QuietKinds, NetOpens, NetJoins, NetSends, NetReceives, NetExits DEF Effect

----------------------------------------------------------------------------
(* The accesses to a process, in flight or analysed, and their numbers. *)

\* The numbers of one-sided calls do not move in a quiet step.
LEMMA SentQuiet ==
  ASSUME TypeOK, NEW p \in Procs, Effect(p), NEW s \in Procs, NEW d \in Procs,
         StartsClear(p) \/ Moves(p) \/ StartsFree(p) \/ Contributes(p) \/ Sums(p)
           \/ Finishes(p) \/ Stores(p) \/ Returns(p) \/ Raises(p) \/ \E k \in Epochs : Posts(p, k)
  PROVE  SentCount(s, d)' = SentCount(s, d)
<1>0. array[s][d] \in Nat BY DEF TypeOK, TypeState
<1>1. CASE s # p BY <1>1, OtherSame DEF Same, SameWhere, SameSends, SentCount
<1>2. CASE s = p /\ Returns(p) BY <1>0, <1>2 DEF Returns, SentCount
<1>3. CASE s = p /\ ~ Returns(p)
  <2>1. SameSends(p) /\ (pc'[p] = "send" <=> pc[p] = "send")
    BY <1>3 DEF StartsClear, Moves, StartsFree, Contributes, Sums, Finishes, Stores, Raises, Posts, SameWhere
  <2> QED BY <2>1, <1>3 DEF SameSends, SentCount
<1> QED BY <1>1, <1>2, <1>3

\* What a remote access is made of.
LEMMA TargetFields ==
  ASSUME TypeOK, NEW a \in Targets
  PROVE  a.dst \in Procs /\ a.src \in Procs /\ a.epoch \in Nat
BY BoundsAssumption DEF Targets, TypeOK, TypeHistory, Access

\* TargetsOK over steps that make no access and open or close no epoch.
LEMMA TargetsQuiet ==
  ASSUME TypeOK, QuietNet, TargetsOK, \A s, d \in Procs : SentCount(s, d)' = SentCount(s, d)
  PROVE  TargetsOK'
<1>1. \A d \in Procs : /\ Closed(d)' = Closed(d) /\ (Active(d)' <=> Active(d))
                       /\ count_epoch'[d] = count_epoch[d] /\ analysed'[d] = analysed[d]
                       /\ (Freeing(d) => Freeing(d)')
  BY DEF QuietNet, SameEpoch, Closed, Active
<1>2. Targets' = Targets /\ net' = net BY DEF QuietNet
<1>3. \A s, d, e : Numbers(s, d, e)' = Numbers(s, d, e) BY <1>2 DEF Numbers
<1>4. \A d \in Procs : Expected(d)' = Expected(d) BY <1>1, <1>2 DEF Expected, EpochTargets, Targets
<1>5. \A a \in Targets' : a.epoch <= count_epoch'[a.src] BY <1>1, <1>2, TargetFields DEF TargetsOK
<1>6. ASSUME NEW a \in Targets', ~ Freeing(a.dst)'
      PROVE  /\ a.epoch > Closed(a.dst)'
             /\ \/ \E m \in net' : m.dst = a.dst /\ m.src = a.src /\ m.epoch = a.epoch /\ m.seq = a.seq
                \/ /\ Active(a.dst)' /\ a.epoch = count_epoch'[a.dst]
                   /\ <<a.src, a.seq>> \in analysed'[a.dst]
  BY <1>1, <1>2, <1>6, TargetFields DEF TargetsOK
<1>7. ASSUME NEW s \in Procs, NEW d \in Procs, Active(s)', ~ Freeing(d)', count_epoch'[s] > Closed(d)'
      PROVE  Numbers(s, d, count_epoch[s])' = 1 .. SentCount(s, d)'
  BY <1>1, <1>3, <1>7 DEF TargetsOK
<1>8. \A d \in Procs : ~ Freeing(d)' => analysed'[d] \subseteq Expected(d)'
  BY <1>1, <1>4 DEF TargetsOK
<1> QED BY <1>5, <1>6, <1>7, <1>8 DEF TargetsOK

\* TargetsOK when a process begins an epoch.
LEMMA TargetsOpens ==
  ASSUME TypeOK, NEW p \in Procs, Effect(p), Opens(p), TargetsOK, CountOK(p)
  PROVE  TargetsOK'
<1>1. ASSUME NEW d \in Procs
      PROVE  Closed(d)' = Closed(d) /\ (Freeing(d)' <=> Freeing(d))
  <2>1. CASE d # p BY <2>1, OtherSame DEF Same, SameEpoch, SameWhere, Closed, Freeing
  <2>2. CASE d = p
    <3>1. active_epoch[p] = 0 /\ count_epoch[p] \in Nat BY DEF Opens, Active, TypeOK, TypeState
    <3>2. Closed(p)' = Closed(p) BY <3>1 DEF Opens, Closed
    <3> QED BY <2>2, <3>2 DEF Opens, Freeing
  <2> QED BY <2>1, <2>2
<1>2. ASSUME NEW d \in Procs, d # p
      PROVE  /\ (Active(d)' <=> Active(d)) /\ count_epoch'[d] = count_epoch[d]
             /\ analysed'[d] = analysed[d] /\ \A q \in Procs : SentCount(d, q)' = SentCount(d, q)
  BY <1>2, OtherSame DEF Same, SameEpoch, SameWhere, SameCount, SameSends, Active, SentCount
<1>3. /\ ~ Active(p) /\ count_epoch'[p] = count_epoch[p] + 1 /\ analysed'[p] = {}
      /\ \A q \in Procs : SentCount(p, q)' = 0
  BY DEF Opens, CountOK, SameCount, SentCount
<1>4. Targets' = Targets /\ net' = net BY DEF Opens, Targets
<1>5. \A s, d, e : Numbers(s, d, e)' = Numbers(s, d, e) BY <1>4 DEF Numbers
<1>6. count_epoch[p] \in Nat BY DEF TypeOK, TypeState
<1>7. \A a \in Targets' : a.epoch <= count_epoch'[a.src]
  <2>1. ASSUME NEW a \in Targets PROVE a.epoch <= count_epoch'[a.src]
    <3>1. a.epoch <= count_epoch[a.src] /\ a.src \in Procs /\ a.epoch \in Nat
      BY TargetFields DEF TargetsOK
    <3> QED BY <3>1, <1>2, <1>3, <1>6
  <2> QED BY <2>1, <1>4
<1>8. ASSUME NEW a \in Targets', ~ Freeing(a.dst)'
      PROVE  /\ a.epoch > Closed(a.dst)'
             /\ \/ \E m \in net' : m.dst = a.dst /\ m.src = a.src /\ m.epoch = a.epoch /\ m.seq = a.seq
                \/ /\ Active(a.dst)' /\ a.epoch = count_epoch'[a.dst]
                   /\ <<a.src, a.seq>> \in analysed'[a.dst]
  BY <1>1, <1>2, <1>3, <1>4, <1>8, TargetFields DEF TargetsOK
<1>9. ASSUME NEW s \in Procs, NEW d \in Procs, Active(s)', ~ Freeing(d)', count_epoch'[s] > Closed(d)'
      PROVE  Numbers(s, d, count_epoch[s])' = 1 .. SentCount(s, d)'
  <2>1. CASE s # p BY <2>1, <1>1, <1>2, <1>5, <1>9 DEF TargetsOK
  <2>2. CASE s = p
    <3>1. \A a \in Targets : a.src = p => a.epoch # count_epoch[p] + 1
      BY <1>6, TargetFields DEF TargetsOK
    <3>2. Numbers(p, d, count_epoch[p] + 1) = {} BY <3>1 DEF Numbers
    <3>3. Numbers(p, d, count_epoch[p])' = {} BY <3>2, <1>3, <1>5
    <3>4. SentCount(p, d)' = 0 BY <1>3
    <3>5. 1 .. 0 = {} OBVIOUS
    <3> QED BY <2>2, <3>3, <3>4, <3>5
  <2> QED BY <2>1, <2>2
<1>10. ASSUME NEW d \in Procs, ~ Freeing(d)' PROVE analysed'[d] \subseteq Expected(d)'
  <2>1. CASE d = p BY <2>1, <1>3
  <2>2. CASE d # p
    <3>1. Expected(d)' = Expected(d) BY <2>2, <1>2, <1>4 DEF Expected, EpochTargets, Targets
    <3> QED BY <3>1, <2>2, <1>1, <1>2, <1>10 DEF TargetsOK
  <2> QED BY <2>1, <2>2
<1> QED BY <1>7, <1>8, <1>9, <1>10 DEF TargetsOK

\* TargetsOK when a process closes its epoch.
LEMMA TargetsJoins ==
  ASSUME TypeOK, NEW p \in Procs, Effect(p), Joins(p), TargetsOK, ControlOK(p)
  PROVE  TargetsOK'
<1>1. ASSUME NEW d \in Procs, d # p
      PROVE  /\ Closed(d)' = Closed(d) /\ (Freeing(d)' <=> Freeing(d)) /\ (Active(d)' <=> Active(d))
             /\ count_epoch'[d] = count_epoch[d] /\ analysed'[d] = analysed[d]
             /\ \A q \in Procs : SentCount(d, q)' = SentCount(d, q)
  BY <1>1, OtherSame DEF Same, SameEpoch, SameWhere, SameCount, SameSends, Active, SentCount, Closed, Freeing
<1>2. /\ Closed(p)' = count_epoch[p] /\ Closed(p) = count_epoch[p] - 1
      /\ (Freeing(p)' <=> Freeing(p)) /\ ~ Active(p)' /\ count_epoch'[p] = count_epoch[p]
      /\ analysed'[p] = {} /\ count_epoch[p] \in Nat
  BY DEF Joins, ControlOK, Active, Closed, Freeing, TypeOK, TypeState
<1>3. Targets' = {a \in Targets : a.dst = p => a.epoch > count_epoch[p]} /\ net' = net
  BY DEF Joins, Targets
<1>4. \A a \in Targets' : a.epoch <= count_epoch'[a.src] BY <1>1, <1>2, <1>3, TargetFields DEF TargetsOK
<1>5. ASSUME NEW a \in Targets', ~ Freeing(a.dst)'
      PROVE  /\ a.epoch > Closed(a.dst)'
             /\ \/ \E m \in net' : m.dst = a.dst /\ m.src = a.src /\ m.epoch = a.epoch /\ m.seq = a.seq
                \/ /\ Active(a.dst)' /\ a.epoch = count_epoch'[a.dst]
                   /\ <<a.src, a.seq>> \in analysed'[a.dst]
  <2>1. a \in Targets /\ a.dst \in Procs /\ a.epoch \in Nat /\ ~ Freeing(a.dst)
    BY <1>1, <1>2, <1>3, <1>5, TargetFields
  <2>2. CASE a.dst # p BY <2>1, <2>2, <1>1, <1>3 DEF TargetsOK
  <2>3. CASE a.dst = p
    <3>1. a.epoch > count_epoch[p] BY <2>3, <1>3, <1>5
    <3>2. a.epoch # count_epoch[p] BY <3>1, <2>1, <1>2
    <3>3. \E m \in net : m.dst = a.dst /\ m.src = a.src /\ m.epoch = a.epoch /\ m.seq = a.seq
      BY <2>1, <2>3, <3>2 DEF TargetsOK
    <3> QED BY <2>3, <3>1, <3>3, <1>2, <1>3
  <2> QED BY <2>2, <2>3
<1>6. ASSUME NEW s \in Procs, NEW d \in Procs, Active(s)', ~ Freeing(d)', count_epoch'[s] > Closed(d)'
      PROVE  Numbers(s, d, count_epoch[s])' = 1 .. SentCount(s, d)'
  <2>1. s # p /\ Active(s) /\ count_epoch'[s] = count_epoch[s] /\ SentCount(s, d)' = SentCount(s, d)
    BY <1>1, <1>2, <1>6
  <2>2. count_epoch[s] \in Nat BY DEF TypeOK, TypeState
  <2>3. CASE d # p
    <3>1. Numbers(s, d, count_epoch[s])' = Numbers(s, d, count_epoch[s])
      BY <2>1, <2>3, <1>3 DEF Numbers
    <3> QED BY <2>1, <2>3, <3>1, <1>1, <1>6 DEF TargetsOK
  <2>4. CASE d = p
    <3>1. count_epoch[s] > count_epoch[p] BY <2>1, <2>4, <1>2, <1>6
    <3>2. Numbers(s, d, count_epoch[s])' = Numbers(s, d, count_epoch[s])
      BY <2>1, <2>4, <3>1, <1>3 DEF Numbers
    <3>3. count_epoch[s] > Closed(p) /\ ~ Freeing(p) BY <3>1, <2>2, <2>4, <1>2, <1>6
    <3> QED BY <2>1, <2>4, <3>2, <3>3 DEF TargetsOK
  <2> QED BY <2>3, <2>4
<1>7. ASSUME NEW d \in Procs, ~ Freeing(d)' PROVE analysed'[d] \subseteq Expected(d)'
  <2>1. CASE d = p BY <2>1, <1>2
  <2>2. CASE d # p
    <3>1. Expected(d)' = Expected(d) BY <2>2, <1>1, <1>3 DEF Expected, EpochTargets, Targets
    <3> QED BY <3>1, <2>2, <1>1, <1>7 DEF TargetsOK
  <2> QED BY <2>1, <2>2
<1> QED BY <1>4, <1>5, <1>6, <1>7 DEF TargetsOK

\* TargetsOK when a process makes a one-sided access.
LEMMA TargetsSends ==
  ASSUME TypeOK, NEW p \in Procs, NEW q \in Procs, NEW c \in Comms, Effect(p), Sends(p, q, c),
         \A s \in Procs : ControlOK(s) /\ EpochOK(s), TargetsOK, ReduceOK
  PROVE  TargetsOK'
<1> DEFINE m0 == SentMessage(p, q, c)
           t0 == LandedAccess(m0)
<1>1. /\ m0.epoch = count_epoch[p] /\ m0.dst = q /\ m0.src = p /\ m0.seq = array[p][q] + 1
      /\ t0.epoch = count_epoch[p] /\ t0.dst = q /\ t0.src = p /\ t0.seq = array[p][q] + 1
  BY DEF SentMessage, LandedAccess
<1>2. net' = net \union {m0} /\ Targets' = Targets \union {t0}
  <2>1. OriginAccess(p, q, c).side = "origin" /\ t0.side = "target" BY DEF OriginAccess, LandedAccess
  <2>2. accesses' = accesses \union {OriginAccess(p, q, c), t0} BY DEF Sends
  <2> HIDE DEF t0
  <2> QED BY <2>1, <2>2 DEF Sends, Targets
<1> HIDE DEF m0, t0
<1>3. ASSUME NEW d \in Procs
      PROVE  /\ Closed(d)' = Closed(d) /\ (Active(d)' <=> Active(d)) /\ (Freeing(d)' <=> Freeing(d))
             /\ count_epoch'[d] = count_epoch[d] /\ analysed'[d] = analysed[d]
             /\ count_epoch[d] \in Nat
  <2>1. CASE d # p
    BY <2>1, OtherSame DEF Same, SameEpoch, SameCount, SameWhere, Closed, Active, Freeing, TypeOK, TypeState
  <2>2. CASE d = p BY <2>2 DEF Sends, SameEpoch, SameCount, Closed, Active, Freeing, TypeOK, TypeState
  <2> QED BY <2>1, <2>2
<1>4. Active(p) /\ pc[p] = "run" /\ pc'[p] = "send" /\ dest'[p] = q BY DEF Sends
<1>5. ~ Freeing(q) => count_epoch[p] > Closed(q) /\ Numbers(p, q, count_epoch[p]) = 1 .. array[p][q]
  BY <1>4, SendAhead, NextNumberFree
<1>6. \A a \in Targets' : a.epoch <= count_epoch'[a.src]
  BY <1>1, <1>2, <1>3, TargetFields DEF TargetsOK
<1>7. ASSUME NEW a \in Targets', ~ Freeing(a.dst)'
      PROVE  /\ a.epoch > Closed(a.dst)'
             /\ \/ \E m \in net' : m.dst = a.dst /\ m.src = a.src /\ m.epoch = a.epoch /\ m.seq = a.seq
                \/ /\ Active(a.dst)' /\ a.epoch = count_epoch'[a.dst]
                   /\ <<a.src, a.seq>> \in analysed'[a.dst]
  <2>1. CASE a = t0 BY <2>1, <1>1, <1>2, <1>3, <1>5, <1>7
  <2>2. CASE a \in Targets
    <3>1. a.dst \in Procs BY <2>2, TargetFields
    <3> QED BY <2>2, <3>1, <1>2, <1>3, <1>7 DEF TargetsOK
  <2> QED BY <2>1, <2>2, <1>2
<1>8. ASSUME NEW s \in Procs, NEW d \in Procs, Active(s)', ~ Freeing(d)', count_epoch'[s] > Closed(d)'
      PROVE  Numbers(s, d, count_epoch[s])' = 1 .. SentCount(s, d)'
  <2>1. Active(s) /\ ~ Freeing(d) /\ count_epoch[s] > Closed(d) /\ count_epoch'[s] = count_epoch[s]
    BY <1>3, <1>8
  <2>2. Numbers(s, d, count_epoch[s]) = 1 .. SentCount(s, d) BY <2>1 DEF TargetsOK
  <2>3. CASE s = p /\ d = q
    <3>1. Numbers(p, q, count_epoch[p])' = Numbers(p, q, count_epoch[p]) \union {array[p][q] + 1}
      BY <1>1, <1>2, <1>3 DEF Numbers
    <3>2. array[p][q] \in Nat /\ SentCount(p, q)' = array[p][q] + 1
      BY <1>4 DEF Sends, SentCount, TypeOK, TypeState
    <3>3. (1 .. array[p][q]) \union {array[p][q] + 1} = 1 .. (array[p][q] + 1) BY <3>2
    <3>4. Numbers(p, q, count_epoch[p]) = 1 .. array[p][q] BY <2>1, <2>3, <1>5
    <3> QED BY <2>3, <3>1, <3>2, <3>3, <3>4
  <2>4. CASE ~ (s = p /\ d = q)
    <3>1. Numbers(s, d, count_epoch[s])' = Numbers(s, d, count_epoch[s])
      BY <2>1, <2>4, <1>1, <1>2 DEF Numbers
    <3>2. SentCount(s, d)' = SentCount(s, d)
      <4>1. CASE s # p BY <4>1, OtherSame DEF Same, SameSends, SameWhere, SentCount
      <4>2. CASE s = p
        <5>1. d # q /\ array'[p] = array[p] BY <2>4, <4>2 DEF Sends
        <5> QED BY <4>2, <5>1, <1>4 DEF SentCount
      <4> QED BY <4>1, <4>2
    <3> QED BY <2>2, <3>1, <3>2
  <2> QED BY <2>3, <2>4
<1>9. ASSUME NEW d \in Procs, ~ Freeing(d)' PROVE analysed'[d] \subseteq Expected(d)'
  <2>1. Targets \subseteq Targets' BY <1>2
  <2>2. Expected(d) \subseteq Expected(d)'
    BY <2>1, <1>3 DEF Expected, EpochTargets, Targets
  <2> QED BY <2>2, <1>3, <1>9 DEF TargetsOK
<1> QED BY <1>6, <1>7, <1>8, <1>9 DEF TargetsOK

\* A step of the checking thread leaves the accesses and their numbers alone.
LEMMA ThreadQuiet ==
  ASSUME NEW p \in Procs, Effect(p), NEW k \in Epochs, Exits(p, k) \/ \E m \in net : Receives(p, k, m),
         NEW d \in Procs
  PROVE  /\ Closed(d)' = Closed(d) /\ (Active(d)' <=> Active(d)) /\ (Freeing(d)' <=> Freeing(d))
         /\ count_epoch'[d] = count_epoch[d] /\ Expected(d)' = Expected(d)
         /\ \A q \in Procs : SentCount(d, q)' = SentCount(d, q)
         /\ \A q, e : Numbers(d, q, e)' = Numbers(d, q, e)
<1>1. accesses' = accesses BY DEF Exits, Receives
<1>2. SameEpoch(d) /\ SameSends(d) /\ SameWhere(d)
  BY OtherSame DEF Same, Exits, Receives
<1> QED BY <1>1, <1>2 DEF SameEpoch, SameSends, SameWhere, Closed, Active, Freeing, SentCount,
           Numbers, Targets, Expected, EpochTargets

\* TargetsOK when a checking thread analyses an interval.
LEMMA TargetsReceives ==
  ASSUME TypeOK, NEW p \in Procs, NEW k \in Epochs, NEW m \in net, Effect(p), Receives(p, k, m),
         NetOK, TargetsOK
  PROVE  TargetsOK'
<1>1. \A a \in Targets : a.dst \in Procs /\ a.src \in Procs BY TargetFields
<1>2. Targets' = Targets /\ net' = net \ {m} BY DEF Receives, Targets
<1>3. /\ m.dst = p /\ m.epoch = count_epoch[p] /\ Active(p)
      /\ analysed'[p] = analysed[p] \union {<<m.src, m.seq>>}
  BY DEF Receives, NetOK
<1>4. \A d \in Procs : d # p => analysed'[d] = analysed[d] BY OtherSame DEF Same, SameCount
<1>5. \A a \in Targets' : a.epoch <= count_epoch'[a.src]
  BY <1>1, <1>2, ThreadQuiet DEF TargetsOK
<1>6. ASSUME NEW a \in Targets', ~ Freeing(a.dst)'
      PROVE  /\ a.epoch > Closed(a.dst)'
             /\ \/ \E x \in net' : x.dst = a.dst /\ x.src = a.src /\ x.epoch = a.epoch /\ x.seq = a.seq
                \/ /\ Active(a.dst)' /\ a.epoch = count_epoch'[a.dst]
                   /\ <<a.src, a.seq>> \in analysed'[a.dst]
  <2>1. a \in Targets /\ a.dst \in Procs /\ ~ Freeing(a.dst) BY <1>1, <1>2, <1>6, ThreadQuiet
  <2>2. a.epoch > Closed(a.dst)' BY <2>1, ThreadQuiet DEF TargetsOK
  <2>3. /\ (Active(a.dst)' <=> Active(a.dst)) /\ count_epoch'[a.dst] = count_epoch[a.dst]
        /\ analysed[a.dst] \subseteq analysed'[a.dst]
    BY <2>1, <1>3, <1>4, ThreadQuiet
  <2>4. CASE m.dst = a.dst /\ m.src = a.src /\ m.epoch = a.epoch /\ m.seq = a.seq
    BY <2>1, <2>2, <2>3, <2>4, <1>3
  <2>5. CASE ~ (m.dst = a.dst /\ m.src = a.src /\ m.epoch = a.epoch /\ m.seq = a.seq)
    BY <2>1, <2>2, <2>3, <2>5, <1>2 DEF TargetsOK
  <2> QED BY <2>4, <2>5
<1>7. ASSUME NEW s \in Procs, NEW d \in Procs, Active(s)', ~ Freeing(d)', count_epoch'[s] > Closed(d)'
      PROVE  Numbers(s, d, count_epoch[s])' = 1 .. SentCount(s, d)'
  BY <1>7, ThreadQuiet DEF TargetsOK
<1>8. ASSUME NEW d \in Procs, ~ Freeing(d)' PROVE analysed'[d] \subseteq Expected(d)'
  <2>1. ~ Freeing(d) /\ Expected(d)' = Expected(d) BY <1>8, ThreadQuiet
  <2>2. analysed[d] \subseteq Expected(d) BY <2>1 DEF TargetsOK
  <2>3. CASE d # p BY <2>1, <2>2, <2>3, <1>4
  <2>4. CASE d = p
    <3>1. LandedAccess(m) \in accesses BY <2>1, <2>4, <1>3 DEF NetOK
    <3>2. <<m.src, m.seq>> \in Expected(p) BY <3>1, <1>3, LandedFields DEF Expected, EpochTargets
    <3> QED BY <2>1, <2>2, <2>4, <3>2, <1>3
  <2> QED BY <2>3, <2>4
<1> QED BY <1>5, <1>6, <1>7, <1>8 DEF TargetsOK

\* TargetsOK when a checking thread exits.
LEMMA TargetsExits ==
  ASSUME TypeOK, NEW p \in Procs, NEW k \in Epochs, Effect(p), Exits(p, k), NetOK, TargetsOK,
         CountOK(p), ValueOK(p)
  PROVE  TargetsOK'
<1>1. \A a \in Targets : a.dst \in Procs /\ a.src \in Procs BY TargetFields
<1>2. Targets' = Targets BY DEF Exits, Targets
<1>3. \A d \in Procs : analysed'[d] = analysed[d] BY OtherSame DEF Same, SameCount, Exits
<1>4. \A a \in Targets' : a.epoch <= count_epoch'[a.src]
  BY <1>1, <1>2, ThreadQuiet DEF TargetsOK
<1>5. ASSUME NEW a \in Targets', ~ Freeing(a.dst)'
      PROVE  /\ a.epoch > Closed(a.dst)'
             /\ \/ \E x \in net' : x.dst = a.dst /\ x.src = a.src /\ x.epoch = a.epoch /\ x.seq = a.seq
                \/ /\ Active(a.dst)' /\ a.epoch = count_epoch'[a.dst]
                   /\ <<a.src, a.seq>> \in analysed'[a.dst]
  <2>1. a \in Targets /\ a.dst \in Procs /\ ~ Freeing(a.dst) BY <1>1, <1>2, <1>5, ThreadQuiet
  <2>2. \A x \in net : x.dst = a.dst => x \in net'
    BY <2>1, ExitLosesNothing DEF Exits
  <2>3. /\ a.epoch > Closed(a.dst)' /\ (Active(a.dst)' <=> Active(a.dst))
        /\ count_epoch'[a.dst] = count_epoch[a.dst]
    BY <2>1, ThreadQuiet DEF TargetsOK
  <2> QED BY <2>1, <2>2, <2>3, <1>3 DEF TargetsOK
<1>6. ASSUME NEW s \in Procs, NEW d \in Procs, Active(s)', ~ Freeing(d)', count_epoch'[s] > Closed(d)'
      PROVE  Numbers(s, d, count_epoch[s])' = 1 .. SentCount(s, d)'
  BY <1>6, ThreadQuiet DEF TargetsOK
<1>7. \A d \in Procs : ~ Freeing(d)' => analysed'[d] \subseteq Expected(d)'
  BY <1>3, ThreadQuiet DEF TargetsOK
<1> QED BY <1>4, <1>5, <1>6, <1>7 DEF TargetsOK

\* TargetsOK is kept by every step.
LEMMA TargetsStep ==
  ASSUME TypeOK, NEW p \in Procs, Effect(p), NetOK, TargetsOK, ReduceOK,
         \A s \in Procs : ControlOK(s) /\ EpochOK(s) /\ CountOK(s) /\ ValueOK(s)
  PROVE  TargetsOK'
BY TargetsQuiet, QuietKinds, SentQuiet, TargetsOpens, TargetsJoins, TargetsSends, TargetsReceives,
   TargetsExits DEF Effect

----------------------------------------------------------------------------
(* The reductions. *)

\* A process that has passed a reduction has passed it for good.
LEMMA GaveStays ==
  ASSUME TypeOK, NEW p \in Procs, Effect(p), NEW s \in Procs, NEW d \in Procs, NEW i \in Nat,
         Gave(s, d, i)
  PROVE  Gave(s, d, i)'
<1>1. CASE s # p BY <1>1, OtherSame DEF Same, SameWhere, Gave
<1>2. CASE s = p
  <2> USE DEF Gave
  <2>1. clears[p] \in Nat /\ root[p] \in Nat /\ d \in Nat
    BY NAssumption DEF TypeOK, TypeHistory, TypeHandler, Procs
  <2>2. ASSUME clears'[p] = clears[p], pc[p] # "reduce" PROVE Gave(s, d, i)' BY <1>2, <2>2
  <2>3. ASSUME clears'[p] = clears[p], pc'[p] = pc[p], root'[p] = root[p] PROVE Gave(s, d, i)'
    BY <1>2, <2>3
  <2>4. ASSUME Opens(p) PROVE Gave(s, d, i)' BY <2>4, <2>2 DEF Opens
  <2>5. ASSUME StartsClear(p) PROVE Gave(s, d, i)' BY <2>5, <2>2 DEF StartsClear
  <2>6. ASSUME Moves(p) PROVE Gave(s, d, i)' BY <2>6, <2>2 DEF Moves
  <2>7. ASSUME StartsFree(p) PROVE Gave(s, d, i)' BY <2>7, <2>2 DEF StartsFree
  <2>8. ASSUME Contributes(p) PROVE Gave(s, d, i)' BY <1>2, <2>1, <2>8 DEF Contributes
  <2>9. ASSUME Sums(p) PROVE Gave(s, d, i)' BY <1>2, <2>1, <2>9 DEF Sums
  <2>10. ASSUME Finishes(p) PROVE Gave(s, d, i)' BY <1>2, <2>1, <2>10 DEF Finishes
  <2>11. ASSUME Joins(p) PROVE Gave(s, d, i)' BY <2>11, <2>2 DEF Joins
  <2>12. ASSUME Stores(p) PROVE Gave(s, d, i)' BY <2>12, <2>3 DEF Stores, SameWhere
  <2>13. ASSUME Returns(p) PROVE Gave(s, d, i)' BY <2>13, <2>2 DEF Returns
  <2>18. ASSUME Raises(p) PROVE Gave(s, d, i)' BY <2>18, <2>3 DEF Raises, SameWhere
  <2>14. ASSUME NEW q \in Procs, NEW c \in Comms, Sends(p, q, c) PROVE Gave(s, d, i)'
    BY <2>14, <2>2 DEF Sends
  <2>15. ASSUME NEW k \in Epochs, Posts(p, k) PROVE Gave(s, d, i)'
    BY <2>15, <2>3 DEF Posts, SameWhere
  <2>16. ASSUME NEW k \in Epochs, Exits(p, k) PROVE Gave(s, d, i)'
    BY <2>16, <2>3 DEF Exits, SameWhere
  <2>17. ASSUME NEW k \in Epochs, NEW m \in net, Receives(p, k, m) PROVE Gave(s, d, i)'
    BY <2>17, <2>3 DEF Receives, SameWhere
  <2> QED BY <2>4, <2>5, <2>6, <2>7, <2>8, <2>9, <2>10, <2>11, <2>12, <2>13, <2>14, <2>15, <2>16,
             <2>17, <2>18 DEF Effect
<1> QED BY <1>1, <1>2

\* Only ReduceSend and ReduceRoot touch the contributions; the root of a
\* reduction advances by them, and FinishReduce counts the clear.
LEMMA ReduceFrame ==
  ASSUME TypeOK, NEW p \in Procs, Effect(p)
  PROVE  /\ red' = red \/ Contributes(p) \/ Sums(p)
         /\ \A d \in Procs : clears'[d] = clears[d] \/ (d = p /\ Finishes(p))
         /\ \A d \in Procs : pc'[d] = "reduce" /\ root'[d] > d =>
              \/ pc[d] = "reduce" /\ root'[d] = root[d]
              \/ d = p /\ (Contributes(p) \/ Sums(p))
<1>1. red' = red \/ Contributes(p) \/ Sums(p)
  BY DEF Effect, Opens, StartsClear, Moves, StartsFree, Finishes, Joins, Stores, Returns, Raises, Sends,
     Posts, Exits, Receives
<1>2. clears'[p] = clears[p] \/ Finishes(p)
  BY DEF Effect, Opens, StartsClear, Moves, StartsFree, Contributes, Sums, Joins, Stores, Returns, Raises,
     Sends, Posts, Exits, Receives
<1>3. pc'[p] = "reduce" /\ root'[p] > p =>
        \/ pc[p] = "reduce" /\ root'[p] = root[p]
        \/ Contributes(p) \/ Sums(p)
  <2>1. ~ (0 > p) BY DEF Procs
  <2> QED BY <2>1 DEF Effect, Opens, StartsClear, Moves, StartsFree, Finishes, Joins, Stores,
     Returns, Raises, Sends, Posts, Exits, Receives, SameWhere
<1>4. \A d \in Procs : d # p => Same(d) BY OtherSame
<1> QED BY <1>1, <1>2, <1>3, <1>4 DEF Same, SameWhere

\* The accesses made in an epoch whose count has been given do not change.
LEMMA NumbersStay ==
  ASSUME TypeOK, NEW p \in Procs, Effect(p), NEW s \in Procs, NEW d \in Procs, NEW i \in Nat,
         \A r \in Procs : ControlOK(r) /\ EpochOK(r), Gave(s, d, i), i > clears[d], ~ Freeing(d)
  PROVE  Numbers(s, d, i)' = Numbers(s, d, i)
<1>1. ASSUME Joins(p) PROVE Numbers(s, d, i)' = Numbers(s, d, i)
  <2>1. d = p => count_epoch[p] = clears[p] BY <1>1 DEF EpochOK, Joins
  <2>2. \A a \in Targets : a.dst = d /\ a.epoch = i => a \in accesses'
    BY <1>1, <2>1 DEF Joins, Targets
  <2> QED BY <2>2, <1>1 DEF Numbers, Targets, Joins
<1>2. ASSUME NEW q \in Procs, NEW c \in Comms, Sends(p, q, c)
      PROVE  Numbers(s, d, i)' = Numbers(s, d, i)
  <2> DEFINE t0 == LandedAccess(SentMessage(p, q, c))
  <2>1. t0.epoch = count_epoch[p] /\ t0.dst = q /\ t0.src = p BY DEF SentMessage, LandedAccess
  <2>2. ~ (s = p /\ i = count_epoch[p])
    <3>1. count_epoch[p] = clears[p] + 1 /\ pc[p] = "run" BY <1>2 DEF EpochOK, Sends
    <3>2. clears[p] \in Nat BY DEF TypeOK, TypeHistory
    <3> QED BY <3>1, <3>2 DEF Gave
  <2>3. OriginAccess(p, q, c).side = "origin" BY DEF OriginAccess
  <2>4. accesses' = accesses \union {OriginAccess(p, q, c), t0} BY <1>2 DEF Sends
  <2>5. Targets' \subseteq Targets \union {t0} /\ Targets \subseteq Targets'
    <3> HIDE DEF t0
    <3> QED BY <2>3, <2>4 DEF Targets
  <2> HIDE DEF t0
  <2> QED BY <2>1, <2>2, <2>5 DEF Numbers
<1>3. ASSUME Targets' = Targets PROVE Numbers(s, d, i)' = Numbers(s, d, i) BY <1>3 DEF Numbers
<1>4. \/ Targets' = Targets \/ Joins(p) \/ \E q \in Procs, c \in Comms : Sends(p, q, c)
  BY DEF Effect, Opens, StartsClear, Moves, StartsFree, Contributes, Sums, Finishes, Stores,
     Returns, Raises, Posts, Exits, Receives, Targets
<1> QED BY <1>1, <1>2, <1>3, <1>4

\* The number a process gives is that of its accesses in the epoch.
LEMMA ContributionRight ==
  ASSUME TypeOK, NEW p \in Procs, pc[p] = "reduce", NEW d \in Procs, ~ Freeing(d),
         clears[p] + 1 > clears[d], \A r \in Procs : ControlOK(r) /\ EpochOK(r), TargetsOK
  PROVE  Numbers(p, d, clears[p] + 1) = 1 .. array[p][d]
<1>1. Active(p) /\ count_epoch[p] = clears[p] + 1 BY DEF ControlOK, EpochOK
<1>2. Closed(d) <= clears[d] BY ClosedBound
<1>3. Closed(d) \in Int /\ clears[p] \in Nat /\ clears[d] \in Nat /\ array[p][d] \in Nat
  BY DEF Closed, TypeOK, TypeState, TypeHistory
<1>4. count_epoch[p] > Closed(d) BY <1>1, <1>2, <1>3
<1>5. SentCount(p, d) = array[p][d] BY <1>3 DEF SentCount
<1> QED BY <1>1, <1>4, <1>5 DEF TargetsOK

\* The contributions to the reductions stay right (ReduceOK).
LEMMA ReduceStep ==
  ASSUME TypeOK, TypeOK', NEW p \in Procs, Effect(p), TargetsOK, ReduceOK,
         \A r \in Procs : ControlOK(r) /\ EpochOK(r)
  PROVE  ReduceOK'
<1>0. /\ \A d \in Procs : clears[d] \in Nat /\ clears'[d] \in Nat /\ root[d] \in Nat /\ root'[d] \in Nat
      /\ \A c \in red : c.src \in Procs /\ c.root \in Procs /\ c.inst \in Nat
  BY NAssumption DEF TypeOK, TypeHistory, TypeHandler, TypeMPI, Contribution
<1> DEFINE c0 == [src |-> p, root |-> root[p], inst |-> clears[p] + 1, n |-> array[p][root[p]]]
<1>1. c0.src = p /\ c0.root = root[p] /\ c0.inst = clears[p] + 1 /\ c0.n = array[p][root[p]] OBVIOUS
<1>2. red' \subseteq red \union {c0} /\ (~ Contributes(p) => red' \subseteq red)
  BY ReduceFrame DEF Contributes, Sums
<1> HIDE DEF c0
<1>3. \A s, d \in Procs : Gave(s, d, clears[d])'
  <2> TAKE s, d \in Procs
  <2>1. CASE clears'[d] = clears[d]
    <3>1. Gave(s, d, clears[d]) BY DEF ReduceOK
    <3> DEFINE i == clears[d]
    <3>2. Gave(s, d, i)' <=> Gave(s, d, clears[d])' BY <2>1 DEF Gave
    <3> QED BY <2>1, <3>1, <1>0, GaveStays DEF Gave
  <2>2. CASE d = p /\ Finishes(p)
    <3>1. root[p] > p BY <2>2, NAssumption DEF Finishes, Procs
    <3>2. Gave(s, p, clears[p] + 1) BY <2>2, <3>1 DEF ReduceOK, Finishes
    <3> QED BY <2>2, <3>2, <1>0, GaveStays DEF Finishes, Gave
  <2> QED BY <2>1, <2>2, ReduceFrame
<1>4. ASSUME NEW s \in Procs, NEW d \in Procs, pc'[d] = "reduce", root'[d] > d
      PROVE  Gave(s, d, clears[d] + 1)'
  <2>1. clears'[d] = clears[d]
    BY <1>4, ReduceFrame DEF Finishes
  <2>2. SUFFICES ASSUME ~ Gave(s, d, clears[d] + 1)' PROVE FALSE OBVIOUS
  <2>3. ~ Gave(s, d, clears[d] + 1)
    BY <2>1, <2>2, <1>0, GaveStays DEF Gave
  <2>4. CASE pc[d] = "reduce" /\ root'[d] = root[d] BY <2>3, <2>4, <1>4 DEF ReduceOK
  <2>5. CASE d = p /\ Contributes(p)
    <3>1. root[p] > p BY <2>5, <1>0, <1>4 DEF Contributes, Procs
    <3> QED BY <3>1, <2>3, <2>5 DEF ReduceOK, Contributes
  <2>6. CASE d = p /\ Sums(p)
    <3>1. CASE s = p BY <3>1, <2>2, <2>6, <2>1, <1>0 DEF Gave, Sums, Procs
    <3>2. CASE s # p
      <4>1. PICK c \in Contributions(p) : c.src = s BY <3>2, <2>6 DEF Sums
      <4>2. Gave(s, p, clears[p] + 1) BY <4>1 DEF ReduceOK, Contributions
      <4> QED BY <4>2, <2>3, <2>6
    <3> QED BY <3>1, <3>2
  <2> QED BY <2>4, <2>5, <2>6, <1>4, ReduceFrame
<1>5. ASSUME NEW c \in red' PROVE Gave(c.src, c.root, c.inst)'
  <2>1. CASE c \in red
    <3>1. Gave(c.src, c.root, c.inst) BY <2>1 DEF ReduceOK
    <3> QED BY <3>1, <2>1, <1>0, GaveStays
  <2>2. CASE c = c0 /\ Contributes(p) BY <2>2, <1>0, <1>1 DEF Contributes, Gave
  <2> QED BY <2>1, <2>2, <1>2, <1>5
<1>6. ASSUME NEW c \in red, Contributes(p), c.src = p, c.root = root[p], c.inst = clears[p] + 1
      PROVE  FALSE
  <2>1. Gave(p, root[p], clears[p] + 1) BY <1>6 DEF ReduceOK
  <2> QED BY <2>1, <1>0 DEF Gave
<1>7. ASSUME NEW c1 \in red', NEW c2 \in red', c1.src = c2.src, c1.root = c2.root, c1.inst = c2.inst
      PROVE  c1 = c2
  <2>1. CASE c1 \in red /\ c2 \in red BY <2>1, <1>7 DEF ReduceOK
  <2>2. CASE c1 \in red /\ c2 = c0 /\ Contributes(p) BY <2>2, <1>1, <1>6, <1>7
  <2>3. CASE c2 \in red /\ c1 = c0 /\ Contributes(p) BY <2>3, <1>1, <1>6, <1>7
  <2> QED BY <2>1, <2>2, <2>3, <1>2, <1>7
<1>8. ASSUME NEW c \in red', c.inst > clears'[c.root], ~ Freeing(c.root)'
      PROVE  Numbers(c.src, c.root, c.inst)' = 1 .. c.n
  <2>1. CASE c \in red
    <3>1. c.inst > clears[c.root] BY <2>1, <1>0, <1>8, ReduceFrame DEF Finishes
    <3>2. ~ Freeing(c.root) BY <2>1, <1>0, <1>8, FreeingStays
    <3>3. Numbers(c.src, c.root, c.inst) = 1 .. c.n /\ Gave(c.src, c.root, c.inst)
      BY <2>1, <3>1, <3>2 DEF ReduceOK
    <3> QED BY <2>1, <3>1, <3>2, <3>3, <1>0, NumbersStay
  <2>2. CASE c = c0 /\ Contributes(p)
    <3>1. root[p] \in Procs /\ clears' [root[p]] = clears[root[p]] /\ Targets' = Targets
      BY <2>2, ReduceFrame DEF Contributes, Finishes, Targets
    <3>2. ~ Freeing(root[p]) BY <2>2, <3>1, <1>1, <1>8, FreeingStays
    <3>3. Numbers(p, root[p], clears[p] + 1) = 1 .. array[p][root[p]]
      BY <2>2, <3>1, <3>2, <1>1, <1>8, ContributionRight DEF Contributes
    <3> QED BY <2>2, <3>1, <3>3, <1>1 DEF Numbers
  <2> QED BY <2>1, <2>2, <1>2, <1>8
<1> QED BY <1>3, <1>4, <1>5, <1>7, <1>8 DEF ReduceOK

----------------------------------------------------------------------------
(* The sum, the end of an epoch, and the trees. *)

\* The reduction gives the root the number of accesses of its epoch.
LEMMA SumRight ==
  ASSUME TypeOK, NEW p \in Procs, Sums(p), \A r \in Procs : ControlOK(r) /\ EpochOK(r),
         TargetsOK, ReduceOK
  PROVE  Units(p) = Expected(p)
<1>1. Active(p) /\ ~ Freeing(p) /\ count_epoch[p] = clears[p] + 1 /\ clears[p] \in Nat
  BY DEF ControlOK, EpochOK, Sums, Freeing, TypeOK, TypeHistory
<1>2. Numbers(p, p, count_epoch[p]) = 1 .. array[p][p]
  BY <1>1, ContributionRight DEF Sums
<1>3. \A c \in Contributions(p) : Numbers(c.src, p, count_epoch[p]) = 1 .. c.n /\ c.src \in Procs
  BY <1>1 DEF Contributions, ReduceOK, TypeOK, TypeMPI, Contribution
<1>4. ASSUME NEW s \in Procs, NEW k, k \in Numbers(s, p, count_epoch[p])
      PROVE  <<s, k>> \in Units(p)
  <2>1. CASE s = p
    <3>1. <<p, k>> \in {p} \X (1 .. array[p][p]) BY <2>1, <1>2, <1>4
    <3> QED BY <2>1, <3>1 DEF Units
  <2>2. CASE s # p
    <3>1. PICK c \in Contributions(p) : c.src = s BY <2>2 DEF Sums
    <3>2. k \in 1 .. c.n BY <3>1, <1>3, <1>4
    <3>3. <<s, k>> \in {c.src} \X (1 .. c.n) BY <3>1, <3>2
    <3> QED BY <3>3 DEF Units
  <2> QED BY <2>1, <2>2
<1>5. Expected(p) \subseteq Units(p)
  <2>1. SUFFICES ASSUME NEW a \in EpochTargets(p) PROVE <<a.src, a.seq>> \in Units(p)
    BY DEF Expected
  <2>2. a \in Targets BY DEF EpochTargets, Targets
  <2>3. a.src \in Procs /\ a.seq \in Numbers(a.src, p, count_epoch[p])
    BY <2>2, TargetFields DEF EpochTargets, Numbers
  <2> QED BY <2>3, <1>4
<1>6. ASSUME NEW s, NEW k, k \in Numbers(s, p, count_epoch[p]) PROVE <<s, k>> \in Expected(p)
  BY <1>6 DEF Numbers, Targets, Expected, EpochTargets
<1>7. Units(p) \subseteq Expected(p)
  <2>1. SUFFICES ASSUME NEW u \in Units(p) PROVE u \in Expected(p) OBVIOUS
  <2>4. ASSUME NEW s, NEW n, Numbers(s, p, count_epoch[p]) = 1 .. n, u \in {s} \X (1 .. n)
        PROVE  u \in Expected(p)
    <3>1. PICK k \in 1 .. n : u = <<s, k>> BY <2>4
    <3> QED BY <2>4, <3>1, <1>6
  <2>2. CASE u \in {p} \X (1 .. array[p][p]) BY <2>2, <2>4, <1>2
  <2>3. CASE \E c \in Contributions(p) : u \in {c.src} \X (1 .. c.n)
    <3>1. PICK c \in Contributions(p) : u \in {c.src} \X (1 .. c.n) BY <2>3
    <3>2. Numbers(c.src, p, count_epoch[p]) = 1 .. c.n BY <1>3
    <3> QED BY <3>1, <3>2, <2>4
  <2> QED BY <2>2, <2>3 DEF Units
<1> QED BY <1>5, <1>7

\* From the reduction on, the accesses of the epoch do not change until its join.
LEMMA ExpectedStays ==
  ASSUME TypeOK, NEW p \in Procs, Effect(p), NEW r \in Procs, ~ Freeing(r),
         \A s \in Procs : ControlOK(s) /\ EpochOK(s), ReduceOK,
         pc[r] = "join" \/ (pc[r] = "reduce" /\ root[r] > r), ~ (p = r /\ Joins(p))
  PROVE  Expected(r)' = Expected(r)
<1>1. Active(r) /\ count_epoch[r] \in Nat /\ clears[r] \in Nat
  BY DEF ControlOK, TypeOK, TypeState, TypeHistory
<1>2. count_epoch'[r] = count_epoch[r]
  <2>1. CASE r # p BY <2>1, OtherSame DEF Same, SameEpoch
  <2>2. CASE r = p
    BY <2>2, <1>1 DEF Effect, SameEpoch, Opens, StartsClear, Moves, StartsFree, Contributes, Sums,
       Finishes, Joins, Stores, Returns, Raises, Sends, Posts, Exits, Receives
  <2> QED BY <2>1, <2>2
<1>3. ASSUME Targets' = Targets PROVE Expected(r)' = Expected(r)
  BY <1>2, <1>3 DEF Expected, EpochTargets, Targets
<1>4. ASSUME Joins(p) PROVE Expected(r)' = Expected(r)
  <2>1. p # r BY <1>4
  <2>2. EpochTargets(r)' = EpochTargets(r) BY <2>1, <1>2, <1>4 DEF Joins, EpochTargets
  <2> QED BY <2>2 DEF Expected
<1>5. ASSUME NEW q \in Procs, NEW c \in Comms, Sends(p, q, c) PROVE Expected(r)' = Expected(r)
  <2> DEFINE t0 == LandedAccess(SentMessage(p, q, c))
  <2>1. t0.epoch = count_epoch[p] /\ t0.dst = q BY DEF SentMessage, LandedAccess
  <2>2. count_epoch[p] = clears[p] + 1 /\ pc[p] = "run" /\ clears[p] \in Nat
    BY <1>5 DEF EpochOK, Sends, TypeOK, TypeHistory
  <2>3. count_epoch[p] # count_epoch[r]
    <3>1. CASE pc[r] = "join"
      <4>1. count_epoch[r] = clears[r] BY <3>1 DEF EpochOK
      <4>2. Gave(p, r, clears[r]) BY DEF ReduceOK
      <4> QED BY <4>1, <4>2, <2>2, <1>1 DEF Gave
    <3>2. CASE pc[r] = "reduce" /\ root[r] > r
      <4>1. count_epoch[r] = clears[r] + 1 BY <3>2, <1>1 DEF EpochOK
      <4>2. Gave(p, r, clears[r] + 1) BY <3>2 DEF ReduceOK
      <4> QED BY <4>1, <4>2, <2>2, <1>1 DEF Gave
    <3> QED BY <3>1, <3>2
  <2>4. OriginAccess(p, q, c).side = "origin" BY DEF OriginAccess
  <2>5. accesses' = accesses \union {OriginAccess(p, q, c), t0} BY <1>5 DEF Sends
  <2> HIDE DEF t0
  <2>6. EpochTargets(r)' = EpochTargets(r)
    BY <2>1, <2>3, <2>4, <2>5, <1>2 DEF EpochTargets
  <2> QED BY <2>6 DEF Expected
<1>6. \/ Targets' = Targets \/ Joins(p) \/ \E q \in Procs, c \in Comms : Sends(p, q, c)
  BY DEF Effect, Opens, StartsClear, Moves, StartsFree, Contributes, Sums, Finishes, Stores,
     Returns, Raises, Posts, Exits, Receives, Targets
<1> QED BY <1>3, <1>4, <1>5, <1>6

\* Where the sum and the end of the epoch come from, kind by kind.
LEMMA ValueFrame ==
  ASSUME TypeOK, NEW p \in Procs, Effect(p), NEW r \in Procs, ControlOK(r)
  PROVE  /\ pc'[r] = "reduce" /\ root'[r] > r =>
              \/ pc[r] = "reduce" /\ root[r] > r /\ tmp'[r] = tmp[r] /\ ~ (p = r /\ Joins(p))
              \/ p = r /\ Sums(p)
         /\ pc'[r] = "join" /\ ~ Freeing(r)' =>
              \/ pc[r] = "join" /\ value'[r] = value[r] /\ ~ (p = r /\ Joins(p))
              \/ p = r /\ Finishes(p)
<1>1. CASE r # p BY <1>1, OtherSame DEF Same, SameWhere, SameSum
<1>2. CASE r = p
  <2>1. \A n \in 0 .. N : n # p /\ n + 1 > p => n > p BY NAssumption DEF Procs
  <2>2. root[p] \in 0 .. N /\ ~ (0 > p) BY DEF TypeOK, TypeHandler, Procs
  <2> QED BY <1>2, <2>1, <2>2 DEF Effect, Opens, StartsClear, Moves, StartsFree, Contributes, Sums,
       Finishes, Joins, Stores, Returns, Raises, Sends, Posts, Exits, Receives, SameWhere, SameSum, Freeing
<1> QED BY <1>1, <1>2

\* value stays the number of accesses of the epoch (ValueOK).
LEMMA ValueStep ==
  ASSUME TypeOK, NEW p \in Procs, Effect(p), NEW r \in Procs,
         \A s \in Procs : ControlOK(s) /\ EpochOK(s) /\ ValueOK(s), TargetsOK, ReduceOK
  PROVE  ValueOK(r)'
<1>1. pc[r] = "reduce" => ~ Freeing(r) BY DEF ControlOK, Freeing
<1>2. ASSUME pc'[r] = "reduce", root'[r] > r PROVE tmp'[r] = Cardinality(Expected(r))'
  <2>1. CASE pc[r] = "reduce" /\ root[r] > r /\ tmp'[r] = tmp[r] /\ ~ (p = r /\ Joins(p))
    <3>1. Expected(r)' = Expected(r) BY <2>1, <1>1, ExpectedStays
    <3> QED BY <2>1, <3>1 DEF ValueOK
  <2>2. CASE p = r /\ Sums(p)
    <3>1. Expected(p)' = Expected(p)
      BY <2>2 DEF Sums, SameEpoch, Expected, EpochTargets
    <3>2. Units(p) = Expected(p) BY <2>2, SumRight
    <3> QED BY <2>2, <3>1, <3>2 DEF Sums
  <2> QED BY <2>1, <2>2, <1>2, ValueFrame
<1>3. ASSUME pc'[r] = "join", ~ Freeing(r)' PROVE value'[r] = Cardinality(Expected(r))'
  <2>1. ~ Freeing(r) BY <1>3, FreeingStays
  <2>2. CASE pc[r] = "join" /\ value'[r] = value[r] /\ ~ (p = r /\ Joins(p))
    <3>1. Expected(r)' = Expected(r) BY <2>1, <2>2, ExpectedStays
    <3> QED BY <2>1, <2>2, <3>1 DEF ValueOK
  <2>3. CASE p = r /\ Finishes(p)
    <3>1. pc[r] = "reduce" /\ root[r] > r BY <2>3, NAssumption DEF Finishes, Procs
    <3>2. tmp[r] = Cardinality(Expected(r)) BY <3>1 DEF ValueOK
    <3>3. Expected(r)' = Expected(r)
      BY <2>3 DEF Finishes, SameEpoch, Expected, EpochTargets
    <3> QED BY <2>3, <3>2, <3>3 DEF Finishes
  <2> QED BY <2>2, <2>3, <1>3, ValueFrame
<1> QED BY <1>2, <1>3 DEF ValueOK

\* A thread that has exited was asked to by a closing process.
LEMMA CompleteStep ==
  ASSUME TypeOK, NEW p \in Procs, Effect(p), TargetsOK, ReduceOK, EpochComplete,
         \A s \in Procs : ControlOK(s) /\ EpochOK(s) /\ ThreadOK(s) /\ CountOK(s) /\ ValueOK(s)
  PROVE  EpochComplete'
<1>1. SUFFICES ASSUME NEW r \in Procs, EpochEnding(r)', ~ Freeing(r)'
               PROVE  analysed'[r] = Expected(r)'
  BY DEF EpochComplete, Freeing
<1>2. ~ Freeing(r) /\ pc'[r] = "join" /\ Joinable(r)' BY <1>1, FreeingStays DEF EpochEnding
<1>3. ASSUME pc[r] = "join", Joinable(r), analysed'[r] = analysed[r], ~ (p = r /\ Joins(p))
      PROVE  analysed'[r] = Expected(r)'
  BY <1>2, <1>3, ExpectedStays DEF EpochComplete, EpochEnding, Freeing
<1>4. CASE r # p
  <2>1. Same(r) BY <1>4, OtherSame
  <2> QED BY <1>2, <1>3, <1>4, <2>1 DEF Same, SameWhere, SameThread, SameEpoch, SameCount, Joinable
<1>5. CASE r = p
  <2>1. ASSUME Finishes(p) PROVE FALSE
    <3>1. Active(p) /\ Joinable(p)
      BY <1>2, <1>5, <2>1 DEF Finishes, ControlOK, SameEpoch, SameThread, Joinable
    <3> QED BY <3>1, <2>1 DEF ThreadOK, Finishes
  <2>2. ASSUME NEW k \in Epochs, Exits(p, k) PROVE analysed'[p] = Expected(p)'
    BY <2>2, <1>2, <1>5, ExitComplete, ThreadQuiet DEF Exits
  <2>3. ASSUME NEW k \in Epochs, Posts(p, k) PROVE FALSE
    BY <2>3, <1>2, <1>5 DEF Posts, Joinable, SameEpoch
  <2>4. ASSUME NEW k \in Epochs, NEW m \in net, Receives(p, k, m) PROVE FALSE
    BY <2>4, <1>2, <1>5 DEF Receives, Joinable, SameEpoch
  <2>5. pc'[p] = "join" => ~ (Opens(p) \/ StartsClear(p) \/ Moves(p) \/ Contributes(p) \/ Sums(p)
                              \/ Joins(p) \/ Stores(p) \/ Returns(p))
    BY DEF Opens, StartsClear, Moves, Contributes, Sums, Joins, Stores, Returns, SameWhere
  <2>6. \A q \in Procs, c \in Comms : Sends(p, q, c) => pc'[p] # "join" BY DEF Sends
  <2>7. ~ StartsFree(p) BY <1>1, <1>5 DEF StartsFree, Freeing
  <2>8. ASSUME Raises(p) PROVE analysed'[p] = Expected(p)'
    <3>1. ~ Joins(p) BY <2>8, <1>2, <1>5 DEF Joins
    <3> QED BY <2>8, <3>1, <1>2, <1>3, <1>5 DEF Raises, SameCount, SameEpoch, Joinable
  <2> QED BY <1>2, <1>5, <2>1, <2>2, <2>3, <2>4, <2>5, <2>6, <2>7, <2>8 DEF Effect
<1> QED BY <1>4, <1>5

\* The tree keeps to the intervals of the epoch (OneEpochPerTree).
LEMMA TreeStep ==
  ASSUME TypeOK, NEW p \in Procs, Effect(p), NetOK, OneEpochPerTree
  PROVE  OneEpochPerTree'
<1> DEFINE Own(q) == \A a \in local_tree[q] :
                       active_epoch[q] = 1 /\ a.dst = q /\ a.epoch = count_epoch[q]
<1>1. Own(p) BY DEF OneEpochPerTree
<1>2. Own(p)'
  <2> USE <1>1 DEF SameEpoch, SameTree, Active
  <2>1. ASSUME Opens(p) PROVE Own(p)' BY <2>1 DEF Opens
  <2>2. ASSUME StartsClear(p) \/ Moves(p) \/ StartsFree(p) PROVE Own(p)'
    BY <2>2 DEF StartsClear, Moves, StartsFree
  <2>3. ASSUME Contributes(p) \/ Sums(p) \/ Finishes(p) \/ Returns(p) \/ Raises(p) PROVE Own(p)'
    BY <2>3 DEF Contributes, Sums, Finishes, Returns, Raises
  <2>4. ASSUME Joins(p) PROVE Own(p)' BY <2>4 DEF Joins
  <2>5. ASSUME Stores(p) PROVE Own(p)' BY <2>5 DEF Stores
  <2>6. ASSUME NEW q \in Procs, NEW c \in Comms, Sends(p, q, c) PROVE Own(p)' BY <2>6 DEF Sends
  <2>7. ASSUME NEW k \in Epochs, Posts(p, k) \/ Exits(p, k) PROVE Own(p)' BY <2>7 DEF Posts, Exits
  <2>8. ASSUME NEW k \in Epochs, NEW m \in net, Receives(p, k, m) PROVE Own(p)'
    <3>1. LandedAccess(m).dst = p /\ LandedAccess(m).epoch = count_epoch[p]
      BY <2>8, LandedFields DEF Receives, NetOK
    <3> QED BY <2>8, <3>1 DEF Receives
  <2> QED BY <2>1, <2>2, <2>3, <2>4, <2>5, <2>6, <2>7, <2>8 DEF Effect
<1>3. \A q \in Procs : q # p => local_tree'[q] = local_tree[q] /\ SameEpoch(q)
  BY OtherSame DEF Same, SameTree
<1> QED BY <1>2, <1>3 DEF OneEpochPerTree, SameEpoch

\* No thread looks up the state of a freed window.
LEMMA NoLostState ==
  ASSUME NEW p \in Procs, Effect(p), halted # "nostate"
  PROVE  halted' # "nostate"
BY DEF Effect, Opens, StartsClear, Moves, StartsFree, Contributes, Sums, Finishes, Joins, Stores,
   Returns, Raises, Sends, Posts, Exits, Receives

----------------------------------------------------------------------------
(* The invariant holds. *)

\* The invariant holds initially ...
LEMMA InvInit == Init => IInv
<1> SUFFICES ASSUME Init PROVE IInv OBVIOUS
<1>1. TypeOK BY TypeInit
<1>2. \A p \in Procs : ControlOK(p) /\ EpochOK(p) /\ ValueOK(p)
  BY DEF Init, ControlOK, EpochOK, ValueOK, Active, Freeing, Between
<1>3. \A p \in Procs : ThreadOK(p)
  BY DEF Init, ThreadOK, Active, Live
<1>4. \A p \in Procs : CountOK(p)
  BY FS_EmptySet DEF Init, CountOK, Active
<1>5. NetOK BY DEF Init, NetOK, NoStragglers
<1>6. TargetsOK BY DEF Init, TargetsOK, Targets, Active
<1>7. ReduceOK BY DEF Init, ReduceOK, Gave
<1>8. OneEpochPerTree /\ EpochComplete /\ halted # "nostate"
  BY DEF Init, OneEpochPerTree, EpochComplete, EpochEnding
<1> QED BY <1>1, <1>2, <1>3, <1>4, <1>5, <1>6, <1>7, <1>8 DEF IInv

\* ... every kind of step keeps it ...
LEMMA InvEffect ==
  ASSUME IInv, TypeOK', NEW p \in Procs, Effect(p)
  PROVE  /\ \A r \in Procs : EpochOK(r)' /\ ThreadOK(r)' /\ CountOK(r)' /\ ValueOK(r)'
         /\ NetOK' /\ TargetsOK' /\ ReduceOK'
         /\ OneEpochPerTree' /\ EpochComplete' /\ halted' # "nostate"
<1> USE DEF IInv
<1>1. \A r \in Procs : EpochOK(r)' BY EpochStep
<1>2. \A r \in Procs : ThreadOK(r)' BY ThreadStep
<1>3. \A r \in Procs : CountOK(r)' BY CountStep
<1>4. \A r \in Procs : ValueOK(r)' BY ValueStep
<1>5. NetOK' BY NetStep
<1>6. TargetsOK' BY TargetsStep
<1>7. ReduceOK' BY ReduceStep
<1>8. OneEpochPerTree' /\ EpochComplete' /\ halted' # "nostate"
  BY TreeStep, CompleteStep, NoLostState
<1> QED BY <1>1, <1>2, <1>3, <1>4, <1>5, <1>6, <1>7, <1>8

\* ... a stuttering step does ...
LEMMA InvStutter == ASSUME IInv, vars' = vars PROVE IInv'
<1> USE DEF vars
<1>1. TypeOK' BY DEF IInv, TypeOK, TypeProgram, TypeHandler, TypeState, TypeThreads, TypeMPI, TypeHistory
<1>2. \A p \in Procs : ControlOK(p)' /\ EpochOK(p)' /\ ThreadOK(p)'
  BY DEF IInv, ControlOK, EpochOK, ThreadOK, Active, Freeing, Between, Live, Joinable
<1>3. \A p \in Procs : Expected(p)' = Expected(p) /\ Closed(p)' = Closed(p)
  BY DEF Expected, EpochTargets, Closed
<1>4. \A p \in Procs : CountOK(p)' /\ ValueOK(p)'
  BY <1>3 DEF IInv, CountOK, ValueOK, Active, Freeing, Joinable
<1>5. QuietNet BY DEF QuietNet, Targets, SameEpoch, Freeing
<1>6. NetOK' BY <1>5, NetQuiet DEF IInv
<1>7. \A s, d \in Procs : SentCount(s, d)' = SentCount(s, d) BY DEF SentCount
<1>8. TargetsOK' BY <1>5, <1>7, TargetsQuiet DEF IInv
<1>9. ReduceOK'
  <2>1. \A s, d, i : (Gave(s, d, i)' <=> Gave(s, d, i)) /\ Numbers(s, d, i)' = Numbers(s, d, i)
    BY DEF Gave, Numbers, Targets
  <2> QED BY <2>1 DEF IInv, ReduceOK, Freeing
<1>10. OneEpochPerTree' /\ EpochComplete' /\ halted' # "nostate"
  BY <1>3 DEF IInv, OneEpochPerTree, EpochComplete, EpochEnding, Joinable
<1> QED BY <1>1, <1>2, <1>4, <1>6, <1>8, <1>9, <1>10 DEF IInv

\* ... and so does every step of a disciplined program.
LEMMA InvStep == ASSUME Disciplined, IInv, [Next]_vars PROVE IInv'
<1>1. TypeOK' BY TypeStep DEF IInv
<1>2. \A p \in Procs : ControlOK(p)' BY ControlStep DEF IInv
<1>3. \/ \E p \in Procs : Effect(p)
      \/ vars' = vars
  BY StepEffect DEF Next, Terminating, IInv
<1>4. CASE vars' = vars BY <1>4, InvStutter
<1>5. ASSUME NEW p \in Procs, Effect(p) PROVE IInv'
  BY <1>1, <1>2, <1>5, InvEffect DEF IInv
<1> QED BY <1>3, <1>4, <1>5

\* The invariant holds of every disciplined program.
THEOREM InvCorrect == Disciplined => (Spec => []IInv)
<1> SUFFICES ASSUME Disciplined PROVE Spec => []IInv OBVIOUS
<1>1. Init => IInv BY InvInit
<1>2. IInv /\ [Next]_vars => IInv' BY InvStep
<1> QED BY <1>1, <1>2, PTL DEF Spec

\* No interval of an epoch is in flight to a process that has closed it, for
\* any number of processes: the counting of check_communication is right.
THEOREM StragglersNever == Disciplined => (Spec => []NoStragglers)
<1>1. IInv => NoStragglers BY DEF IInv, NetOK
<1> QED BY <1>1, InvCorrect, PTL

\* The join at the end of an epoch returns once all the intervals of the
\* epoch, and no others, have been analysed.
THEOREM EpochsComplete == Disciplined => (Spec => []EpochComplete)
<1>1. IInv => EpochComplete BY DEF IInv
<1> QED BY <1>1, InvCorrect, PTL

\* A tree never holds intervals of two epochs.
THEOREM TreesOfOneEpoch == Disciplined => (Spec => []OneEpochPerTree)
<1>1. IInv => OneEpochPerTree BY DEF IInv
<1> QED BY <1>1, InvCorrect, PTL

\* Every checking thread is joined before the state of its window goes.
THEOREM ThreadsJoined == Disciplined => (Spec => []ThreadsOwned)
<1>1. IInv => ThreadsOwned
  BY DEF IInv, ThreadOK, ControlOK, ThreadsOwned
<1> QED BY <1>1, InvCorrect, PTL
=============================================================================
