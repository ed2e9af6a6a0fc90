----------------------------- MODULE CondProofs -----------------------------
(***************************************************************************)
(* SyncCondvarWait returns with the mutex held, when it is called with the *)
(* mutex held and the wait table has a row for every object and a place in *)
(* it for every thread.                                                    *)
(***************************************************************************)
EXTENDS SleepProofs, FiniteSetTheorems

(* Every object can have a row, and every thread a place in a row. *)
TableHoldsAll ==
    /\ IsFiniteSet(Objects) /\ Cardinality(Objects) <= MaxEntries
    /\ IsFiniteSet(Threads) /\ Cardinality(Threads) <= MaxWaiters

(* Clients lock a mutex and then wait, once or for several conditions. *)
CondCallsLocked ==
    \A p \in Programs, t \in Threads : \A i \in 1 .. Len(p[t]) :
       p[t][i][1] = "condwait" =>
          /\ i > 1
          /\ \/ p[t][i - 1] = <<"lock", p[t][i][3]>>
             \/ \E c \in Conds : p[t][i - 1] = <<"condwait", c, p[t][i][3]>>

(* The mutex is owned where a lock or a condition wait returns, and where  *)
(* a condition wait is about to give it up.                                *)
Locked(t) ==
    /\ pc[t] = "ret" /\ (Does(t, "lock") \/ Does(t, "condwait")) => owner[Mtx(t)].tid = t
    /\ pc[t] \in {"call", "ul"} /\ Does(t, "condwait") => owner[Mtx(t)].tid = t
CondInv == \A t \in Threads : Locked(t)

-----------------------------------------------------------------------------
(* There is room in the table. *)

LEMMA RowForAll ==
    ASSUME TableHoldsAll, NEW a \in Objects
    PROVE  g_sync[a].in_use \/ HasRoom
<1> SUFFICES ASSUME ~g_sync[a].in_use
             PROVE  HasRoom
  BY Zenon
<1> DEFINE S == {b \in Objects : g_sync[b].in_use}
<1>1. IsFiniteSet(Objects \ {a}) /\ Cardinality(Objects \ {a}) = Cardinality(Objects) - 1
  BY FS_RemoveElement, Zenon DEF TableHoldsAll
<1>2. S \subseteq Objects \ {a}
  BY Zenon
<1>3. Cardinality(S) <= Cardinality(Objects \ {a}) /\ IsFiniteSet(S)
  BY <1>1, <1>2, FS_Subset, Zenon
<1>4. Cardinality(S) \in Nat /\ Cardinality(Objects) \in Nat
  BY <1>3, FS_CardinalityType, Zenon DEF TableHoldsAll
<1>5. Cardinality(S) < MaxEntries
  BY <1>1, <1>3, <1>4, BoundsAssumption DEF TableHoldsAll
<1> QED
  BY <1>5, Zenon DEF HasRoom

LEMMA PlaceForAll ==
    ASSUME TableHoldsAll, SleepTypes, Sleepers, NEW a \in Objects, NEW t \in Threads,
           pc[t] \notin Asleep
    PROVE  Len(Waiters(a)) < MaxWaiters
<1> DEFINE n == Len(Waiters(a))
           f == [i \in 1 .. n |-> Waiters(a)[i]]
           T == Threads \ {t}
<1>1. Waiters(a) \in Seq(Threads) /\ n \in Nat
  BY ListElements
<1>2. \A i \in 1 .. n : Waiters(a)[i] \in Threads /\ Waiters(a)[i] # t
  BY ListElements, Zenon DEF Sleepers, ListNamed
<1>3. f \in [1 .. n -> T]
  BY <1>2, Zenon
<1>4. \A i, j \in 1 .. n : f[i] = f[j] => i = j
  BY Zenon DEF Sleepers, ListOnce
<1>5. IsFiniteSet(T) /\ Cardinality(T) = Cardinality(Threads) - 1
  BY FS_RemoveElement, Zenon DEF TableHoldsAll
<1>6. IsFiniteSet(1 .. n) /\ Cardinality(1 .. n) = n
  BY <1>1, FS_Interval
<1>7. n <= Cardinality(T)
  <2>1. CASE n > Cardinality(T)
    <3>0. Cardinality(T) < Cardinality(1 .. n)
      BY <1>1, <1>5, <1>6, <2>1, FS_CardinalityType
    <3> HIDE DEF f, T, n
    <3>1. PICK i, j \in 1 .. n : i # j /\ f[i] = f[j]
      BY <1>3, <1>5, <1>6, <3>0, FS_PigeonHole, Zenon
    <3> QED
      BY <1>4, <3>1, Zenon
  <2> QED
    BY <1>1, <1>5, <2>1, FS_CardinalityType
<1>8. Cardinality(Threads) \in Nat
  BY FS_CardinalityType, Zenon DEF TableHoldsAll
<1> QED
  BY <1>1, <1>5, <1>7, <1>8, BoundsAssumption DEF TableHoldsAll

-----------------------------------------------------------------------------
(* The other threads keep what they own. *)

LEMMA HeldByOthers ==
    ASSUME NEW t \in Threads, Step(t), held \in [Threads -> [Objects -> Int]]
    PROVE  \A u \in Threads \ {t} : held'[u] = held[u]
<1>1. CASE held' = held
  BY <1>1, Zenon
<1>2. ASSUME NEW x, NEW y, held' = [held EXCEPT ![t][x] = y]
      PROVE  \A u \in Threads \ {t} : held'[u] = held[u]
  BY <1>2, Zenon
<1>3. \/ held' = held
      \/ \E x, y : held' = [held EXCEPT ![t][x] = y]
  <2>1. CASE SyncMutexLock(t)
    BY <2>1, Zenon
       DEF SyncMutexLock, LockLoad, LockTake, TakeMutex, LockRecursive, LockContend,
       LockWait, LockPark, LockClean
  <2>2. CASE SyncMutexUnlock(t)
    BY <2>2, Zenon
       DEF SyncMutexUnlock, UnlockRefused, UnlockNested, UnlockRelease, UnlockWake
  <2>3. CASE SyncCondvar(t)
    BY <2>3, Zenon DEF SyncCondvar, CondWait, CondPark, CondClean, SignalWake
  <2>4. CASE SyncSem(t)
    BY <2>4, Zenon DEF SyncSem, PostWake, SemLoad, SemClaim, SemWait, SemPark, SemClean
  <2>5. CASE Client(t)
    BY <2>5, Zenon DEF Client, CallLock, CallUnlock, CallCondWait, CallSignal, CallPost,
       CallSemWait, CallSet, LeaveLoop, ThreadJoin, ThreadDestroy, Return
  <2> QED
    BY <2>1, <2>2, <2>3, <2>4, <2>5, Zenon DEF Step
<1> QED
  BY <1>1, <1>2, <1>3, Zenon

LEMMA OwnerStays ==
    ASSUME MutexInv, NEW t \in Threads, Step(t), NEW u \in Threads \ {t},
           NEW m \in Mutexes, owner[m].tid = u
    PROVE  owner'[m].tid = u
<1>1. HolderOwns' /\ held'[u] = held[u]
  BY DataStep, HeldByOthers, Zenon DEF Data, MutexInv, Types
<1> QED
  BY <1>1, Zenon DEF MutexInv, HolderOwns

(* A thread that another one resumes does not return from a lock. *)
LEMMA ResumedElsewhere ==
    ASSUME Types, Calling, SleepTypes, Sleepers, NEW t \in Threads, Shape(t),
           NEW u \in Threads \ {t}
    PROVE  \/ pc'[u] = pc[u]
           \/ pc'[u] \notin {"ret", "call", "ul"}
           \/ pc'[u] = "ret" /\ Does(u, "join")
<1>0. QueueNamed /\ QueueOnce /\ BlockedQueued
  BY Zenon DEF Sleepers
<1>1. CASE Alone(t)
  BY <1>1, Zenon DEF Alone
<1>2. ASSUME NEW n \in Threads, BlockedOn(u, n), pc'[u] = Resumed(pc[u])
      PROVE  \/ pc'[u] \notin {"ret", "call", "ul"}
             \/ pc'[u] = "ret" /\ Does(u, "join")
  <2>1. pc[u] \in Blocked => pc'[u] \notin {"ret", "call", "ul"}
    BY <1>2 DEF Resumed, Blocked
  <2>2. pc[u] = "jn_blocked" => pc'[u] = "ret" /\ Does(u, "join")
    BY <1>2 DEF Resumed, Calling, CallAt
  <2> QED
    BY <1>2, <2>1, <2>2, Zenon DEF BlockedOn
<1>3. ASSUME NEW ns \in SUBSET Threads, NEW l, SignalAll(ns, t, l), l \notin Blocked,
             program' = program, ip' = ip, pc[t] \notin Blocked \cup {"jn_blocked"}
      PROVE  \/ pc'[u] = pc[u]
             \/ \E n \in Threads : BlockedOn(u, n) /\ pc'[u] = Resumed(pc[u])
  BY <1>0, <1>3, SignalKeeps, Zenon
<1>4. CASE Exit(t)
  <2>1. /\ program' = program /\ ip' = ip /\ SignalAll({t}, t, "exited") /\ pc[t] = "call"
        /\ {t} \in SUBSET Threads
    BY <1>4, Zenon DEF Exit
  <2>2. pc[t] \notin Blocked \cup {"jn_blocked"} /\ "exited" \notin Blocked
    BY <2>1, Zenon DEF Blocked
  <2> QED
    BY <1>2, <1>3, <2>1, <2>2, Zenon
<1>5. CASE \E a \in Objects : \E k \in 0 .. Len(Waiters(a)) : Wake(t, a, k)
  <2>0. PICK a \in Objects : \E k \in 0 .. Len(Waiters(a)) : Wake(t, a, k)
    BY <1>5, Zenon
  <2>1. PICK k \in 0 .. Len(Waiters(a)) : Wake(t, a, k)
    BY <2>0, Zenon
  <2>2. PICK l \in {"ret", "cw_wait"} : SignalAll(Popped(a, k), t, l)
    BY <2>1, Zenon DEF Wake
  <2>3. program' = program /\ ip' = ip /\ pc[t] \notin Blocked \cup {"jn_blocked"}
    BY <2>1, Zenon DEF Wake, Still, Asleep
  <2>4. 1 .. k \subseteq 1 .. Len(Waiters(a))
    BY ListElements
  <2>5. Popped(a, k) \in SUBSET Threads /\ l \notin Blocked
    BY <2>2, <2>4, ListElements, Zenon DEF Popped, Blocked
  <2> QED
    BY <1>2, <1>3, <2>2, <2>3, <2>5, Zenon
<1> QED
  BY <1>1, <1>4, <1>5, Zenon DEF Shape, Idle, Enter, Settle, Join

LEMMA OthersLocked ==
    ASSUME MutexInv, SleepInv, CondInv, NEW t \in Threads, Step(t), NEW u \in Threads \ {t}
    PROVE  Locked(u)'
<1>0. /\ Types /\ Calling /\ SleepTypes /\ Sleepers
  BY Zenon DEF SleepInv
<1>1. program' = program /\ ip'[u] = ip[u]
  BY <1>0, StepMoves, StepKeepsProgram, Zenon DEF Others
<1>2. /\ Mtx(u)' = Mtx(u) /\ \A x : Does(u, x)' <=> Does(u, x)
  BY <1>1, Frozen, Zenon
<1>3. \/ pc'[u] = pc[u]
      \/ pc'[u] \notin {"ret", "call", "ul"}
      \/ pc'[u] = "ret" /\ Does(u, "join")
  BY <1>0, StepShape, ResumedElsewhere, Zenon
<1>4. Does(u, "join") => ~Does(u, "lock") /\ ~Does(u, "condwait")
  BY Zenon DEF Does
<1>5. Does(u, "lock") \/ Does(u, "condwait") => Mtx(u) \in Mutexes
  BY <1>0, OpFacts, Zenon
<1>6. Locked(u)
  BY Zenon DEF CondInv
<1>7. owner[Mtx(u)].tid = u /\ Mtx(u) \in Mutexes => owner'[Mtx(u)].tid = u
  BY OwnerStays, Zenon
<1> QED
  BY <1>2, <1>3, <1>4, <1>5, <1>6, <1>7, Zenon DEF Locked

-----------------------------------------------------------------------------
(* The steps of the thread itself, by the call it is in. *)

(* A step that stays within a call, and does not return from one that      *)
(* wants the mutex.                                                        *)
Passes(t) ==
    /\ ip' = ip
    /\ \/ pc'[t] \notin {"ret", "call", "ul"}
       \/ ~Does(t, "lock") /\ ~Does(t, "condwait")

LEMMA PassesLocked ==
    ASSUME NEW t \in Threads, program' = program, Passes(t)
    PROVE  Locked(t)'
<1>1. \A x : Does(t, x)' <=> Does(t, x)
  BY Frozen, Zenon DEF Passes
<1> QED
  BY <1>1, Zenon DEF Passes, Locked

LEMMA OneCall ==
    ASSUME NEW t
    PROVE  /\ Does(t, "unlock") => ~Does(t, "lock") /\ ~Does(t, "condwait")
           /\ Does(t, "signal") => ~Does(t, "lock") /\ ~Does(t, "condwait")
           /\ Does(t, "broadcast") => ~Does(t, "lock") /\ ~Does(t, "condwait")
           /\ Does(t, "post") => ~Does(t, "lock") /\ ~Does(t, "condwait")
           /\ Does(t, "semwait") => ~Does(t, "lock") /\ ~Does(t, "condwait")
           /\ Does(t, "trywait") => ~Does(t, "lock") /\ ~Does(t, "condwait")
           /\ Does(t, "set") => ~Does(t, "lock") /\ ~Does(t, "condwait")
           /\ Does(t, "join") => ~Does(t, "lock") /\ ~Does(t, "condwait")
BY Zenon DEF Does

LEMMA LockLocked ==
    ASSUME TableHoldsAll, MutexInv, SleepInv, NEW t \in Threads, SyncMutexLock(t),
           program' = program
    PROVE  Locked(t)'
<1>0. /\ Types /\ Calling /\ SleepTypes /\ Sleepers
  BY Zenon DEF SleepInv
<1>a. ip' = ip
  BY Zenon DEF SyncMutexLock, LockLoad, LockTake, LockRecursive, LockContend, LockWait,
     LockPark, LockClean
<1>b. /\ Mtx(t)' = Mtx(t) /\ \A x : Does(t, x)' <=> Does(t, x)
  BY <1>a, Frozen, Zenon
<1>c. pc[t] \in {"lk_load", "lk_try", "lk_wait", "lk_park", "lk_clean"}
  BY Zenon DEF SyncMutexLock, LockLoad, LockTake, LockRecursive, LockContend, LockWait,
     LockPark, LockClean
<1>m. Mtx(t) \in Mutexes /\ Mtx(t) \in Objects
  <2>1. Does(t, "lock") \/ Does(t, "condwait")
    BY <1>0, <1>c, Zenon DEF Calling, CallAt
  <2> QED
    BY <1>0, <2>1, OpFacts, NobodyFacts, Zenon
<1>own. ASSUME owner'[Mtx(t)].tid = t, pc'[t] = "ret"
        PROVE  Locked(t)'
  BY <1>own, <1>b, Zenon DEF Locked
<1>pass. ASSUME NEW l \in {"lk_load", "lk_try", "lk_wait", "lk_park", "lk_blocked", "lk_clean"},
                pc'[t] = l
         PROVE  Locked(t)'
  BY <1>pass, <1>a, PassesLocked, Zenon DEF Passes
<1>go. ASSUME NEW l, Goto(t, l)
       PROVE  pc'[t] = l
  BY <1>0, <1>go, Zenon DEF Goto, Types
<1>1. CASE LockLoad(t) \/ LockContend(t) \/ LockPark(t) \/ LockClean(t)
  BY <1>1, <1>go, <1>pass, Zenon
     DEF LockLoad, LockContend, LockPark, LockClean, WaitOn, FinishWait
<1>2. CASE LockTake(t)
  <2>1. CASE owner[Mtx(t)] = lval[t]
    <3>1. owner' = [owner EXCEPT ![Mtx(t)] = [tid |-> t, waiters |-> lval[t].waiters]]
          /\ Goto(t, "ret")
      BY <1>2, <2>1, Zenon DEF LockTake, TakeMutex
    <3>2. owner'[Mtx(t)] = [tid |-> t, waiters |-> lval[t].waiters]
      BY <1>0, <1>m, <3>1, Zenon DEF Types
    <3>3. owner'[Mtx(t)].tid = t
      BY <3>2
    <3> QED
      BY <1>go, <1>own, <3>1, <3>3, Zenon
  <2>2. CASE owner[Mtx(t)] # lval[t]
    BY <1>2, <2>2, <1>go, <1>pass, Zenon DEF LockTake
  <2> QED
    BY <2>1, <2>2, Zenon
<1>3. CASE LockRecursive(t)
  <2>1. owner' = owner /\ Goto(t, "ret") /\ pc[t] = "lk_try" /\ lval[t].tid = t
    BY <1>3, Zenon DEF LockRecursive
  <2>2. owner[Mtx(t)].tid = t
    BY <2>1, Zenon DEF MutexInv, OwnLoad
  <2> QED
    BY <1>go, <1>own, <2>1, <2>2, Zenon
<1>4. CASE LockWait(t)
  <2>1. (g_sync[Mtx(t)].in_use \/ HasRoom)
    BY <1>m, RowForAll, Zenon
  <2>2. Len(g_sync[Mtx(t)].waiters) < MaxWaiters
    <3>1. pc[t] \notin Asleep
      BY <1>4, Running, Zenon DEF LockWait, Still
    <3> QED
      BY <1>0, <1>m, <3>1, PlaceForAll, Zenon DEF Waiters
  <2>3. Goto(t, "lk_load") \/ Goto(t, "lk_park")
    BY <1>4, <2>1, <2>2, Zenon DEF LockWait, sync_wait_impl
  <2> QED
    BY <2>3, <1>go, <1>pass, Zenon
<1> QED
  BY <1>1, <1>2, <1>3, <1>4, Zenon DEF SyncMutexLock

LEMMA UnlockLocked ==
    ASSUME TableHoldsAll, MutexInv, SleepInv, CondInv, NEW t \in Threads,
           SyncMutexUnlock(t), program' = program
    PROVE  Locked(t)'
<1>0. /\ Types /\ Calling
  BY Zenon DEF SleepInv
<1>a. ip' = ip /\ pc[t] \in {"ul", "ul_wake"}
  BY Zenon DEF SyncMutexUnlock, UnlockRefused, UnlockNested, UnlockRelease, UnlockWake
<1>b. Does(t, "unlock") \/ Does(t, "condwait")
  BY <1>0, <1>a, Zenon DEF Calling, CallAt
<1>c. Does(t, "condwait") => Op(t)[1] = "condwait" /\ Mtx(t) \in Objects
  BY <1>0, OpFacts, NobodyFacts, Zenon DEF Does
<1>d. CASE Does(t, "unlock")
  BY <1>a, <1>d, OneCall, PassesLocked, Zenon DEF Passes
<1>e. CASE Does(t, "condwait")
  <2>go. ASSUME NEW l \in {"cw_wait", "ul_wake"}, Goto(t, l)
         PROVE  Locked(t)'
    <3>1. pc'[t] = l
      BY <1>0, <2>go, Zenon DEF Goto, Types
    <3> QED
      BY <3>1, <1>a, PassesLocked, Zenon DEF Passes
  <2>1. ~UnlockRefused(t)
    BY <1>e, Zenon DEF UnlockRefused, CondInv, Locked
  <2>2. CASE UnlockNested(t) \/ UnlockRelease(t)
    BY <1>c, <1>e, <2>2, <2>go, Zenon DEF UnlockNested, UnlockRelease
  <2>3. CASE UnlockWake(t)
    <3>1. ~WakeFails(Mtx(t))
      BY <1>c, <1>e, RowForAll, Zenon DEF WakeFails
    <3>2. sync_wake_impl(t, Mtx(t), 1, "absorb", "cw_wait")
      BY <1>c, <1>e, <2>3, <3>1, Zenon DEF UnlockWake
    <3>3. pc'[t] = "cw_wait"
      BY <3>2, Zenon DEF sync_wake_impl, SignalAll
    <3> QED
      BY <3>3, <1>a, PassesLocked, Zenon DEF Passes
  <2> QED
    BY <2>1, <2>2, <2>3, Zenon DEF SyncMutexUnlock
<1> QED
  BY <1>b, <1>d, <1>e, Zenon

LEMMA CondvarLocked ==
    ASSUME Types, Calling, NEW t \in Threads, SyncCondvar(t), program' = program
    PROVE  Locked(t)'
<1>a. ip' = ip
  BY Zenon DEF SyncCondvar, CondWait, CondPark, CondClean, SignalWake
<1>go. ASSUME NEW l \in {"lk_load", "cw_park", "cw_blocked", "cw_clean"}, Goto(t, l)
       PROVE  Locked(t)'
  <2>1. pc'[t] = l
    BY <1>go, Zenon DEF Goto, Types
  <2> QED
    BY <2>1, <1>a, PassesLocked, Zenon DEF Passes
<1>1. CASE CondWait(t)
  BY <1>1, <1>go, Zenon DEF CondWait, sync_wait_impl
<1>2. CASE CondPark(t)
  BY <1>2, <1>go, Zenon DEF CondPark, WaitOn
<1>3. CASE CondClean(t)
  BY <1>3, <1>go, Zenon DEF CondClean, FinishWait
<1>4. CASE SignalWake(t)
  <2>1. Does(t, "signal") \/ Does(t, "broadcast")
    BY <1>4, Zenon DEF SignalWake, Calling, CallAt
  <2> QED
    BY <1>a, <2>1, OneCall, PassesLocked, Zenon DEF Passes
<1> QED
  BY <1>1, <1>2, <1>3, <1>4, Zenon DEF SyncCondvar

LEMMA SemLocked ==
    ASSUME Calling, NEW t \in Threads, SyncSem(t), program' = program
    PROVE  Locked(t)'
<1>1. /\ ip' = ip
      /\ pc[t] \in {"sp_wake", "sw_load", "sw_try", "sw_wait", "sw_park", "sw_clean"}
  BY Zenon DEF SyncSem, PostWake, SemLoad, SemClaim, SemWait, SemPark, SemClean
<1>2. Does(t, "post") \/ Does(t, "semwait") \/ Does(t, "trywait")
  BY <1>1, Zenon DEF Calling, CallAt
<1> QED
  BY <1>1, <1>2, OneCall, PassesLocked, Zenon DEF Passes

(* A client reaches a condition wait with its mutex locked. *)
LEMMA NextCallLocked ==
    ASSUME CondCallsLocked, Types, NEW t \in Threads, program' = program,
           ip'[t] = ip[t] + 1, owner' = owner, pc'[t] = "call",
           Does(t, "lock") \/ Does(t, "condwait") => owner[Mtx(t)].tid = t
    PROVE  Locked(t)'
<1> SUFFICES ASSUME Does(t, "condwait")'
             PROVE  owner[Mtx(t)'].tid = t
  BY Zenon DEF Locked
<1> DEFINE p == program[t]
           i == ip[t]
<1>1. p \in Seq(Operations) /\ i \in Nat \ {0}
  BY ProgramAssumption, Zenon DEF Types
<1>2. i + 1 <= Len(p) /\ p[i + 1][1] = "condwait"
  BY Zenon DEF Does, Op
<1>3. i + 1 \in 1 .. Len(p) /\ i <= Len(p) /\ (i + 1) - 1 = i
  BY <1>1, <1>2
<1>4. \/ p[i] = <<"lock", p[i + 1][3]>>
      \/ \E c \in Conds : p[i] = <<"condwait", c, p[i + 1][3]>>
  <2>1. \A j \in 1 .. Len(p) : p[j][1] = "condwait" =>
           \/ p[j - 1] = <<"lock", p[j][3]>>
           \/ \E c \in Conds : p[j - 1] = <<"condwait", c, p[j][3]>>
    BY Zenon DEF CondCallsLocked, Types
  <2> HIDE DEF p, i
  <2> QED
    BY <1>2, <1>3, <2>1, Zenon
<1>5. Mtx(t)' = p[i + 1][3]
  BY <1>2, Zenon DEF Mtx, Op
<1>6. \/ p[i][1] = "lock" /\ p[i][2] = p[i + 1][3]
      \/ p[i][1] = "condwait" /\ p[i][3] = p[i + 1][3]
  <2> DEFINE y == p[i + 1][3]
             x == p[i]
  <2>1. x = <<"lock", y>> \/ \E c \in Conds : x = <<"condwait", c, y>>
    BY <1>4, Zenon
  <2> HIDE DEF x, y
  <2>2. \/ x[1] = "lock" /\ x[2] = y
        \/ x[1] = "condwait" /\ x[3] = y
    BY <2>1
  <2> QED
    BY <2>2, Zenon DEF x, y
<1>7. "lock" # "condwait"
  OBVIOUS
<1>8. (Does(t, "lock") \/ Does(t, "condwait")) /\ Mtx(t) = p[i + 1][3]
  BY <1>3, <1>6, <1>7, Zenon DEF Does, Op, Mtx
<1> QED
  BY <1>5, <1>8, Zenon

LEMMA ClientLocked ==
    ASSUME CondCallsLocked, MutexInv, CondInv, NEW t \in Threads, Client(t),
           program' = program
    PROVE  Locked(t)'
<1>0. Types /\ Locked(t)
  BY Zenon DEF MutexInv, CondInv
<1>go. ASSUME NEW l, Goto(t, l)
       PROVE  pc'[t] = l
  BY <1>0, <1>go, Zenon DEF Goto, Types
<1>1. CASE CallLock(t) \/ CallSemWait(t) \/ CallSignal(t)
  <2>1. ip' = ip /\ (Goto(t, "lk_load") \/ Goto(t, "sw_load") \/ Goto(t, "sg_wake"))
    BY <1>1, Zenon DEF CallLock, CallSemWait, CallSignal
  <2> QED
    BY <2>1, <1>go, PassesLocked, Zenon DEF Passes
<1>2. CASE CallUnlock(t) \/ CallPost(t) \/ CallSet(t) \/ ThreadJoin(t)
  <2>1. /\ ip' = ip
        /\ Does(t, "unlock") \/ Does(t, "post") \/ Does(t, "set") \/ Does(t, "join")
    BY <1>2, Zenon DEF CallUnlock, CallPost, CallSet, ThreadJoin
  <2> QED
    BY <2>1, OneCall, PassesLocked, Zenon DEF Passes
<1>3. CASE ThreadDestroy(t)
  <2>1. ip' = ip /\ SignalAll({t}, t, "exited")
    BY <1>3, Zenon DEF ThreadDestroy
  <2>2. pc'[t] = "exited"
    BY <2>1, Zenon DEF SignalAll
  <2> QED
    BY <2>1, <2>2, PassesLocked, Zenon DEF Passes
<1>4. CASE CallCondWait(t)
  <2>1. /\ ip' = ip /\ owner' = owner /\ pc[t] = "call" /\ Does(t, "condwait")
        /\ Goto(t, "ul")
    BY <1>4, Zenon DEF CallCondWait
  <2>2. /\ Mtx(t)' = Mtx(t) /\ \A x : Does(t, x)' <=> Does(t, x)
    BY <2>1, Frozen, Zenon
  <2>3. pc'[t] = "ul"
    BY <2>1, <1>go, Zenon
  <2> QED
    BY <1>0, <2>1, <2>2, <2>3, Zenon DEF Locked
<1>5. CASE LeaveLoop(t)
  <2>1. /\ ip' = [ip EXCEPT ![t] = ip[t] + 1] /\ pc' = pc /\ owner' = owner
        /\ pc[t] = "call" /\ Does(t, "condwait")
    BY <1>5, Zenon DEF LeaveLoop
  <2>2. ip'[t] = ip[t] + 1
    BY <1>0, <2>1, Zenon DEF Types
  <2>3. owner[Mtx(t)].tid = t
    BY <1>0, <2>1, Zenon DEF Locked
  <2> QED
    BY <1>0, <2>1, <2>2, <2>3, NextCallLocked, Zenon
<1>6. CASE Return(t)
  <2>1. /\ pc[t] = "ret" /\ owner' = owner /\ Goto(t, "call")
        /\ ip' = [ip EXCEPT ![t] =
             IF (Does(t, "lock") \/ Does(t, "condwait")) /\ held[t][Mtx(t)] = 0
             THEN Len(program[t]) + 1
             ELSE IF Does(t, "condwait") THEN ip[t] ELSE ip[t] + 1]
    BY <1>6, Zenon DEF Return
  <2>2. pc'[t] = "call"
    BY <2>1, <1>go, Zenon
  <2>3. Does(t, "lock") \/ Does(t, "condwait") => owner[Mtx(t)].tid = t
    BY <1>0, <2>1, Zenon DEF Locked
  <2>4. ~((Does(t, "lock") \/ Does(t, "condwait")) /\ held[t][Mtx(t)] = 0)
    <3>1. Does(t, "lock") \/ Does(t, "condwait") => held[t][Mtx(t)] > 0
      BY <1>0, <2>3, OpFacts, Zenon DEF MutexInv, HolderOwns
    <3>2. ~(0 > 0)
      OBVIOUS
    <3> QED
      BY <3>1, <3>2, Zenon
  <2>5. CASE Does(t, "condwait")
    <3>1. ip'[t] = ip[t]
      BY <1>0, <2>1, <2>4, <2>5, Zenon DEF Types
    <3>2. /\ Mtx(t)' = Mtx(t) /\ \A x : Does(t, x)' <=> Does(t, x)
      BY <3>1, Frozen, Zenon
    <3> QED
      BY <2>1, <2>2, <2>3, <3>2, Zenon DEF Locked
  <2>6. CASE ~Does(t, "condwait")
    <3>1. ip'[t] = ip[t] + 1
      BY <1>0, <2>1, <2>4, <2>6, Zenon DEF Types
    <3> QED
      BY <1>0, <2>1, <2>2, <2>3, <3>1, NextCallLocked, Zenon
  <2> QED
    BY <2>5, <2>6, Zenon
<1> QED
  BY <1>1, <1>2, <1>3, <1>4, <1>5, <1>6, Zenon DEF Client

LEMMA CondStep ==
    ASSUME TableHoldsAll, CondCallsLocked, MutexInv, SleepInv, CondInv, [Next]_vars
    PROVE  CondInv'
<1>1. CASE \E t \in Threads : Step(t)
  <2>1. PICK t \in Threads : Step(t)
    BY <1>1, Zenon
  <2>2. program' = program /\ Types /\ Calling
    BY <2>1, StepKeepsProgram, Zenon DEF SleepInv
  <2>3. Locked(t)'
    BY <2>1, <2>2, LockLocked, UnlockLocked, CondvarLocked, SemLocked, ClientLocked, Zenon
       DEF Step
  <2>4. \A u \in Threads \ {t} : Locked(u)'
    BY <2>1, OthersLocked, Zenon
  <2> QED
    BY <2>3, <2>4, Zenon DEF CondInv
<1>2. CASE UNCHANGED vars
  <2>1. program' = program /\ pc' = pc /\ ip' = ip /\ owner' = owner
    BY <1>2, Zenon DEF vars
  <2>2. \A t \in Threads : /\ Mtx(t)' = Mtx(t)
                           /\ \A x : Does(t, x)' <=> Does(t, x)
    BY <2>1, Frozen, Zenon
  <2> QED
    BY <2>1, <2>2, Zenon DEF CondInv, Locked
<1> QED
  BY <1>1, <1>2, Zenon DEF Next, Finished

LEMMA CondInit ==
    ASSUME CondCallsLocked, Init
    PROVE  CondInv
<1>1. SUFFICES ASSUME NEW t \in Threads, Does(t, "condwait")
               PROVE  FALSE
  BY Zenon DEF CondInv, Locked, Init
<1>2. /\ program \in Programs /\ ip[t] = 1 /\ program[t] \in Seq(Operations)
  BY ProgramAssumption, Zenon DEF Init
<1>3. 1 <= Len(program[t]) /\ program[t][1][1] = "condwait"
  BY <1>1, <1>2, Zenon DEF Does, Op
<1>4. 1 \in 1 .. Len(program[t])
  BY <1>2, <1>3
<1>5. 1 > 1
  BY <1>2, <1>3, <1>4, Zenon DEF CondCallsLocked
<1> QED
  BY <1>5

(* In every behaviour, for every set of threads, objects and programs:     *)
(* SyncCondvarWait returns with its mutex owned by the caller, whatever    *)
(* wakes it and however often it goes round.  Its callers lock the mutex   *)
(* first, and the table has room for every object and every thread: a wait *)
(* or a wake that fails with ENOMEM ends the call without the mutex.       *)
THEOREM CondWaitReturnsLocked ==
    ASSUME TableHoldsAll, CondCallsLocked
    PROVE  Spec => []CondReturnsLocked
<1>1. Init => MutexInv /\ SleepInv /\ CondInv
  BY MutexInvInit, SleepInit, CondInit, Zenon DEF SleepInv, MutexInv
<1>2. MutexInv /\ SleepInv /\ CondInv /\ [Next]_vars
      => MutexInv' /\ SleepInv' /\ CondInv'
  BY MutexInvStep, SleepStep, CondStep, Zenon
<1>3. CondInv => CondReturnsLocked
  BY Zenon DEF CondInv, Locked, CondReturnsLocked
<1> QED
  BY <1>1, <1>2, <1>3, PTL DEF Spec
=============================================================================
