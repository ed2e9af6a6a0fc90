----------------------------- MODULE SyncProofs -----------------------------
(***************************************************************************)
(* Mutual exclusion of SyncMutexLock and SyncMutexUnlock, for any number   *)
(* of threads, mutexes and client programs.                                *)
(***************************************************************************)
EXTENDS Sync, TLAPS

(* Labels at which the current operation is about a mutex, a semaphore. *)
MutexLabels == {"lk_load", "lk_try", "lk_wait", "lk_park", "lk_blocked", "lk_clean",
                "ul", "ul_wake", "cw_wait", "cw_park", "cw_blocked", "cw_clean"}
SemLabels == {"sw_load", "sw_try", "sw_wait", "sw_park", "sw_blocked", "sw_clean"}

Types ==
    /\ program \in Programs
    /\ pc \in [Threads -> Labels]
    /\ ip \in [Threads -> Nat \ {0}]
    /\ lval \in [Threads -> OwnerWord]
    /\ owner \in [Mutexes -> OwnerWord]
    /\ cnt \in [Objects -> Int]
    /\ held \in [Threads -> [Objects -> Int]]

Control ==
    \A t \in Threads :
       /\ pc[t] \in MutexLabels => Mtx(t) \in Mutexes
       /\ pc[t] \in SemLabels => Op(t)[2] \in Sems

(* A free mutex has no recursion count; a thread that loaded its own tid   *)
(* from the word still owns it, because nobody else can release it.        *)
FreeCount == \A m \in Mutexes : owner[m].tid = Nobody => cnt[m] = 0
OwnLoad ==
    \A t \in Threads :
       pc[t] = "lk_try" /\ lval[t].tid = t => owner[Mtx(t)].tid = t

MutexInv == Types /\ Control /\ FreeCount /\ OwnLoad /\ HolderOwns

-----------------------------------------------------------------------------
(* How a step of t moves the control of the threads. *)

Others(t) ==
    \A u \in Threads \ {t} :
       ip'[u] = ip[u] /\ pc'[u] \in {pc[u], Resumed(pc[u])}

Own(t) ==
    \/ pc'[t] \notin MutexLabels \cup SemLabels
    \/ /\ ip'[t] = ip[t]
       /\ \/ pc[t] \in MutexLabels /\ pc'[t] \in MutexLabels
          \/ pc[t] \in SemLabels /\ pc'[t] \in SemLabels
          \/ /\ pc'[t] \in MutexLabels
             /\ Does(t, "lock") \/ Does(t, "unlock") \/ Does(t, "condwait")
          \/ pc'[t] \in SemLabels /\ (Does(t, "semwait") \/ Does(t, "trywait"))

(* The first component of a call tells what the others are. *)
LEMMA OperationForms ==
    ASSUME NEW o \in Operations
    PROVE  /\ o[1] \in {"lock", "unlock"} => o[2] \in Mutexes /\ o = <<o[1], o[2]>>
           /\ o[1] = "condwait"
              => o[2] \in Conds /\ o[3] \in Mutexes /\ o = <<o[1], o[2], o[3]>>
           /\ o[1] \in {"signal", "broadcast"} => o[2] \in Conds
           /\ o[1] \in {"post", "semwait", "trywait"}
              => o[2] \in Sems /\ o = <<o[1], o[2]>>
           /\ o[1] = "join" => o[2] \in Threads
BY DEF Operations

LEMMA OpIsOperation ==
    ASSUME Types, NEW t \in Threads
    PROVE  /\ Len(program[t]) \in Nat
           /\ ip[t] <= Len(program[t])
              => ip[t] \in 1 .. Len(program[t]) /\ Op(t) \in Operations
<1>1. program[t] \in Seq(Operations) /\ ip[t] \in Nat \ {0}
  BY ProgramAssumption, Zenon DEF Types
<1> QED
  BY <1>1 DEF Op

(* What the client contract says of the current operation. *)
LEMMA OpFacts ==
    ASSUME Types, NEW t \in Threads
    PROVE  /\ Len(program[t]) \in Nat
           /\ Does(t, "lock") \/ Does(t, "unlock") \/ Does(t, "condwait")
              => Mtx(t) \in Mutexes
           /\ Does(t, "signal") \/ Does(t, "broadcast") => Op(t)[2] \in Conds
           /\ Does(t, "post") \/ Does(t, "semwait") \/ Does(t, "trywait")
              => Op(t)[2] \in Sems
           /\ Does(t, "condwait") => Op(t)[2] \in Conds
           /\ Does(t, "join") => Op(t)[2] \in Threads
BY OpIsOperation, OperationForms, Zenon DEF Does, Mtx

LEMMA GotoMoves ==
    ASSUME Types, NEW t \in Threads, NEW l \in Labels, Goto(t, l)
    PROVE  /\ pc' \in [Threads -> Labels]
           /\ pc'[t] = l
           /\ \A u \in Threads \ {t} : pc'[u] = pc[u]
BY Zenon DEF Types, Goto

LEMMA ResumedLabel ==
    ASSUME NEW l \in Labels
    PROVE  /\ Resumed(l) \in Labels
           /\ Resumed(l) # "lk_try"
           /\ Resumed(l) \in MutexLabels => l \in MutexLabels
           /\ Resumed(l) \in SemLabels => l \in SemLabels
BY DEF Resumed, Labels, MutexLabels, SemLabels

LEMMA SignalMoves ==
    ASSUME Types, NEW t \in Threads, NEW l \in Labels, NEW ns, SignalAll(ns, t, l)
    PROVE  /\ pc' \in [Threads -> Labels]
           /\ pc'[t] = l
           /\ \A u \in Threads \ {t} : pc'[u] \in {pc[u], Resumed(pc[u])}
BY ResumedLabel, Zenon DEF Types, SignalAll

LEMMA WaitMoves ==
    ASSUME Types, NEW t \in Threads, NEW n, NEW l \in Labels, NEW k \in Labels,
           WaitOn(t, n, l, k)
    PROVE  /\ pc' \in [Threads -> Labels]
           /\ pc'[t] \in {l, k}
           /\ \A u \in Threads \ {t} : pc'[u] = pc[u]
BY GotoMoves, Zenon DEF WaitOn

LEMMA SyncWaitMoves ==
    ASSUME Types, NEW t \in Threads, NEW a, NEW mode, NEW x,
           NEW l \in Labels, NEW k \in Labels, NEW j \in Labels,
           sync_wait_impl(t, a, mode, x, l, k, j)
    PROVE  /\ pc' \in [Threads -> Labels]
           /\ pc'[t] \in {l, k, j}
           /\ \A u \in Threads \ {t} : pc'[u] = pc[u]
BY GotoMoves, Zenon DEF sync_wait_impl

LEMMA StepKeepsProgram ==
    ASSUME NEW t, Step(t)
    PROVE  program' = program
BY Zenon DEF Step

LEMMA StepMoves ==
    ASSUME Types, NEW t \in Threads, Step(t)
    PROVE  /\ pc' \in [Threads -> Labels]
           /\ ip' \in [Threads -> Nat \ {0}]
           /\ Others(t)
           /\ Own(t)
<1> DEFINE Goal == /\ pc' \in [Threads -> Labels]
                   /\ ip' \in [Threads -> Nat \ {0}]
                   /\ Others(t)
                   /\ Own(t)
<1>lab. /\ {"call", "ret", "exited", "ul", "ul_wake", "sg_wake", "sp_wake",
            "jn_blocked"} \cup MutexLabels \cup SemLabels \subseteq Labels
  BY Zenon DEF Labels, MutexLabels, SemLabels
<1>ip. ip \in [Threads -> Nat \ {0}]
  BY Zenon DEF Types
<1>stay. ASSUME NEW l \in Labels, Goto(t, l), ip' = ip,
                \/ pc[t] \in MutexLabels
                \/ pc[t] \in SemLabels /\ l \notin MutexLabels
                \/ l \notin MutexLabels \cup SemLabels,
                pc[t] \in MutexLabels => l \notin SemLabels
         PROVE  Goal
  BY <1>stay, <1>ip, GotoMoves, Zenon DEF Others, Own
<1>move. ASSUME ip' = ip, pc' \in [Threads -> Labels],
                \A u \in Threads \ {t} : pc'[u] \in {pc[u], Resumed(pc[u])},
                \/ pc'[t] \notin MutexLabels \cup SemLabels
                \/ pc[t] \in MutexLabels /\ pc'[t] \in MutexLabels
                \/ pc[t] \in SemLabels /\ pc'[t] \in SemLabels
         PROVE  Goal
  BY <1>move, <1>ip, Zenon DEF Others, Own
<1>names. /\ {"lk_load", "lk_wait", "lk_park", "lk_blocked", "lk_clean"} \subseteq MutexLabels
          /\ {"sw_load", "sw_wait", "sw_park", "sw_blocked", "sw_clean"} \subseteq SemLabels
          /\ "ret" \notin MutexLabels \cup SemLabels
          /\ "ret" \in Labels
          /\ "lk_load" \in Labels /\ "lk_park" \in Labels
          /\ "lk_blocked" \in Labels /\ "lk_clean" \in Labels
          /\ "sw_load" \in Labels /\ "sw_park" \in Labels
          /\ "sw_blocked" \in Labels /\ "sw_clean" \in Labels
  BY Zenon DEF Labels, MutexLabels, SemLabels
<1>lock. CASE SyncMutexLock(t)
  <2>1. CASE LockLoad(t)
    BY <2>1, <1>stay, <1>lab, Zenon DEF LockLoad, MutexLabels, SemLabels
  <2>2. CASE LockTake(t)
    BY <2>2, <1>stay, <1>lab, Zenon DEF LockTake, TakeMutex, MutexLabels, SemLabels
  <2>3. CASE LockRecursive(t)
    BY <2>3, <1>stay, <1>lab, Zenon DEF LockRecursive, MutexLabels, SemLabels
  <2>4. CASE LockContend(t)
    BY <2>4, <1>stay, <1>lab, Zenon DEF LockContend, MutexLabels, SemLabels
  <2>5. CASE LockWait(t)
    <3>1. /\ pc' \in [Threads -> Labels] /\ pc'[t] \in {"lk_load", "ret", "lk_park"}
          /\ \A u \in Threads \ {t} : pc'[u] = pc[u]
      BY <2>5, <1>names, SyncWaitMoves, Zenon DEF LockWait
    <3>2. ip' = ip /\ pc[t] = "lk_wait"
      BY <2>5, Zenon DEF LockWait
    <3> QED
      BY <1>move, <1>names, <3>1, <3>2, Zenon
  <2>6. CASE LockPark(t)
    <3>1. /\ pc' \in [Threads -> Labels] /\ pc'[t] \in {"lk_blocked", "lk_clean"}
          /\ \A u \in Threads \ {t} : pc'[u] = pc[u]
      BY <2>6, <1>names, WaitMoves, Zenon DEF LockPark
    <3>2. ip' = ip /\ pc[t] = "lk_park"
      BY <2>6, Zenon DEF LockPark
    <3> QED
      BY <1>move, <1>names, <3>1, <3>2, Zenon
  <2>7. CASE LockClean(t)
    BY <2>7, <1>stay, <1>lab, Zenon DEF LockClean, FinishWait, MutexLabels, SemLabels
  <2> QED
    BY <1>lock, <2>1, <2>2, <2>3, <2>4, <2>5, <2>6, <2>7, Zenon DEF SyncMutexLock
<1>unlock. CASE SyncMutexUnlock(t)
  <2>1. CASE UnlockRefused(t)
    BY <2>1, <1>stay, <1>lab, Zenon DEF UnlockRefused, MutexLabels, SemLabels
  <2>2. CASE UnlockNested(t)
    BY <2>2, <1>stay, <1>lab, Zenon DEF UnlockNested, MutexLabels, SemLabels
  <2>3. CASE UnlockRelease(t)
    BY <2>3, <1>stay, <1>lab, Zenon DEF UnlockRelease, MutexLabels, SemLabels
  <2>4. CASE UnlockWake(t)
    BY <2>4, <1>lab, <1>ip, SignalMoves
       DEF UnlockWake, sync_wake_impl, Others, Own, MutexLabels, SemLabels
  <2> QED
    BY <1>unlock, <2>1, <2>2, <2>3, <2>4, Zenon DEF SyncMutexUnlock
<1>cond. CASE SyncCondvar(t)
  <2>1. CASE CondWait(t)
    BY <2>1, <1>lab, <1>ip, SyncWaitMoves DEF CondWait, Others, Own, MutexLabels, SemLabels
  <2>2. CASE CondPark(t)
    BY <2>2, <1>lab, <1>ip, WaitMoves DEF CondPark, Others, Own, MutexLabels, SemLabels
  <2>3. CASE CondClean(t)
    BY <2>3, <1>stay, <1>lab, Zenon DEF CondClean, FinishWait, MutexLabels, SemLabels
  <2>4. CASE SignalWake(t)
    BY <2>4, <1>lab, <1>ip, SignalMoves
       DEF SignalWake, sync_wake_impl, Others, Own, MutexLabels, SemLabels
  <2> QED
    BY <1>cond, <2>1, <2>2, <2>3, <2>4, Zenon DEF SyncCondvar
<1>sem. CASE SyncSem(t)
  <2>1. CASE PostWake(t)
    <3>1. PICK ns : SignalAll(ns, t, "ret")
      BY <2>1, Zenon DEF PostWake, sync_wake_impl
    <3>2. ip' = ip
      BY <2>1, Zenon DEF PostWake
    <3>3. /\ pc' \in [Threads -> Labels] /\ pc'[t] = "ret"
          /\ \A u \in Threads \ {t} : pc'[u] \in {pc[u], Resumed(pc[u])}
      BY <1>names, <3>1, SignalMoves, Zenon
    <3> QED
      BY <1>move, <1>names, <3>2, <3>3, Zenon
  <2>2. CASE SemLoad(t)
    BY <2>2, <1>stay, <1>lab, Zenon DEF SemLoad, MutexLabels, SemLabels
  <2>3. CASE SemClaim(t)
    BY <2>3, <1>stay, <1>lab, Zenon DEF SemClaim, MutexLabels, SemLabels
  <2>4. CASE SemWait(t)
    <3>1. /\ pc' \in [Threads -> Labels] /\ pc'[t] \in {"sw_load", "ret", "sw_park"}
          /\ \A u \in Threads \ {t} : pc'[u] = pc[u]
      BY <2>4, <1>names, SyncWaitMoves DEF SemWait
    <3>2. ip' = ip /\ pc[t] = "sw_wait"
      BY <2>4, Zenon DEF SemWait
    <3> QED
      BY <1>move, <1>names, <3>1, <3>2, Zenon
  <2>5. CASE SemPark(t)
    <3>1. /\ pc' \in [Threads -> Labels] /\ pc'[t] \in {"sw_blocked", "sw_clean"}
          /\ \A u \in Threads \ {t} : pc'[u] = pc[u]
      BY <2>5, <1>names, WaitMoves, Zenon DEF SemPark
    <3>2. ip' = ip /\ pc[t] = "sw_park"
      BY <2>5, Zenon DEF SemPark
    <3> QED
      BY <1>move, <1>names, <3>1, <3>2, Zenon
  <2>6. CASE SemClean(t)
    BY <2>6, <1>stay, <1>lab, Zenon DEF SemClean, FinishWait, MutexLabels, SemLabels
  <2> QED
    BY <1>sem, <2>1, <2>2, <2>3, <2>4, <2>5, <2>6, Zenon DEF SyncSem
<1>client. CASE Client(t)
  <2>1. CASE CallLock(t) \/ CallUnlock(t) \/ CallCondWait(t)
    BY <2>1, <1>lab, <1>ip, GotoMoves, Zenon
       DEF CallLock, CallUnlock, CallCondWait, Others, Own, MutexLabels, SemLabels
  <2>2. CASE CallSignal(t)
    BY <2>2, <1>stay, <1>lab, Zenon DEF CallSignal, MutexLabels, SemLabels
  <2>3. CASE CallPost(t)
    BY <2>3, <1>stay, <1>lab, Zenon DEF CallPost, MutexLabels, SemLabels
  <2>4. CASE CallSemWait(t)
    BY <2>4, <1>lab, <1>ip, GotoMoves, Zenon
       DEF CallSemWait, Others, Own, MutexLabels, SemLabels
  <2>5. CASE CallSet(t)
    BY <2>5, <1>stay, <1>lab, Zenon DEF CallSet, MutexLabels, SemLabels
  <2>6. CASE LeaveLoop(t)
    BY <2>6, <1>ip DEF LeaveLoop, Types, Others, Own, MutexLabels, SemLabels
  <2>7. CASE ThreadJoin(t)
    BY <2>7, <1>lab, <1>ip, WaitMoves DEF ThreadJoin, Others, Own, MutexLabels, SemLabels
  <2>8. CASE ThreadDestroy(t)
    BY <2>8, <1>lab, <1>ip, SignalMoves
       DEF ThreadDestroy, Others, Own, MutexLabels, SemLabels
  <2>9. CASE Return(t)
    <3>1. Len(program[t]) + 1 \in Nat \ {0} /\ ip[t] + 1 \in Nat \ {0}
      BY <1>ip, OpFacts
    <3> QED
      BY <2>9, <3>1, <1>lab, <1>ip, GotoMoves DEF Return, Others, Own, MutexLabels, SemLabels
  <2> QED
    BY <1>client, <2>1, <2>2, <2>3, <2>4, <2>5, <2>6, <2>7, <2>8, <2>9, Zenon DEF Client
<1> QED
  BY <1>lock, <1>unlock, <1>cond, <1>sem, <1>client, Zenon DEF Step

LEMMA ControlStep ==
    ASSUME Types, Control, NEW t \in Threads, Step(t)
    PROVE  Control'
<1>1. /\ Others(t) /\ Own(t) /\ program' = program
      /\ pc \in [Threads -> Labels] /\ ip \in [Threads -> Nat \ {0}]
  BY StepMoves, StepKeepsProgram, Zenon DEF Types
<1>2. ASSUME NEW u \in Threads \ {t}
      PROVE  /\ pc'[u] \in MutexLabels => Mtx(u)' \in Mutexes
             /\ pc'[u] \in SemLabels => Op(u)'[2] \in Sems
  <2>1. /\ pc'[u] \in MutexLabels => pc[u] \in MutexLabels
        /\ pc'[u] \in SemLabels => pc[u] \in SemLabels
    BY <1>1, <1>2, ResumedLabel DEF Others
  <2>2. Op(u)' = Op(u)
    BY <1>1, Zenon DEF Others, Op
  <2>3. Mtx(u)' = Mtx(u)
    BY <2>2, Zenon DEF Mtx
  <2> QED
    BY <2>1, <2>2, <2>3, Zenon DEF Control
<1>3. /\ pc'[t] \in MutexLabels => Mtx(t)' \in Mutexes
      /\ pc'[t] \in SemLabels => Op(t)'[2] \in Sems
  <2>1. CASE pc'[t] \notin MutexLabels \cup SemLabels
    BY <2>1, Zenon
  <2>2. CASE ip'[t] = ip[t] /\ pc'[t] \in MutexLabels \cup SemLabels
    <3>1. Op(t)' = Op(t)
      BY <1>1, <2>2, Zenon DEF Op
    <3>2. Mtx(t)' = Mtx(t)
      BY <3>1, Zenon DEF Mtx
    <3>3. MutexLabels \cap SemLabels = {}
      BY Zenon DEF MutexLabels, SemLabels
    <3>4. /\ Does(t, "lock") \/ Does(t, "unlock") \/ Does(t, "condwait")
             => Mtx(t) \in Mutexes
          /\ Does(t, "semwait") \/ Does(t, "trywait") => Op(t)[2] \in Sems
      BY OpFacts, Zenon
    <3> QED
      BY <1>1, <2>2, <3>1, <3>2, <3>3, <3>4, Zenon DEF Own, Control
  <2> QED
    BY <1>1, <2>1, <2>2, Zenon DEF Own
<1> QED
  BY <1>2, <1>3, Zenon DEF Control

-----------------------------------------------------------------------------
(* How a step changes the mutexes.  Quiet: not at all, for any mutex. *)

Quiet ==
    /\ owner' = owner /\ lval' = lval
    /\ cnt' \in [Objects -> Int] /\ held' \in [Threads -> [Objects -> Int]]
    /\ \A m \in Mutexes : cnt'[m] = cnt[m]
    /\ \A u \in Threads, m \in Mutexes : held'[u][m] = held[u][m]

Data == FreeCount /\ OwnLoad /\ HolderOwns

LEMMA QuietStep ==
    ASSUME MutexInv, NEW t \in Threads, Step(t), Quiet, pc'[t] # "lk_try"
    PROVE  Data'
<1>1. FreeCount' /\ HolderOwns'
  BY DEF MutexInv, Quiet, FreeCount, HolderOwns
<1>2. OwnLoad'
  <2> SUFFICES ASSUME NEW u \in Threads, pc'[u] = "lk_try", lval'[u].tid = u
               PROVE  owner'[Mtx(u)'].tid = u
    BY Zenon DEF OwnLoad
  <2>1. u # t
    BY Zenon
  <2>2. program' = program /\ ip'[u] = ip[u] /\ pc'[u] \in {pc[u], Resumed(pc[u])}
    BY <2>1, StepMoves, StepKeepsProgram, Zenon DEF MutexInv, Others
  <2>3. pc[u] = "lk_try"
    BY <2>2, ResumedLabel, Zenon DEF MutexInv, Types
  <2>4. Mtx(u)' = Mtx(u)
    BY <2>2, Zenon DEF Mtx, Op
  <2> QED
    BY <2>3, <2>4, Zenon DEF MutexInv, OwnLoad, Quiet
<1> QED
  BY <1>1, <1>2, Zenon DEF Data

(* The control of the threads other than t, as OwnLoad sees it. *)
LEMMA OtherTry ==
    ASSUME MutexInv, NEW t \in Threads, Step(t),
           NEW u \in Threads \ {t}, pc'[u] = "lk_try"
    PROVE  pc[u] = "lk_try" /\ Mtx(u)' = Mtx(u) /\ Mtx(u) \in Mutexes
<1>1. program' = program /\ ip'[u] = ip[u] /\ pc'[u] \in {pc[u], Resumed(pc[u])}
  BY StepMoves, StepKeepsProgram, Zenon DEF MutexInv, Others
<1>2. pc[u] = "lk_try"
  BY <1>1, ResumedLabel, Zenon DEF MutexInv, Types
<1> QED
  BY <1>1, <1>2, Zenon DEF Mtx, Op, MutexInv, Control, MutexLabels

LEMMA Words ==
    ASSUME NEW w \in OwnerWord
    PROVE  /\ w.tid \in Threads \cup {Nobody}
           /\ w.waiters \in BOOLEAN
           /\ [w EXCEPT !.waiters = TRUE] \in OwnerWord
           /\ [w EXCEPT !.waiters = TRUE].tid = w.tid
           /\ \A t \in Threads : [tid |-> t, waiters |-> w.waiters] \in OwnerWord
           /\ FreeWord \in OwnerWord /\ FreeWord.tid = Nobody
BY Zenon DEF OwnerWord, FreeWord

LEMMA NobodyFacts == Nobody \notin Threads /\ Mutexes \subseteq Objects
BY ThreadsAssumption, Zenon DEF Nobody, Objects

(* The typed part of the state that only mutex and semaphore steps write. *)
Cells ==
    /\ lval \in [Threads -> OwnerWord]
    /\ owner \in [Mutexes -> OwnerWord]
    /\ cnt \in [Objects -> Int]
    /\ held \in [Threads -> [Objects -> Int]]

LEMMA DataStep ==
    ASSUME MutexInv, NEW t \in Threads, Step(t)
    PROVE  Cells' /\ Data'
<1> DEFINE m == Mtx(t)
<1>ty. /\ Types /\ Control /\ FreeCount /\ OwnLoad /\ HolderOwns /\ Cells
  BY Zenon DEF MutexInv, Types, Cells
<1>mv. pc' \in [Threads -> Labels] /\ Others(t) /\ Own(t) /\ program' = program
  BY <1>ty, StepMoves, StepKeepsProgram, Zenon
<1>own. pc[t] \in MutexLabels => m \in Mutexes /\ m \in Objects
  BY <1>ty, NobodyFacts, Zenon DEF Control
<1>quiet. ASSUME Quiet, pc'[t] # "lk_try" PROVE Cells' /\ Data'
  BY <1>quiet, <1>ty, QuietStep, Zenon DEF Cells, Quiet
<1>same. ASSUME UNCHANGED <<owner, lval, cnt, held>>, pc'[t] # "lk_try"
         PROVE  Cells' /\ Data'
  BY <1>same, <1>quiet, <1>ty, Zenon DEF Cells, Quiet
<1>1. CASE LockLoad(t)
  <2>1. /\ pc[t] = "lk_load" /\ pc' = [pc EXCEPT ![t] = "lk_try"]
        /\ lval' = [lval EXCEPT ![t] = owner[m]] /\ UNCHANGED <<ip, owner, cnt, held>>
    BY <1>1, Zenon DEF LockLoad, Goto
  <2>2. m \in Mutexes /\ Mtx(t)' = m
    BY <1>own, <1>mv, <2>1, Zenon DEF MutexLabels, Mtx, Op
  <2>3. Cells'
    BY <1>ty, <2>1, <2>2, Zenon DEF Cells
  <2>4. FreeCount' /\ HolderOwns'
    BY <1>ty, <2>1 DEF FreeCount, HolderOwns
  <2>5. OwnLoad'
    <3> SUFFICES ASSUME NEW u \in Threads, pc'[u] = "lk_try", lval'[u].tid = u
                 PROVE  owner'[Mtx(u)'].tid = u
      BY Zenon DEF OwnLoad
    <3>1. CASE u = t
      BY <3>1, <1>ty, <2>1, <2>2, Zenon DEF Cells
    <3>2. CASE u # t
      BY <3>2, <1>ty, <2>1, OtherTry DEF OwnLoad, Cells
    <3> QED
      BY <3>1, <3>2, Zenon
  <2> QED
    BY <2>3, <2>4, <2>5, Zenon DEF Data
<1>2. CASE LockTake(t)
  <2>1. pc[t] = "lk_try" /\ m \in Mutexes /\ m \in Objects /\ lval[t].tid = Nobody
    BY <1>2, <1>own, Zenon DEF LockTake, MutexLabels
  <2>2. CASE owner[m] # lval[t]
    <3>1. UNCHANGED <<owner, lval, cnt, held>> /\ pc' = [pc EXCEPT ![t] = "lk_load"]
      BY <1>2, <2>2, Zenon DEF LockTake, Goto
    <3> QED
      BY <3>1, <1>same, <1>ty, Zenon DEF Types
  <2>3. CASE owner[m] = lval[t]
    <3> DEFINE w == [tid |-> t, waiters |-> lval[t].waiters]
    <3>1. /\ owner' = [owner EXCEPT ![m] = w]
          /\ held' = [held EXCEPT ![t][m] = 1]
          /\ pc' = [pc EXCEPT ![t] = "ret"]
          /\ UNCHANGED <<lval, cnt>>
      BY <1>2, <2>3, Zenon DEF LockTake, TakeMutex, Goto
    <3>2. w \in OwnerWord /\ w.tid = t /\ owner[m].tid = Nobody /\ cnt[m] = 0
      BY <1>ty, <2>1, <2>3, Words, Zenon DEF Cells, FreeCount
    <3> HIDE DEF w
    <3>3. Cells'
      BY <1>ty, <2>1, <3>1, <3>2 DEF Cells
    <3>4. FreeCount'
      BY <1>ty, <2>1, <3>1, <3>2, NobodyFacts, Zenon DEF FreeCount, Cells
    <3>5. HolderOwns'
      BY <1>ty, <2>1, <3>1, <3>2, NobodyFacts DEF HolderOwns, Cells
    <3>6. OwnLoad'
      <4> SUFFICES ASSUME NEW u \in Threads, pc'[u] = "lk_try", lval'[u].tid = u
                   PROVE  owner'[Mtx(u)'].tid = u
        BY Zenon DEF OwnLoad
      <4>1. u # t
        BY <1>ty, <3>1, Zenon DEF Types
      <4>2. pc[u] = "lk_try" /\ Mtx(u)' = Mtx(u) /\ Mtx(u) \in Mutexes
        BY <4>1, OtherTry, Zenon
      <4>3. owner[Mtx(u)].tid = u
        BY <1>ty, <3>1, <4>2, Zenon DEF OwnLoad
      <4>4. Mtx(u) # m
        BY <3>2, <4>3, NobodyFacts
      <4> QED
        BY <1>ty, <3>1, <4>2, <4>3, <4>4, Zenon DEF Cells
    <3> QED
      BY <3>3, <3>4, <3>5, <3>6 DEF Data
  <2> QED
    BY <2>2, <2>3, Zenon
<1>3. CASE LockRecursive(t)
  <2>1. /\ pc[t] = "lk_try" /\ m \in Mutexes /\ m \in Objects /\ lval[t].tid = t
        /\ cnt' = [cnt EXCEPT ![m] = @ + 1]
        /\ held' = [held EXCEPT ![t][m] = @ + 1]
        /\ pc' = [pc EXCEPT ![t] = "ret"]
        /\ UNCHANGED <<lval, owner>>
    BY <1>3, <1>own, Zenon DEF LockRecursive, MutexLabels, Goto
  <2>2. owner[m].tid = t
    BY <1>ty, <2>1, Zenon DEF OwnLoad
  <2>3. cnt[m] \in Int /\ held[t][m] \in Int /\ held[t][m] > 0 /\ cnt[m] = held[t][m] - 1
    BY <1>ty, <2>1, <2>2 DEF HolderOwns, Cells
  <2>4. Cells'
    BY <1>ty, <2>1, <2>3 DEF Cells
  <2>5. FreeCount'
    BY <1>ty, <2>1, <2>2, NobodyFacts, Zenon DEF FreeCount, Cells
  <2>6. HolderOwns'
    BY <1>ty, <2>1, <2>2, <2>3 DEF HolderOwns, Cells
  <2>7. OwnLoad'
    BY <1>ty, <2>1, OtherTry DEF OwnLoad, Types
  <2> QED
    BY <2>4, <2>5, <2>6, <2>7, Zenon DEF Data
<1>4. CASE LockContend(t)
  <2>1. pc[t] = "lk_try" /\ m \in Mutexes /\ UNCHANGED <<lval, cnt, held>>
        /\ pc'[t] # "lk_try"
    BY <1>4, <1>own, <1>ty, Zenon DEF LockContend, MutexLabels, Goto, Types
  <2>2. CASE owner' = owner
    BY <2>1, <2>2, <1>same, Zenon
  <2>3. CASE owner' = [owner EXCEPT ![m].waiters = TRUE]
    <3>1. \A k \in Mutexes : owner'[k] \in OwnerWord /\ owner'[k].tid = owner[k].tid
      BY <1>ty, <2>1, <2>3, Words, Zenon DEF Cells
    <3>2. Cells'
      BY <1>ty, <2>1, <2>3, <3>1, Zenon DEF Cells
    <3>3. FreeCount' /\ HolderOwns'
      BY <1>ty, <2>1, <3>1 DEF FreeCount, HolderOwns
    <3>4. OwnLoad'
      BY <1>ty, <2>1, <3>1, OtherTry DEF OwnLoad
    <3> QED
      BY <3>2, <3>3, <3>4, Zenon DEF Data
  <2> QED
    BY <1>4, <2>2, <2>3, Zenon DEF LockContend
<1>5. CASE UnlockNested(t)
  <2>1. /\ m \in Mutexes /\ m \in Objects /\ owner[m].tid = t /\ cnt[m] > 0
        /\ cnt' = [cnt EXCEPT ![m] = @ - 1]
        /\ held' = [held EXCEPT ![t][m] = @ - 1]
        /\ pc'[t] # "lk_try"
        /\ UNCHANGED <<lval, owner>>
    BY <1>5, <1>own, <1>ty, Zenon DEF UnlockNested, MutexLabels, Goto, Types
  <2>2. cnt[m] \in Int /\ held[t][m] \in Int /\ held[t][m] > 0 /\ cnt[m] = held[t][m] - 1
    BY <1>ty, <2>1 DEF HolderOwns, Cells
  <2>3. Cells'
    BY <1>ty, <2>1, <2>2 DEF Cells
  <2>4. FreeCount'
    BY <1>ty, <2>1, NobodyFacts, Zenon DEF FreeCount, Cells
  <2>5. HolderOwns'
    BY <1>ty, <2>1, <2>2 DEF HolderOwns, Cells
  <2>6. OwnLoad'
    BY <1>ty, <2>1, OtherTry, Zenon DEF OwnLoad
  <2> QED
    BY <2>3, <2>4, <2>5, <2>6, Zenon DEF Data
<1>6. CASE UnlockRelease(t)
  <2>1. /\ m \in Mutexes /\ m \in Objects /\ owner[m].tid = t /\ cnt[m] = 0
        /\ owner' = [owner EXCEPT ![m] = FreeWord]
        /\ held' = [held EXCEPT ![t][m] = 0]
        /\ pc'[t] # "lk_try"
        /\ UNCHANGED <<lval, cnt>>
    BY <1>6, <1>own, <1>ty, Zenon DEF UnlockRelease, MutexLabels, Goto, Types
  <2>2. FreeWord \in OwnerWord /\ FreeWord.tid = Nobody
    BY Zenon DEF FreeWord, OwnerWord
  <2>3. Cells'
    BY <1>ty, <2>1, <2>2, Zenon DEF Cells
  <2>4. FreeCount'
    BY <1>ty, <2>1, <2>2, Zenon DEF FreeCount, Cells
  <2>5. HolderOwns'
    BY <1>ty, <2>1, <2>2, NobodyFacts DEF HolderOwns, Cells
  <2>6. OwnLoad'
    BY <1>ty, <2>1, OtherTry DEF OwnLoad, Cells
  <2> QED
    BY <2>3, <2>4, <2>5, <2>6, Zenon DEF Data
<1>7. CASE CallSignal(t) \/ CallPost(t) \/ SemClaim(t)
  <2> DEFINE a == Op(t)[2]
  <2>1. a \in Objects /\ a \notin Mutexes
    <3>2. CASE CallSignal(t)
      BY <3>2, <1>ty, OpFacts, MutexesAssumption, Zenon DEF CallSignal, Objects
    <3>3. CASE CallPost(t)
      BY <3>3, <1>ty, OpFacts, MutexesAssumption, Zenon DEF CallPost, Objects
    <3>4. CASE SemClaim(t)
      BY <3>4, <1>ty, MutexesAssumption, Zenon DEF SemClaim, Control, SemLabels, Objects
    <3> QED
      BY <1>7, <3>2, <3>3, <3>4, Zenon
  <2>2. /\ \/ cnt' = cnt \/ cnt' = [cnt EXCEPT ![a] = @ + 1] \/ cnt' = [cnt EXCEPT ![a] = @ - 1]
        /\ \/ held' = held \/ held' = [held EXCEPT ![t][a] = @ + 1]
           \/ held' = [held EXCEPT ![t][a] = @ - 1]
        /\ UNCHANGED <<owner, lval>>
    BY <1>7, Zenon DEF CallSignal, CallPost, SemClaim
  <2>3. pc'[t] # "lk_try"
    BY <1>7, <1>ty, Zenon DEF CallSignal, CallPost, SemClaim, Goto, Types
  <2> HIDE DEF a
  <2>4. /\ cnt' \in [Objects -> Int]
        /\ \A k \in Mutexes : cnt'[k] = cnt[k]
    BY <1>ty, <2>1, <2>2, NobodyFacts DEF Cells
  <2>5. /\ held' \in [Threads -> [Objects -> Int]]
        /\ \A u \in Threads, k \in Mutexes : held'[u][k] = held[u][k]
    BY <1>ty, <2>1, <2>2, NobodyFacts DEF Cells
  <2> QED
    BY <1>quiet, <2>2, <2>3, <2>4, <2>5, Zenon DEF Quiet
<1>8. CASE \/ LockWait(t) \/ LockPark(t) \/ LockClean(t) \/ UnlockRefused(t)
          \/ UnlockWake(t) \/ SyncCondvar(t) \/ PostWake(t) \/ SemLoad(t)
          \/ SemWait(t) \/ SemPark(t) \/ SemClean(t) \/ CallLock(t)
          \/ CallUnlock(t) \/ CallCondWait(t) \/ CallSemWait(t) \/ CallSet(t)
          \/ LeaveLoop(t) \/ ThreadJoin(t) \/ ThreadDestroy(t) \/ Return(t)
  <2>1. UNCHANGED <<owner, lval, cnt, held>>
    BY <1>8, Zenon DEF LockWait, LockPark, LockClean, UnlockRefused, UnlockWake, SyncCondvar,
       CondWait, CondPark, CondClean, SignalWake, PostWake, SemLoad, SemWait, SemPark,
       SemClean, CallLock, CallUnlock, CallCondWait, CallSemWait, CallSet, LeaveLoop,
       ThreadJoin, ThreadDestroy, Return
  <2>2. pc'[t] # "lk_try"
    <3>1. CASE LockWait(t) \/ CondWait(t) \/ SemWait(t)
      <4>0. /\ "lk_load" \in Labels /\ "lk_park" \in Labels /\ "ret" \in Labels
            /\ "sw_load" \in Labels /\ "sw_park" \in Labels
        BY Zenon DEF Labels
      <4>1. CASE LockWait(t)
        <5>1. pc'[t] \in {"lk_load", "ret", "lk_park"}
          BY <4>0, <4>1, <1>ty, SyncWaitMoves, Zenon DEF LockWait
        <5> QED
          BY <5>1, Zenon
      <4>2. CASE CondWait(t)
        <5>1. pc'[t] \in {"lk_load", "cw_park"}
          BY <4>2, <1>ty, Zenon DEF CondWait, sync_wait_impl, Goto, Types
        <5> QED
          BY <5>1, Zenon
      <4>3. CASE SemWait(t)
        <5>1. pc'[t] \in {"sw_load", "ret", "sw_park"}
          <6>1. PICK a : sync_wait_impl(t, a, "credit", 0, "sw_load", "ret", "sw_park")
            BY <4>3, Zenon DEF SemWait
          <6> QED
            BY <4>0, <1>ty, <6>1, SyncWaitMoves, Zenon
        <5> QED
          BY <5>1, Zenon
      <4> QED
        BY <3>1, <4>1, <4>2, <4>3, Zenon
    <3>2. CASE LockPark(t) \/ CondPark(t) \/ SemPark(t) \/ ThreadJoin(t)
      <4>1. CASE LockPark(t)
        <5>1. "lk_blocked" \in Labels /\ "lk_clean" \in Labels
          BY Zenon DEF Labels
        <5>2. pc'[t] \in {"lk_blocked", "lk_clean"}
          BY <4>1, <5>1, <1>ty, WaitMoves, Zenon DEF LockPark
        <5> QED
          BY <5>2, Zenon
      <4>2. CASE CondPark(t)
        <5>1. "cw_blocked" \in Labels /\ "cw_clean" \in Labels
          BY Zenon DEF Labels
        <5>2. pc'[t] \in {"cw_blocked", "cw_clean"}
          BY <4>2, <5>1, <1>ty, WaitMoves, Zenon DEF CondPark
        <5> QED
          BY <5>2, Zenon
      <4>3. CASE SemPark(t)
        <5>1. "sw_blocked" \in Labels /\ "sw_clean" \in Labels
          BY Zenon DEF Labels
        <5>2. pc'[t] \in {"sw_blocked", "sw_clean"}
          BY <4>3, <5>1, <1>ty, WaitMoves, Zenon DEF SemPark
        <5> QED
          BY <5>2, Zenon
      <4>4. CASE ThreadJoin(t)
        <5>1. "jn_blocked" \in Labels /\ "ret" \in Labels
          BY Zenon DEF Labels
        <5>2. pc'[t] \in {"jn_blocked", "ret"}
          BY <4>4, <5>1, <1>ty, WaitMoves DEF ThreadJoin
        <5> QED
          BY <5>2, Zenon
      <4> QED
        BY <3>2, <4>1, <4>2, <4>3, <4>4, Zenon
    <3>3. CASE UnlockWake(t) \/ SignalWake(t) \/ PostWake(t) \/ ThreadDestroy(t)
      BY <3>3, <1>ty, SignalMoves, Zenon
         DEF UnlockWake, SignalWake, PostWake, ThreadDestroy, sync_wake_impl, Labels
    <3>4. CASE LockClean(t) \/ CondClean(t) \/ SemClean(t)
      BY <3>4, <1>ty, SMTT(30) DEF LockClean, CondClean, SemClean, FinishWait, Goto, Types
    <3>5. CASE \/ UnlockRefused(t) \/ SemLoad(t) \/ CallLock(t) \/ CallUnlock(t)
              \/ CallCondWait(t) \/ CallSemWait(t) \/ CallSet(t) \/ LeaveLoop(t)
              \/ Return(t)
      BY <3>5, <1>ty, Zenon DEF UnlockRefused, SemLoad, CallLock, CallUnlock, CallCondWait,
         CallSemWait, CallSet, LeaveLoop, Return, Goto, Types
    <3> QED
      BY <1>8, <3>1, <3>2, <3>3, <3>4, <3>5, Zenon DEF SyncCondvar
  <2> QED
    BY <2>1, <2>2, <1>same, Zenon
<1> QED
  BY <1>1, <1>2, <1>3, <1>4, <1>5, <1>6, <1>7, <1>8, Zenon
     DEF Step, SyncMutexLock, SyncMutexUnlock, SyncSem, Client

-----------------------------------------------------------------------------
LEMMA MutexInvInit ==
    ASSUME Init
    PROVE  MutexInv
<1>1. Types
  BY BoundsAssumption DEF Init, Types, Labels, FreeWord, OwnerWord
<1>2. Control
  BY Zenon DEF Init, Control, MutexLabels, SemLabels
<1>3. FreeCount
  BY MutexesAssumption, Zenon DEF Init, FreeCount, Objects
<1>4. OwnLoad
  BY Zenon DEF Init, OwnLoad
<1>5. HolderOwns
  BY NobodyFacts DEF Init, HolderOwns, FreeWord
<1> QED
  BY <1>1, <1>2, <1>3, <1>4, <1>5, Zenon DEF MutexInv

LEMMA MutexInvStep ==
    ASSUME MutexInv, [Next]_vars
    PROVE  MutexInv'
<1>1. ASSUME NEW t \in Threads, Step(t) PROVE MutexInv'
  <2>1. Cells' /\ Data'
    BY <1>1, DataStep, Zenon
  <2>2. /\ Control' /\ program' = program
        /\ pc' \in [Threads -> Labels] /\ ip' \in [Threads -> Nat \ {0}]
    BY <1>1, ControlStep, StepMoves, StepKeepsProgram, SMTT(30) DEF MutexInv
  <2> QED
    BY <2>1, <2>2, Zenon DEF MutexInv, Types, Cells, Data
<1>2. CASE UNCHANGED vars
  BY <1>2 DEF MutexInv, vars, Types, Control, FreeCount, OwnLoad, HolderOwns, Mtx, Op
<1> QED
  BY <1>1, <1>2, Zenon DEF Next, Finished

(* Mutual exclusion: in every behaviour, for every number of threads,      *)
(* mutexes, programs, and table sizes, a thread that SyncMutexLock told it *)
(* has the mutex is the only owner of its word, however sync_wait and      *)
(* sync_wake behave.                                                       *)
THEOREM MutualExclusion == Spec => []HolderOwns
<1>1. Init => MutexInv
  BY MutexInvInit, Zenon
<1>2. MutexInv /\ [Next]_vars => MutexInv'
  BY MutexInvStep, Zenon
<1>3. MutexInv => HolderOwns
  BY Zenon DEF MutexInv
<1> QED
  BY <1>1, <1>2, <1>3, PTL DEF Spec
=============================================================================
