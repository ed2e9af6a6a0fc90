-------------------------------- MODULE Sync --------------------------------
(***************************************************************************)
(* The Sync* primitives of libc (libc/qsoe/sync.c): mutexes, condition     *)
(* variables and semaphores over an in-process, address-keyed wait/wake    *)
(* table, with the joining of threads that shares their Notifications      *)
(* (libc/qsoe/thread.c).                                                   *)
(*                                                                         *)
(* A step is one atomic access to a sync_t, one system call, or one        *)
(* section under the table lock.  The lock is a Notification that holds    *)
(* one token: a section neither blocks nor touches anything but g_sync and *)
(* the Notifications it signals, so it is one step.                        *)
(*                                                                         *)
(* Threads run one of the straight-line client programs of Programs.  The  *)
(* operations are <<"lock", m>>, <<"unlock", m>>, <<"condwait", c, m>> for *)
(* while (!flag) SyncCondvarWait(c, m), <<"set">> for flag = 1,            *)
(* <<"signal", c>>, <<"broadcast", c>>, <<"post", s>>, <<"semwait", s>>,   *)
(* <<"trywait", s>> and <<"join", t>>.                                     *)
(***************************************************************************)
EXTENDS Integers, Sequences, FiniteSets, FiniteSetsExt

CONSTANTS Threads,     \* thread ids
          Mutexes,
          Conds,
          Sems,
          SemInit,     \* initial count of every semaphore
          Programs,    \* client programs: functions from Threads to sequences
          MaxEntries,  \* SYNC_MAX_ENTRIES
          MaxWaiters   \* SYNC_MAX_WAITERS

ASSUME ThreadsAssumption == Threads \subseteq Nat \ {0}
ASSUME MutexesAssumption == Mutexes \cap (Conds \cup Sems) = {}
ASSUME BoundsAssumption == /\ MaxEntries \in Nat \ {0}
                           /\ MaxWaiters \in Nat \ {0}
                           /\ SemInit \in Nat
(* The calls a client can make: each is passed an object of the kind it    *)
(* expects.                                                                *)
Operations ==
    {"lock", "unlock"} \X Mutexes \cup {"condwait"} \X Conds \X Mutexes
    \cup {<<"set">>} \cup {"signal", "broadcast"} \X Conds
    \cup {"post", "semwait", "trywait"} \X Sems \cup {"join"} \X Threads
ASSUME ProgramAssumption == Programs \subseteq [Threads -> Seq(Operations)]

VARIABLES program,  \* what the threads run
          pc,       \* where thread t is
          ip,       \* index of its current operation
          lval,     \* the owner word it loaded last
          cval,     \* the count it loaded last
          owner,    \* the owner word of each mutex
          cnt,      \* the count of each object
          g_sync,   \* the table, by address
          pending,  \* the pending bit of each thread's join_ntfn
          queue,    \* the threads blocked on it, in the kernel's order
          held,     \* what each thread knows it holds of each object
          flag      \* the clients' shared predicate

vars == <<program, pc, ip, lval, cval, owner, cnt, g_sync, pending, queue, held, flag>>
kernel == <<pending, queue>>

Objects == Mutexes \cup Conds \cup Sems
Nobody == 0
OwnerWord == [tid: Threads \cup {Nobody}, waiters: BOOLEAN]
FreeWord == [tid |-> Nobody, waiters |-> FALSE]
NoEntry == [in_use |-> FALSE, credit |-> 0, gen |-> 0, waiters |-> <<>>]

Op(t) == program[t][ip[t]]
Does(t, name) == ip[t] <= Len(program[t]) /\ Op(t)[1] = name
(* The mutex the current operation is about. *)
Mtx(t) == IF Op(t)[1] = "condwait" THEN Op(t)[3] ELSE Op(t)[2]

Goto(t, label) == pc' = [pc EXCEPT ![t] = label]

-----------------------------------------------------------------------------
(* Notifications and the table. *)

(* Where a thread goes when the Notification it blocks on is signalled. *)
Resumed(label) == CASE label = "lk_blocked" -> "lk_clean"
                    [] label = "cw_blocked" -> "cw_clean"
                    [] label = "sw_blocked" -> "sw_clean"
                    [] OTHER -> "ret"

(* Mutant: a signal that finds nobody blocked is forgotten. *)
SignalNotSticky(ns, t, label) ==
    LET woken == {Head(queue[n]) : n \in {m \in ns : queue[m] # <<>>}} IN
    /\ queue' = [n \in Threads |-> IF n \in ns /\ queue[n] # <<>>
                                   THEN Tail(queue[n]) ELSE queue[n]]
    /\ pc' = [u \in Threads |-> IF u = t THEN label
                                ELSE IF u \in woken THEN Resumed(pc[u]) ELSE pc[u]]
    /\ UNCHANGED pending

(* qsoe_sys_signal on the Notifications of a set of threads, while t goes  *)
(* on to label: the first blocked thread resumes, else the bit is set.     *)
SignalAll(ns, t, label) ==
    LET woken == {Head(queue[n]) : n \in {m \in ns : queue[m] # <<>>}} IN
    /\ pending' = [n \in Threads |-> pending[n] \/ (n \in ns /\ queue[n] = <<>>)]
    /\ queue' = [n \in Threads |-> IF n \in ns /\ queue[n] # <<>>
                                   THEN Tail(queue[n]) ELSE queue[n]]
    /\ pc' = [u \in Threads |-> IF u = t THEN label
                                ELSE IF u \in woken THEN Resumed(pc[u]) ELSE pc[u]]

(* qsoe_sys_wait of t on the Notification of n: consume the bit or block. *)
WaitOn(t, n, blocked, after) ==
    IF pending[n]
    THEN /\ pending' = [pending EXCEPT ![n] = FALSE]
         /\ Goto(t, after)
         /\ UNCHANGED queue
    ELSE /\ queue' = [queue EXCEPT ![n] = Append(@, t)]
         /\ Goto(t, blocked)
         /\ UNCHANGED pending

HasRoom == Cardinality({a \in Objects : g_sync[a].in_use}) < MaxEntries

retire_if_idle(e) == IF e.waiters = <<>> /\ e.credit = 0 THEN NoEntry ELSE e

(* A wait that need not park: a signal was counted, or a credit deposited. *)
AlreadyWoken(a, mode, expected) ==
    LET e == g_sync[a] IN
    IF mode = "gen" THEN IF e.in_use THEN e.gen # expected ELSE expected # 0
                    ELSE e.credit > 0

(* sync_wait_impl up to the point where it blocks (label park).  It fails  *)
(* with ENOMEM, going to err, when the table or the waiter list is full.   *)
sync_wait_impl(t, a, mode, expected, ok, err, park) ==
    LET e == g_sync[a]
        canPush == (e.in_use \/ HasRoom) /\ Len(e.waiters) < MaxWaiters IN
    \/ /\ AlreadyWoken(a, mode, expected)
       /\ g_sync' = [g_sync EXCEPT ![a] =
            retire_if_idle(IF mode = "gen" THEN e ELSE [e EXCEPT !.credit = e.credit - 1])]
       /\ Goto(t, ok)
    \/ /\ ~AlreadyWoken(a, mode, expected)
       /\ canPush
       /\ g_sync' = [g_sync EXCEPT ![a] =
            [in_use |-> TRUE, credit |-> e.credit, gen |-> e.gen,
             waiters |-> Append(e.waiters, t)]]
       /\ Goto(t, park)
    \/ /\ ~AlreadyWoken(a, mode, expected)
       /\ ~canPush
       /\ Goto(t, err)
       /\ UNCHANGED g_sync

(* The first occurrence of a thread leaves the list. *)
remove_waiter(s, t) ==
    LET at == {i \in 1 .. Len(s) : s[i] = t} IN
    IF at = {} THEN s
    ELSE SubSeq(s, 1, Min(at) - 1) \o SubSeq(s, Min(at) + 1, Len(s))

(* The tail of sync_wait_impl, after the block: a no-op when the waker has *)
(* popped us, but for the retiring.                                        *)
FinishWait(t, a, next) ==
    LET e == g_sync[a] IN
    /\ g_sync' = [g_sync EXCEPT ![a] =
         retire_if_idle([e EXCEPT !.waiters = remove_waiter(e.waiters, t)])]
    /\ Goto(t, next)

(* Mutant: a wake that finds nobody parked is dropped. *)
WakeDiscards(t, a, max_n, mode, next) ==
    LET e == g_sync[a]
        woken == IF Len(e.waiters) < max_n THEN Len(e.waiters) ELSE max_n
        rest == SubSeq(e.waiters, woken + 1, Len(e.waiters)) IN
    /\ SignalAll({e.waiters[i] : i \in 1 .. woken}, t, next)
    /\ g_sync' = [g_sync EXCEPT ![a] =
         retire_if_idle([e EXCEPT !.gen = e.gen + 1, !.waiters = rest])]

(* sync_wake_impl: signal up to max_n waiters in FIFO order; in absorb     *)
(* mode keep one credit when there were fewer.  It fails with ENOMEM, and  *)
(* wakes nobody, when the credit needs an entry and the table is full.     *)
sync_wake_impl(t, a, max_n, mode, next) ==
    LET e == g_sync[a]
        woken == IF Len(e.waiters) < max_n THEN Len(e.waiters) ELSE max_n
        rest == SubSeq(e.waiters, woken + 1, Len(e.waiters))
        deposit == mode = "absorb" /\ woken < max_n IN
    /\ SignalAll({e.waiters[i] : i \in 1 .. woken}, t, next)
    /\ g_sync' = [g_sync EXCEPT ![a] =
         IF deposit /\ (e.in_use \/ HasRoom)
         THEN [in_use |-> TRUE, credit |-> 1, gen |-> e.gen + 1, waiters |-> rest]
         ELSE IF e.in_use
         THEN retire_if_idle([in_use |-> TRUE, credit |-> e.credit,
                              gen |-> e.gen + 1, waiters |-> rest])
         ELSE e]

WakeFails(a) == ~g_sync[a].in_use /\ ~HasRoom

-----------------------------------------------------------------------------
(* Mutexes. *)

TakeMutex(t, m, word) ==
    /\ owner' = [owner EXCEPT ![m] = word]
    /\ held' = [held EXCEPT ![t][m] = 1]
    /\ Goto(t, "ret")

(* SyncMutexLock, head of the loop: load the owner word. *)
LockLoad(t) ==
    /\ pc[t] = "lk_load"
    /\ lval' = [lval EXCEPT ![t] = owner[Mtx(t)]]
    /\ Goto(t, "lk_try")
    /\ UNCHANGED <<ip, cval, owner, cnt, g_sync, kernel, held, flag>>

(* Mutant: the free word is overwritten instead of compared and exchanged. *)
LockTakeNoCas(t) ==
    LET m == Mtx(t) IN
    /\ pc[t] = "lk_try"
    /\ lval[t].tid = Nobody
    /\ TakeMutex(t, m, [tid |-> t, waiters |-> lval[t].waiters])
    /\ UNCHANGED <<ip, lval, cval, cnt, g_sync, kernel, flag>>

(* The word was free: compare-and-exchange it for ours, keeping WAITERS. *)
LockTake(t) ==
    LET m == Mtx(t) IN
    /\ pc[t] = "lk_try"
    /\ lval[t].tid = Nobody
    /\ IF owner[m] = lval[t]
       THEN TakeMutex(t, m, [tid |-> t, waiters |-> lval[t].waiters])
       ELSE Goto(t, "lk_load") /\ UNCHANGED <<owner, held>>
    /\ UNCHANGED <<ip, lval, cval, cnt, g_sync, kernel, flag>>

(* The word was ours: a recursive acquisition. *)
LockRecursive(t) ==
    LET m == Mtx(t) IN
    /\ pc[t] = "lk_try"
    /\ lval[t].tid = t
    /\ cnt' = [cnt EXCEPT ![m] = @ + 1]
    /\ held' = [held EXCEPT ![t][m] = @ + 1]
    /\ Goto(t, "ret")
    /\ UNCHANGED <<ip, lval, cval, owner, g_sync, kernel, flag>>

(* The word was another thread's: set WAITERS, then go and park. *)
LockContend(t) ==
    LET m == Mtx(t) IN
    /\ pc[t] = "lk_try"
    /\ lval[t].tid \notin {Nobody, t}
    /\ \/ /\ lval[t].waiters
          /\ Goto(t, "lk_wait")
          /\ UNCHANGED owner
       \/ /\ ~lval[t].waiters
          /\ owner[m] = lval[t]
          /\ owner' = [owner EXCEPT ![m].waiters = TRUE]
          /\ Goto(t, "lk_wait")
       \/ /\ ~lval[t].waiters
          /\ owner[m] # lval[t]
          /\ Goto(t, "lk_load")
          /\ UNCHANGED owner
    /\ UNCHANGED <<ip, lval, cval, cnt, g_sync, kernel, held, flag>>

(* sync_wait_credit on the owner word, then round the loop again. *)
LockWait(t) ==
    /\ pc[t] = "lk_wait"
    /\ sync_wait_impl(t, Mtx(t), "credit", 0, "lk_load", "ret", "lk_park")
    /\ UNCHANGED <<ip, lval, cval, owner, cnt, kernel, held, flag>>
LockPark(t) ==
    /\ pc[t] = "lk_park"
    /\ WaitOn(t, t, "lk_blocked", "lk_clean")
    /\ UNCHANGED <<ip, lval, cval, owner, cnt, g_sync, held, flag>>
LockClean(t) ==
    /\ pc[t] = "lk_clean"
    /\ FinishWait(t, Mtx(t), "lk_load")
    /\ UNCHANGED <<ip, lval, cval, owner, cnt, kernel, held, flag>>

(* SyncMutexUnlock by a thread that is not the owner (EPERM), which ends   *)
(* SyncCondvarWait too; a nested unlock; the release.  The tid of the word *)
(* cannot change between its load and the exchange while it is ours.       *)
UnlockRefused(t) ==
    /\ pc[t] = "ul"
    /\ owner[Mtx(t)].tid # t
    /\ Goto(t, "ret")
    /\ UNCHANGED <<ip, lval, cval, owner, cnt, g_sync, kernel, held, flag>>
UnlockNested(t) ==
    LET m == Mtx(t) IN
    /\ pc[t] = "ul"
    /\ owner[m].tid = t
    /\ cnt[m] > 0
    /\ cnt' = [cnt EXCEPT ![m] = @ - 1]
    /\ held' = [held EXCEPT ![t][m] = @ - 1]
    /\ Goto(t, IF Op(t)[1] = "condwait" THEN "cw_wait" ELSE "ret")
    /\ UNCHANGED <<ip, lval, cval, owner, g_sync, kernel, flag>>
UnlockRelease(t) ==
    LET m == Mtx(t) IN
    /\ pc[t] = "ul"
    /\ owner[m].tid = t
    /\ cnt[m] = 0
    /\ owner' = [owner EXCEPT ![m] = FreeWord]
    /\ held' = [held EXCEPT ![t][m] = 0]
    /\ Goto(t, IF owner[m].waiters THEN "ul_wake"
               ELSE IF Op(t)[1] = "condwait" THEN "cw_wait" ELSE "ret")
    /\ UNCHANGED <<ip, lval, cval, cnt, g_sync, kernel, flag>>
UnlockWake(t) ==
    LET m == Mtx(t) IN
    /\ pc[t] = "ul_wake"
    /\ sync_wake_impl(t, m, 1, "absorb",
         IF Op(t)[1] = "condwait" /\ ~WakeFails(m) THEN "cw_wait" ELSE "ret")
    /\ UNCHANGED <<ip, lval, cval, owner, cnt, held, flag>>

-----------------------------------------------------------------------------
(* Condition variables.  SyncCondvarWait samples count (CallCondWait),     *)
(* unlocks, waits for a count other than the sample, and locks again.      *)

CondWait(t) ==
    /\ pc[t] = "cw_wait"
    /\ sync_wait_impl(t, Op(t)[2], "gen", cval[t], "lk_load", "lk_load", "cw_park")
    /\ UNCHANGED <<ip, lval, cval, owner, cnt, kernel, held, flag>>
CondPark(t) ==
    /\ pc[t] = "cw_park"
    /\ WaitOn(t, t, "cw_blocked", "cw_clean")
    /\ UNCHANGED <<ip, lval, cval, owner, cnt, g_sync, held, flag>>

(* Mutant: SyncCondvarWait returns without taking the mutex again. *)
CondCleanNoRelock(t) ==
    /\ pc[t] = "cw_clean"
    /\ FinishWait(t, Op(t)[2], "ret")
    /\ UNCHANGED <<ip, lval, cval, owner, cnt, kernel, held, flag>>
CondClean(t) ==
    /\ pc[t] = "cw_clean"
    /\ FinishWait(t, Op(t)[2], "lk_load")
    /\ UNCHANGED <<ip, lval, cval, owner, cnt, kernel, held, flag>>

(* SyncCondvarSignal: the count is raised (CallSignal), then one waiter or *)
(* all of them are woken, in discard mode.                                 *)
SignalWake(t) ==
    /\ pc[t] = "sg_wake"
    /\ sync_wake_impl(t, Op(t)[2], IF Does(t, "signal") THEN 1 ELSE MaxWaiters,
                      "discard", "ret")
    /\ UNCHANGED <<ip, lval, cval, owner, cnt, held, flag>>

-----------------------------------------------------------------------------
(* Semaphores.  SyncSemPost raises the count (CallPost) and wakes when it  *)
(* was below one.                                                          *)

PostWake(t) ==
    /\ pc[t] = "sp_wake"
    /\ sync_wake_impl(t, Op(t)[2], 1, "absorb", "ret")
    /\ UNCHANGED <<ip, lval, cval, owner, cnt, held, flag>>

(* SyncSemWait: load the count; claim one by compare-and-exchange, give up *)
(* with EAGAIN when only trying, or park.                                  *)
SemLoad(t) ==
    /\ pc[t] = "sw_load"
    /\ cval' = [cval EXCEPT ![t] = cnt[Op(t)[2]]]
    /\ Goto(t, IF cnt[Op(t)[2]] > 0 THEN "sw_try"
               ELSE IF Does(t, "trywait") THEN "ret" ELSE "sw_wait")
    /\ UNCHANGED <<ip, lval, owner, cnt, g_sync, kernel, held, flag>>

(* Mutant: the claim stores the loaded count less one unconditionally. *)
SemClaimNoCas(t) ==
    LET s == Op(t)[2] IN
    /\ pc[t] = "sw_try"
    /\ cnt' = [cnt EXCEPT ![s] = cval[t] - 1]
    /\ held' = [held EXCEPT ![t][s] = @ + 1]
    /\ Goto(t, "ret")
    /\ UNCHANGED <<ip, lval, cval, owner, g_sync, kernel, flag>>
SemClaim(t) ==
    LET s == Op(t)[2] IN
    /\ pc[t] = "sw_try"
    /\ IF cnt[s] = cval[t]
       THEN /\ cnt' = [cnt EXCEPT ![s] = @ - 1]
            /\ held' = [held EXCEPT ![t][s] = @ + 1]
            /\ Goto(t, "ret")
       ELSE Goto(t, "sw_load") /\ UNCHANGED <<cnt, held>>
    /\ UNCHANGED <<ip, lval, cval, owner, g_sync, kernel, flag>>
SemWait(t) ==
    /\ pc[t] = "sw_wait"
    /\ sync_wait_impl(t, Op(t)[2], "credit", 0, "sw_load", "ret", "sw_park")
    /\ UNCHANGED <<ip, lval, cval, owner, cnt, kernel, held, flag>>
SemPark(t) ==
    /\ pc[t] = "sw_park"
    /\ WaitOn(t, t, "sw_blocked", "sw_clean")
    /\ UNCHANGED <<ip, lval, cval, owner, cnt, g_sync, held, flag>>
SemClean(t) ==
    /\ pc[t] = "sw_clean"
    /\ FinishWait(t, Op(t)[2], "sw_load")
    /\ UNCHANGED <<ip, lval, cval, owner, cnt, kernel, held, flag>>

-----------------------------------------------------------------------------
(* The clients: calls, returns, and the end of a thread. *)

CallLock(t) ==
    /\ pc[t] = "call" /\ Does(t, "lock")
    /\ Goto(t, "lk_load")
    /\ UNCHANGED <<ip, lval, cval, owner, cnt, g_sync, kernel, held, flag>>
CallUnlock(t) ==
    /\ pc[t] = "call" /\ Does(t, "unlock")
    /\ Goto(t, "ul")
    /\ UNCHANGED <<ip, lval, cval, owner, cnt, g_sync, kernel, held, flag>>
CallCondWait(t) ==
    /\ pc[t] = "call" /\ Does(t, "condwait")
    /\ ~flag
    /\ cval' = [cval EXCEPT ![t] = cnt[Op(t)[2]]]
    /\ Goto(t, "ul")
    /\ UNCHANGED <<ip, lval, owner, cnt, g_sync, kernel, held, flag>>
CallSignal(t) ==
    /\ pc[t] = "call" /\ (Does(t, "signal") \/ Does(t, "broadcast"))
    /\ cnt' = [cnt EXCEPT ![Op(t)[2]] = @ + 1]
    /\ Goto(t, "sg_wake")
    /\ UNCHANGED <<ip, lval, cval, owner, g_sync, kernel, held, flag>>
(* Mutant: only a post to a negative count wakes. *)
CallPostNoWake(t) ==
    LET s == Op(t)[2] IN
    /\ pc[t] = "call" /\ Does(t, "post")
    /\ cnt' = [cnt EXCEPT ![s] = @ + 1]
    /\ held' = [held EXCEPT ![t][s] = @ - 1]
    /\ Goto(t, IF cnt[s] < 0 THEN "sp_wake" ELSE "ret")
    /\ UNCHANGED <<ip, lval, cval, owner, g_sync, kernel, flag>>
CallPost(t) ==
    LET s == Op(t)[2] IN
    /\ pc[t] = "call" /\ Does(t, "post")
    /\ cnt' = [cnt EXCEPT ![s] = @ + 1]
    /\ held' = [held EXCEPT ![t][s] = @ - 1]
    /\ Goto(t, IF cnt[s] < 1 THEN "sp_wake" ELSE "ret")
    /\ UNCHANGED <<ip, lval, cval, owner, g_sync, kernel, flag>>
CallSemWait(t) ==
    /\ pc[t] = "call" /\ (Does(t, "semwait") \/ Does(t, "trywait"))
    /\ Goto(t, "sw_load")
    /\ UNCHANGED <<ip, lval, cval, owner, cnt, g_sync, kernel, held, flag>>
CallSet(t) ==
    /\ pc[t] = "call" /\ Does(t, "set")
    /\ flag' = TRUE
    /\ Goto(t, "ret")
    /\ UNCHANGED <<ip, lval, cval, owner, cnt, g_sync, kernel, held>>
(* The predicate holds: the loop around SyncCondvarWait ends. *)
LeaveLoop(t) ==
    /\ pc[t] = "call" /\ Does(t, "condwait")
    /\ flag
    /\ ip' = [ip EXCEPT ![t] = @ + 1]
    /\ UNCHANGED <<pc, lval, cval, owner, cnt, g_sync, kernel, held, flag>>

(* Mutant: ThreadJoin does not wait. *)
JoinNoWait(t) ==
    /\ pc[t] = "call" /\ Does(t, "join")
    /\ Goto(t, "ret")
    /\ UNCHANGED <<ip, lval, cval, owner, cnt, g_sync, kernel, held, flag>>

(* ThreadJoin blocks on the join_ntfn of the other thread. *)
ThreadJoin(t) ==
    /\ pc[t] = "call" /\ Does(t, "join")
    /\ WaitOn(t, Op(t)[2], "jn_blocked", "ret")
    /\ UNCHANGED <<ip, lval, cval, owner, cnt, g_sync, held, flag>>

(* ThreadDestroy(0) at the end of the trampoline: signal the joiner and    *)
(* suspend.                                                                *)
ThreadDestroy(t) ==
    /\ pc[t] = "call"
    /\ ip[t] > Len(program[t])
    /\ SignalAll({t}, t, "exited")
    /\ UNCHANGED <<ip, lval, cval, owner, cnt, g_sync, held, flag>>

(* Back in the client: the next operation, once more round the loop around *)
(* SyncCondvarWait, or straight to the end when a lock was not obtained.   *)
Return(t) ==
    LET wants == Does(t, "lock") \/ Does(t, "condwait") IN
    /\ pc[t] = "ret"
    /\ ip' = [ip EXCEPT ![t] =
         IF wants /\ held[t][Mtx(t)] = 0 THEN Len(program[t]) + 1
         ELSE IF Does(t, "condwait") THEN @ ELSE @ + 1]
    /\ Goto(t, "call")
    /\ UNCHANGED <<lval, cval, owner, cnt, g_sync, kernel, held, flag>>

-----------------------------------------------------------------------------
Init ==
    /\ program \in Programs
    /\ pc = [t \in Threads |-> "call"]
    /\ ip = [t \in Threads |-> 1]
    /\ lval = [t \in Threads |-> FreeWord]
    /\ cval = [t \in Threads |-> 0]
    /\ owner = [m \in Mutexes |-> FreeWord]
    /\ cnt = [a \in Objects |-> IF a \in Sems THEN SemInit ELSE 0]
    /\ g_sync = [a \in Objects |-> NoEntry]
    /\ pending = [t \in Threads |-> FALSE]
    /\ queue = [t \in Threads |-> <<>>]
    /\ held = [t \in Threads |-> [a \in Objects |-> 0]]
    /\ flag = FALSE

SyncMutexLock(t) ==
    \/ LockLoad(t) \/ LockTake(t) \/ LockRecursive(t) \/ LockContend(t)
    \/ LockWait(t) \/ LockPark(t) \/ LockClean(t)
SyncMutexUnlock(t) ==
    \/ UnlockRefused(t) \/ UnlockNested(t) \/ UnlockRelease(t) \/ UnlockWake(t)
SyncCondvar(t) == CondWait(t) \/ CondPark(t) \/ CondClean(t) \/ SignalWake(t)
SyncSem(t) ==
    \/ PostWake(t) \/ SemLoad(t) \/ SemClaim(t)
    \/ SemWait(t) \/ SemPark(t) \/ SemClean(t)
Client(t) ==
    \/ CallLock(t) \/ CallUnlock(t) \/ CallCondWait(t) \/ CallSignal(t)
    \/ CallPost(t) \/ CallSemWait(t) \/ CallSet(t) \/ LeaveLoop(t)
    \/ ThreadJoin(t) \/ ThreadDestroy(t) \/ Return(t)

Step(t) ==
    /\ \/ SyncMutexLock(t) \/ SyncMutexUnlock(t) \/ SyncCondvar(t)
       \/ SyncSem(t) \/ Client(t)
    /\ UNCHANGED program

(* Every thread has reached its end: the programs are over. *)
Finished == (\A t \in Threads : pc[t] = "exited") /\ UNCHANGED vars

Next == (\E t \in Threads : Step(t)) \/ Finished

(* Threads of equal priority are scheduled round-robin by the kernel, so   *)
(* a thread that can run does run.                                         *)
Spec == Init /\ [][Next]_vars /\ \A t \in Threads : WF_vars(Step(t))

-----------------------------------------------------------------------------
Labels == {"call", "ret", "exited", "ul", "ul_wake", "sg_wake", "sp_wake",
           "lk_load", "lk_try", "lk_wait", "lk_park", "lk_blocked", "lk_clean",
           "cw_wait", "cw_park", "cw_blocked", "cw_clean", "jn_blocked",
           "sw_load", "sw_try", "sw_wait", "sw_park", "sw_blocked", "sw_clean"}

Entry == [in_use: BOOLEAN, credit: {0, 1}, gen: Nat, waiters: Seq(Threads)]

(* SyncMutexLock and SyncMutexUnlock: a thread that was told it has the    *)
(* mutex owns its word, and nobody else does; the recursion count is one   *)
(* less than the number of times it took it.  So no two threads hold it.   *)
HolderOwns ==
    \A t \in Threads, m \in Mutexes :
       /\ owner[m].tid = t <=> held[t][m] > 0
       /\ held[t][m] > 0 => cnt[m] = held[t][m] - 1

(* The address a thread inside sync_wait_impl waits on. *)
WaitAddr(t) == IF pc[t] \in {"lk_park", "lk_blocked"} THEN Mtx(t) ELSE Op(t)[2]
Queued(t) == \E i \in 1 .. Len(g_sync[WaitAddr(t)].waiters) :
                g_sync[WaitAddr(t)].waiters[i] = t

(* The window between table_unlock and qsoe_sys_wait in sync_wait_impl: a  *)
(* thread about to block is in the waiter list or has its wake pending,    *)
(* and a thread that blocks is in the list, where the next wake finds it.  *)
(* A list holds nobody else, and nobody twice.                             *)
NoLostSleeper ==
    /\ \A t \in Threads :
         /\ pc[t] \in {"lk_park", "cw_park", "sw_park"} => Queued(t) # pending[t]
         /\ pc[t] \in {"lk_blocked", "cw_blocked", "sw_blocked"} => Queued(t)
    /\ \A a \in Objects : \A i, j \in 1 .. Len(g_sync[a].waiters) :
         LET t == g_sync[a].waiters[i] IN
         /\ pc[t] \in {"lk_park", "cw_park", "sw_park",
                       "lk_blocked", "cw_blocked", "sw_blocked"}
         /\ WaitAddr(t) = a
         /\ g_sync[a].waiters[j] = t => i = j

(* SyncSemPost and SyncSemWait conserve the count: it is the initial count *)
(* plus the posts minus the waits that succeeded.                          *)
SemConserved ==
    \A s \in Sems :
       cnt[s] + MapThenSumSet(LAMBDA t : held[t][s], Threads) = SemInit

(* "cond_wait always returns with the mutex held": whatever SyncCondvarWait *)
(* returns, its caller owns the mutex.                                     *)
CondReturnsLocked ==
    \A t \in Threads :
       pc[t] = "ret" /\ Does(t, "condwait") => owner[Mtx(t)].tid = t

(* Which threads a program lets wait for a mutex, for a semaphore, at all. *)
Performs(t, ops) == \E i \in 1 .. Len(program[t]) : program[t][i] \in ops
Lockers(m) ==
    {t \in Threads : Performs(t, {<<"lock", m>>} \cup {<<"condwait", c, m>> : c \in Conds})}
SemWaiters(s) == {t \in Threads : Performs(t, {<<"semwait", s>>})}
Parks(t) == \/ \E m \in Mutexes : t \in Lockers(m)
            \/ \E s \in Sems : t \in SemWaiters(s)

(* "Make sure WAITERS is set so the unlocker fires a WAKE for us": a       *)
(* thread blocked in SyncMutexLock is woken, when holders do unlock.       *)
MutexWaiterWoken ==
    \A t \in Threads : pc[t] = "lk_blocked" ~> pc[t] # "lk_blocked"

(* The same, for a mutex that at most two threads use: the WAITERS bit,    *)
(* the credit of sync_wake_impl and the sticky Notification together lose  *)
(* no wake.                                                                *)
MutexPairWoken ==
    \A t \in Threads :
       (pc[t] = "lk_blocked" /\ Cardinality(Lockers(Mtx(t))) <= 2)
       ~> pc[t] # "lk_blocked"

(* A thread that alone waits for a semaphore does not sleep on while the   *)
(* semaphore has a count to take: SyncSemPost "owes a wake".               *)
LoneSemWaiterWoken ==
    \A t \in Threads :
       (/\ pc[t] = "sw_blocked" /\ cnt[Op(t)[2]] > 0
        /\ Cardinality(SemWaiters(Op(t)[2])) = 1)
       ~> (pc[t] # "sw_blocked" \/ cnt[Op(t)[2]] = 0)

(* A Signal that races ahead of the wait is not lost: a thread blocked in  *)
(* SyncCondvarWait whose predicate was set, and signalled, wakes up.       *)
CondWaiterWoken ==
    \A t \in Threads :
       (pc[t] = "cw_blocked" /\ flag) ~> pc[t] # "cw_blocked"

(* "Reuse of join_ntfn is safe": when the joined thread never parks in a   *)
(* Sync wait, so that its join_ntfn carries nothing but its exit,          *)
(* ThreadJoin returns only after the thread has ended.                     *)
JoinAfterQuietExit ==
    \A t \in Threads :
       pc[t] = "ret" /\ Does(t, "join") /\ ~Parks(Op(t)[2])
       => pc[Op(t)[2]] = "exited"
=============================================================================
