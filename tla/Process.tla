------------------------------ MODULE Process ------------------------------
(***************************************************************************)
(* taskman's process table: the pid allocator, spawn, procmgr_detach,      *)
(* waitpid, terminate and the fault path (taskman/proc/process.c, the tail *)
(* of taskman/proc/spawn.c and the dispatcher cases of taskman/main.c).    *)
(*                                                                         *)
(* One action is one dispatched message.  A request that fails without     *)
(* changing taskman's state (ECHILD, ESRCH, EINVAL, ENOMEM before a pid is *)
(* taken, ENOMEM from tm_reply_park) is a stuttering step.  The fields of  *)
(* a record whose in_use is 0 are never read, so a freed record is         *)
(* normalised to NoRecord.                                                 *)
(***************************************************************************)
EXTENDS Replies, Sequences

CONSTANTS Statuses,       \* exit statuses a program may pass
          TM_SIG_SEGV,    \* status recorded for a fault
          SpawnOutcomes   \* subset of {"ok", "early", "late"}: how tm_spawn ends

ASSUME StatusAssumption == Statuses \subseteq Nat /\ TM_SIG_SEGV \in Nat

VARIABLES g_processes,    \* the table, an array of MaxProcesses records
          s_next_pid,     \* next pid never handed out
          s_pid_free_list \* LIFO of returned pids

procVars == <<g_processes, s_next_pid, s_pid_free_list>>
vars == <<alive, halted, stash, waiting, g_processes, s_next_pid, s_pid_free_list>>

TM_EXIT_LIVE     == 0
TM_EXIT_DETACHED == 1
TM_EXIT_ZOMBIE   == 2

Index == 1 .. MaxProcesses
AllStatuses == Statuses \cup {0, TM_SIG_SEGV}

Record == [in_use: BOOLEAN, pid: 0 .. (MaxProcesses - 1),
           parent_pid: 0 .. (MaxProcesses - 1),
           exit_state: {TM_EXIT_LIVE, TM_EXIT_DETACHED, TM_EXIT_ZOMBIE},
           exit_status: AllStatuses,
           waiter_reply_slot: ReplySlots \cup {0}]

NoRecord == [in_use |-> FALSE, pid |-> 0, parent_pid |-> 0,
             exit_state |-> TM_EXIT_LIVE, exit_status |-> 0,
             waiter_reply_slot |-> 0]

(* What tm_process_register writes; the parent is taskman until            *)
(* tm_process_set_parent runs.                                             *)
NewRecord(pid, parent) ==
    [in_use |-> TRUE, pid |-> pid, parent_pid |-> parent,
     exit_state |-> TM_EXIT_LIVE, exit_status |-> 0, waiter_reply_slot |-> 0]

DetachedRecord(r, status) ==
    [r EXCEPT !.exit_state = TM_EXIT_DETACHED, !.exit_status = status,
              !.waiter_reply_slot = 0, !.parent_pid = QSOE_PID_TASKMAN]

WaitedRecord(r, slot) == [r EXCEPT !.waiter_reply_slot = slot]

ZombieRecord(r, status) ==
    [r EXCEPT !.exit_state = TM_EXIT_ZOMBIE, !.exit_status = status,
              !.waiter_reply_slot = 0]

-----------------------------------------------------------------------------
(* Lookup and the pid allocator. *)

IsProc(i, pid) == g_processes[i].in_use /\ g_processes[i].pid = pid

Known(pid) == \E i \in Index : IsProc(i, pid)

(* tm_process_lookup: the first matching record. *)
tm_process_lookup(i, pid) ==
    IsProc(i, pid) /\ \A j \in Index : j < i => ~IsProc(j, pid)

FirstFreeRecord(i) ==
    ~g_processes[i].in_use /\ \A j \in Index : j < i => g_processes[j].in_use

(* Mutants of the allocator: the limit is off by one, the list not popped. *)
PidAvailableOffByOne == s_pid_free_list # <<>> \/ s_next_pid <= MaxProcesses
FreeListNotPopped == s_pid_free_list

(* tm_pid_alloc: pop the free list, else take the next fresh pid. *)
PidAvailable == s_pid_free_list # <<>> \/ s_next_pid < MaxProcesses
tm_pid_alloc == IF s_pid_free_list # <<>>
                THEN s_pid_free_list[Len(s_pid_free_list)]
                ELSE s_next_pid
FreeListAfterAlloc == IF s_pid_free_list # <<>>
                      THEN SubSeq(s_pid_free_list, 1, Len(s_pid_free_list) - 1)
                      ELSE s_pid_free_list
NextPidAfterAlloc == IF s_pid_free_list # <<>> THEN s_next_pid ELSE s_next_pid + 1

(* tm_pid_free: taskman's pid and a full list are ignored. *)
tm_pid_free(list, pid) ==
    IF pid > QSOE_PID_TASKMAN /\ Len(list) < MaxProcesses
    THEN Append(list, pid) ELSE list

(* The record that holds the reply slot of a parked waiter, as a set of    *)
(* slots to deliver to.                                                    *)
WaiterSlots(i) == {g_processes[i].waiter_reply_slot} \ {0}

-----------------------------------------------------------------------------
(* Init: taskman is pid 1 and its own parent; boot has spawned /sbin/init. *)
INIT_PID == 2

Init ==
    /\ g_processes = [i \in Index |->
                        IF i = 1 THEN NewRecord(QSOE_PID_TASKMAN, QSOE_PID_TASKMAN)
                        ELSE IF i = 2 THEN NewRecord(INIT_PID, QSOE_PID_TASKMAN)
                        ELSE NoRecord]
    /\ s_next_pid = 3
    /\ s_pid_free_list = <<>>
    /\ alive = {<<INIT_PID, Main>>}
    /\ halted = {}
    /\ stash = {}
    /\ waiting = [s \in ReplySlots |-> {}]

(* TM_REQ_SPAWN / TM_REQ_PROCESS_CREATE, tm_spawn succeeded: the record is *)
(* registered, the main thread resumed, the caller becomes the parent.     *)
SpawnOk(c) ==
    /\ "ok" \in SpawnOutcomes
    /\ PidAvailable
    /\ ~Known(tm_pid_alloc)
    /\ \E i \in Index :
         /\ FirstFreeRecord(i)
         /\ g_processes' = [g_processes EXCEPT ![i] = NewRecord(tm_pid_alloc, c[1])]
    /\ s_pid_free_list' = FreeListAfterAlloc
    /\ s_next_pid' = NextPidAfterAlloc
    /\ alive' = alive \cup {<<tm_pid_alloc, Main>>}
    /\ UNCHANGED <<halted, stash, waiting>>

(* The spawn fails with nothing registered: no untyped block, an allocation *)
(* of tm_spawn, or tm_process_register refusing a pid that is still in the *)
(* table.  The pid taken for it goes back to the free list.                *)
SpawnFailsEarly(c) ==
    /\ \/ "early" \in SpawnOutcomes
       \/ Known(tm_pid_alloc)
    /\ PidAvailable
    /\ s_pid_free_list' = tm_pid_free(FreeListAfterAlloc, tm_pid_alloc)
    /\ s_next_pid' = NextPidAfterAlloc
    /\ UNCHANGED <<alive, halted, stash, waiting, g_processes>>

(* tm_spawn fails after tm_process_register (connection table full, object *)
(* CNode, RELRO tracker, cap move): the pid is returned, the staged memory *)
(* revoked, and the record stays as tm_process_register left it.           *)
SpawnFailsLate(c) ==
    /\ "late" \in SpawnOutcomes
    /\ PidAvailable
    /\ ~Known(tm_pid_alloc)
    /\ \E i \in Index :
         /\ FirstFreeRecord(i)
         /\ g_processes' = [g_processes EXCEPT
                              ![i] = NewRecord(tm_pid_alloc, QSOE_PID_TASKMAN)]
    /\ s_pid_free_list' = tm_pid_free(FreeListAfterAlloc, tm_pid_alloc)
    /\ s_next_pid' = NextPidAfterAlloc
    /\ UNCHANGED <<alive, halted, stash, waiting>>

(* Mutant: the parked waiter of a process that detaches is not answered. *)
DetachForgetsWaiter(c, status) ==
    /\ \E i \in Index :
         /\ tm_process_lookup(i, c[1])
         /\ g_processes[i].exit_state = TM_EXIT_LIVE
         /\ g_processes' = [g_processes EXCEPT ![i] = DetachedRecord(@, status)]
    /\ UNCHANGED <<alive, halted, stash, waiting, s_next_pid, s_pid_free_list>>

(* TM_REQ_PROC_DETACH: the caller's process becomes a daemon of taskman; a *)
(* parked waiter gets the status.                                          *)
tm_process_detach(c, status) ==
    /\ \E i \in Index :
         /\ tm_process_lookup(i, c[1])
         /\ g_processes[i].exit_state = TM_EXIT_LIVE
         /\ g_processes' = [g_processes EXCEPT ![i] = DetachedRecord(@, status)]
         /\ tm_reply_deliver(WaiterSlots(i))
    /\ UNCHANGED <<alive, halted, s_next_pid, s_pid_free_list>>

(* Mutant: waitpid does not check that the caller is the parent. *)
WaitpidReapsAnyone(c, child) ==
    /\ \E i \in Index :
         /\ tm_process_lookup(i, child)
         /\ g_processes[i].exit_state # TM_EXIT_LIVE
         /\ g_processes' = [g_processes EXCEPT ![i] = NoRecord]
    /\ s_pid_free_list' = tm_pid_free(s_pid_free_list, child)
    /\ UNCHANGED <<alive, halted, stash, waiting, s_next_pid>>

(* TM_REQ_WAITPID on a child whose exit_state is set: hand over the status *)
(* and reap the record.                                                    *)
WaitpidReaps(c, child) ==
    /\ \E i \in Index :
         /\ tm_process_lookup(i, child)
         /\ g_processes[i].parent_pid = c[1]
         /\ g_processes[i].exit_state # TM_EXIT_LIVE
         /\ g_processes' = [g_processes EXCEPT ![i] = NoRecord]
    /\ s_pid_free_list' = tm_pid_free(s_pid_free_list, child)
    /\ UNCHANGED <<alive, halted, stash, waiting, s_next_pid>>

(* TM_REQ_WAITPID on a child that still runs: park the caller. *)
WaitpidParks(c, child) ==
    /\ \E i \in Index, slot \in ReplySlots :
         /\ tm_process_lookup(i, child)
         /\ g_processes[i].parent_pid = c[1]
         /\ g_processes[i].exit_state = TM_EXIT_LIVE
         /\ tm_reply_park(c, slot)
         /\ g_processes' = [g_processes EXCEPT ![i] = WaitedRecord(@, slot)]
    /\ UNCHANGED <<alive, halted, s_next_pid, s_pid_free_list>>

(* The reaping policy at the end of tm_process_terminate: is there a live  *)
(* parent, other than taskman, that can still ask for the status?          *)
ParentCanReap(i) ==
    /\ g_processes[i].parent_pid # QSOE_PID_TASKMAN
    /\ \E p \in Index :
         /\ tm_process_lookup(p, g_processes[i].parent_pid)
         /\ p # i
         /\ g_processes[p].exit_state = TM_EXIT_LIVE

(* Mutants: terminate without the exit_state early return; terminate that  *)
(* deletes only the main thread.                                           *)
TerminateTwice(target, status) ==
    /\ target # QSOE_PID_TASKMAN
    /\ \E i \in Index :
         /\ tm_process_lookup(i, target)
         /\ DeliverAndKill(WaiterSlots(i), ThreadsOf(target))
         /\ g_processes' = [g_processes EXCEPT ![i] =
              IF WaiterSlots(i) # {} \/ ~ParentCanReap(i)
              THEN NoRecord ELSE ZombieRecord(@, status)]
         /\ s_pid_free_list' = IF WaiterSlots(i) # {} \/ ~ParentCanReap(i)
                               THEN tm_pid_free(s_pid_free_list, target)
                               ELSE s_pid_free_list
    /\ UNCHANGED s_next_pid
TerminateMainOnly(target, status) ==
    /\ target # QSOE_PID_TASKMAN
    /\ \E i \in Index :
         /\ tm_process_lookup(i, target)
         /\ g_processes[i].exit_state = TM_EXIT_LIVE
         /\ DeliverAndKill(WaiterSlots(i), {<<target, Main>>})
         /\ g_processes' = [g_processes EXCEPT ![i] = ZombieRecord(@, status)]
         /\ UNCHANGED s_pid_free_list
    /\ UNCHANGED s_next_pid

(* tm_process_terminate past its early returns: the parked waiter gets the *)
(* status, every thread of the target is deleted, and the record is freed  *)
(* or kept as a zombie.                                                    *)
tm_process_terminate(target, status) ==
    /\ target # QSOE_PID_TASKMAN
    /\ \E i \in Index :
         /\ tm_process_lookup(i, target)
         /\ g_processes[i].exit_state = TM_EXIT_LIVE
         /\ DeliverAndKill(WaiterSlots(i), ThreadsOf(target))
         /\ IF WaiterSlots(i) # {} \/ ~ParentCanReap(i)
            THEN /\ g_processes' = [g_processes EXCEPT ![i] = NoRecord]
                 /\ s_pid_free_list' = tm_pid_free(s_pid_free_list, target)
            ELSE /\ g_processes' = [g_processes EXCEPT ![i] = ZombieRecord(@, status)]
                 /\ UNCHANGED s_pid_free_list
    /\ UNCHANGED s_next_pid

(* A fault of a running thread terminates its process. *)
tm_handle_fault(c) == tm_process_terminate(c[1], TM_SIG_SEGV)

AlreadyExited(pid) ==
    \E i \in Index : /\ tm_process_lookup(i, pid)
                    /\ g_processes[i].exit_state # TM_EXIT_LIVE

(* TM_REQ_PROCESS_TERMINATE or a fault, when tm_process_terminate returns  *)
(* 0 at once because exit_state is set: the dispatcher still sends no      *)
(* reply to a caller that named itself, nor to a faulting thread.          *)
NoReplyAfterExit(c) ==
    /\ AlreadyExited(c[1])
    /\ halted' = halted \cup {c}
    /\ UNCHANGED <<alive, stash, waiting, procVars>>

(* ThreadCreate: one more thread of the calling process. *)
StartThread(c, t) ==
    /\ <<c[1], t>> \notin alive
    /\ alive' = alive \cup {<<c[1], t>>}
    /\ UNCHANGED <<halted, stash, waiting, procVars>>

(* ThreadDestroy: a thread of the process, possibly one blocked in a       *)
(* request, is suspended for good.                                         *)
StopThread(c, t) ==
    /\ <<c[1], t>> \in alive
    /\ DeliverAndKill({}, {<<c[1], t>>})
    /\ UNCHANGED procVars

Next ==
    \/ \E c \in Running : SpawnOk(c)
    \/ \E c \in Running : SpawnFailsEarly(c)
    \/ \E c \in Running : SpawnFailsLate(c)
    \/ \E c \in Running, status \in Statuses : tm_process_detach(c, status)
    \/ \E c \in Running, child \in Pids : WaitpidReaps(c, child)
    \/ \E c \in Running, child \in Pids : WaitpidParks(c, child)
    \/ \E c \in Running, target \in Pids, status \in Statuses :
         tm_process_terminate(target, status)
    \/ \E c \in Running : tm_handle_fault(c)
    \/ \E c \in Running : NoReplyAfterExit(c)
    \/ \E c \in Running, t \in Threads : StartThread(c, t)
    \/ \E c \in Running, t \in Threads : StopThread(c, t)

Spec == Init /\ [][Next]_vars

-----------------------------------------------------------------------------
(* Type invariant: every field of the table, the pid allocator and the     *)
(* reply bookkeeping stays in the range the C types and array sizes allow. *)
TypeOK ==
    /\ RepliesTypeOK
    /\ g_processes \in [Index -> Record]
    /\ s_next_pid \in 3 .. MaxProcesses
    /\ s_pid_free_list \in Seq(2 .. (MaxProcesses - 1))

FreePids == {s_pid_free_list[k] : k \in 1 .. Len(s_pid_free_list)}

(* Two records in use never carry the same pid, so tm_process_lookup has   *)
(* at most one candidate.                                                  *)
UniquePids ==
    \A i, j \in Index :
       /\ g_processes[i].in_use
       /\ g_processes[j].in_use
       /\ g_processes[i].pid = g_processes[j].pid
       => i = j

(* tm_pid_alloc and tm_pid_free conserve pids: the free list has no        *)
(* duplicate, no pid is both in the table and on the list, and every pid   *)
(* ever handed out is in one of the two.                                   *)
PidConservation ==
    /\ \A k, l \in 1 .. Len(s_pid_free_list) :
          s_pid_free_list[k] = s_pid_free_list[l] => k = l
    /\ \A p \in Pids : ~(Known(p) /\ p \in FreePids)
    /\ \A p \in Pids : Known(p) \/ p \in FreePids <=> p < s_next_pid

(* A thread never outlives its record: the process of every existing       *)
(* thread is in the table and is not a zombie, so a pid that goes back to  *)
(* the allocator is nobody's badge.                                        *)
NoOrphanThread ==
    \A c \in alive : \E i \in Index :
       IsProc(i, c[1]) /\ g_processes[i].exit_state # TM_EXIT_ZOMBIE

(* taskman itself makes no request, never exits and is its own parent, and *)
(* adopts every daemon: neither it nor a detached process can be reaped or *)
(* waited for.                                                             *)
TaskmanAdoptsDaemons ==
    /\ \A c \in alive : c[1] # QSOE_PID_TASKMAN
    /\ \A i \in Index : g_processes[i].in_use =>
         /\ g_processes[i].pid = QSOE_PID_TASKMAN
            => /\ g_processes[i].exit_state = TM_EXIT_LIVE
               /\ g_processes[i].parent_pid = QSOE_PID_TASKMAN
         /\ g_processes[i].exit_state = TM_EXIT_DETACHED
            => g_processes[i].parent_pid = QSOE_PID_TASKMAN

(* A thread blocked in waitpid is always the one its live child's record   *)
(* will answer: its stash slot is that record's waiter_reply_slot.         *)
WaiterTracked ==
    \A slot \in ReplySlots : \A c \in waiting[slot] :
       \E i \in Index :
          /\ g_processes[i].in_use
          /\ g_processes[i].exit_state = TM_EXIT_LIVE
          /\ g_processes[i].waiter_reply_slot = slot
          /\ g_processes[i].parent_pid = c[1]

(* Once tm_process_terminate has recorded an exit status, no later         *)
(* terminate, fault, detach or waitpid changes the record except by        *)
(* reaping it.                                                             *)
ExitStatusFinal ==
    [][\A i \in Index :
         g_processes[i].in_use /\ g_processes[i].exit_state = TM_EXIT_ZOMBIE
         => g_processes'[i] \in {g_processes[i], NoRecord}]_vars

(* "Already terminated (a retained zombie): resources are long gone": no   *)
(* thread ever asks to exit, or faults, and is left behind by the early    *)
(* return of tm_process_terminate.                                         *)
NobodyLeftHalted == halted = {}

(* A spawn populates the process table only when it succeeds: the pid of a *)
(* failed spawn is free and has no record.                                 *)
FailedSpawnLeavesNoRecord == \A p \in FreePids : ~Known(p)

-----------------------------------------------------------------------------
(* What the table promises its clients (module ProcLife), by pid. *)

RecordOf(pid) == g_processes[CHOOSE i \in Index : IsProc(i, pid)]

lifeOf(pid) ==
    IF ~Known(pid) THEN "free"
    ELSE IF RecordOf(pid).exit_state = TM_EXIT_LIVE THEN "live"
    ELSE IF RecordOf(pid).exit_state = TM_EXIT_DETACHED THEN "daemon" ELSE "zombie"

parentOf(pid) == IF Known(pid) THEN RecordOf(pid).parent_pid ELSE 0

statusOf(pid) == IF lifeOf(pid) = "zombie" THEN RecordOf(pid).exit_status ELSE 0

waitersOf(pid) ==
    IF Known(pid) /\ RecordOf(pid).waiter_reply_slot # 0
    THEN waiting[RecordOf(pid).waiter_reply_slot] ELSE {}

Life == INSTANCE ProcLife WITH
    life <- [p \in Pids |-> lifeOf(p)],
    parent <- [p \in Pids |-> parentOf(p)],
    code <- [p \in Pids |-> statusOf(p)],
    waiters <- [p \in Pids |-> waitersOf(p)],
    AllStatuses <- AllStatuses

(* The table implements the life cycle and the waitpid protocol of module  *)
(* ProcLife.                                                               *)
ImplementsProcLife == Life!Spec
=============================================================================
