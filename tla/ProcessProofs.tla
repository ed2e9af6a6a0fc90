--------------------------- MODULE ProcessProofs ----------------------------
(***************************************************************************)
(* Proofs about taskman's process table for every table size, set of       *)
(* threads, set of reply slots and set of exit statuses: the table itself, *)
(* the callers parked in waitpid, and the refinement of ProcLife.          *)
(***************************************************************************)
EXTENDS Process, TLAPS

(* A running thread is a thread of a real process. *)
LEMMA RunningIsCaller ==
    ASSUME TypeOK, NEW c \in Running
    PROVE  /\ c \in alive
           /\ c \in Callers
           /\ c[1] \in Pids
           /\ c \notin Blocked
BY Zenon DEF Running, TypeOK, RepliesTypeOK, Callers, Pids

(* tm_pid_alloc returns a pid of a user process and keeps the allocator in *)
(* range.                                                                  *)
LEMMA AllocRange ==
    ASSUME TypeOK, PidAvailable
    PROVE  /\ tm_pid_alloc \in 2 .. (MaxProcesses - 1)
           /\ FreeListAfterAlloc \in Seq(2 .. (MaxProcesses - 1))
           /\ NextPidAfterAlloc \in 3 .. MaxProcesses
<1> DEFINE L == s_pid_free_list
           T == 2 .. (MaxProcesses - 1)
<1>1. L \in Seq(T) /\ s_next_pid \in 3 .. MaxProcesses /\ MaxProcesses \in Nat
  BY MaxProcessesAssumption, Zenon DEF TypeOK
<1>2. CASE L # <<>>
  <2>1. Len(L) \in Nat /\ Len(L) >= 1
    BY <1>1, <1>2
  <2>2. L[Len(L)] \in T
    BY <1>1, <2>1
  <2>3. SubSeq(L, 1, Len(L) - 1) \in Seq(T)
    BY <1>1, <2>1
  <2> QED
    BY <1>1, <1>2, <2>2, <2>3, Zenon DEF tm_pid_alloc, FreeListAfterAlloc, NextPidAfterAlloc
<1>3. CASE L = <<>>
  BY <1>1, <1>3 DEF tm_pid_alloc, FreeListAfterAlloc, NextPidAfterAlloc, PidAvailable
<1> QED
  BY <1>2, <1>3, Zenon

LEMMA PidFreeRange ==
    ASSUME NEW list \in Seq(2 .. (MaxProcesses - 1)), NEW pid \in Pids
    PROVE  tm_pid_free(list, pid) \in Seq(2 .. (MaxProcesses - 1))
<1>1. CASE pid > QSOE_PID_TASKMAN /\ Len(list) < MaxProcesses
  <2>1. pid \in 2 .. (MaxProcesses - 1)
    BY <1>1, MaxProcessesAssumption DEF Pids, QSOE_PID_TASKMAN
  <2>2. Append(list, pid) \in Seq(2 .. (MaxProcesses - 1))
    BY <2>1
  <2> QED
    BY <1>1, <2>2, Zenon DEF tm_pid_free
<1>2. CASE ~(pid > QSOE_PID_TASKMAN /\ Len(list) < MaxProcesses)
  BY <1>2, Zenon DEF tm_pid_free
<1> QED
  BY <1>1, <1>2, Zenon

LEMMA RecordRange ==
    ASSUME NEW pid \in Pids, NEW parent \in Pids
    PROVE  NewRecord(pid, parent) \in Record /\ NoRecord \in Record
BY MaxProcessesAssumption
   DEF NewRecord, NoRecord, Record, Pids, TM_EXIT_LIVE, TM_EXIT_DETACHED,
       TM_EXIT_ZOMBIE, AllStatuses

LEMMA DetachedRange ==
    ASSUME NEW r \in Record, NEW status \in AllStatuses
    PROVE  DetachedRecord(r, status) \in Record
<1>1. QSOE_PID_TASKMAN \in 0 .. (MaxProcesses - 1)
  BY MaxProcessesAssumption DEF QSOE_PID_TASKMAN
<1>2. TM_EXIT_DETACHED \in {TM_EXIT_LIVE, TM_EXIT_DETACHED, TM_EXIT_ZOMBIE}
  BY Zenon
<1> QED
  BY <1>1, <1>2, Zenon DEF DetachedRecord, Record

LEMMA WaitedRange ==
    ASSUME NEW r \in Record, NEW slot \in ReplySlots
    PROVE  WaitedRecord(r, slot) \in Record
BY Zenon DEF WaitedRecord, Record

LEMMA ZombieRange ==
    ASSUME NEW r \in Record, NEW status \in AllStatuses
    PROVE  ZombieRecord(r, status) \in Record
BY Zenon DEF ZombieRecord, Record, TM_EXIT_ZOMBIE

(* Answering stashed replies and deleting threads keeps the reply          *)
(* bookkeeping well formed.                                                *)
LEMMA KillRange ==
    ASSUME RepliesTypeOK, NEW slots, NEW dead, DeliverAndKill(slots, dead)
    PROVE  RepliesTypeOK'
BY Zenon DEF RepliesTypeOK, DeliverAndKill

(* The type invariant of the process table is inductive: every handler     *)
(* keeps the table, the pid allocator and the reply slots in range.        *)
LEMMA TypeStep ==
    ASSUME TypeOK, [Next]_vars
    PROVE  TypeOK'
<1> USE DEF TypeOK
<1>pids. Pids \subseteq 0 .. (MaxProcesses - 1) /\ QSOE_PID_TASKMAN \in Pids
          /\ 2 .. (MaxProcesses - 1) \subseteq Pids
  BY MaxProcessesAssumption DEF Pids, QSOE_PID_TASKMAN
<1>1. ASSUME NEW c \in Running, SpawnOk(c) PROVE TypeOK'
  <2>1. tm_pid_alloc \in Pids /\ c \in alive /\ c[1] \in Pids
    BY <1>1, <1>pids, AllocRange, RunningIsCaller, Zenon DEF SpawnOk
  <2>2. g_processes' \in [Index -> Record]
    BY <1>1, <2>1, RecordRange, Zenon DEF SpawnOk
  <2>3. RepliesTypeOK'
    BY <1>1, <2>1, MainAssumption DEF SpawnOk, RepliesTypeOK, Callers
  <2> QED
    BY <1>1, <2>2, <2>3, AllocRange, Zenon DEF SpawnOk
<1>2. ASSUME NEW c \in Running, SpawnFailsEarly(c) PROVE TypeOK'
  <2>1. tm_pid_free(FreeListAfterAlloc, tm_pid_alloc) \in Seq(2 .. (MaxProcesses - 1))
    BY <1>2, <1>pids, AllocRange, PidFreeRange, Zenon DEF SpawnFailsEarly
  <2> QED
    BY <1>2, <2>1, AllocRange, Zenon DEF SpawnFailsEarly, RepliesTypeOK
<1>3. ASSUME NEW c \in Running, SpawnFailsLate(c) PROVE TypeOK'
  <2>1. tm_pid_free(FreeListAfterAlloc, tm_pid_alloc) \in Seq(2 .. (MaxProcesses - 1))
    BY <1>3, <1>pids, AllocRange, PidFreeRange, Zenon DEF SpawnFailsLate
  <2>2. g_processes' \in [Index -> Record]
    BY <1>3, <1>pids, AllocRange, RecordRange DEF SpawnFailsLate
  <2> QED
    BY <1>3, <2>1, <2>2, AllocRange, Zenon DEF SpawnFailsLate, RepliesTypeOK
<1>4. ASSUME NEW c \in Running, NEW status \in Statuses, tm_process_detach(c, status)
      PROVE  TypeOK'
  <2>1. g_processes' \in [Index -> Record]
    BY <1>4, DetachedRange DEF tm_process_detach, AllStatuses
  <2> QED
    BY <1>4, <2>1, Zenon DEF tm_process_detach, tm_reply_deliver, RepliesTypeOK
<1>5. ASSUME NEW c \in Running, NEW child \in Pids, WaitpidReaps(c, child)
      PROVE  TypeOK'
  <2>1. g_processes' \in [Index -> Record]
    BY <1>5, <1>pids, RecordRange, Zenon DEF WaitpidReaps
  <2> QED
    BY <1>5, <2>1, PidFreeRange, Zenon DEF WaitpidReaps, RepliesTypeOK
<1>6. ASSUME NEW c \in Running, NEW child \in Pids, WaitpidParks(c, child)
      PROVE  TypeOK'
  <2>1. g_processes' \in [Index -> Record]
    BY <1>6, WaitedRange DEF WaitpidParks
  <2> QED
    BY <1>6, <2>1, RunningIsCaller DEF WaitpidParks, tm_reply_park, RepliesTypeOK
<1>7. ASSUME NEW target \in Pids, NEW status \in AllStatuses,
             tm_process_terminate(target, status)
      PROVE  TypeOK'
  <2>1. RepliesTypeOK'
    BY <1>7, KillRange, Zenon DEF tm_process_terminate
  <2>2. PICK i \in Index :
          IF WaiterSlots(i) # {} \/ ~ParentCanReap(i)
          THEN /\ g_processes' = [g_processes EXCEPT ![i] = NoRecord]
               /\ s_pid_free_list' = tm_pid_free(s_pid_free_list, target)
          ELSE /\ g_processes' = [g_processes EXCEPT ![i] = ZombieRecord(@, status)]
               /\ UNCHANGED s_pid_free_list
    BY <1>7, Zenon DEF tm_process_terminate
  <2>3. g_processes' \in [Index -> Record]
    BY <1>7, <2>2, <1>pids, RecordRange, ZombieRange
  <2>4. s_pid_free_list' \in Seq(2 .. (MaxProcesses - 1))
    BY <2>2, PidFreeRange, Zenon
  <2> QED
    BY <1>7, <2>1, <2>3, <2>4, Zenon DEF tm_process_terminate
<1>8. ASSUME NEW c \in Running, NoReplyAfterExit(c) PROVE TypeOK'
  BY <1>8, RunningIsCaller, Zenon DEF NoReplyAfterExit, RepliesTypeOK, procVars
<1>9. ASSUME NEW c \in Running, NEW t \in Threads, StartThread(c, t) PROVE TypeOK'
  BY <1>9, RunningIsCaller DEF StartThread, RepliesTypeOK, procVars, Callers
<1>10. ASSUME NEW c \in Running, NEW t \in Threads, StopThread(c, t) PROVE TypeOK'
  BY <1>10, KillRange, Zenon DEF StopThread, procVars
<1>11. CASE UNCHANGED vars
  BY <1>11, Zenon DEF vars, RepliesTypeOK
<1>12. ASSUME NEW c \in Running, tm_handle_fault(c) PROVE TypeOK'
  BY <1>12, <1>7, RunningIsCaller, Zenon DEF tm_handle_fault, AllStatuses
<1>13. Statuses \subseteq AllStatuses
  BY Zenon DEF AllStatuses
<1> QED
  BY <1>1, <1>2, <1>3, <1>4, <1>5, <1>6, <1>7, <1>8, <1>9, <1>10, <1>11, <1>12, <1>13, Zenon
     DEF Next

-----------------------------------------------------------------------------
(* Every handler writes at most one record: it frees it, updates the       *)
(* record of a live process without touching its pid, or registers a pid   *)
(* nobody has.                                                             *)
OneRecordWritten(i, r) ==
    /\ g_processes' = [g_processes EXCEPT ![i] = r]
    /\ \/ r = NoRecord
       \/ /\ g_processes[i].in_use /\ g_processes[i].exit_state = TM_EXIT_LIVE
          /\ r.in_use /\ r.pid = g_processes[i].pid
       \/ ~g_processes[i].in_use /\ r.in_use /\ ~Known(r.pid)

LEMMA UpdateKeepsPid ==
    /\ \A r \in Record, status \in AllStatuses :
         /\ DetachedRecord(r, status).in_use = r.in_use
         /\ DetachedRecord(r, status).pid = r.pid
    /\ \A r \in Record, slot \in ReplySlots :
         /\ WaitedRecord(r, slot).in_use = r.in_use
         /\ WaitedRecord(r, slot).pid = r.pid
    /\ \A r \in Record, status \in AllStatuses :
         /\ ZombieRecord(r, status).in_use = r.in_use
         /\ ZombieRecord(r, status).pid = r.pid
BY Zenon DEF DetachedRecord, WaitedRecord, ZombieRecord, Record

LEMMA TableStep ==
    ASSUME TypeOK, [Next]_vars
    PROVE  \/ UNCHANGED g_processes
           \/ \E i \in Index, r \in Record : OneRecordWritten(i, r)
<1>pids. QSOE_PID_TASKMAN \in Pids /\ 2 .. (MaxProcesses - 1) \subseteq Pids
  BY MaxProcessesAssumption DEF Pids, QSOE_PID_TASKMAN
<1>rec. NoRecord \in Record /\ \A i \in Index : g_processes[i] \in Record
  BY <1>pids, RecordRange, Zenon DEF TypeOK
<1>1. ASSUME NEW c \in Running, SpawnOk(c)
      PROVE  \E i \in Index, r \in Record : OneRecordWritten(i, r)
  <2>1. NewRecord(tm_pid_alloc, c[1]) \in Record
    BY <1>1, <1>pids, AllocRange, RecordRange, RunningIsCaller, Zenon DEF SpawnOk
  <2>2. PICK i \in Index : /\ FirstFreeRecord(i)
                           /\ g_processes' = [g_processes EXCEPT
                                 ![i] = NewRecord(tm_pid_alloc, c[1])]
    BY <1>1, Zenon DEF SpawnOk
  <2> QED
    BY <1>1, <2>1, <2>2, Zenon DEF SpawnOk, FirstFreeRecord, NewRecord, OneRecordWritten
<1>2. ASSUME NEW c \in Running, SpawnFailsLate(c)
      PROVE  \E i \in Index, r \in Record : OneRecordWritten(i, r)
  <2>1. NewRecord(tm_pid_alloc, QSOE_PID_TASKMAN) \in Record
    BY <1>2, <1>pids, AllocRange, RecordRange, Zenon DEF SpawnFailsLate
  <2>2. PICK i \in Index : /\ FirstFreeRecord(i)
                           /\ g_processes' = [g_processes EXCEPT
                                 ![i] = NewRecord(tm_pid_alloc, QSOE_PID_TASKMAN)]
    BY <1>2, Zenon DEF SpawnFailsLate
  <2> QED
    BY <1>2, <2>1, <2>2, Zenon DEF SpawnFailsLate, FirstFreeRecord, NewRecord, OneRecordWritten
<1>3. ASSUME NEW c \in Running, NEW status \in Statuses, tm_process_detach(c, status)
      PROVE  \E i \in Index, r \in Record : OneRecordWritten(i, r)
  <2>1. PICK i \in Index :
          /\ IsProc(i, c[1]) /\ g_processes[i].exit_state = TM_EXIT_LIVE
          /\ g_processes' = [g_processes EXCEPT
                ![i] = DetachedRecord(g_processes[i], status)]
    BY <1>3, Zenon DEF tm_process_detach, tm_process_lookup
  <2>2. DetachedRecord(g_processes[i], status) \in Record
    BY <1>rec, DetachedRange, Zenon DEF AllStatuses
  <2> QED
    BY <1>rec, <2>1, <2>2, UpdateKeepsPid, Zenon DEF IsProc, AllStatuses, OneRecordWritten
<1>4. ASSUME NEW c \in Running, NEW child \in Pids, WaitpidReaps(c, child)
      PROVE  \E i \in Index, r \in Record : OneRecordWritten(i, r)
  BY <1>4, <1>rec, Zenon DEF WaitpidReaps, OneRecordWritten
<1>5. ASSUME NEW c \in Running, NEW child \in Pids, WaitpidParks(c, child)
      PROVE  \E i \in Index, r \in Record : OneRecordWritten(i, r)
  <2>1. PICK i \in Index, slot \in ReplySlots :
          /\ IsProc(i, child) /\ g_processes[i].exit_state = TM_EXIT_LIVE
          /\ g_processes' = [g_processes EXCEPT
                ![i] = WaitedRecord(g_processes[i], slot)]
    BY <1>5, Zenon DEF WaitpidParks, tm_process_lookup
  <2>2. WaitedRecord(g_processes[i], slot) \in Record
    BY <1>rec, WaitedRange, Zenon
  <2>3. /\ WaitedRecord(g_processes[i], slot).in_use
        /\ WaitedRecord(g_processes[i], slot).pid = g_processes[i].pid
    BY <1>rec, <2>1, UpdateKeepsPid, Zenon DEF IsProc
  <2>4. OneRecordWritten(i, WaitedRecord(g_processes[i], slot))
    BY <2>1, <2>3, Zenon DEF IsProc, OneRecordWritten
  <2> QED
    BY <2>2, <2>4, Zenon
<1>6. ASSUME NEW target \in Pids, NEW status \in AllStatuses,
             tm_process_terminate(target, status)
      PROVE  \E i \in Index, r \in Record : OneRecordWritten(i, r)
  <2>1. PICK i \in Index :
          /\ IsProc(i, target) /\ g_processes[i].exit_state = TM_EXIT_LIVE
          /\ \/ g_processes' = [g_processes EXCEPT ![i] = NoRecord]
             \/ g_processes' = [g_processes EXCEPT
                   ![i] = ZombieRecord(g_processes[i], status)]
    BY <1>6, Zenon DEF tm_process_terminate, tm_process_lookup
  <2>2. ZombieRecord(g_processes[i], status) \in Record
    BY <1>rec, ZombieRange, Zenon
  <2>3. CASE g_processes' = [g_processes EXCEPT ![i] = NoRecord]
    BY <1>rec, <2>3, Zenon DEF OneRecordWritten
  <2>4. CASE g_processes' = [g_processes EXCEPT
                               ![i] = ZombieRecord(g_processes[i], status)]
    <3>1. /\ ZombieRecord(g_processes[i], status).in_use
          /\ ZombieRecord(g_processes[i], status).pid = g_processes[i].pid
      BY <1>rec, <2>1, UpdateKeepsPid, Zenon DEF IsProc
    <3>2. OneRecordWritten(i, ZombieRecord(g_processes[i], status))
      BY <2>1, <2>4, <3>1, Zenon DEF IsProc, OneRecordWritten
    <3> QED
      BY <2>2, <3>2, Zenon
  <2> QED
    BY <2>1, <2>3, <2>4, Zenon
<1>7. ASSUME NEW c \in Running, tm_handle_fault(c)
      PROVE  \E i \in Index, r \in Record : OneRecordWritten(i, r)
  BY <1>6, <1>7, RunningIsCaller, Zenon DEF tm_handle_fault, AllStatuses
<1>8. Statuses \subseteq AllStatuses
  BY Zenon DEF AllStatuses
<1> QED
  BY <1>1, <1>2, <1>3, <1>4, <1>5, <1>6, <1>7, <1>8, Zenon
     DEF Next, vars, procVars, SpawnFailsEarly, NoReplyAfterExit, StartThread, StopThread

(* What the three record updates do to the other fields. *)
LEMMA UpdateFields ==
    /\ \A r \in Record, status \in AllStatuses :
         /\ DetachedRecord(r, status).exit_state = TM_EXIT_DETACHED
         /\ DetachedRecord(r, status).parent_pid = QSOE_PID_TASKMAN
         /\ DetachedRecord(r, status).waiter_reply_slot = 0
    /\ \A r \in Record, slot \in ReplySlots :
         /\ WaitedRecord(r, slot).exit_state = r.exit_state
         /\ WaitedRecord(r, slot).parent_pid = r.parent_pid
         /\ WaitedRecord(r, slot).waiter_reply_slot = slot
    /\ \A r \in Record, status \in AllStatuses :
         /\ ZombieRecord(r, status).exit_state = TM_EXIT_ZOMBIE
         /\ ZombieRecord(r, status).exit_status = status
         /\ ZombieRecord(r, status).parent_pid = r.parent_pid
         /\ ZombieRecord(r, status).waiter_reply_slot = 0
BY Zenon DEF DetachedRecord, WaitedRecord, ZombieRecord, Record

(* No handler registers a pid twice. *)
LEMMA UniqueStep ==
    ASSUME TypeOK, UniquePids, [Next]_vars
    PROVE  UniquePids'
<1>1. CASE UNCHANGED g_processes
  BY <1>1, Zenon DEF UniquePids
<1>2. ASSUME NEW i \in Index, NEW r \in Record, OneRecordWritten(i, r)
      PROVE  UniquePids'
  BY <1>2 DEF OneRecordWritten, UniquePids, TypeOK, Known, IsProc, NoRecord
<1> QED
  BY <1>1, <1>2, TableStep, Zenon

(* The strengthening shared by the theorems below. *)
TableInv == TypeOK /\ UniquePids /\ TaskmanAdoptsDaemons /\ NoOrphanThread

LEMMA TableInvInit ==
    ASSUME Init
    PROVE  TableInv
<1>1. 1 \in Index /\ 2 \in Index /\ 1 \in Pids /\ 2 \in Pids
  BY MaxProcessesAssumption DEF Index, Pids
<1>2. /\ NewRecord(QSOE_PID_TASKMAN, QSOE_PID_TASKMAN) \in Record
      /\ NewRecord(INIT_PID, QSOE_PID_TASKMAN) \in Record
      /\ NoRecord \in Record
  BY <1>1, RecordRange, Zenon DEF QSOE_PID_TASKMAN, INIT_PID
<1>3. TypeOK
  BY <1>1, <1>2, MainAssumption, MaxProcessesAssumption
     DEF Init, TypeOK, RepliesTypeOK, Callers, INIT_PID
<1>4. UniquePids
  BY <1>1, Zenon DEF Init, UniquePids, NewRecord, NoRecord, QSOE_PID_TASKMAN, INIT_PID
<1>5. TaskmanAdoptsDaemons
  BY DEF Init, TaskmanAdoptsDaemons, NewRecord, NoRecord, QSOE_PID_TASKMAN, INIT_PID,
         TM_EXIT_LIVE, TM_EXIT_DETACHED
<1>6. NoOrphanThread
  BY <1>1 DEF Init, NoOrphanThread, IsProc, NewRecord, NoRecord, QSOE_PID_TASKMAN,
              INIT_PID, TM_EXIT_LIVE, TM_EXIT_ZOMBIE
<1> QED
  BY <1>3, <1>4, <1>5, <1>6, Zenon DEF TableInv

(* The table invariant is inductive.  The heart of it is WaitpidReaps: the *)
(* reaped record is not live, and cannot be a daemon, because a daemon's   *)
(* parent is taskman and taskman never waits; so it is a zombie, and a     *)
(* zombie has no threads left.                                             *)
LEMMA TableInvStep ==
    ASSUME TableInv, [Next]_vars
    PROVE  TableInv'
<1> DEFINE Rest == TaskmanAdoptsDaemons /\ NoOrphanThread
<1>inv. TypeOK /\ UniquePids /\ TaskmanAdoptsDaemons /\ NoOrphanThread
  BY Zenon DEF TableInv
<1>ty. TypeOK' /\ UniquePids'
  BY <1>inv, TypeStep, UniqueStep, Zenon
<1>rec. /\ \A i \in Index : g_processes[i] \in Record
        /\ g_processes \in [Index -> Record]
        /\ alive \subseteq Callers
        /\ \A c \in Callers : c[1] \in Pids
  BY <1>inv, Zenon DEF TypeOK, RepliesTypeOK, Callers
<1>st. /\ TM_EXIT_LIVE # TM_EXIT_ZOMBIE /\ TM_EXIT_DETACHED # TM_EXIT_ZOMBIE
       /\ TM_EXIT_LIVE # TM_EXIT_DETACHED
       /\ Statuses \subseteq AllStatuses /\ TM_SIG_SEGV \in AllStatuses
  BY DEF TM_EXIT_LIVE, TM_EXIT_ZOMBIE, TM_EXIT_DETACHED, AllStatuses
<1>upd. ASSUME NEW i \in Index, NEW r, alive' = alive,
               g_processes' = [g_processes EXCEPT ![i] = r],
               r.in_use, r.pid = g_processes[i].pid, r.exit_state # TM_EXIT_ZOMBIE,
               r.pid = QSOE_PID_TASKMAN => /\ r.exit_state = TM_EXIT_LIVE
                                           /\ r.parent_pid = QSOE_PID_TASKMAN,
               r.exit_state = TM_EXIT_DETACHED => r.parent_pid = QSOE_PID_TASKMAN
        PROVE  Rest'
  <2>1. \A j \in Index : g_processes'[j] = IF j = i THEN r ELSE g_processes[j]
    BY <1>rec, <1>upd, Zenon
  <2>2. TaskmanAdoptsDaemons'
    BY <1>inv, <1>upd, <2>1 DEF TaskmanAdoptsDaemons
  <2>3. NoOrphanThread'
    BY <1>inv, <1>upd, <2>1 DEF NoOrphanThread, IsProc
  <2> QED
    BY <2>2, <2>3, Zenon
<1>1. ASSUME NEW c \in Running, SpawnOk(c) PROVE Rest'
  <2>1. tm_pid_alloc \in Pids /\ tm_pid_alloc # QSOE_PID_TASKMAN
    BY <1>1, <1>inv, AllocRange, MaxProcessesAssumption DEF SpawnOk, Pids, QSOE_PID_TASKMAN
  <2>2. PICK i \in Index : /\ FirstFreeRecord(i)
                           /\ g_processes' = [g_processes EXCEPT
                                 ![i] = NewRecord(tm_pid_alloc, c[1])]
    BY <1>1, Zenon DEF SpawnOk
  <2>3. alive' = alive \cup {<<tm_pid_alloc, Main>>}
    BY <1>1, Zenon DEF SpawnOk
  <2>4. TaskmanAdoptsDaemons'
    BY <1>inv, <1>rec, <1>st, <2>1, <2>2, <2>3 DEF TaskmanAdoptsDaemons, NewRecord
  <2>5. NoOrphanThread'
    BY <1>inv, <1>rec, <1>st, <2>1, <2>2, <2>3
       DEF NoOrphanThread, NewRecord, IsProc, FirstFreeRecord
  <2> QED
    BY <2>4, <2>5, Zenon
<1>2. ASSUME NEW c \in Running, SpawnFailsEarly(c) PROVE Rest'
  BY <1>2, <1>inv, Zenon DEF SpawnFailsEarly, TaskmanAdoptsDaemons, NoOrphanThread, IsProc
<1>3. ASSUME NEW c \in Running, SpawnFailsLate(c) PROVE Rest'
  <2>1. tm_pid_alloc # QSOE_PID_TASKMAN
    BY <1>3, <1>inv, AllocRange DEF SpawnFailsLate, QSOE_PID_TASKMAN
  <2>2. PICK i \in Index : /\ FirstFreeRecord(i)
                           /\ g_processes' = [g_processes EXCEPT
                                 ![i] = NewRecord(tm_pid_alloc, QSOE_PID_TASKMAN)]
    BY <1>3, Zenon DEF SpawnFailsLate
  <2>3. alive' = alive
    BY <1>3, Zenon DEF SpawnFailsLate
  <2>4. TaskmanAdoptsDaemons'
    BY <1>inv, <1>rec, <1>st, <2>1, <2>2, <2>3, Zenon DEF TaskmanAdoptsDaemons, NewRecord
  <2>5. NoOrphanThread'
    BY <1>inv, <1>rec, <2>2, <2>3, Zenon DEF NoOrphanThread, IsProc, FirstFreeRecord
  <2> QED
    BY <2>4, <2>5, Zenon
<1>4. ASSUME NEW c \in Running, NEW status \in Statuses, tm_process_detach(c, status)
      PROVE  Rest'
  <2>1. PICK i \in Index :
          /\ IsProc(i, c[1])
          /\ g_processes' = [g_processes EXCEPT
                ![i] = DetachedRecord(g_processes[i], status)]
    BY <1>4, Zenon DEF tm_process_detach, tm_process_lookup
  <2>2. c[1] # QSOE_PID_TASKMAN /\ alive' = alive
    BY <1>4, <1>inv, RunningIsCaller, Zenon DEF TaskmanAdoptsDaemons, tm_process_detach
  <2> DEFINE r == DetachedRecord(g_processes[i], status)
  <2>3. g_processes[i] \in Record /\ status \in AllStatuses
    BY <1>rec, <1>st, Zenon
  <2>4. r.in_use = g_processes[i].in_use /\ r.pid = g_processes[i].pid
    BY <2>3, UpdateKeepsPid, Zenon
  <2>5. r.exit_state = TM_EXIT_DETACHED /\ r.parent_pid = QSOE_PID_TASKMAN
    BY <2>3, UpdateFields
  <2>6. g_processes' = [g_processes EXCEPT ![i] = r]
    BY <2>1, Zenon
  <2> HIDE DEF r
  <2>7. r.in_use /\ r.pid # QSOE_PID_TASKMAN
    BY <2>1, <2>2, <2>4, Zenon DEF IsProc
  <2> QED
    BY <1>st, <1>upd, <2>2, <2>4, <2>5, <2>6, <2>7, Zenon
<1>5. ASSUME NEW c \in Running, NEW child \in Pids, WaitpidReaps(c, child)
      PROVE  Rest'
  <2>1. PICK i \in Index :
          /\ IsProc(i, child)
          /\ g_processes[i].parent_pid = c[1]
          /\ g_processes[i].exit_state # TM_EXIT_LIVE
          /\ g_processes' = [g_processes EXCEPT ![i] = NoRecord]
    BY <1>5, Zenon DEF WaitpidReaps, tm_process_lookup
  <2>2. c[1] # QSOE_PID_TASKMAN /\ alive' = alive
    BY <1>5, <1>inv, RunningIsCaller, Zenon DEF TaskmanAdoptsDaemons, WaitpidReaps
  <2>3. g_processes[i].exit_state = TM_EXIT_ZOMBIE
    BY <1>inv, <1>rec, <2>1, <2>2, Zenon DEF TaskmanAdoptsDaemons, IsProc, Record
  <2>4. TaskmanAdoptsDaemons'
    BY <1>inv, <1>rec, <2>1, <2>2, Zenon DEF TaskmanAdoptsDaemons, NoRecord
  <2>5. NoOrphanThread'
    <3> SUFFICES ASSUME NEW d \in alive
                 PROVE  \E j \in Index : IsProc(j, d[1])'
                          /\ g_processes'[j].exit_state # TM_EXIT_ZOMBIE
      BY <2>2, Zenon DEF NoOrphanThread
    <3>1. PICK j \in Index : IsProc(j, d[1]) /\ g_processes[j].exit_state # TM_EXIT_ZOMBIE
      BY <1>inv, Zenon DEF NoOrphanThread
    <3>2. j # i
      BY <2>3, <3>1, Zenon
    <3> QED
      BY <1>rec, <2>1, <3>1, <3>2, Zenon DEF IsProc
  <2> QED
    BY <2>4, <2>5, Zenon
<1>6. ASSUME NEW c \in Running, NEW child \in Pids, WaitpidParks(c, child)
      PROVE  Rest'
  <2>1. PICK i \in Index, slot \in ReplySlots :
          /\ IsProc(i, child)
          /\ g_processes[i].exit_state = TM_EXIT_LIVE
          /\ g_processes' = [g_processes EXCEPT
                ![i] = WaitedRecord(g_processes[i], slot)]
    BY <1>6, Zenon DEF WaitpidParks, tm_process_lookup
  <2>2. alive' = alive
    BY <1>6, Zenon DEF WaitpidParks
  <2> DEFINE r == WaitedRecord(g_processes[i], slot)
  <2>3. /\ r.in_use /\ r.pid = g_processes[i].pid /\ r.exit_state = TM_EXIT_LIVE
        /\ r.pid = QSOE_PID_TASKMAN => r.parent_pid = QSOE_PID_TASKMAN
    BY <1>rec, <1>inv, <2>1, UpdateKeepsPid, UpdateFields DEF IsProc, TaskmanAdoptsDaemons
  <2>4. g_processes' = [g_processes EXCEPT ![i] = r]
    BY <2>1, Zenon
  <2> HIDE DEF r
  <2> QED
    BY <1>st, <1>upd, <2>2, <2>3, <2>4, Zenon
<1>7. ASSUME NEW target \in Pids, NEW status \in AllStatuses,
             tm_process_terminate(target, status)
      PROVE  Rest'
  <2>1. PICK i \in Index :
          /\ IsProc(i, target)
          /\ \/ g_processes' = [g_processes EXCEPT ![i] = NoRecord]
             \/ g_processes' = [g_processes EXCEPT
                   ![i] = ZombieRecord(g_processes[i], status)]
    BY <1>7, Zenon DEF tm_process_terminate, tm_process_lookup
  <2>2. alive' = alive \ ThreadsOf(target) /\ target # QSOE_PID_TASKMAN
    BY <1>7, Zenon DEF tm_process_terminate, DeliverAndKill
  <2>3. TaskmanAdoptsDaemons'
    <3> DEFINE z == ZombieRecord(g_processes[i], status)
    <3>1. /\ ~NoRecord.in_use
          /\ z.pid = target /\ z.exit_state = TM_EXIT_ZOMBIE
      BY <1>rec, <2>1, UpdateKeepsPid, UpdateFields DEF IsProc, NoRecord
    <3>2. PICK r : g_processes' = [g_processes EXCEPT ![i] = r] /\ r \in {NoRecord, z}
      BY <2>1, Zenon
    <3>3. ~r.in_use \/ (r.pid = target /\ r.exit_state = TM_EXIT_ZOMBIE)
      BY <3>1, <3>2, Zenon
    <3> HIDE DEF z
    <3>4. \A j \in Index : g_processes'[j] = IF j = i THEN r ELSE g_processes[j]
      BY <1>rec, <3>2, Zenon
    <3> QED
      BY <1>inv, <1>st, <2>2, <3>3, <3>4, Zenon DEF TaskmanAdoptsDaemons
  <2>4. NoOrphanThread'
    <3> SUFFICES ASSUME NEW d \in alive, d \notin ThreadsOf(target)
                 PROVE  \E j \in Index : IsProc(j, d[1])'
                          /\ g_processes'[j].exit_state # TM_EXIT_ZOMBIE
      BY <2>2, Zenon DEF NoOrphanThread
    <3>1. PICK j \in Index : IsProc(j, d[1]) /\ g_processes[j].exit_state # TM_EXIT_ZOMBIE
      BY <1>inv, Zenon DEF NoOrphanThread
    <3>2. d[1] # target
      BY <1>rec, Zenon DEF ThreadsOf
    <3>3. j # i
      BY <2>1, <3>1, <3>2, Zenon DEF IsProc
    <3> QED
      BY <1>rec, <2>1, <3>1, <3>3, Zenon DEF IsProc
  <2> QED
    BY <2>3, <2>4, Zenon
<1>8. ASSUME NEW c \in Running, tm_handle_fault(c) PROVE Rest'
  BY <1>7, <1>8, <1>st, <1>inv, RunningIsCaller, Zenon DEF tm_handle_fault
<1>9. ASSUME NEW c \in Running, NoReplyAfterExit(c) PROVE Rest'
  BY <1>9, <1>inv, Zenon DEF NoReplyAfterExit, procVars, TaskmanAdoptsDaemons, NoOrphanThread, IsProc
<1>10. ASSUME NEW c \in Running, NEW t \in Threads, StartThread(c, t) PROVE Rest'
  <2>1. c \in alive
    BY <1>inv, RunningIsCaller, Zenon
  <2> QED
    BY <1>10, <1>inv, <2>1
       DEF StartThread, procVars, TaskmanAdoptsDaemons, NoOrphanThread, IsProc
<1>11. ASSUME NEW c \in Running, NEW t \in Threads, StopThread(c, t) PROVE Rest'
  BY <1>11, <1>inv
     DEF StopThread, DeliverAndKill, procVars, TaskmanAdoptsDaemons, NoOrphanThread, IsProc
<1>12. ASSUME UNCHANGED vars PROVE Rest'
  BY <1>12, <1>inv DEF vars, TaskmanAdoptsDaemons, NoOrphanThread, IsProc
<1>13. Rest'
  BY <1>1, <1>2, <1>3, <1>4, <1>5, <1>6, <1>7, <1>8, <1>9, <1>10, <1>11, <1>12, <1>st, Zenon
     DEF Next
<1> QED
  BY <1>ty, <1>13, Zenon DEF TableInv

(* For every instance, single- or multi-threaded, and however spawns fail: *)
(* the table stays well typed, no pid is registered twice and no thread    *)
(* outlives the record of its process.                                     *)
THEOREM TableCorrect == Spec => [](TypeOK /\ UniquePids /\ NoOrphanThread)
<1>1. Init => TableInv
  BY TableInvInit, Zenon
<1>2. TableInv /\ [Next]_vars => TableInv'
  BY TableInvStep, Zenon
<1>3. TableInv => TypeOK /\ UniquePids /\ NoOrphanThread
  BY Zenon DEF TableInv
<1> QED
  BY <1>1, <1>2, <1>3, PTL DEF Spec

(* Recorded exit statuses are final in every instance: the record of a     *)
(* zombie changes only when it is reaped.                                  *)
THEOREM ExitStatusIsFinal == Spec => ExitStatusFinal
<1> DEFINE A == \A i \in Index :
                  g_processes[i].in_use /\ g_processes[i].exit_state = TM_EXIT_ZOMBIE
                  => g_processes'[i] \in {g_processes[i], NoRecord}
<1>1. ASSUME TableInv, [Next]_vars PROVE A
  <2>1. CASE UNCHANGED g_processes
    BY <2>1, Zenon
  <2>2. ASSUME NEW i \in Index, NEW r \in Record, OneRecordWritten(i, r)
        PROVE  A
    BY <1>1, <2>2 DEF OneRecordWritten, TableInv, TypeOK, TM_EXIT_LIVE, TM_EXIT_ZOMBIE
  <2> QED
    BY <1>1, <2>1, <2>2, TableStep, Zenon DEF TableInv
<1>2. Init => TableInv
  BY TableInvInit, Zenon
<1>3. TableInv /\ [Next]_vars => TableInv'
  BY TableInvStep, Zenon
<1> QED
  BY <1>1, <1>2, <1>3, PTL DEF Spec, ExitStatusFinal

-----------------------------------------------------------------------------
(***************************************************************************)
(* Callers parked in waitpid: with one thread per process the record of a  *)
(* live child answers the one thread that waits for it.                    *)
(***************************************************************************)

(* Stash slots and their records: a slot somebody is blocked on, or that a *)
(* record points to, holds a reply object, and no two records share one.   *)
SlotInv ==
    /\ \A s \in ReplySlots : waiting[s] # {} => s \in stash
    /\ \A i \in Index : g_processes[i].in_use => WaiterSlots(i) \subseteq stash
    /\ \A i, j \in Index :
          /\ g_processes[i].in_use /\ g_processes[j].in_use
          /\ WaiterSlots(i) \cap WaiterSlots(j) # {}
          => i = j

WaitInv == TableInv /\ SlotInv /\ WaiterTracked

LEMMA WaitInvInit ==
    ASSUME Init
    PROVE  WaitInv
<1>1. SlotInv
  BY Zenon DEF Init, SlotInv, WaiterSlots, NewRecord, NoRecord
<1>2. WaiterTracked
  BY Zenon DEF Init, WaiterTracked
<1> QED
  BY <1>1, <1>2, TableInvInit, Zenon DEF WaitInv

(* With one thread per process a parked waiter is never overwritten: the   *)
(* only thread that could wait again for the same child is the one that is *)
(* blocked.                                                                *)
LEMMA WaitInvStep ==
    ASSUME WaitInv, [Next]_vars, Threads = {Main}
    PROVE  WaitInv'
<1> DEFINE Rest == SlotInv /\ WaiterTracked
<1>inv. TypeOK /\ TableInv /\ SlotInv /\ WaiterTracked
  BY Zenon DEF WaitInv, TableInv
<1>rec. /\ \A i \in Index : g_processes[i] \in Record
        /\ g_processes \in [Index -> Record]
        /\ waiting \in [ReplySlots -> SUBSET alive]
        /\ stash \subseteq ReplySlots /\ alive \subseteq Callers
  BY <1>inv, Zenon DEF TypeOK, RepliesTypeOK
<1>st. /\ TM_EXIT_LIVE # TM_EXIT_ZOMBIE /\ TM_EXIT_LIVE # TM_EXIT_DETACHED
       /\ Statuses \subseteq AllStatuses /\ TM_SIG_SEGV \in AllStatuses
       /\ 0 \notin ReplySlots
  BY ReplySlotsAssumption DEF TM_EXIT_LIVE, TM_EXIT_ZOMBIE, TM_EXIT_DETACHED, AllStatuses
<1>same. ASSUME UNCHANGED <<g_processes, stash, waiting>> PROVE Rest'
  <2>1. SlotInv'
    BY <1>same, <1>inv, Zenon DEF SlotInv, WaiterSlots
  <2>2. WaiterTracked'
    BY <1>same, <1>inv DEF WaiterTracked
  <2> QED
    BY <2>1, <2>2, Zenon
<1>other. ASSUME NEW i \in Index, NEW r, UNCHANGED waiting,
                 ~(g_processes[i].in_use /\ g_processes[i].exit_state = TM_EXIT_LIVE),
                 g_processes' = [g_processes EXCEPT ![i] = r]
          PROVE  WaiterTracked'
  <2>1. \A j \in Index \ {i} : g_processes'[j] = g_processes[j]
    BY <1>rec, <1>other, Zenon
  <2> SUFFICES ASSUME NEW slot \in ReplySlots, NEW c \in waiting[slot]
               PROVE  \E j \in Index :
                         /\ g_processes'[j].in_use
                         /\ g_processes'[j].exit_state = TM_EXIT_LIVE
                         /\ g_processes'[j].waiter_reply_slot = slot
                         /\ g_processes'[j].parent_pid = c[1]
    BY <1>other, Zenon DEF WaiterTracked
  <2>2. PICK j \in Index : /\ g_processes[j].in_use
                           /\ g_processes[j].exit_state = TM_EXIT_LIVE
                           /\ g_processes[j].waiter_reply_slot = slot
                           /\ g_processes[j].parent_pid = c[1]
    BY <1>inv, Zenon DEF WaiterTracked
  <2> QED
    BY <1>other, <2>1, <2>2, Zenon
<1>new. ASSUME NEW i \in Index, NEW pid, NEW parent, FirstFreeRecord(i),
               g_processes' = [g_processes EXCEPT ![i] = NewRecord(pid, parent)],
               UNCHANGED <<stash, waiting>>
        PROVE  Rest'
  <2>1. SlotInv'
    BY <1>new, <1>inv, <1>rec DEF SlotInv, WaiterSlots, NewRecord, FirstFreeRecord
  <2>2. WaiterTracked'
    BY <1>new, <1>other, Zenon DEF FirstFreeRecord
  <2> QED
    BY <2>1, <2>2, Zenon
<1>end. ASSUME NEW i \in Index, NEW r, NEW dead,
               g_processes[i].in_use,
               g_processes' = [g_processes EXCEPT ![i] = r],
               r.in_use => r.waiter_reply_slot = 0,
               stash' = stash \ WaiterSlots(i),
               waiting' = [s \in ReplySlots |->
                             IF s \in WaiterSlots(i) THEN {} ELSE waiting[s] \ dead]
        PROVE  Rest'
  <2>1. SlotInv'
    BY <1>end, <1>inv, <1>rec DEF SlotInv, WaiterSlots
  <2>2. WaiterTracked'
    <3> SUFFICES ASSUME NEW slot \in ReplySlots, NEW c \in waiting'[slot]
                 PROVE  \E j \in Index :
                           /\ g_processes'[j].in_use
                           /\ g_processes'[j].exit_state = TM_EXIT_LIVE
                           /\ g_processes'[j].waiter_reply_slot = slot
                           /\ g_processes'[j].parent_pid = c[1]
      BY Zenon DEF WaiterTracked
    <3>1. slot \notin WaiterSlots(i) /\ c \in waiting[slot]
      BY <1>end, Zenon
    <3>2. PICK j \in Index : /\ g_processes[j].in_use
                             /\ g_processes[j].exit_state = TM_EXIT_LIVE
                             /\ g_processes[j].waiter_reply_slot = slot
                             /\ g_processes[j].parent_pid = c[1]
      BY <1>inv, <3>1 DEF WaiterTracked
    <3>3. j # i
      BY <1>st, <3>1, <3>2, Zenon DEF WaiterSlots
    <3> QED
      BY <1>end, <1>rec, <3>2, <3>3, Zenon
  <2> QED
    BY <2>1, <2>2, Zenon
<1>1. ASSUME NEW c \in Running, SpawnOk(c) PROVE Rest'
  BY <1>1, <1>new, Zenon DEF SpawnOk
<1>2. ASSUME NEW c \in Running, SpawnFailsEarly(c) PROVE Rest'
  BY <1>2, <1>same, Zenon DEF SpawnFailsEarly
<1>3. ASSUME NEW c \in Running, SpawnFailsLate(c) PROVE Rest'
  BY <1>3, <1>new, Zenon DEF SpawnFailsLate
<1>4. ASSUME NEW c \in Running, NEW status \in Statuses, tm_process_detach(c, status)
      PROVE  Rest'
  <2>1. PICK i \in Index :
          /\ IsProc(i, c[1])
          /\ g_processes' = [g_processes EXCEPT
                ![i] = DetachedRecord(g_processes[i], status)]
          /\ tm_reply_deliver(WaiterSlots(i))
    BY <1>4, Zenon DEF tm_process_detach, tm_process_lookup
  <2>2. waiting' = [s \in ReplySlots |->
                      IF s \in WaiterSlots(i) THEN {} ELSE waiting[s] \ {}]
    BY <2>1, Zenon DEF tm_reply_deliver
  <2> DEFINE r == DetachedRecord(g_processes[i], status)
  <2>3. r.waiter_reply_slot = 0
    BY <1>rec, <1>st, UpdateFields
  <2>4. /\ g_processes[i].in_use
        /\ g_processes' = [g_processes EXCEPT ![i] = r]
        /\ stash' = stash \ WaiterSlots(i)
    BY <2>1, Zenon DEF IsProc, tm_reply_deliver
  <2> HIDE DEF r
  <2> QED
    BY <1>end, <2>2, <2>3, <2>4, Zenon
<1>5. ASSUME NEW c \in Running, NEW child \in Pids, WaitpidReaps(c, child)
      PROVE  Rest'
  <2>1. PICK i \in Index :
          /\ IsProc(i, child)
          /\ g_processes[i].exit_state # TM_EXIT_LIVE
          /\ g_processes' = [g_processes EXCEPT ![i] = NoRecord]
    BY <1>5, Zenon DEF WaitpidReaps, tm_process_lookup
  <2>2. UNCHANGED <<stash, waiting>>
    BY <1>5, Zenon DEF WaitpidReaps
  <2>3. SlotInv'
    BY <1>inv, <1>rec, <2>1, <2>2 DEF SlotInv, WaiterSlots, NoRecord
  <2>4. WaiterTracked'
    BY <1>other, <2>1, <2>2, Zenon
  <2> QED
    BY <2>3, <2>4, Zenon
<1>7. ASSUME NEW target \in Pids, NEW status \in AllStatuses,
             tm_process_terminate(target, status)
      PROVE  Rest'
  <2>1. PICK i \in Index :
          /\ IsProc(i, target)
          /\ DeliverAndKill(WaiterSlots(i), ThreadsOf(target))
          /\ \/ g_processes' = [g_processes EXCEPT ![i] = NoRecord]
             \/ g_processes' = [g_processes EXCEPT
                   ![i] = ZombieRecord(g_processes[i], status)]
    BY <1>7, Zenon DEF tm_process_terminate, tm_process_lookup
  <2>2. /\ NoRecord.in_use = FALSE
        /\ ZombieRecord(g_processes[i], status).waiter_reply_slot = 0
    BY <1>rec, UpdateFields DEF NoRecord
  <2>3. CASE g_processes' = [g_processes EXCEPT ![i] = NoRecord]
    BY <1>end, <2>1, <2>2, <2>3, Zenon DEF IsProc, DeliverAndKill
  <2>4. CASE g_processes' = [g_processes EXCEPT
                               ![i] = ZombieRecord(g_processes[i], status)]
    BY <1>end, <2>1, <2>2, <2>4, Zenon DEF IsProc, DeliverAndKill
  <2> QED
    BY <2>1, <2>3, <2>4, Zenon
<1>8. ASSUME NEW c \in Running, tm_handle_fault(c) PROVE Rest'
  BY <1>7, <1>8, <1>st, <1>inv, RunningIsCaller, Zenon DEF tm_handle_fault
<1>9. ASSUME NEW c \in Running, NoReplyAfterExit(c) PROVE Rest'
  BY <1>9, <1>same, Zenon DEF NoReplyAfterExit, procVars
<1>10. ASSUME NEW c \in Running, NEW t \in Threads, StartThread(c, t) PROVE Rest'
  BY <1>10, <1>same, Zenon DEF StartThread, procVars
<1>11. ASSUME NEW c \in Running, NEW t \in Threads, StopThread(c, t) PROVE Rest'
  <2>1. /\ UNCHANGED g_processes /\ stash' = stash
        /\ \A s \in ReplySlots : waiting'[s] \subseteq waiting[s]
    BY <1>11, <1>rec, Zenon DEF StopThread, DeliverAndKill, procVars
  <2>2. SlotInv'
    BY <1>inv, <2>1, Zenon DEF SlotInv, WaiterSlots
  <2>3. WaiterTracked'
    BY <1>inv, <2>1 DEF WaiterTracked
  <2> QED
    BY <2>2, <2>3, Zenon
<1>12. ASSUME UNCHANGED vars PROVE Rest'
  BY <1>12, <1>same, Zenon DEF vars
<1>6. ASSUME NEW c \in Running, NEW child \in Pids, WaitpidParks(c, child)
      PROVE  Rest'
  <2>1. PICK i \in Index, slot \in ReplySlots :
          /\ IsProc(i, child)
          /\ g_processes[i].parent_pid = c[1]
          /\ g_processes[i].exit_state = TM_EXIT_LIVE
          /\ tm_reply_park(c, slot)
          /\ g_processes' = [g_processes EXCEPT
                ![i] = WaitedRecord(g_processes[i], slot)]
    BY <1>6, Zenon DEF WaitpidParks, tm_process_lookup
  <2> DEFINE w == WaitedRecord(g_processes[i], slot)
  <2>2. /\ w.in_use /\ w.exit_state = TM_EXIT_LIVE /\ w.waiter_reply_slot = slot
        /\ w.parent_pid = c[1]
    BY <1>rec, <2>1, UpdateKeepsPid, UpdateFields DEF IsProc
  <2>3. slot \notin stash /\ stash' = stash \cup {slot}
        /\ waiting' = [waiting EXCEPT ![slot] = {c}]
    BY <2>1, Zenon DEF tm_reply_park
  <2>4. SlotInv'
    <3>0. \A j \in Index : g_processes'[j] = IF j = i THEN w ELSE g_processes[j]
      BY <1>rec, <2>1, Zenon
    <3>1. /\ WaiterSlots(i)' = {slot}
          /\ \A j \in Index \ {i} : /\ WaiterSlots(j)' = WaiterSlots(j)
                                    /\ g_processes'[j].in_use = g_processes[j].in_use
      BY <1>st, <2>2, <3>0 DEF WaiterSlots
    <3>2. /\ \A s \in ReplySlots : waiting[s] # {} => s \in stash
          /\ \A j \in Index : g_processes[j].in_use => WaiterSlots(j) \subseteq stash
          /\ \A j, k \in Index :
                /\ g_processes[j].in_use /\ g_processes[k].in_use
                /\ WaiterSlots(j) \cap WaiterSlots(k) # {}
                => j = k
      BY <1>inv, Zenon DEF SlotInv
    <3> HIDE DEF w
    <3>3. \A s \in ReplySlots : waiting'[s] # {} => s \in stash'
      BY <1>rec, <2>3, <3>2, Zenon
    <3>4. \A j \in Index : g_processes'[j].in_use => WaiterSlots(j)' \subseteq stash'
      BY <2>3, <3>1, <3>2
    <3>5. \A j, k \in Index :
             /\ g_processes'[j].in_use /\ g_processes'[k].in_use
             /\ WaiterSlots(j)' \cap WaiterSlots(k)' # {}
             => j = k
      <4> SUFFICES ASSUME NEW j \in Index, NEW k \in Index, j # k,
                          g_processes'[j].in_use, g_processes'[k].in_use
                   PROVE  WaiterSlots(j)' \cap WaiterSlots(k)' = {}
        BY Zenon
      <4>1. \A m \in Index \ {i} : g_processes'[m].in_use => slot \notin WaiterSlots(m)'
        BY <2>3, <3>1, <3>2
      <4>2. CASE j = i
        BY <3>1, <4>1, <4>2, Zenon
      <4>3. CASE k = i
        BY <3>1, <4>1, <4>3, Zenon
      <4>4. CASE j # i /\ k # i
        BY <3>1, <3>2, <4>4, Zenon
      <4> QED
        BY <4>2, <4>3, <4>4, Zenon
    <3> QED
      BY <3>3, <3>4, <3>5, Zenon DEF SlotInv
  <2>5. WaiterTracked'
    <3> SUFFICES ASSUME NEW s \in ReplySlots, NEW d \in waiting'[s]
                 PROVE  \E j \in Index :
                           /\ g_processes'[j].in_use
                           /\ g_processes'[j].exit_state = TM_EXIT_LIVE
                           /\ g_processes'[j].waiter_reply_slot = s
                           /\ g_processes'[j].parent_pid = d[1]
      BY Zenon DEF WaiterTracked
    <3>1. CASE s = slot
      BY <1>rec, <2>1, <2>2, <2>3, <3>1, Zenon
    <3>2. CASE s # slot
      <4>1. d \in waiting[s]
        BY <1>rec, <2>3, <3>2, Zenon
      <4>2. PICK j \in Index : /\ g_processes[j].in_use
                               /\ g_processes[j].exit_state = TM_EXIT_LIVE
                               /\ g_processes[j].waiter_reply_slot = s
                               /\ g_processes[j].parent_pid = d[1]
        BY <1>inv, <4>1 DEF WaiterTracked
      <4>3. j # i
        <5> SUFFICES ASSUME j = i PROVE FALSE
          BY Zenon
        <5>1. d[1] = c[1]
          BY <2>1, <4>2, Zenon
        <5>2. d \in Callers /\ c \in Callers
          BY <1>inv, <1>rec, <4>1, RunningIsCaller, Zenon
        <5>3. d = c
          <6>1. d = <<d[1], Main>> /\ c = <<c[1], Main>>
            BY <5>2 DEF Callers
          <6> QED
            BY <5>1, <6>1, Zenon
        <5>4. c \in Blocked
          BY <4>1, <5>3, Zenon DEF Blocked
        <5> QED
          BY <1>inv, <5>4, RunningIsCaller, Zenon
      <4> QED
        BY <1>rec, <2>1, <4>2, <4>3, Zenon
    <3> QED
      BY <3>1, <3>2, Zenon
  <2> QED
    BY <2>4, <2>5, Zenon
<1>13. Rest'
  BY <1>1, <1>2, <1>3, <1>4, <1>5, <1>6, <1>7, <1>8, <1>9, <1>10, <1>11, <1>12, <1>st, Zenon
     DEF Next
<1>14. TableInv'
  BY <1>inv, TableInvStep, Zenon
<1> QED
  BY <1>13, <1>14, Zenon DEF WaitInv

(* When every process has one thread, a thread blocked in waitpid is       *)
(* always answered by the record of its live child: no waiter is lost.     *)
THEOREM WaitersTracked ==
    ASSUME Threads = {Main}
    PROVE  Spec => []WaiterTracked
<1>1. Init => WaitInv
  BY WaitInvInit, Zenon
<1>2. WaitInv /\ [Next]_vars => WaitInv'
  BY WaitInvStep, Zenon
<1>3. WaitInv => WaiterTracked
  BY Zenon DEF WaitInv
<1> QED
  BY <1>1, <1>2, <1>3, PTL DEF Spec

-----------------------------------------------------------------------------
(***************************************************************************)
(* The process table implements the life cycle of module ProcLife when     *)
(* every process has one thread.                                           *)
(***************************************************************************)

(* With unique pids the record of a pid is the one that carries it. *)
LEMMA RecordOfProc ==
    ASSUME UniquePids, NEW i \in Index, NEW p, IsProc(i, p)
    PROVE  Known(p) /\ RecordOf(p) = g_processes[i]
<1> DEFINE P(j) == g_processes[j].in_use /\ g_processes[j].pid = p
           k == CHOOSE j \in Index : P(j)
<1>1. P(i)
  BY Zenon DEF IsProc
<1>2. k \in Index /\ P(k)
  BY <1>1, Zenon
<1>3. k = i
  BY <1>1, <1>2, Zenon DEF UniquePids
<1>4. RecordOf(p) = g_processes[k]
  BY Zenon DEF RecordOf, IsProc
<1> QED
  BY <1>3, <1>4, Zenon DEF Known

LEMMA RecordOfProcNext ==
    ASSUME UniquePids', NEW i \in Index, NEW p, IsProc(i, p)'
    PROVE  Known(p)' /\ RecordOf(p)' = g_processes'[i]
<1> DEFINE P(j) == g_processes'[j].in_use /\ g_processes'[j].pid = p
           k == CHOOSE j \in Index : P(j)
<1>1. P(i)
  BY Zenon DEF IsProc
<1>2. k \in Index /\ P(k)
  BY <1>1, Zenon
<1>3. k = i
  BY <1>1, <1>2, Zenon DEF UniquePids
<1>4. RecordOf(p)' = g_processes'[k]
  BY Zenon DEF RecordOf, IsProc
<1> QED
  BY <1>3, <1>4, Zenon DEF Known

(* A step that writes one record is seen by nobody but the pids that the   *)
(* record has before and after it.                                         *)
LEMMA OtherPid ==
    ASSUME TypeOK, UniquePids, UniquePids', NEW i \in Index, NEW r, NEW p,
           g_processes' = [g_processes EXCEPT ![i] = r],
           ~IsProc(i, p), ~(r.in_use /\ r.pid = p)
    PROVE  /\ lifeOf(p)' = lifeOf(p)
           /\ parentOf(p)' = parentOf(p)
           /\ statusOf(p)' = statusOf(p)
           /\ Known(p)' = Known(p)
           /\ Known(p) => RecordOf(p)' = RecordOf(p)
<1>1. \A j \in Index : g_processes'[j] = IF j = i THEN r ELSE g_processes[j]
  BY Zenon DEF TypeOK
<1>2. \A j \in Index : IsProc(j, p)' <=> IsProc(j, p)
  BY <1>1 DEF IsProc
<1>3. Known(p)' = Known(p)
  BY <1>2, Zenon DEF Known
<1>4. Known(p) => RecordOf(p)' = RecordOf(p)
  <2> SUFFICES ASSUME NEW j \in Index, IsProc(j, p)
               PROVE  RecordOf(p)' = RecordOf(p)
    BY Zenon DEF Known
  <2>1. RecordOf(p) = g_processes[j] /\ RecordOf(p)' = g_processes'[j]
    BY <1>2, RecordOfProc, RecordOfProcNext, Zenon
  <2> QED
    BY <1>1, <2>1, Zenon
<1> QED
  BY <1>3, <1>4, Zenon DEF lifeOf, parentOf, statusOf

LEMMA LifeInit == Init => Life!Init
<1> SUFFICES ASSUME Init PROVE Life!Init
  BY Zenon
<1>1. UniquePids /\ 1 \in Index /\ 2 \in Index
  BY TableInvInit, MaxProcessesAssumption DEF TableInv, Index
<1>2. /\ IsProc(1, 1) /\ IsProc(2, 2)
      /\ \A p \in Pids \ {1, 2} : ~Known(p)
  BY <1>1, Zenon DEF Init, IsProc, Known, NewRecord, NoRecord, QSOE_PID_TASKMAN, INIT_PID
<1>3. /\ Known(1) /\ RecordOf(1) = g_processes[1]
      /\ Known(2) /\ RecordOf(2) = g_processes[2]
  BY <1>1, <1>2, RecordOfProc, Zenon
<1>4. \A p \in Pids :
        /\ lifeOf(p) = IF p \in {1, 2} THEN "live" ELSE "free"
        /\ parentOf(p) = IF p \in {1, 2} THEN 1 ELSE 0
        /\ statusOf(p) = 0
        /\ waitersOf(p) = {}
  BY <1>1, <1>2, <1>3 DEF Init, lifeOf, parentOf, statusOf, waitersOf, NewRecord,
     TM_EXIT_LIVE, QSOE_PID_TASKMAN
<1> QED
  BY <1>4 DEF Life!Init, Life!Taskman, Life!FirstProcess

-----------------------------------------------------------------------------
(* What the abstract variables say of a pid with a record. *)
LEMMA ViewOfProc ==
    ASSUME UniquePids, NEW i \in Index, NEW p, IsProc(i, p)
    PROVE  /\ g_processes[i].exit_state = TM_EXIT_LIVE =>
                lifeOf(p) = "live" /\ statusOf(p) = 0
           /\ g_processes[i].exit_state = TM_EXIT_ZOMBIE =>
                lifeOf(p) = "zombie" /\ statusOf(p) = g_processes[i].exit_status
           /\ parentOf(p) = g_processes[i].parent_pid
           /\ waitersOf(p) = IF g_processes[i].waiter_reply_slot # 0
                             THEN waiting[g_processes[i].waiter_reply_slot] ELSE {}
BY RecordOfProc DEF lifeOf, statusOf, parentOf, waitersOf, TM_EXIT_LIVE, TM_EXIT_ZOMBIE,
   TM_EXIT_DETACHED

LEMMA ViewOfProcNext ==
    ASSUME UniquePids', NEW i \in Index, NEW p, IsProc(i, p)'
    PROVE  /\ g_processes'[i].exit_state = TM_EXIT_LIVE =>
                lifeOf(p)' = "live" /\ statusOf(p)' = 0
           /\ g_processes'[i].exit_state = TM_EXIT_ZOMBIE =>
                lifeOf(p)' = "zombie" /\ statusOf(p)' = g_processes'[i].exit_status
           /\ g_processes'[i].exit_state = TM_EXIT_DETACHED =>
                lifeOf(p)' = "daemon" /\ statusOf(p)' = 0
           /\ parentOf(p)' = g_processes'[i].parent_pid
           /\ waitersOf(p)' = IF g_processes'[i].waiter_reply_slot # 0
                              THEN waiting'[g_processes'[i].waiter_reply_slot] ELSE {}
BY RecordOfProcNext DEF lifeOf, statusOf, parentOf, waitersOf, TM_EXIT_LIVE, TM_EXIT_ZOMBIE,
   TM_EXIT_DETACHED

(* A record whose slot somebody is blocked on is live, and its parent is   *)
(* the one who is blocked; so nobody waits for a zombie.                   *)
LEMMA WaitersOfProc ==
    ASSUME WaitInv, NEW i \in Index, NEW p, IsProc(i, p), NEW c \in waitersOf(p)
    PROVE  /\ g_processes[i].exit_state = TM_EXIT_LIVE
           /\ g_processes[i].parent_pid = c[1]
           /\ c \in Blocked /\ c \in Callers
<1> DEFINE s == g_processes[i].waiter_reply_slot
<1>1. g_processes[i] \in Record /\ waiting \in [ReplySlots -> SUBSET alive]
      /\ UniquePids /\ alive \subseteq Callers
  BY Zenon DEF WaitInv, TableInv, TypeOK, RepliesTypeOK
<1>2. s # 0 /\ c \in waiting[s]
  BY <1>1, ViewOfProc, Zenon
<1>3. s \in ReplySlots
  BY <1>1, <1>2, Zenon DEF Record
<1>4. PICK j \in Index : /\ g_processes[j].in_use
                         /\ g_processes[j].exit_state = TM_EXIT_LIVE
                         /\ g_processes[j].waiter_reply_slot = s
                         /\ g_processes[j].parent_pid = c[1]
  BY <1>2, <1>3 DEF WaitInv, WaiterTracked
<1>5. j = i
  BY <1>2, <1>4, Zenon DEF WaitInv, SlotInv, WaiterSlots, IsProc
<1> QED
  BY <1>1, <1>2, <1>3, <1>4, <1>5, Zenon DEF Blocked

(* tm_spawn, whether it succeeds or fails after the registration, is the   *)
(* birth of a pid that was free.                                           *)
LEMMA SpawnImplements ==
    ASSUME WaitInv, UniquePids', NEW i \in Index, NEW p \in Pids, NEW by \in Pids,
           FirstFreeRecord(i), ~Known(p), UNCHANGED waiting,
           g_processes' = [g_processes EXCEPT ![i] = NewRecord(p, by)]
    PROVE  Life!Spawn(p, by)
<1>1. TypeOK /\ UniquePids /\ g_processes'[i] = NewRecord(p, by)
  BY Zenon DEF WaitInv, TableInv, TypeOK
<1>2. /\ lifeOf(p) = "free" /\ parentOf(p) = 0 /\ statusOf(p) = 0 /\ waitersOf(p) = {}
  BY Zenon DEF lifeOf, parentOf, statusOf, waitersOf
<1>3. /\ lifeOf(p)' = "live" /\ parentOf(p)' = by /\ statusOf(p)' = 0
      /\ waitersOf(p)' = {}
  BY <1>1, ViewOfProcNext DEF IsProc, NewRecord
<1>4. ASSUME NEW q \in Pids \ {p}
      PROVE  /\ lifeOf(q)' = lifeOf(q) /\ parentOf(q)' = parentOf(q)
             /\ statusOf(q)' = statusOf(q) /\ waitersOf(q)' = waitersOf(q)
  BY <1>1, OtherPid, Zenon DEF FirstFreeRecord, IsProc, NewRecord, waitersOf
<1> QED
  BY <1>2, <1>3, <1>4, Zenon DEF Life!Spawn

(* The waiters of another process, before and after such a step, are those *)
(* of a slot that the written record does not point to.                    *)
LEMMA OtherWaiters ==
    ASSUME WaitInv, UniquePids', NEW i \in Index, NEW r, NEW q,
           g_processes' = [g_processes EXCEPT ![i] = r],
           g_processes[i].in_use, ~IsProc(i, q), ~(r.in_use /\ r.pid = q)
    PROVE  \/ waitersOf(q) = {} /\ waitersOf(q)' = {}
           \/ \E s \in ReplySlots \ WaiterSlots(i) :
                 waitersOf(q) = waiting[s] /\ waitersOf(q)' = waiting'[s]
<1>1. TypeOK /\ UniquePids /\ \A j \in Index : g_processes[j] \in Record
  BY Zenon DEF WaitInv, TableInv, TypeOK
<1>2. Known(q)' = Known(q) /\ (Known(q) => RecordOf(q)' = RecordOf(q))
  BY <1>1, OtherPid, Zenon
<1>3. CASE ~Known(q)
  BY <1>2, <1>3, Zenon DEF waitersOf
<1>4. ASSUME NEW j \in Index, IsProc(j, q)
      PROVE  \/ waitersOf(q) = {} /\ waitersOf(q)' = {}
             \/ \E s \in ReplySlots \ WaiterSlots(i) :
                   waitersOf(q) = waiting[s] /\ waitersOf(q)' = waiting'[s]
  <2>1. RecordOf(q) = g_processes[j] /\ Known(q) /\ j # i /\ g_processes[j].in_use
    BY <1>1, <1>4, RecordOfProc, Zenon DEF IsProc
  <2> DEFINE slot == g_processes[j].waiter_reply_slot
  <2>2. slot \in ReplySlots \cup {0}
    BY <1>1, Zenon DEF Record
  <2>3. slot # 0 => slot \notin WaiterSlots(i)
    BY <2>1, Zenon DEF WaitInv, SlotInv, WaiterSlots
  <2> QED
    BY <1>2, <2>1, <2>2, <2>3, Zenon DEF waitersOf
<1> QED
  BY <1>3, <1>4, Zenon DEF Known

(* tm_process_detach is the step of a live pid to daemon.                  *)
LEMMA DetachImplements ==
    ASSUME WaitInv, UniquePids', NEW c \in Running, NEW status \in Statuses,
           tm_process_detach(c, status)
    PROVE  Life!Detach(c[1])
<1>1. TypeOK /\ UniquePids /\ c[1] \in Pids /\ status \in AllStatuses
      /\ \A j \in Index : g_processes[j] \in Record
  BY RunningIsCaller, Zenon DEF WaitInv, TableInv, TypeOK, AllStatuses
<1>2. PICK i \in Index :
        /\ IsProc(i, c[1]) /\ g_processes[i].exit_state = TM_EXIT_LIVE
        /\ g_processes' = [g_processes EXCEPT
              ![i] = DetachedRecord(g_processes[i], status)]
        /\ tm_reply_deliver(WaiterSlots(i))
  BY Zenon DEF tm_process_detach, tm_process_lookup
<1> DEFINE p == c[1]
<1>3. /\ g_processes[i].in_use
      /\ \A s \in ReplySlots \ WaiterSlots(i) : waiting'[s] = waiting[s]
  BY <1>2, Zenon DEF tm_reply_deliver, IsProc
<1>4. ASSUME NEW r, g_processes' = [g_processes EXCEPT ![i] = r], r.pid = p,
             NEW q \in Pids \ {p}
      PROVE  /\ lifeOf(q)' = lifeOf(q) /\ parentOf(q)' = parentOf(q)
             /\ statusOf(q)' = statusOf(q) /\ waitersOf(q)' = waitersOf(q)
  <2>1. ~IsProc(i, q) /\ ~(r.in_use /\ r.pid = q)
    BY <1>2, <1>4, Zenon DEF IsProc
  <2>2. waitersOf(q)' = waitersOf(q)
    <3>1. \/ waitersOf(q) = {} /\ waitersOf(q)' = {}
          \/ \E s \in ReplySlots \ WaiterSlots(i) :
                waitersOf(q) = waiting[s] /\ waitersOf(q)' = waiting'[s]
      BY <1>3, <1>4, <2>1, OtherWaiters, ZenonT(20)
    <3> QED
      BY <1>3, <3>1, Zenon
  <2> QED
    BY <1>1, <1>4, <2>1, <2>2, OtherPid, Zenon
<1> DEFINE r == DetachedRecord(g_processes[i], status)
<1>5. /\ g_processes' = [g_processes EXCEPT ![i] = r] /\ g_processes'[i] = r
      /\ r.in_use /\ r.pid = p /\ g_processes[i].in_use
      /\ r.exit_state = TM_EXIT_DETACHED /\ r.waiter_reply_slot = 0
      /\ r.parent_pid = QSOE_PID_TASKMAN
  BY <1>1, <1>2, UpdateKeepsPid, UpdateFields DEF IsProc, TypeOK
<1> HIDE DEF r
<1>6. lifeOf(p) = "live" /\ statusOf(p) = 0
  BY <1>1, <1>2, ViewOfProc, Zenon
<1>7. /\ lifeOf(p)' = "daemon" /\ parentOf(p)' = QSOE_PID_TASKMAN /\ statusOf(p)' = 0
      /\ waitersOf(p)' = {}
  BY <1>5, ViewOfProcNext DEF IsProc
<1>8. \A q \in Pids \ {p} :
         /\ lifeOf(q)' = lifeOf(q) /\ parentOf(q)' = parentOf(q)
         /\ statusOf(q)' = statusOf(q) /\ waitersOf(q)' = waitersOf(q)
  BY <1>4, <1>5, Zenon
<1> QED
  BY <1>1, <1>6, <1>7, <1>8, Zenon DEF Life!Detach, Life!Taskman, QSOE_PID_TASKMAN

(* A successful waitpid collects a zombie: the caller is the parent, so    *)
(* not taskman, and the child no daemon.                                   *)
LEMMA ReapImplements ==
    ASSUME WaitInv, UniquePids', NEW c \in Running, NEW p \in Pids, WaitpidReaps(c, p)
    PROVE  Life!Reap(p)
<1>1. TypeOK /\ UniquePids /\ TaskmanAdoptsDaemons /\ c \in alive
      /\ \A j \in Index : g_processes[j] \in Record
  BY RunningIsCaller, Zenon DEF WaitInv, TableInv, TypeOK
<1>2. PICK i \in Index :
        /\ IsProc(i, p) /\ g_processes[i].parent_pid = c[1]
        /\ g_processes[i].exit_state # TM_EXIT_LIVE
        /\ g_processes' = [g_processes EXCEPT ![i] = NoRecord]
  BY Zenon DEF WaitpidReaps, tm_process_lookup
<1>3. g_processes[i].exit_state = TM_EXIT_ZOMBIE
  BY <1>1, <1>2, Zenon DEF TaskmanAdoptsDaemons, IsProc, Record
<1>4. UNCHANGED waiting /\ g_processes'[i] = NoRecord
  BY <1>1, <1>2, Zenon DEF WaitpidReaps, TypeOK
<1>5. lifeOf(p) = "zombie" /\ waitersOf(p) = {}
  <2>1. waitersOf(p) = {}
    BY <1>2, WaitersOfProc, Zenon
  <2> QED
    BY <1>1, <1>2, <1>3, <2>1, ViewOfProc, Zenon
<1>6. ~Known(p)'
  BY <1>1, <1>2, <1>4, Zenon DEF Known, IsProc, NoRecord, UniquePids, TypeOK
<1>7. lifeOf(p)' = "free" /\ parentOf(p)' = 0 /\ statusOf(p)' = 0 /\ waitersOf(p)' = {}
  BY <1>6, Zenon DEF lifeOf, parentOf, statusOf, waitersOf
<1>8. ASSUME NEW q \in Pids \ {p}
      PROVE  /\ lifeOf(q)' = lifeOf(q) /\ parentOf(q)' = parentOf(q)
             /\ statusOf(q)' = statusOf(q) /\ waitersOf(q)' = waitersOf(q)
  BY <1>1, <1>2, <1>4, OtherPid, Zenon DEF IsProc, NoRecord, waitersOf
<1> QED
  BY <1>5, <1>7, <1>8, Zenon DEF Life!Reap

(* waitpid on a live child blocks a thread that no child blocks yet, and   *)
(* with one thread per process nobody else waits for that child.           *)
LEMMA WaitImplements ==
    ASSUME WaitInv, UniquePids', Threads = {Main},
           NEW c \in Running, NEW p \in Pids, WaitpidParks(c, p)
    PROVE  p # QSOE_PID_TASKMAN /\ Life!Wait(c, p)
<1>1. TypeOK /\ UniquePids /\ TaskmanAdoptsDaemons /\ c \in alive /\ c \in Callers
      /\ waiting \in [ReplySlots -> SUBSET alive] /\ c \notin Blocked
      /\ \A j \in Index : g_processes[j] \in Record
  BY RunningIsCaller, Zenon DEF WaitInv, TableInv, TypeOK, RepliesTypeOK
<1>2. PICK i \in Index, slot \in ReplySlots :
        /\ IsProc(i, p)
        /\ g_processes[i].parent_pid = c[1]
        /\ g_processes[i].exit_state = TM_EXIT_LIVE
        /\ tm_reply_park(c, slot)
        /\ g_processes' = [g_processes EXCEPT ![i] = WaitedRecord(g_processes[i], slot)]
  BY Zenon DEF WaitpidParks, tm_process_lookup
<1> DEFINE r == WaitedRecord(g_processes[i], slot)
<1>3. /\ g_processes' = [g_processes EXCEPT ![i] = r] /\ g_processes'[i] = r
      /\ r.in_use /\ r.pid = p /\ r.exit_state = TM_EXIT_LIVE /\ r.parent_pid = c[1]
      /\ r.waiter_reply_slot = slot /\ slot # 0
  BY <1>1, <1>2, UpdateKeepsPid, UpdateFields, ReplySlotsAssumption DEF IsProc, TypeOK
<1>4. slot \notin stash /\ waiting' = [waiting EXCEPT ![slot] = {c}]
  BY <1>2, Zenon DEF tm_reply_park
<1> HIDE DEF r
<1>5. p # QSOE_PID_TASKMAN
  BY <1>1, <1>2, Zenon DEF TaskmanAdoptsDaemons, IsProc
<1>6. lifeOf(p) = "live" /\ statusOf(p) = 0 /\ parentOf(p) = c[1]
  BY <1>1, <1>2, ViewOfProc, Zenon
<1>7. waitersOf(p) = {}
  <2> SUFFICES ASSUME NEW d \in waitersOf(p) PROVE FALSE
    BY Zenon
  <2>1. d[1] = c[1] /\ d \in Callers /\ d \in Blocked
    BY <1>2, WaitersOfProc, Zenon
  <2>2. d = <<d[1], Main>> /\ c = <<c[1], Main>>
    BY <1>1, <2>1 DEF Callers
  <2> QED
    BY <1>1, <2>1, <2>2, Zenon
<1>8. /\ lifeOf(p)' = "live" /\ parentOf(p)' = c[1] /\ statusOf(p)' = 0
      /\ waitersOf(p)' = {c}
  <2>1. waiting'[slot] = {c}
    BY <1>1, <1>4, Zenon
  <2> QED
    BY <1>3, <2>1, ViewOfProcNext DEF IsProc
<1>9. ASSUME NEW q \in Pids
      PROVE  c \notin waitersOf(q)
  <2>1. ASSUME NEW j \in Index, IsProc(j, q), c \in waitersOf(q) PROVE c \in Blocked
    BY <2>1, WaitersOfProc, Zenon
  <2> QED
    BY <1>1, <2>1, Zenon DEF waitersOf, Known
<1>10. ASSUME NEW q \in Pids \ {p}
       PROVE  /\ lifeOf(q)' = lifeOf(q) /\ parentOf(q)' = parentOf(q)
              /\ statusOf(q)' = statusOf(q) /\ waitersOf(q)' = waitersOf(q)
  <2>1. ~IsProc(i, q) /\ ~(r.in_use /\ r.pid = q)
    BY <1>2, <1>3, Zenon DEF IsProc
  <2>2. /\ lifeOf(q)' = lifeOf(q) /\ parentOf(q)' = parentOf(q)
        /\ statusOf(q)' = statusOf(q) /\ Known(q)' = Known(q)
        /\ Known(q) => RecordOf(q)' = RecordOf(q)
    BY <1>1, <1>3, <2>1, OtherPid, Zenon
  <2>3. ASSUME NEW j \in Index, IsProc(j, q) PROVE waitersOf(q)' = waitersOf(q)
    <3> DEFINE s == g_processes[j].waiter_reply_slot
    <3>1. RecordOf(q) = g_processes[j] /\ g_processes[j].in_use
      BY <1>1, <2>3, RecordOfProc, Zenon DEF IsProc
    <3>2. s \in ReplySlots \cup {0}
      BY <1>1, Zenon DEF Record
    <3>3. s # 0 => s \in stash
      BY <3>1, <3>2, Zenon DEF WaitInv, SlotInv, WaiterSlots
    <3>4. s # 0 => waiting'[s] = waiting[s]
      BY <1>1, <1>4, <3>2, <3>3, Zenon
    <3> QED
      BY <2>2, <3>1, <3>4, Zenon DEF waitersOf
  <2> QED
    BY <2>2, <2>3, Zenon DEF waitersOf, Known
<1> QED
  BY <1>5, <1>6, <1>7, <1>8, <1>9, <1>10, Zenon DEF Life!Wait

(* The exit of a process: its waiter is released, its own threads wait for *)
(* nobody, and it becomes a zombie only if nobody waited.                  *)
LEMMA ExitImplements ==
    ASSUME WaitInv, UniquePids', NEW p \in Pids, NEW status \in AllStatuses,
           tm_process_terminate(p, status)
    PROVE  Life!ExitToZombie(p, status) \/ Life!ExitToFree(p)
<1>1. TypeOK /\ UniquePids /\ waiting \in [ReplySlots -> SUBSET alive]
      /\ alive \subseteq Callers /\ \A j \in Index : g_processes[j] \in Record
  BY Zenon DEF WaitInv, TableInv, TypeOK, RepliesTypeOK
<1>2. PICK i \in Index :
        /\ IsProc(i, p)
        /\ g_processes[i].exit_state = TM_EXIT_LIVE
        /\ DeliverAndKill(WaiterSlots(i), ThreadsOf(p))
        /\ \/ g_processes' = [g_processes EXCEPT ![i] = NoRecord]
           \/ /\ WaiterSlots(i) = {}
              /\ g_processes' = [g_processes EXCEPT
                    ![i] = ZombieRecord(g_processes[i], status)]
  BY Zenon DEF tm_process_terminate, tm_process_lookup
<1>3. /\ g_processes[i].in_use
      /\ \A s \in ReplySlots \ WaiterSlots(i) : waiting'[s] = waiting[s] \ ThreadsOf(p)
  BY <1>2, Zenon DEF IsProc, DeliverAndKill
<1>4. lifeOf(p) = "live" /\ statusOf(p) = 0 /\ parentOf(p) = g_processes[i].parent_pid
  BY <1>1, <1>2, ViewOfProc, Zenon
<1>5. ASSUME NEW r, g_processes' = [g_processes EXCEPT ![i] = r],
             r.in_use => r.pid = p, NEW q \in Pids \ {p}
      PROVE  /\ lifeOf(q)' = lifeOf(q) /\ parentOf(q)' = parentOf(q)
             /\ statusOf(q)' = statusOf(q)
             /\ waitersOf(q)' = {c \in waitersOf(q) : c[1] # p}
  <2>1. ~IsProc(i, q) /\ ~(r.in_use /\ r.pid = q)
    BY <1>2, <1>5, Zenon DEF IsProc
  <2>2. waitersOf(q)' = waitersOf(q) \ ThreadsOf(p)
    <3>1. \/ waitersOf(q) = {} /\ waitersOf(q)' = {}
          \/ \E s \in ReplySlots \ WaiterSlots(i) :
                waitersOf(q) = waiting[s] /\ waitersOf(q)' = waiting'[s]
      BY <1>3, <1>5, <2>1, OtherWaiters, ZenonT(20)
    <3> QED
      BY <1>3, <3>1, Zenon
  <2>3. waitersOf(q) \subseteq Callers
    BY WaitersOfProc, Zenon DEF waitersOf, Known
  <2>4. waitersOf(q)' = {c \in waitersOf(q) : c[1] # p}
    BY <2>2, <2>3, Zenon DEF ThreadsOf
  <2>5. lifeOf(q)' = lifeOf(q) /\ parentOf(q)' = parentOf(q) /\ statusOf(q)' = statusOf(q)
    BY <1>1, <1>5, <2>1, OtherPid, Zenon
  <2> QED
    BY <2>4, <2>5, Zenon
<1>6. CASE g_processes' = [g_processes EXCEPT ![i] = NoRecord]
  <2>1. ~Known(p)'
    BY <1>1, <1>2, <1>6, Zenon DEF Known, IsProc, NoRecord, UniquePids, TypeOK
  <2>2. lifeOf(p)' = "free" /\ parentOf(p)' = 0 /\ statusOf(p)' = 0 /\ waitersOf(p)' = {}
    BY <2>1, Zenon DEF lifeOf, parentOf, statusOf, waitersOf
  <2>3. \A q \in Pids \ {p} :
           /\ lifeOf(q)' = lifeOf(q) /\ parentOf(q)' = parentOf(q)
           /\ statusOf(q)' = statusOf(q)
           /\ waitersOf(q)' = {c \in waitersOf(q) : c[1] # p}
    BY <1>5, <1>6, Zenon DEF NoRecord
  <2> QED
    BY <1>4, <2>2, <2>3, Zenon DEF Life!ExitToFree, Life!ReleasedBy
<1>7. CASE /\ WaiterSlots(i) = {}
           /\ g_processes' = [g_processes EXCEPT
                 ![i] = ZombieRecord(g_processes[i], status)]
  <2> DEFINE r == ZombieRecord(g_processes[i], status)
  <2>1. /\ g_processes' = [g_processes EXCEPT ![i] = r] /\ g_processes'[i] = r
        /\ r.in_use /\ r.pid = p /\ r.exit_state = TM_EXIT_ZOMBIE
        /\ r.exit_status = status /\ r.parent_pid = g_processes[i].parent_pid
        /\ r.waiter_reply_slot = 0 /\ g_processes[i].waiter_reply_slot = 0
    <3>1. g_processes[i] \in Record /\ g_processes[i].in_use /\ g_processes[i].pid = p
      BY <1>1, <1>2, Zenon DEF IsProc
    <3>2. g_processes[i].waiter_reply_slot = 0
      BY <1>7, Zenon DEF WaiterSlots
    <3>3. g_processes' = [g_processes EXCEPT ![i] = r] /\ g_processes'[i] = r
      BY <1>1, <1>7, Zenon DEF TypeOK
    <3> QED
      BY <3>1, <3>2, <3>3, UpdateKeepsPid, UpdateFields
  <2> HIDE DEF r
  <2>2. waitersOf(p) = {}
    BY <1>1, <1>2, <2>1, ViewOfProc, Zenon
  <2>3. /\ lifeOf(p)' = "zombie" /\ parentOf(p)' = parentOf(p)
        /\ statusOf(p)' = status /\ waitersOf(p)' = {}
    BY <1>4, <2>1, ViewOfProcNext DEF IsProc
  <2>4. \A q \in Pids \ {p} :
           /\ lifeOf(q)' = lifeOf(q) /\ parentOf(q)' = parentOf(q)
           /\ statusOf(q)' = statusOf(q)
           /\ waitersOf(q)' = {c \in waitersOf(q) : c[1] # p}
    BY <1>5, <2>1, Zenon
  <2> QED
    BY <1>4, <2>2, <2>3, <2>4, Zenon DEF Life!ExitToZombie, Life!ReleasedBy
<1> QED
  BY <1>2, <1>6, <1>7, Zenon

(* ThreadDestroy can take a waiter away, and nothing else.                 *)
LEMMA StopImplements ==
    ASSUME WaitInv, NEW c \in Running, NEW t \in Threads, StopThread(c, t)
    PROVE  Life!GiveUp(<<c[1], t>>)
<1>1. /\ UNCHANGED g_processes /\ \A j \in Index : g_processes[j] \in Record
      /\ \A s \in ReplySlots : waiting'[s] = waiting[s] \ {<<c[1], t>>}
  BY Zenon DEF StopThread, DeliverAndKill, procVars, WaitInv, TableInv, TypeOK
<1>2. ASSUME NEW q \in Pids
      PROVE  /\ lifeOf(q)' = lifeOf(q) /\ parentOf(q)' = parentOf(q)
             /\ statusOf(q)' = statusOf(q)
             /\ waitersOf(q)' = waitersOf(q) \ {<<c[1], t>>}
  <2>1. Known(q)' = Known(q) /\ RecordOf(q)' = RecordOf(q)
    BY <1>1, Zenon DEF Known, RecordOf, IsProc
  <2>2. ASSUME NEW j \in Index, IsProc(j, q)
        PROVE  waitersOf(q)' = waitersOf(q) \ {<<c[1], t>>}
    <3>1. Known(q) /\ RecordOf(q) = g_processes[j]
      BY <2>2, RecordOfProc, Zenon DEF WaitInv, TableInv
    <3>2. g_processes[j].waiter_reply_slot \in ReplySlots \cup {0}
      BY <1>1, Zenon DEF Record
    <3> QED
      BY <1>1, <2>1, <3>1, <3>2, Zenon DEF waitersOf
  <2>3. ASSUME ~Known(q)
        PROVE  waitersOf(q)' = waitersOf(q) \ {<<c[1], t>>}
    BY <2>1, <2>3, Zenon DEF waitersOf
  <2>4. waitersOf(q)' = waitersOf(q) \ {<<c[1], t>>}
    BY <2>2, <2>3, Zenon DEF Known
  <2> QED
    BY <2>1, <2>4, Zenon DEF lifeOf, parentOf, statusOf
<1> QED
  BY <1>2, Zenon DEF Life!GiveUp

(* Steps that touch neither the table nor a waiter are not seen.           *)
LEMMA Unseen ==
    ASSUME UNCHANGED <<g_processes, waiting>>
    PROVE  UNCHANGED Life!lifeVars
<1>1. ASSUME NEW q \in Pids
      PROVE  /\ lifeOf(q)' = lifeOf(q) /\ parentOf(q)' = parentOf(q)
             /\ statusOf(q)' = statusOf(q) /\ waitersOf(q)' = waitersOf(q)
  BY DEF lifeOf, parentOf, statusOf, waitersOf, Known, RecordOf, IsProc
<1> QED
  BY <1>1, Zenon DEF Life!lifeVars

(* Every step of the table is a step of the life cycle or is not seen.     *)
LEMMA LifeStep ==
    ASSUME WaitInv, [Next]_vars, Threads = {Main}
    PROVE  [Life!Next]_(Life!lifeVars)
<1>inv. TypeOK /\ UniquePids /\ UniquePids' /\ TableInv
        /\ Statuses \subseteq AllStatuses /\ TM_SIG_SEGV \in AllStatuses
  BY UniqueStep, Zenon DEF WaitInv, TableInv, AllStatuses
<1>run. \A c \in Running : c[1] \in Pids /\ c \in alive
  BY <1>inv, RunningIsCaller, Zenon
<1>new. ASSUME NEW i \in Index, NEW p \in Pids, NEW by \in Pids,
               FirstFreeRecord(i), ~Known(p), UNCHANGED waiting,
               g_processes' = [g_processes EXCEPT ![i] = NewRecord(p, by)]
        PROVE  Life!Next
  BY <1>new, <1>inv, SpawnImplements, Zenon DEF Life!Next
<1>exit. ASSUME NEW p \in Pids, NEW status \in AllStatuses,
                tm_process_terminate(p, status)
         PROVE  Life!Next
  <2>1. p # Life!Taskman
    BY <1>exit, Zenon DEF tm_process_terminate, QSOE_PID_TASKMAN, Life!Taskman
  <2>2. Life!ExitToZombie(p, status) \/ Life!ExitToFree(p)
    BY <1>inv, <1>exit, ExitImplements, Zenon
  <2> QED
    BY <2>1, <2>2, Zenon DEF Life!Next
<1>1. ASSUME NEW c \in Running, SpawnOk(c) PROVE Life!Next
  <2>1. tm_pid_alloc \in Pids
    BY <1>1, <1>inv, AllocRange DEF SpawnOk, Pids
  <2> QED
    BY <1>1, <1>run, <1>new, <2>1, Zenon DEF SpawnOk
<1>2. ASSUME NEW c \in Running, SpawnFailsLate(c) PROVE Life!Next
  <2>1. tm_pid_alloc \in Pids /\ QSOE_PID_TASKMAN \in Pids
    BY <1>2, <1>inv, AllocRange, MaxProcessesAssumption
       DEF SpawnFailsLate, Pids, QSOE_PID_TASKMAN
  <2> QED
    BY <1>2, <1>new, <2>1, Zenon DEF SpawnFailsLate
<1>3. ASSUME NEW c \in Running, NEW status \in Statuses, tm_process_detach(c, status)
      PROVE  Life!Next
  <2>1. c[1] # Life!Taskman
    BY <1>inv, <1>run, Zenon DEF TableInv, TaskmanAdoptsDaemons, QSOE_PID_TASKMAN, Life!Taskman
  <2>2. Life!Detach(c[1])
    BY <1>inv, <1>3, DetachImplements, Zenon
  <2> QED
    BY <1>run, <2>1, <2>2, Zenon DEF Life!Next
<1>4. ASSUME NEW c \in Running, NEW p \in Pids, WaitpidReaps(c, p) PROVE Life!Next
  <2>1. Life!Reap(p)
    BY <1>inv, <1>4, ReapImplements, Zenon
  <2>2. p # Life!Taskman
    BY <1>4, <1>inv, Zenon DEF WaitpidReaps, tm_process_lookup, IsProc, TableInv,
       TaskmanAdoptsDaemons, QSOE_PID_TASKMAN, Life!Taskman
  <2> QED
    BY <2>1, <2>2, Zenon DEF Life!Next
<1>5. ASSUME NEW c \in Running, NEW p \in Pids, WaitpidParks(c, p) PROVE Life!Next
  <2>1. p # Life!Taskman /\ Life!Wait(c, p)
    BY <1>inv, <1>5, WaitImplements, Zenon DEF QSOE_PID_TASKMAN, Life!Taskman
  <2>2. c \in Callers
    BY <1>inv, RunningIsCaller, Zenon
  <2> QED
    BY <2>1, <2>2, Zenon DEF Life!Next
<1>6. ASSUME NEW c \in Running, tm_handle_fault(c) PROVE Life!Next
  BY <1>6, <1>exit, <1>inv, <1>run, Zenon DEF tm_handle_fault
<1>7. ASSUME NEW c \in Running, NEW t \in Threads, StopThread(c, t) PROVE Life!Next
  <2>1. <<c[1], t>> \in Callers
    BY <1>run, Zenon DEF Callers
  <2>2. Life!GiveUp(<<c[1], t>>)
    BY <1>7, StopImplements, Zenon
  <2> QED
    BY <2>1, <2>2, Zenon DEF Life!Next
<1>8. ASSUME \/ UNCHANGED vars
             \/ \E c \in Running : SpawnFailsEarly(c) \/ NoReplyAfterExit(c)
             \/ \E c \in Running, t \in Threads : StartThread(c, t)
      PROVE  UNCHANGED Life!lifeVars
  <2>1. UNCHANGED <<g_processes, waiting>>
    BY <1>8, Zenon DEF vars, procVars, SpawnFailsEarly, NoReplyAfterExit, StartThread
  <2> QED
    BY <2>1, Unseen, Zenon
<1> QED
  BY <1>exit, <1>inv, <1>1, <1>2, <1>3, <1>4, <1>5, <1>6, <1>7, <1>8, Zenon DEF Next

(* When every process has one thread, the table, the pid allocator and the *)
(* parked replies of taskman/proc/process.c together implement the life    *)
(* cycle and the waitpid protocol of module ProcLife: every handler is one *)
(* of its steps, or is not seen by anybody who knows processes by pid.     *)
THEOREM TableImplementsLife ==
    ASSUME Threads = {Main}
    PROVE  Spec => ImplementsProcLife
<1>1. Init => WaitInv /\ Life!Init
  BY WaitInvInit, LifeInit, Zenon
<1>2. WaitInv /\ [Next]_vars => WaitInv'
  BY WaitInvStep, Zenon
<1>3. WaitInv /\ [Next]_vars => [Life!Next]_(Life!lifeVars)
  BY LifeStep, Zenon
<1> QED
  BY <1>1, <1>2, <1>3, PTL DEF Spec, ImplementsProcLife, Life!Spec
=============================================================================
