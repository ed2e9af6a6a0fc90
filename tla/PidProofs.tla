----------------------------- MODULE PidProofs ------------------------------
(***************************************************************************)
(* Conservation of pids: the free list never overflows and holds exactly   *)
(* the pids that were handed out and have no record.                       *)
(***************************************************************************)
EXTENDS ProcessProofs, FiniteSetTheorems, FunctionTheorems, SequenceTheorems

(* The free list as a set without duplicates. *)
NoDup(list) == \A k, l \in 1 .. Len(list) : list[k] = list[l] => k = l
Elems(list) == {list[k] : k \in 1 .. Len(list)}

UserPids == 2 .. (MaxProcesses - 1)

LEMMA PushFacts ==
    ASSUME NEW list \in Seq(UserPids), NEW x \in UserPids, NoDup(list), x \notin Elems(list)
    PROVE  NoDup(Append(list, x)) /\ Elems(Append(list, x)) = Elems(list) \cup {x}
<1> DEFINE n == Len(list)
           m == Append(list, x)
<1>1. n \in Nat /\ Len(m) = n + 1 /\ m[n + 1] = x /\ \A k \in 1 .. n : m[k] = list[k]
  OBVIOUS
<1>2. \A k \in 1 .. n : list[k] # x
  BY Zenon DEF Elems
<1>3. NoDup(m)
  BY <1>1, <1>2 DEF NoDup
<1>4. Elems(m) = Elems(list) \cup {x}
  BY <1>1 DEF Elems
<1> QED
  BY <1>3, <1>4

LEMMA PopFacts ==
    ASSUME NEW T, NEW list \in Seq(T), list # <<>>, NoDup(list)
    PROVE  /\ list[Len(list)] \in Elems(list)
           /\ NoDup(SubSeq(list, 1, Len(list) - 1))
           /\ Elems(SubSeq(list, 1, Len(list) - 1)) = Elems(list) \ {list[Len(list)]}
<1> DEFINE n == Len(list)
           m == SubSeq(list, 1, n - 1)
<1>1. n \in Nat /\ n >= 1
  OBVIOUS
<1>2. Len(m) = n - 1 /\ \A k \in 1 .. (n - 1) : m[k] = list[k]
  <2>1. \A k \in 1 .. (n - 1) : list[k] \in T
    BY <1>1
  <2>2. /\ Len(m) = IF 1 <= n - 1 THEN (n - 1) - 1 + 1 ELSE 0
        /\ \A k \in 1 .. ((n - 1) - 1 + 1) : m[k] = list[1 + k - 1]
    BY <1>1, <2>1, SubSeqProperties
  <2>3. (n - 1) - 1 + 1 = n - 1 /\ (~(1 <= n - 1) => n - 1 = 0)
    BY <1>1, SMTT(30)
  <2>4. Len(m) = n - 1
    BY <2>2, <2>3, Zenon
  <2>5. ASSUME NEW k \in 1 .. (n - 1) PROVE m[k] = list[k]
    <3>1. 1 + k - 1 = k
      OBVIOUS
    <3> QED
      BY <2>2, <2>3, <3>1, Zenon
  <2> QED
    BY <2>4, <2>5
<1>3. list[n] \in Elems(list)
  BY <1>1 DEF Elems
<1>4. NoDup(m)
  BY <1>1, <1>2 DEF NoDup
<1>5. Elems(m) = Elems(list) \ {list[n]}
  BY <1>1, <1>2 DEF Elems, NoDup
<1> QED
  BY <1>3, <1>4, <1>5, Zenon

(* The free list is never full: its pids are distinct, and there are fewer *)
(* pids than entries.  So tm_pid_free never drops a pid.                   *)
LEMMA FreeListNotFull ==
    ASSUME NEW list \in Seq(2 .. (MaxProcesses - 1)), NoDup(list)
    PROVE  Len(list) < MaxProcesses
<1> DEFINE T == 2 .. (MaxProcesses - 1)
           D == 1 .. Len(list)
<1>1. Len(list) \in Nat /\ MaxProcesses \in Nat /\ MaxProcesses >= 3
  BY MaxProcessesAssumption
<1>2. list \in Injection(D, T)
  <2>1. list \in [D -> T]
    BY LenProperties, Zenon
  <2>2. \A a, b \in D : list[a] = list[b] => a = b
    BY Zenon DEF NoDup
  <2> QED
    BY <2>1, <2>2, Fun_IsInj
<1>3. IsFiniteSet(T) /\ Cardinality(T) = MaxProcesses - 2
  BY <1>1, FS_Interval
<1>4. Cardinality(D) <= Cardinality(T)
  BY <1>2, <1>3, FS_Injection
<1>5. Cardinality(D) = Len(list)
  <2>1. 1 \in Int /\ Len(list) \in Int
    BY <1>1
  <2>2. Cardinality(D) = IF 1 > Len(list) THEN 0 ELSE Len(list) - 1 + 1
    BY <2>1, FS_Interval, SMTT(30)
  <2> QED
    BY <1>1, <2>2
<1> QED
  BY <1>1, <1>3, <1>4, <1>5

(* How the three kinds of table write change which pids are known. *)
LEMMA KnownAfterFree ==
    ASSUME TypeOK, UniquePids, NEW i \in Index, NEW pid, IsProc(i, pid),
           g_processes' = [g_processes EXCEPT ![i] = NoRecord]
    PROVE  \A p \in Pids : Known(p)' <=> Known(p) /\ p # pid
BY Zenon DEF TypeOK, UniquePids, IsProc, Known, NoRecord

LEMMA KnownAfterNew ==
    ASSUME TypeOK, NEW i \in Index, NEW pid, NEW parent, FirstFreeRecord(i),
           g_processes' = [g_processes EXCEPT ![i] = NewRecord(pid, parent)]
    PROVE  \A p \in Pids : Known(p)' <=> Known(p) \/ p = pid
BY Zenon DEF TypeOK, FirstFreeRecord, IsProc, Known, NewRecord

LEMMA KnownAfterUpdate ==
    ASSUME TypeOK, NEW i \in Index, NEW r, g_processes[i].in_use, r.in_use,
           r.pid = g_processes[i].pid, g_processes' = [g_processes EXCEPT ![i] = r]
    PROVE  \A p \in Pids : Known(p)' <=> Known(p)
BY DEF TypeOK, IsProc, Known

(* Returning the pid of a freed record conserves pids. *)
LEMMA ConservedByFree ==
    ASSUME TypeOK, PidConservation, NEW pid \in Pids, pid # QSOE_PID_TASKMAN, Known(pid),
           \A p \in Pids : Known(p)' <=> Known(p) /\ p # pid,
           s_pid_free_list' = tm_pid_free(s_pid_free_list, pid),
           UNCHANGED s_next_pid
    PROVE  PidConservation'
<1> DEFINE L == s_pid_free_list
           T == 2 .. (MaxProcesses - 1)
<1>1. L \in Seq(T) /\ NoDup(L) /\ pid \notin Elems(L) /\ pid \in T /\ pid > QSOE_PID_TASKMAN
  BY MaxProcessesAssumption
     DEF TypeOK, PidConservation, NoDup, Elems, FreePids, Pids, QSOE_PID_TASKMAN
<1>2. L' = Append(L, pid)
  BY <1>1, FreeListNotFull, Zenon DEF tm_pid_free
<1>3. NoDup(L') /\ Elems(L') = Elems(L) \cup {pid}
  <2>1. L \in Seq(UserPids) /\ pid \in UserPids
    BY <1>1, Zenon DEF UserPids
  <2>2. NoDup(Append(L, pid)) /\ Elems(Append(L, pid)) = Elems(L) \cup {pid}
    BY <1>1, <2>1, PushFacts, Zenon
  <2> QED
    BY <1>2, <2>2, Zenon
<1>4. FreePids' = FreePids \cup {pid}
  BY <1>3, Zenon DEF FreePids, Elems
<1>5. \A k, l \in 1 .. Len(L') : L'[k] = L'[l] => k = l
  BY <1>3, Zenon DEF NoDup
<1>6. \A p \in Pids : ~(Known(p)' /\ p \in FreePids')
  BY <1>4 DEF PidConservation
<1>7. \A p \in Pids : Known(p)' \/ p \in FreePids' <=> p < s_next_pid'
  BY <1>4 DEF PidConservation
<1> QED
  BY <1>5, <1>6, <1>7 DEF PidConservation

(* Taking a pid leaves it unknown and off the list, and conserves the      *)
(* others.                                                                 *)
LEMMA AllocFacts ==
    ASSUME TypeOK, PidConservation, PidAvailable
    PROVE  /\ NoDup(FreeListAfterAlloc)
           /\ ~Known(tm_pid_alloc)
           /\ tm_pid_alloc \notin Elems(FreeListAfterAlloc)
           /\ \A p \in Pids : p < NextPidAfterAlloc <=>
                 Known(p) \/ p \in Elems(FreeListAfterAlloc) \/ p = tm_pid_alloc
<1> DEFINE L == s_pid_free_list
           T == 2 .. (MaxProcesses - 1)
<1>1. /\ L \in Seq(T) /\ NoDup(L) /\ Elems(L) = FreePids
      /\ s_next_pid \in 3 .. MaxProcesses /\ MaxProcesses \in Nat
  BY MaxProcessesAssumption DEF TypeOK, PidConservation, NoDup, Elems, FreePids
<1>2. tm_pid_alloc \in Pids
  BY AllocRange, MaxProcessesAssumption DEF Pids
<1>3. CASE L # <<>>
  <2>1. /\ tm_pid_alloc \in Elems(L) /\ NoDup(FreeListAfterAlloc)
        /\ Elems(FreeListAfterAlloc) = Elems(L) \ {tm_pid_alloc}
        /\ NextPidAfterAlloc = s_next_pid
    BY <1>1, <1>3, PopFacts DEF tm_pid_alloc, FreeListAfterAlloc, NextPidAfterAlloc
  <2> QED
    BY <1>1, <1>2, <2>1 DEF PidConservation
<1>4. CASE L = <<>>
  <2>1. /\ tm_pid_alloc = s_next_pid /\ FreeListAfterAlloc = L
        /\ NextPidAfterAlloc = s_next_pid + 1
    BY <1>4 DEF tm_pid_alloc, FreeListAfterAlloc, NextPidAfterAlloc
  <2>2. Pids \subseteq Nat
    BY MaxProcessesAssumption DEF Pids
  <2>3. ~Known(s_next_pid) /\ s_next_pid \notin Elems(L)
    BY <1>1, <1>2, <2>1 DEF PidConservation
  <2>4. \A p \in Pids : p < s_next_pid + 1 <=> p < s_next_pid \/ p = s_next_pid
    BY <1>1, <2>2
  <2> QED
    BY <1>1, <2>1, <2>3, <2>4 DEF PidConservation
<1> QED
  BY <1>3, <1>4

LEMMA ConservationStep ==
    ASSUME TableInv, PidConservation, [Next]_vars, "late" \notin SpawnOutcomes
    PROVE  PidConservation'
<1>inv. TypeOK /\ UniquePids /\ TaskmanAdoptsDaemons
  BY Zenon DEF TableInv
<1>rec. \A i \in Index : g_processes[i] \in Record
  BY <1>inv, Zenon DEF TypeOK
<1>keep. ASSUME \A p \in Pids : Known(p)' <=> Known(p),
                UNCHANGED <<s_next_pid, s_pid_free_list>>
         PROVE  PidConservation'
  BY <1>keep DEF PidConservation, FreePids
<1>same. ASSUME UNCHANGED procVars PROVE PidConservation'
  BY <1>same, <1>keep, Zenon DEF procVars, Known, IsProc
<1>1. ASSUME NEW c \in Running, SpawnOk(c) PROVE PidConservation'
  <2>1. PICK i \in Index : /\ FirstFreeRecord(i)
                           /\ g_processes' = [g_processes EXCEPT
                                 ![i] = NewRecord(tm_pid_alloc, c[1])]
    BY <1>1, Zenon DEF SpawnOk
  <2>2. \A p \in Pids : Known(p)' <=> Known(p) \/ p = tm_pid_alloc
    BY <1>inv, <2>1, KnownAfterNew, Zenon
  <2>3. s_pid_free_list' = FreeListAfterAlloc /\ s_next_pid' = NextPidAfterAlloc
    BY <1>1 DEF SpawnOk
  <2>4. FreePids' = Elems(FreeListAfterAlloc)
    BY <2>3 DEF FreePids, Elems
  <2>5. /\ NoDup(FreeListAfterAlloc)
        /\ tm_pid_alloc \notin Elems(FreeListAfterAlloc)
        /\ \A p \in Pids : p < NextPidAfterAlloc <=>
              Known(p) \/ p \in Elems(FreeListAfterAlloc) \/ p = tm_pid_alloc
    BY <1>1, <1>inv, AllocFacts DEF SpawnOk
  <2>6. Elems(FreeListAfterAlloc) \subseteq FreePids
    <3>1. CASE s_pid_free_list # <<>>
      BY <1>inv, <3>1, PopFacts
         DEF TypeOK, PidConservation, NoDup, Elems, FreePids, FreeListAfterAlloc
    <3>2. CASE s_pid_free_list = <<>>
      BY <3>2, Zenon DEF Elems, FreePids, FreeListAfterAlloc
    <3> QED
      BY <3>1, <3>2
  <2>7. \A p \in Pids : ~(Known(p)' /\ p \in FreePids')
    BY <2>2, <2>4, <2>5, <2>6, SMTT(30) DEF PidConservation
  <2>8. \A p \in Pids : Known(p)' \/ p \in FreePids' <=> p < s_next_pid'
    BY <2>2, <2>3, <2>4, <2>5, Zenon
  <2> QED
    BY <2>3, <2>5, <2>7, <2>8, SMTT(30) DEF PidConservation, NoDup
<1>2. ASSUME NEW c \in Running, SpawnFailsEarly(c) PROVE PidConservation'
  <2> DEFINE F == FreeListAfterAlloc
             n == tm_pid_alloc
  <2>1. /\ NoDup(F) /\ ~Known(n) /\ n \notin Elems(F)
        /\ \A p \in Pids : p < NextPidAfterAlloc <=> Known(p) \/ p \in Elems(F) \/ p = n
    BY <1>2, <1>inv, AllocFacts DEF SpawnFailsEarly
  <2>2. /\ F \in Seq(2 .. (MaxProcesses - 1))
        /\ n \in 2 .. (MaxProcesses - 1)
    BY <1>2, <1>inv, AllocRange DEF SpawnFailsEarly
  <2>3. tm_pid_free(F, n) = Append(F, n)
    BY <2>1, <2>2, FreeListNotFull DEF tm_pid_free, QSOE_PID_TASKMAN
  <2>4. NoDup(Append(F, n)) /\ Elems(Append(F, n)) = Elems(F) \cup {n}
    <3>1. F \in Seq(UserPids) /\ n \in UserPids
      BY <2>2 DEF UserPids
    <3> QED
      BY <2>1, <3>1, PushFacts
  <2>5. s_pid_free_list' = Append(F, n) /\ s_next_pid' = NextPidAfterAlloc
    BY <1>2, <2>3 DEF SpawnFailsEarly
  <2>6. FreePids' = Elems(F) \cup {n}
    BY <2>4, <2>5 DEF FreePids, Elems
  <2>7. \A p \in Pids : Known(p)' <=> Known(p)
    BY <1>2 DEF SpawnFailsEarly, Known, IsProc
  <2>8. \A p \in Pids : ~(Known(p)' /\ p \in FreePids')
    <3>1. Elems(F) \subseteq FreePids
      <4>1. CASE s_pid_free_list # <<>>
        BY <1>inv, <4>1, PopFacts
           DEF TypeOK, PidConservation, NoDup, Elems, FreePids, FreeListAfterAlloc
      <4>2. CASE s_pid_free_list = <<>>
        BY <4>2, Zenon DEF Elems, FreePids, FreeListAfterAlloc
      <4> QED
        BY <4>1, <4>2
    <3> QED
      BY <2>1, <2>6, <2>7, <3>1 DEF PidConservation
  <2>9. \A p \in Pids : Known(p)' \/ p \in FreePids' <=> p < s_next_pid'
    BY <2>1, <2>5, <2>6, <2>7, Zenon
  <2> QED
    BY <2>4, <2>5, <2>8, <2>9, Zenon DEF PidConservation, NoDup
<1>3. ASSUME NEW c \in Running, SpawnFailsLate(c) PROVE PidConservation'
  BY <1>3, Zenon DEF SpawnFailsLate
<1>4. ASSUME NEW c \in Running, NEW status \in Statuses, tm_process_detach(c, status)
      PROVE  PidConservation'
  <2>1. PICK i \in Index :
          /\ IsProc(i, c[1])
          /\ g_processes' = [g_processes EXCEPT
                ![i] = DetachedRecord(g_processes[i], status)]
    BY <1>4, Zenon DEF tm_process_detach, tm_process_lookup
  <2>2. /\ DetachedRecord(g_processes[i], status).in_use
        /\ DetachedRecord(g_processes[i], status).pid = g_processes[i].pid
    BY <1>rec, <2>1, UpdateKeepsPid DEF IsProc, AllStatuses
  <2>3. \A p \in Pids : Known(p)' <=> Known(p)
    BY <1>inv, <2>1, <2>2, KnownAfterUpdate, Zenon DEF IsProc
  <2> QED
    BY <1>4, <1>keep, <2>3, Zenon DEF tm_process_detach
<1>5. ASSUME NEW c \in Running, NEW child \in Pids, WaitpidReaps(c, child)
      PROVE  PidConservation'
  <2>1. PICK i \in Index :
          /\ IsProc(i, child)
          /\ g_processes[i].exit_state # TM_EXIT_LIVE
          /\ g_processes' = [g_processes EXCEPT ![i] = NoRecord]
    BY <1>5, Zenon DEF WaitpidReaps, tm_process_lookup
  <2>2. child # QSOE_PID_TASKMAN /\ Known(child)
    BY <1>inv, <2>1 DEF TaskmanAdoptsDaemons, IsProc, Known
  <2>3. \A p \in Pids : Known(p)' <=> Known(p) /\ p # child
    BY <1>inv, <2>1, KnownAfterFree, Zenon
  <2> QED
    BY <1>5, <1>inv, <2>2, <2>3, ConservedByFree DEF WaitpidReaps
<1>6. ASSUME NEW c \in Running, NEW child \in Pids, WaitpidParks(c, child)
      PROVE  PidConservation'
  <2>1. PICK i \in Index, slot \in ReplySlots :
          /\ IsProc(i, child)
          /\ g_processes' = [g_processes EXCEPT
                ![i] = WaitedRecord(g_processes[i], slot)]
    BY <1>6, Zenon DEF WaitpidParks, tm_process_lookup
  <2>2. /\ WaitedRecord(g_processes[i], slot).in_use
        /\ WaitedRecord(g_processes[i], slot).pid = g_processes[i].pid
    BY <1>rec, <2>1, UpdateKeepsPid DEF IsProc
  <2>3. \A p \in Pids : Known(p)' <=> Known(p)
    BY <1>inv, <2>1, <2>2, KnownAfterUpdate, Zenon DEF IsProc
  <2> QED
    BY <1>6, <1>keep, <2>3 DEF WaitpidParks
<1>7. ASSUME NEW target \in Pids, NEW status \in AllStatuses,
             tm_process_terminate(target, status)
      PROVE  PidConservation'
  <2>1. PICK i \in Index :
          /\ IsProc(i, target)
          /\ \/ /\ g_processes' = [g_processes EXCEPT ![i] = NoRecord]
                /\ s_pid_free_list' = tm_pid_free(s_pid_free_list, target)
             \/ /\ g_processes' = [g_processes EXCEPT
                        ![i] = ZombieRecord(g_processes[i], status)]
                /\ UNCHANGED s_pid_free_list
    BY <1>7 DEF tm_process_terminate, tm_process_lookup
  <2>2. target # QSOE_PID_TASKMAN /\ Known(target) /\ UNCHANGED s_next_pid
    BY <1>7, <2>1 DEF tm_process_terminate, Known
  <2>3. CASE /\ g_processes' = [g_processes EXCEPT ![i] = NoRecord]
             /\ s_pid_free_list' = tm_pid_free(s_pid_free_list, target)
    <3>1. \A p \in Pids : Known(p)' <=> Known(p) /\ p # target
      BY <1>inv, <2>1, <2>3, KnownAfterFree, Zenon
    <3> QED
      BY <1>inv, <2>2, <2>3, <3>1, ConservedByFree, SMTT(30)
  <2>4. CASE /\ g_processes' = [g_processes EXCEPT
                   ![i] = ZombieRecord(g_processes[i], status)]
             /\ UNCHANGED s_pid_free_list
    <3>1. /\ ZombieRecord(g_processes[i], status).in_use
          /\ ZombieRecord(g_processes[i], status).pid = g_processes[i].pid
      BY <1>rec, <2>1, UpdateKeepsPid DEF IsProc
    <3>2. \A p \in Pids : Known(p)' <=> Known(p)
      BY <1>inv, <2>1, <2>4, <3>1, KnownAfterUpdate, ZenonT(40) DEF IsProc
    <3> QED
      BY <1>keep, <2>2, <2>4, <3>2, SMTT(30)
  <2> QED
    BY <2>1, <2>3, <2>4
<1>8. ASSUME NEW c \in Running, tm_handle_fault(c) PROVE PidConservation'
  BY <1>7, <1>8, <1>inv, RunningIsCaller DEF tm_handle_fault, AllStatuses
<1>9. Statuses \subseteq AllStatuses
  BY DEF AllStatuses
<1> QED
  BY <1>1, <1>2, <1>3, <1>4, <1>5, <1>6, <1>7, <1>8, <1>9, <1>same, ZenonT(40)
     DEF Next, vars, procVars, NoReplyAfterExit, StartThread, StopThread

(* As long as no spawn fails after it registered its record, pids are      *)
(* conserved: none is lost, duplicated, or free and in use at once.        *)
THEOREM PidsConserved ==
    ASSUME "late" \notin SpawnOutcomes
    PROVE  Spec => []PidConservation
<1>1. Init => TableInv /\ PidConservation
  <2> SUFFICES ASSUME Init PROVE TableInv /\ PidConservation
    BY Zenon
  <2>1. 1 \in Index /\ 2 \in Index
    BY MaxProcessesAssumption DEF Index
  <2>2. Len(s_pid_free_list) = 0 /\ FreePids = {}
    BY DEF Init, FreePids
  <2>3. \A p \in Pids : Known(p) <=> p \in {1, 2}
    BY <2>1, Zenon DEF Init, Known, IsProc, NewRecord, NoRecord, QSOE_PID_TASKMAN, INIT_PID
  <2>4. \A p \in Pids : p < 3 <=> p \in {1, 2}
    BY MaxProcessesAssumption DEF Pids
  <2> QED
    BY <2>2, <2>3, <2>4, TableInvInit DEF Init, PidConservation
<1>2. TableInv /\ PidConservation /\ [Next]_vars => (TableInv /\ PidConservation)'
  BY TableInvStep, ConservationStep, Zenon
<1> QED
  BY <1>1, <1>2, PTL DEF Spec
=============================================================================
