------------------------------- MODULE Spawn --------------------------------
(***************************************************************************)
(* Making and unmaking a process, as seen from taskman's own CSpace:       *)
(* tm_process_create_by_name with tm_spawn and the reading of an image     *)
(* from a mounted filesystem (taskman/proc/process.c, spawn.c),            *)
(* tm_thread_alloc (thread.c), and tm_process_terminate.                   *)
(*                                                                         *)
(* A spawn is a list of stages (job.todo), each of which takes a resource  *)
(* and may fail for want of it; whatever a failed spawn does not give back *)
(* stays taken.  A process has one page of each sort (page table, image    *)
(* page, RELRO page), and StdioSlots stands for its three stdio slots.     *)
(* Exit statuses and zombies are in module Process; here an exit gives the *)
(* record and the pid back at once, as it does for a child of taskman.     *)
(***************************************************************************)
EXTENDS CSpace

CONSTANTS Pids,         \* 2 .. TM_MAX_PROCESSES - 1
          Programs,     \* what may be spawned, see below
          StdioSlots,   \* the stdio capability slots of a child
          RowMax,       \* TM_MAX_CONNECTIONS
          ThreadMax,    \* TM_MAX_THREADS
          TidMax,       \* TM_MAX_TID_PER_PROC
          MprotMax,     \* TM_MAX_MPROT
          FsMaxMf,      \* TM_FS_MAX_MF
          MaxRequests   \* bound: requests made in a run

(* A program is found in the boot cpio or read from a filesystem (from);   *)
(* its image is not loadable, static, or dynamically linked with relro     *)
(* RELRO pages (image), and fills mf Mega_Pages of the read window.        *)
ASSUME SpawnAssumption ==
    /\ Pids \subseteq Nat \ {0, 1} /\ RowMax \in Nat /\ ThreadMax \in Nat
    /\ Programs \subseteq [from: {"cpio", "fs"}, image: {"bad", "static", "dyn"},
                           relro: Nat, mf: Nat]
    /\ MaxRequests \in Nat

VARIABLES cs,         \* taskman's CSpace
          perm,       \* slots taskman keeps for good
          recs,       \* g_processes, by pid
          threads,    \* g_threads
          rows,       \* g_connections
          pid_free,   \* s_pid_free_list
          next_pid,   \* s_next_pid
          fs_pt,      \* s_fs_scratch_pt_ready
          job,        \* the request being served
          requests    \* requests made so far

vars == <<cs, perm, recs, threads, rows, pid_free, next_pid, fs_pt, job, requests>>

Idle == [op |-> "idle"]
NoFs == [mf |-> <<>>, pput |-> <<>>]
Fields == {"cnode", "vspace", "tcb", "sc", "fault_ep", "l1", "l0", "budget",
           "objcnode"}
NoSlots == [f \in Fields |-> 0]
NoRec == [in_use |-> FALSE, slot |-> NoSlots, pput |-> <<>>, mprot |-> <<>>,
          next_tid |-> 2, ran |-> FALSE]
NoThread == [pid |-> 0, slots |-> <<>>]
NoRow == [pid |-> 0, slot |-> "none"]

(* At boot, taskman's scratch page tables come from the master pool, with  *)
(* the spawn of init, which never uses a block (main.c).                   *)
Booted == taskman_alloc_and_retype(InitCSpace, <<>>, "pt")

Init == /\ cs = Booted.cs /\ perm = {Booted.slot}
        /\ recs = [p \in Pids |-> NoRec]
        /\ threads = [i \in 1 .. ThreadMax |-> NoThread]
        /\ rows = [i \in 1 .. RowMax |-> NoRow]
        /\ pid_free = <<>> /\ next_pid = Min(Pids)
        /\ fs_pt = FALSE /\ job = Idle /\ requests = 0

FreeRows == {i \in 1 .. RowMax : rows[i] = NoRow}
AddRow(t, p, slot) ==
    [t EXCEPT ![Min({i \in 1 .. RowMax : t[i] = NoRow})] = [pid |-> p, slot |-> slot]]

-----------------------------------------------------------------------------
(* The stages of tm_spawn. *)
ObjectStages == <<"cnode", "vspace", "tcb">>
TableStages == <<"pt">>
load_elf_segments == <<"frame">>
LinkStages(relro) == <<"l1", "pt">> \o load_elf_segments
                     \o [i \in 1 .. relro |-> "relro"] \o <<"reloc">>
PageStages == <<"frame", "stack">>
CSpaceStages == <<"budget">>
StdioStages == <<"stdio">>
ThreadStages == <<"sc", "fault_ep", "reply">>
RecordStages == <<"register", "sysmgr">>
ReclaimStages == <<"objcnode", "move", "resume">>

tm_spawn(prog) ==
    ObjectStages \o TableStages \o load_elf_segments
    \o (IF prog.image = "dyn" THEN LinkStages(prog.relro) ELSE <<>>)
    \o PageStages \o CSpaceStages \o StdioStages \o ThreadStages
    \o RecordStages \o ReclaimStages

SpawnJob(prog, fs) ==
    [op |-> "spawn", pid |-> 0, pput |-> <<>>, slot |-> NoSlots, frames |-> <<>>,
     pts |-> <<>>, relro |-> <<>>, fs |-> fs,
     todo |-> <<"pid", "block", "header">> \o tm_spawn(prog),
     loadable |-> prog.image # "bad"]

Step == Head(job.todo)
Onward(j) == [j EXCEPT !.todo = Tail(@)]

-----------------------------------------------------------------------------
(* tm_process_create_by_name: a program in the cpio is spawned from there, *)
(* another is read from its filesystem first.                              *)
Create(prog) ==
    /\ job = Idle
    /\ job' = IF prog.from = "cpio" THEN SpawnJob(prog, NoFs)
              ELSE [op |-> "fs", prog |-> prog, fs |-> NoFs, at |-> "table", coid |-> 0]
    /\ UNCHANGED <<cs, perm, recs, threads, rows, pid_free, next_pid, fs_pt>>

(* ensure_fs_scratch_pt: from the master pool, once. *)
FsTable ==
    /\ job.op = "fs" /\ job.at = "table"
    /\ LET r == taskman_alloc_and_retype(cs, <<>>, "pt") IN
       IF fs_pt THEN /\ job' = [job EXCEPT !.at = "attach"]
                     /\ UNCHANGED <<cs, perm, fs_pt>>
       ELSE /\ cs' = r.cs
            /\ fs_pt' = (r.slot # 0)
            /\ perm' = perm \cup ({r.slot} \ {0})
            /\ job' = IF r.slot = 0 THEN Idle ELSE [job EXCEPT !.at = "attach"]
    /\ UNCHANGED <<recs, threads, rows, pid_free, next_pid>>

(* ConnectAttach by taskman itself: tm_process_alloc_slot bumps            *)
(* s_next_slot, past the free list.                                        *)
FsAttach ==
    /\ job.op = "fs" /\ job.at = "attach"
    /\ IF FreeRows = {} THEN /\ job' = Idle
                             /\ UNCHANGED <<cs, rows>>
       ELSE LET s == cs.next
                c == [cs EXCEPT !.next = Min({@ + 1, NoSuchSlot})]
            IN IF Usable(cs, s)
               THEN /\ cs' = [c EXCEPT !.cap[s] = ACap("send", 0, 0)]
                    /\ rows' = AddRow(rows, 1, "fs")
                    /\ job' = [job EXCEPT !.at = "block", !.coid = s]
               ELSE cs' = c /\ job' = Idle /\ UNCHANGED rows
    /\ UNCHANGED <<perm, recs, threads, pid_free, next_pid, fs_pt>>

(* ConnectDetach: the capability and the row go, the slot is not given     *)
(* back.                                                                   *)
Detached(c) == Delete(c, job.coid)
RowsDetached == [i \in 1 .. RowMax |->
                   IF rows[i] = [pid |-> 1, slot |-> "fs"] THEN NoRow ELSE rows[i]]

(* tm_spawn_fs_unload: the blocks of the read window are revoked; the      *)
(* slots of its Mega_Pages are not given back.                             *)
tm_spawn_fs_unload(c, fs) == tm_pput_release_list(c, fs.pput)

FsBlock ==
    /\ job.op = "fs" /\ job.at = "block"
    /\ LET b == pp_ut_acquire(cs) IN
       IF b.slot = 0
       THEN cs' = Detached(b.cs) /\ rows' = RowsDetached /\ job' = Idle
       ELSE /\ cs' = b.cs /\ UNCHANGED rows
            /\ job' = [job EXCEPT !.at = "read", !.fs.pput = <<b.slot>>]
    /\ UNCHANGED <<perm, recs, threads, pid_free, next_pid, fs_pt>>

FsFails(c, fs) == /\ cs' = tm_spawn_fs_unload(Detached(c), fs)
                  /\ rows' = RowsDetached
                  /\ job' = Idle

(* fs_grow, one Mega_Page. *)
fs_grow ==
    /\ job.op = "fs" /\ job.at = "read" /\ Len(job.fs.mf) < job.prog.mf
    /\ LET r == taskman_alloc_and_retype(cs, job.fs.pput, "frame")
           fs == [job.fs EXCEPT !.pput = r.pput]
       IN IF Len(job.fs.mf) >= FsMaxMf THEN FsFails(cs, job.fs)
          ELSE IF r.slot = 0 THEN FsFails(r.cs, fs)
          ELSE /\ cs' = r.cs
               /\ job' = [job EXCEPT !.fs = [fs EXCEPT !.mf = Append(@, r.slot)]]
               /\ UNCHANGED rows
    /\ UNCHANGED <<perm, recs, threads, pid_free, next_pid, fs_pt>>

(* The server refuses the open or a read. *)
FsRefused ==
    /\ job.op = "fs" /\ job.at = "read"
    /\ FsFails(cs, job.fs)
    /\ UNCHANGED <<perm, recs, threads, pid_free, next_pid, fs_pt>>

FsLoaded ==
    /\ job.op = "fs" /\ job.at = "read" /\ Len(job.fs.mf) = job.prog.mf
    /\ cs' = Detached(cs) /\ rows' = RowsDetached
    /\ job' = SpawnJob(job.prog, job.fs)
    /\ UNCHANGED <<perm, recs, threads, pid_free, next_pid, fs_pt>>

-----------------------------------------------------------------------------
(* Mutant: the blocks are given back before the record stops using them:   *)
(* they are not staged for the failure path.                               *)
FailKeepingBlocks(c, r, pput, pid) ==
    /\ cs' = tm_spawn_fs_unload(c, job.fs)
    /\ pid_free' = Append(pid_free, pid)
    /\ recs' = r /\ job' = Idle

(* The failure path of tm_process_create_by_name once tm_spawn has begun:  *)
(* the read window and the staged blocks are revoked and the pid is given  *)
(* back.  Slots taken one by one, stdio rows and a record already          *)
(* registered are left as they are.                                        *)
SpawnFails(c, r, pput, pid) ==
    /\ cs' = tm_pput_release_list(tm_spawn_fs_unload(c, job.fs), pput)
    /\ pid_free' = Append(pid_free, pid)
    /\ recs' = r /\ job' = Idle

(* tm_pid_alloc *)
AllocPid ==
    /\ job.op = "spawn" /\ Step = "pid"
    /\ IF pid_free # <<>>
       THEN /\ job' = [Onward(job) EXCEPT !.pid = Last(pid_free)]
            /\ pid_free' = Front(pid_free)
            /\ UNCHANGED <<cs, next_pid>>
       ELSE IF next_pid \in Pids
       THEN /\ job' = [Onward(job) EXCEPT !.pid = next_pid]
            /\ next_pid' = next_pid + 1
            /\ UNCHANGED <<cs, pid_free>>
       ELSE /\ cs' = tm_spawn_fs_unload(cs, job.fs) /\ job' = Idle
            /\ UNCHANGED <<pid_free, next_pid>>
    /\ UNCHANGED <<perm, recs, threads, rows, fs_pt>>

(* tm_pput_spawn_begin *)
StageBlock ==
    /\ job.op = "spawn" /\ Step = "block"
    /\ LET b == pp_ut_acquire(cs) IN
       IF b.slot = 0 THEN SpawnFails(b.cs, recs, <<>>, job.pid)
       ELSE /\ cs' = b.cs
            /\ job' = [Onward(job) EXCEPT !.pput = <<b.slot>>]
            /\ UNCHANGED <<recs, pid_free>>
    /\ UNCHANGED <<perm, threads, rows, next_pid, fs_pt>>

Fails == SpawnFails(cs, recs, job.pput, job.pid)

MayFail == \/ job' = Onward(job) /\ UNCHANGED <<cs, recs, pid_free>>
           \/ Fails

(* The ELF header, after a #! line the interpreter's. *)
ReadHeader ==
    /\ job.op = "spawn" /\ Step = "header"
    /\ IF job.loadable THEN job' = Onward(job) /\ UNCHANGED <<cs, recs, pid_free>>
       ELSE Fails
    /\ UNCHANGED <<perm, threads, rows, next_pid, fs_pt>>

(* An image may not parse, a relocation may fall on a page nobody loaded.  *)
Relocate ==
    /\ job.op = "spawn" /\ Step = "reloc" /\ MayFail
    /\ UNCHANGED <<perm, threads, rows, next_pid, fs_pt>>

(* The arguments may not fit the top page of the stack. *)
build_initial_stack ==
    /\ job.op = "spawn" /\ Step = "stack" /\ MayFail
    /\ UNCHANGED <<perm, threads, rows, next_pid, fs_pt>>

(* A stage that makes one kernel object from the staged blocks. *)
MakeObject ==
    /\ job.op = "spawn"
    /\ Step \in {"cnode", "vspace", "tcb", "pt", "frame", "relro", "l1", "budget", "sc"}
    /\ LET r == taskman_alloc_and_retype(cs, job.pput, Step)
           j == [Onward(job) EXCEPT !.pput = r.pput]
       IN IF r.slot = 0 THEN SpawnFails(r.cs, recs, r.pput, job.pid)
          ELSE /\ cs' = r.cs
               /\ job' = CASE Step = "pt" -> [j EXCEPT !.pts = Append(@, r.slot)]
                           [] Step = "frame" -> [j EXCEPT !.frames = Append(@, r.slot)]
                           [] Step = "relro" -> [j EXCEPT !.relro = Append(@, r.slot)]
                           [] OTHER -> [j EXCEPT !.slot[Step] = r.slot]
               /\ UNCHANGED <<recs, pid_free>>
    /\ UNCHANGED <<perm, threads, rows, next_pid, fs_pt>>

(* The stdio rows are registered one after the other, before the process   *)
(* itself: a full table leaves those before it.                            *)
RegisterStdio ==
    /\ job.op = "spawn" /\ Step = "stdio"
    /\ LET n == Min({Len(StdioSlots), Cardinality(FreeRows)}) IN
       /\ rows' = FoldLeft(LAMBDA t, s : AddRow(t, job.pid, s),
                           rows, SubSeq(StdioSlots, 1, n))
       /\ IF n = Len(StdioSlots)
          THEN job' = Onward(job) /\ UNCHANGED <<cs, recs, pid_free>>
          ELSE Fails
    /\ UNCHANGED <<perm, threads, next_pid, fs_pt>>

(* The fault-handler capability takes a root slot of its own and is not a  *)
(* child of the blocks.                                                    *)
MintFaultEp ==
    /\ job.op = "spawn" /\ Step = "fault_ep"
    /\ LET a == taskman_alloc_empty_slot(cs) IN
       IF Usable(a.cs, a.slot)
       THEN /\ cs' = [a.cs EXCEPT !.cap[a.slot] = ACap("send", 0, 0)]
            /\ job' = [Onward(job) EXCEPT !.slot["fault_ep"] = a.slot]
            /\ UNCHANGED <<recs, pid_free>>
       ELSE SpawnFails(a.cs, recs, job.pput, job.pid)
    /\ UNCHANGED <<perm, threads, rows, next_pid, fs_pt>>

(* The reply object goes from the master pool into the child's CNode. *)
MakeReply ==
    /\ job.op = "spawn" /\ Step = "reply"
    /\ IF cs.master < MasterUnits
       THEN /\ cs' = [cs EXCEPT !.master = @ + 1]
            /\ job' = Onward(job) /\ UNCHANGED <<recs, pid_free>>
       ELSE Fails
    /\ UNCHANGED <<perm, threads, rows, next_pid, fs_pt>>

(* tm_process_register, and the fields tm_spawn fills in after it. *)
Register ==
    /\ job.op = "spawn" /\ Step = "register"
    /\ IF recs[job.pid].in_use THEN Fails
       ELSE /\ recs' = [recs EXCEPT ![job.pid] =
                  [NoRec EXCEPT !.in_use = TRUE,
                                !.slot = [job.slot EXCEPT !["sc"] = 0]]]
            /\ job' = Onward(job) /\ UNCHANGED <<cs, pid_free>>
    /\ UNCHANGED <<perm, threads, rows, next_pid, fs_pt>>

RegisterSysmgr ==
    /\ job.op = "spawn" /\ Step = "sysmgr"
    /\ IF FreeRows = {} THEN Fails /\ UNCHANGED rows
       ELSE /\ rows' = AddRow(rows, job.pid, "ep")
            /\ job' = Onward(job) /\ UNCHANGED <<cs, recs, pid_free>>
    /\ UNCHANGED <<perm, threads, next_pid, fs_pt>>

MakeObjcnode ==
    /\ job.op = "spawn" /\ Step = "objcnode"
    /\ LET r == taskman_alloc_and_retype(cs, job.pput, "objcnode")
           withSc == [recs EXCEPT ![job.pid].slot["sc"] = job.slot["sc"]]
       IN IF r.slot = 0 THEN SpawnFails(r.cs, withSc, r.pput, job.pid)
          ELSE /\ cs' = r.cs
               /\ recs' = [withSc EXCEPT ![job.pid].slot["objcnode"] = r.slot]
               /\ job' = [Onward(job) EXCEPT !.pput = r.pput]
               /\ UNCHANGED pid_free
    /\ UNCHANGED <<perm, threads, rows, next_pid, fs_pt>>

(* Mutant: the root slot of a moved capability is given back before the    *)
(* move.                                                                   *)
FreeUnmoved(c, seq) == FreeSlots(c, seq)

(* qsoe_cnode_move into the object CNode, then taskman_free_slot. *)
MovedOut(c, seq) == DeleteAndFreeAll(c, seq)

(* The frames go in the order they were recorded, the RELRO pages of the   *)
(* linker before the pages of PageStages: when one RELRO page too many     *)
(* ends it, those are still in their root slots.                           *)
MoveCaps ==
    /\ job.op = "spawn" /\ Step = "move"
    /\ LET kept == SubSeq(job.relro, 1, Min({Len(job.relro), MprotMax}))
           r == [recs EXCEPT ![job.pid].mprot = kept]
       IN IF Len(job.relro) > MprotMax
          THEN SpawnFails(MovedOut(cs, Front(job.frames)), r, job.pput, job.pid)
          ELSE /\ cs' = MovedOut(MovedOut(cs, job.frames), job.pts)
               /\ recs' = r
               /\ job' = Onward(job) /\ UNCHANGED pid_free
    /\ UNCHANGED <<perm, threads, rows, next_pid, fs_pt>>

(* TCB_Resume; then the read window is released and the record takes the   *)
(* staged blocks over.                                                     *)
Resume ==
    /\ job.op = "spawn" /\ Step = "resume"
    /\ cs' = tm_spawn_fs_unload(cs, job.fs)
    /\ recs' = [recs EXCEPT ![job.pid].pput = job.pput, ![job.pid].ran = TRUE]
    /\ job' = Idle
    /\ UNCHANGED <<perm, threads, rows, pid_free, next_pid, fs_pt>>

-----------------------------------------------------------------------------
(* tm_thread_alloc: everything comes from the master pool, as no block     *)
(* context is set.  The row of the thread keeps its TCB, notification and  *)
(* scheduling context; the slots of its IPC buffer and stack are kept      *)
(* nowhere.                                                                *)
ThreadAlloc(p) ==
    /\ job = Idle /\ recs[p].ran /\ recs[p].next_tid <= TidMax
    /\ \E i \in 1 .. ThreadMax : threads[i] = NoThread
    /\ recs' = [recs EXCEPT ![p].next_tid = @ + 1]
    /\ job' = [op |-> "thread", pid |-> p, slots |-> <<>>,
               todo |-> <<"l1", "l0", "wtcb", "wntfn", "wipc", "wstack", "wsc", "wreply">>]
    /\ UNCHANGED <<cs, perm, threads, rows, pid_free, next_pid, fs_pt>>

(* ensure_workers_pts *)
WorkersPt ==
    /\ job.op = "thread" /\ Step \in {"l1", "l0"}
    /\ LET r == taskman_alloc_and_retype(cs, <<>>, "pt") IN
       IF recs[job.pid].slot[Step] # 0 \/ recs[job.pid].slot["l0"] # 0
       THEN job' = Onward(job) /\ UNCHANGED <<cs, recs>>
       ELSE /\ cs' = r.cs
            /\ recs' = [recs EXCEPT ![job.pid].slot[Step] = r.slot]
            /\ job' = IF r.slot = 0 THEN Idle ELSE Onward(job)
    /\ UNCHANGED <<perm, threads, rows, pid_free, next_pid, fs_pt>>

WorkerObject ==
    /\ job.op = "thread" /\ Step \in {"wtcb", "wntfn", "wipc", "wstack", "wsc"}
    /\ LET r == taskman_alloc_and_retype(cs, <<>>, Step) IN
       /\ cs' = r.cs
       /\ job' = IF r.slot = 0 THEN Idle
                 ELSE IF Step \in {"wipc", "wstack"} THEN Onward(job)
                 ELSE [Onward(job) EXCEPT !.slots = Append(@, r.slot)]
    /\ UNCHANGED <<perm, recs, threads, rows, pid_free, next_pid, fs_pt>>

WorkerRow ==
    /\ job.op = "thread" /\ Step = "wreply"
    /\ job' = Idle
    /\ IF cs.master < MasterUnits
       THEN LET i == Min({k \in 1 .. ThreadMax : threads[k] = NoThread}) IN
            /\ cs' = [cs EXCEPT !.master = @ + 1]
            /\ threads' = [threads EXCEPT ![i] = [pid |-> job.pid, slots |-> job.slots]]
       ELSE UNCHANGED <<cs, threads>>
    /\ UNCHANGED <<perm, recs, rows, pid_free, next_pid, fs_pt>>

-----------------------------------------------------------------------------
(* A client attaches or detaches a connection of its own. *)
Attach(p) ==
    /\ job = Idle /\ recs[p].ran /\ FreeRows # {}
    /\ rows' = AddRow(rows, p, "own")
    /\ UNCHANGED <<cs, perm, recs, threads, pid_free, next_pid, fs_pt, job>>

(* Mutant: the slot of the fault handler is not given back. *)
DeletesNoFaultEp(r) == <<r.slot["tcb"], r.slot["sc"], r.slot["vspace"], r.slot["cnode"],
                         r.slot["l0"], r.slot["l1"], r.slot["budget"]>>

(* What an exit deletes one by one, in this order. *)
DeletedAtExit(r) == <<r.slot["tcb"], r.slot["sc"], r.slot["fault_ep"], r.slot["vspace"],
                      r.slot["cnode"], r.slot["l0"], r.slot["l1"], r.slot["budget"]>>

WorkerSlots(p) == FoldLeft(LAMBDA acc, t : IF t.pid = p THEN acc \o t.slots ELSE acc,
                           <<>>, threads)

(* tm_process_terminate: what it deletes, what it leaves to the revoke,    *)
(* and the order.                                                          *)
Terminate(p) ==
    /\ job = Idle /\ recs[p].in_use
    /\ LET r == recs[p]
           c1 == DeleteAndFreeAll(cs, WorkerSlots(p) \o DeletedAtExit(r))
           c2 == tm_pput_release_list(FreeSlots(c1, r.mprot), r.pput)
       IN cs' = taskman_free_slot(c2, r.slot["objcnode"])
    /\ threads' = [i \in 1 .. ThreadMax |->
                     IF threads[i].pid = p THEN NoThread ELSE threads[i]]
    /\ rows' = [i \in 1 .. RowMax |-> IF rows[i].pid = p THEN NoRow ELSE rows[i]]
    /\ recs' = [recs EXCEPT ![p] = NoRec]
    /\ pid_free' = Append(pid_free, p)
    /\ UNCHANGED <<perm, next_pid, fs_pt, job>>

Request == /\ requests < MaxRequests /\ requests' = requests + 1
           /\ \/ \E prog \in Programs : Create(prog)
              \/ \E p \in Pids : ThreadAlloc(p) \/ Attach(p) \/ Terminate(p)

Serve == /\ UNCHANGED requests
         /\ \/ FsTable \/ FsAttach \/ FsBlock \/ fs_grow \/ FsRefused \/ FsLoaded
            \/ AllocPid \/ StageBlock \/ ReadHeader \/ MakeObject
            \/ Relocate \/ build_initial_stack \/ RegisterStdio
            \/ MintFaultEp \/ MakeReply \/ Register \/ RegisterSysmgr
            \/ MakeObjcnode \/ MoveCaps \/ Resume
            \/ WorkersPt \/ WorkerObject \/ WorkerRow

Next == Request \/ Serve
Spec == Init /\ [][Next]_vars

-----------------------------------------------------------------------------
(* Who holds a slot of the root CNode. *)
SlotsOf(r) == {r.slot[f] : f \in Fields} \cup Range(r.mprot) \cup Range(r.pput)
JobSlots ==
    CASE job.op = "idle" -> {}
      [] job.op = "fs" -> Range(job.fs.mf) \cup Range(job.fs.pput) \cup {job.coid}
      [] job.op = "spawn" -> {job.slot[f] : f \in Fields} \cup Range(job.frames)
                             \cup Range(job.pts) \cup Range(job.relro)
                             \cup Range(job.pput) \cup Range(job.fs.mf)
                             \cup Range(job.fs.pput)
      [] job.op = "thread" -> Range(job.slots)
Held == UNION {SlotsOf(recs[p]) : p \in Pids}
        \cup UNION {Range(threads[i].slots) : i \in 1 .. ThreadMax} \cup perm
Lost == {s \in Slots : s < cs.next}
        \ (Held \cup JobSlots \cup Range(cs.free) \cup Range(cs.pfree))

(* Whatever stage a spawn fails at, and whoever exits in between, a slot   *)
(* or a block that can be handed out next is empty (taskman_free_slot and  *)
(* pp_ut_release on every path).                                           *)
SlotsSound == FreeSlotsAreEmpty(cs) /\ FreeBlocksAreClean(cs)

(* A process that was started and has not exited keeps its kernel objects: *)
(* each of its slots holds the capability tm_spawn put there, made from    *)
(* one of its own blocks, and no other process or request holds it.        *)
ProcessIntact ==
    \A p \in Pids : recs[p].ran =>
      /\ \A f \in {"cnode", "vspace", "tcb", "sc", "budget", "objcnode"} :
            /\ cs.cap[recs[p].slot[f]].kind = f
            /\ cs.cap[recs[p].slot[f]].par \in Range(recs[p].pput)
      /\ \A i \in DOMAIN recs[p].mprot : cs.cap[recs[p].mprot[i]].kind = "relro"
      /\ \A q \in Pids \ {p} : SlotsOf(recs[p]) \cap SlotsOf(recs[q]) \subseteq {0}
      /\ job.op = "spawn" => Range(job.pput) \cap Range(recs[p].pput) = {}

(* Memory is never lost, whatever fails: a block carved from RAM is in     *)
(* exactly one place, a process, a request, or the free list.              *)
BlockLists == {recs[p].pput : p \in Pids} \cup {cs.pfree}
              \cup (IF job.op \in {"fs", "spawn"} THEN {job.fs.pput} ELSE {})
              \cup (IF job.op = "spawn" THEN {job.pput} ELSE {})
BlocksTracked ==
    \A s \in Slots : cs.cap[s].kind = "ut" =>
        Cardinality({l \in BlockLists : s \in Range(l)}) = 1

(* An exit gives back every slot the process had (CHANGELOG: spawn and     *)
(* exit can be repeated without bound): none becomes lost, unless the free *)
(* list is full.                                                           *)
ExitReturnsAll ==
    [][\A p \in Pids : recs[p].in_use /\ ~recs'[p].in_use /\ Len(cs'.free) < SlotFreeMax
          => Lost' \subseteq Lost]_vars

(* tm_spawn_fs_load: the read buffer is "reclaimed leak-free by            *)
(* tm_spawn_fs_unload's Revoke": a spawn that succeeds loses no slot.      *)
SpawnLosesNothing ==
    [][job.op = "spawn" /\ Step = "resume" => Lost' \subseteq Lost]_vars
=============================================================================
