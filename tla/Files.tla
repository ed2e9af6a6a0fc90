-------------------------------- MODULE Files -------------------------------
(***************************************************************************)
(* Taskman's own file servers, reached through open, read, lseek, readdir, *)
(* dup and close (taskman/path): the boot archive with its directories     *)
(* (cpiofs.c), the name tree (pmdir.c), /sys (sysfs.c) and /proc           *)
(* (procfs.c), routed by path/io.c, over the connection rows that carry    *)
(* the state of an open file (ctx, proc/connect.c).                        *)
(*                                                                         *)
(* Each request is one step.  A row is found by the badge of the           *)
(* capability a request comes over, a duplicate has a row of its own with  *)
(* the same badge, and a close is two requests: TM_REQ_CLOSE, then the     *)
(* detach.  A path is a sequence of names; bytes are numbered, not stored. *)
(* libtaskman's name tree, /sys table and /proc cursor are external and    *)
(* modelled from how the handlers use them.                                *)
(***************************************************************************)
EXTENDS Integers, Sequences, FiniteSets, SequencesExt, FiniteSetsExt

CONSTANTS Pids,          \* pids that can be in use
          Openers,       \* those whose programs use files
          StartTable,    \* the process table at the start (0: free row)
          Paths,         \* paths programs open
          Archive,       \* entries of the boot archive: name, link (or <<>>)
          RootChildren,  \* children of "/" in the name tree at the start
          DevNodes,      \* children of "/dev"
          SysFiles,      \* names under "/sys", in order
          FileLen,       \* length of every file
          TM_CPIOFS_MAX_CHUNK, TM_CPIOFS_MAX_DIRS, TM_PMDIR_MAX_OPEN,
          TM_CPIOFS_MAX_SUBDIRS_SEEN, TM_MAX_CONNECTIONS,
          MaxSlot,       \* bound: capability slots a process is given
          MaxOpens       \* bound: opens in a run

ASSUME FilesAssumption ==
    /\ Openers \subseteq Pids /\ Range(StartTable) \subseteq Pids \cup {0}
    /\ FileLen \in Nat /\ TM_CPIOFS_MAX_CHUNK \in Nat \ {0}
    /\ TM_CPIOFS_MAX_DIRS \in Nat /\ TM_PMDIR_MAX_OPEN \in Nat
    /\ TM_MAX_CONNECTIONS \in Nat /\ MaxSlot \in Nat /\ MaxOpens \in Nat

VARIABLES rows,        \* g_connections
          dirs,        \* g_cpiofs_dirs
          pmdirs,      \* g_slots of pmdir.c
          table,       \* g_processes: pid of each row, or 0
          children,    \* children of "/" in the name tree
          next_slot,   \* per process: next capability slot
          badge,       \* s_next_badge
          fds,         \* the programs' view of their descriptors
          ans          \* the last answer that gave data, a name or an error

vars == <<rows, dirs, pmdirs, table, children, next_slot, badge,
          fds, ans>>

Live == Range(table) \ {0}
FdSlots == 1 .. MaxSlot

NoCtx == [k |-> "none", at |-> <<>>, n |-> 0]
NoRow == [pid |-> 0, slot |-> 0, badge |-> 0, srv |-> "none", ctx |-> NoCtx]
NoDir == [badge |-> 0, prefix |-> <<>>, next |-> 1, seen |-> <<>>, pm |-> 1]
NoPmdir == [badge |-> 0, next |-> 1]

(* What a program knows of a descriptor: path, names listed and place      *)
(* reached so far (until it is duplicated: duplicates share their cursor), *)
(* and, for a listing of /proc, the processes alive since it was opened.   *)
NoFd == [st |-> "free", path |-> <<>>, listed |-> <<>>, pos |-> 0,
         dup |-> FALSE, must |-> {}]
NoAns == [op |-> "none", pid |-> 0, slot |-> 0, name |-> <<>>, from |-> 0, n |-> 0]

Init == /\ rows = [i \in 1 .. TM_MAX_CONNECTIONS |-> NoRow]
        /\ dirs = [i \in 1 .. TM_CPIOFS_MAX_DIRS |-> NoDir]
        /\ pmdirs = [i \in 1 .. TM_PMDIR_MAX_OPEN |-> NoPmdir]
        /\ table = StartTable /\ children = RootChildren
        /\ next_slot = [p \in Pids |-> 1] /\ badge = 1
        /\ fds = [p \in Pids |-> [s \in FdSlots |-> NoFd]]
        /\ ans = NoAns

-----------------------------------------------------------------------------
(* Rows. *)
First(S) == {i \in S : \A j \in S : i <= j}
FreeRow == First({i \in DOMAIN rows : rows[i].pid = 0})
connection_find_by_slot(p, s) ==
    First({i \in DOMAIN rows : rows[i].pid = p /\ rows[i].slot = s})
connection_find_by_badge(b) == First({i \in DOMAIN rows : rows[i].pid # 0 /\ rows[i].badge = b})

(* The row a request over descriptor s of p is served with. *)
RowOf(p, s) ==
    UNION {connection_find_by_badge(rows[i].badge) : i \in connection_find_by_slot(p, s)}

Answer(op, p, s) == [NoAns EXCEPT !.op = op, !.pid = p, !.slot = s]

-----------------------------------------------------------------------------
(* The boot archive. *)
tm_cpio_scan(name) == First({i \in DOMAIN Archive : Archive[i].name = name})

(* tm_cpio_lookup: one level of symbolic link. *)
tm_cpio_lookup(name) ==
    UNION {IF Archive[i].link = <<>> THEN {i}
           ELSE {j \in tm_cpio_scan(Archive[i].link) : Archive[j].link = <<>>} :
             i \in tm_cpio_scan(name)}

Under(prefix, i) == /\ Len(Archive[i].name) > Len(prefix)
                    /\ SubSeq(Archive[i].name, 1, Len(prefix)) = prefix
cpiofs_is_subdir(name) == \E i \in DOMAIN Archive : Under(name, i)

(* tm_pathmgr_resolve, and the expansion of the virtual links before it. *)
Server(path) ==
    CASE path = <<"dev">> -> "pmdir"
      [] path = <<"dev", "null">> -> "devnull"
      [] path # <<>> /\ path[1] = "sys" -> "sysfs"
      [] path # <<>> /\ path[1] = "proc" -> "procfs"
      [] OTHER -> "cpiofs"

(* Mutant: the first row, taken or not. *)
AnyDir == First(DOMAIN dirs)

(* dir_slot_alloc, tm_pmdir_open: the first free row. *)
FreeDir == First({i \in DOMAIN dirs : dirs[i].badge = 0})
FreePmdir == First({i \in DOMAIN pmdirs : pmdirs[i].badge = 0})

(* The ctx an open leaves in the row: the empty set when it is refused. *)
Ctx(k, at, n) == [k |-> k, at |-> at, n |-> n]
tm_cpiofs_open(path) ==
    IF path # <<>> /\ tm_cpio_lookup(path) # {}
    THEN {Ctx("file", Archive[i].name, 0) : i \in tm_cpio_lookup(path)}
    ELSE {Ctx("dir", <<>>, i) : i \in IF cpiofs_is_subdir(path) \/ path = <<>>
                                      THEN FreeDir ELSE {}}
tm_pmdir_open == {Ctx("dir", <<>>, i) : i \in FreePmdir}
tm_sysfs_open(path) ==
    IF Len(path) = 1 THEN {Ctx("dir", <<>>, 0)}
    ELSE IF path[2] \in Range(SysFiles) THEN {Ctx("file", path, 0)} ELSE {}
tm_procfs_open(path) ==
    IF Len(path) = 1 THEN {Ctx("root", <<>>, 0)}
    ELSE IF path[2] \notin Live THEN {}
    ELSE {Ctx(IF Len(path) = 2 THEN "piddir" ELSE "info", <<path[2]>>, 0)}

OpenCtx(path) ==
    CASE Server(path) = "cpiofs" -> tm_cpiofs_open(path)
      [] Server(path) = "pmdir" -> tm_pmdir_open
      [] Server(path) = "sysfs" -> tm_sysfs_open(path)
      [] Server(path) = "procfs" -> tm_procfs_open(path)
      [] OTHER -> {NoCtx}

(* tm_io_open: connect, then let the server fill in the ctx; if it         *)
(* refuses, the connection is detached again.                              *)
tm_io_open(p, path) ==
    LET s == next_slot[p]
        row(c) == [pid |-> p, slot |-> s, badge |-> badge, srv |-> Server(path), ctx |-> c]
    IN /\ s \in FdSlots /\ FreeRow # {} /\ badge <= MaxOpens
       /\ badge' = badge + 1 /\ next_slot' = [next_slot EXCEPT ![p] = s + 1]
       /\ IF OpenCtx(path) = {}
          THEN UNCHANGED <<rows, dirs, pmdirs, fds>>
          ELSE \E i \in FreeRow, c \in OpenCtx(path) :
             /\ rows' = [rows EXCEPT ![i] = row(c)]
             /\ dirs' = IF Server(path) = "cpiofs" /\ c.k = "dir"
                        THEN [dirs EXCEPT ![c.n] = [NoDir EXCEPT !.badge = badge,
                                                                 !.prefix = path]]
                        ELSE dirs
             /\ pmdirs' = IF Server(path) = "pmdir"
                          THEN [pmdirs EXCEPT ![c.n] = [NoPmdir EXCEPT !.badge = badge]]
                          ELSE pmdirs
             /\ fds' = [fds EXCEPT ![p][s] = [NoFd EXCEPT !.st = "open", !.path = path,
                                               !.must = IF c.k = "root" THEN Live ELSE {}]]
       /\ ans' = NoAns
       /\ UNCHANGED <<table, children>>

-----------------------------------------------------------------------------
(* Reading. *)
Open(p, s) == fds[p][s].st # "free"
Track(p, s, fd) == IF fd.dup THEN fds ELSE [fds EXCEPT ![p][s] = fd]
Refuse(p, s, why) == /\ ans' = [Answer("error", p, s) EXCEPT !.name = <<why>>]
                     /\ UNCHANGED <<rows, dirs, pmdirs, fds>>

(* The length of what a row reads, now: the text under /proc is made anew  *)
(* for each read, and is empty once the process is gone.                   *)
Length(row) == IF row.srv = "procfs" /\ row.ctx.at[1] \notin Live THEN 0 ELSE FileLen

Readable(row) == row.ctx.k \in {"file", "info"}
NotReadable(row) == CASE row.srv = "cpiofs" -> "EBADF"
                      [] row.srv \in {"sysfs", "procfs"} -> "EISDIR"
                      [] OTHER -> "ENOSYS"

(* tm_cpiofs_read, tm_sysfs_read, tm_procfs_read: how many bytes.  Only    *)
(* cpiofs caps the request by the IPC payload.                             *)
Chunk(row, want) ==
    Min({want, Max({Length(row) - row.ctx.n, 0})}
        \cup (IF row.srv = "cpiofs" THEN {TM_CPIOFS_MAX_CHUNK} ELSE {}))

(* tm_io_read *)
tm_io_read(p, s, want) ==
    /\ Open(p, s)
    /\ \E i \in RowOf(p, s) :
         IF rows[i].srv = "devnull"
         THEN ans' = Answer("read", p, s) /\ UNCHANGED <<rows, dirs, pmdirs, fds>>
         ELSE IF ~Readable(rows[i]) THEN Refuse(p, s, NotReadable(rows[i]))
         ELSE LET n == Chunk(rows[i], want) IN
              /\ rows' = [rows EXCEPT ![i].ctx.n = @ + n]
              /\ fds' = Track(p, s, [fds[p][s] EXCEPT !.pos = @ + n])
              /\ ans' = [Answer("read", p, s) EXCEPT !.from = rows[i].ctx.n, !.n = n]
              /\ UNCHANGED <<dirs, pmdirs>>
    /\ UNCHANGED <<table, children, next_slot, badge>>

(* tm_cpiofs_lseek, tm_sysfs_lseek, tm_procfs_lseek: where a seek leads. *)
Sought(row, whence, offset) ==
    offset + CASE whence = "set" -> 0 [] whence = "cur" -> row.ctx.n
               [] whence = "end" -> Length(row)

(* tm_lseek; the resulting place is bounded at one past the end. *)
tm_lseek(p, s, whence, offset) ==
    /\ Open(p, s)
    /\ \E i \in RowOf(p, s) :
         LET new == Sought(rows[i], whence, offset)
         IN IF rows[i].srv \in {"devnull", "pmdir"} THEN Refuse(p, s, "ESPIPE")
            ELSE IF ~Readable(rows[i]) THEN Refuse(p, s, NotReadable(rows[i]))
            ELSE IF new < 0 THEN Refuse(p, s, "EINVAL")
            ELSE /\ new <= FileLen + 1
                 /\ rows' = [rows EXCEPT ![i].ctx.n = new]
                 /\ fds' = Track(p, s, [fds[p][s] EXCEPT !.pos = new])
                 /\ ans' = NoAns
                 /\ UNCHANGED <<dirs, pmdirs>>
    /\ UNCHANGED <<table, children, next_slot, badge>>

-----------------------------------------------------------------------------
(* Listing.  One entry a call; each operator gives the entry, or nothing   *)
(* at the end, and the cursor after it.                                    *)
End(cursor) == [name |-> <<>>, cursor |-> cursor]
Give(name, cursor) == [name |-> <<name>>, cursor |-> cursor]

EntryName(d, i) == Archive[i].name[Len(d.prefix) + 1]
IsSub(d, i) == Len(Archive[i].name) > Len(d.prefix) + 1
Seen(d, name) == name \in Range(d.seen)

(* A name returned is remembered while there is room. *)
Remember(d, name) == IF Len(d.seen) < TM_CPIOFS_MAX_SUBDIRS_SEEN
                     THEN [d EXCEPT !.seen = Append(@, name)] ELSE d

(* After the archive, the root directory goes on with the name tree. *)
ReaddirTree(d) ==
    LET fresh == {j \in d.pm .. Len(children) : ~Seen(d, children[j])}
        j == Min(fresh)
    IN IF d.prefix # <<>> THEN End(d)
       ELSE IF fresh = {} THEN End([d EXCEPT !.pm = Max({@, Len(children) + 1})])
       ELSE Give(children[j], Remember([d EXCEPT !.pm = j + 1], children[j]))

tm_cpiofs_readdir(d) ==
    LET fresh == {i \in d.next .. Len(Archive) :
                    Under(d.prefix, i) /\ ~(IsSub(d, i) /\ Seen(d, EntryName(d, i)))}
        i == Min(fresh)
        at == [d EXCEPT !.next = i + 1]
    IN IF fresh = {} THEN ReaddirTree([d EXCEPT !.next = Len(Archive) + 1])
       ELSE Give(EntryName(d, i), IF IsSub(d, i) THEN Remember(at, EntryName(d, i)) ELSE at)

tm_pmdir_readdir(d) ==
    IF d.next <= Len(DevNodes)
    THEN Give(DevNodes[d.next], [d EXCEPT !.next = @ + 1]) ELSE End(d)

tm_sysfs_readdir(n) ==
    IF n < Len(SysFiles) THEN Give(SysFiles[n + 1], n + 1) ELSE End(n)

(* Mutant: the first row of the table from the cursor on, not the lowest. *)
FirstInTable(from) == {table[i] : i \in First({i \in DOMAIN table : table[i] >= from})}

(* lq_procfs_next: the lowest pid from the cursor on. *)
lq_procfs_next(from) == First({p \in Live : p >= from})

tm_procfs_readdir(c) ==
    IF c.k = "piddir"
    THEN IF c.n = 0 THEN Give("info", 1) ELSE End(c.n)
    ELSE IF lq_procfs_next(c.n) = {} THEN End(c.n)
    ELSE LET p == Min(lq_procfs_next(c.n)) IN Give(p, p + 1)

(* Mutant: the row of the directory is not compared with the badge. *)
AnyOwner(d, b) == TRUE
SameOwner(d, b) == d.badge = b

(* What a readdir answers, with the cursor it leaves behind. *)
Reply(p, s, r) ==
    /\ ans' = [Answer(IF r.name = <<>> THEN "end" ELSE "entry", p, s) EXCEPT !.name = r.name]
    /\ fds' = Track(p, s, [fds[p][s] EXCEPT !.listed = @ \o r.name])

(* tm_readdir *)
tm_readdir(p, s) ==
    /\ Open(p, s)
    /\ \E i \in RowOf(p, s) :
         LET row == rows[i] IN
         CASE row.srv = "devnull" \/ row.ctx.k \in {"file", "info"} ->
                Refuse(p, s, IF row.srv = "devnull" THEN "ENOSYS" ELSE "ENOTDIR")
           [] row.srv = "cpiofs" /\ row.ctx.k = "dir" ->
                LET d == dirs[row.ctx.n] r == tm_cpiofs_readdir(d) IN
                IF ~SameOwner(d, row.badge) THEN Refuse(p, s, "EBADF")
                ELSE /\ dirs' = [dirs EXCEPT ![row.ctx.n] = r.cursor]
                     /\ Reply(p, s, r) /\ UNCHANGED <<rows, pmdirs>>
           [] row.srv = "pmdir" ->
                LET d == pmdirs[row.ctx.n] r == tm_pmdir_readdir(d) IN
                IF ~SameOwner(d, row.badge) THEN Refuse(p, s, "EBADF")
                ELSE /\ pmdirs' = [pmdirs EXCEPT ![row.ctx.n] = r.cursor]
                     /\ Reply(p, s, r) /\ UNCHANGED <<rows, dirs>>
           [] row.srv = "sysfs" /\ row.ctx.k = "dir" ->
                LET r == tm_sysfs_readdir(row.ctx.n) IN
                /\ rows' = [rows EXCEPT ![i].ctx.n = r.cursor]
                /\ Reply(p, s, r) /\ UNCHANGED <<dirs, pmdirs>>
           [] row.ctx.k \in {"root", "piddir"} ->
                LET r == tm_procfs_readdir(row.ctx) IN
                /\ rows' = [rows EXCEPT ![i].ctx.n = r.cursor]
                /\ Reply(p, s, r) /\ UNCHANGED <<dirs, pmdirs>>
    /\ UNCHANGED <<table, children, next_slot, badge>>

-----------------------------------------------------------------------------
(* tm_dup_cap with tm_connection_clone_for_dup: the same badge, the ctx    *)
(* copied from the row of the source descriptor.                           *)
tm_dup_cap(p, s) ==
    LET to == next_slot[p] IN
    /\ Open(p, s) /\ to \in FdSlots
    /\ \E j \in connection_find_by_slot(p, s), i \in FreeRow :
         rows' = [rows EXCEPT ![i] = [rows[j] EXCEPT !.slot = to]]
    /\ next_slot' = [next_slot EXCEPT ![p] = to + 1]
    /\ LET shared == [NoFd EXCEPT !.st = "open", !.path = fds[p][s].path, !.dup = TRUE]
       IN fds' = [fds EXCEPT ![p] = [@ EXCEPT ![to] = shared,
                                              ![s] = [shared EXCEPT !.st = fds[p][s].st]]]
    /\ ans' = NoAns
    /\ UNCHANGED <<dirs, pmdirs, table, children, badge>>

(* tm_io_close, the first half of close: the row of the directory the      *)
(* badge leads to is freed (tm_cpiofs_close, tm_pmdir_close).              *)
tm_io_close(p, s) ==
    /\ fds[p][s].st = "open"
    /\ \E i \in RowOf(p, s) :
         LET row == rows[i] IN
         /\ dirs' = IF row.srv = "cpiofs" /\ row.ctx.k = "dir"
                       /\ SameOwner(dirs[row.ctx.n], row.badge)
                    THEN [dirs EXCEPT ![row.ctx.n] = NoDir] ELSE dirs
         /\ pmdirs' = IF row.srv = "pmdir" /\ SameOwner(pmdirs[row.ctx.n], row.badge)
                      THEN [pmdirs EXCEPT ![row.ctx.n] = NoPmdir] ELSE pmdirs
    /\ fds' = [fds EXCEPT ![p][s].st = "closing"]
    /\ ans' = NoAns
    /\ UNCHANGED <<rows, table, children, next_slot, badge>>

(* tm_connect_detach, the second half. *)
tm_connect_detach(p, s) ==
    /\ fds[p][s].st = "closing"
    /\ \E i \in connection_find_by_slot(p, s) : rows' = [rows EXCEPT ![i] = NoRow]
    /\ fds' = [fds EXCEPT ![p][s] = NoFd]
    /\ ans' = NoAns
    /\ UNCHANGED <<dirs, pmdirs, table, children, next_slot, badge>>

(* tm_process_terminate with a parent that waits: the rows go              *)
(* (tm_connections_drop_for_pid), the rows of open directories stay taken, *)
(* and the process leaves the table.                                       *)
Exit(p) ==
    /\ p \in Live
    /\ table' = [i \in DOMAIN table |-> IF table[i] = p THEN 0 ELSE table[i]]
    /\ rows' = [i \in DOMAIN rows |-> IF rows[i].pid = p THEN NoRow ELSE rows[i]]
    /\ fds' = [q \in Pids |-> [s \in FdSlots |->
                 IF q = p THEN NoFd ELSE [fds[q][s] EXCEPT !.must = @ \ {p}]]]
    /\ next_slot' = [next_slot EXCEPT ![p] = 1]
    /\ ans' = NoAns
    /\ UNCHANGED <<dirs, pmdirs, children, badge>>

(* tm_process_register takes the first free row of the table. *)
Start(p) ==
    /\ p \in Pids \ Live
    /\ \E i \in First({k \in DOMAIN table : table[k] = 0}) :
         table' = [table EXCEPT ![i] = p]
    /\ ans' = NoAns
    /\ UNCHANGED <<rows, dirs, pmdirs, children, next_slot, badge, fds>>

(* TM_REQ_PATHMGR_REGISTER of a new name under "/". *)
Register(name) ==
    /\ name \notin Range(children)
    /\ children' = Append(children, name)
    /\ ans' = NoAns
    /\ UNCHANGED <<rows, dirs, pmdirs, table, next_slot, badge, fds>>

Request(p) ==
    \/ \E path \in Paths : tm_io_open(p, path)
    \/ \E s \in FdSlots : \/ tm_io_read(p, s, FileLen)
                          \/ \E w \in {"set", "cur", "end"} : tm_lseek(p, s, w, -1)
                          \/ tm_readdir(p, s)
                          \/ tm_dup_cap(p, s)
                          \/ tm_io_close(p, s)
                          \/ tm_connect_detach(p, s)

Next == \/ \E p \in Openers \cap Live : Request(p)
        \/ \E p \in Pids : Exit(p) \/ Start(p)
        \/ Register("usr")

Spec == Init /\ [][Next]_vars

-----------------------------------------------------------------------------
(* What a directory holds. *)
Entries(path) ==
    CASE Server(path) = "pmdir" -> Range(DevNodes)
      [] Server(path) = "sysfs" -> Range(SysFiles)
      [] OTHER -> {Archive[i].name[Len(path) + 1] : i \in {k \in DOMAIN Archive : Under(path, k)}}
                  \cup (IF path = <<>> THEN Range(children) ELSE {})

Answered(op) == ans.op = op
Fd == fds[ans.pid][ans.slot]

(* When a listing ends, every entry of the directory has been given        *)
(* exactly once, whatever other programs listed, opened, closed or         *)
(* registered meanwhile; a listing of /proc gives every process that lived *)
(* throughout exactly once.  Duplicates share a cursor and are left out.   *)
ListingExact ==
    Answered("end") /\ ~Fd.dup =>
      /\ IsInjective(Fd.listed)
      /\ IF Server(Fd.path) = "procfs"
         THEN Len(Fd.path) = 1 => Fd.must \subseteq Range(Fd.listed)
         ELSE Range(Fd.listed) = Entries(Fd.path)

(* An entry comes from the directory the descriptor was opened on, even    *)
(* after a duplicate of it was closed and its row given to another         *)
(* directory (the badge check of tm_cpiofs_readdir, tm_pmdir_readdir).     *)
EntryFromOwnDir ==
    Answered("entry") /\ Server(Fd.path) # "procfs" => ans.name[1] \in Entries(Fd.path)

(* A descriptor that is open is served as its own file, whatever the       *)
(* others do: a read gives the bytes that follow what it read or sought    *)
(* last and never passes the end (tm_cpiofs_read), and EBADF is answered   *)
(* to a read of a directory only.  Duplicates share a row's context and    *)
(* are left out.                                                           *)
Served == Answered("error") /\ ans.name = <<"EBADF">> /\ Fd.st = "open"
          => /\ Server(Fd.path) = "cpiofs"
             /\ \E i \in RowOf(ans.pid, ans.slot) :
                  rows[i].ctx.k = "dir" /\ dirs[rows[i].ctx.n].badge = rows[i].badge
OpenFdServed ==
    ans.op # "none" /\ ~Fd.dup =>
      /\ Served
      /\ Answered("read") => ans.from + ans.n = Fd.pos /\ (ans.n > 0 => Fd.pos <= FileLen)

(* tm_connection_clone_for_dup (proc.h): "closing one fd no longer         *)
(* invalidates the other".                                                 *)
DupSurvivesClose == ans.op # "none" => Served
=============================================================================
