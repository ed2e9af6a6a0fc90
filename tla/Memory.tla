------------------------------- MODULE Memory -------------------------------
(***************************************************************************)
(* The memory manager (taskman/mem/mmap.c): anonymous and device mappings, *)
(* munmap, mprotect and alloc_phys, with the reclaiming of a process's     *)
(* memory by tm_process_terminate (taskman/proc/process.c).                *)
(*                                                                         *)
(* Taskman serves one request at a time, but the threads of its clients    *)
(* run meanwhile, so a handler that works page by page takes one step per  *)
(* page; job says how far it is.  A request refused without a change is a  *)
(* stuttering step.                                                        *)
(*                                                                         *)
(* Addresses and lengths count 4 KiB pages; a Mega_Page is Mega of them.   *)
(* The mmap region of a process is 0 .. VaMax - 1, its RELRO pages lie     *)
(* above.  One device untyped covers the physical addresses                *)
(* 0 .. 2^DevBits - 1.                                                     *)
(***************************************************************************)
EXTENDS CSpace

CONSTANTS Procs,        \* process identities
          BootProcs,    \* those made by taskman's main(): they own no block
          Drivers,      \* those whose programs map devices
          Mega,         \* QSOE_MEGA_PAGE, in 4 KiB pages
          VaMax,        \* end of the mmap region
          Relro,        \* RELRO pages of a process
          DevBits,      \* size bits of the device untyped
          MmapMax,      \* TM_MAX_MMAP_PER_PROC
          MmapFreeMax,  \* TM_MMAP_FREE_MAX
          DevFramesMax, \* TM_MAX_DEVFRAMES
          DevMapMax,    \* TM_DEVMAP_MAX
          Lens,         \* lengths requests use
          Phys,         \* physical addresses requests use
          MaxRequests   \* bound: requests made in a run

ASSUME MemoryAssumption ==
    /\ BootProcs \subseteq Procs /\ Drivers \subseteq Procs
    /\ Mega \in Nat \ {0} /\ VaMax \in Nat
    /\ Relro \subseteq Nat \ (0 .. VaMax - 1)
    /\ Lens \subseteq Nat \ {0} /\ Phys \subseteq Nat /\ MaxRequests \in Nat

VARIABLES cs,      \* taskman's CSpace
          proc,    \* the memory fields of tm_process_t
          vs,      \* per process: what each page of the mmap region maps to
          pts,     \* per process: Mega_Page ranges with a page table hung
          dirty,   \* frames whose contents are not all zero
          devmaps, \* s_devmaps
          hwm,     \* s_ut_hwm of the device untyped
          kfree,   \* the kernel's free index in the device untyped
          torn,    \* history: a carve has failed with part of its work done
          job,     \* the request being served
          answer,  \* what the last request returned to its caller
          requests \* requests made so far

vars == <<cs, proc, vs, pts, dirty, devmaps, hwm, kfree, torn, job,
          answer, requests>>

VA == 0 .. VaMax - 1
DevSize == 2 ^ DevBits
RoundUp(n, g) == ((n + g - 1) \div g) * g
RoundDown(n, g) == (n \div g) * g

Nothing == [kind |-> "none", id |-> 0]
Ram(frame) == [kind |-> "ram", id |-> frame]
Dev(pa) == [kind |-> "dev", id |-> pa]

Idle == [op |-> "idle"]
NoAnswer == [op |-> "none"]
NoProc == [live |-> FALSE, pput |-> <<>>, image |-> 0, mmap |-> <<>>,
           mmap_free |-> <<>>, dev |-> <<>>, top |-> 0,
           mprot |-> [v \in Relro |-> {"r", "w"}]]

Init == /\ cs = InitCSpace /\ proc = [p \in Procs |-> NoProc]
        /\ vs = [p \in Procs |-> [v \in VA |-> Nothing]]
        /\ pts = [p \in Procs |-> {}] /\ dirty = {}
        /\ devmaps = <<>> /\ hwm = 0 /\ kfree = 0 /\ torn = FALSE
        /\ job = Idle /\ answer = NoAnswer /\ requests = 0

-----------------------------------------------------------------------------
(* The kernel's page tables. *)

MegaRange(va) == va .. va + Mega - 1
CanMapMega(p, va) == /\ va % Mega = 0 /\ MegaRange(va) \subseteq VA
                     /\ va \notin pts[p]
                     /\ \A v \in MegaRange(va) : vs[p][v] = Nothing
CanHang(p, va) == CanMapMega(p, va)

Mapped(p, new) ==
    [vs EXCEPT ![p] = [v \in VA |-> IF v \in DOMAIN new THEN new[v] ELSE vs[p][v]]]
Unmapped(p, range) == Mapped(p, [v \in range |-> Nothing])

Contents(d, c) == {f \in d : c.cap[f].kind = "frame"}

-----------------------------------------------------------------------------
(* A process is made; image stands for the objects it starts with, retyped *)
(* from its first block, or for boot init, from the master pool.           *)
Start(p) ==
    /\ job = Idle /\ ~proc[p].live
    /\ LET b == IF p \in BootProcs THEN [cs |-> cs, slot |-> 0] ELSE pp_ut_acquire(cs)
           pput == IF p \in BootProcs THEN <<>> ELSE <<b.slot>>
           r == taskman_alloc_and_retype(b.cs, pput, "image")
       IN /\ p \in BootProcs \/ b.slot # 0
          /\ r.slot # 0
          /\ cs' = r.cs
          /\ proc' = [proc EXCEPT ![p] = [NoProc EXCEPT !.live = TRUE,
                                             !.pput = r.pput, !.image = r.slot]]
    /\ answer' = NoAnswer
    /\ UNCHANGED <<vs, pts, dirty, devmaps, hwm, kfree, torn, job>>

(* tm_process_terminate: the image is deleted, the frames' slots are given *)
(* back without a delete, the device copies are deleted, the blocks are    *)
(* revoked.                                                                *)
Exit(p) ==
    /\ job = Idle /\ proc[p].live
    /\ LET q == proc[p]
           frames == [i \in DOMAIN q.mmap |-> q.mmap[i].frame]
           copies == [i \in DOMAIN q.dev |-> q.dev[i].frame]
           c1 == DeleteAndFree(cs, q.image)
           c2 == FreeSlots(c1, frames \o q.mmap_free)
           c3 == DeleteAndFreeAll(c2, copies)
       IN /\ cs' = tm_pput_release_list(c3, q.pput)
          /\ dirty' = Contents(dirty, cs')
    /\ proc' = [proc EXCEPT ![p] = NoProc]
    /\ vs' = Unmapped(p, VA)
    /\ pts' = [pts EXCEPT ![p] = {}]
    /\ answer' = NoAnswer
    /\ UNCHANGED <<devmaps, hwm, kfree, torn, job>>

(* A thread of the process writes to a page it has mapped. *)
Write(p, va) ==
    /\ vs[p][va].kind = "ram" /\ vs[p][va].id \notin dirty
    /\ dirty' = dirty \cup {vs[p][va].id}
    /\ UNCHANGED <<cs, proc, vs, pts, devmaps, hwm, kfree, torn, job, answer>>

-----------------------------------------------------------------------------
(* tm_mmap_serve without MAP_PHYS, and tm_alloc_phys_serve, which asks for *)
(* at most one Mega_Page and reports its frame too.                        *)
MmapAnon(p, len, phys) ==
    /\ job = Idle /\ proc[p].live
    /\ phys => len <= Mega
    /\ job' = [op |-> "anon", p |-> p, i |-> 0, phys |-> phys,
               pages |-> RoundUp(len, Mega) \div Mega,
               base |-> RoundUp(proc[p].top, Mega)]
    /\ answer' = NoAnswer
    /\ UNCHANGED <<cs, proc, vs, pts, dirty, devmaps, hwm, kfree, torn>>

Fail == job' = Idle /\ answer' = [op |-> "failed", p |-> job.p]

(* Mutant: a recycled frame keeps what it held. *)
ZeroNothing(d, f) == d

(* tm_zero_megaframe *)
tm_zero_megaframe(d, f) == d \ {f}

(* The next frame: a recycled one, zeroed through taskman's scratch window *)
(* (which needs it mapped nowhere else), or a fresh one, zeroed by the     *)
(* kernel.                                                                 *)
NextFrame(q) ==
    IF q.mmap_free = <<>>
    THEN LET r == taskman_alloc_and_retype(cs, q.pput, "frame") IN
         [cs |-> r.cs, q |-> [q EXCEPT !.pput = r.pput], slot |-> r.slot,
          dirty |-> dirty]
    ELSE LET f == Last(q.mmap_free) IN
         IF \E p \in Procs, v \in VA : vs[p][v] = Ram(f)
         THEN [cs |-> cs, q |-> q, slot |-> 0, dirty |-> dirty]
         ELSE [cs |-> cs, q |-> [q EXCEPT !.mmap_free = Front(@)], slot |-> f,
               dirty |-> tm_zero_megaframe(dirty, f)]

(* One page of mmap_anonymous: no frame; the address is taken; it is       *)
(* mapped but the tracker is full; or it is mapped and recorded.           *)
AnonPage ==
    /\ job.op = "anon" /\ job.i < job.pages
    /\ LET p == job.p
           va == job.base + job.i * Mega
           n == NextFrame(proc[p])
           ram == [v \in MegaRange(va) |-> Ram(n.slot)]
       IN /\ cs' = n.cs
          /\ dirty' = n.dirty
          /\ \/ /\ n.slot = 0 \/ ~CanMapMega(p, va)
                /\ proc' = [proc EXCEPT ![p] = n.q]
                /\ UNCHANGED vs
                /\ Fail
             \/ /\ n.slot # 0 /\ CanMapMega(p, va) /\ Len(n.q.mmap) >= MmapMax
                /\ proc' = [proc EXCEPT ![p] = n.q]
                /\ vs' = Mapped(p, ram)
                /\ Fail
             \/ /\ n.slot # 0 /\ CanMapMega(p, va) /\ Len(n.q.mmap) < MmapMax
                /\ proc' = [proc EXCEPT ![p] =
                     [n.q EXCEPT !.mmap = Append(@, [va |-> va, frame |-> n.slot])]]
                /\ vs' = Mapped(p, ram)
                /\ job' = [job EXCEPT !.i = @ + 1]
                /\ UNCHANGED answer
    /\ UNCHANGED <<pts, devmaps, hwm, kfree, torn>>

(* The cursor moves only once every page is mapped; alloc_phys reports the *)
(* frame of the tracker's last entry.                                      *)
AnonDone ==
    /\ job.op = "anon" /\ job.i = job.pages
    /\ proc' = [proc EXCEPT ![job.p].top = job.base + job.pages * Mega]
    /\ answer' = [op |-> "anon", p |-> job.p, va |-> job.base,
                  len |-> job.pages * Mega,
                  frame |-> IF job.phys THEN Last(proc[job.p].mmap).frame ELSE 0]
    /\ job' = Idle
    /\ UNCHANGED <<cs, vs, pts, dirty, devmaps, hwm, kfree, torn>>

-----------------------------------------------------------------------------
(* MAP_PHYS: mmap_phys takes the first registered region that covers the   *)
(* request (devmap_find), or carves a new one.                             *)
Covering(phys, len) ==
    {i \in DOMAIN devmaps : /\ devmaps[i].phys <= phys
                            /\ phys + len <= devmaps[i].phys + devmaps[i].len}

(* devmap_map_into, before its loop. *)
MapJob(p, d, phys, len) ==
    LET g == d.granule
        first == (phys - d.phys) \div g
        last == (phys + len - d.phys + g - 1) \div g
    IN [op |-> "map", p |-> p, d |-> d, phys |-> phys, len |-> len, i |-> 0,
        first |-> first, n |-> Min({last, Len(d.frames)}) - first,
        base |-> RoundUp(proc[p].top, Mega)]

(* Mutant: the advance starts from the base of the untyped every time. *)
CarveFromBase(p, phys, len) ==
    LET g == IF phys % Mega = 0 /\ len >= Mega THEN Mega ELSE 1
    IN [op |-> "carve", p |-> p, phys |-> phys, len |-> len, advanced |-> 0,
        granule |-> g, rlen |-> RoundUp(len, g), frames |-> <<>>]

(* devmap_carve up to its loops: Mega_Pages where they land at the right   *)
(* address, else 4 KiB pages; refused below the high-water mark, or with   *)
(* the registry full.                                                      *)
CarveJob(p, phys, len) ==
    LET g == IF phys % Mega = 0 /\ len >= Mega THEN Mega ELSE 1
    IN [op |-> "carve", p |-> p, phys |-> phys, len |-> len, advanced |-> hwm,
        granule |-> g, rlen |-> RoundUp(len, g), frames |-> <<>>]

MmapPhys(p, phys, len) ==
    /\ job = Idle /\ proc[p].live
    /\ answer' = NoAnswer
    /\ LET found == Covering(phys, len) IN
       \/ /\ found # {}
          /\ job' = MapJob(p, devmaps[Min(found)], phys, len)
       \/ /\ found = {} /\ phys + len <= DevSize
          /\ phys >= hwm /\ Len(devmaps) < DevMapMax
          /\ job' = CarveJob(p, phys, len)
    /\ UNCHANGED <<cs, proc, vs, pts, dirty, devmaps, hwm, kfree, torn>>

(* A device object of size sz goes at the next multiple of its size. *)
DevAt(sz) == RoundUp(kfree, sz)
DevRetype(kind, sz, next) ==
    LET a == taskman_alloc_empty_slot(cs) IN
    \/ /\ Usable(a.cs, a.slot) /\ DevAt(sz) + sz <= DevSize
       /\ cs' = [a.cs EXCEPT !.cap[a.slot] = ACap(kind, 0, DevAt(sz))]
       /\ kfree' = DevAt(sz) + sz
       /\ job' = next[a.slot]
       /\ UNCHANGED <<torn, answer>>
    \/ /\ ~(Usable(a.cs, a.slot) /\ DevAt(sz) + sz <= DevSize)
       /\ cs' = taskman_free_slot(a.cs, a.slot)
       /\ Fail
       /\ torn' = (torn \/ kfree # hwm)
       /\ UNCHANGED kfree

(* The largest power of two that fits in rem and to which pos is aligned   *)
(* (fls_ul, ctz_ul).                                                       *)
Chunk(pos, rem) == Max({2 ^ k : k \in {j \in 0 .. DevBits :
                                         2 ^ j <= rem /\ pos % 2 ^ j = 0}})

(* One throwaway untyped of the advance to the region. *)
CarveSkip ==
    /\ job.op = "carve" /\ job.advanced < job.phys
    /\ LET sz == Chunk(job.advanced, job.phys - job.advanced)
           next == [slot \in DOMAIN cs.cap |-> [job EXCEPT !.advanced = @ + sz]]
       IN DevRetype("pad", sz, next)
    /\ UNCHANGED <<proc, vs, pts, dirty, devmaps, hwm>>

(* One frame of the region, left unmapped. *)
CarveFrame ==
    /\ job.op = "carve" /\ job.advanced >= job.phys
    /\ Len(job.frames) * job.granule < job.rlen
    /\ LET next == [slot \in DOMAIN cs.cap |-> [job EXCEPT !.frames = Append(@, slot)]]
       IN DevRetype("dev", job.granule, next)
    /\ UNCHANGED <<proc, vs, pts, dirty, devmaps, hwm>>

(* The region is registered, and mmap_phys goes on to map it. *)
CarveDone ==
    /\ job.op = "carve" /\ Len(job.frames) * job.granule = job.rlen
    /\ LET d == [phys |-> job.phys, len |-> job.rlen, granule |-> job.granule,
                 frames |-> job.frames]
       IN /\ devmaps' = Append(devmaps, d)
          /\ job' = MapJob(job.p, d, job.phys, job.len)
    /\ hwm' = job.phys + job.rlen
    /\ UNCHANGED <<cs, proc, vs, pts, dirty, kfree, torn, answer>>

-----------------------------------------------------------------------------
(* devmap_map_into, one frame: with the tracker full it stops before       *)
(* anything is done; the first page of a Mega_Page range takes a page      *)
(* table from the master pool, whose slot nothing records.                 *)
DevVa == job.base + job.i * job.d.granule
NeedsTable == job.d.granule = 1 /\ DevVa % Mega = 0

MapDevFull ==
    /\ job.op = "map" /\ job.i < job.n
    /\ Len(proc[job.p].dev) >= DevFramesMax
    /\ Fail
    /\ UNCHANGED <<cs, proc, vs, pts, dirty, devmaps, hwm, kfree, torn>>

(* The table, when one is needed, as [cs, pts, ok]. *)
WithTable(p, va) ==
    LET t == taskman_alloc_and_retype(cs, <<>>, "pt") IN
    IF ~NeedsTable THEN [cs |-> cs, pts |-> pts[p], ok |-> TRUE]
    ELSE IF t.slot # 0 /\ CanHang(p, va)
    THEN [cs |-> t.cs, pts |-> pts[p] \cup {va}, ok |-> TRUE]
    ELSE [cs |-> t.cs, pts |-> pts[p], ok |-> FALSE]

CanMapDev(p, tables, va) ==
    IF job.d.granule = Mega THEN CanMapMega(p, va)
    ELSE va \in VA /\ RoundDown(va, Mega) \in tables /\ vs[p][va] = Nothing

MapDevFrame ==
    /\ job.op = "map" /\ job.i < job.n
    /\ Len(proc[job.p].dev) < DevFramesMax
    /\ LET p == job.p
           va == DevVa
           orig == job.d.frames[job.first + job.i + 1]
           t == WithTable(p, va)
           a == taskman_alloc_empty_slot(t.cs)
           copied == Usable(a.cs, a.slot)
           pa == cs.cap[orig].n
           dev == [v \in va .. va + job.d.granule - 1 |-> Dev(pa + (v - va))]
       IN /\ pts' = [pts EXCEPT ![p] = t.pts]
          /\ \/ /\ ~t.ok
                /\ cs' = t.cs
                /\ UNCHANGED <<proc, vs>>
                /\ Fail
             \/ /\ t.ok /\ ~(copied /\ CanMapDev(p, t.pts, va))
                /\ cs' = taskman_free_slot(a.cs, a.slot)
                /\ UNCHANGED <<proc, vs>>
                /\ Fail
             \/ /\ t.ok /\ copied /\ CanMapDev(p, t.pts, va)
                /\ cs' = [a.cs EXCEPT !.cap[a.slot] = ACap("dev", 0, pa)]
                /\ vs' = Mapped(p, dev)
                /\ proc' = [proc EXCEPT ![p].dev =
                              Append(@, [va |-> va, frame |-> a.slot])]
                /\ job' = [job EXCEPT !.i = @ + 1]
                /\ UNCHANGED answer
    /\ UNCHANGED <<dirty, devmaps, hwm, kfree, torn>>

MapDevDone ==
    /\ job.op = "map" /\ job.i = job.n
    /\ proc' = [proc EXCEPT ![job.p].top = job.base + job.n * job.d.granule]
    /\ answer' = [op |-> "phys", p |-> job.p, phys |-> job.phys, len |-> job.len,
                  va |-> job.base + (job.phys - job.d.phys)
                                  - job.first * job.d.granule]
    /\ job' = Idle
    /\ UNCHANGED <<cs, vs, pts, dirty, devmaps, hwm, kfree, torn>>

-----------------------------------------------------------------------------
(* Mutant: the last entry is dropped, whichever was to go. *)
SwapOutLast(seq, i) == Front(seq)

(* Removing entry i by moving the last one into its place. *)
SwapOut(seq, i) == Front([seq EXCEPT ![i] = Last(seq)])

(* munmap_devframes: every device page in the range, by the scan that      *)
(* looks again at an entry it has just moved.                              *)
DevHits(q, va, len) == {i \in DOMAIN q.dev : q.dev[i].va \in va .. va + len - 1}
munmap_devframes(q, va, len) ==
    LET Step[n \in 0 .. Len(q.dev)] ==
          IF n = 0 THEN [dev |-> q.dev, gone |-> <<>>, i |-> 1]
          ELSE LET s == Step[n - 1] IN
               IF s.dev[s.i].va \in va .. va + len - 1
               THEN [s EXCEPT !.gone = Append(@, s.dev[s.i]), !.dev = SwapOut(@, s.i)]
               ELSE [s EXCEPT !.i = @ + 1]
    IN Step[Len(q.dev)]

(* The pages of the frame mapped at va: one under a page table, else Mega. *)
DevRange(p, va) == IF RoundDown(va, Mega) \in pts[p] THEN {va} ELSE MegaRange(va)

MunmapDev(p, va, len) ==
    /\ job = Idle /\ proc[p].live
    /\ DevHits(proc[p], va, len) # {}
    /\ LET r == munmap_devframes(proc[p], va, len)
           slots == [i \in DOMAIN r.gone |-> r.gone[i].frame]
       IN /\ proc' = [proc EXCEPT ![p].dev = r.dev]
          /\ cs' = DeleteAndFreeAll(cs, slots)
          /\ vs' = Unmapped(p, UNION {DevRange(p, r.gone[i].va) :
                                        i \in DOMAIN r.gone})
    /\ answer' = NoAnswer
    /\ UNCHANGED <<pts, dirty, devmaps, hwm, kfree, torn, job>>

(* The rest of tm_munmap_serve: all pages are tracked, or nothing is done; *)
(* a frame is kept for reuse, or deleted when the recycle list is full;    *)
(* the cursor goes back when the range ends there.                         *)
find_mmap_idx(q, va) == {i \in DOMAIN q.mmap : q.mmap[i].va = va}

MunmapAnon(p, va, len) ==
    /\ job = Idle /\ proc[p].live
    /\ DevHits(proc[p], va, len) = {}
    /\ va % Mega = 0
    /\ LET bytes == RoundUp(len, Mega)
           q == proc[p]
           Step[n \in 0 .. bytes \div Mega] ==
             IF n = 0 THEN [q |-> q, cs |-> cs]
             ELSE LET s == Step[n - 1]
                      i == Min(find_mmap_idx(s.q, va + (n - 1) * Mega))
                      f == s.q.mmap[i].frame
                      keep == Len(s.q.mmap_free) < MmapFreeMax
                  IN [q |-> [s.q EXCEPT !.mmap = SwapOut(@, i),
                                        !.mmap_free = IF keep THEN Append(@, f) ELSE @],
                      cs |-> IF keep THEN s.cs ELSE DeleteAndFree(s.cs, f)]
           r == Step[bytes \div Mega]
       IN /\ \A n \in 0 .. (bytes \div Mega) - 1 : find_mmap_idx(q, va + n * Mega) # {}
          /\ cs' = r.cs
          /\ dirty' = Contents(dirty, r.cs)
          /\ proc' = [proc EXCEPT ![p] =
               IF va + bytes = q.top THEN [r.q EXCEPT !.top = va] ELSE r.q]
          /\ vs' = Unmapped(p, va .. va + bytes - 1)
    /\ answer' = NoAnswer
    /\ UNCHANGED <<pts, devmaps, hwm, kfree, torn, job>>

(* tm_mprotect_serve: page by page, up to the first that is neither a      *)
(* RELRO page nor in an anonymous mapping that grants what is asked.  Only *)
(* a RELRO page changes.                                                   *)
Grants(q, v, prot) ==
    \/ v \in Relro
    \/ prot # {} /\ \E i \in DOMAIN q.mmap : v \in MegaRange(q.mmap[i].va)

Mprotect(p, va, len, prot) ==
    /\ job = Idle /\ proc[p].live
    /\ LET refused == {v \in va .. va + len - 1 : ~Grants(proc[p], v, prot)}
           done == {v \in va .. va + len - 1 : \A r \in refused : v < r}
       IN /\ done \cap Relro # {}
          /\ proc' = [proc EXCEPT ![p].mprot =
               [v \in Relro |-> IF v \in done THEN prot ELSE proc[p].mprot[v]]]
    /\ answer' = NoAnswer
    /\ UNCHANGED <<cs, vs, pts, dirty, devmaps, hwm, kfree, torn, job>>

Request(p) ==
    \/ Start(p) \/ Exit(p)
    \/ \E len \in Lens, phys \in BOOLEAN :
          (phys => p \in Drivers) /\ MmapAnon(p, len, phys)
    \/ p \in Drivers /\ \E len \in Lens, phys \in Phys : MmapPhys(p, phys, len)
    \/ \E len \in Lens, va \in VA : MunmapDev(p, va, len) \/ MunmapAnon(p, va, len)
    \/ \E len \in Lens, va \in VA \cup Relro, prot \in {{}, {"r"}, {"r", "w"}} :
          Mprotect(p, va, len, prot)

Serve == AnonPage \/ AnonDone \/ CarveSkip \/ CarveFrame \/ CarveDone
         \/ MapDevFull \/ MapDevFrame \/ MapDevDone

Next ==
    \/ /\ requests < MaxRequests /\ requests' = requests + 1
       /\ \E p \in Procs : Request(p)
    \/ /\ Serve \/ \E p \in Procs, va \in VA : Write(p, va)
       /\ UNCHANGED requests

Spec == Init /\ [][Next]_vars

-----------------------------------------------------------------------------
(* Memory is private.  A RAM frame is mapped in at most one place, in the  *)
(* process that owns the block it was made from; a frame waiting on the    *)
(* recycle list (mmap_free) is mapped nowhere, so handing it out again     *)
(* shares it with nobody; and what the tracker (mmap) records is mapped    *)
(* where it says.                                                          *)
FramesPrivate ==
    /\ \A p, o \in Procs, v, w \in VA :
          vs[p][v].kind = "ram" /\ vs[p][v] = vs[o][w] =>
             p = o /\ v \div Mega = w \div Mega
    /\ \A p \in Procs :
          /\ \A v \in VA : vs[p][v].kind = "ram" =>
                LET c == cs.cap[vs[p][v].id] IN
                /\ c.kind = "frame"
                /\ IF p \in BootProcs THEN c.par = 0 ELSE c.par \in Range(proc[p].pput)
          /\ \A f \in Range(proc[p].mmap_free) : \A o \in Procs, v \in VA :
                vs[o][v] # Ram(f)
          /\ \A i \in DOMAIN proc[p].mmap : \A v \in MegaRange(proc[p].mmap[i].va) :
                vs[p][v] = Ram(proc[p].mmap[i].frame)

(* Whatever munmap and mmap have recycled, a page that appears in an       *)
(* address space is all zero (mmap_anonymous, tm_zero_megaframe).          *)
MappedPagesAreZero ==
    [][\A p \in Procs, v \in VA :
          vs'[p][v] # vs[p][v] /\ vs'[p][v].kind = "ram" => vs'[p][v].id \notin dirty']_vars

(* What a request answers is what the caller finds.  The range mmap        *)
(* reports is mapped and tracked page by page, the frame alloc_phys        *)
(* reports is the one behind the address it reports, and a device window   *)
(* shows, from the reported address on, the physical addresses asked for,  *)
(* whatever regions were carved, shared, mapped or unmapped before.  The   *)
(* last is claimed only as long as no devmap_carve has failed half-way:    *)
(* such a failure moves the kernel's free index without the high-water     *)
(* mark, and the code then shows later windows at the wrong addresses.     *)
AnswerIsTrue ==
    /\ answer.op = "anon" =>
          /\ \A v \in answer.va .. answer.va + answer.len - 1 :
                v \in VA /\ vs[answer.p][v].kind = "ram"
          /\ \A n \in 0 .. (answer.len \div Mega) - 1 :
                find_mmap_idx(proc[answer.p], answer.va + n * Mega) # {}
          /\ answer.frame # 0 => vs[answer.p][answer.va] = Ram(answer.frame)
    /\ answer.op = "phys" /\ ~torn =>
          \A n \in 0 .. answer.len - 1 : vs[answer.p][answer.va + n] = Dev(answer.phys + n)

(* The free list never offers a slot that is in use, through every exit,   *)
(* munmap, failure and growth; and a block on the reuse list has nothing   *)
(* left in it.                                                             *)
FreeListsSound == FreeSlotsAreEmpty(cs) /\ FreeBlocksAreClean(cs)
=============================================================================
