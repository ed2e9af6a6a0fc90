------------------------------- MODULE RsrcDb -------------------------------
(***************************************************************************)
(* taskman's resource manager database (taskman/sys/rsrcdb.c): a list of   *)
(* address ranges, each free or owned by a process, that rsrcdbmgr_create, *)
(* _destroy, _attach and _detach change.                                   *)
(*                                                                         *)
(* The classes differ in nothing but their list head, so one class is      *)
(* modelled.  An entry's flags and name are stored and never read, so they *)
(* are left out.  Addresses are Width-bit unsigned integers.  One action   *)
(* is one dispatched message; a message carries a batch of requests.       *)
(***************************************************************************)
EXTENDS Integers, Sequences, SequencesExt, FiniteSets

CONSTANTS Pids,         \* processes that use the database
          Width,        \* bits of an address
          PoolSize,     \* TM_RSRC_POOL_SIZE
          Seeds,        \* the memory ranges registered at boot
          CreateSets,   \* batches of ranges for create and destroy
          RequestSets   \* batches of requests for attach

ASSUME SizesAssumption == Width \in Nat /\ PoolSize \in Nat
ASSUME PidsAssumption == Pids \subseteq Nat \ {0}

VARIABLES s_class_head, \* the class list: entries [start, end, owner]
          pool,         \* length of s_free_list
          live          \* processes that have not exited

vars == <<s_class_head, pool, live>>

FREE == 0
Word == 0 .. (2^Width - 1)
Wrap(n) == n % 2^Width

entry(start, end, owner) == [start |-> start, end |-> end, owner |-> owner]

-----------------------------------------------------------------------------
(* The list.  The helpers return a database: the list and the pool count.  *)

db(list, free) == [list |-> list, free |-> free]

(* Mutant: list_insert prepends. *)
InsertAtHead(list, e) == <<e>> \o list

list_insert(list, e) ==
    LET before == SelectInSeq(list, LAMBDA x : x.start >= e.start)
    IN  IF before = 0 THEN Append(list, e) ELSE InsertAt(list, before, e)

MergeRight(d, i) ==
    IF /\ i < Len(d.list)
       /\ d.list[i + 1].owner = FREE
       /\ d.list[i + 1].start = Wrap(d.list[i].end + 1)
    THEN db(RemoveAt([d.list EXCEPT ![i].end = d.list[i + 1].end], i + 1), d.free + 1)
    ELSE d

MergeLeft(d, i) ==
    IF /\ i > 1
       /\ d.list[i - 1].owner = FREE
       /\ Wrap(d.list[i - 1].end + 1) = d.list[i].start
    THEN db(RemoveAt([d.list EXCEPT ![i - 1].end = d.list[i].end], i), d.free + 1)
    ELSE d

(* The entry at position i is free: join it with its free neighbours. *)
merge_neighbours(d, i) == MergeLeft(MergeRight(d, i), i)

(* Free the entry at position i, as detach and the rollback do. *)
Release(d, i) == merge_neighbours(db([d.list EXCEPT ![i].owner = FREE], d.free), i)

-----------------------------------------------------------------------------
(* find_fit: what a request gets out of a free entry.  A request is        *)
(* [range, start, end, align, length]; range says FLAG_RANGE is set, align *)
(* is 1 when FLAG_ALIGN is not, and a power of two otherwise.              *)

MaxOf(a, b) == IF a > b THEN a ELSE b
MinOf(a, b) == IF a < b THEN a ELSE b

AlignUp(n, align) == LET w == Wrap(n + align - 1) IN w - (w % align)

(* Mutant: the start is not aligned. *)
StartUnaligned(e, req) == IF req.range THEN MaxOf(req.start, e.start) ELSE e.start

ClippedStart(e, req) == IF req.range THEN MaxOf(req.start, e.start) ELSE e.start
ClippedEnd(e, req)   == IF req.range THEN MinOf(req.end, e.end) ELSE e.end

GrantStart(e, req) == AlignUp(ClippedStart(e, req), req.align)
GrantEnd(e, req) ==
    Wrap(GrantStart(e, req) + (IF req.length > 0 THEN req.length - 1 ELSE 0))

Fits(e, req) ==
    /\ e.owner = FREE
    /\ ClippedStart(e, req) <= ClippedEnd(e, req)
    /\ GrantStart(e, req) <= GrantEnd(e, req)
    /\ GrantEnd(e, req) <= ClippedEnd(e, req)

(* The position of the first entry that fits, 0 for none. *)
find_fit(list, req) == SelectInSeq(list, LAMBDA e : Fits(e, req))

(* Mutant: carve forgets the part of the entry right of the grant. *)
CarveNoRight(d, i, gs, ge, owner) ==
    LET e    == d.list[i]
        left == IF gs > e.start THEN [d.list EXCEPT ![i].end = gs - 1]
                ELSE RemoveAt(d.list, i)
    IN  db(list_insert(left, entry(gs, ge, owner)),
           d.free - 1 + (IF gs > e.start THEN 0 ELSE 1))
(* Mutant: the emptied entry does not go back to the pool. *)
CarveLeaks(d, i, gs, ge, owner) ==
    LET e       == d.list[i]
        left    == IF gs > e.start THEN [d.list EXCEPT ![i].end = gs - 1]
                   ELSE RemoveAt(d.list, i)
        carved  == list_insert(left, entry(gs, ge, owner))
    IN  IF ge < e.end
        THEN db(list_insert(carved, entry(ge + 1, e.end, FREE)), d.free - 2)
        ELSE db(carved, d.free - 1)

CarveNeeds(e, ge) == IF ge < e.end THEN 2 ELSE 1

(* carve: the grant becomes an entry of its own, what is left of e on      *)
(* either side stays free.  The caller has checked CarveNeeds.             *)
carve(d, i, gs, ge, owner) ==
    LET e       == d.list[i]
        left    == IF gs > e.start THEN [d.list EXCEPT ![i].end = gs - 1]
                   ELSE RemoveAt(d.list, i)
        carved  == list_insert(left, entry(gs, ge, owner))
        listed  == IF ge < e.end
                   THEN list_insert(carved, entry(ge + 1, e.end, FREE))
                   ELSE carved
    IN  db(listed, d.free - CarveNeeds(e, ge) + (IF gs > e.start THEN 0 ELSE 1))

-----------------------------------------------------------------------------
(* The requests.  A batch is processed in order; the fold carries the      *)
(* database, whether a request has failed, and the grants so far.          *)

now == db(s_class_head, pool)

Position(list, start, end, owner) ==
    SelectInSeq(list, LAMBDA e : e = entry(start, end, owner))

Init ==
    /\ s_class_head = FoldLeft(list_insert, <<>>, Seeds)
    /\ pool = PoolSize - Len(Seeds)
    /\ live = Pids

(* tm_rsrc_create: one range.  Out of pool entries, the rest of the batch  *)
(* is dropped and the ranges before it stay.                               *)
CreateOne(d, range, caller) ==
    IF d.free = 0 THEN d
    ELSE LET e    == entry(range.start, range.end, IF range.used THEN caller ELSE FREE)
             list == list_insert(d.list, e)
         IN  IF e.owner = FREE
             THEN merge_neighbours(db(list, d.free - 1), Position(list, e.start, e.end, FREE))
             ELSE db(list, d.free - 1)

Overlap(a, b) == a.start <= b.end /\ b.start <= a.end

(* The database does not compare a new range with those it has: keeping    *)
(* them apart is left to the drivers that register them.                   *)
Unregistered(batch) ==
    /\ \A i \in 1 .. Len(batch), k \in 1 .. Len(s_class_head) :
          ~Overlap(batch[i], s_class_head[k])
    /\ \A i, j \in 1 .. Len(batch) : Overlap(batch[i], batch[j]) => i = j

tm_rsrc_create(caller, batch) ==
    /\ Unregistered(batch)
    /\ LET after == FoldLeft(LAMBDA d, r : CreateOne(d, r, caller), now, batch)
       IN  s_class_head' = after.list /\ pool' = after.free
    /\ UNCHANGED live

(* tm_rsrc_destroy: the entry with exactly this range goes, whoever owns it. *)
DestroyOne(d, range) ==
    LET i == SelectInSeq(d.list, LAMBDA e : e.start = range.start /\ e.end = range.end)
    IN  IF i = 0 THEN d ELSE db(RemoveAt(d.list, i), d.free + 1)

tm_rsrc_destroy(caller, batch) ==
    /\ LET after == FoldLeft(DestroyOne, now, batch)
       IN  s_class_head' = after.list /\ pool' = after.free
    /\ UNCHANGED live

AttachOne(st, req, caller) ==
    LET i == find_fit(st.d.list, req)
    IN  IF ~st.ok THEN st
        ELSE IF i = 0 THEN [st EXCEPT !.ok = FALSE]
        ELSE LET e  == st.d.list[i]
                 gs == GrantStart(e, req)
                 ge == GrantEnd(e, req)
             IN  IF st.d.free < CarveNeeds(e, ge) THEN [st EXCEPT !.ok = FALSE]
                 ELSE [ok |-> TRUE, d |-> carve(st.d, i, gs, ge, caller),
                       granted |-> Append(st.granted, [start |-> gs, end |-> ge])]

(* Mutant: the rollback of a failed batch misses its last grant. *)
RollbackShort(d, granted, caller) ==
    FoldLeft(LAMBDA x, g : Release(x, Position(x.list, g.start, g.end, caller)),
             d, IF granted = <<>> THEN granted ELSE Front(granted))

Rollback(d, granted, caller) ==
    FoldLeft(LAMBDA x, g : Release(x, Position(x.list, g.start, g.end, caller)),
             d, granted)

(* What tm_rsrc_attach answers and leaves behind: all requests of the      *)
(* batch are granted, or the grants so far are rolled back.                *)
AttachResult(caller, batch) ==
    LET st == FoldLeft(LAMBDA s, r : AttachOne(s, r, caller),
                       [ok |-> TRUE, d |-> now, granted |-> <<>>], batch)
    IN  IF st.ok THEN st
        ELSE [ok |-> FALSE, d |-> Rollback(st.d, st.granted, caller), granted |-> <<>>]

tm_rsrc_attach(caller, batch) ==
    /\ LET after == AttachResult(caller, batch).d
       IN  s_class_head' = after.list /\ pool' = after.free
    /\ UNCHANGED live

(* tm_rsrc_detach of one range the caller owns; any other range is skipped. *)
tm_rsrc_detach(caller, i) ==
    /\ s_class_head[i].owner = caller
    /\ LET after == Release(now, i)
       IN  s_class_head' = after.list /\ pool' = after.free
    /\ UNCHANGED live

(* A process exits.  tm_process_terminate does not touch the database. *)
ProcessExit(pid) ==
    /\ live' = live \ {pid}
    /\ UNCHANGED <<s_class_head, pool>>

Next ==
    \/ \E c \in live, batch \in CreateSets : tm_rsrc_create(c, batch)
    \/ \E c \in live, batch \in CreateSets : tm_rsrc_destroy(c, batch)
    \/ \E c \in live, batch \in RequestSets : tm_rsrc_attach(c, batch)
    \/ \E c \in live, i \in 1 .. Len(s_class_head) : tm_rsrc_detach(c, i)
    \/ \E c \in live : ProcessExit(c)

Spec == Init /\ [][Next]_vars

(* The list is canonical: entries are well formed, sorted by start and     *)
(* disjoint, so an address has one owner, and no two free ranges lie side  *)
(* by side, so a request is never refused because free space was left      *)
(* fragmented.  This holds after any sequence of carves, merges and        *)
(* rollbacks (list_insert, carve, merge_neighbours).                       *)
ListCanonical ==
    /\ \A i \in 1 .. Len(s_class_head) :
          LET e == s_class_head[i]
          IN  e.start \in Word /\ e.end \in e.start .. (2^Width - 1)
              /\ e.owner \in Pids \cup {FREE}
    /\ \A i, j \in 1 .. Len(s_class_head) :
          i < j => s_class_head[i].end < s_class_head[j].start
    /\ \A i \in 1 .. Len(s_class_head) - 1 :
          ~ /\ s_class_head[i].owner = FREE
            /\ s_class_head[i + 1].owner = FREE
            /\ s_class_head[i + 1].start = s_class_head[i].end + 1

(* No pool entry is lost or counted twice by carve's and the merges'       *)
(* bookkeeping, whatever path a request leaves by.                         *)
PoolConserved == pool + Len(s_class_head) = PoolSize

Covered(list, a) == \E i \in 1 .. Len(list) : a \in list[i].start .. list[i].end
OwnedBy(list, a, o) ==
    \E i \in 1 .. Len(list) : a \in list[i].start .. list[i].end /\ list[i].owner = o

(* Whatever a process asks for in a reachable state, a grant meets its     *)
(* request: it is within the requested range, aligned, of the requested    *)
(* length, and was free before.                                            *)
GrantMeetsRequest ==
    \A c \in live, batch \in RequestSets :
       LET granted == AttachResult(c, batch).granted
       IN  \A i \in 1 .. Len(granted) :
             /\ granted[i].start % batch[i].align = 0
             /\ granted[i].end - granted[i].start + 1 = MaxOf(batch[i].length, 1)
             /\ batch[i].range => /\ batch[i].start <= granted[i].start
                                  /\ granted[i].end <= batch[i].end
             /\ \A a \in granted[i].start .. granted[i].end :
                   OwnedBy(s_class_head, a, FREE)

(* A refused attach changes nothing: the grants made before the request    *)
(* that failed, for want of a range or of a pool entry, are undone, and    *)
(* the list is the one it was.                                             *)
RefusalChangesNothing ==
    \A c \in live, batch \in RequestSets :
       LET r == AttachResult(c, batch) IN ~r.ok => r.d = now

(* Attach and detach move addresses between owners and never lose one:     *)
(* only destroy takes an address out of the database.                      *)
NoAddressLost ==
    [][\/ \E c \in live, b \in CreateSets : tm_rsrc_destroy(c, b)
       \/ \A a \in Word : Covered(s_class_head, a) => Covered(s_class_head', a)]_vars

(* "Process-exit hook: release every entry owned by this pid": a process   *)
(* that has exited owns nothing.                                           *)
ExitedOwnsNothing ==
    \A i \in 1 .. Len(s_class_head) : s_class_head[i].owner \in live \cup {FREE}
=============================================================================
