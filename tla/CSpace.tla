------------------------------- MODULE CSpace -------------------------------
(***************************************************************************)
(* Taskman's own capability space and the memory behind it                 *)
(* (taskman/proc/process.c): the root CNode's slots with their free list,  *)
(* the RAM untypeds, the per-process blocks (pp_ut) carved from them, and  *)
(* taskman_alloc_and_retype, through which every kernel object is made.    *)
(*                                                                         *)
(* The whole of it is one record c, and an operation is an operator from a *)
(* record to a record, so that a handler is a chain of them:               *)
(*   next    s_next_slot                 free    s_slot_free_list          *)
(*   pfree   s_pput_free                 cursor  s_ram_ut_cursor           *)
(*   ram     blocks left in each RAM untyped (kept by the kernel)          *)
(*   master  objects retyped from s_untyped (kept by the kernel)           *)
(*   cap     the capability in each slot (kept by the kernel)              *)
(* Every object takes one unit of its untyped; a block has BlockUnits.     *)
(***************************************************************************)
EXTENDS Integers, Sequences, FiniteSets, SequencesExt, FiniteSetsExt

CONSTANTS NumSlots,      \* slots of the root CNode left at boot
          SlotFreeMax,   \* TM_SLOT_FREE_LIST_MAX
          PputFreeMax,   \* TM_PP_UT_FREE_MAX
          PputPerProc,   \* TM_PP_UT_PER_PROC
          RamUts,        \* for each RAM untyped, the blocks it holds
          BlockUnits,    \* objects a block holds
          MasterUnits    \* objects the master untyped holds

ASSUME CSpaceAssumption ==
    /\ NumSlots \in Nat /\ SlotFreeMax \in Nat /\ PputFreeMax \in Nat
    /\ PputPerProc \in Nat \ {0} /\ BlockUnits \in Nat \ {0}
    /\ MasterUnits \in Nat /\ RamUts \in Seq(Nat)

Slots == 1 .. NumSlots

(* s_next_slot has no limit of its own: past the CNode it names slots that *)
(* do not exist, which NoSuchSlot stands for.                              *)
NoSuchSlot == NumSlots + 1

(* A capability: kind of object, the slot of the untyped it was retyped    *)
(* from (0: master pool, device or endpoint), and a number: the units used *)
(* of an untyped, the physical address of a device frame.                  *)
NoCap == [kind |-> "none", par |-> 0, n |-> 0]
ACap(kind, par, n) == [kind |-> kind, par |-> par, n |-> n]

InitCSpace == [next |-> 1, free |-> <<>>, pfree |-> <<>>, ram |-> RamUts,
               cursor |-> 1, master |-> 0, cap |-> [s \in Slots |-> NoCap]]

-----------------------------------------------------------------------------
(* The kernel: what an invocation on a slot does. *)

Usable(c, s) == s \in Slots /\ c.cap[s] = NoCap
Children(c, ut) == {s \in Slots : c.cap[s].kind # "none" /\ c.cap[s].par = ut}

Delete(c, s) == IF s \in Slots THEN [c EXCEPT !.cap[s] = NoCap] ELSE c

(* An untyped without children starts again from its first byte. *)
Units(c, ut) == IF Children(c, ut) = {} THEN 0 ELSE c.cap[ut].n

CanRetype(c, ut, s) ==
    /\ Usable(c, s)
    /\ IF ut = 0 THEN c.master < MasterUnits ELSE Units(c, ut) < BlockUnits

Retype(c, ut, kind, s) ==
    IF ut = 0
    THEN [c EXCEPT !.cap[s] = ACap(kind, 0, 0), !.master = @ + 1]
    ELSE [c EXCEPT !.cap[s] = ACap(kind, ut, 0), !.cap[ut].n = Units(c, ut) + 1]

(* CNode_Revoke: every object made from the block dies. *)
Revoke(c, ut) ==
    [c EXCEPT !.cap = [s \in Slots |->
        IF s \in Children(c, ut) THEN NoCap
        ELSE IF s = ut THEN ACap("ut", 0, 0) ELSE c.cap[s]]]

-----------------------------------------------------------------------------
(* taskman_free_slot: a full list drops the slot. *)
taskman_free_slot(c, s) ==
    IF s # 0 /\ Len(c.free) < SlotFreeMax
    THEN [c EXCEPT !.free = Append(@, s)] ELSE c

FreeSlots(c, seq) == FoldLeft(taskman_free_slot, c, seq)

(* CNode_Delete followed by taskman_free_slot. *)
DeleteAndFree(c, s) == taskman_free_slot(Delete(c, s), s)
DeleteAndFreeAll(c, seq) == FoldLeft(DeleteAndFree, c, seq)

(* taskman_alloc_empty_slot *)
taskman_alloc_empty_slot(c) ==
    IF c.free # <<>>
    THEN [cs |-> [c EXCEPT !.free = Front(@)], slot |-> Last(c.free)]
    ELSE [cs |-> [c EXCEPT !.next = Min({@ + 1, NoSuchSlot})], slot |-> c.next]

(* A fresh block from RAM.  A retype that fails moves the cursor on,       *)
(* whatever the reason: the untyped is full, or the slot cannot be used.   *)
CarveBlock(c) ==
    LET a == taskman_alloc_empty_slot(c)
        room == IF Usable(a.cs, a.slot)
                THEN {i \in c.cursor .. Len(RamUts) : c.ram[i] > 0} ELSE {}
        i == Min(room)
    IN IF c.cursor > Len(RamUts) THEN [cs |-> c, slot |-> 0]
       ELSE IF room = {}
       THEN [cs |-> taskman_free_slot([a.cs EXCEPT !.cursor = Len(RamUts) + 1], a.slot),
             slot |-> 0]
       ELSE [cs |-> [a.cs EXCEPT !.cursor = i, !.ram[i] = @ - 1,
                                 !.cap[a.slot] = ACap("ut", 0, 0)],
             slot |-> a.slot]

(* Mutant: the block stays on the free list. *)
AcquireUnpopped(c) ==
    IF c.pfree # <<>> THEN [cs |-> c, slot |-> Last(c.pfree)] ELSE CarveBlock(c)

(* pp_ut_acquire: a block given back before, else a fresh one. *)
pp_ut_acquire(c) ==
    IF c.pfree # <<>>
    THEN [cs |-> [c EXCEPT !.pfree = Front(@)], slot |-> Last(c.pfree)]
    ELSE CarveBlock(c)

(* Mutant: the block is put back with its objects still in it. *)
ReleaseUnrevoked(c, ut) ==
    IF Len(c.pfree) < PputFreeMax THEN [c EXCEPT !.pfree = Append(@, ut)]
    ELSE DeleteAndFree(c, ut)

(* pp_ut_release: revoke, then keep the block or, with the list full, drop *)
(* it.                                                                     *)
pp_ut_release(c, ut) ==
    LET r == Revoke(c, ut) IN
    IF Len(c.pfree) < PputFreeMax THEN [r EXCEPT !.pfree = Append(@, ut)]
    ELSE DeleteAndFree(r, ut)

tm_pput_release_list(c, pput) == FoldLeft(pp_ut_release, c, pput)

(* taskman_alloc_and_retype under the context of the block list pput: its  *)
(* last block (tm_pput_proc_begin, tm_pput_spawn_begin), or the master     *)
(* pool when the list is empty.  A failed retype takes one more block and  *)
(* tries again, whatever the reason of the failure.                        *)
taskman_alloc_and_retype(c, pput, kind) ==
    LET a == taskman_alloc_empty_slot(c)
        ut == IF pput = <<>> THEN 0 ELSE Last(pput)
        g == pp_ut_acquire(a.cs)
    IN IF CanRetype(a.cs, ut, a.slot)
       THEN [cs |-> Retype(a.cs, ut, kind, a.slot), pput |-> pput, slot |-> a.slot]
       ELSE IF ut = 0 \/ Len(pput) >= PputPerProc
       THEN [cs |-> taskman_free_slot(a.cs, a.slot), pput |-> pput, slot |-> 0]
       ELSE IF g.slot = 0
       THEN [cs |-> taskman_free_slot(g.cs, a.slot), pput |-> pput, slot |-> 0]
       ELSE IF CanRetype(g.cs, g.slot, a.slot)
       THEN [cs |-> Retype(g.cs, g.slot, kind, a.slot),
             pput |-> Append(pput, g.slot), slot |-> a.slot]
       ELSE [cs |-> taskman_free_slot(g.cs, a.slot),
             pput |-> Append(pput, g.slot), slot |-> 0]

-----------------------------------------------------------------------------
(* A slot that may be handed out next, from the free list or past the      *)
(* bump pointer, is empty; and no slot is on the free list twice.          *)
FreeSlotsAreEmpty(c) ==
    /\ \A s \in Slots : s \in Range(c.free) \/ s >= c.next => c.cap[s] = NoCap
    /\ \A i, j \in DOMAIN c.free :
          c.free[i] = c.free[j] /\ c.free[i] \in Slots => i = j

(* A block that may be handed out next is an untyped without children. *)
FreeBlocksAreClean(c) ==
    /\ \A i \in DOMAIN c.pfree : /\ c.cap[c.pfree[i]].kind = "ut"
                                 /\ Children(c, c.pfree[i]) = {}
    /\ IsInjective(c.pfree)
=============================================================================
