------------------------------ MODULE Replies ------------------------------
(***************************************************************************)
(* Client threads and the reply objects taskman parks for them             *)
(* (taskman/proc/process.c, functions tm_reply_park and tm_reply_deliver). *)
(*                                                                         *)
(* A thread that sends a TM_REQ_* request is blocked until taskman         *)
(* replies.  A handler that cannot answer yet (waitpid, nanosleep) moves   *)
(* the active reply object into a stash slot of taskman's CNode; a later   *)
(* handler sends to that slot, deletes the object and recycles the slot.   *)
(* taskman is one thread, so a handler is atomic, and a request that is    *)
(* answered at once never shows its blocked state between two steps.       *)
(***************************************************************************)
EXTENDS Naturals

CONSTANTS MaxProcesses,  \* TM_MAX_PROCESSES
          Threads,       \* names of the threads a process may have
          Main,          \* the one a spawn starts
          ReplySlots     \* slots of taskman's CNode a reply can be stashed in

ASSUME MaxProcessesAssumption == MaxProcesses \in Nat /\ MaxProcesses >= 3
ASSUME MainAssumption == Main \in Threads
ASSUME ReplySlotsAssumption == ReplySlots \subseteq Nat \ {0}

VARIABLES alive,    \* threads that exist, as <<pid, thread>>
          halted,   \* threads whose request was consumed and never answered
          stash,    \* slots that hold a reply object
          waiting   \* the thread a stashed object would unblock, if it lives

replyVars == <<alive, halted, stash, waiting>>

Pids == 1 .. (MaxProcesses - 1)
QSOE_PID_TASKMAN == 1
Callers == Pids \X Threads
ThreadsOf(pid) == {c \in Callers : c[1] = pid}
Blocked == UNION {waiting[s] : s \in ReplySlots}
Running == (alive \ halted) \ Blocked

RepliesTypeOK ==
    /\ alive \subseteq Callers
    /\ halted \subseteq alive
    /\ stash \subseteq ReplySlots
    /\ waiting \in [ReplySlots -> SUBSET alive]

(* tm_reply_park: the caller's reply object moves to an unused slot. *)
tm_reply_park(c, slot) ==
    /\ slot \in ReplySlots \ stash
    /\ stash' = stash \cup {slot}
    /\ waiting' = [waiting EXCEPT ![slot] = {c}]

(* tm_reply_deliver of a set of slots (none for slot 0): the object is     *)
(* sent to, deleted, and the slot recycled.                                *)
tm_reply_deliver(slots) ==
    /\ stash' = stash \ slots
    /\ waiting' = [s \in ReplySlots |-> IF s \in slots THEN {} ELSE waiting[s]]

(* Deleting or suspending TCBs cancels their IPC: a stashed object of      *)
(* theirs unblocks nobody any more, but stays in its slot.                 *)
DeliverAndKill(slots, dead) ==
    /\ stash' = stash \ slots
    /\ waiting' = [s \in ReplySlots |->
                     IF s \in slots THEN {} ELSE waiting[s] \ dead]
    /\ alive' = alive \ dead
    /\ halted' = halted \ dead
=============================================================================
