----------------------------- MODULE ProcLife -----------------------------
(***************************************************************************)
(* What taskman's process table promises, by pid and without the table,    *)
(* the free list and the stash slots: a pid is free, then live, then a     *)
(* daemon or a zombie or free again; a waiter is released exactly when its *)
(* child detaches or exits, or when the waiter itself dies; a zombie keeps *)
(* its status until its parent collects it.                                *)
(***************************************************************************)
CONSTANTS Pids, Callers, AllStatuses

VARIABLES life,     \* pid -> stage of life
          parent,   \* pid -> pid that may wait for it (0 when free)
          code,     \* pid -> exit status of a zombie (0 otherwise)
          waiters   \* pid -> threads blocked until it detaches or exits

lifeVars == <<life, parent, code, waiters>>

Taskman == 1
FirstProcess == 2

Init ==
    /\ life = [p \in Pids |-> IF p \in {Taskman, FirstProcess} THEN "live" ELSE "free"]
    /\ parent = [p \in Pids |-> IF p \in {Taskman, FirstProcess} THEN Taskman ELSE 0]
    /\ code = [p \in Pids |-> 0]
    /\ waiters = [p \in Pids |-> {}]

Spawn(p, by) ==
    /\ life[p] = "free"
    /\ life' = [life EXCEPT ![p] = "live"]
    /\ parent' = [parent EXCEPT ![p] = by]
    /\ UNCHANGED <<code, waiters>>

Detach(p) ==
    /\ life[p] = "live"
    /\ life' = [life EXCEPT ![p] = "daemon"]
    /\ parent' = [parent EXCEPT ![p] = Taskman]
    /\ waiters' = [waiters EXCEPT ![p] = {}]
    /\ UNCHANGED code

(* The exit of p releases its waiters; p's own threads wait for nobody.    *)
ReleasedBy(p) == [q \in Pids |-> IF q = p THEN {}
                                 ELSE {c \in waiters[q] : c[1] # p}]

ExitToZombie(p, status) ==
    /\ life[p] = "live"
    /\ waiters[p] = {}
    /\ life' = [life EXCEPT ![p] = "zombie"]
    /\ code' = [code EXCEPT ![p] = status]
    /\ waiters' = ReleasedBy(p)
    /\ UNCHANGED parent

ExitToFree(p) ==
    /\ life[p] = "live"
    /\ life' = [life EXCEPT ![p] = "free"]
    /\ parent' = [parent EXCEPT ![p] = 0]
    /\ waiters' = ReleasedBy(p)
    /\ UNCHANGED code

Reap(p) ==
    /\ life[p] = "zombie"
    /\ life' = [life EXCEPT ![p] = "free"]
    /\ parent' = [parent EXCEPT ![p] = 0]
    /\ code' = [code EXCEPT ![p] = 0]
    /\ UNCHANGED waiters

Wait(c, p) ==
    /\ life[p] = "live"
    /\ parent[p] = c[1]
    /\ waiters[p] = {}
    /\ \A q \in Pids : c \notin waiters[q]
    /\ waiters' = [waiters EXCEPT ![p] = {c}]
    /\ UNCHANGED <<life, parent, code>>

GiveUp(c) ==
    /\ waiters' = [q \in Pids |-> waiters[q] \ {c}]
    /\ UNCHANGED <<life, parent, code>>

Next ==
    \/ \E p, by \in Pids : Spawn(p, by)
    \/ \E p \in Pids \ {Taskman} :
         \/ Detach(p)
         \/ \E status \in AllStatuses : ExitToZombie(p, status)
         \/ ExitToFree(p)
         \/ Reap(p)
    \/ \E c \in Callers :
         \/ \E p \in Pids \ {Taskman} : Wait(c, p)
         \/ GiveUp(c)

Spec == Init /\ [][Next]_lifeVars
=============================================================================
