---------------------------- MODULE SleepProofs -----------------------------
(***************************************************************************)
(* Sleeping and waking: no thread that parks in sync_wait_impl is lost,    *)
(* and ThreadJoin on a thread that never parks waits for its end, for any  *)
(* number of threads, objects and client programs.                         *)
(***************************************************************************)
EXTENDS SyncProofs

Park == {"lk_park", "cw_park", "sw_park"}
Blocked == {"lk_blocked", "cw_blocked", "sw_blocked"}
Asleep == Park \cup Blocked
Still == Asleep \cup {"jn_blocked", "exited"}

Waiters(a) == g_sync[a].waiters

(* The call a thread is in, by its label. *)
CallAt(t, l) ==
    /\ l \in {"lk_load", "lk_try", "lk_wait", "lk_park", "lk_blocked", "lk_clean"}
       => Does(t, "lock") \/ Does(t, "condwait")
    /\ l \in {"ul", "ul_wake"} => Does(t, "unlock") \/ Does(t, "condwait")
    /\ l \in {"cw_wait", "cw_park", "cw_blocked", "cw_clean"} => Does(t, "condwait")
    /\ l \in {"sw_load", "sw_try"} => Does(t, "semwait") \/ Does(t, "trywait")
    /\ l \in {"sw_wait", "sw_park", "sw_blocked", "sw_clean"} => Does(t, "semwait")
    /\ l = "sg_wake" => Does(t, "signal") \/ Does(t, "broadcast")
    /\ l = "sp_wake" => Does(t, "post")
    /\ l = "jn_blocked" => Does(t, "join")
Calling == \A t \in Threads : CallAt(t, pc[t])

(* An entry that is not in use has no waiters. *)
EntryOK(e) == e \in Entry /\ (~e.in_use => e.waiters = <<>>)
SleepTypes ==
    /\ g_sync \in [Objects -> Entry]
    /\ \A a \in Objects : EntryOK(g_sync[a])
    /\ pending \in [Threads -> BOOLEAN]
    /\ queue \in [Threads -> Seq(Threads)]

(* Who is in a waiter list sleeps at its address, and is there once. *)
ListNamed ==
    \A a \in Objects, u \in Threads : \A i \in 1 .. Len(Waiters(a)) :
       Waiters(a)[i] = u => pc[u] \in Asleep /\ WaitAddr(u) = a
ListOnce ==
    \A a \in Objects : \A i, j \in 1 .. Len(Waiters(a)) :
       Waiters(a)[i] = Waiters(a)[j] => i = j

(* Who is blocked on a Notification is its own thread, in a Sync wait, or  *)
(* one that joins it, and is there once.                                   *)
BlockedOn(u, n) ==
    \/ u = n /\ pc[u] \in Blocked
    \/ pc[u] = "jn_blocked" /\ Op(u)[2] = n
QueueNamed ==
    \A n, u \in Threads : \A i \in 1 .. Len(queue[n]) :
       queue[n][i] = u => BlockedOn(u, n)
QueueOnce ==
    \A n \in Threads : \A i, j \in 1 .. Len(queue[n]) :
       queue[n][i] = queue[n][j] => i = j
BlockedQueued ==
    \A t \in Threads :
       pc[t] \in Blocked => \E i \in 1 .. Len(queue[t]) : queue[t][i] = t

(* A pending bit is an exit, or a wake for a thread about to block. *)
PendingMeans ==
    \A n \in Threads : pending[n] => pc[n] = "exited" \/ (pc[n] \in Park /\ ~Queued(n))

Sleepers == /\ ListNamed /\ ListOnce /\ QueueNamed /\ QueueOnce
            /\ BlockedQueued /\ PendingMeans

SleepInv == /\ Types /\ Calling /\ SleepTypes
            /\ Sleepers /\ JoinAfterQuietExit

-----------------------------------------------------------------------------
(* Entries of the table. *)

LEMMA RetiredEntry ==
    ASSUME NEW e, EntryOK(e)
    PROVE  EntryOK(retire_if_idle(e)) /\ retire_if_idle(e).waiters = e.waiters
BY DEF EntryOK, Entry, retire_if_idle, NoEntry

LEMMA CreditedEntry ==
    ASSUME NEW e, EntryOK(e), e.credit > 0
    PROVE  LET f == [e EXCEPT !.credit = e.credit - 1] IN
           EntryOK(f) /\ f.waiters = e.waiters
BY DEF EntryOK, Entry

LEMMA NewEntry ==
    ASSUME NEW e, EntryOK(e), NEW c \in {0, 1}, NEW g \in Nat, NEW ws \in Seq(Threads)
    PROVE  LET f == [in_use |-> TRUE, credit |-> c, gen |-> g, waiters |-> ws] IN
           EntryOK(f) /\ f.waiters = ws
BY DEF EntryOK, Entry

LEMMA SubSeqFacts ==
    ASSUME NEW s \in Seq(Threads), NEW k \in 0 .. Len(s)
    PROVE  LET r == SubSeq(s, k + 1, Len(s)) IN
           /\ r \in Seq(Threads)
           /\ Len(r) = Len(s) - k
           /\ \A i \in 1 .. Len(r) : r[i] = s[k + i]
OBVIOUS

LEMMA RemoveAbsent ==
    ASSUME NEW s, NEW t, \A i \in 1 .. Len(s) : s[i] # t
    PROVE  remove_waiter(s, t) = s
BY Zenon DEF remove_waiter

LEMMA ListElements ==
    ASSUME SleepTypes
    PROVE  /\ \A a \in Objects : Waiters(a) \in Seq(Threads)
           /\ \A a \in Objects : \A i \in 1 .. Len(Waiters(a)) : Waiters(a)[i] \in Threads
           /\ \A n \in Threads : \A i \in 1 .. Len(queue[n]) : queue[n][i] \in Threads
BY DEF SleepTypes, Waiters, Entry

-----------------------------------------------------------------------------
(* The shapes a step of t can have, as far as sleeping is concerned. *)

Alone(t) ==
    /\ program' = program
    /\ \A u \in Threads \ {t} : pc'[u] = pc[u] /\ ip'[u] = ip[u]
SameLists == \A a \in Objects : Waiters(a)' = Waiters(a)

(* Nothing that concerns sleepers. *)
Idle(t) ==
    /\ Alone(t) /\ SameLists /\ UNCHANGED kernel
    /\ pc[t] \notin Still /\ pc'[t] \notin Still
    /\ pc'[t] = "ret" => ip'[t] = ip[t] /\ ~Does(t, "join")

(* t enters the list of a. *)
Enter(t, a) ==
    /\ Alone(t) /\ ip' = ip /\ UNCHANGED kernel
    /\ pc[t] \notin Still /\ pc'[t] \in Park
    /\ WaitAddr(t)' = a
    /\ Waiters(a)' = Append(Waiters(a), t)
    /\ \A b \in Objects \ {a} : Waiters(b)' = Waiters(b)

(* t, in a list, takes its pending wake or blocks. *)
Settle(t) ==
    /\ Alone(t) /\ ip' = ip /\ SameLists
    /\ pc[t] \in Park
    /\ \/ /\ pending[t] /\ pending' = [pending EXCEPT ![t] = FALSE]
          /\ queue' = queue
          /\ pc'[t] \notin Still \cup {"ret"}
       \/ /\ ~pending[t] /\ queue' = [queue EXCEPT ![t] = Append(@, t)]
          /\ pending' = pending
          /\ pc'[t] \in Blocked /\ WaitAddr(t)' = WaitAddr(t)

(* t joins n. *)
Join(t, n) ==
    /\ Alone(t) /\ ip' = ip /\ SameLists
    /\ pc[t] = "call" /\ n = Op(t)[2]
    /\ \/ /\ pending[n] /\ pending' = [pending EXCEPT ![n] = FALSE]
          /\ queue' = queue
          /\ pc'[t] = "ret"
       \/ /\ ~pending[n] /\ queue' = [queue EXCEPT ![n] = Append(@, t)]
          /\ pending' = pending
          /\ pc'[t] = "jn_blocked"

(* t signals the first k waiters of a. *)
Popped(a, k) == {Waiters(a)[i] : i \in 1 .. k}
Wake(t, a, k) ==
    /\ program' = program /\ ip' = ip
    /\ pc[t] \notin Still /\ ~Does(t, "join")
    /\ k \in 0 .. Len(Waiters(a))
    /\ \E l \in {"ret", "cw_wait"} : SignalAll(Popped(a, k), t, l)
    /\ Waiters(a)' = SubSeq(Waiters(a), k + 1, Len(Waiters(a)))
    /\ \A b \in Objects \ {a} : Waiters(b)' = Waiters(b)

Exit(t) ==
    /\ program' = program /\ ip' = ip /\ SameLists
    /\ pc[t] = "call"
    /\ SignalAll({t}, t, "exited")

(* A thread whose control does not move stands where it stood. *)
LEMMA Frozen ==
    ASSUME NEW u, program' = program, ip'[u] = ip[u]
    PROVE  /\ Op(u)' = Op(u)
           /\ Mtx(u)' = Mtx(u)
           /\ \A x : Does(u, x)' <=> Does(u, x)
           /\ pc'[u] = pc[u] => WaitAddr(u)' = WaitAddr(u)
           /\ pc'[u] = pc[u] => \A n : BlockedOn(u, n)' <=> BlockedOn(u, n)
BY Zenon DEF Op, Mtx, Does, WaitAddr, BlockedOn

LEMMA SameParks ==
    ASSUME program' = program
    PROVE  \A u \in Threads : Parks(u)' <=> Parks(u)
BY Zenon DEF Parks, Lockers, SemWaiters, Performs

-----------------------------------------------------------------------------
(* Lists and queues that keep their elements, none of which moves. *)

LEMMA SameListed ==
    ASSUME ListNamed, ListOnce, NEW t \in Threads, Alone(t), SameLists,
           \A a \in Objects : \A i \in 1 .. Len(Waiters(a)) :
              Waiters(a)[i] = t => pc'[t] \in Asleep /\ WaitAddr(t)' = a
    PROVE  ListNamed' /\ ListOnce'
<1>1. ASSUME NEW a \in Objects, NEW u \in Threads, NEW i \in 1 .. Len(Waiters(a)),
             Waiters(a)[i] = u
      PROVE  pc'[u] \in Asleep /\ WaitAddr(u)' = a
  <2>1. pc[u] \in Asleep /\ WaitAddr(u) = a
    BY <1>1, Zenon DEF ListNamed
  <2>2. CASE u # t
    <3>1. pc'[u] = pc[u] /\ ip'[u] = ip[u] /\ program' = program
      BY <2>2, Zenon DEF Alone
    <3> QED
      BY <2>1, <3>1, Frozen, Zenon
  <2> QED
    BY <1>1, <2>2, Zenon
<1>2. ListNamed'
  BY <1>1, Zenon DEF ListNamed, SameLists
<1>3. ListOnce'
  BY Zenon DEF ListOnce, SameLists
<1> QED
  BY <1>2, <1>3, Zenon

LEMMA SameQueued ==
    ASSUME QueueNamed, QueueOnce, BlockedQueued, NEW t \in Threads, Alone(t),
           queue' = queue, pc[t] \notin Blocked \cup {"jn_blocked"}, pc'[t] \notin Blocked
    PROVE  QueueNamed' /\ QueueOnce' /\ BlockedQueued'
<1>1. ASSUME NEW n \in Threads, NEW u \in Threads, NEW i \in 1 .. Len(queue[n]),
             queue[n][i] = u
      PROVE  BlockedOn(u, n)'
  <2>1. BlockedOn(u, n)
    BY <1>1, Zenon DEF QueueNamed
  <2>2. u # t
    BY <2>1, Zenon DEF BlockedOn
  <2> QED
    BY <2>1, <2>2, Frozen, Zenon DEF Alone
<1>2. QueueNamed'
  BY <1>1, Zenon DEF QueueNamed
<1>3. QueueOnce'
  BY Zenon DEF QueueOnce
<1>4. BlockedQueued'
  BY Zenon DEF BlockedQueued, Alone
<1> QED
  BY <1>2, <1>3, <1>4, Zenon

(* Whether a sleeper is in its list, seen from a step that moves neither. *)
LEMMA QueuedSame ==
    ASSUME NEW u \in Threads, program' = program, ip'[u] = ip[u], pc'[u] = pc[u],
           WaitAddr(u) \in Objects, SameLists
    PROVE  Queued(u)' <=> Queued(u)
<1>1. WaitAddr(u)' = WaitAddr(u)
  BY Frozen, Zenon
<1>2. g_sync'[WaitAddr(u)].waiters = g_sync[WaitAddr(u)].waiters
  BY Zenon DEF SameLists, Waiters
<1> QED
  BY <1>1, <1>2, Zenon DEF Queued

(* The address a sleeper waits on is one of the objects, and the client    *)
(* program of a sleeper is one that parks.                                 *)
LEMMA SleeperFacts ==
    ASSUME Types, Calling, NEW t \in Threads, pc[t] \in Asleep
    PROVE  WaitAddr(t) \in Objects /\ Parks(t)
<1>1. CallAt(t, pc[t])
  BY Zenon DEF Calling
<1>2. /\ Does(t, "lock") \/ Does(t, "condwait") \/ Does(t, "semwait")
      /\ pc[t] \in {"lk_park", "lk_blocked"} => Does(t, "lock") \/ Does(t, "condwait")
      /\ pc[t] \notin {"lk_park", "lk_blocked"} => Does(t, "condwait") \/ Does(t, "semwait")
  BY <1>1, Zenon DEF CallAt, Asleep, Park, Blocked
<1>3. WaitAddr(t) \in Objects
  BY <1>2, OpFacts, Zenon DEF WaitAddr, Objects
<1>4. ip[t] \in 1 .. Len(program[t]) /\ Op(t) \in Operations
  BY <1>2, OpIsOperation, Zenon DEF Does
<1>5. CASE Does(t, "lock")
  <2>1. Op(t) = <<"lock", Op(t)[2]>> /\ Op(t)[2] \in Mutexes
    BY <1>4, <1>5, OperationForms, Zenon DEF Does
  <2>2. t \in Lockers(Op(t)[2])
    BY <1>4, <2>1, Zenon DEF Lockers, Performs, Op
  <2> QED
    BY <1>3, <2>1, <2>2, Zenon DEF Parks
<1>6. CASE Does(t, "condwait")
  <2>1. Op(t) = <<"condwait", Op(t)[2], Op(t)[3]>> /\ Op(t)[2] \in Conds /\ Op(t)[3] \in Mutexes
    BY <1>4, <1>6, OperationForms, Zenon DEF Does
  <2>2. t \in Lockers(Op(t)[3])
    BY <1>4, <2>1, Zenon DEF Lockers, Performs, Op
  <2> QED
    BY <1>3, <2>1, <2>2, Zenon DEF Parks
<1>7. CASE Does(t, "semwait")
  <2>1. Op(t) = <<"semwait", Op(t)[2]>> /\ Op(t)[2] \in Sems
    BY <1>4, <1>7, OperationForms, Zenon DEF Does
  <2>2. t \in SemWaiters(Op(t)[2])
    BY <1>4, <2>1, Zenon DEF SemWaiters, Performs, Op
  <2> QED
    BY <1>3, <2>1, <2>2, Zenon DEF Parks
<1> QED
  BY <1>2, <1>5, <1>6, <1>7, Zenon

(* t goes to the end of the queue of n. *)
LEMMA QueueAppend ==
    ASSUME SleepTypes, QueueNamed, QueueOnce, BlockedQueued,
           NEW t \in Threads, NEW n \in Threads, Alone(t),
           queue' = [queue EXCEPT ![n] = Append(@, t)],
           pc[t] \notin Blocked \cup {"jn_blocked"},
           BlockedOn(t, n)', pc'[t] \in Blocked => n = t
    PROVE  QueueNamed' /\ QueueOnce' /\ BlockedQueued'
<1>1. /\ \A m \in Threads : \A i \in 1 .. Len(queue'[m]) :
              \/ i \in 1 .. Len(queue[m]) /\ queue'[m][i] = queue[m][i]
              \/ m = n /\ i = Len(queue[n]) + 1 /\ queue'[m][i] = t
      /\ \A m \in Threads : \A i \in 1 .. Len(queue[m]) :
              i \in 1 .. Len(queue'[m]) /\ queue'[m][i] = queue[m][i]
      /\ \E i \in 1 .. Len(queue'[n]) : queue'[n][i] = t
  <2>1. /\ queue'[n] = Append(queue[n], t) /\ queue[n] \in Seq(Threads)
        /\ \A m \in Threads \ {n} : queue'[m] = queue[m]
    BY Zenon DEF SleepTypes
  <2>2. /\ \A i \in 1 .. Len(queue'[n]) :
              \/ i \in 1 .. Len(queue[n]) /\ queue'[n][i] = queue[n][i]
              \/ i = Len(queue[n]) + 1 /\ queue'[n][i] = t
        /\ \A i \in 1 .. Len(queue[n]) :
              i \in 1 .. Len(queue'[n]) /\ queue'[n][i] = queue[n][i]
        /\ Len(queue[n]) + 1 \in 1 .. Len(queue'[n]) /\ queue'[n][Len(queue[n]) + 1] = t
    BY <2>1
  <2> QED
    BY <2>1, <2>2
<1>2. ASSUME NEW m \in Threads, NEW i \in 1 .. Len(queue[m]), queue[m][i] = t
      PROVE  FALSE
  <2>1. BlockedOn(t, m)
    BY <1>2, Zenon DEF QueueNamed
  <2> QED
    BY <2>1, Zenon DEF BlockedOn
<1>3. ASSUME NEW m \in Threads, NEW u \in Threads, NEW i \in 1 .. Len(queue[m]),
             queue[m][i] = u
      PROVE  BlockedOn(u, m)'
  <2>1. BlockedOn(u, m) /\ u # t
    BY <1>2, <1>3, Zenon DEF QueueNamed
  <2> QED
    BY <2>1, Frozen, Zenon DEF Alone
<1>4. QueueNamed'
  <2> SUFFICES ASSUME NEW m \in Threads, NEW u \in Threads, NEW i \in 1 .. Len(queue'[m]),
                      queue'[m][i] = u
               PROVE  BlockedOn(u, m)'
    BY Zenon DEF QueueNamed
  <2> QED
    BY <1>1, <1>3
<1>5. QueueOnce'
  <2> SUFFICES ASSUME NEW m \in Threads, NEW i \in 1 .. Len(queue'[m]),
                      NEW j \in 1 .. Len(queue'[m]), queue'[m][i] = queue'[m][j]
               PROVE  i = j
    BY Zenon DEF QueueOnce
  <2> QED
    BY <1>1, <1>2 DEF QueueOnce
<1>6. BlockedQueued'
  <2> SUFFICES ASSUME NEW u \in Threads, pc'[u] \in Blocked
               PROVE  \E i \in 1 .. Len(queue'[u]) : queue'[u][i] = u
    BY Zenon DEF BlockedQueued
  <2>1. CASE u = t
    BY <1>1, <2>1, Zenon
  <2>2. CASE u # t
    <3>1. PICK i \in 1 .. Len(queue[u]) : queue[u][i] = u
      BY <2>2, Zenon DEF BlockedQueued, Alone
    <3> QED
      BY <1>1, <3>1
  <2> QED
    BY <2>1, <2>2, Zenon
<1> QED
  BY <1>4, <1>5, <1>6, Zenon

(* What a pending bit of another thread means stays true. *)
LEMMA StillMeant ==
    ASSUME Types, Calling, NEW t \in Threads, NEW n \in Threads \ {t}, Alone(t), SameLists,
           pc[n] = "exited" \/ (pc[n] \in Park /\ ~Queued(n))
    PROVE  pc'[n] = "exited" \/ (pc'[n] \in Park /\ ~Queued(n)')
<1>1. pc'[n] = pc[n] /\ ip'[n] = ip[n] /\ program' = program
  BY Zenon DEF Alone
<1>2. pc[n] \in Park => WaitAddr(n) \in Objects
  BY SleeperFacts, Zenon DEF Asleep
<1>3. pc[n] \in Park => (Queued(n)' <=> Queued(n))
  BY <1>1, <1>2, QueuedSame, Zenon
<1> QED
  BY <1>1, <1>3, Zenon

LEMMA IdleKeeps ==
    ASSUME Types, Calling, Sleepers, NEW t \in Threads, Idle(t)
    PROVE  Sleepers'
<1>1. /\ Alone(t) /\ SameLists /\ queue' = queue /\ pending' = pending
      /\ pc[t] \notin Still /\ pc'[t] \notin Still
  BY Zenon DEF Idle, kernel
<1>2. /\ pc[t] \notin Asleep /\ pc[t] \notin Blocked \cup {"jn_blocked"}
      /\ pc'[t] \notin Blocked /\ pc[t] # "exited" /\ pc[t] \notin Park
  BY <1>1, Zenon DEF Still, Asleep
<1>3. ListNamed' /\ ListOnce'
  BY <1>1, <1>2, SameListed, Zenon DEF Sleepers, ListNamed
<1>4. QueueNamed' /\ QueueOnce' /\ BlockedQueued'
  BY <1>1, <1>2, SameQueued, Zenon DEF Sleepers
<1>5. PendingMeans'
  BY <1>1, <1>2, StillMeant, Zenon DEF Sleepers, PendingMeans
<1> QED
  BY <1>3, <1>4, <1>5, Zenon DEF Sleepers

LEMMA SettleKeeps ==
    ASSUME Types, Calling, SleepTypes, Sleepers, NEW t \in Threads, Settle(t)
    PROVE  Sleepers'
<1>1. Alone(t) /\ SameLists /\ pc[t] \in Park
  BY Zenon DEF Settle
<1>2. pc[t] \notin Blocked \cup {"jn_blocked"} /\ pc[t] # "exited"
  BY <1>1, Zenon DEF Park, Blocked
<1>3. \A a \in Objects : \A i \in 1 .. Len(Waiters(a)) :
         Waiters(a)[i] = t => Queued(t) /\ WaitAddr(t) = a
  BY Zenon DEF Sleepers, ListNamed, Queued, Waiters
<1>4. CASE pending[t]
  <2>1. /\ pending' = [pending EXCEPT ![t] = FALSE] /\ queue' = queue
        /\ pc'[t] \notin Blocked
    BY <1>4, Zenon DEF Settle, Still, Asleep
  <2>2. ~Queued(t)
    BY <1>2, <1>4, Zenon DEF Sleepers, PendingMeans
  <2>3. ListNamed' /\ ListOnce'
    BY <1>1, <1>3, <2>2, SameListed, Zenon DEF Sleepers
  <2>4. QueueNamed' /\ QueueOnce' /\ BlockedQueued'
    BY <1>1, <1>2, <2>1, SameQueued, Zenon DEF Sleepers
  <2>5. \A n \in Threads : pending'[n] => n # t /\ pending[n]
    BY <2>1, Zenon DEF SleepTypes
  <2>6. PendingMeans'
    BY <1>1, <2>5, StillMeant, Zenon DEF Sleepers, PendingMeans
  <2> QED
    BY <2>3, <2>4, <2>6, Zenon DEF Sleepers
<1>5. CASE ~pending[t]
  <2>1. /\ pending' = pending /\ queue' = [queue EXCEPT ![t] = Append(@, t)]
        /\ pc'[t] \in Blocked /\ WaitAddr(t)' = WaitAddr(t)
    BY <1>5, Zenon DEF Settle
  <2>2. BlockedOn(t, t)' /\ pc'[t] \in Asleep
    BY <2>1, Zenon DEF BlockedOn, Asleep
  <2>3. ListNamed' /\ ListOnce'
    BY <1>1, <1>3, <2>1, <2>2, SameListed, Zenon DEF Sleepers
  <2>4. QueueNamed' /\ QueueOnce' /\ BlockedQueued'
    BY <1>1, <1>2, <2>1, <2>2, QueueAppend, Zenon DEF Sleepers
  <2>5. PendingMeans'
    BY <1>1, <1>5, <2>1, StillMeant, Zenon DEF Sleepers, PendingMeans
  <2> QED
    BY <2>3, <2>4, <2>5, Zenon DEF Sleepers
<1> QED
  BY <1>4, <1>5, Zenon

LEMMA JoinKeeps ==
    ASSUME Types, Calling, SleepTypes, Sleepers, NEW t \in Threads, NEW n \in Threads,
           Join(t, n)
    PROVE  Sleepers'
<1>1. Alone(t) /\ SameLists /\ pc[t] = "call" /\ Op(t)' = Op(t) /\ Op(t)[2] = n
  BY Frozen, Zenon DEF Join, Alone
<1>2. /\ pc[t] \notin Asleep /\ pc[t] \notin Blocked \cup {"jn_blocked"}
      /\ pc[t] \notin Park /\ pc[t] # "exited"
  BY <1>1, Zenon DEF Asleep, Park, Blocked
<1>3. ListNamed' /\ ListOnce'
  BY <1>1, <1>2, SameListed, Zenon DEF Sleepers, ListNamed
<1>4. ~pending[t]
  BY <1>2, Zenon DEF Sleepers, PendingMeans
<1>5. PendingMeans'
  <2>1. \A m \in Threads : pending'[m] => pending[m]
    BY Zenon DEF Join, SleepTypes
  <2> QED
    BY <1>1, <1>4, <2>1, StillMeant, Zenon DEF Sleepers, PendingMeans
<1>6. CASE pending[n]
  <2>1. queue' = queue /\ pc'[t] \notin Blocked
    BY <1>6, Zenon DEF Join, Blocked
  <2> QED
    BY <1>1, <1>2, <1>3, <1>5, <2>1, SameQueued, Zenon DEF Sleepers
<1>7. CASE ~pending[n]
  <2>1. /\ queue' = [queue EXCEPT ![n] = Append(@, t)] /\ pc'[t] = "jn_blocked"
        /\ pc'[t] \notin Blocked
    BY <1>7, Zenon DEF Join, Blocked
  <2>2. BlockedOn(t, n)'
    BY <1>1, <2>1, Zenon DEF BlockedOn
  <2> QED
    BY <1>1, <1>2, <1>3, <1>5, <2>1, <2>2, QueueAppend, Zenon DEF Sleepers
<1> QED
  BY <1>6, <1>7, Zenon

LEMMA EnterKeeps ==
    ASSUME Types, Calling, SleepTypes, Sleepers, NEW t \in Threads, NEW a \in Objects,
           Enter(t, a)
    PROVE  Sleepers'
<1>1. /\ Alone(t) /\ queue' = queue /\ pending' = pending
      /\ pc[t] \notin Still /\ pc'[t] \in Park /\ WaitAddr(t)' = a
  BY Zenon DEF Enter, kernel
<1>2. /\ pc[t] \notin Asleep /\ pc[t] \notin Blocked \cup {"jn_blocked"}
      /\ pc'[t] \notin Blocked /\ pc[t] # "exited" /\ pc[t] \notin Park /\ pc'[t] \in Asleep
  BY <1>1, Zenon DEF Still, Asleep, Park, Blocked
<1>3. /\ \A b \in Objects : \A i \in 1 .. Len(Waiters(b)') :
              \/ i \in 1 .. Len(Waiters(b)) /\ Waiters(b)'[i] = Waiters(b)[i]
              \/ b = a /\ i = Len(Waiters(a)) + 1 /\ Waiters(b)'[i] = t
  <2>1. /\ Waiters(a)' = Append(Waiters(a), t) /\ Waiters(a) \in Seq(Threads)
        /\ \A b \in Objects \ {a} : Waiters(b)' = Waiters(b)
    BY ListElements, Zenon DEF Enter
  <2>2. \A i \in 1 .. Len(Waiters(a)') :
              \/ i \in 1 .. Len(Waiters(a)) /\ Waiters(a)'[i] = Waiters(a)[i]
              \/ i = Len(Waiters(a)) + 1 /\ Waiters(a)'[i] = t
    BY <2>1
  <2> QED
    BY <2>1, <2>2
<1>4. ASSUME NEW b \in Objects, NEW i \in 1 .. Len(Waiters(b)), Waiters(b)[i] = t
      PROVE  FALSE
  BY <1>2, <1>4, Zenon DEF Sleepers, ListNamed
<1>5. ASSUME NEW b \in Objects, NEW u \in Threads, NEW i \in 1 .. Len(Waiters(b)),
             Waiters(b)[i] = u
      PROVE  pc'[u] \in Asleep /\ WaitAddr(u)' = b
  <2>1. u # t /\ pc[u] \in Asleep /\ WaitAddr(u) = b
    BY <1>4, <1>5, Zenon DEF Sleepers, ListNamed
  <2>2. pc'[u] = pc[u] /\ ip'[u] = ip[u] /\ program' = program
    BY <1>1, <2>1, Zenon DEF Alone
  <2> QED
    BY <2>1, <2>2, Frozen, Zenon
<1>6. ListNamed'
  <2> SUFFICES ASSUME NEW b \in Objects, NEW u \in Threads, NEW i \in 1 .. Len(Waiters(b)'),
                      Waiters(b)'[i] = u
               PROVE  pc'[u] \in Asleep /\ WaitAddr(u)' = b
    BY Zenon DEF ListNamed
  <2> QED
    BY <1>1, <1>2, <1>3, <1>5
<1>7. ListOnce'
  <2> SUFFICES ASSUME NEW b \in Objects, NEW i \in 1 .. Len(Waiters(b)'),
                      NEW j \in 1 .. Len(Waiters(b)'), Waiters(b)'[i] = Waiters(b)'[j]
               PROVE  i = j
    BY Zenon DEF ListOnce
  <2> QED
    BY <1>3, <1>4 DEF Sleepers, ListOnce
<1>8. QueueNamed' /\ QueueOnce' /\ BlockedQueued'
  BY <1>1, <1>2, SameQueued, Zenon DEF Sleepers
<1>9. PendingMeans'
  <2> SUFFICES ASSUME NEW n \in Threads, pending[n]
               PROVE  pc'[n] = "exited" \/ (pc'[n] \in Park /\ ~Queued(n)')
    BY <1>1, Zenon DEF PendingMeans
  <2>1. n # t /\ (pc[n] = "exited" \/ (pc[n] \in Park /\ ~Queued(n)))
    BY <1>2, Zenon DEF Sleepers, PendingMeans
  <2>2. pc'[n] = pc[n] /\ ip'[n] = ip[n] /\ program' = program
    BY <1>1, <2>1, Zenon DEF Alone
  <2>3. ASSUME pc[n] \in Park, Queued(n)'
        PROVE  Queued(n)
    <3>1. WaitAddr(n)' = WaitAddr(n) /\ WaitAddr(n) \in Objects
      BY <2>2, <2>3, Frozen, SleeperFacts, Zenon DEF Asleep
    <3>2. PICK b \in Objects : b = WaitAddr(n)
      BY <3>1, Zenon
    <3>3. PICK i \in 1 .. Len(Waiters(b)') : Waiters(b)'[i] = n
      BY <2>3, <3>1, <3>2, Zenon DEF Queued, Waiters
    <3>4. i \in 1 .. Len(Waiters(b)) /\ Waiters(b)[i] = n
      BY <1>3, <2>1, <3>3
    <3> QED
      BY <3>2, <3>4, Zenon DEF Queued, Waiters
  <2> QED
    BY <2>1, <2>2, <2>3, Zenon
<1> QED
  BY <1>6, <1>7, <1>8, <1>9, Zenon DEF Sleepers

-----------------------------------------------------------------------------
(* Signals.  Hit: the thread a signal to one of ns resumes. *)

Hit(u, ns) == \E n \in ns : queue[n] # <<>> /\ queue[n][1] = u

(* The control, the pending bits and the queues after signals to ns. *)
Resumes(t, l, ns) ==
    /\ pc'[t] = l
    /\ \A u \in Threads \ {t} : pc'[u] = IF Hit(u, ns) THEN Resumed(pc[u]) ELSE pc[u]
Flags(ns) ==
    \A n \in Threads : pending'[n] <=> pending[n] \/ (n \in ns /\ queue[n] = <<>>)
Shifts(ns) ==
    \A n \in Threads : \A i \in 1 .. Len(queue'[n]) :
       \/ /\ ~(n \in ns /\ queue[n] # <<>>)
          /\ i \in 1 .. Len(queue[n]) /\ queue'[n][i] = queue[n][i]
       \/ /\ n \in ns /\ queue[n] # <<>>
          /\ i + 1 \in 1 .. Len(queue[n]) /\ queue'[n][i] = queue[n][i + 1]
Keeps(ns) ==
    \A n \in Threads : \A i \in 1 .. Len(queue[n]) :
       \/ i \in 1 .. Len(queue'[n]) /\ queue'[n][i] = queue[n][i]
       \/ n \in ns /\ queue[n] # <<>> /\ i = 1
       \/ i - 1 \in 1 .. Len(queue'[n]) /\ queue'[n][i - 1] = queue[n][i]

LEMMA ResumedAwake ==
    ASSUME NEW l
    PROVE  /\ Resumed(l) \notin Still
           /\ l \in Blocked => Resumed(l) # "ret"
BY DEF Resumed, Still, Asleep, Park, Blocked

LEMMA SignalPoints ==
    ASSUME SleepTypes, NEW t \in Threads, NEW l, NEW ns \in SUBSET Threads,
           SignalAll(ns, t, l)
    PROVE  Resumes(t, l, ns) /\ Flags(ns) /\ Shifts(ns) /\ Keeps(ns)
<1> DEFINE woken == {Head(queue[n]) : n \in {m \in ns : queue[m] # <<>>}}
<1>1. \A n \in Threads : queue[n] \in Seq(Threads)
  BY Zenon DEF SleepTypes
<1>2. \A u : u \in woken <=> Hit(u, ns)
  <2>1. \A n \in ns : queue[n] # <<>> => Head(queue[n]) = queue[n][1]
    BY <1>1
  <2> QED
    BY <2>1, Zenon DEF Hit
<1>3. /\ \A u \in Threads : pc'[u] = IF u = t THEN l
                                     ELSE IF u \in woken THEN Resumed(pc[u]) ELSE pc[u]
      /\ \A n \in Threads : pending'[n] = (pending[n] \/ (n \in ns /\ queue[n] = <<>>))
      /\ \A n \in Threads : queue'[n] = IF n \in ns /\ queue[n] # <<>>
                                        THEN Tail(queue[n]) ELSE queue[n]
  BY Zenon DEF SignalAll
<1> HIDE DEF woken
<1>4. ASSUME NEW n \in Threads
      PROVE  /\ \A i \in 1 .. Len(queue'[n]) :
                \/ /\ ~(n \in ns /\ queue[n] # <<>>)
                   /\ i \in 1 .. Len(queue[n]) /\ queue'[n][i] = queue[n][i]
                \/ /\ n \in ns /\ queue[n] # <<>>
                   /\ i + 1 \in 1 .. Len(queue[n]) /\ queue'[n][i] = queue[n][i + 1]
             /\ \A i \in 1 .. Len(queue[n]) :
                \/ i \in 1 .. Len(queue'[n]) /\ queue'[n][i] = queue[n][i]
                \/ n \in ns /\ queue[n] # <<>> /\ i = 1
                \/ i - 1 \in 1 .. Len(queue'[n]) /\ queue'[n][i - 1] = queue[n][i]
  <2>1. CASE n \in ns /\ queue[n] # <<>>
    <3>1. queue'[n] = Tail(queue[n]) /\ queue[n] \in Seq(Threads) /\ queue[n] # <<>>
      BY <1>1, <1>3, <2>1, Zenon
    <3>2. /\ Len(queue[n]) \in Nat /\ Len(queue'[n]) = Len(queue[n]) - 1
          /\ \A i \in 1 .. Len(queue[n]) - 1 : queue'[n][i] = queue[n][i + 1]
      BY <3>1
    <3> QED
      BY <2>1, <3>2
  <2>2. CASE ~(n \in ns /\ queue[n] # <<>>)
    BY <1>3, <2>2, Zenon
  <2> QED
    BY <2>1, <2>2, Zenon
<1>5. Resumes(t, l, ns) /\ Flags(ns)
  BY <1>2, <1>3, Zenon DEF Resumes, Flags
<1> QED
  BY <1>4, <1>5, Zenon DEF Shifts, Keeps

LEMMA SignalKeeps ==
    ASSUME SleepTypes, QueueNamed, QueueOnce, BlockedQueued, NEW t \in Threads,
           NEW l, NEW ns \in SUBSET Threads, SignalAll(ns, t, l),
           program' = program, ip' = ip,
           pc[t] \notin Blocked \cup {"jn_blocked"}, l \notin Blocked
    PROVE  /\ QueueNamed' /\ QueueOnce' /\ BlockedQueued'
           /\ \A u \in Threads \ {t} :
                \/ pc'[u] = pc[u]
                \/ \E n \in ns : BlockedOn(u, n) /\ pc'[u] = Resumed(pc[u])
<1>0. Resumes(t, l, ns) /\ Shifts(ns) /\ Keeps(ns)
  BY SignalPoints, Zenon
<1>1. ASSUME NEW n \in Threads, NEW i \in 1 .. Len(queue[n]), queue[n][i] = t
      PROVE  FALSE
  <2>1. BlockedOn(t, n)
    BY <1>1, Zenon DEF QueueNamed
  <2> QED
    BY <2>1, Zenon DEF BlockedOn
<1>2. ASSUME NEW u \in Threads, Hit(u, ns)
      PROVE  \E n \in ns : queue[n] # <<>> /\ queue[n][1] = u /\ BlockedOn(u, n)
  <2>1. PICK n \in ns : queue[n] # <<>> /\ queue[n][1] = u
    BY <1>2, Zenon DEF Hit
  <2>2. n \in Threads /\ queue[n] \in Seq(Threads)
    BY Zenon DEF SleepTypes
  <2>3. 1 \in 1 .. Len(queue[n])
    BY <2>1, <2>2
  <2> QED
    BY <2>1, <2>2, <2>3, Zenon DEF QueueNamed
<1>3. ASSUME NEW n \in Threads, NEW u \in Threads, NEW i \in 1 .. Len(queue'[n]),
             queue'[n][i] = u
      PROVE  BlockedOn(u, n)'
  <2>1. PICK k \in 1 .. Len(queue[n]) :
           /\ queue[n][k] = u
           /\ n \in ns /\ queue[n] # <<>> => k # 1
    <3>1. \/ /\ ~(n \in ns /\ queue[n] # <<>>)
             /\ i \in 1 .. Len(queue[n]) /\ queue'[n][i] = queue[n][i]
          \/ /\ n \in ns /\ queue[n] # <<>>
             /\ i + 1 \in 1 .. Len(queue[n]) /\ queue'[n][i] = queue[n][i + 1]
      BY <1>0, Zenon DEF Shifts
    <3>2. CASE /\ ~(n \in ns /\ queue[n] # <<>>)
               /\ i \in 1 .. Len(queue[n]) /\ queue'[n][i] = queue[n][i]
      BY <1>3, <3>2, Zenon
    <3>3. CASE /\ n \in ns /\ queue[n] # <<>>
               /\ i + 1 \in 1 .. Len(queue[n]) /\ queue'[n][i] = queue[n][i + 1]
      BY <1>3, <3>3
    <3> QED
      BY <3>1, <3>2, <3>3, Zenon
  <2>2. BlockedOn(u, n) /\ u # t
    BY <1>1, <2>1, Zenon DEF QueueNamed
  <2>3. ~Hit(u, ns)
    <3> SUFFICES ASSUME Hit(u, ns) PROVE FALSE
      BY Zenon
    <3>1. PICK m \in ns : queue[m] # <<>> /\ queue[m][1] = u /\ BlockedOn(u, m)
      BY <1>2, Zenon
    <3>2. m = n
      BY <2>2, <3>1, Zenon DEF BlockedOn, Blocked
    <3>3. 1 \in 1 .. Len(queue[n])
      BY <2>1
    <3> QED
      BY <2>1, <3>1, <3>2, <3>3, Zenon DEF QueueOnce
  <2>4. pc'[u] = pc[u]
    BY <1>0, <2>2, <2>3, Zenon DEF Resumes
  <2> QED
    BY <2>2, <2>4, Frozen, Zenon
<1>4. QueueNamed'
  BY <1>3, Zenon DEF QueueNamed
<1>5. QueueOnce'
  <2> SUFFICES ASSUME NEW n \in Threads, NEW i \in 1 .. Len(queue'[n]),
                      NEW j \in 1 .. Len(queue'[n]), queue'[n][i] = queue'[n][j]
               PROVE  i = j
    BY Zenon DEF QueueOnce
  <2>1. \/ /\ i \in 1 .. Len(queue[n]) /\ queue'[n][i] = queue[n][i]
           /\ j \in 1 .. Len(queue[n]) /\ queue'[n][j] = queue[n][j]
        \/ /\ i + 1 \in 1 .. Len(queue[n]) /\ queue'[n][i] = queue[n][i + 1]
           /\ j + 1 \in 1 .. Len(queue[n]) /\ queue'[n][j] = queue[n][j + 1]
    BY <1>0 DEF Shifts
  <2> QED
    BY <2>1 DEF QueueOnce
<1>6. BlockedQueued'
  <2> SUFFICES ASSUME NEW u \in Threads, pc'[u] \in Blocked
               PROVE  \E i \in 1 .. Len(queue'[u]) : queue'[u][i] = u
    BY Zenon DEF BlockedQueued
  <2>1. u # t /\ ~Hit(u, ns) /\ pc'[u] = pc[u]
    BY <1>0, ResumedAwake, Zenon DEF Resumes, Still, Asleep
  <2>2. PICK i \in 1 .. Len(queue[u]) : queue[u][i] = u
    BY <2>1, Zenon DEF BlockedQueued
  <2>3. ~(u \in ns /\ queue[u] # <<>> /\ i = 1)
    BY <2>1, <2>2, Zenon DEF Hit
  <2>4. \E j \in 1 .. Len(queue'[u]) : queue'[u][j] = queue[u][i]
    BY <1>0, <2>3, Zenon DEF Keeps
  <2> QED
    BY <2>2, <2>4, Zenon
<1>7. \A u \in Threads \ {t} : \/ pc'[u] = pc[u]
                               \/ \E n \in ns : BlockedOn(u, n) /\ pc'[u] = Resumed(pc[u])
  BY <1>0, <1>2, Zenon DEF Resumes
<1> QED
  BY <1>4, <1>5, <1>6, <1>7, Zenon

LEMMA WakeKeeps ==
    ASSUME Types, Calling, SleepTypes, Sleepers, NEW t \in Threads, NEW a \in Objects,
           NEW k, Wake(t, a, k)
    PROVE  Sleepers'
<1> DEFINE ns == Popped(a, k)
<1>a. /\ program' = program /\ ip' = ip /\ pc[t] \notin Still /\ k \in 0 .. Len(Waiters(a))
      /\ \A b \in Objects \ {a} : Waiters(b)' = Waiters(b)
  BY Zenon DEF Wake
<1>b. Waiters(a) \in Seq(Threads) /\ 1 .. k \subseteq 1 .. Len(Waiters(a))
  BY <1>a, ListElements
<1>c. ns \in SUBSET Threads
  BY <1>b, ListElements, Zenon DEF Popped
<1>d. PICK l \in {"ret", "cw_wait"} : SignalAll(ns, t, l)
  BY Zenon DEF Wake
<1>e. /\ pc[t] \notin Blocked \cup {"jn_blocked"} /\ pc[t] \notin Asleep
      /\ pc[t] \notin Park /\ pc[t] # "exited" /\ l \notin Blocked
  BY <1>a, <1>d, Zenon DEF Still, Asleep, Blocked
<1>f. /\ ListNamed /\ ListOnce /\ QueueNamed /\ QueueOnce /\ BlockedQueued /\ PendingMeans
  BY Zenon DEF Sleepers
<1>g. Flags(ns)
  BY <1>c, <1>d, SignalPoints, Zenon
<1>1. /\ QueueNamed' /\ QueueOnce' /\ BlockedQueued'
      /\ \A u \in Threads \ {t} :
            \/ pc'[u] = pc[u]
            \/ \E n \in ns : BlockedOn(u, n) /\ pc'[u] = Resumed(pc[u])
  BY <1>a, <1>c, <1>d, <1>e, <1>f, SignalKeeps, Zenon
<1>2. \A u \in ns : /\ u \in Threads /\ pc[u] \in Asleep /\ WaitAddr(u) = a
                    /\ \E i \in 1 .. k : Waiters(a)[i] = u
  BY <1>b, <1>c, <1>f, Zenon DEF Popped, ListNamed
<1>3. ASSUME NEW u \in Threads, u # t,
             pc[u] \in Park \/ pc[u] = "exited" \/ (pc[u] \in Asleep /\ u \notin ns)
      PROVE  /\ pc'[u] = pc[u] /\ Op(u)' = Op(u) /\ WaitAddr(u)' = WaitAddr(u)
  <2>1. pc[u] # "jn_blocked" /\ (pc[u] \in Blocked => u \notin ns)
    BY <1>3, Zenon DEF Asleep, Park, Blocked
  <2>2. pc'[u] = pc[u]
    BY <1>1, <1>3, <2>1, Zenon DEF BlockedOn
  <2> QED
    BY <1>a, <2>2, Frozen, Zenon
<1>4. \A b \in Objects : \A i \in 1 .. Len(Waiters(b)') :
         \E j \in 1 .. Len(Waiters(b)) :
            /\ Waiters(b)'[i] = Waiters(b)[j]
            /\ b = a => j = k + i /\ j \notin 1 .. k
            /\ b # a => j = i
  <2>1. /\ Waiters(a)' = SubSeq(Waiters(a), k + 1, Len(Waiters(a)))
    BY Zenon DEF Wake
  <2>2. \A i \in 1 .. Len(Waiters(a)') :
           /\ k + i \in 1 .. Len(Waiters(a)) /\ k + i \notin 1 .. k
           /\ Waiters(a)'[i] = Waiters(a)[k + i]
    <3>1. /\ Len(Waiters(a)') = Len(Waiters(a)) - k
          /\ \A i \in 1 .. Len(Waiters(a)') : Waiters(a)'[i] = Waiters(a)[k + i]
      BY <1>a, <1>b, <2>1, SubSeqFacts
    <3> QED
      BY <1>a, <1>b, <3>1
  <2> QED
    BY <1>a, <2>2
<1>5. ASSUME NEW b \in Objects, NEW u \in Threads, NEW i \in 1 .. Len(Waiters(b)'),
             Waiters(b)'[i] = u
      PROVE  /\ u # t /\ pc[u] \in Asleep /\ WaitAddr(u) = b /\ u \notin ns
             /\ \E j \in 1 .. Len(Waiters(b)) : Waiters(b)[j] = u
  <2>1. PICK j \in 1 .. Len(Waiters(b)) : Waiters(b)[j] = u /\ (b = a => j \notin 1 .. k)
    BY <1>4, <1>5
  <2>2. pc[u] \in Asleep /\ WaitAddr(u) = b
    BY <1>f, <2>1, Zenon DEF ListNamed
  <2>3. u \notin ns
    BY <1>2, <1>b, <1>f, <2>1, <2>2 DEF ListOnce
  <2> QED
    BY <1>e, <2>1, <2>2, <2>3, Zenon
<1>6. ListNamed'
  BY <1>3, <1>5, Zenon DEF ListNamed
<1>7. ListOnce'
  <2> SUFFICES ASSUME NEW b \in Objects, NEW i \in 1 .. Len(Waiters(b)'),
                      NEW j \in 1 .. Len(Waiters(b)'), Waiters(b)'[i] = Waiters(b)'[j]
               PROVE  i = j
    BY Zenon DEF ListOnce
  <2>1. PICK m \in 1 .. Len(Waiters(b)) :
           Waiters(b)'[i] = Waiters(b)[m] /\ (b = a => m = k + i) /\ (b # a => m = i)
    BY <1>4
  <2>2. PICK p \in 1 .. Len(Waiters(b)) :
           Waiters(b)'[j] = Waiters(b)[p] /\ (b = a => p = k + j) /\ (b # a => p = j)
    BY <1>4
  <2>3. m = p
    BY <1>f, <2>1, <2>2, Zenon DEF ListOnce
  <2> QED
    BY <1>a, <1>b, <2>1, <2>2, <2>3
<1>8. PendingMeans'
  <2> SUFFICES ASSUME NEW n \in Threads, pending'[n]
               PROVE  pc'[n] = "exited" \/ (pc'[n] \in Park /\ ~Queued(n)')
    BY Zenon DEF PendingMeans
  <2>1. \/ pc[n] = "exited"
        \/ pc[n] \in Park /\ (~Queued(n) \/ n \in ns)
    <3>1. CASE pending[n]
      BY <1>f, <3>1, Zenon DEF PendingMeans
    <3>2. CASE n \in ns /\ queue[n] = <<>>
      <4>1. pc[n] \in Asleep
        BY <1>2, <3>2, Zenon
      <4>2. pc[n] \notin Blocked
        <5>1. 1 .. Len(queue[n]) = {}
          BY <3>2
        <5> QED
          BY <1>f, <5>1, Zenon DEF BlockedQueued
      <4> QED
        BY <3>2, <4>1, <4>2, Zenon DEF Asleep
    <3> QED
      BY <1>g, <3>1, <3>2, Zenon DEF Flags
  <2>2. n # t
    BY <1>e, <2>1, Zenon
  <2>3. pc'[n] = pc[n] /\ WaitAddr(n)' = WaitAddr(n)
    BY <1>3, <2>1, <2>2, Zenon
  <2>4. ASSUME pc[n] \in Park, Queued(n)'
        PROVE  Queued(n) /\ n \notin ns
    <3>1. WaitAddr(n) \in Objects
      BY <2>4, SleeperFacts, Zenon DEF Asleep
    <3>2. PICK b \in Objects : b = WaitAddr(n)
      BY <3>1, Zenon
    <3>3. PICK i \in 1 .. Len(Waiters(b)') : Waiters(b)'[i] = n
      BY <2>3, <2>4, <3>2, Zenon DEF Queued, Waiters
    <3>4. n \notin ns /\ \E j \in 1 .. Len(Waiters(b)) : Waiters(b)[j] = n
      BY <1>5, <3>3
    <3> QED
      BY <3>2, <3>4, Zenon DEF Queued, Waiters
  <2> QED
    BY <2>1, <2>3, <2>4, Zenon
<1> QED
  BY <1>1, <1>6, <1>7, <1>8, Zenon DEF Sleepers

LEMMA ExitKeeps ==
    ASSUME Types, Calling, SleepTypes, Sleepers, NEW t \in Threads, Exit(t)
    PROVE  Sleepers'
<1>a. /\ program' = program /\ ip' = ip /\ SameLists /\ pc[t] = "call"
      /\ SignalAll({t}, t, "exited")
  BY Zenon DEF Exit
<1>b. {t} \in SUBSET Threads /\ "exited" \notin Blocked
  BY Zenon DEF Blocked
<1>c. /\ pc[t] \notin Blocked \cup {"jn_blocked"} /\ pc[t] \notin Asleep
  BY <1>a, Zenon DEF Asleep, Blocked, Park
<1>f. /\ ListNamed /\ ListOnce /\ QueueNamed /\ QueueOnce /\ BlockedQueued /\ PendingMeans
  BY Zenon DEF Sleepers
<1>g. Resumes(t, "exited", {t}) /\ Flags({t})
  BY <1>a, <1>b, SignalPoints, Zenon
<1>1. /\ QueueNamed' /\ QueueOnce' /\ BlockedQueued'
      /\ \A u \in Threads \ {t} :
            \/ pc'[u] = pc[u]
            \/ \E n \in {t} : BlockedOn(u, n) /\ pc'[u] = Resumed(pc[u])
  BY <1>a, <1>b, <1>c, <1>f, SignalKeeps, Zenon
<1>2. ASSUME NEW u \in Threads, u # t, pc[u] \in Asleep \/ pc[u] = "exited"
      PROVE  pc'[u] = pc[u] /\ ip'[u] = ip[u]
  <2>1. pc[u] # "jn_blocked"
    BY <1>2, Zenon DEF Asleep, Park, Blocked
  <2> QED
    BY <1>a, <1>1, <1>2, <2>1, Zenon DEF BlockedOn
<1>3. ListNamed'
  <2> SUFFICES ASSUME NEW b \in Objects, NEW u \in Threads, NEW i \in 1 .. Len(Waiters(b)),
                      Waiters(b)[i] = u
               PROVE  pc'[u] \in Asleep /\ WaitAddr(u)' = b
    BY <1>a, Zenon DEF ListNamed, SameLists
  <2>1. pc[u] \in Asleep /\ WaitAddr(u) = b /\ u # t
    BY <1>c, <1>f, Zenon DEF ListNamed
  <2> QED
    BY <1>2, <1>a, <2>1, Frozen, Zenon
<1>4. ListOnce'
  BY <1>a, <1>f, Zenon DEF ListOnce, SameLists
<1>5. PendingMeans'
  <2> SUFFICES ASSUME NEW n \in Threads, n # t, pending[n]
               PROVE  pc'[n] = "exited" \/ (pc'[n] \in Park /\ ~Queued(n)')
    BY <1>g, Zenon DEF PendingMeans, Flags, Resumes
  <2>1. pc[n] = "exited" \/ (pc[n] \in Park /\ ~Queued(n))
    BY <1>f, Zenon DEF PendingMeans
  <2>2. pc'[n] = pc[n] /\ ip'[n] = ip[n] /\ program' = program
    BY <1>2, <1>a, <2>1, Zenon DEF Asleep
  <2>3. pc[n] \in Park => WaitAddr(n) \in Objects
    BY SleeperFacts, Zenon DEF Asleep
  <2>4. pc[n] \in Park => (Queued(n)' <=> Queued(n))
    BY <1>a, <2>2, <2>3, QueuedSame, Zenon
  <2> QED
    BY <2>1, <2>2, <2>4, Zenon
<1> QED
  BY <1>1, <1>3, <1>4, <1>5, Zenon DEF Sleepers

-----------------------------------------------------------------------------
(* Joining. *)

(* Another thread that has returned from ThreadJoin stays right, when the  *)
(* thread it joined stays where it was.                                    *)
LEMMA JoinedStays ==
    ASSUME Types, JoinAfterQuietExit, program' = program, NEW u \in Threads,
           pc[u] = "ret", ip'[u] = ip[u],
           \A n \in Threads : pc[n] = "exited" => pc'[n] = "exited",
           Does(u, "join")', ~Parks(Op(u)[2])'
    PROVE  pc'[Op(u)[2]'] = "exited"
<1>1. Op(u)' = Op(u) /\ Does(u, "join")
  BY Frozen, Zenon
<1>2. Op(u)[2] \in Threads
  BY <1>1, OpFacts, Zenon
<1>3. ~Parks(Op(u)[2])
  BY <1>1, Zenon DEF Parks, Lockers, SemWaiters, Performs
<1> QED
  BY <1>1, <1>2, <1>3, Zenon DEF JoinAfterQuietExit

LEMMA AloneJoins ==
    ASSUME Types, JoinAfterQuietExit, NEW t \in Threads, Alone(t), pc[t] # "exited",
           pc'[t] = "ret" /\ Does(t, "join")' /\ ~Parks(Op(t)[2])'
              => pc'[Op(t)[2]'] = "exited"
    PROVE  JoinAfterQuietExit'
<1>1. program' = program /\ \A u \in Threads \ {t} : pc'[u] = pc[u] /\ ip'[u] = ip[u]
  BY Zenon DEF Alone
<1>2. \A n \in Threads : pc[n] = "exited" => pc'[n] = "exited"
  BY <1>1, Zenon
<1>3. ASSUME NEW u \in Threads, pc'[u] = "ret", Does(u, "join")', ~Parks(Op(u)[2])'
      PROVE  pc'[Op(u)[2]'] = "exited"
  BY <1>1, <1>2, <1>3, JoinedStays, Zenon
<1> QED
  BY <1>3, Zenon DEF JoinAfterQuietExit

LEMMA JoinJoins ==
    ASSUME Types, Calling, SleepTypes, Sleepers, JoinAfterQuietExit,
           NEW t \in Threads, NEW n \in Threads, Join(t, n)
    PROVE  JoinAfterQuietExit'
<1>1. Alone(t) /\ pc[t] = "call" /\ Op(t)' = Op(t) /\ Op(t)[2] = n /\ program' = program
  BY Frozen, Zenon DEF Join, Alone
<1>2. ASSUME pc'[t] = "ret", ~Parks(Op(t)[2])'
      PROVE  pc'[Op(t)[2]'] = "exited"
  <2>1. pending[n]
    BY <1>2, Zenon DEF Join
  <2>2. ~Parks(n)
    BY <1>1, <1>2, Zenon DEF Parks, Lockers, SemWaiters, Performs
  <2>3. pc[n] \notin Park
    BY <2>2, SleeperFacts, Zenon DEF Asleep
  <2>4. pc[n] = "exited"
    BY <2>1, <2>3, Zenon DEF Sleepers, PendingMeans
  <2>5. pc'[n] = pc[n]
    BY <1>1, <2>4, Zenon DEF Alone
  <2> QED
    BY <1>1, <2>4, <2>5, Zenon
<1>3. pc[t] # "exited"
  BY <1>1, Zenon
<1> QED
  BY <1>1, <1>2, <1>3, AloneJoins, Zenon

(* Signals: a joiner resumes when the thread it joins ends, never for a    *)
(* wake in a Sync wait of that thread, which would have to park.           *)
LEMMA SignalJoins ==
    ASSUME Types, Calling, SleepTypes, Sleepers, JoinAfterQuietExit, NEW t \in Threads,
           NEW l, NEW ns \in SUBSET Threads, SignalAll(ns, t, l),
           program' = program, ip' = ip, pc[t] \notin Still, l \notin Blocked,
           l = "ret" => ~Does(t, "join"),
           \A n \in ns : pc[n] \in Asleep \/ (n = t /\ l = "exited")
    PROVE  JoinAfterQuietExit'
<1>1. /\ pc[t] \notin Blocked \cup {"jn_blocked"} /\ pc[t] # "exited"
  BY Zenon DEF Still, Asleep
<1>2. /\ \A u \in Threads \ {t} :
            \/ pc'[u] = pc[u]
            \/ \E n \in ns : BlockedOn(u, n) /\ pc'[u] = Resumed(pc[u])
      /\ pc'[t] = l
  BY <1>1, SignalKeeps, SignalPoints, Zenon DEF Sleepers, Resumes
<1>3. \A n \in Threads : pc[n] = "exited" => pc'[n] = "exited"
  BY <1>1, <1>2, Zenon DEF BlockedOn, Blocked
<1>4. ASSUME NEW u \in Threads, pc'[u] = "ret", Does(u, "join")', ~Parks(Op(u)[2])'
      PROVE  pc'[Op(u)[2]'] = "exited"
  <2>1. Op(u)' = Op(u) /\ (Does(u, "join") <=> Does(u, "join")')
    BY Frozen, Zenon
  <2>2. u # t
    BY <1>2, <1>4, <2>1, Zenon
  <2>3. CASE pc[u] = "ret"
    BY <1>3, <1>4, <2>3, JoinedStays, Zenon
  <2>4. CASE pc[u] # "ret"
    <3>1. PICK n \in ns : BlockedOn(u, n) /\ Resumed(pc[u]) = "ret"
      BY <1>2, <1>4, <2>2, <2>4, Zenon
    <3>2. Op(u)[2] = n
      BY <3>1, ResumedAwake, Zenon DEF BlockedOn
    <3>3. ~Parks(n)
      BY <1>4, <2>1, <3>2, Zenon DEF Parks, Lockers, SemWaiters, Performs
    <3>4. n = t /\ l = "exited"
      BY <3>3, SleeperFacts, Zenon
    <3> QED
      BY <1>2, <2>1, <3>2, <3>4, Zenon
  <2> QED
    BY <2>3, <2>4, Zenon
<1> QED
  BY <1>4, Zenon DEF JoinAfterQuietExit

-----------------------------------------------------------------------------
(* No sleeper is lost, when clients join only threads that never park. *)

JoinsQuiet ==
    \A p \in Programs : \A t \in Threads : \A i \in 1 .. Len(p[t]) :
       p[t][i][1] = "join" =>
          \A j \in 1 .. Len(p[p[t][i][2]]) :
             p[p[t][i][2]][j][1] \notin {"lock", "condwait", "semwait"}

Awake ==
    \A t \in Threads :
       /\ pc[t] \in Park => Queued(t) \/ pending[t]
       /\ pc[t] \in Blocked => Queued(t)

LEMMA JoinedNeverSleeps ==
    ASSUME JoinsQuiet, Types, Calling, NEW u \in Threads, Does(u, "join")
    PROVE  pc[Op(u)[2]] \notin Asleep
<1> DEFINE n == Op(u)[2]
<1> SUFFICES ASSUME pc[n] \in Asleep PROVE FALSE
  BY Zenon
<1>1. ip[u] \in 1 .. Len(program[u]) /\ n \in Threads /\ Op(u)[1] = "join"
  BY OpIsOperation, OpFacts, Zenon DEF Does
<1>2. program \in Programs
  BY Zenon DEF Types
<1>3. \A j \in 1 .. Len(program[n]) : program[n][j][1] \notin {"lock", "condwait", "semwait"}
  BY <1>1, <1>2, Zenon DEF JoinsQuiet, Op
<1>4. Does(n, "lock") \/ Does(n, "condwait") \/ Does(n, "semwait")
  BY <1>1, Zenon DEF Calling, CallAt, Asleep, Park, Blocked
<1>5. ip[n] \in 1 .. Len(program[n])
  BY <1>1, <1>4, OpIsOperation, Zenon DEF Does
<1> QED
  BY <1>3, <1>4, <1>5, Zenon DEF Does, Op

(* Whoever is blocked on the Notification of a sleeper is the sleeper. *)
LEMMA OwnQueue ==
    ASSUME JoinsQuiet, Types, Calling, QueueNamed, NEW n \in Threads, pc[n] \in Asleep,
           NEW u \in Threads, NEW i \in 1 .. Len(queue[n]), queue[n][i] = u
    PROVE  u = n /\ pc[n] \in Blocked
<1>1. BlockedOn(u, n)
  BY Zenon DEF QueueNamed
<1>2. ~(pc[u] = "jn_blocked" /\ Op(u)[2] = n)
  BY JoinedNeverSleeps, Zenon DEF Calling, CallAt
<1> QED
  BY <1>1, <1>2, Zenon DEF BlockedOn

(* A step that moves t alone and keeps the entries of the lists. *)
LEMMA AloneAwake ==
    ASSUME Types, Calling, Awake, NEW t \in Threads, Alone(t),
           \A a \in Objects : \A i \in 1 .. Len(Waiters(a)) :
              i \in 1 .. Len(Waiters(a)') /\ Waiters(a)'[i] = Waiters(a)[i],
           \A u \in Threads \ {t} : pc[u] \in Park /\ pending[u] => pending'[u],
           pc'[t] \in Asleep => Queued(t)'
    PROVE  Awake'
<1>1. ASSUME NEW u \in Threads \ {t}, pc[u] \in Asleep, Queued(u)
      PROVE  Queued(u)'
  <2>1. WaitAddr(u)' = WaitAddr(u)
    BY Frozen, Zenon DEF Alone
  <2>2. PICK a \in Objects : a = WaitAddr(u)
    BY <1>1, SleeperFacts, Zenon
  <2>3. PICK i \in 1 .. Len(Waiters(a)) : Waiters(a)[i] = u
    BY <1>1, <2>2, Zenon DEF Queued, Waiters
  <2>4. i \in 1 .. Len(Waiters(a)') /\ Waiters(a)'[i] = u
    BY <2>3, Zenon
  <2> QED
    BY <2>1, <2>2, <2>4, Zenon DEF Queued, Waiters
<1> QED
  BY <1>1, Zenon DEF Awake, Alone, Asleep

LEMMA SettleAwake ==
    ASSUME Types, Calling, SleepTypes, Awake, NEW t \in Threads, Settle(t)
    PROVE  Awake'
<1>1. Alone(t) /\ SameLists /\ pc[t] \in Park
  BY Zenon DEF Settle
<1>2. \A u \in Threads \ {t} : pending[u] => pending'[u]
  BY Zenon DEF Settle, SleepTypes
<1>3. ASSUME pc'[t] \in Asleep
      PROVE  Queued(t)'
  <2>1. ~pending[t] /\ WaitAddr(t)' = WaitAddr(t)
    BY <1>3, Zenon DEF Settle, Still
  <2>2. Queued(t)
    BY <1>1, <2>1, Zenon DEF Awake
  <2>3. WaitAddr(t) \in Objects
    BY <1>1, SleeperFacts, Zenon DEF Asleep
  <2>4. g_sync'[WaitAddr(t)].waiters = g_sync[WaitAddr(t)].waiters
    BY <1>1, <2>3, Zenon DEF SameLists, Waiters
  <2> QED
    BY <1>1, <2>1, <2>2, <2>4, Zenon DEF Queued
<1>4. \A a \in Objects : \A i \in 1 .. Len(Waiters(a)) :
         i \in 1 .. Len(Waiters(a)') /\ Waiters(a)'[i] = Waiters(a)[i]
  BY <1>1, Zenon DEF SameLists
<1> QED
  BY <1>1, <1>2, <1>3, <1>4, AloneAwake, Zenon

LEMMA JoinAwake ==
    ASSUME JoinsQuiet, Types, Calling, SleepTypes, Awake, NEW t \in Threads,
           NEW n \in Threads, Does(t, "join"), Join(t, n)
    PROVE  Awake'
<1>1. Alone(t) /\ SameLists /\ n = Op(t)[2] /\ pc'[t] \notin Asleep
  BY Zenon DEF Join, Asleep, Park, Blocked
<1>2. \A u \in Threads \ {t} : pc[u] \in Park /\ pending[u] => pending'[u]
  <2>1. pc[n] \notin Park
    BY <1>1, JoinedNeverSleeps, Zenon DEF Asleep
  <2> QED
    BY <2>1, Zenon DEF Join, SleepTypes
<1>3. \A a \in Objects : \A i \in 1 .. Len(Waiters(a)) :
         i \in 1 .. Len(Waiters(a)') /\ Waiters(a)'[i] = Waiters(a)[i]
  BY <1>1, Zenon DEF SameLists
<1> QED
  BY <1>1, <1>2, <1>3, AloneAwake, Zenon

LEMMA EnterAwake ==
    ASSUME Types, Calling, SleepTypes, Awake, NEW t \in Threads, NEW a \in Objects,
           Enter(t, a)
    PROVE  Awake'
<1>1. /\ Alone(t) /\ pending' = pending /\ WaitAddr(t)' = a
      /\ Waiters(a)' = Append(Waiters(a), t) /\ Waiters(a) \in Seq(Threads)
      /\ \A b \in Objects \ {a} : Waiters(b)' = Waiters(b)
  BY ListElements, Zenon DEF Enter, kernel
<1>2. /\ \A i \in 1 .. Len(Waiters(a)) :
            i \in 1 .. Len(Waiters(a)') /\ Waiters(a)'[i] = Waiters(a)[i]
      /\ Len(Waiters(a)') \in 1 .. Len(Waiters(a)') /\ Waiters(a)'[Len(Waiters(a)')] = t
  BY <1>1
<1>3. \A b \in Objects : \A i \in 1 .. Len(Waiters(b)) :
         i \in 1 .. Len(Waiters(b)') /\ Waiters(b)'[i] = Waiters(b)[i]
  BY <1>1, <1>2
<1>4. Queued(t)'
  BY <1>1, <1>2, Zenon DEF Queued, Waiters
<1> QED
  BY <1>1, <1>3, <1>4, AloneAwake, Zenon

LEMMA WakeAwake ==
    ASSUME JoinsQuiet, Types, Calling, SleepTypes, Sleepers, Awake, NEW t \in Threads,
           NEW a \in Objects, NEW k, Wake(t, a, k)
    PROVE  Awake'
<1> DEFINE ns == Popped(a, k)
<1>a. /\ program' = program /\ ip' = ip /\ pc[t] \notin Still /\ k \in 0 .. Len(Waiters(a))
      /\ \A b \in Objects \ {a} : Waiters(b)' = Waiters(b)
      /\ Waiters(a)' = SubSeq(Waiters(a), k + 1, Len(Waiters(a)))
  BY Zenon DEF Wake
<1>b. Waiters(a) \in Seq(Threads) /\ 1 .. k \subseteq 1 .. Len(Waiters(a))
  BY <1>a, ListElements
<1>c. ns \in SUBSET Threads
  BY <1>b, ListElements, Zenon DEF Popped
<1>d. PICK l \in {"ret", "cw_wait"} : SignalAll(ns, t, l)
  BY Zenon DEF Wake
<1>e. Resumes(t, l, ns) /\ Flags(ns) /\ l \notin Asleep
  BY <1>c, <1>d, SignalPoints, Zenon DEF Asleep, Park, Blocked
<1>f. ListNamed /\ QueueNamed /\ BlockedQueued
  BY Zenon DEF Sleepers
<1>1. \A j \in 1 .. Len(Waiters(a)) : j \notin 1 .. k =>
         j - k \in 1 .. Len(Waiters(a)') /\ Waiters(a)'[j - k] = Waiters(a)[j]
  <2>1. /\ Len(Waiters(a)') = Len(Waiters(a)) - k
        /\ \A i \in 1 .. Len(Waiters(a)') : Waiters(a)'[i] = Waiters(a)[k + i]
    BY <1>a, <1>b, SubSeqFacts
  <2> QED
    BY <1>a, <1>b, <2>1
<1>2. ASSUME NEW u \in Threads, pc'[u] \in Asleep
      PROVE  (Queued(u)' \/ pending'[u]) /\ (pc'[u] \in Blocked => Queued(u)')
  <2>1. u # t /\ ~Hit(u, ns) /\ pc'[u] = pc[u]
    BY <1>2, <1>e, ResumedAwake, Zenon DEF Resumes, Still
  <2>2. WaitAddr(u)' = WaitAddr(u)
    BY <1>a, <2>1, Frozen, Zenon
  <2>3. CASE Queued(u) /\ u \notin ns
    <3>1. PICK b \in Objects : b = WaitAddr(u)
      BY <1>2, <2>1, SleeperFacts, Zenon
    <3>2. PICK i \in 1 .. Len(Waiters(b)) : Waiters(b)[i] = u
      BY <2>3, <3>1, Zenon DEF Queued, Waiters
    <3>3. b = a => i \notin 1 .. k
      BY <2>3, <3>2, Zenon DEF Popped
    <3>4. \E j \in 1 .. Len(Waiters(b)') : Waiters(b)'[j] = u
      BY <1>1, <1>a, <3>2, <3>3
    <3> QED
      BY <2>2, <3>1, <3>4, Zenon DEF Queued, Waiters
  <2>4. CASE u \in ns
    <3>1. queue[u] = <<>>
      <4> SUFFICES ASSUME queue[u] # <<>> PROVE FALSE
        BY Zenon
      <4>1. queue[u] \in Seq(Threads)
        BY Zenon DEF SleepTypes
      <4>2. 1 \in 1 .. Len(queue[u]) /\ queue[u][1] \in Threads
        BY <4>1
      <4>3. queue[u][1] = u
        BY <1>2, <1>f, <2>1, <4>2, OwnQueue, Zenon
      <4> QED
        BY <2>1, <2>4, <4>3, Zenon DEF Hit
    <3>2. pending'[u]
      BY <1>e, <2>4, <3>1, Zenon DEF Flags
    <3>3. pc[u] \notin Blocked
      <4>1. 1 .. Len(queue[u]) = {}
        BY <3>1
      <4> QED
        BY <1>f, <4>1, Zenon DEF BlockedQueued
    <3> QED
      BY <2>1, <3>2, <3>3, Zenon
  <2>5. CASE ~Queued(u)
    <3>1. pc[u] \in Park /\ pending[u] /\ pc[u] \notin Blocked
      BY <1>2, <2>1, <2>5, Zenon DEF Awake, Asleep
    <3> QED
      BY <1>e, <2>1, <3>1, Zenon DEF Flags
  <2> QED
    BY <2>3, <2>4, <2>5, Zenon
<1> QED
  BY <1>2, Zenon DEF Awake, Asleep

LEMMA ExitAwake ==
    ASSUME Types, Calling, SleepTypes, Sleepers, Awake, NEW t \in Threads, Exit(t)
    PROVE  Awake'
<1>a. /\ program' = program /\ ip' = ip /\ SameLists /\ pc[t] = "call"
      /\ SignalAll({t}, t, "exited") /\ {t} \in SUBSET Threads
  BY Zenon DEF Exit
<1>b. Resumes(t, "exited", {t}) /\ Flags({t}) /\ "exited" \notin Asleep
  BY <1>a, SignalPoints, Zenon DEF Asleep, Park, Blocked
<1>1. ASSUME NEW u \in Threads, pc'[u] \in Asleep
      PROVE  /\ pc'[u] = pc[u] /\ (Queued(u)' <=> Queued(u))
             /\ pending[u] => pending'[u]
  <2>1. u # t /\ pc'[u] = pc[u]
    BY <1>1, <1>b, ResumedAwake, Zenon DEF Resumes, Still
  <2>2. WaitAddr(u) \in Objects /\ ip'[u] = ip[u]
    BY <1>1, <1>a, <2>1, SleeperFacts, Zenon
  <2> QED
    BY <1>a, <1>b, <2>1, <2>2, QueuedSame, Zenon DEF Flags
<1> QED
  BY <1>1, Zenon DEF Awake, Asleep

LEMMA SleepersFound ==
    ASSUME SleepTypes, Sleepers, Awake
    PROVE  NoLostSleeper
<1>1. ASSUME NEW t \in Threads
      PROVE  /\ pc[t] \in Park => Queued(t) # pending[t]
             /\ pc[t] \in Blocked => Queued(t)
  <2>1. pc[t] \in Park => pc[t] # "exited"
    BY Zenon DEF Park
  <2>2. pending[t] \in BOOLEAN /\ Queued(t) \in BOOLEAN
    BY Zenon DEF SleepTypes, Queued
  <2>3. pc[t] \in Park => (pending[t] <=> ~Queued(t))
    BY <2>1, Zenon DEF Sleepers, PendingMeans, Awake
  <2> QED
    BY <2>2, <2>3, Zenon DEF Awake
<1>2. ASSUME NEW a \in Objects, NEW i \in 1 .. Len(Waiters(a)), NEW j \in 1 .. Len(Waiters(a))
      PROVE  /\ pc[Waiters(a)[i]] \in Asleep
             /\ WaitAddr(Waiters(a)[i]) = a
             /\ Waiters(a)[j] = Waiters(a)[i] => i = j
  <2>1. Waiters(a)[i] \in Threads
    BY ListElements, Zenon
  <2> QED
    BY <2>1, Zenon DEF Sleepers, ListNamed, ListOnce
<1> QED
  BY <1>1, <1>2, Zenon DEF NoLostSleeper, Park, Blocked, Asleep, Waiters

-----------------------------------------------------------------------------
(* The operators on the table and on Notifications, by shape. *)

TableOK == g_sync \in [Objects -> Entry] /\ \A a \in Objects : EntryOK(g_sync[a])

LEMMA TableWrite ==
    ASSUME TableOK, NEW a \in Objects, NEW f, EntryOK(f), g_sync' = [g_sync EXCEPT ![a] = f]
    PROVE  /\ TableOK'
           /\ Waiters(a)' = f.waiters
           /\ \A b \in Objects \ {a} : Waiters(b)' = Waiters(b)
<1>1. g_sync'[a] = f /\ \A b \in Objects \ {a} : g_sync'[b] = g_sync[b]
  BY Zenon DEF TableOK
<1>2. g_sync' \in [Objects -> Entry]
  BY Zenon DEF TableOK, EntryOK
<1> QED
  BY <1>1, <1>2, Zenon DEF TableOK, Waiters

LEMMA WaitShape ==
    ASSUME TableOK, NEW t \in Threads, NEW a \in Objects, NEW mode, NEW x,
           NEW ok, NEW err, NEW park, sync_wait_impl(t, a, mode, x, ok, err, park)
    PROVE  /\ TableOK'
           /\ \/ SameLists /\ (Goto(t, ok) \/ Goto(t, err))
              \/ /\ Waiters(a)' = Append(Waiters(a), t)
                 /\ \A b \in Objects \ {a} : Waiters(b)' = Waiters(b)
                 /\ Goto(t, park)
<1> DEFINE e == g_sync[a]
           f == retire_if_idle(IF mode = "gen" THEN e ELSE [e EXCEPT !.credit = e.credit - 1])
           g == [in_use |-> TRUE, credit |-> e.credit, gen |-> e.gen,
                 waiters |-> Append(e.waiters, t)]
<1>0. EntryOK(e)
  BY Zenon DEF TableOK
<1>1. CASE /\ AlreadyWoken(a, mode, x)
           /\ g_sync' = [g_sync EXCEPT ![a] = f]
           /\ Goto(t, ok)
  <2>1. mode # "gen" => e.credit > 0
    BY <1>1, Zenon DEF AlreadyWoken
  <2>2. mode # "gen" => /\ EntryOK([e EXCEPT !.credit = e.credit - 1])
                        /\ [e EXCEPT !.credit = e.credit - 1].waiters = e.waiters
    BY <1>0, <2>1, CreditedEntry, Zenon
  <2>3. EntryOK(f) /\ f.waiters = e.waiters
    BY <1>0, <2>2, RetiredEntry, Zenon
  <2>4. TableOK' /\ Waiters(a)' = f.waiters /\ \A b \in Objects \ {a} : Waiters(b)' = Waiters(b)
    BY <1>1, <2>3, TableWrite, Zenon
  <2>5. SameLists
    BY <2>3, <2>4, Zenon DEF SameLists, Waiters
  <2> QED
    BY <1>1, <2>4, <2>5, Zenon
<1>2. CASE g_sync' = [g_sync EXCEPT ![a] = g] /\ Goto(t, park)
  <2>1. e.credit \in {0, 1} /\ e.gen \in Nat /\ Append(e.waiters, t) \in Seq(Threads)
    BY <1>0 DEF EntryOK, Entry
  <2>2. EntryOK(g) /\ g.waiters = Append(e.waiters, t)
    BY <1>0, <2>1, NewEntry, Zenon
  <2> QED
    BY <1>2, <2>2, TableWrite, Zenon DEF Waiters
<1>3. CASE Goto(t, err) /\ g_sync' = g_sync
  <2>1. SameLists /\ TableOK'
    BY <1>3, Zenon DEF SameLists, Waiters, TableOK
  <2> QED
    BY <1>3, <2>1, Zenon
<1> QED
  BY <1>1, <1>2, <1>3, Zenon DEF sync_wait_impl

LEMMA FinishShape ==
    ASSUME TableOK, NEW t, NEW a \in Objects, NEW next, FinishWait(t, a, next),
           \A i \in 1 .. Len(Waiters(a)) : Waiters(a)[i] # t
    PROVE  TableOK' /\ SameLists /\ Goto(t, next)
<1> DEFINE e == g_sync[a]
           f == [e EXCEPT !.waiters = remove_waiter(e.waiters, t)]
<1>1. EntryOK(e) /\ remove_waiter(e.waiters, t) = e.waiters
  BY RemoveAbsent, Zenon DEF TableOK, Waiters
<1>2. [e EXCEPT !.waiters = e.waiters] = e
  BY <1>1 DEF EntryOK, Entry
<1>3. f = e
  BY <1>1, <1>2, Zenon
<1>4. EntryOK(retire_if_idle(e)) /\ retire_if_idle(e).waiters = e.waiters
  BY <1>1, RetiredEntry, Zenon
<1>5. g_sync' = [g_sync EXCEPT ![a] = retire_if_idle(e)] /\ Goto(t, next)
  BY <1>3, Zenon DEF FinishWait
<1>6. /\ TableOK' /\ Waiters(a)' = e.waiters
      /\ \A b \in Objects \ {a} : Waiters(b)' = Waiters(b)
  BY <1>4, <1>5, TableWrite, Zenon
<1> QED
  BY <1>5, <1>6, Zenon DEF SameLists, Waiters

LEMMA WakeShape ==
    ASSUME TableOK, NEW t, NEW a \in Objects, NEW max_n \in Nat, NEW mode, NEW next,
           sync_wake_impl(t, a, max_n, mode, next)
    PROVE  /\ TableOK'
           /\ \E k \in 0 .. Len(Waiters(a)) :
                /\ SignalAll(Popped(a, k), t, next)
                /\ Waiters(a)' = SubSeq(Waiters(a), k + 1, Len(Waiters(a)))
           /\ \A b \in Objects \ {a} : Waiters(b)' = Waiters(b)
<1> DEFINE e == g_sync[a]
           k == IF Len(e.waiters) < max_n THEN Len(e.waiters) ELSE max_n
           rest == SubSeq(e.waiters, k + 1, Len(e.waiters))
           deposit == mode = "absorb" /\ k < max_n
           d == [in_use |-> TRUE, credit |-> 1, gen |-> e.gen + 1, waiters |-> rest]
           g == [in_use |-> TRUE, credit |-> e.credit, gen |-> e.gen + 1, waiters |-> rest]
           f == IF deposit /\ (e.in_use \/ HasRoom) THEN d
                ELSE IF e.in_use THEN retire_if_idle(g) ELSE e
<1>1. EntryOK(e) /\ e = g_sync[a] /\ e.waiters \in Seq(Threads)
  BY DEF TableOK, EntryOK, Entry
<1>2. /\ SignalAll({e.waiters[i] : i \in 1 .. k}, t, next)
      /\ g_sync' = [g_sync EXCEPT ![a] = f]
  BY Zenon DEF sync_wake_impl
<1>3. k \in 0 .. Len(e.waiters)
  BY <1>1
<1>4. rest \in Seq(Threads) /\ e.gen + 1 \in Nat /\ e.credit \in {0, 1}
  BY <1>1, <1>3, SubSeqFacts DEF EntryOK, Entry
<1>5. EntryOK(d) /\ d.waiters = rest /\ EntryOK(g) /\ g.waiters = rest
  <2> HIDE DEF rest, e
  <2> QED
    BY <1>1, <1>4, NewEntry
<1>6. EntryOK(retire_if_idle(g)) /\ retire_if_idle(g).waiters = rest
  BY <1>5, RetiredEntry, Zenon
<1>7. ~e.in_use => e.waiters = rest
  <2>1. ~e.in_use => e.waiters = <<>>
    BY <1>1, Zenon DEF EntryOK
  <2>2. e.waiters = <<>> => rest = <<>>
    BY <1>1, <1>3, SubSeqFacts
  <2> QED
    BY <2>1, <2>2, Zenon
<1>8. EntryOK(f) /\ f.waiters = rest
  BY <1>1, <1>5, <1>6, <1>7, Zenon
<1>9. /\ TableOK' /\ Waiters(a)' = rest
      /\ \A b \in Objects \ {a} : Waiters(b)' = Waiters(b)
  <2> HIDE DEF f, rest
  <2> QED
    BY <1>2, <1>8, TableWrite, Zenon
<1> QED
  BY <1>2, <1>3, <1>9, Zenon DEF Waiters, Popped

-----------------------------------------------------------------------------
(* Every step has one of the shapes. *)

Shape(t) ==
    \/ Idle(t) \/ Settle(t) \/ Exit(t)
    \/ \E a \in Objects : Enter(t, a)
    \/ \E n \in Threads : Does(t, "join") /\ Join(t, n)
    \/ \E a \in Objects : \E k \in 0 .. Len(Waiters(a)) : Wake(t, a, k)
Shaped(t) == Shape(t) /\ CallAt(t, pc[t])' /\ SleepTypes'

KernelOK == pending \in [Threads -> BOOLEAN] /\ queue \in [Threads -> Seq(Threads)]

LEMMA TypesSplit == SleepTypes <=> TableOK /\ KernelOK
BY Zenon DEF SleepTypes, TableOK, KernelOK

LEMMA SameCall ==
    ASSUME NEW t, NEW l, program' = program, ip'[t] = ip[t], CallAt(t, l), pc'[t] = l
    PROVE  CallAt(t, pc[t])'
<1>1. \A x : Does(t, x)' <=> Does(t, x)
  BY Frozen, Zenon
<1> QED
  BY <1>1, Zenon DEF CallAt

(* Goto, with the table and the kernel left alone. *)
LEMMA GotoAlone ==
    ASSUME Types, NEW t \in Threads, NEW l, Goto(t, l), ip' = ip, program' = program
    PROVE  Alone(t) /\ pc'[t] = l
BY Zenon DEF Types, Goto, Alone

LEMMA IdleMakes ==
    ASSUME Types, SleepTypes, NEW t \in Threads, pc[t] \notin Still,
           NEW l, l \notin Still, Goto(t, l), ip' = ip, program' = program,
           SameLists, TableOK', UNCHANGED kernel, CallAt(t, l), l = "ret" => ~Does(t, "join")
    PROVE  Shaped(t)
<1>1. Alone(t) /\ pc'[t] = l
  BY GotoAlone, Zenon
<1>2. Idle(t)
  BY <1>1, Zenon DEF Idle
<1>3. CallAt(t, pc[t])'
  BY <1>1, SameCall, Zenon
<1>4. SleepTypes'
  BY TypesSplit, Zenon DEF SleepTypes, TableOK, KernelOK, kernel
<1> QED
  BY <1>2, <1>3, <1>4, Zenon DEF Shaped, Shape

LEMMA PlainMakes ==
    ASSUME Types, SleepTypes, NEW t \in Threads, pc[t] \notin Still,
           NEW l, l \notin Still, Goto(t, l), ip' = ip, program' = program,
           UNCHANGED <<g_sync, kernel>>, CallAt(t, l), l = "ret" => ~Does(t, "join")
    PROVE  Shaped(t)
<1>1. SameLists /\ TableOK' /\ UNCHANGED kernel
  BY TypesSplit, Zenon DEF SameLists, Waiters, TableOK
<1> QED
  BY <1>1, IdleMakes, Zenon

LEMMA WaitMakes ==
    ASSUME Types, SleepTypes, NEW t \in Threads, pc[t] \notin Still, NEW a \in Objects,
           NEW mode, NEW x, NEW ok, NEW err, NEW park \in Park,
           sync_wait_impl(t, a, mode, x, ok, err, park), ip' = ip, program' = program,
           UNCHANGED kernel, CallAt(t, ok), CallAt(t, err), CallAt(t, park),
           ok \notin Still, err \notin Still, ~Does(t, "join"),
           a = IF park = "lk_park" THEN Mtx(t) ELSE Op(t)[2]
    PROVE  Shaped(t)
<1>1. /\ TableOK'
      /\ \/ SameLists /\ (Goto(t, ok) \/ Goto(t, err))
         \/ /\ Waiters(a)' = Append(Waiters(a), t)
            /\ \A b \in Objects \ {a} : Waiters(b)' = Waiters(b)
            /\ Goto(t, park)
  BY TypesSplit, WaitShape, Zenon
<1>2. CASE SameLists /\ (Goto(t, ok) \/ Goto(t, err))
  BY <1>1, <1>2, IdleMakes, Zenon
<1>3. CASE /\ Waiters(a)' = Append(Waiters(a), t)
           /\ \A b \in Objects \ {a} : Waiters(b)' = Waiters(b)
           /\ Goto(t, park)
  <2>1. Alone(t) /\ pc'[t] = park
    BY <1>3, GotoAlone, Zenon
  <2>2. Op(t)' = Op(t) /\ Mtx(t)' = Mtx(t)
    BY Frozen, Zenon
  <2>3. WaitAddr(t)' = a
    BY <2>1, <2>2, Zenon DEF WaitAddr, Park
  <2>4. Enter(t, a)
    BY <1>3, <2>1, <2>3, Zenon DEF Enter
  <2>5. CallAt(t, pc[t])'
    BY <2>1, SameCall, Zenon
  <2>6. SleepTypes'
    BY <1>1, TypesSplit, Zenon DEF SleepTypes, TableOK, KernelOK, kernel
  <2> QED
    BY <2>4, <2>5, <2>6, Zenon DEF Shaped, Shape
<1> QED
  BY <1>1, <1>2, <1>3, Zenon

LEMMA SettleMakes ==
    ASSUME Types, SleepTypes, NEW t \in Threads, pc[t] \in Park,
           NEW b \in Blocked, NEW c, WaitOn(t, t, b, c), c \notin Still \cup {"ret"},
           ip' = ip, program' = program, UNCHANGED g_sync,
           CallAt(t, b), CallAt(t, c), pc[t] = "lk_park" <=> b = "lk_blocked"
    PROVE  Shaped(t)
<1>1. SameLists /\ TableOK'
  BY TypesSplit, Zenon DEF SameLists, Waiters, TableOK
<1>2. Op(t)' = Op(t) /\ Mtx(t)' = Mtx(t)
  BY Frozen, Zenon
<1>3. CASE pending[t]
  <2>1. pending' = [pending EXCEPT ![t] = FALSE] /\ queue' = queue /\ Goto(t, c)
    BY <1>3, Zenon DEF WaitOn
  <2>2. Alone(t) /\ pc'[t] = c
    BY <2>1, GotoAlone, Zenon
  <2>3. SleepTypes'
    BY <1>1, <2>1, TypesSplit, Zenon DEF SleepTypes, TableOK, KernelOK
  <2>4. CallAt(t, pc[t])'
    BY <2>2, SameCall, Zenon
  <2> QED
    BY <1>1, <1>2, <1>3, <2>1, <2>2, <2>3, <2>4, Zenon DEF Shaped, Shape, Settle
<1>4. CASE ~pending[t]
  <2>1. pending' = pending /\ queue' = [queue EXCEPT ![t] = Append(@, t)] /\ Goto(t, b)
    BY <1>4, Zenon DEF WaitOn
  <2>2. Alone(t) /\ pc'[t] = b
    BY <2>1, GotoAlone, Zenon
  <2>3. WaitAddr(t)' = WaitAddr(t)
    BY <1>2, <2>2, Zenon DEF WaitAddr, Park, Blocked
  <2>4. Append(queue[t], t) \in Seq(Threads)
    BY DEF SleepTypes
  <2>5. SleepTypes'
    BY <1>1, <2>1, <2>4, TypesSplit, Zenon DEF SleepTypes, TableOK, KernelOK
  <2>6. CallAt(t, pc[t])'
    BY <2>2, SameCall, Zenon
  <2> QED
    BY <1>1, <1>4, <2>1, <2>2, <2>3, <2>5, <2>6, Zenon DEF Shaped, Shape, Settle
<1> QED
  BY <1>3, <1>4, Zenon

LEMMA FinishMakes ==
    ASSUME Types, SleepTypes, Sleepers, NEW t \in Threads, pc[t] \notin Still, NEW a \in Objects,
           NEW next, FinishWait(t, a, next), next \notin Still \cup {"ret"},
           ip' = ip, program' = program, UNCHANGED kernel, CallAt(t, next)
    PROVE  Shaped(t)
<1>1. \A i \in 1 .. Len(Waiters(a)) : Waiters(a)[i] # t
  BY Zenon DEF Sleepers, ListNamed, Still
<1>2. TableOK' /\ SameLists /\ Goto(t, next)
  BY <1>1, TypesSplit, FinishShape, Zenon
<1> QED
  BY <1>2, IdleMakes, Zenon

LEMMA SignalTyped ==
    ASSUME KernelOK, NEW t, NEW l, NEW ns, SignalAll(ns, t, l)
    PROVE  KernelOK'
<1>1. \A n \in Threads : queue[n] \in Seq(Threads)
  BY Zenon DEF KernelOK
<1>2. \A n \in Threads : queue[n] # <<>> => Tail(queue[n]) \in Seq(Threads)
  BY <1>1
<1>3. queue' \in [Threads -> Seq(Threads)]
  BY <1>1, <1>2, Zenon DEF SignalAll
<1>4. pending' \in [Threads -> BOOLEAN]
  BY Zenon DEF SignalAll
<1> QED
  BY <1>3, <1>4, Zenon DEF KernelOK

LEMMA WakeMakes ==
    ASSUME Types, SleepTypes, NEW t \in Threads, pc[t] \notin Still, NEW a \in Objects,
           NEW max_n \in Nat, NEW mode, NEW next \in {"ret", "cw_wait"},
           sync_wake_impl(t, a, max_n, mode, next), ip' = ip, program' = program,
           ~Does(t, "join"), CallAt(t, next)
    PROVE  Shaped(t)
<1>1. /\ TableOK'
      /\ \E k \in 0 .. Len(Waiters(a)) :
           /\ SignalAll(Popped(a, k), t, next)
           /\ Waiters(a)' = SubSeq(Waiters(a), k + 1, Len(Waiters(a)))
      /\ \A b \in Objects \ {a} : Waiters(b)' = Waiters(b)
  BY TypesSplit, WakeShape, Zenon
<1>2. PICK k \in 0 .. Len(Waiters(a)) :
           /\ SignalAll(Popped(a, k), t, next)
           /\ Waiters(a)' = SubSeq(Waiters(a), k + 1, Len(Waiters(a)))
  BY <1>1, Zenon
<1>3. Wake(t, a, k)
  BY <1>1, <1>2, Zenon DEF Wake
<1>4. SleepTypes'
  <2>1. KernelOK'
    BY <1>2, TypesSplit, SignalTyped, Zenon
  <2> QED
    BY <1>1, <2>1, Zenon DEF SleepTypes, TableOK, KernelOK
<1>5. CallAt(t, pc[t])'
  <2>1. pc'[t] = next
    BY <1>2, Zenon DEF SignalAll
  <2> QED
    BY <2>1, SameCall, Zenon
<1> QED
  BY <1>3, <1>4, <1>5, Zenon DEF Shaped, Shape

(* The labels of a thread that runs. *)
LEMMA Running ==
    /\ {"call", "ret", "ul", "ul_wake", "sg_wake", "sp_wake",
        "lk_load", "lk_try", "lk_wait", "lk_clean", "cw_wait", "cw_clean",
        "sw_load", "sw_try", "sw_wait", "sw_clean"} \cap Still = {}
    /\ "lk_park" \in Park /\ "cw_park" \in Park /\ "sw_park" \in Park
    /\ "lk_blocked" \in Blocked /\ "cw_blocked" \in Blocked /\ "sw_blocked" \in Blocked
BY DEF Still, Asleep, Park, Blocked

LEMMA LockShapes ==
    ASSUME Types, Calling, SleepTypes, Sleepers, NEW t \in Threads,
           SyncMutexLock(t), program' = program
    PROVE  Shaped(t)
<1>a. CallAt(t, pc[t])
  BY Zenon DEF Calling
<1>b. ASSUME Does(t, "lock") \/ Does(t, "condwait")
      PROVE  /\ ~Does(t, "join") /\ Mtx(t) \in Objects
             /\ \A l \in {"ret", "lk_load", "lk_try", "lk_wait", "lk_park", "lk_blocked",
                          "lk_clean"} : CallAt(t, l)
  BY <1>b, OpFacts, Zenon DEF Does, CallAt, Objects
<1>1. CASE LockLoad(t)
  BY <1>1, <1>a, <1>b, Running, PlainMakes, Zenon DEF LockLoad, CallAt
<1>2. CASE LockTake(t)
  BY <1>2, <1>a, <1>b, Running, PlainMakes, Zenon DEF LockTake, TakeMutex, CallAt
<1>3. CASE LockRecursive(t)
  BY <1>3, <1>a, <1>b, Running, PlainMakes, Zenon DEF LockRecursive, CallAt
<1>4. CASE LockContend(t)
  BY <1>4, <1>a, <1>b, Running, PlainMakes, Zenon DEF LockContend, CallAt
<1>5. CASE LockWait(t)
  <2>1. pc[t] = "lk_wait" /\ ip' = ip /\ UNCHANGED kernel
    BY <1>5, Zenon DEF LockWait
  <2>2. Does(t, "lock") \/ Does(t, "condwait")
    BY <1>a, <2>1, Zenon DEF CallAt
  <2> QED
    BY <1>5, <1>b, <2>1, <2>2, Running, WaitMakes, Zenon DEF LockWait
<1>6. CASE LockPark(t)
  <2>1. pc[t] = "lk_park" /\ ip' = ip /\ UNCHANGED g_sync
    BY <1>6, Zenon DEF LockPark
  <2>2. Does(t, "lock") \/ Does(t, "condwait")
    BY <1>a, <2>1, Zenon DEF CallAt
  <2> QED
    BY <1>6, <1>b, <2>1, <2>2, Running, SettleMakes, Zenon DEF LockPark
<1>7. CASE LockClean(t)
  <2>1. pc[t] = "lk_clean" /\ ip' = ip /\ UNCHANGED kernel
    BY <1>7, Zenon DEF LockClean
  <2>2. Does(t, "lock") \/ Does(t, "condwait")
    BY <1>a, <2>1, Zenon DEF CallAt
  <2> QED
    BY <1>7, <1>b, <2>1, <2>2, Running, FinishMakes, Zenon DEF LockClean
<1> QED
  BY <1>1, <1>2, <1>3, <1>4, <1>5, <1>6, <1>7, Zenon DEF SyncMutexLock

LEMMA UnlockShapes ==
    ASSUME Types, Calling, SleepTypes, Sleepers, NEW t \in Threads,
           SyncMutexUnlock(t), program' = program
    PROVE  Shaped(t)
<1>a. Does(t, "unlock") \/ Does(t, "condwait")
  BY Zenon DEF Calling, CallAt, SyncMutexUnlock, UnlockRefused, UnlockNested,
                UnlockRelease, UnlockWake
<1>b. /\ ~Does(t, "join") /\ Mtx(t) \in Objects
      /\ \A l \in {"ret", "ul_wake"} : CallAt(t, l)
      /\ Op(t)[1] = "condwait" => CallAt(t, "cw_wait")
  BY <1>a, OpFacts, Zenon DEF Does, CallAt, Objects
<1>1. CASE UnlockRefused(t)
  BY <1>1, <1>b, Running, PlainMakes, Zenon DEF UnlockRefused
<1>2. CASE UnlockNested(t)
  BY <1>2, <1>b, Running, PlainMakes, Zenon DEF UnlockNested
<1>3. CASE UnlockRelease(t)
  BY <1>3, <1>b, Running, PlainMakes, Zenon DEF UnlockRelease
<1>4. CASE UnlockWake(t)
  <2>1. pc[t] = "ul_wake" /\ ip' = ip
    BY <1>4, Zenon DEF UnlockWake
  <2>2. PICK next \in {"ret", "cw_wait"} :
           sync_wake_impl(t, Mtx(t), 1, "absorb", next) /\ CallAt(t, next)
    BY <1>4, <1>b, Zenon DEF UnlockWake
  <2>3. 1 \in Nat /\ pc[t] \notin Still
    BY <2>1, Running
  <2> QED
    BY <1>b, <2>1, <2>2, <2>3, WakeMakes, Zenon
<1> QED
  BY <1>1, <1>2, <1>3, <1>4, Zenon DEF SyncMutexUnlock

LEMMA CondShapes ==
    ASSUME Types, Calling, SleepTypes, Sleepers, NEW t \in Threads,
           SyncCondvar(t), program' = program
    PROVE  Shaped(t)
<1>a. CallAt(t, pc[t])
  BY Zenon DEF Calling
<1>b. ASSUME Does(t, "condwait")
      PROVE  /\ ~Does(t, "join") /\ Op(t)[2] \in Objects
             /\ \A l \in {"lk_load", "cw_park", "cw_blocked", "cw_clean"} : CallAt(t, l)
  BY <1>b, OpFacts, Zenon DEF Does, CallAt, Objects
<1>1. CASE CondWait(t)
  <2>1. pc[t] = "cw_wait" /\ ip' = ip /\ UNCHANGED kernel /\ Does(t, "condwait")
    BY <1>1, <1>a, Zenon DEF CondWait, CallAt
  <2>2. /\ sync_wait_impl(t, Op(t)[2], "gen", cval[t], "lk_load", "lk_load", "cw_park")
    BY <1>1, Zenon DEF CondWait
  <2> QED
    BY <1>b, <2>1, <2>2, Running, WaitMakes, Zenon
<1>2. CASE CondPark(t)
  <2>1. /\ pc[t] = "cw_park" /\ ip' = ip /\ UNCHANGED g_sync /\ Does(t, "condwait")
        /\ WaitOn(t, t, "cw_blocked", "cw_clean")
    BY <1>2, <1>a, Zenon DEF CondPark, CallAt
  <2> QED
    BY <1>b, <2>1, Running, SettleMakes, Zenon
<1>3. CASE CondClean(t)
  <2>1. /\ pc[t] = "cw_clean" /\ ip' = ip /\ UNCHANGED kernel /\ Does(t, "condwait")
        /\ FinishWait(t, Op(t)[2], "lk_load")
    BY <1>3, <1>a, Zenon DEF CondClean, CallAt
  <2> QED
    BY <1>b, <2>1, Running, FinishMakes, Zenon
<1>4. CASE SignalWake(t)
  <2>1. /\ pc[t] = "sg_wake" /\ ip' = ip /\ (Does(t, "signal") \/ Does(t, "broadcast"))
    BY <1>4, <1>a, Zenon DEF SignalWake, CallAt
  <2>2. ~Does(t, "join") /\ Op(t)[2] \in Objects /\ CallAt(t, "ret")
    BY <2>1, OpFacts, Zenon DEF Does, CallAt, Objects
  <2>3. 1 \in Nat /\ MaxWaiters \in Nat /\ pc[t] \notin Still
    BY <2>1, BoundsAssumption, Running
  <2>4. PICK max_n \in Nat : sync_wake_impl(t, Op(t)[2], max_n, "discard", "ret")
    BY <1>4, <2>3, Zenon DEF SignalWake
  <2> QED
    BY <2>1, <2>2, <2>3, <2>4, WakeMakes, Zenon
<1> QED
  BY <1>1, <1>2, <1>3, <1>4, Zenon DEF SyncCondvar

LEMMA SemShapes ==
    ASSUME Types, Calling, SleepTypes, Sleepers, NEW t \in Threads,
           SyncSem(t), program' = program
    PROVE  Shaped(t)
<1>a. CallAt(t, pc[t])
  BY Zenon DEF Calling
<1>b. ASSUME Does(t, "semwait")
      PROVE  /\ ~Does(t, "join") /\ Op(t)[2] \in Objects
             /\ \A l \in {"ret", "sw_load", "sw_park", "sw_blocked", "sw_clean"} : CallAt(t, l)
  BY <1>b, OpFacts, Zenon DEF Does, CallAt, Objects
<1>c. ASSUME Does(t, "semwait") \/ Does(t, "trywait")
      PROVE  /\ ~Does(t, "join")
             /\ \A l \in {"ret", "sw_load", "sw_try"} : CallAt(t, l)
             /\ ~Does(t, "trywait") => CallAt(t, "sw_wait")
  BY <1>c, Zenon DEF Does, CallAt
<1>1. CASE PostWake(t)
  <2>1. /\ pc[t] = "sp_wake" /\ ip' = ip /\ Does(t, "post")
        /\ sync_wake_impl(t, Op(t)[2], 1, "absorb", "ret")
    BY <1>1, <1>a, Zenon DEF PostWake, CallAt
  <2>2. ~Does(t, "join") /\ Op(t)[2] \in Objects /\ CallAt(t, "ret")
    BY <2>1, OpFacts, Zenon DEF Does, CallAt, Objects
  <2>3. 1 \in Nat /\ pc[t] \notin Still
    BY <2>1, Running
  <2> QED
    BY <2>1, <2>2, <2>3, WakeMakes, Zenon
<1>2. CASE SemLoad(t)
  BY <1>2, <1>a, <1>c, Running, PlainMakes, Zenon DEF SemLoad, CallAt
<1>3. CASE SemClaim(t)
  BY <1>3, <1>a, <1>c, Running, PlainMakes, Zenon DEF SemClaim, CallAt
<1>4. CASE SemWait(t)
  <2>1. /\ pc[t] = "sw_wait" /\ ip' = ip /\ UNCHANGED kernel /\ Does(t, "semwait")
        /\ sync_wait_impl(t, Op(t)[2], "credit", 0, "sw_load", "ret", "sw_park")
    BY <1>4, <1>a, Zenon DEF SemWait, CallAt
  <2> QED
    BY <1>b, <2>1, Running, WaitMakes, Zenon
<1>5. CASE SemPark(t)
  <2>1. /\ pc[t] = "sw_park" /\ ip' = ip /\ UNCHANGED g_sync /\ Does(t, "semwait")
        /\ WaitOn(t, t, "sw_blocked", "sw_clean")
    BY <1>5, <1>a, Zenon DEF SemPark, CallAt
  <2> QED
    BY <1>b, <2>1, Running, SettleMakes, Zenon
<1>6. CASE SemClean(t)
  <2>1. /\ pc[t] = "sw_clean" /\ ip' = ip /\ UNCHANGED kernel /\ Does(t, "semwait")
        /\ FinishWait(t, Op(t)[2], "sw_load")
    BY <1>6, <1>a, Zenon DEF SemClean, CallAt
  <2> QED
    BY <1>b, <2>1, Running, FinishMakes, Zenon
<1> QED
  BY <1>1, <1>2, <1>3, <1>4, <1>5, <1>6, Zenon DEF SyncSem

LEMMA ClientShapes ==
    ASSUME Types, Calling, SleepTypes, Sleepers, NEW t \in Threads,
           Client(t), program' = program
    PROVE  Shaped(t)
<1>1. CASE CallLock(t)
  BY <1>1, Running, PlainMakes, Zenon DEF CallLock, CallAt
<1>2. CASE CallUnlock(t)
  BY <1>2, Running, PlainMakes, Zenon DEF CallUnlock, CallAt
<1>3. CASE CallCondWait(t)
  BY <1>3, Running, PlainMakes, Zenon DEF CallCondWait, CallAt
<1>4. CASE CallSignal(t)
  BY <1>4, Running, PlainMakes, Zenon DEF CallSignal, CallAt
<1>5. CASE CallPost(t)
  <2>1. Does(t, "post") => ~Does(t, "join") /\ CallAt(t, "sp_wake") /\ CallAt(t, "ret")
    BY Zenon DEF CallAt, Does
  <2> QED
    BY <1>5, <2>1, Running, PlainMakes, Zenon DEF CallPost
<1>6. CASE CallSemWait(t)
  BY <1>6, Running, PlainMakes, Zenon DEF CallSemWait, CallAt
<1>7. CASE CallSet(t)
  <2>1. Does(t, "set") => ~Does(t, "join") /\ CallAt(t, "ret")
    BY Zenon DEF CallAt, Does
  <2> QED
    BY <1>7, <2>1, Running, PlainMakes, Zenon DEF CallSet
<1>8. CASE LeaveLoop(t) \/ Return(t)
  <2>1. /\ pc'[t] = "call" /\ pc[t] \in {"call", "ret"}
        /\ \A u \in Threads \ {t} : pc'[u] = pc[u] /\ ip'[u] = ip[u]
        /\ UNCHANGED <<g_sync, kernel>>
    BY <1>8, Zenon DEF LeaveLoop, Return, Goto, Types
  <2>2. SameLists /\ SleepTypes'
    BY <2>1, Zenon DEF SameLists, Waiters, SleepTypes, kernel
  <2>3. Idle(t)
    BY <2>1, <2>2, Running, Zenon DEF Idle, Alone
  <2>4. CallAt(t, pc[t])'
    BY <2>1, Zenon DEF CallAt
  <2> QED
    BY <2>2, <2>3, <2>4, Zenon DEF Shaped, Shape
<1>9. CASE ThreadJoin(t)
  <2>1. PICK n \in Threads : n = Op(t)[2] /\ Does(t, "join")
    BY <1>9, OpFacts, Zenon DEF ThreadJoin
  <2>2. pc[t] = "call" /\ ip' = ip /\ UNCHANGED g_sync /\ WaitOn(t, n, "jn_blocked", "ret")
    BY <1>9, <2>1, Zenon DEF ThreadJoin
  <2>3. SameLists /\ TableOK'
    BY <2>2, TypesSplit, Zenon DEF SameLists, Waiters, TableOK
  <2>4. Alone(t) /\ pc'[t] \in {"jn_blocked", "ret"}
    BY <2>2, GotoAlone, Zenon DEF WaitOn
  <2>5. Append(queue[n], t) \in Seq(Threads)
    BY DEF SleepTypes
  <2>6. KernelOK'
    BY <2>2, <2>5, TypesSplit, Zenon DEF WaitOn, KernelOK
  <2>7. SleepTypes'
    BY <2>3, <2>6, Zenon DEF SleepTypes, TableOK, KernelOK
  <2>8. CallAt(t, pc[t])'
    <3>1. CallAt(t, "jn_blocked") /\ CallAt(t, "ret")
      BY <2>1, Zenon DEF CallAt
    <3> QED
      BY <2>2, <2>4, <3>1, SameCall, Zenon
  <2>9. Join(t, n)
    <3>1. /\ pending[n] => /\ pending' = [pending EXCEPT ![n] = FALSE]
                           /\ queue' = queue /\ Goto(t, "ret")
          /\ ~pending[n] => /\ queue' = [queue EXCEPT ![n] = Append(@, t)]
                            /\ pending' = pending /\ Goto(t, "jn_blocked")
      BY <2>2, Zenon DEF WaitOn
    <3>2. (Goto(t, "ret") => pc'[t] = "ret") /\ (Goto(t, "jn_blocked") => pc'[t] = "jn_blocked")
      BY <2>2, GotoAlone, Zenon
    <3> QED
      BY <2>1, <2>2, <2>3, <2>4, <3>1, <3>2, Zenon DEF Join
  <2> QED
    BY <2>1, <2>7, <2>8, <2>9, Zenon DEF Shaped, Shape
<1>10. CASE ThreadDestroy(t)
  <2>1. /\ pc[t] = "call" /\ ip' = ip /\ UNCHANGED g_sync /\ SignalAll({t}, t, "exited")
    BY <1>10, Zenon DEF ThreadDestroy
  <2>2. SameLists /\ TableOK'
    BY <2>1, TypesSplit, Zenon DEF SameLists, Waiters, TableOK
  <2>3. SleepTypes'
    <3>1. KernelOK'
      BY <2>1, TypesSplit, SignalTyped, Zenon
    <3> QED
      BY <2>2, <3>1, Zenon DEF SleepTypes, TableOK, KernelOK
  <2>4. pc'[t] = "exited"
    BY <2>1, Zenon DEF SignalAll
  <2>5. CallAt(t, pc[t])'
    BY <2>4, Zenon DEF CallAt
  <2>6. Exit(t)
    BY <2>1, <2>2, Zenon DEF Exit
  <2> QED
    BY <2>3, <2>5, <2>6, Zenon DEF Shaped, Shape
<1> QED
  BY <1>1, <1>2, <1>3, <1>4, <1>5, <1>6, <1>7, <1>8, <1>9, <1>10, Zenon DEF Client

-----------------------------------------------------------------------------
(* The invariants and the theorems. *)

LEMMA StepShape ==
    ASSUME Types, Calling, SleepTypes, Sleepers, NEW t \in Threads, Step(t)
    PROVE  Shape(t) /\ CallAt(t, pc[t])' /\ SleepTypes'
<1>1. Shaped(t)
  BY LockShapes, UnlockShapes, CondShapes, SemShapes, ClientShapes, Zenon DEF Step
<1> QED
  BY <1>1, Zenon DEF Shaped

LEMMA OthersCall ==
    ASSUME Types, Calling, NEW t \in Threads, Step(t), CallAt(t, pc[t])'
    PROVE  Calling'
<1>1. Others(t) /\ program' = program /\ pc \in [Threads -> Labels]
  BY StepMoves, StepKeepsProgram, Zenon DEF Types
<1>2. ASSUME NEW u \in Threads, u # t
      PROVE  CallAt(u, pc[u])'
  <2>1. ip'[u] = ip[u] /\ pc'[u] \in {pc[u], Resumed(pc[u])}
    BY <1>1, <1>2, Zenon DEF Others
  <2>2. CallAt(u, pc[u]) /\ CallAt(u, Resumed(pc[u]))
    <3>1. CallAt(u, pc[u])
      BY Zenon DEF Calling
    <3>2. \/ pc[u] = "lk_blocked" /\ Resumed(pc[u]) = "lk_clean"
          \/ pc[u] = "cw_blocked" /\ Resumed(pc[u]) = "cw_clean"
          \/ pc[u] = "sw_blocked" /\ Resumed(pc[u]) = "sw_clean"
          \/ Resumed(pc[u]) = "ret"
      BY DEF Resumed
    <3> QED
      BY <3>1, <3>2, Zenon DEF CallAt
  <2> QED
    BY <1>1, <2>1, <2>2, SameCall, Zenon
<1> QED
  BY <1>2, Zenon DEF Calling

(* What a step does to the joiners and, with quiet joins, to the sleepers. *)
LEMMA ShapeKeeps ==
    ASSUME Types, Calling, SleepTypes, Sleepers, JoinAfterQuietExit, NEW t \in Threads, Shape(t)
    PROVE  /\ Sleepers' /\ JoinAfterQuietExit'
           /\ JoinsQuiet /\ Awake => Awake'
<1>1. CASE Idle(t)
  <2>1. /\ Alone(t) /\ SameLists /\ pending' = pending
        /\ pc[t] \notin Still /\ pc'[t] \notin Still
        /\ pc'[t] = "ret" => ip'[t] = ip[t] /\ ~Does(t, "join")
    BY <1>1, Zenon DEF Idle, kernel
  <2>2. pc[t] # "exited" /\ pc'[t] \notin Asleep
    BY <2>1, Zenon DEF Still
  <2>3. ~(pc'[t] = "ret" /\ Does(t, "join")')
    BY <2>1, Frozen, Zenon DEF Alone
  <2>4. JoinAfterQuietExit'
    BY <2>1, <2>2, <2>3, AloneJoins, Zenon
  <2>5. \A a \in Objects : \A i \in 1 .. Len(Waiters(a)) :
           i \in 1 .. Len(Waiters(a)') /\ Waiters(a)'[i] = Waiters(a)[i]
    BY <2>1, Zenon DEF SameLists
  <2> QED
    BY <1>1, <2>1, <2>2, <2>4, <2>5, IdleKeeps, AloneAwake, Zenon
<1>2. CASE Settle(t)
  <2>1. /\ Alone(t) /\ pc[t] # "exited" /\ pc'[t] # "ret"
    BY <1>2, Zenon DEF Settle, Park, Blocked
  <2> QED
    BY <1>2, <2>1, SettleKeeps, SettleAwake, AloneJoins, Zenon
<1>3. CASE Exit(t)
  <2>1. /\ program' = program /\ ip' = ip /\ SignalAll({t}, t, "exited") /\ pc[t] = "call"
        /\ {t} \in SUBSET Threads
    BY <1>3, Zenon DEF Exit
  <2>2. pc[t] \notin Still /\ "exited" \notin Blocked
    BY <2>1, Running, Zenon DEF Blocked
  <2>3. JoinAfterQuietExit'
    BY <2>1, <2>2, SignalJoins, Zenon
  <2> QED
    BY <1>3, <2>3, ExitKeeps, ExitAwake, Zenon
<1>4. CASE \E a \in Objects : Enter(t, a)
  <2>1. PICK a \in Objects : Enter(t, a)
    BY <1>4, Zenon
  <2>2. Alone(t) /\ pc[t] # "exited" /\ pc'[t] # "ret"
    BY <2>1, Zenon DEF Enter, Park, Still
  <2> QED
    BY <2>1, <2>2, EnterKeeps, EnterAwake, AloneJoins, Zenon
<1>5. CASE \E n \in Threads : Does(t, "join") /\ Join(t, n)
  BY <1>5, JoinKeeps, JoinJoins, JoinAwake, Zenon
<1>6. CASE \E a \in Objects : \E k \in 0 .. Len(Waiters(a)) : Wake(t, a, k)
  <2>0. PICK a \in Objects : \E k \in 0 .. Len(Waiters(a)) : Wake(t, a, k)
    BY <1>6, Zenon
  <2>1. PICK k \in 0 .. Len(Waiters(a)) : Wake(t, a, k)
    BY <2>0, Zenon
  <2>2. PICK l \in {"ret", "cw_wait"} : SignalAll(Popped(a, k), t, l)
    BY <2>1, Zenon DEF Wake
  <2>3. program' = program /\ ip' = ip /\ pc[t] \notin Still /\ ~Does(t, "join")
    BY <2>1, Zenon DEF Wake
  <2>4. 1 .. k \subseteq 1 .. Len(Waiters(a))
    BY ListElements
  <2>5. \A n \in Popped(a, k) : n \in Threads /\ pc[n] \in Asleep
    <3>1. ASSUME NEW i \in 1 .. k
          PROVE  Waiters(a)[i] \in Threads /\ pc[Waiters(a)[i]] \in Asleep
      <4>1. i \in 1 .. Len(Waiters(a))
        BY <2>4, Zenon
      <4>2. Waiters(a)[i] \in Threads
        BY <4>1, ListElements, Zenon
      <4> QED
        BY <4>1, <4>2, Zenon DEF Sleepers, ListNamed
    <3> QED
      BY <3>1, Zenon DEF Popped
  <2>6. Popped(a, k) \in SUBSET Threads /\ l \notin Blocked
    BY <2>2, <2>5, Zenon DEF Blocked
  <2>7. JoinAfterQuietExit'
    BY <2>2, <2>3, <2>5, <2>6, SignalJoins, Zenon
  <2> QED
    BY <2>1, <2>7, WakeKeeps, WakeAwake, Zenon
<1> QED
  BY <1>1, <1>2, <1>3, <1>4, <1>5, <1>6, Zenon DEF Shape

LEMMA SleepInit ==
    ASSUME Init
    PROVE  Calling /\ SleepTypes /\ Sleepers /\ JoinAfterQuietExit /\ Awake
<1>1. \A t \in Threads : pc[t] = "call" /\ ~pending[t] /\ queue[t] = <<>>
  BY Zenon DEF Init
<1>2. Calling /\ JoinAfterQuietExit /\ Awake
  BY <1>1, Zenon DEF Calling, CallAt, JoinAfterQuietExit, Awake, Park, Blocked
<1>3. EntryOK(NoEntry) /\ NoEntry \in Entry /\ NoEntry.waiters = <<>> /\ <<>> \in Seq(Threads)
  BY DEF EntryOK, Entry, NoEntry
<1>4. SleepTypes
  BY <1>3, Zenon DEF Init, SleepTypes
<1>5. /\ \A a \in Objects : Waiters(a) = <<>>
      /\ 1 .. Len(<<>>) = {}
  <2>1. \A a \in Objects : Waiters(a) = <<>>
    BY <1>3, Zenon DEF Init, Waiters
  <2> QED
    BY <2>1
<1>6. ListNamed /\ ListOnce
  BY <1>5, Zenon DEF ListNamed, ListOnce
<1>7. QueueNamed /\ QueueOnce
  BY <1>1, <1>5, Zenon DEF QueueNamed, QueueOnce
<1>8. BlockedQueued /\ PendingMeans
  BY <1>1, Zenon DEF BlockedQueued, PendingMeans, Blocked
<1> QED
  BY <1>2, <1>4, <1>6, <1>7, <1>8, Zenon DEF Sleepers

LEMMA SleepStep ==
    ASSUME MutexInv, SleepInv, [Next]_vars
    PROVE  SleepInv' /\ (JoinsQuiet /\ Awake => Awake')
<1>1. /\ Types /\ Calling /\ SleepTypes /\ Sleepers /\ JoinAfterQuietExit
  BY Zenon DEF SleepInv
<1>2. CASE \E t \in Threads : Step(t)
  <2>1. PICK t \in Threads : Step(t)
    BY <1>2, Zenon
  <2>2. Shape(t) /\ CallAt(t, pc[t])' /\ SleepTypes'
    BY <1>1, <2>1, StepShape, Zenon
  <2>3. Calling'
    BY <1>1, <2>1, <2>2, OthersCall, Zenon
  <2>4. Sleepers' /\ JoinAfterQuietExit' /\ (JoinsQuiet /\ Awake => Awake')
    BY <1>1, <2>2, ShapeKeeps, Zenon
  <2>5. Types'
    BY MutexInvStep, Zenon DEF MutexInv
  <2> QED
    BY <2>2, <2>3, <2>4, <2>5, Zenon DEF SleepInv
<1>3. CASE UNCHANGED vars
  <2>1. /\ program' = program /\ pc' = pc /\ ip' = ip /\ lval' = lval /\ owner' = owner
        /\ cnt' = cnt /\ held' = held
        /\ g_sync' = g_sync /\ pending' = pending /\ queue' = queue
    BY <1>3, Zenon DEF vars, kernel
  <2>2. Types' /\ SleepTypes'
    BY <1>1, <2>1, Zenon DEF Types, SleepTypes
  <2>3. \A u \in Threads : /\ Op(u)' = Op(u)
                           /\ \A x : Does(u, x)' <=> Does(u, x)
                           /\ WaitAddr(u)' = WaitAddr(u)
                           /\ \A n : BlockedOn(u, n)' <=> BlockedOn(u, n)
    BY <2>1, Frozen, Zenon
  <2>a. Calling'
    BY <1>1, <2>1, SameCall, Zenon DEF Calling
  <2>b. \A n : Parks(n)' <=> Parks(n)
    BY <2>1, Zenon DEF Parks, Lockers, SemWaiters, Performs
  <2>4. Calling' /\ JoinAfterQuietExit'
    BY <1>1, <2>a, <2>b, <2>1, <2>3, Zenon DEF JoinAfterQuietExit
  <2>5. \A a : Waiters(a)' = Waiters(a)
    BY <2>1, Zenon DEF Waiters
  <2>6. \A u \in Threads : Queued(u)' <=> Queued(u)
    BY <2>1, <2>3, Zenon DEF Queued
  <2>7. ListNamed' /\ ListOnce' /\ QueueNamed' /\ QueueOnce'
    BY <1>1, <2>1, <2>3, <2>5, Zenon
       DEF Sleepers, ListNamed, ListOnce, QueueNamed, QueueOnce
  <2>8. BlockedQueued' /\ PendingMeans'
    BY <1>1, <2>1, <2>6, Zenon DEF Sleepers, BlockedQueued, PendingMeans
  <2>9. Awake => Awake'
    BY <2>1, <2>6, Zenon DEF Awake
  <2> QED
    BY <2>2, <2>4, <2>7, <2>8, <2>9, Zenon DEF SleepInv, Sleepers
<1> QED
  BY <1>2, <1>3, Zenon DEF Next, Finished

(* In every behaviour, for every set of threads, objects and programs: a   *)
(* ThreadJoin of a thread that never waits in a Sync call returns only     *)
(* after that thread has ended.                                            *)
THEOREM JoinWaitsForExit == Spec => []JoinAfterQuietExit
<1>1. Init => MutexInv /\ SleepInv
  BY MutexInvInit, SleepInit, Zenon DEF SleepInv, MutexInv
<1>2. MutexInv /\ SleepInv /\ [Next]_vars => MutexInv' /\ SleepInv'
  BY MutexInvStep, SleepStep, Zenon
<1>3. SleepInv => JoinAfterQuietExit
  BY Zenon DEF SleepInv
<1> QED
  BY <1>1, <1>2, <1>3, PTL DEF Spec

(* In every behaviour, for every set of threads, objects and programs and  *)
(* every table size, a thread about to block in sync_wait is in its        *)
(* object's list or has its wake pending, never both, a blocked one is in  *)
(* the list, and a list names only its own sleepers, each once. The        *)
(* programs are those that join no thread that waits in a Sync call: such  *)
(* a join shares the notification of the waits and can take their signal.  *)
THEOREM NoSleeperLost ==
    ASSUME JoinsQuiet
    PROVE  Spec => []NoLostSleeper
<1>1. Init => MutexInv /\ SleepInv /\ Awake
  BY MutexInvInit, SleepInit, Zenon DEF SleepInv, MutexInv
<1>2. MutexInv /\ SleepInv /\ Awake /\ [Next]_vars => MutexInv' /\ SleepInv' /\ Awake'
  BY MutexInvStep, SleepStep, Zenon
<1>3. SleepInv /\ Awake => NoLostSleeper
  BY SleepersFound, Zenon DEF SleepInv
<1> QED
  BY <1>1, <1>2, <1>3, PTL DEF Spec
=============================================================================
