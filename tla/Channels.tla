------------------------------ MODULE Channels ------------------------------
(***************************************************************************)
(* Channels, connections and pulses: taskman's registries                  *)
(* (taskman/proc/channel.c, connect.c, pulse.c, tm_dup_cap and the IPC     *)
(* part of tm_process_terminate in process.c) together with the client     *)
(* calls that drive them (libc/qsoe/channel.c, connect.c, msg.c).          *)
(*                                                                         *)
(* A handler of taskman is one step.  MsgReceive is several: it enters the *)
(* kernel, is woken by a message or by the bound Notification, and in the  *)
(* second case calls taskman again to fetch the pulse.  A request that is  *)
(* refused without changing anything is a stuttering step.                 *)
(*                                                                         *)
(* The kernel is modelled by what taskman relies on.  A channel's endpoint *)
(* and Notification die when the channel is freed, and every capability    *)
(* derived from them goes with them, so a live capability always means the *)
(* channel that now has the index, and the index names both objects.       *)
(***************************************************************************)
EXTENDS Naturals, Sequences

CONSTANTS TM_MAX_CHANNELS, TM_MAX_CONNECTIONS, TM_PULSE_QUEUE_LEN,
          Threads,       \* <<pid, tid>>; tid 1 is the main thread
          Chids,         \* chids libc may suggest
          FlagSets,      \* channel flags, subsets of {"global", "direct"}
          Servers,       \* pids whose programs create channels
          Clients,       \* pids whose programs connect to them
          MayExit,       \* pids that may exit
          Convention,    \* programs keep to one pulse channel per thread
          MaxSlot,       \* bound, per pid: capability slots a process is given
          MaxBadge,      \* bound: connections made in a run
          MaxGlobal      \* bound: global channels made in a run

ASSUME BoundsAssumption ==
    /\ TM_MAX_CHANNELS \in Nat \ {0} /\ TM_MAX_CONNECTIONS \in Nat \ {0}
    /\ TM_PULSE_QUEUE_LEN \in Nat \ {0}
    /\ MaxBadge \in Nat /\ MaxGlobal \in Nat
ASSUME ThreadsAssumption == Threads \subseteq (Nat \ {0}) \X (Nat \ {0})
ASSUME ChidsAssumption == Chids \subseteq Nat \ {0}
ASSUME FlagsAssumption == FlagSets \subseteq SUBSET {"global", "direct"}
ASSUME ConventionAssumption == Convention \in BOOLEAN

VARIABLES g_channels,         \* the channel table
          g_connections,      \* the connection table
          s_next_badge,       \* next scoid
          s_global_chid_next, \* next global chid
          next_slot,          \* per process: next unused CSpace slot
          live,               \* registered processes
          caps,               \* send capabilities in the clients' CSpaces
          bound,              \* per thread: index of its Notification, or 0
          active,             \* Notifications with a pending signal
          rx                  \* per thread: where it is in MsgReceive

vars == <<g_channels, g_connections, s_next_badge, s_global_chid_next,
          next_slot, live, caps, bound, active, rx>>

Procs == {t[1] : t \in Threads}
MainOf(p) == <<p, 1>>
ChIdx == 1 .. TM_MAX_CHANNELS
CnIdx == 1 .. TM_MAX_CONNECTIONS
Slots == UNION {1 .. MaxSlot[p] : p \in Procs}

ASSUME SlotsAssumption == MaxSlot \in [Procs -> Nat]

(* A chid is a name in its process or, for a global channel, in the system. *)
ChidSet == {[global |-> FALSE, n |-> c] : c \in Chids} \cup
           {[global |-> TRUE, n |-> c] : c \in 1 .. MaxGlobal}
NoChid == [global |-> FALSE, n |-> 0]

(* tm_channel_t.  The ring of pulses is a sequence; a pulse is the badge   *)
(* of the connection it came by.  since is not in the code: the first      *)
(* badge handed out after the channel was made.                            *)
Channel == [in_use: BOOLEAN, owner_pid: Procs \cup {0},
            owner_chid: ChidSet \cup {NoChid}, owner_recv: Slots \cup {0},
            direct: BOOLEAN, ntfn: BOOLEAN,
            queue: Seq(1 .. MaxBadge),
            since: 1 .. (MaxBadge + 1)]

(* tm_connection_t; ntfn stands for ntfn_slot # 0. *)
Connection == [in_use: BOOLEAN, channel_idx: ChIdx \cup {0},
               badge: 0 .. MaxBadge, client_pid: Procs \cup {0},
               client_slot: Slots \cup {0}, ntfn: BOOLEAN]

(* A send capability, and whether the signal capability of a direct        *)
(* channel was handed over with it.                                        *)
Cap == [client: Procs, slot: Slots, channel_idx: ChIdx, badge: 1 .. MaxBadge,
        ntfn: BOOLEAN]

(* The fields of a row that is not in use are not read, except that the    *)
(* pulses of a freed channel stay where they are.                          *)
FreedChannel(c) == [in_use |-> FALSE, owner_pid |-> 0, owner_chid |-> NoChid,
                    owner_recv |-> 0, direct |-> FALSE, ntfn |-> FALSE,
                    queue |-> c.queue, since |-> 1]
NoConnection == [in_use |-> FALSE, channel_idx |-> 0, badge |-> 0,
                 client_pid |-> 0, client_slot |-> 0, ntfn |-> FALSE]

Running == [phase |-> "run", slot |-> 0]

-----------------------------------------------------------------------------
(* Lookups: every one is a scan that stops at the first match, given here  *)
(* as the set of that one index, or the empty set.                         *)
First(S) == {i \in S : \A j \in S : i <= j}

channel_find(p, chid) ==
    First({i \in ChIdx : /\ g_channels[i].in_use
                         /\ g_channels[i].owner_chid = chid
                         /\ chid.global \/ g_channels[i].owner_pid = p})

channel_by_recv(p, slot) ==
    First({i \in ChIdx : /\ g_channels[i].in_use
                         /\ g_channels[i].owner_pid = p
                         /\ g_channels[i].owner_recv = slot})

connection_find_by_slot(p, slot) ==
    First({i \in CnIdx : /\ g_connections[i].in_use
                         /\ g_connections[i].client_pid = p
                         /\ g_connections[i].client_slot = slot})

connection_find_by_badge(b) ==
    First({i \in CnIdx : g_connections[i].in_use /\ g_connections[i].badge = b})

channel_alloc_slot_idx == First({i \in ChIdx : ~g_channels[i].in_use})
connection_alloc_slot_idx == First({i \in CnIdx : ~g_connections[i].in_use})

(* tm_channel_by_badge, then tm_channel_index of the answer: how a pulse   *)
(* finds its channel.                                                      *)
tm_channel_by_badge(b) ==
    UNION {channel_find(g_channels[k].owner_pid, g_channels[k].owner_chid) :
             k \in {i \in ChIdx : /\ g_channels[i].in_use
                                  /\ \E j \in connection_find_by_badge(b) :
                                       g_connections[j].channel_idx = i}}

(* tm_connection_client_pid. *)
tm_connection_client_pid(b) ==
    {g_connections[j].client_pid : j \in connection_find_by_badge(b)}

-----------------------------------------------------------------------------
(* The kernel: bound Notifications. *)

BoundThreads(n) == {t \in Threads : bound[t] = n}

(* qsoe_tcb_bind_notification succeeds when neither side is bound. *)
CanBind(b, t, n) == b[t] = 0 /\ \A u \in Threads : b[u] # n

(* What MsgReceive does when the Notification of channel n ends its wait:  *)
(* a direct channel's badge makes it return an empty pulse at once.        *)
Woken(n, slot) == IF g_channels[n].direct THEN Running
                  ELSE [phase |-> "fetch", slot |-> slot]

(* qsoe_sys_signal: a bound thread that is receiving takes the signal;     *)
(* otherwise it stays pending, and a second one adds nothing.              *)
Signal(n, r) ==
    LET listening == {t \in BoundThreads(n) : n \notin active /\ r[t].phase = "recv"}
    IN  /\ rx' = [t \in Threads |-> IF t \in listening THEN Woken(n, r[t].slot)
                                    ELSE r[t]]
        /\ active' = IF listening = {} THEN active \cup {n} ELSE active

(* Deleting the objects of the channels in C: their capabilities vanish,   *)
(* bound threads lose the binding, and a thread blocked on an endpoint     *)
(* that is gone takes a capability fault.                                  *)
Revoke(C, b) ==
    /\ caps' = {c \in caps : c.channel_idx \notin C}
    /\ bound' = [t \in Threads |-> IF b[t] \in C THEN 0 ELSE b[t]]
    /\ active' = active \ C
FaultedBy(C) ==
    {t \in Threads : /\ rx[t].phase = "recv"
                     /\ \E i \in C : /\ g_channels[i].owner_pid = t[1]
                                     /\ g_channels[i].owner_recv = rx[t].slot}

Calls(t) == t[1] \in live /\ rx[t] = Running

Unused(p) == next_slot[p] <= MaxSlot[p]
TakeSlot(p) == next_slot' = [next_slot EXCEPT ![p] = @ + 1]

-----------------------------------------------------------------------------
Init ==
    /\ g_channels = [i \in ChIdx |->
                       [in_use |-> FALSE, owner_pid |-> 0, owner_chid |-> NoChid,
                        owner_recv |-> 0, direct |-> FALSE, ntfn |-> FALSE,
                        queue |-> <<>>, since |-> 1]]
    /\ g_connections = [i \in CnIdx |-> NoConnection]
    /\ s_next_badge = 1
    /\ s_global_chid_next = 1
    /\ next_slot = [p \in Procs |-> 1]
    /\ live = Procs
    /\ caps = {}
    /\ bound = [t \in Threads |-> 0]
    /\ active = {}
    /\ rx = [t \in Threads |-> Running]

(* Mutant: the new channel takes over the pulse counters of the row. *)
NewChannelKeepsQueue(p, chid, flags, ntfn, old) ==
    [in_use |-> TRUE, owner_pid |-> p, owner_chid |-> chid,
     owner_recv |-> next_slot[p], direct |-> "direct" \in flags,
     ntfn |-> ntfn, queue |-> old.queue, since |-> s_next_badge]

NewChannel(p, chid, flags, ntfn, old) ==
    [in_use |-> TRUE, owner_pid |-> p, owner_chid |-> chid,
     owner_recv |-> next_slot[p], direct |-> "direct" \in flags,
     ntfn |-> ntfn, queue |-> <<>>, since |-> s_next_badge]

(* ChannelCreate: libc suggests a chid, taskman names a global channel     *)
(* itself.  The Notification is bound to the creating thread; when there   *)
(* is no memory for it, or the thread has a binding, the channel goes      *)
(* without.  A global chid is spent even if the table is full.             *)
tm_channel_create(t, flags) ==
    LET p == t[1]
        chid == [global |-> TRUE, n |-> s_global_chid_next]
    IN  /\ Calls(t) /\ Unused(p) /\ p \in Servers
        /\ "global" \in flags => s_global_chid_next <= MaxGlobal
        /\ s_global_chid_next' =
             s_global_chid_next + (IF "global" \in flags THEN 1 ELSE 0)
        /\ \E name \in (IF "global" \in flags THEN {chid}
                        ELSE {[global |-> FALSE, n |-> c] : c \in Chids}),
              memory \in BOOLEAN :
             /\ channel_find(p, name) = {}
             /\ \/ /\ channel_alloc_slot_idx = {} /\ "global" \in flags
                   /\ UNCHANGED <<g_channels, next_slot, bound>>
                \/ \E i \in channel_alloc_slot_idx :
                     LET ntfn == memory /\ CanBind(bound, t, i)
                     IN  /\ g_channels' = [g_channels EXCEPT ![i] =
                              NewChannel(p, name, flags, ntfn, g_channels[i])]
                         /\ bound' = IF ntfn THEN [bound EXCEPT ![t] = i] ELSE bound
                         /\ TakeSlot(p)
        /\ UNCHANGED <<g_connections, s_next_badge, live, caps, active, rx>>

(* TM_REQ_CHANNEL_BIND_THREAD: whatever the main thread is bound to is     *)
(* unbound first; the bind may then fail, and the main thread stays        *)
(* unbound.  By convention the thread is not receiving yet.                *)
tm_channel_bind_thread(t, w) ==
    LET p == t[1]
        b == [bound EXCEPT ![MainOf(p)] = 0]
    IN  /\ Calls(t) /\ w[1] = p /\ w # MainOf(p)
        /\ Convention => rx[w].phase # "recv"
        /\ \E i \in ChIdx :
             /\ g_channels[i].in_use /\ g_channels[i].owner_pid = p
             /\ g_channels[i].ntfn
             /\ bound' = IF CanBind(b, w, i) THEN [b EXCEPT ![w] = i] ELSE b
        /\ UNCHANGED <<g_channels, g_connections, s_next_badge,
                       s_global_chid_next, next_slot, live, caps, active, rx>>

(* Mutant: the connections of a destroyed channel stay in the table. *)
DropNothing(C) == g_connections

tm_connections_drop_for_channel_idx(C) ==
    [i \in CnIdx |-> IF g_connections[i].in_use /\ g_connections[i].channel_idx \in C
                     THEN NoConnection ELSE g_connections[i]]

(* ChannelDestroy: the main thread is unbound whatever it is bound to, the *)
(* objects are revoked and deleted, the connections dropped, the row       *)
(* freed.                                                                  *)
tm_channel_destroy(t) ==
    LET p == t[1]
    IN  /\ Calls(t)
        /\ \E i \in ChIdx :
             /\ g_channels[i].in_use /\ g_channels[i].owner_pid = p
             /\ Revoke({i}, IF g_channels[i].ntfn
                            THEN [bound EXCEPT ![MainOf(p)] = 0] ELSE bound)
             /\ rx' = [u \in Threads |-> IF u \in FaultedBy({i})
                                         THEN [phase |-> "fault", slot |-> 0]
                                         ELSE rx[u]]
             /\ g_connections' = tm_connections_drop_for_channel_idx({i})
             /\ g_channels' = [g_channels EXCEPT ![i] = FreedChannel(@)]
        /\ UNCHANGED <<s_next_badge, s_global_chid_next, next_slot, live>>

-----------------------------------------------------------------------------
(* Connections. *)

(* ConnectAttach: the badge and the slots are spent, the capability is     *)
(* minted, and the first free row records both.  The copy of a direct      *)
(* channel's signal capability is best effort; its slot is not numbered.   *)
tm_connect_attach(t) ==
    LET p == t[1]
    IN  /\ Calls(t) /\ Unused(p) /\ p \in Clients /\ s_next_badge <= MaxBadge
        /\ \E q \in Procs, chid \in ChidSet, copied \in BOOLEAN :
             \E k \in channel_find(q, chid), i \in connection_alloc_slot_idx :
               LET ntfn == g_channels[k].direct /\ g_channels[k].ntfn /\ copied
               IN  /\ caps' = caps \cup
                        {[client |-> p, slot |-> next_slot[p], channel_idx |-> k,
                          badge |-> s_next_badge, ntfn |-> ntfn]}
                   /\ g_connections' = [g_connections EXCEPT ![i] =
                        [in_use |-> TRUE, channel_idx |-> k, badge |-> s_next_badge,
                         client_pid |-> p, client_slot |-> next_slot[p],
                         ntfn |-> ntfn]]
        /\ TakeSlot(p)
        /\ s_next_badge' = s_next_badge + 1
        /\ UNCHANGED <<g_channels, s_global_chid_next, live, bound, active, rx>>

(* ConnectDetach, and the second half of close: the row is found by slot,  *)
(* the capabilities deleted, the row freed.                                *)
tm_connect_detach(t) ==
    /\ Calls(t)
    /\ \E s \in Slots : \E i \in connection_find_by_slot(t[1], s) :
         /\ caps' = {c \in caps : ~(c.client = t[1] /\ c.slot = s)}
         /\ g_connections' = [g_connections EXCEPT ![i] = NoConnection]
    /\ UNCHANGED <<g_channels, s_next_badge, s_global_chid_next, next_slot,
                   live, bound, active, rx>>

(* Mutant: the capability is copied and no row is made for the copy. *)
DupCapNoRow(t) ==
    LET p == t[1]
    IN  /\ Calls(t) /\ Unused(p)
        /\ \E c \in caps :
             /\ c.client = p
             /\ caps' = caps \cup {[c EXCEPT !.slot = next_slot[p], !.ntfn = FALSE]}
        /\ TakeSlot(p)
        /\ UNCHANGED <<g_channels, g_connections, s_next_badge,
                       s_global_chid_next, live, bound, active, rx>>

(* dup of a descriptor: tm_dup_cap copies the capability into a slot libc  *)
(* chose and tm_connection_clone_for_dup copies the row, badge included.   *)
(* With no row to copy or none free the copy is deleted again.             *)
tm_dup_cap(t) ==
    LET p == t[1]
    IN  /\ Calls(t) /\ Unused(p)
        /\ \E c \in caps :
             /\ c.client = p
             /\ \E j \in connection_find_by_slot(p, c.slot),
                   i \in connection_alloc_slot_idx :
                  g_connections' = [g_connections EXCEPT ![i] =
                    [g_connections[j] EXCEPT !.client_slot = next_slot[p],
                                             !.ntfn = FALSE]]
             /\ caps' = caps \cup {[c EXCEPT !.slot = next_slot[p], !.ntfn = FALSE]}
        /\ TakeSlot(p)
        /\ UNCHANGED <<g_channels, s_next_badge, s_global_chid_next, live,
                       bound, active, rx>>

-----------------------------------------------------------------------------
(* Pulses. *)

PulseRoom(i) == Len(g_channels[i].queue) < TM_PULSE_QUEUE_LEN

(* MsgSendPulse without a direct capability: TM_REQ_PULSE_SEND queues the  *)
(* pulse at the channel the row's badge leads to and signals it.  A full   *)
(* queue is EAGAIN.                                                        *)
tm_pulse_send(t) ==
    /\ Calls(t)
    /\ \E s \in Slots : \E j \in connection_find_by_slot(t[1], s) :
         /\ ~g_connections[j].ntfn
         /\ \E i \in tm_channel_by_badge(g_connections[j].badge) :
              /\ PulseRoom(i)
              /\ g_channels' = [g_channels EXCEPT ![i].queue =
                                  Append(@, g_connections[j].badge)]
              /\ IF g_channels[i].ntfn THEN Signal(i, rx)
                 ELSE UNCHANGED <<active, rx>>
    /\ UNCHANGED <<g_connections, s_next_badge, s_global_chid_next, next_slot,
                   live, caps, bound>>

(* MsgSendPulse with one: the signal goes straight to the kernel; the      *)
(* payload is dropped.                                                     *)
DirectPulse(t) ==
    /\ Calls(t)
    /\ \E c \in caps : c.client = t[1] /\ c.ntfn /\ Signal(c.channel_idx, rx)
    /\ UNCHANGED <<g_channels, g_connections, s_next_badge, s_global_chid_next,
                   next_slot, live, caps, bound>>

(* MsgReceive enters the kernel: a pending signal of the thread's own      *)
(* Notification ends it at once, whatever channel it is called on.  By     *)
(* convention a thread with a Notification receives on that channel.       *)
MsgReceive(t) ==
    /\ Calls(t)
    /\ \E i \in ChIdx :
         /\ g_channels[i].in_use /\ g_channels[i].owner_pid = t[1]
         /\ Convention => bound[t] \in {0, i}
         /\ IF bound[t] \in active
            THEN /\ active' = active \ {bound[t]}
                 /\ rx' = [rx EXCEPT ![t] = Woken(bound[t], g_channels[i].owner_recv)]
            ELSE /\ rx' = [rx EXCEPT ![t] = [phase |-> "recv",
                                             slot |-> g_channels[i].owner_recv]]
                 /\ UNCHANGED active
    /\ UNCHANGED <<g_channels, g_connections, s_next_badge, s_global_chid_next,
                   next_slot, live, caps, bound>>

(* MsgReceive returns a message some holder of a capability has sent. *)
MsgReceiveMessage(t) ==
    /\ rx[t].phase = "recv"
    /\ \E i \in channel_by_recv(t[1], rx[t].slot) :
         \E c \in caps : c.channel_idx = i
    /\ rx' = [rx EXCEPT ![t] = Running]
    /\ UNCHANGED <<g_channels, g_connections, s_next_badge, s_global_chid_next,
                   next_slot, live, caps, bound, active>>

(* Mutant: the Notification is not signalled again for what is left. *)
FetchNoRearm(t) ==
    /\ rx[t].phase = "fetch"
    /\ \E i \in channel_by_recv(t[1], rx[t].slot) :
         /\ g_channels[i].queue # <<>>
         /\ g_channels' = [g_channels EXCEPT ![i].queue = Tail(@)]
    /\ rx' = [rx EXCEPT ![t] = Running]
    /\ UNCHANGED <<g_connections, s_next_badge, s_global_chid_next, next_slot,
                   live, caps, bound, active>>

(* TM_REQ_PULSE_FETCH for the channel MsgReceive was called on: the oldest *)
(* pulse leaves the queue, and the Notification is signalled again if      *)
(* there are more.                                                         *)
tm_pulse_fetch(t) ==
    /\ rx[t].phase = "fetch"
    /\ \E i \in channel_by_recv(t[1], rx[t].slot) :
         /\ g_channels[i].queue # <<>>
         /\ g_channels' = [g_channels EXCEPT ![i].queue = Tail(@)]
         /\ IF Len(g_channels[i].queue) > 1 /\ g_channels[i].ntfn
            THEN Signal(i, [rx EXCEPT ![t] = Running])
            ELSE rx' = [rx EXCEPT ![t] = Running] /\ UNCHANGED active
    /\ UNCHANGED <<g_connections, s_next_badge, s_global_chid_next, next_slot,
                   live, caps, bound>>

(* The fetch finds no channel or no pulse: MsgReceive returns an empty     *)
(* message.                                                                *)
SpuriousWake(t) ==
    /\ rx[t].phase = "fetch"
    /\ \A i \in channel_by_recv(t[1], rx[t].slot) : g_channels[i].queue = <<>>
    /\ rx' = [rx EXCEPT ![t] = Running]
    /\ UNCHANGED <<g_channels, g_connections, s_next_badge, s_global_chid_next,
                   next_slot, live, caps, bound, active>>

-----------------------------------------------------------------------------
(* Processes. *)

(* tm_process_terminate, as far as these tables go: threads, then the      *)
(* channels of the process with their objects, then the rows it held as a  *)
(* client.  Rows of other processes that name its channels stay.           *)
tm_process_terminate(p) ==
    LET owned == {i \in ChIdx : g_channels[i].in_use /\ g_channels[i].owner_pid = p}
    IN  /\ p \in live \cap MayExit
        /\ g_channels' = [i \in ChIdx |-> IF i \in owned THEN FreedChannel(g_channels[i])
                                          ELSE g_channels[i]]
        /\ caps' = {c \in caps : c.channel_idx \notin owned /\ c.client # p}
        /\ bound' = [t \in Threads |-> IF t[1] = p THEN 0 ELSE bound[t]]
        /\ active' = active \ owned
        /\ rx' = [t \in Threads |-> IF t[1] = p THEN Running ELSE rx[t]]
        /\ g_connections' = [i \in CnIdx |->
             IF g_connections[i].in_use /\ g_connections[i].client_pid = p
             THEN NoConnection ELSE g_connections[i]]
        /\ live' = live \ {p}
        /\ next_slot' = [next_slot EXCEPT ![p] = 1]
        /\ UNCHANGED <<s_next_badge, s_global_chid_next>>

(* tm_process_register gives the pid to a new process. *)
tm_process_register(p) ==
    /\ p \notin live
    /\ live' = live \cup {p}
    /\ UNCHANGED <<g_channels, g_connections, s_next_badge, s_global_chid_next,
                   next_slot, caps, bound, active, rx>>

Next ==
    \/ \E t \in Threads :
         \/ \E flags \in FlagSets : tm_channel_create(t, flags)
         \/ \E w \in Threads : tm_channel_bind_thread(t, w)
         \/ tm_channel_destroy(t)
         \/ tm_connect_attach(t)
         \/ tm_connect_detach(t)
         \/ tm_dup_cap(t)
         \/ tm_pulse_send(t)
         \/ DirectPulse(t)
         \/ MsgReceive(t)
         \/ MsgReceiveMessage(t)
         \/ tm_pulse_fetch(t)
         \/ SpuriousWake(t)
    \/ \E p \in Procs : tm_process_terminate(p) \/ tm_process_register(p)

Spec == Init /\ [][Next]_vars

-----------------------------------------------------------------------------
(* The registry and the capability spaces agree: a row in use and a send   *)
(* capability of its client are the same connection to the same channel.   *)
(* tm_channel_destroy keeps this by dropping the rows of the channel, and  *)
(* tm_connect_detach and tm_dup_cap by doing both sides.                   *)
RowMatchesCap ==
    {[client |-> g_connections[i].client_pid, slot |-> g_connections[i].client_slot,
      channel_idx |-> g_connections[i].channel_idx, badge |-> g_connections[i].badge] :
       i \in {j \in CnIdx : g_connections[j].in_use}}
    = {[client |-> c.client, slot |-> c.slot, channel_idx |-> c.channel_idx,
        badge |-> c.badge] : c \in caps}

(* A server that is sent a message with some badge can rely on it: the     *)
(* badge of every live capability leads, by the first row that has it, to  *)
(* the process that holds the capability (tm_connection_client_pid, used   *)
(* for bulk transfers) and to the channel it was attached to               *)
(* (tm_channel_by_badge, used for pulses), dups and global chids included. *)
BadgeResolves ==
    \A c \in caps : /\ tm_connection_client_pid(c.badge) = {c.client}
                    /\ tm_channel_by_badge(c.badge) = {c.channel_idx}

(* A pulse is only ever queued at the channel its connection was attached  *)
(* to, never at a later channel that reuses the row.                       *)
NoStrayPulse ==
    \A i \in ChIdx : g_channels[i].in_use =>
        \A n \in 1 .. Len(g_channels[i].queue) :
            g_channels[i].queue[n] >= g_channels[i].since

(* Queued pulses are not forgotten: when a channel with a Notification     *)
(* (and no direct wake) holds pulses, a thread that was woken is about to  *)
(* fetch from it, or its signal is pending and the bound thread is not     *)
(* already blocked in MsgReceive, where it would not see it.               *)
NoForgottenPulse ==
    \A i \in ChIdx :
        LET c == g_channels[i]
        IN  c.in_use /\ c.ntfn /\ ~c.direct /\ c.queue # <<>> =>
              \/ \E t \in Threads : /\ t[1] = c.owner_pid
                                    /\ rx[t] = [phase |-> "fetch", slot |-> c.owner_recv]
              \/ i \in active /\ \A t \in BoundThreads(i) : rx[t].phase # "recv"
=============================================================================
