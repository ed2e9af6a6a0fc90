--------------------------- MODULE ChannelProofs ----------------------------
(***************************************************************************)
(* taskman's channel and connection tables and the capabilities of its     *)
(* clients: what a badge means, and that a queued pulse is fetched, for    *)
(* any number of channels, connections, processes and pulses.              *)
(***************************************************************************)
EXTENDS Channels, WellFoundedInduction, TLAPS

(* The type of the tables. *)
TablesTypeOK ==
    /\ g_channels \in [ChIdx -> Channel]
    /\ g_connections \in [CnIdx -> Connection]
    /\ s_next_badge \in 1 .. (MaxBadge + 1)
    /\ s_global_chid_next \in Nat \ {0}
    /\ next_slot \in [Procs -> Nat \ {0}]
    /\ caps \subseteq Cap

(* Row i records the connection that capability c belongs to. *)
RowOf(i, c) ==
    /\ g_connections[i].in_use
    /\ g_connections[i].client_pid = c.client
    /\ g_connections[i].client_slot = c.slot
    /\ g_connections[i].channel_idx = c.channel_idx
    /\ g_connections[i].badge = c.badge

(* Rows in use have badges and slots that were handed out; no two are for  *)
(* the same slot of a client; the ones that share a badge (dups) are       *)
(* connections of the same client to the same channel.                     *)
RowsOK ==
    /\ \A i \in CnIdx : g_connections[i].in_use =>
          /\ g_connections[i].client_pid \in Procs
          /\ g_connections[i].channel_idx \in ChIdx
          /\ g_connections[i].badge \in 1 .. (s_next_badge - 1)
          /\ g_connections[i].client_slot \in 1 .. (next_slot[g_connections[i].client_pid] - 1)
    /\ \A i, j \in CnIdx :
          /\ g_connections[i].in_use /\ g_connections[j].in_use
          /\ g_connections[i].client_pid = g_connections[j].client_pid
          /\ g_connections[i].client_slot = g_connections[j].client_slot
          => i = j
    /\ \A i, j \in CnIdx :
          /\ g_connections[i].in_use /\ g_connections[j].in_use
          /\ g_connections[i].badge = g_connections[j].badge
          => /\ g_connections[i].client_pid = g_connections[j].client_pid
             /\ g_connections[i].channel_idx = g_connections[j].channel_idx

(* A capability is for a channel that exists, and has its row. *)
CapsOK ==
    \A c \in caps : /\ g_channels[c.channel_idx].in_use
                    /\ \E i \in CnIdx : RowOf(i, c)

(* No two channels answer to the same name. *)
NamesOK ==
    \A i, j \in ChIdx :
       /\ g_channels[i].in_use /\ g_channels[j].in_use
       /\ g_channels[i].owner_chid = g_channels[j].owner_chid
       /\ \/ g_channels[i].owner_chid.global
          \/ g_channels[i].owner_pid = g_channels[j].owner_pid
       => i = j

RegistryInv == TablesTypeOK /\ RowsOK /\ CapsOK /\ NamesOK

(* When no process that owns channels exits: every row has its capability, *)
(* and its badge is no older than the channel.                             *)
MirrorInv ==
    /\ \A i \in ChIdx : g_channels[i].in_use =>
          g_channels[i].owner_pid \in Servers /\ g_channels[i].since <= s_next_badge
    /\ \A i \in CnIdx : g_connections[i].in_use =>
          /\ \E c \in caps : RowOf(i, c)
          /\ g_connections[i].badge >= g_channels[g_connections[i].channel_idx].since
    /\ NoStrayPulse

-----------------------------------------------------------------------------
(* Lemmas about the scans. *)

LEMMA LeastExists ==
    ASSUME NEW S, S \subseteq Nat, S # {}
    PROVE  \E i \in S : \A j \in S : i <= j
<1> DEFINE R == OpToRel(<, Nat)
<1>1. \A x, y \in Nat : <<y, x>> \in R <=> y < x
  BY Zenon DEF OpToRel
<1>2. IsWellFoundedOn(R, Nat)
  BY NatLessThanWellFounded, Zenon
<1> HIDE DEF R
<1>3. PICK x \in S : \A y \in S : ~(<<y, x>> \in R)
  BY <1>2, WFMin, Zenon
<1>4. ASSUME NEW y \in S PROVE x <= y
  <2>1. x \in Nat /\ y \in Nat /\ ~(<<y, x>> \in R)
    BY <1>3, Zenon
  <2> QED
    BY <1>1, <2>1
<1> QED
  BY <1>4, Zenon

(* A scan finds a match, and finds one whenever there is one. *)
LEMMA FirstFinds ==
    ASSUME NEW S, S \subseteq Nat
    PROVE  First(S) \subseteq S /\ (S # {} => First(S) # {})
BY LeastExists, Zenon DEF First

LEMMA IndexesAreNat == ChIdx \subseteq Nat /\ CnIdx \subseteq Nat
BY BoundsAssumption DEF ChIdx, CnIdx

LEMMA FreeRows ==
    /\ \A i \in channel_alloc_slot_idx : i \in ChIdx /\ ~g_channels[i].in_use
    /\ \A i \in connection_alloc_slot_idx : i \in CnIdx /\ ~g_connections[i].in_use
BY Zenon DEF channel_alloc_slot_idx, connection_alloc_slot_idx, First

LEMMA RowBySlot ==
    ASSUME NEW p, NEW slot, NEW i \in connection_find_by_slot(p, slot)
    PROVE  /\ i \in CnIdx /\ g_connections[i].in_use
           /\ g_connections[i].client_pid = p /\ g_connections[i].client_slot = slot
BY Zenon DEF connection_find_by_slot, First

LEMMA ChannelByName ==
    ASSUME NEW p, NEW chid
    PROVE  /\ \A i \in channel_find(p, chid) :
                 /\ i \in ChIdx /\ g_channels[i].in_use
                 /\ g_channels[i].owner_chid = chid
                 /\ chid.global \/ g_channels[i].owner_pid = p
           /\ \A i \in ChIdx :
                 /\ g_channels[i].in_use /\ g_channels[i].owner_chid = chid
                 /\ chid.global \/ g_channels[i].owner_pid = p
                 => channel_find(p, chid) # {}
<1> DEFINE S == {i \in ChIdx : /\ g_channels[i].in_use
                               /\ g_channels[i].owner_chid = chid
                               /\ chid.global \/ g_channels[i].owner_pid = p}
<1>1. S \subseteq Nat
  BY IndexesAreNat, Zenon
<1>2. channel_find(p, chid) = First(S)
  BY Zenon DEF channel_find
<1>3. First(S) \subseteq S /\ (S # {} => First(S) # {})
  BY <1>1, FirstFinds, Zenon
<1> QED
  BY <1>2, <1>3, SMTT(30)

(* With unique names the scan for a channel's own name finds the channel.  *)
LEMMA FindsItself ==
    ASSUME NamesOK, NEW i \in ChIdx, g_channels[i].in_use
    PROVE  channel_find(g_channels[i].owner_pid, g_channels[i].owner_chid) = {i}
<1> DEFINE F == channel_find(g_channels[i].owner_pid, g_channels[i].owner_chid)
<1>1. F # {}
  BY ChannelByName
<1>2. \A j \in F : j = i
  BY ChannelByName, Zenon DEF NamesOK
<1> QED
  BY <1>1, <1>2, Zenon

(* The badge of a row in use leads to the client and to the channel of     *)
(* that row, if the channel is still there.                                *)
LEMMA BadgeOfRow ==
    ASSUME RowsOK, NamesOK, NEW i \in CnIdx, g_connections[i].in_use
    PROVE  /\ tm_connection_client_pid(g_connections[i].badge) =
                {g_connections[i].client_pid}
           /\ g_channels[g_connections[i].channel_idx].in_use =>
                tm_channel_by_badge(g_connections[i].badge) =
                  {g_connections[i].channel_idx}
           /\ ~g_channels[g_connections[i].channel_idx].in_use =>
                tm_channel_by_badge(g_connections[i].badge) = {}
<1> DEFINE b == g_connections[i].badge
           k == g_connections[i].channel_idx
           S == {j \in CnIdx : g_connections[j].in_use /\ g_connections[j].badge = b}
           F == connection_find_by_badge(b)
<1>1. F \subseteq S /\ F # {}
  <2>1. S \subseteq Nat /\ S # {}
    BY IndexesAreNat, Zenon
  <2>2. F = First(S)
    BY Zenon DEF connection_find_by_badge
  <2> HIDE DEF S, F
  <2> QED
    BY <2>1, <2>2, FirstFinds, Zenon
<1>2. \A j \in F : /\ g_connections[j].client_pid = g_connections[i].client_pid
                   /\ g_connections[j].channel_idx = k
  BY <1>1, Zenon DEF RowsOK
<1>3. k \in ChIdx
  BY Zenon DEF RowsOK
<1>4. tm_connection_client_pid(b) = {g_connections[i].client_pid}
  BY <1>1, <1>2, Zenon DEF tm_connection_client_pid
<1>5. {n \in ChIdx : g_channels[n].in_use /\ \E j \in F : g_connections[j].channel_idx = n}
        = IF g_channels[k].in_use THEN {k} ELSE {}
  BY <1>1, <1>2, <1>3, Zenon
<1>6. g_channels[k].in_use => tm_channel_by_badge(b) = {k}
  <2> DEFINE K == {n \in ChIdx : /\ g_channels[n].in_use
                                 /\ \E j \in F : g_connections[j].channel_idx = n}
             name(n) == channel_find(g_channels[n].owner_pid, g_channels[n].owner_chid)
  <2>1. tm_channel_by_badge(b) = UNION {name(n) : n \in K}
    BY Zenon DEF tm_channel_by_badge
  <2>2. g_channels[k].in_use => K = {k} /\ name(k) = {k}
    BY <1>3, <1>5, FindsItself, Zenon
  <2> HIDE DEF K, name
  <2> QED
    BY <2>1, <2>2, Zenon
<1>7. ~g_channels[k].in_use => tm_channel_by_badge(b) = {}
  BY <1>5, Zenon DEF tm_channel_by_badge
<1> QED
  BY <1>4, <1>6, <1>7, Zenon

LEMMA RegistryGivesBadges ==
    ASSUME RegistryInv
    PROVE  BadgeResolves
<1> SUFFICES ASSUME NEW c \in caps
             PROVE  /\ tm_connection_client_pid(c.badge) = {c.client}
                    /\ tm_channel_by_badge(c.badge) = {c.channel_idx}
  BY Zenon DEF BadgeResolves
<1>1. PICK i \in CnIdx : RowOf(i, c)
  BY Zenon DEF RegistryInv, CapsOK
<1>2. g_channels[c.channel_idx].in_use
  BY Zenon DEF RegistryInv, CapsOK
<1> QED
  BY <1>1, <1>2, BadgeOfRow, Zenon DEF RowOf, RegistryInv

LEMMA MirrorGivesRows ==
    ASSUME RegistryInv, MirrorInv
    PROVE  /\ RowMatchesCap
           /\ \A i \in CnIdx : g_connections[i].in_use =>
                g_channels[g_connections[i].channel_idx].in_use
<1>1. \A i \in CnIdx : g_connections[i].in_use => \E c \in caps : RowOf(i, c)
  BY Zenon DEF MirrorInv
<1>2. \A c \in caps : /\ g_channels[c.channel_idx].in_use
                      /\ \E i \in CnIdx : RowOf(i, c)
  BY Zenon DEF RegistryInv, CapsOK
<1>3. RowMatchesCap
  BY <1>1, <1>2 DEF RowMatchesCap, RowOf
<1> QED
  BY <1>1, <1>2, <1>3, Zenon DEF RowOf

-----------------------------------------------------------------------------
(* The invariant, handler by handler. *)

LEMMA RegistryInit ==
    ASSUME Init
    PROVE  RegistryInv /\ MirrorInv
<1>1. TablesTypeOK
  <2>1. g_channels \in [ChIdx -> Channel]
    BY BoundsAssumption DEF Init, Channel
  <2>2. g_connections \in [CnIdx -> Connection]
    BY BoundsAssumption DEF Init, Connection, NoConnection
  <2>3. /\ s_next_badge \in 1 .. (MaxBadge + 1) /\ s_global_chid_next \in Nat \ {0}
        /\ next_slot \in [Procs -> Nat \ {0}] /\ caps \subseteq Cap
    BY BoundsAssumption DEF Init
  <2> QED
    BY <2>1, <2>2, <2>3, Zenon DEF TablesTypeOK
<1>2. RowsOK /\ CapsOK /\ NamesOK /\ MirrorInv
  BY Zenon DEF Init, RowsOK, CapsOK, NamesOK, NoConnection, MirrorInv, NoStrayPulse
<1> QED
  BY <1>1, <1>2, Zenon DEF RegistryInv

LEMMA SameTables ==
    ASSUME RegistryInv,
           UNCHANGED <<g_channels, g_connections, s_next_badge, next_slot, caps>>,
           s_global_chid_next' \in Nat \ {0}
    PROVE  RegistryInv' /\ (MirrorInv => MirrorInv')
<1>1. RegistryInv'
  BY DEF RegistryInv, TablesTypeOK, RowsOK, CapsOK, NamesOK, RowOf
<1>2. MirrorInv => MirrorInv'
  BY Zenon DEF MirrorInv, NoStrayPulse, RowOf
<1> QED
  BY <1>1, <1>2, Zenon

(* A write to the pulse queue of a channel. *)
QueueWritten(i, q) == g_channels' = [g_channels EXCEPT ![i].queue = q]

LEMMA QueueOnly ==
    ASSUME g_channels \in [ChIdx -> Channel], NEW i \in ChIdx,
           NEW q \in Seq(1 .. MaxBadge), QueueWritten(i, q)
    PROVE  /\ g_channels' \in [ChIdx -> Channel]
           /\ \A j \in ChIdx :
                /\ g_channels'[j].in_use = g_channels[j].in_use
                /\ g_channels'[j].owner_pid = g_channels[j].owner_pid
                /\ g_channels'[j].owner_chid = g_channels[j].owner_chid
                /\ g_channels'[j].owner_recv = g_channels[j].owner_recv
                /\ g_channels'[j].direct = g_channels[j].direct
                /\ g_channels'[j].ntfn = g_channels[j].ntfn
                /\ g_channels'[j].since = g_channels[j].since
                /\ g_channels'[j].queue = IF j = i THEN q ELSE g_channels[j].queue
BY ZenonT(30) DEF QueueWritten, Channel

LEMMA QueueKeepsRegistry ==
    ASSUME RegistryInv, NEW i \in ChIdx, NEW q \in Seq(1 .. MaxBadge), QueueWritten(i, q),
           UNCHANGED <<g_connections, s_next_badge, s_global_chid_next, next_slot, caps>>
    PROVE  /\ RegistryInv'
           /\ /\ MirrorInv
              /\ g_channels[i].in_use => \A n \in 1 .. Len(q) : q[n] >= g_channels[i].since
              => MirrorInv'
<1>1. /\ g_channels' \in [ChIdx -> Channel]
      /\ \A j \in ChIdx :
            /\ g_channels'[j].in_use = g_channels[j].in_use
            /\ g_channels'[j].owner_pid = g_channels[j].owner_pid
            /\ g_channels'[j].owner_chid = g_channels[j].owner_chid
            /\ g_channels'[j].since = g_channels[j].since
            /\ g_channels'[j].queue = IF j = i THEN q ELSE g_channels[j].queue
  BY QueueOnly DEF RegistryInv, TablesTypeOK
<1>2. TablesTypeOK' /\ RowsOK'
  BY <1>1 DEF RegistryInv, TablesTypeOK, RowsOK
<1>3. CapsOK'
  BY <1>1 DEF RegistryInv, TablesTypeOK, CapsOK, RowOf, Cap
<1>4. NamesOK'
  BY <1>1 DEF RegistryInv, NamesOK
<1>5. ASSUME MirrorInv,
             g_channels[i].in_use => \A n \in 1 .. Len(q) : q[n] >= g_channels[i].since
      PROVE  MirrorInv'
  <2>1. /\ \A j \in ChIdx : g_channels'[j].in_use =>
              /\ g_channels'[j].owner_pid \in Servers
              /\ g_channels'[j].since <= s_next_badge'
        /\ \A j \in CnIdx : g_connections'[j].in_use =>
              /\ \E c \in caps' : RowOf(j, c)'
              /\ g_connections'[j].badge >= g_channels'[g_connections'[j].channel_idx].since
    BY <1>1, <1>5 DEF MirrorInv, RegistryInv, RowsOK, RowOf
  <2>2. NoStrayPulse'
    BY <1>1, <1>5, Zenon DEF MirrorInv, NoStrayPulse
  <2> QED
    BY <2>1, <2>2, Zenon DEF MirrorInv
<1> QED
  BY <1>2, <1>3, <1>4, <1>5, Zenon DEF RegistryInv

(* ChannelCreate names the new channel as no other one is named; no        *)
(* capability points to the row it takes.                                  *)
LEMMA CreateKeepsRegistry ==
    ASSUME RegistryInv, NEW t \in Threads, NEW flags \in FlagSets,
           tm_channel_create(t, flags)
    PROVE  RegistryInv' /\ (MirrorInv => MirrorInv')
<1> DEFINE p == t[1]
<1>1. p \in Procs /\ next_slot[p] \in Slots /\ next_slot[p] \in Nat
  BY SlotsAssumption
     DEF tm_channel_create, Unused, Procs, Slots, RegistryInv, TablesTypeOK
<1>2. /\ UNCHANGED <<g_connections, s_next_badge, caps>>
      /\ s_global_chid_next' \in Nat \ {0}
  BY DEF tm_channel_create, RegistryInv, TablesTypeOK
<1>3. CASE UNCHANGED <<g_channels, next_slot>>
  BY <1>2, <1>3, SameTables, Zenon
<1>4. ASSUME NEW i \in channel_alloc_slot_idx, NEW name \in ChidSet, NEW ntfn \in BOOLEAN,
             channel_find(p, name) = {}, TakeSlot(p),
             g_channels' = [g_channels EXCEPT ![i] =
                              NewChannel(p, name, flags, ntfn, g_channels[i])]
      PROVE  RegistryInv' /\ (MirrorInv => MirrorInv')
  <2> DEFINE new == NewChannel(p, name, flags, ntfn, g_channels[i])
  <2>1. i \in ChIdx /\ ~g_channels[i].in_use
    BY FreeRows, Zenon
  <2>2. /\ new \in Channel /\ new.in_use
        /\ new.owner_pid = p /\ new.owner_chid = name /\ new.queue = <<>>
        /\ new.since = s_next_badge /\ s_next_badge \in Nat
    BY <1>1, <1>4, BoundsAssumption DEF NewChannel, Channel, RegistryInv, TablesTypeOK
  <2> HIDE DEF new
  <2>3. /\ g_channels' \in [ChIdx -> Channel]
        /\ \A j \in ChIdx : g_channels'[j] = IF j = i THEN new ELSE g_channels[j]
    BY <1>4, <2>1, <2>2, Zenon DEF RegistryInv, TablesTypeOK, new
  <2>4. /\ next_slot' \in [Procs -> Nat \ {0}]
        /\ \A q \in Procs : next_slot'[q] >= next_slot[q]
    BY <1>1, <1>4 DEF TakeSlot, RegistryInv, TablesTypeOK
  <2>5. TablesTypeOK'
    BY <1>2, <2>3, <2>4, Zenon DEF RegistryInv, TablesTypeOK
  <2>6. RowsOK'
    BY <1>2, <2>4 DEF RegistryInv, TablesTypeOK, RowsOK
  <2>7. CapsOK'
    BY <1>2, <2>1, <2>2, <2>3 DEF RegistryInv, TablesTypeOK, CapsOK, RowOf, Cap
  <2>8. NamesOK'
    BY <1>4, <2>2, <2>3, ChannelByName DEF RegistryInv, NamesOK
  <2>9. ASSUME MirrorInv PROVE MirrorInv'
    <3>1. \A j \in CnIdx : g_connections[j].in_use =>
             g_channels'[g_connections[j].channel_idx] = g_channels[g_connections[j].channel_idx]
      BY <2>1, <2>3, <2>9, MirrorGivesRows DEF RegistryInv, RowsOK
    <3>2. \A j \in CnIdx : g_connections'[j].in_use =>
             /\ \E c \in caps' : RowOf(j, c)'
             /\ g_connections'[j].badge >= g_channels'[g_connections'[j].channel_idx].since
      BY <1>2, <2>9, <3>1, SMTT(30) DEF MirrorInv, RowOf
    <3>3. \A j \in ChIdx : g_channels'[j].in_use =>
             /\ g_channels'[j].owner_pid \in Servers
             /\ g_channels'[j].since <= s_next_badge'
      BY <1>2, <2>2, <2>3, <2>9 DEF MirrorInv, tm_channel_create
    <3>4. NoStrayPulse'
      BY <2>2, <2>3, <2>9 DEF MirrorInv, NoStrayPulse
    <3> QED
      BY <3>2, <3>3, <3>4, Zenon DEF MirrorInv
  <2> QED
    BY <2>5, <2>6, <2>7, <2>8, <2>9, Zenon DEF RegistryInv
<1>5. PICK name \in (IF "global" \in flags
                     THEN {[global |-> TRUE, n |-> s_global_chid_next]}
                     ELSE {[global |-> FALSE, n |-> c] : c \in Chids}) :
        /\ channel_find(p, name) = {}
        /\ \/ UNCHANGED <<g_channels, next_slot>>
           \/ \E i \in channel_alloc_slot_idx, memory \in BOOLEAN :
                /\ g_channels' = [g_channels EXCEPT ![i] =
                     NewChannel(p, name, flags, memory /\ CanBind(bound, t, i),
                                g_channels[i])]
                /\ TakeSlot(p)
  BY Zenon DEF tm_channel_create
<1>6. name \in ChidSet
  BY DEF ChidSet, tm_channel_create, RegistryInv, TablesTypeOK
<1> QED
  BY <1>3, <1>4, <1>5, <1>6, Zenon

LEMMA FreedFields ==
    \A c \in Channel : /\ FreedChannel(c) \in Channel /\ ~FreedChannel(c).in_use
BY BoundsAssumption DEF FreedChannel, Channel

(* ChannelDestroy and the end of a process free channels C and rows D:     *)
(* the capabilities left are the ones whose channel and row stay.          *)
LEMMA DropKeepsRegistry ==
    ASSUME RegistryInv, NEW C, NEW D,
           g_channels' = [i \in ChIdx |-> IF i \in C THEN FreedChannel(g_channels[i])
                                          ELSE g_channels[i]],
           g_connections' = [i \in CnIdx |-> IF i \in D THEN NoConnection
                                             ELSE g_connections[i]],
           UNCHANGED <<s_next_badge, s_global_chid_next>>,
           next_slot' \in [Procs -> Nat \ {0}],
           \A i \in CnIdx \ D : g_connections[i].in_use =>
              next_slot'[g_connections[i].client_pid] = next_slot[g_connections[i].client_pid],
           caps' \subseteq caps,
           \A c \in caps' : c.channel_idx \notin C /\ \A i \in D : ~RowOf(i, c)
    PROVE  /\ RegistryInv'
           /\ /\ MirrorInv
              /\ \A i \in CnIdx \ D : \A c \in caps : RowOf(i, c) => c \in caps'
              => MirrorInv'
<1>1. \A i \in ChIdx : /\ i \in C => ~g_channels'[i].in_use
                       /\ i \notin C => g_channels'[i] = g_channels[i]
  BY FreedFields, Zenon DEF RegistryInv, TablesTypeOK
<1>2. \A i \in CnIdx : /\ i \in D => ~g_connections'[i].in_use
                       /\ i \notin D => g_connections'[i] = g_connections[i]
  BY Zenon DEF NoConnection
<1>3. TablesTypeOK'
  <2>1. g_channels' \in [ChIdx -> Channel]
    BY FreedFields, Zenon DEF RegistryInv, TablesTypeOK
  <2>2. NoConnection \in Connection
    BY BoundsAssumption DEF NoConnection, Connection
  <2>3. g_connections' \in [CnIdx -> Connection]
    BY <2>2, SMTT(30) DEF RegistryInv, TablesTypeOK
  <2> QED
    BY <2>1, <2>3, Zenon DEF RegistryInv, TablesTypeOK
<1>4. RowsOK'
  BY <1>2 DEF RegistryInv, RowsOK
<1>5. CapsOK'
  <2> SUFFICES ASSUME NEW c \in caps'
               PROVE  /\ g_channels'[c.channel_idx].in_use
                      /\ \E i \in CnIdx : RowOf(i, c)'
    BY Zenon DEF CapsOK
  <2>1. c \in caps /\ c.channel_idx \in ChIdx \ C
    BY Zenon DEF RegistryInv, TablesTypeOK, Cap
  <2>2. PICK i \in CnIdx : RowOf(i, c)
    BY <2>1, Zenon DEF RegistryInv, CapsOK
  <2>3. RowOf(i, c)'
    BY <1>2, <2>2, Zenon DEF RowOf
  <2> QED
    BY <1>1, <2>1, <2>3, Zenon DEF RegistryInv, CapsOK
<1>6. NamesOK'
  BY <1>1, SMTT(30) DEF RegistryInv, NamesOK
<1>7. ASSUME MirrorInv,
             \A i \in CnIdx \ D : \A c \in caps : RowOf(i, c) => c \in caps'
      PROVE  MirrorInv'
  <2>1. ASSUME NEW i \in CnIdx, g_connections'[i].in_use
        PROVE  /\ \E c \in caps' : RowOf(i, c)'
               /\ g_connections'[i].badge >= g_channels'[g_connections'[i].channel_idx].since
    <3>1. i \notin D /\ g_connections'[i] = g_connections[i]
      BY <1>2, <2>1, Zenon
    <3>2. PICK c \in caps : RowOf(i, c)
      BY <1>7, <2>1, <3>1, Zenon DEF MirrorInv
    <3>3. c \in caps' /\ RowOf(i, c)'
      BY <1>7, <3>1, <3>2, Zenon DEF RowOf
    <3>4. g_connections[i].channel_idx \in ChIdx \ C
      BY <3>2, <3>3, Zenon DEF RegistryInv, TablesTypeOK, Cap, RowOf
    <3>5. g_connections[i].badge >= g_channels[g_connections[i].channel_idx].since
      BY <1>7, <2>1, <3>1, Zenon DEF MirrorInv
    <3> QED
      BY <1>1, <3>1, <3>3, <3>4, <3>5, Zenon
  <2>2. \A i \in ChIdx : g_channels'[i].in_use =>
           /\ g_channels'[i].owner_pid \in Servers
           /\ g_channels'[i].since <= s_next_badge'
    BY <1>1, <1>7, Zenon DEF MirrorInv
  <2>3. NoStrayPulse'
    BY <1>1, <1>7, Zenon DEF MirrorInv, NoStrayPulse
  <2> QED
    BY <2>1, <2>2, <2>3, Zenon DEF MirrorInv
<1> QED
  BY <1>3, <1>4, <1>5, <1>6, <1>7, Zenon DEF RegistryInv

LEMMA DestroyKeepsRegistry ==
    ASSUME RegistryInv, NEW t \in Threads, tm_channel_destroy(t)
    PROVE  RegistryInv' /\ (MirrorInv => MirrorInv')
<1>1. PICK i \in ChIdx :
        /\ caps' = {c \in caps : c.channel_idx \notin {i}}
        /\ g_connections' = tm_connections_drop_for_channel_idx({i})
        /\ g_channels' = [g_channels EXCEPT ![i] = FreedChannel(g_channels[i])]
  BY Zenon DEF tm_channel_destroy, Revoke
<1> DEFINE D == {j \in CnIdx : g_connections[j].in_use /\ g_connections[j].channel_idx = i}
<1>2. g_channels' = [j \in ChIdx |-> IF j \in {i} THEN FreedChannel(g_channels[j])
                                     ELSE g_channels[j]]
  BY <1>1, Zenon DEF RegistryInv, TablesTypeOK
<1>3. g_connections' = [j \in CnIdx |-> IF j \in D THEN NoConnection ELSE g_connections[j]]
  BY <1>1, Zenon DEF tm_connections_drop_for_channel_idx
<1>4. /\ UNCHANGED <<s_next_badge, s_global_chid_next, next_slot>>
      /\ next_slot' \in [Procs -> Nat \ {0}]
  BY Zenon DEF tm_channel_destroy, RegistryInv, TablesTypeOK
<1>5. /\ caps' \subseteq caps
      /\ \A c \in caps' : c.channel_idx \notin {i} /\ \A j \in D : ~RowOf(j, c)
      /\ \A j \in CnIdx \ D : \A c \in caps : RowOf(j, c) => c \in caps'
  BY <1>1, Zenon DEF RowOf
<1> HIDE DEF D
<1> QED
  BY <1>2, <1>3, <1>4, <1>5, DropKeepsRegistry, ZenonT(30)

(* The end of a process: its rows go with its capabilities.  The rows of   *)
(* others that lead to its channels stay, so the second part needs that it *)
(* owns none.                                                              *)
LEMMA TerminateKeepsRegistry ==
    ASSUME RegistryInv, NEW p \in Procs, tm_process_terminate(p)
    PROVE  /\ RegistryInv'
           /\ MayExit \cap Servers = {} /\ MirrorInv => MirrorInv'
<1> DEFINE C == {i \in ChIdx : g_channels[i].in_use /\ g_channels[i].owner_pid = p}
           D == {i \in CnIdx : g_connections[i].in_use /\ g_connections[i].client_pid = p}
<1>1. g_channels' = [i \in ChIdx |-> IF i \in C THEN FreedChannel(g_channels[i])
                                     ELSE g_channels[i]]
  BY Zenon DEF tm_process_terminate
<1>2. g_connections' = [i \in CnIdx |-> IF i \in D THEN NoConnection ELSE g_connections[i]]
  BY Zenon DEF tm_process_terminate
<1>3. /\ UNCHANGED <<s_next_badge, s_global_chid_next>>
      /\ next_slot' \in [Procs -> Nat \ {0}]
      /\ \A i \in CnIdx \ D : g_connections[i].in_use =>
            next_slot'[g_connections[i].client_pid] = next_slot[g_connections[i].client_pid]
  BY DEF tm_process_terminate, RegistryInv, TablesTypeOK, RowsOK
<1>4. /\ caps' \subseteq caps
      /\ \A c \in caps' : c.channel_idx \notin C /\ \A i \in D : ~RowOf(i, c)
  BY Zenon DEF tm_process_terminate, RowOf
<1>5. MayExit \cap Servers = {} /\ MirrorInv => C = {}
  BY Zenon DEF tm_process_terminate, MirrorInv
<1>6. C = {} => \A i \in CnIdx \ D : \A c \in caps : RowOf(i, c) => c \in caps'
  BY Zenon DEF tm_process_terminate, RowOf
<1> HIDE DEF C, D
<1> QED
  BY <1>1, <1>2, <1>3, <1>4, <1>5, <1>6, DropKeepsRegistry, ZenonT(30)

(* A new row at a free index, and the capability it is for, in a slot of   *)
(* the client that nothing used before.                                    *)
LEMMA NewRowKeepsRegistry ==
    ASSUME RegistryInv, NEW i \in connection_alloc_slot_idx, NEW r \in Connection,
           NEW cap \in Cap,
           g_connections' = [g_connections EXCEPT ![i] = r],
           caps' = caps \cup {cap},
           TakeSlot(cap.client), s_next_badge' \in 1 .. (MaxBadge + 1),
           s_next_badge' >= s_next_badge,
           UNCHANGED <<g_channels, s_global_chid_next>>,
           r.in_use, r.client_pid = cap.client, r.client_slot = cap.slot,
           r.channel_idx = cap.channel_idx, r.badge = cap.badge,
           cap.slot = next_slot[cap.client], g_channels[cap.channel_idx].in_use,
           cap.badge < s_next_badge',
           \A j \in CnIdx : g_connections[j].in_use /\ g_connections[j].badge = cap.badge
              => /\ g_connections[j].client_pid = cap.client
                 /\ g_connections[j].channel_idx = cap.channel_idx
    PROVE  /\ RegistryInv'
           /\ MirrorInv /\ cap.badge >= g_channels[cap.channel_idx].since => MirrorInv'
<1>1. i \in CnIdx /\ ~g_connections[i].in_use
  BY FreeRows, Zenon
<1>2. \A j \in CnIdx : g_connections'[j] = IF j = i THEN r ELSE g_connections[j]
  BY <1>1, Zenon DEF RegistryInv, TablesTypeOK
<1>3. /\ cap.client \in Procs /\ cap.slot \in Nat /\ cap.channel_idx \in ChIdx
      /\ cap.badge \in 1 .. MaxBadge
  BY Zenon DEF Cap, RegistryInv, TablesTypeOK
<1>4. /\ next_slot' \in [Procs -> Nat \ {0}]
      /\ \A q \in Procs : next_slot'[q] = IF q = cap.client THEN next_slot[q] + 1
                                          ELSE next_slot[q]
  BY <1>3 DEF TakeSlot, RegistryInv, TablesTypeOK
<1>5. TablesTypeOK'
  BY <1>1, <1>4, SMTT(30) DEF RegistryInv, TablesTypeOK
<1>6. RowsOK'
  <2>1. \A j \in CnIdx : g_connections'[j].in_use =>
          /\ g_connections'[j].client_pid \in Procs
          /\ g_connections'[j].channel_idx \in ChIdx
          /\ g_connections'[j].badge \in 1 .. (s_next_badge' - 1)
          /\ g_connections'[j].client_slot \in
               1 .. (next_slot'[g_connections'[j].client_pid] - 1)
    BY <1>2, <1>3, <1>4, SMTT(30) DEF RegistryInv, TablesTypeOK, RowsOK
  <2>2. \A j \in CnIdx : g_connections[j].in_use =>
          ~(g_connections[j].client_pid = cap.client /\ g_connections[j].client_slot = cap.slot)
    BY <1>3 DEF RegistryInv, TablesTypeOK, RowsOK
  <2>3. \A j, k \in CnIdx :
          /\ g_connections'[j].in_use /\ g_connections'[k].in_use
          /\ g_connections'[j].client_pid = g_connections'[k].client_pid
          /\ g_connections'[j].client_slot = g_connections'[k].client_slot
          => j = k
    BY <1>2, <2>2 DEF RegistryInv, RowsOK
  <2>4. \A j, k \in CnIdx :
          /\ g_connections'[j].in_use /\ g_connections'[k].in_use
          /\ g_connections'[j].badge = g_connections'[k].badge
          => /\ g_connections'[j].client_pid = g_connections'[k].client_pid
             /\ g_connections'[j].channel_idx = g_connections'[k].channel_idx
    BY <1>2, SMTT(30) DEF RegistryInv, RowsOK
  <2> QED
    BY <2>1, <2>3, <2>4, SMTT(30) DEF RowsOK
<1>7. RowOf(i, cap)' /\ \A j \in CnIdx, c \in caps : RowOf(j, c) => RowOf(j, c)'
  BY <1>1, <1>2, SMTT(30) DEF RowOf
<1>8. CapsOK' /\ NamesOK'
  BY <1>1, <1>7, SMTT(30) DEF RegistryInv, CapsOK, NamesOK
<1>9. ASSUME MirrorInv, cap.badge >= g_channels[cap.channel_idx].since
      PROVE  MirrorInv'
  <2>1. \A j \in CnIdx : g_connections'[j].in_use =>
           /\ \E c \in caps' : RowOf(j, c)'
           /\ g_connections'[j].badge >= g_channels'[g_connections'[j].channel_idx].since
    BY <1>2, <1>7, <1>9, SMTT(30) DEF MirrorInv
  <2>2. /\ \A j \in ChIdx : g_channels'[j].in_use =>
              /\ g_channels'[j].owner_pid \in Servers
              /\ g_channels'[j].since <= s_next_badge'
        /\ NoStrayPulse'
    BY <1>9, SMTT(30) DEF MirrorInv, NoStrayPulse, RegistryInv, TablesTypeOK, Channel
  <2> QED
    BY <2>1, <2>2, SMTT(30) DEF MirrorInv
<1> QED
  BY <1>5, <1>6, <1>8, <1>9, Zenon DEF RegistryInv

LEMMA AttachKeepsRegistry ==
    ASSUME RegistryInv, NEW t \in Threads, tm_connect_attach(t)
    PROVE  RegistryInv' /\ (MirrorInv => MirrorInv')
<1> DEFINE p == t[1]
<1>1. /\ p \in Procs /\ next_slot[p] \in Slots
      /\ s_next_badge \in 1 .. MaxBadge /\ s_next_badge' = s_next_badge + 1
      /\ TakeSlot(p) /\ UNCHANGED <<g_channels, s_global_chid_next>>
  BY SlotsAssumption
     DEF tm_connect_attach, Unused, Procs, Slots, RegistryInv, TablesTypeOK
<1>2. PICK k \in ChIdx, i \in connection_alloc_slot_idx, copied \in BOOLEAN :
        g_channels[k].in_use /\
        LET ntfn == g_channels[k].direct /\ g_channels[k].ntfn /\ copied
        IN  /\ caps' = caps \cup
                 {[client |-> p, slot |-> next_slot[p], channel_idx |-> k,
                   badge |-> s_next_badge, ntfn |-> ntfn]}
            /\ g_connections' = [g_connections EXCEPT ![i] =
                 [in_use |-> TRUE, channel_idx |-> k, badge |-> s_next_badge,
                  client_pid |-> p, client_slot |-> next_slot[p], ntfn |-> ntfn]]
  <2>1. \A q \in Procs, chid \in ChidSet : \A n \in channel_find(q, chid) :
           n \in ChIdx /\ g_channels[n].in_use
    BY ChannelByName, Zenon
  <2> QED
    BY <2>1, ZenonT(30) DEF tm_connect_attach
<1>3. k \in ChIdx /\ g_channels[k].in_use
  BY <1>2, Zenon
<1>4. (g_channels[k].direct /\ g_channels[k].ntfn /\ copied) \in BOOLEAN
  BY SMTT(30)
<1> DEFINE n == g_channels[k].direct /\ g_channels[k].ntfn /\ copied
           cap == [client |-> p, slot |-> next_slot[p], channel_idx |-> k,
                   badge |-> s_next_badge, ntfn |-> n]
           r == [in_use |-> TRUE, channel_idx |-> k, badge |-> s_next_badge,
                 client_pid |-> p, client_slot |-> next_slot[p], ntfn |-> n]
<1>5. cap \in Cap /\ r \in Connection
  BY <1>1, <1>3, <1>4 DEF Cap, Connection
<1>6. \A j \in CnIdx : g_connections[j].in_use => g_connections[j].badge # s_next_badge
  BY DEF RegistryInv, TablesTypeOK, RowsOK
<1>7. MirrorInv => cap.badge >= g_channels[cap.channel_idx].since
  BY <1>3, SMTT(30) DEF MirrorInv, RegistryInv, TablesTypeOK, Channel
<1>8. /\ caps' = caps \cup {cap} /\ g_connections' = [g_connections EXCEPT ![i] = r]
      /\ r.in_use /\ r.client_pid = cap.client /\ r.client_slot = cap.slot
      /\ r.channel_idx = cap.channel_idx /\ r.badge = cap.badge
      /\ cap.slot = next_slot[cap.client] /\ g_channels[cap.channel_idx].in_use
      /\ cap.client = p /\ cap.badge = s_next_badge
  BY <1>2, <1>3, Zenon
<1>9. /\ s_next_badge' \in 1 .. (MaxBadge + 1) /\ s_next_badge' >= s_next_badge
      /\ cap.badge < s_next_badge' /\ TakeSlot(cap.client)
  <2>1. s_next_badge \in 1 .. MaxBadge /\ s_next_badge' = s_next_badge + 1
    BY <1>1, Zenon
  <2>2. /\ s_next_badge' \in 1 .. (MaxBadge + 1) /\ s_next_badge' >= s_next_badge
        /\ s_next_badge < s_next_badge'
    BY <2>1, BoundsAssumption, SMTT(30)
  <2> HIDE DEF cap
  <2> QED
    BY <1>1, <1>8, <2>2, Zenon
<1> HIDE DEF cap, r
<1> QED
  BY <1>1, <1>5, <1>6, <1>7, <1>8, <1>9, NewRowKeepsRegistry, Zenon

LEMMA DupKeepsRegistry ==
    ASSUME RegistryInv, NEW t \in Threads, tm_dup_cap(t)
    PROVE  RegistryInv' /\ (MirrorInv => MirrorInv')
<1> DEFINE p == t[1]
           copyOf(c) == [c EXCEPT !.slot = next_slot[p], !.ntfn = FALSE]
           rowFrom(r) == [r EXCEPT !.client_slot = next_slot[p], !.ntfn = FALSE]
<1>1. /\ TakeSlot(p) /\ UNCHANGED <<g_channels, s_next_badge, s_global_chid_next>>
      /\ Unused(p)
  BY Zenon DEF tm_dup_cap
<1>2. p \in Procs /\ next_slot[p] \in Slots
  BY <1>1, SlotsAssumption DEF Unused, Procs, Slots, RegistryInv, TablesTypeOK
<1>3. PICK c \in caps :
        \E j \in connection_find_by_slot(p, c.slot), i \in connection_alloc_slot_idx :
          /\ c.client = p
          /\ g_connections' = [g_connections EXCEPT ![i] = rowFrom(g_connections[j])]
          /\ caps' = caps \cup {copyOf(c)}
  BY Zenon DEF tm_dup_cap
<1>4. /\ \A x \in Cap : /\ copyOf(x) \in Cap /\ copyOf(x).client = x.client
                        /\ copyOf(x).slot = next_slot[p]
                        /\ copyOf(x).channel_idx = x.channel_idx
                        /\ copyOf(x).badge = x.badge
      /\ \A x \in Connection :
                        /\ rowFrom(x) \in Connection /\ rowFrom(x).in_use = x.in_use
                        /\ rowFrom(x).client_pid = x.client_pid
                        /\ rowFrom(x).client_slot = next_slot[p]
                        /\ rowFrom(x).channel_idx = x.channel_idx
                        /\ rowFrom(x).badge = x.badge
  BY <1>2, ZenonT(30) DEF Cap, Connection
<1> HIDE DEF copyOf, rowFrom
<1>5. PICK j \in connection_find_by_slot(p, c.slot), i \in connection_alloc_slot_idx :
        /\ c.client = p
        /\ g_connections' = [g_connections EXCEPT ![i] = rowFrom(g_connections[j])]
        /\ caps' = caps \cup {copyOf(c)}
  BY <1>3, Zenon
<1>6. j \in CnIdx /\ RowOf(j, c) /\ c \in Cap /\ g_connections[j] \in Connection
  <2>1. PICK k \in CnIdx : RowOf(k, c)
    BY Zenon DEF RegistryInv, CapsOK
  <2>2. /\ j \in CnIdx /\ g_connections[j].in_use
        /\ g_connections[j].client_pid = p /\ g_connections[j].client_slot = c.slot
    BY RowBySlot
  <2>3. j = k
    BY <1>5, <2>1, <2>2, Zenon DEF RegistryInv, RowsOK, RowOf
  <2> QED
    BY <2>1, <2>3, Zenon DEF RegistryInv, TablesTypeOK
<1>7. PICK cap \in Cap, r \in Connection :
        /\ caps' = caps \cup {cap} /\ g_connections' = [g_connections EXCEPT ![i] = r]
        /\ r.in_use /\ r.client_pid = cap.client /\ r.client_slot = cap.slot
        /\ r.channel_idx = cap.channel_idx /\ r.badge = cap.badge
        /\ cap.slot = next_slot[cap.client]
        /\ cap.client = p /\ cap.channel_idx = c.channel_idx /\ cap.badge = c.badge
  <2>1. copyOf(c) \in Cap /\ rowFrom(g_connections[j]) \in Connection
    BY <1>4, <1>6, SMTT(30)
  <2>2. LET cap == copyOf(c)
            r == rowFrom(g_connections[j])
        IN  /\ r.in_use /\ r.client_pid = cap.client /\ r.client_slot = cap.slot
            /\ r.channel_idx = cap.channel_idx /\ r.badge = cap.badge
            /\ cap.slot = next_slot[cap.client]
            /\ cap.client = p /\ cap.channel_idx = c.channel_idx /\ cap.badge = c.badge
    BY <1>4, <1>5, <1>6, SMTT(30) DEF RowOf
  <2> QED
    BY <1>5, <2>1, <2>2, ZenonT(30)
<1>8. \A k \in CnIdx : g_connections[k].in_use /\ g_connections[k].badge = cap.badge
         => /\ g_connections[k].client_pid = cap.client
            /\ g_connections[k].channel_idx = cap.channel_idx
  BY <1>5, <1>6, <1>7, ZenonT(30) DEF RegistryInv, RowsOK, RowOf
<1>9. /\ g_channels[cap.channel_idx].in_use
      /\ MirrorInv => cap.badge >= g_channels[cap.channel_idx].since
  <2>1. /\ cap.channel_idx = c.channel_idx /\ cap.badge = c.badge
        /\ g_connections[j].in_use /\ g_connections[j].badge = c.badge
        /\ g_connections[j].channel_idx = c.channel_idx
    BY <1>6, <1>7, Zenon DEF RowOf
  <2>2. g_channels[c.channel_idx].in_use
    BY Zenon DEF RegistryInv, CapsOK
  <2>3. MirrorInv => g_connections[j].badge >= g_channels[g_connections[j].channel_idx].since
    BY <1>6, <2>1, Zenon DEF MirrorInv
  <2> QED
    BY <2>1, <2>2, <2>3, Zenon
<1>10. /\ s_next_badge' \in 1 .. (MaxBadge + 1) /\ s_next_badge' >= s_next_badge
       /\ cap.badge < s_next_badge' /\ TakeSlot(cap.client)
  <2>1. s_next_badge \in 1 .. (MaxBadge + 1)
    BY Zenon DEF RegistryInv, TablesTypeOK
  <2>2. cap.badge \in 1 .. (s_next_badge - 1)
    BY <1>6, <1>7, Zenon DEF RegistryInv, RowsOK, RowOf
  <2>3. s_next_badge' = s_next_badge /\ TakeSlot(cap.client)
    BY <1>1, <1>7, Zenon
  <2> QED
    BY <2>1, <2>2, <2>3, BoundsAssumption, SMTT(30)
<1> QED
  BY <1>1, <1>7, <1>8, <1>9, <1>10, NewRowKeepsRegistry, Zenon

(* ConnectDetach takes the one row of the slot and its capabilities.       *)
LEMMA DetachKeepsRegistry ==
    ASSUME RegistryInv, NEW t \in Threads, tm_connect_detach(t)
    PROVE  RegistryInv' /\ (MirrorInv => MirrorInv')
<1>1. PICK s \in Slots : \E i \in connection_find_by_slot(t[1], s) :
        /\ caps' = {c \in caps : ~(c.client = t[1] /\ c.slot = s)}
        /\ g_connections' = [g_connections EXCEPT ![i] = NoConnection]
  BY Zenon DEF tm_connect_detach
<1>2. PICK i \in connection_find_by_slot(t[1], s) :
        /\ caps' = {c \in caps : ~(c.client = t[1] /\ c.slot = s)}
        /\ g_connections' = [g_connections EXCEPT ![i] = NoConnection]
  BY <1>1, ZenonT(30)
<1>3. /\ i \in CnIdx /\ g_connections[i].in_use
      /\ g_connections[i].client_pid = t[1] /\ g_connections[i].client_slot = s
  BY RowBySlot
<1> DEFINE C == {}
           D == {i}
<1>4. g_channels' = [j \in ChIdx |-> IF j \in C THEN FreedChannel(g_channels[j])
                                     ELSE g_channels[j]]
  BY Zenon DEF tm_connect_detach, RegistryInv, TablesTypeOK
<1>5. g_connections' = [j \in CnIdx |-> IF j \in D THEN NoConnection ELSE g_connections[j]]
  BY <1>2, <1>3, ZenonT(30) DEF RegistryInv, TablesTypeOK
<1>6. /\ UNCHANGED <<s_next_badge, s_global_chid_next, next_slot>>
      /\ next_slot' \in [Procs -> Nat \ {0}]
  BY Zenon DEF tm_connect_detach, RegistryInv, TablesTypeOK
<1>7. /\ caps' \subseteq caps
      /\ \A c \in caps' : c.channel_idx \notin C /\ \A j \in D : ~RowOf(j, c)
  BY <1>2, <1>3, SMTT(30) DEF RowOf
<1>8. \A j \in CnIdx \ D : \A c \in caps : RowOf(j, c) => c \in caps'
  BY <1>2, <1>3, SMTT(30) DEF RowOf, RegistryInv, RowsOK
<1> HIDE DEF C, D
<1> QED
  BY <1>4, <1>5, <1>6, <1>7, <1>8, DropKeepsRegistry, Zenon

(* A pulse goes to the channel of the row it was sent by. *)
LEMMA PulseKeepsRegistry ==
    ASSUME RegistryInv, NEW t \in Threads, tm_pulse_send(t)
    PROVE  RegistryInv' /\ (MirrorInv => MirrorInv')
<1>1. PICK s \in Slots : \E j \in connection_find_by_slot(t[1], s) :
        \E i \in tm_channel_by_badge(g_connections[j].badge) :
           QueueWritten(i, Append(g_channels[i].queue, g_connections[j].badge))
  BY ZenonT(30) DEF tm_pulse_send, QueueWritten
<1>2. PICK j \in CnIdx :
        /\ g_connections[j].in_use
        /\ \E i \in tm_channel_by_badge(g_connections[j].badge) :
              QueueWritten(i, Append(g_channels[i].queue, g_connections[j].badge))
  BY <1>1, RowBySlot, SMTT(30)
<1> DEFINE b == g_connections[j].badge
           k == g_connections[j].channel_idx
           q == Append(g_channels[k].queue, b)
<1>3. tm_channel_by_badge(b) = IF g_channels[k].in_use THEN {k} ELSE {}
  BY <1>2, BadgeOfRow, ZenonT(30) DEF RegistryInv
<1>4. g_channels[k].in_use /\ QueueWritten(k, q)
  BY <1>2, <1>3, Zenon
<1>5. /\ k \in ChIdx /\ b \in 1 .. MaxBadge /\ g_channels[k] \in Channel
      /\ g_channels[k].queue \in Seq(1 .. MaxBadge)
  <2>1. g_connections[j] \in Connection /\ k \in ChIdx
    BY <1>2, Zenon DEF RegistryInv, RowsOK, TablesTypeOK
  <2>2. g_channels[k] \in Channel
    BY <2>1, Zenon DEF RegistryInv, TablesTypeOK
  <2>3. b < s_next_badge /\ s_next_badge \in 1 .. (MaxBadge + 1)
    BY <1>2, SMTT(30) DEF RegistryInv, RowsOK, TablesTypeOK
  <2>4. b \in Nat /\ b # 0 /\ g_channels[k].queue \in Seq(1 .. MaxBadge)
    BY <1>2, <2>1, <2>2, SMTT(30) DEF Connection, Channel, RegistryInv, RowsOK
  <2> HIDE DEF b, k
  <2> QED
    BY <2>1, <2>2, <2>3, <2>4, BoundsAssumption
<1>6. q \in Seq(1 .. MaxBadge) /\ Len(q) = Len(g_channels[k].queue) + 1
      /\ \A n \in 1 .. Len(q) : q[n] = IF n = Len(q) THEN b ELSE g_channels[k].queue[n]
  BY <1>5, SMTT(30)
<1>7. MirrorInv => \A n \in 1 .. Len(q) : q[n] >= g_channels[k].since
  <2> SUFFICES ASSUME MirrorInv, NEW n \in 1 .. Len(q)
               PROVE  q[n] >= g_channels[k].since
    BY SMTT(30)
  <2>1. b >= g_channels[k].since
    BY <1>2, SMTT(30) DEF MirrorInv
  <2>2. n # Len(q) => n \in 1 .. Len(g_channels[k].queue)
    BY <1>5, <1>6, SMTT(30)
  <2>3. \A m \in 1 .. Len(g_channels[k].queue) : g_channels[k].queue[m] >= g_channels[k].since
    BY <1>4, <1>5, Zenon DEF MirrorInv, NoStrayPulse
  <2> QED
    BY <1>6, <2>1, <2>2, <2>3, ZenonT(30)
<1>8. UNCHANGED <<g_connections, s_next_badge, s_global_chid_next, next_slot, caps>>
  BY Zenon DEF tm_pulse_send
<1> HIDE DEF q
<1> QED
  BY <1>4, <1>5, <1>6, <1>7, <1>8, QueueKeepsRegistry, Zenon

(* What is left of a queue when its first element is taken. *)
LEMMA TailFacts ==
    ASSUME NEW S, NEW s \in Seq(S), s # <<>>
    PROVE  /\ Tail(s) \in Seq(S) /\ Len(s) \in Nat \ {0} /\ Len(Tail(s)) = Len(s) - 1
           /\ \A n \in 1 .. (Len(s) - 1) : Tail(s)[n] = s[n + 1]
BY SMTT(30)

LEMMA FetchKeepsRegistry ==
    ASSUME RegistryInv, NEW t \in Threads, tm_pulse_fetch(t)
    PROVE  RegistryInv' /\ (MirrorInv => MirrorInv')
<1>1. PICK i \in ChIdx : /\ g_channels[i].in_use /\ g_channels[i].queue # <<>>
                         /\ QueueWritten(i, Tail(g_channels[i].queue))
  BY Zenon DEF tm_pulse_fetch, channel_by_recv, First, QueueWritten
<1> DEFINE old == g_channels[i].queue
           q == Tail(old)
<1>2. old \in Seq(1 .. MaxBadge)
  BY Zenon DEF RegistryInv, TablesTypeOK, Channel
<1>3. /\ q \in Seq(1 .. MaxBadge)
      /\ \A n \in 1 .. Len(q) : n + 1 \in 1 .. Len(old) /\ q[n] = old[n + 1]
  <2>1. old # <<>>
    BY <1>1, Zenon
  <2> HIDE DEF old
  <2>2. /\ q \in Seq(1 .. MaxBadge) /\ Len(old) \in Nat \ {0} /\ Len(q) = Len(old) - 1
        /\ \A n \in 1 .. (Len(old) - 1) : q[n] = old[n + 1]
    BY <1>2, <2>1, TailFacts, ZenonT(30)
  <2> HIDE DEF q
  <2> QED
    BY <2>2
<1>4. MirrorInv => \A n \in 1 .. Len(q) : q[n] >= g_channels[i].since
  BY <1>1, <1>3, Zenon DEF MirrorInv, NoStrayPulse
<1>5. UNCHANGED <<g_connections, s_next_badge, s_global_chid_next, next_slot, caps>>
  BY Zenon DEF tm_pulse_fetch
<1> HIDE DEF q
<1> QED
  BY <1>1, <1>3, <1>4, <1>5, QueueKeepsRegistry, Zenon DEF q

LEMMA RegistryStep ==
    ASSUME RegistryInv, [Next]_vars
    PROVE  /\ RegistryInv'
           /\ MayExit \cap Servers = {} /\ MirrorInv => MirrorInv'
<1> DEFINE Goal == /\ RegistryInv'
                   /\ MayExit \cap Servers = {} /\ MirrorInv => MirrorInv'
<1>same. ASSUME UNCHANGED <<g_channels, g_connections, s_next_badge, s_global_chid_next,
                            next_slot, caps>>
         PROVE  Goal
  <2>1. s_global_chid_next' \in Nat \ {0}
    BY <1>same, Zenon DEF RegistryInv, TablesTypeOK
  <2> QED
    BY <1>same, <2>1, SameTables, Zenon
<1>1. ASSUME NEW t \in Threads, NEW flags \in FlagSets, tm_channel_create(t, flags)
      PROVE  Goal
  BY <1>1, CreateKeepsRegistry, SMTT(30)
<1>2. ASSUME NEW t \in Threads, NEW w \in Threads, tm_channel_bind_thread(t, w) PROVE Goal
  BY <1>2, <1>same, Zenon DEF tm_channel_bind_thread
<1>3. ASSUME NEW t \in Threads, tm_channel_destroy(t) PROVE Goal
  BY <1>3, DestroyKeepsRegistry, Zenon
<1>4. ASSUME NEW t \in Threads, tm_connect_attach(t) PROVE Goal
  BY <1>4, AttachKeepsRegistry, SMTT(30)
<1>5. ASSUME NEW t \in Threads, tm_connect_detach(t) PROVE Goal
  BY <1>5, DetachKeepsRegistry, Zenon
<1>6. ASSUME NEW t \in Threads, tm_dup_cap(t) PROVE Goal
  BY <1>6, DupKeepsRegistry, Zenon
<1>7. ASSUME NEW t \in Threads, tm_pulse_send(t) PROVE Goal
  BY <1>7, PulseKeepsRegistry, Zenon
<1>8. ASSUME NEW t \in Threads, tm_pulse_fetch(t) PROVE Goal
  BY <1>8, FetchKeepsRegistry, Zenon
<1>9. ASSUME NEW t \in Threads, DirectPulse(t) \/ MsgReceive(t) PROVE Goal
  BY <1>9, <1>same, SMTT(30) DEF DirectPulse, MsgReceive
<1>10. ASSUME NEW t \in Threads, MsgReceiveMessage(t) \/ SpuriousWake(t) PROVE Goal
  BY <1>10, <1>same, Zenon DEF MsgReceiveMessage, SpuriousWake
<1>11. ASSUME NEW p \in Procs, tm_process_terminate(p) PROVE Goal
  BY <1>11, TerminateKeepsRegistry, Zenon
<1>12. ASSUME NEW p \in Procs, tm_process_register(p) PROVE Goal
  BY <1>12, <1>same, Zenon DEF tm_process_register
<1>13. ASSUME UNCHANGED vars PROVE Goal
  BY <1>13, <1>same, Zenon DEF vars
<1> HIDE DEF Goal
<1>14. Goal
  BY <1>1, <1>2, <1>3, <1>4, <1>5, <1>6, <1>7, <1>8, <1>9, <1>10, <1>11, <1>12, <1>13,
     Zenon DEF Next
<1> QED
  BY <1>14, Zenon DEF Goal

-----------------------------------------------------------------------------
(* Whatever the processes do, the badge of a live capability leads, by the *)
(* scans of tm_connection_client_pid and tm_channel_by_badge, to the one   *)
(* process that holds it and to the one channel it was attached to.  This  *)
(* holds also when servers exit and their rows and pids are used again.    *)
THEOREM BadgesResolve == Spec => []BadgeResolves
<1>1. Init => RegistryInv
  BY RegistryInit, Zenon
<1>2. RegistryInv /\ [Next]_vars => RegistryInv'
  BY RegistryStep, Zenon
<1>3. RegistryInv => BadgeResolves
  BY RegistryGivesBadges, Zenon
<1> QED
  BY <1>1, <1>2, <1>3, PTL DEF Spec

(* As long as no process that creates channels exits, the connection table *)
(* and the capability spaces of the clients agree row by row.              *)
THEOREM TablesAgree ==
    ASSUME MayExit \cap Servers = {}
    PROVE  Spec => []RowMatchesCap
<1>1. Init => RegistryInv /\ MirrorInv
  BY RegistryInit, Zenon
<1>2. RegistryInv /\ MirrorInv /\ [Next]_vars => RegistryInv' /\ MirrorInv'
  BY RegistryStep, Zenon
<1>3. RegistryInv /\ MirrorInv => RowMatchesCap
  BY MirrorGivesRows, SMTT(30)
<1> QED
  BY <1>1, <1>2, <1>3, PTL DEF Spec

(* Under the same condition a pulse queued at a channel came by a          *)
(* connection to that channel, not to an earlier one with the same row.    *)
THEOREM NoPulseStrays ==
    ASSUME MayExit \cap Servers = {}
    PROVE  Spec => []NoStrayPulse
<1>1. Init => RegistryInv /\ MirrorInv
  BY RegistryInit, Zenon
<1>2. RegistryInv /\ MirrorInv /\ [Next]_vars => RegistryInv' /\ MirrorInv'
  BY RegistryStep, Zenon
<1>3. RegistryInv /\ MirrorInv => NoStrayPulse
  BY Zenon DEF MirrorInv
<1> QED
  BY <1>1, <1>2, <1>3, PTL DEF Spec

-----------------------------------------------------------------------------
(***************************************************************************)
(* The wake-up protocol of pulses: a queued pulse is fetched or its signal *)
(* is still to be seen, for any number of channels, threads and pulses,    *)
(* when every thread keeps to one pulse channel.                           *)
(***************************************************************************)

(* Where a thread can be in MsgReceive. *)
RxState == [phase: {"run", "recv", "fetch", "fault"}, slot: Slots \cup {0}]

WaitTypeOK ==
    /\ bound \in [Threads -> ChIdx \cup {0}]
    /\ rx \in [Threads -> RxState]

(* The receive slot of a channel was handed out to its owner, once. *)
RecvsOK ==
    /\ \A i \in ChIdx : g_channels[i].in_use =>
          /\ g_channels[i].owner_pid \in Procs
          /\ g_channels[i].owner_recv \in 1 .. (next_slot[g_channels[i].owner_pid] - 1)
    /\ \A i, j \in ChIdx :
          /\ g_channels[i].in_use /\ g_channels[j].in_use
          /\ g_channels[i].owner_pid = g_channels[j].owner_pid
          /\ g_channels[i].owner_recv = g_channels[j].owner_recv
          => i = j

(* A thread in state r[t] that is bound is bound to the Notification of a  *)
(* channel of its own process and, blocked in MsgReceive, waits on that    *)
(* channel and has not left a signal pending.                              *)
BoundRight(r) ==
    \A t \in Threads : bound[t] # 0 =>
       /\ g_channels[bound[t]].in_use /\ g_channels[bound[t]].ntfn
       /\ g_channels[bound[t]].owner_pid = t[1]
       /\ r[t].phase = "recv" => /\ r[t].slot = g_channels[bound[t]].owner_recv
                                 /\ bound[t] \notin active

(* What NoForgottenPulse asks for: someone sees to the pulses of channel i. *)
Attended(i, r) ==
    \/ \E t \in Threads : /\ t[1] = g_channels[i].owner_pid
                          /\ r[t] = [phase |-> "fetch", slot |-> g_channels[i].owner_recv]
    \/ i \in active /\ \A t \in Threads : bound[t] = i => r[t].phase # "recv"

(* The channels that have to be seen to. *)
Waits(i) == /\ g_channels[i].in_use /\ g_channels[i].ntfn /\ ~g_channels[i].direct
            /\ g_channels[i].queue # <<>>

PulsesSeen == \A i \in ChIdx : Waits(i) => Attended(i, rx)

PulseInv ==
    /\ WaitTypeOK
    /\ RecvsOK
    /\ BoundRight(rx)
    /\ PulsesSeen

LEMMA PulseGivesAnswer == PulseInv => NoForgottenPulse
BY Zenon DEF PulseInv, PulsesSeen, Waits, Attended, NoForgottenPulse, BoundThreads

-----------------------------------------------------------------------------
(* The receive slots. *)

(* Channels are only freed, and no slot of an owner is taken back. *)
LEMMA RecvsKept ==
    ASSUME RegistryInv, RegistryInv', RecvsOK,
           \A i \in ChIdx : g_channels'[i].in_use =>
              /\ g_channels[i].in_use
              /\ g_channels'[i].owner_pid = g_channels[i].owner_pid
              /\ g_channels'[i].owner_recv = g_channels[i].owner_recv
              /\ \/ next_slot'[g_channels[i].owner_pid] = next_slot[g_channels[i].owner_pid]
                 \/ next_slot'[g_channels[i].owner_pid] = next_slot[g_channels[i].owner_pid] + 1
    PROVE  RecvsOK'
<1>1. next_slot \in [Procs -> Nat \ {0}]
  BY Zenon DEF RegistryInv, TablesTypeOK
<1>2. ASSUME NEW i \in ChIdx, g_channels'[i].in_use
      PROVE  /\ g_channels'[i].owner_pid \in Procs
             /\ g_channels'[i].owner_recv \in 1 .. (next_slot'[g_channels'[i].owner_pid] - 1)
  <2>1. /\ g_channels[i].owner_pid \in Procs
        /\ g_channels[i].owner_recv \in 1 .. (next_slot[g_channels[i].owner_pid] - 1)
    BY <1>2, Zenon DEF RecvsOK
  <2>2. next_slot[g_channels[i].owner_pid] \in Nat
    BY <1>1, <2>1
  <2>3. \/ next_slot'[g_channels[i].owner_pid] = next_slot[g_channels[i].owner_pid]
        \/ next_slot'[g_channels[i].owner_pid] = next_slot[g_channels[i].owner_pid] + 1
    BY <1>2, Zenon
  <2>4. g_channels[i].owner_recv \in 1 .. (next_slot'[g_channels[i].owner_pid] - 1)
    BY <2>1, <2>2, <2>3
  <2>5. /\ g_channels'[i].owner_pid = g_channels[i].owner_pid
        /\ g_channels'[i].owner_recv = g_channels[i].owner_recv
    BY <1>2, Zenon
  <2> QED
    BY <2>1, <2>4, <2>5, Zenon
<1>3. ASSUME NEW i \in ChIdx, NEW j \in ChIdx,
             g_channels'[i].in_use, g_channels'[j].in_use,
             g_channels'[i].owner_pid = g_channels'[j].owner_pid,
             g_channels'[i].owner_recv = g_channels'[j].owner_recv
      PROVE  i = j
  BY <1>3, ZenonT(30) DEF RecvsOK
<1> QED
  BY <1>2, <1>3, Zenon DEF RecvsOK

(* A slot handed out leaves the others where they are, or one further. *)
LEMMA SlotTaken ==
    ASSUME RegistryInv, NEW p, TakeSlot(p), NEW q \in Procs
    PROVE  next_slot'[q] = next_slot[q] \/ next_slot'[q] = next_slot[q] + 1
BY DEF TakeSlot, RegistryInv, TablesTypeOK

(* The fetch finds the one channel that MsgReceive was called on. *)
LEMMA ByRecv ==
    ASSUME RecvsOK, NEW p, NEW slot
    PROVE  /\ \A i \in channel_by_recv(p, slot) :
                 /\ i \in ChIdx /\ g_channels[i].in_use
                 /\ g_channels[i].owner_pid = p /\ g_channels[i].owner_recv = slot
           /\ \A i \in ChIdx :
                 /\ g_channels[i].in_use
                 /\ g_channels[i].owner_pid = p /\ g_channels[i].owner_recv = slot
                 => i \in channel_by_recv(p, slot)
<1>1. \A i \in ChIdx : i <= i
  BY IndexesAreNat
<1> QED
  BY <1>1, Zenon DEF channel_by_recv, First, RecvsOK

-----------------------------------------------------------------------------
(* Waiting and waking. *)

(* The channels are as they were but for the pulses in them. *)
OnlyQueues ==
    \A i \in ChIdx : /\ g_channels'[i].in_use = g_channels[i].in_use
                     /\ g_channels'[i].owner_pid = g_channels[i].owner_pid
                     /\ g_channels'[i].owner_recv = g_channels[i].owner_recv
                     /\ g_channels'[i].direct = g_channels[i].direct
                     /\ g_channels'[i].ntfn = g_channels[i].ntfn

(* A signal to channel n is taken by the threads that receive on it, or    *)
(* stays pending where no thread misses it: n is attended afterwards, and  *)
(* no other channel loses what attends it.                                 *)
LEMMA SignalAttends ==
    ASSUME NEW n \in ChIdx, NEW r \in [Threads -> RxState], Signal(n, r),
           bound \in [Threads -> ChIdx \cup {0}], BoundRight(r),
           OnlyQueues, UNCHANGED bound
    PROVE  /\ WaitTypeOK' /\ BoundRight(rx)'
           /\ \A i \in ChIdx : ~g_channels[i].direct /\ (i = n \/ Attended(i, r))
                                 => Attended(i, rx)'
<1> DEFINE listening == {t \in BoundThreads(n) : n \notin active /\ r[t].phase = "recv"}
<1>1. /\ rx' = [t \in Threads |-> IF t \in listening THEN Woken(n, r[t].slot) ELSE r[t]]
      /\ active' = IF listening = {} THEN active \cup {n} ELSE active
  BY Zenon DEF Signal
<1>2. \A t \in Threads : t \in listening <=>
         bound[t] = n /\ n \notin active /\ r[t].phase = "recv"
  BY Zenon DEF BoundThreads
<1>3. listening \subseteq Threads
  BY Zenon DEF BoundThreads
<1>4. \A s \in Slots \cup {0} :
         /\ Woken(n, s) \in RxState /\ Woken(n, s).phase # "recv"
         /\ ~g_channels[n].direct => Woken(n, s) = [phase |-> "fetch", slot |-> s]
  BY DEF Woken, RxState, Running
<1>5. \A t \in Threads : r[t].slot \in Slots \cup {0} /\ r[t] \in RxState
  BY DEF RxState
<1> HIDE DEF listening
<1>6. \A t \in Threads : rx'[t] = IF t \in listening THEN Woken(n, r[t].slot) ELSE r[t]
  BY <1>1, Zenon
<1>7. WaitTypeOK'
  BY <1>1, <1>4, <1>5, Zenon DEF WaitTypeOK
<1>8. ASSUME NEW t \in Threads, rx'[t].phase = "recv"
      PROVE  t \notin listening /\ rx'[t] = r[t]
  BY <1>4, <1>5, <1>6, <1>8, Zenon
<1>9. BoundRight(rx)'
  <2> SUFFICES ASSUME NEW t \in Threads, bound'[t] # 0
               PROVE  /\ g_channels'[bound'[t]].in_use /\ g_channels'[bound'[t]].ntfn
                      /\ g_channels'[bound'[t]].owner_pid = t[1]
                      /\ rx'[t].phase = "recv" =>
                            /\ rx'[t].slot = g_channels'[bound'[t]].owner_recv
                            /\ bound'[t] \notin active'
    BY Zenon DEF BoundRight
  <2>1. bound[t] \in ChIdx /\ bound'[t] = bound[t]
    BY Zenon
  <2>2. /\ g_channels[bound[t]].in_use /\ g_channels[bound[t]].ntfn
        /\ g_channels[bound[t]].owner_pid = t[1]
        /\ r[t].phase = "recv" => /\ r[t].slot = g_channels[bound[t]].owner_recv
                                  /\ bound[t] \notin active
    BY <2>1, Zenon DEF BoundRight
  <2>3. ASSUME rx'[t].phase = "recv" PROVE bound[t] \notin active'
    <3>1. t \notin listening /\ r[t].phase = "recv" /\ bound[t] \notin active
      BY <1>8, <2>2, <2>3, Zenon
    <3>2. bound[t] # n
      BY <1>2, <3>1, Zenon
    <3> QED
      BY <1>1, <3>1, <3>2, Zenon
  <2> QED
    BY <1>8, <2>1, <2>2, <2>3, Zenon DEF OnlyQueues
<1>10. ASSUME NEW i \in ChIdx, ~g_channels[i].direct, i = n \/ Attended(i, r)
       PROVE  Attended(i, rx)'
  <2>1. CASE \E t \in Threads :
               /\ t[1] = g_channels[i].owner_pid
               /\ r[t] = [phase |-> "fetch", slot |-> g_channels[i].owner_recv]
    <3>1. PICK t \in Threads :
               /\ t[1] = g_channels[i].owner_pid
               /\ r[t] = [phase |-> "fetch", slot |-> g_channels[i].owner_recv]
      BY <2>1, Zenon
    <3>2. rx'[t] = r[t]
      <4>1. r[t].phase = "fetch"
        BY <3>1
      <4> QED
        BY <1>2, <1>6, <4>1
    <3> QED
      BY <3>1, <3>2, Zenon DEF Attended, OnlyQueues
  <2>2. CASE i \in active /\ \A t \in Threads : bound[t] = i => r[t].phase # "recv"
    <3>1. i \in active' /\ \A t \in Threads : bound'[t] = i => rx'[t].phase # "recv"
      BY <1>1, <1>8, <2>2, Zenon
    <3> QED
      BY <3>1, Zenon DEF Attended
  <2>3. CASE i = n /\ listening = {}
    <3>1. ASSUME NEW t \in Threads, bound[t] = n PROVE rx'[t].phase # "recv"
      <4>1. bound[t] # 0
        BY <3>1, BoundsAssumption DEF ChIdx
      <4> QED
        BY <1>2, <1>8, <2>3, <3>1, <4>1, Zenon DEF BoundRight
    <3>2. i \in active'
      BY <1>1, <2>3, Zenon
    <3> QED
      BY <2>3, <3>1, <3>2, Zenon DEF Attended
  <2>4. CASE i = n /\ listening # {}
    <3>1. PICK t \in Threads : t \in listening
      BY <1>3, <2>4, Zenon
    <3>2. bound[t] = n /\ r[t].phase = "recv" /\ bound[t] # 0
      BY <1>2, <3>1, BoundsAssumption DEF ChIdx
    <3>3. t[1] = g_channels[n].owner_pid /\ r[t].slot = g_channels[n].owner_recv
      BY <3>2, Zenon DEF BoundRight
    <3>4. rx'[t] = [phase |-> "fetch", slot |-> g_channels[n].owner_recv]
      BY <1>4, <1>5, <1>6, <1>10, <2>4, <3>1, <3>3, Zenon
    <3> QED
      BY <2>4, <3>3, <3>4, Zenon DEF Attended, OnlyQueues
  <2> QED
    BY <1>10, <2>1, <2>2, <2>3, <2>4, Zenon DEF Attended
<1> QED
  BY <1>7, <1>9, <1>10, Zenon
(* The same for a step that only moves threads within MsgReceive. *)
LEMMA QuietStep ==
    ASSUME NEW r \in [Threads -> RxState], rx' = r, BoundRight(r),
           bound \in [Threads -> ChIdx \cup {0}],
           OnlyQueues, UNCHANGED <<bound, active>>
    PROVE  /\ WaitTypeOK' /\ BoundRight(rx)'
           /\ \A i \in ChIdx : Attended(i, r) => Attended(i, rx)'
<1>1. WaitTypeOK'
  BY Zenon DEF WaitTypeOK
<1>2. \A t \in Threads : bound[t] # 0 => bound[t] \in ChIdx
  BY Zenon
<1>3. BoundRight(rx)'
  BY <1>2, ZenonT(30) DEF BoundRight, OnlyQueues
<1>4. \A i \in ChIdx : Attended(i, r) => Attended(i, rx)'
  BY Zenon DEF Attended, OnlyQueues
<1> QED
  BY <1>1, <1>3, <1>4, Zenon

(* A thread returns from MsgReceive: only the channel it was to fetch from *)
(* can miss it.                                                            *)
LEMMA ReturnAttends ==
    ASSUME PulseInv, NEW t \in Threads
    PROVE  LET r == [rx EXCEPT ![t] = Running]
           IN  /\ r \in [Threads -> RxState] /\ BoundRight(r)
               /\ \A i \in ChIdx :
                     /\ Attended(i, rx)
                     /\ ~(/\ t[1] = g_channels[i].owner_pid
                          /\ rx[t].phase = "fetch"
                          /\ rx[t].slot = g_channels[i].owner_recv)
                     => Attended(i, r)
<1> DEFINE r == [rx EXCEPT ![t] = Running]
<1>1. Running \in RxState /\ Running.phase = "run"
  BY DEF Running, RxState
<1>2. /\ r \in [Threads -> RxState]
      /\ \A u \in Threads : r[u] = IF u = t THEN Running ELSE rx[u]
  BY <1>1, Zenon DEF PulseInv, WaitTypeOK
<1> HIDE DEF r
<1>3. \A u \in Threads : r[u].phase = "recv" => r[u] = rx[u]
  BY <1>1, <1>2
<1>4. BoundRight(r)
  BY <1>3, ZenonT(30) DEF PulseInv, BoundRight
<1>5. ASSUME NEW i \in ChIdx, Attended(i, rx),
             ~(/\ t[1] = g_channels[i].owner_pid
               /\ rx[t].phase = "fetch"
               /\ rx[t].slot = g_channels[i].owner_recv)
      PROVE  Attended(i, r)
  <2>1. CASE \E u \in Threads :
               /\ u[1] = g_channels[i].owner_pid
               /\ rx[u] = [phase |-> "fetch", slot |-> g_channels[i].owner_recv]
    <3>1. PICK u \in Threads :
               /\ u[1] = g_channels[i].owner_pid
               /\ rx[u] = [phase |-> "fetch", slot |-> g_channels[i].owner_recv]
      BY <2>1, Zenon
    <3>2. rx[u].phase = "fetch" /\ rx[u].slot = g_channels[i].owner_recv
      BY <3>1
    <3>3. u # t
      BY <1>5, <3>1, <3>2, Zenon
    <3> QED
      BY <1>2, <3>1, <3>3, Zenon DEF Attended
  <2>2. CASE i \in active /\ \A u \in Threads : bound[u] = i => rx[u].phase # "recv"
    BY <1>3, <2>2, Zenon DEF Attended
  <2> QED
    BY <1>5, <2>1, <2>2, Zenon DEF Attended
<1> QED
  BY <1>2, <1>4, <1>5, Zenon DEF r

LEMMA RecvsSame ==
    ASSUME RegistryInv, RegistryInv', RecvsOK, OnlyQueues,
           UNCHANGED next_slot \/ \E p \in Procs : TakeSlot(p)
    PROVE  RecvsOK'
<1>1. \A q \in Procs : next_slot'[q] = next_slot[q] \/ next_slot'[q] = next_slot[q] + 1
  BY SlotTaken, Zenon
<1>2. \A i \in ChIdx : g_channels'[i].in_use =>
         /\ g_channels[i].in_use
         /\ g_channels'[i].owner_pid = g_channels[i].owner_pid
         /\ g_channels'[i].owner_recv = g_channels[i].owner_recv
         /\ g_channels[i].owner_pid \in Procs
  BY Zenon DEF OnlyQueues, RecvsOK
<1> QED
  BY <1>1, <1>2, RecvsKept, Zenon

LEMMA QueueWrite ==
    ASSUME RegistryInv, NEW i \in ChIdx, NEW q, QueueWritten(i, q)
    PROVE  /\ OnlyQueues
           /\ g_channels'[i].queue = q
           /\ \A j \in ChIdx : j # i => g_channels'[j] = g_channels[j]
<1>1. g_channels \in [ChIdx -> Channel]
  BY Zenon DEF RegistryInv, TablesTypeOK
<1>2. /\ g_channels'[i] = [g_channels[i] EXCEPT !.queue = q]
      /\ \A j \in ChIdx : j # i => g_channels'[j] = g_channels[j]
  BY <1>1, Zenon DEF QueueWritten
<1>3. \A c \in Channel : LET d == [c EXCEPT !.queue = q]
                         IN  /\ d.in_use = c.in_use /\ d.owner_pid = c.owner_pid
                             /\ d.owner_recv = c.owner_recv /\ d.direct = c.direct
                             /\ d.ntfn = c.ntfn /\ d.queue = q
  BY DEF Channel
<1>4. g_channels[i] \in Channel
  BY <1>1, Zenon
<1>5. /\ g_channels'[i].in_use = g_channels[i].in_use
      /\ g_channels'[i].owner_pid = g_channels[i].owner_pid
      /\ g_channels'[i].owner_recv = g_channels[i].owner_recv
      /\ g_channels'[i].direct = g_channels[i].direct
      /\ g_channels'[i].ntfn = g_channels[i].ntfn
      /\ g_channels'[i].queue = q
  BY <1>2, <1>3, <1>4
<1> QED
  BY <1>2, <1>5, Zenon DEF OnlyQueues
-----------------------------------------------------------------------------
(* The handlers. *)

LEMMA WakeSendKeeps ==
    ASSUME RegistryInv, RegistryInv', PulseInv, NEW t \in Threads, tm_pulse_send(t)
    PROVE  PulseInv'
<1>0. PICK i \in ChIdx : \E b : /\ QueueWritten(i, Append(g_channels[i].queue, b))
                                /\ IF g_channels[i].ntfn THEN Signal(i, rx)
                                   ELSE UNCHANGED <<active, rx>>
  <2>1. \A b : tm_channel_by_badge(b) \subseteq ChIdx
    <3>1. \A p, chid : channel_find(p, chid) \subseteq ChIdx
      BY Zenon DEF channel_find, First
    <3> QED
      BY <3>1 DEF tm_channel_by_badge
  <2> QED
    BY <2>1, Zenon DEF tm_pulse_send, QueueWritten
<1>1. PICK b : /\ QueueWritten(i, Append(g_channels[i].queue, b))
               /\ IF g_channels[i].ntfn THEN Signal(i, rx) ELSE UNCHANGED <<active, rx>>
  BY <1>0, Zenon
<1>2. UNCHANGED <<next_slot, bound>>
  BY Zenon DEF tm_pulse_send
<1>3. /\ OnlyQueues
      /\ \A j \in ChIdx : j # i => g_channels'[j] = g_channels[j]
  BY <1>1, QueueWrite, Zenon
<1>4. RecvsOK'
  BY <1>2, <1>3, RecvsSame, Zenon DEF PulseInv
<1>5. /\ bound \in [Threads -> ChIdx \cup {0}] /\ rx \in [Threads -> RxState]
      /\ BoundRight(rx)
  BY Zenon DEF PulseInv, WaitTypeOK
<1>6. /\ WaitTypeOK' /\ BoundRight(rx)'
      /\ \A j \in ChIdx : ~g_channels[j].direct /\ Attended(j, rx) => Attended(j, rx)'
      /\ ~g_channels[i].direct /\ g_channels[i].ntfn => Attended(i, rx)'
  <2>1. CASE g_channels[i].ntfn
    BY <1>1, <1>2, <1>3, <1>5, <2>1, SignalAttends, Zenon
  <2>2. CASE ~g_channels[i].ntfn
    BY <1>1, <1>2, <1>3, <1>5, <2>2, QuietStep, Zenon
  <2> QED
    BY <2>1, <2>2
<1>7. PulsesSeen'
  <2> SUFFICES ASSUME NEW j \in ChIdx, Waits(j)'
               PROVE  Attended(j, rx)'
    BY Zenon DEF PulsesSeen
  <2>1. CASE j = i
    BY <1>3, <1>6, <2>1, Zenon DEF Waits, OnlyQueues
  <2>2. CASE j # i
    BY <1>3, <1>6, <2>2, Zenon DEF Waits, PulseInv, PulsesSeen
  <2> QED
    BY <2>1, <2>2
<1> QED
  BY <1>4, <1>6, <1>7, Zenon DEF PulseInv

LEMMA WakeDirectKeeps ==
    ASSUME RegistryInv, RegistryInv', PulseInv, NEW t \in Threads, DirectPulse(t)
    PROVE  PulseInv'
<1>1. PICK i \in ChIdx : Signal(i, rx)
  <2>1. caps \subseteq Cap
    BY Zenon DEF RegistryInv, TablesTypeOK
  <2>2. \A c \in Cap : c.channel_idx \in ChIdx
    BY DEF Cap
  <2> QED
    BY <2>1, <2>2, Zenon DEF DirectPulse
<1>2. UNCHANGED <<g_channels, next_slot, bound>>
  BY Zenon DEF DirectPulse
<1>3. OnlyQueues
  BY <1>2, Zenon DEF OnlyQueues
<1>4. RecvsOK'
  BY <1>2, <1>3, RecvsSame, Zenon DEF PulseInv
<1>5. /\ bound \in [Threads -> ChIdx \cup {0}] /\ rx \in [Threads -> RxState]
      /\ BoundRight(rx)
  BY Zenon DEF PulseInv, WaitTypeOK
<1>6. /\ WaitTypeOK' /\ BoundRight(rx)'
      /\ \A j \in ChIdx : ~g_channels[j].direct /\ Attended(j, rx) => Attended(j, rx)'
  BY <1>1, <1>2, <1>3, <1>5, SignalAttends, Zenon
<1>7. PulsesSeen'
  BY <1>2, <1>6, Zenon DEF PulsesSeen, Waits, PulseInv
<1> QED
  BY <1>4, <1>6, <1>7, Zenon DEF PulseInv

(* A step that leaves the channels, the threads and their Notifications    *)
(* alone, handing out a slot perhaps.                                      *)
LEMMA ElsewhereKeeps ==
    ASSUME RegistryInv, RegistryInv', PulseInv,
           UNCHANGED <<g_channels, bound, active, rx>>,
           UNCHANGED next_slot \/ \E p \in Procs : TakeSlot(p)
    PROVE  PulseInv'
<1>1. OnlyQueues
  BY Zenon DEF OnlyQueues
<1>2. RecvsOK'
  BY <1>1, RecvsSame, Zenon DEF PulseInv
<1>3. /\ bound \in [Threads -> ChIdx \cup {0}] /\ rx \in [Threads -> RxState]
      /\ BoundRight(rx)
  BY Zenon DEF PulseInv, WaitTypeOK
<1>4. /\ WaitTypeOK' /\ BoundRight(rx)'
      /\ \A j \in ChIdx : Attended(j, rx) => Attended(j, rx)'
  BY <1>1, <1>3, QuietStep, Zenon
<1>5. PulsesSeen'
  BY <1>4, Zenon DEF PulsesSeen, Waits, PulseInv
<1> QED
  BY <1>2, <1>4, <1>5, Zenon DEF PulseInv
(* A message ends the wait. *)
LEMMA MessageKeeps ==
    ASSUME RegistryInv, RegistryInv', PulseInv, NEW t \in Threads, MsgReceiveMessage(t)
    PROVE  PulseInv'
<1> DEFINE r == [rx EXCEPT ![t] = Running]
<1>1. /\ rx[t].phase # "fetch" /\ rx' = r
      /\ UNCHANGED <<g_channels, next_slot, bound, active>>
  BY DEF MsgReceiveMessage
<1>2. /\ r \in [Threads -> RxState] /\ BoundRight(r)
      /\ \A i \in ChIdx : Attended(i, rx) => Attended(i, r)
  BY <1>1, ReturnAttends, Zenon
<1> HIDE DEF r
<1>3. OnlyQueues /\ bound \in [Threads -> ChIdx \cup {0}]
  BY <1>1, Zenon DEF OnlyQueues, PulseInv, WaitTypeOK
<1>4. RecvsOK'
  BY <1>1, <1>3, RecvsSame, Zenon DEF PulseInv
<1>5. /\ WaitTypeOK' /\ BoundRight(rx)'
      /\ \A i \in ChIdx : Attended(i, r) => Attended(i, rx)'
  BY <1>1, <1>2, <1>3, QuietStep, Zenon
<1>6. PulsesSeen'
  BY <1>1, <1>2, <1>5, Zenon DEF PulsesSeen, Waits, PulseInv
<1> QED
  BY <1>4, <1>5, <1>6, Zenon DEF PulseInv

(* A thread that finds no pulse leaves none behind. *)
LEMMA SpuriousKeeps ==
    ASSUME RegistryInv, RegistryInv', PulseInv, NEW t \in Threads, SpuriousWake(t)
    PROVE  PulseInv'
<1> DEFINE r == [rx EXCEPT ![t] = Running]
<1>1. /\ rx' = r /\ UNCHANGED <<g_channels, next_slot, bound, active>>
      /\ \A i \in channel_by_recv(t[1], rx[t].slot) : g_channels[i].queue = <<>>
  BY Zenon DEF SpuriousWake
<1>2. \A i \in ChIdx : Waits(i) => ~(/\ t[1] = g_channels[i].owner_pid
                                     /\ rx[t].phase = "fetch"
                                     /\ rx[t].slot = g_channels[i].owner_recv)
  <2>1. RecvsOK
    BY Zenon DEF PulseInv
  <2>2. \A i \in ChIdx : /\ g_channels[i].in_use
                         /\ g_channels[i].owner_pid = t[1]
                         /\ g_channels[i].owner_recv = rx[t].slot
                         => i \in channel_by_recv(t[1], rx[t].slot)
    BY <2>1, ByRecv
  <2> QED
    BY <1>1, <2>2, Zenon DEF Waits
<1>3. /\ r \in [Threads -> RxState] /\ BoundRight(r)
      /\ \A i \in ChIdx : Waits(i) /\ Attended(i, rx) => Attended(i, r)
  BY <1>2, ReturnAttends, Zenon
<1> HIDE DEF r
<1>4. OnlyQueues /\ bound \in [Threads -> ChIdx \cup {0}]
  BY <1>1, Zenon DEF OnlyQueues, PulseInv, WaitTypeOK
<1>5. RecvsOK'
  BY <1>1, <1>4, RecvsSame, Zenon DEF PulseInv
<1>6. /\ WaitTypeOK' /\ BoundRight(rx)'
      /\ \A i \in ChIdx : Attended(i, r) => Attended(i, rx)'
  BY <1>1, <1>3, <1>4, QuietStep, Zenon
<1>7. PulsesSeen'
  <2>1. \A i \in ChIdx : Waits(i)' => Waits(i)
    BY <1>1, Zenon DEF Waits
  <2> QED
    BY <1>3, <1>6, <2>1, Zenon DEF PulsesSeen, PulseInv
<1> QED
  BY <1>5, <1>6, <1>7, Zenon DEF PulseInv

(* A fetch empties the queue or signals again: the thread that took a      *)
(* pulse is the one that attended the channel, and no other.               *)
LEMMA WakeFetchKeeps ==
    ASSUME RegistryInv, RegistryInv', PulseInv, NEW t \in Threads, tm_pulse_fetch(t)
    PROVE  PulseInv'
<1> DEFINE r == [rx EXCEPT ![t] = Running]
<1>1. PICK i \in channel_by_recv(t[1], rx[t].slot) :
        /\ g_channels[i].queue # <<>>
        /\ QueueWritten(i, Tail(g_channels[i].queue))
        /\ IF Len(g_channels[i].queue) > 1 /\ g_channels[i].ntfn THEN Signal(i, r)
           ELSE rx' = r /\ UNCHANGED active
  BY Zenon DEF tm_pulse_fetch, QueueWritten
<1>2. /\ i \in ChIdx /\ g_channels[i].in_use
      /\ g_channels[i].owner_pid = t[1] /\ g_channels[i].owner_recv = rx[t].slot
  <2>1. RecvsOK
    BY Zenon DEF PulseInv
  <2> QED
    BY <2>1, ByRecv
<1>3. UNCHANGED <<next_slot, bound>>
  BY Zenon DEF tm_pulse_fetch
<1>4. /\ OnlyQueues
      /\ g_channels'[i].queue = Tail(g_channels[i].queue)
      /\ \A j \in ChIdx : j # i => g_channels'[j] = g_channels[j]
  BY <1>1, <1>2, QueueWrite, Zenon
<1>5. RecvsOK'
  BY <1>3, <1>4, RecvsSame, Zenon DEF PulseInv
<1>6. \A j \in ChIdx : j # i /\ Waits(j) =>
         ~(/\ t[1] = g_channels[j].owner_pid
           /\ rx[t].phase = "fetch" /\ rx[t].slot = g_channels[j].owner_recv)
  BY <1>2, Zenon DEF Waits, PulseInv, RecvsOK
<1>7. /\ r \in [Threads -> RxState] /\ BoundRight(r)
      /\ \A j \in ChIdx : j # i /\ Waits(j) /\ Attended(j, rx) => Attended(j, r)
  BY <1>6, ReturnAttends, Zenon
<1> HIDE DEF r
<1>8. bound \in [Threads -> ChIdx \cup {0}]
  BY Zenon DEF PulseInv, WaitTypeOK
<1>9. /\ WaitTypeOK' /\ BoundRight(rx)'
      /\ \A j \in ChIdx : ~g_channels[j].direct /\ Attended(j, r) => Attended(j, rx)'
      /\ ~g_channels[i].direct /\ g_channels[i].ntfn /\ Len(g_channels[i].queue) > 1
            => Attended(i, rx)'
  <2>1. CASE Len(g_channels[i].queue) > 1 /\ g_channels[i].ntfn
    BY <1>1, <1>2, <1>3, <1>4, <1>7, <1>8, <2>1, SignalAttends, Zenon
  <2>2. CASE ~(Len(g_channels[i].queue) > 1 /\ g_channels[i].ntfn)
    BY <1>1, <1>3, <1>4, <1>7, <1>8, <2>2, QuietStep, Zenon
  <2> QED
    BY <2>1, <2>2
<1>10. g_channels'[i].queue # <<>> => Len(g_channels[i].queue) > 1
  <2>1. g_channels[i].queue \in Seq(1 .. MaxBadge)
    BY <1>2 DEF RegistryInv, TablesTypeOK, Channel
  <2>2. /\ Tail(g_channels[i].queue) \in Seq(1 .. MaxBadge)
        /\ Len(g_channels[i].queue) \in Nat \ {0}
        /\ Len(Tail(g_channels[i].queue)) = Len(g_channels[i].queue) - 1
    BY <1>1, <2>1, TailFacts, Zenon
  <2>3. \A s \in Seq(1 .. MaxBadge) : Len(s) = 0 => s = <<>>
    OBVIOUS
  <2> QED
    BY <1>4, <2>2, <2>3
<1>11. PulsesSeen'
  <2> SUFFICES ASSUME NEW j \in ChIdx, Waits(j)'
               PROVE  Attended(j, rx)'
    BY Zenon DEF PulsesSeen
  <2>1. CASE j = i
    BY <1>4, <1>9, <1>10, <2>1, Zenon DEF Waits, OnlyQueues
  <2>2. CASE j # i
    <3>1. Waits(j)
      BY <1>4, <2>2, Zenon DEF Waits
    <3> QED
      BY <1>7, <1>9, <2>2, <3>1, Zenon DEF Waits, PulseInv, PulsesSeen
  <2> QED
    BY <2>1, <2>2
<1> QED
  BY <1>5, <1>9, <1>11, Zenon DEF PulseInv
(* MsgReceive takes the signal that is pending, or there is none to miss.  *)
(* It is called on the channel of the thread's Notification.               *)
LEMMA ReceiveKeeps ==
    ASSUME Convention, RegistryInv, RegistryInv', PulseInv,
           NEW t \in Threads, MsgReceive(t)
    PROVE  PulseInv'
<1>1. PICK i \in ChIdx :
         /\ g_channels[i].in_use /\ g_channels[i].owner_pid = t[1]
         /\ bound[t] \in {0, i}
         /\ IF bound[t] \in active
            THEN /\ active' = active \ {bound[t]}
                 /\ rx' = [rx EXCEPT ![t] = Woken(bound[t], g_channels[i].owner_recv)]
            ELSE /\ rx' = [rx EXCEPT ![t] = [phase |-> "recv",
                                             slot |-> g_channels[i].owner_recv]]
                 /\ UNCHANGED active
  BY Zenon DEF MsgReceive
<1>2. /\ rx[t] = Running /\ UNCHANGED <<g_channels, next_slot, bound>>
  BY Zenon DEF MsgReceive, Calls
<1>3. OnlyQueues
  BY <1>2, Zenon DEF OnlyQueues
<1>4. RecvsOK'
  BY <1>2, <1>3, RecvsSame, Zenon DEF PulseInv
<1> DEFINE s == g_channels[i].owner_recv
           woken == Woken(bound[t], s)
           blocked == [phase |-> "recv", slot |-> s]
<1>5. rx \in [Threads -> RxState] /\ s \in Slots \cup {0}
  BY DEF PulseInv, WaitTypeOK, RegistryInv, TablesTypeOK, Channel
<1>6. /\ woken \in RxState /\ woken.phase # "recv"
      /\ ~g_channels[bound[t]].direct => woken = [phase |-> "fetch", slot |-> s]
      /\ blocked \in RxState /\ blocked.phase = "recv" /\ blocked.slot = s
  BY <1>5 DEF RxState, Woken, Running
<1>7. \A u \in Threads : rx'[u] = IF u # t THEN rx[u]
                                  ELSE IF bound[t] \in active THEN woken ELSE blocked
  BY <1>1, <1>5, Zenon
<1>8. WaitTypeOK'
  BY <1>1, <1>2, <1>5, <1>6, ZenonT(30) DEF WaitTypeOK, PulseInv
<1> HIDE DEF woken, blocked, s
<1>9. BoundRight(rx)'
  <2> SUFFICES ASSUME NEW u \in Threads, bound[u] # 0
               PROVE  /\ g_channels[bound[u]].in_use /\ g_channels[bound[u]].ntfn
                      /\ g_channels[bound[u]].owner_pid = u[1]
                      /\ rx'[u].phase = "recv" =>
                            /\ rx'[u].slot = g_channels[bound[u]].owner_recv
                            /\ bound[u] \notin active'
    BY <1>2, Zenon DEF BoundRight
  <2>1. /\ g_channels[bound[u]].in_use /\ g_channels[bound[u]].ntfn
        /\ g_channels[bound[u]].owner_pid = u[1]
        /\ rx[u].phase = "recv" => /\ rx[u].slot = g_channels[bound[u]].owner_recv
                                   /\ bound[u] \notin active
    BY Zenon DEF PulseInv, BoundRight
  <2>2. active' \subseteq active
    BY <1>1, Zenon
  <2>3. CASE u # t
    BY <1>7, <2>1, <2>2, <2>3, Zenon
  <2>4. CASE u = t
    BY <1>1, <1>6, <1>7, <2>1, <2>2, <2>4, ZenonT(30) DEF s
  <2> QED
    BY <2>3, <2>4
<1>10. PulsesSeen'
  <2> SUFFICES ASSUME NEW j \in ChIdx, Waits(j)'
               PROVE  Attended(j, rx)'
    BY Zenon DEF PulsesSeen
  <2>1. Waits(j) /\ Attended(j, rx)
    BY <1>2, Zenon DEF Waits, PulseInv, PulsesSeen
  <2>2. CASE \E u \in Threads :
               /\ u[1] = g_channels[j].owner_pid
               /\ rx[u] = [phase |-> "fetch", slot |-> g_channels[j].owner_recv]
    <3>1. PICK u \in Threads :
               /\ u[1] = g_channels[j].owner_pid
               /\ rx[u] = [phase |-> "fetch", slot |-> g_channels[j].owner_recv]
      BY <2>2, Zenon
    <3>2. u # t
      BY <1>2, <3>1 DEF Running
    <3> QED
      BY <1>2, <1>7, <3>1, <3>2, Zenon DEF Attended
  <2>3. CASE /\ j \in active /\ \A u \in Threads : bound[u] = j => rx[u].phase # "recv"
             /\ j # bound[t]
    <3>1. j \in active' /\ \A u \in Threads : bound[u] = j => rx'[u].phase # "recv"
      BY <1>1, <1>7, <2>3, Zenon
    <3> QED
      BY <1>2, <3>1, Zenon DEF Attended
  <2>4. CASE j \in active /\ j = bound[t]
    <3>1. j = i
      BY <1>1, <2>4, BoundsAssumption DEF ChIdx
    <3>2. rx'[t] = [phase |-> "fetch", slot |-> s]
      BY <1>6, <1>7, <2>1, <2>4, Zenon DEF Waits
    <3> QED
      BY <1>1, <1>2, <3>1, <3>2, ZenonT(30) DEF Attended, s
  <2> QED
    BY <2>1, <2>2, <2>3, <2>4, Zenon DEF Attended
<1> QED
  BY <1>4, <1>8, <1>9, <1>10, Zenon DEF PulseInv

(* The thread that is given the Notification of a channel is not blocked   *)
(* in MsgReceive, so it will see what is pending.                          *)
LEMMA BindKeeps ==
    ASSUME Convention, RegistryInv, RegistryInv', PulseInv,
           NEW t \in Threads, NEW w \in Threads, tm_channel_bind_thread(t, w)
    PROVE  PulseInv'
<1> DEFINE b == [bound EXCEPT ![MainOf(t[1])] = 0]
<1>1. PICK i \in ChIdx :
        /\ g_channels[i].in_use /\ g_channels[i].owner_pid = t[1] /\ g_channels[i].ntfn
        /\ bound' = IF CanBind(b, w, i) THEN [b EXCEPT ![w] = i] ELSE b
  BY Zenon DEF tm_channel_bind_thread
<1>2. /\ w[1] = t[1] /\ rx[w].phase # "recv"
      /\ UNCHANGED <<g_channels, next_slot, active, rx>>
  BY Zenon DEF tm_channel_bind_thread
<1>3. OnlyQueues
  BY <1>2, Zenon DEF OnlyQueues
<1>4. RecvsOK'
  BY <1>2, <1>3, RecvsSame, Zenon DEF PulseInv
<1>5. bound \in [Threads -> ChIdx \cup {0}]
  BY Zenon DEF PulseInv, WaitTypeOK
<1>6. /\ b \in [Threads -> ChIdx \cup {0}]
      /\ \A u \in Threads : b[u] = bound[u] \/ b[u] = 0
  BY <1>5, Zenon
<1> HIDE DEF b
<1>7. /\ bound' \in [Threads -> ChIdx \cup {0}]
      /\ \A u \in Threads : \/ bound'[u] = bound[u] \/ bound'[u] = 0
                            \/ u = w /\ bound'[u] = i
  BY <1>1, <1>6
<1>8. WaitTypeOK'
  BY <1>2, <1>7, Zenon DEF PulseInv, WaitTypeOK
<1>9. BoundRight(rx)'
  BY <1>1, <1>2, <1>7, ZenonT(30) DEF PulseInv, BoundRight
<1>10. PulsesSeen'
  <2>1. ASSUME NEW j \in ChIdx, Waits(j)' PROVE Waits(j) /\ Attended(j, rx)
    BY <1>2, <2>1, Zenon DEF Waits, PulseInv, PulsesSeen
  <2>2. \A u \in Threads : \A j \in ChIdx : bound'[u] = j => bound[u] = j \/ u = w
    BY <1>7, BoundsAssumption DEF ChIdx
  <2> QED
    BY <1>2, <2>1, <2>2, Zenon DEF PulsesSeen, Attended
<1> QED
  BY <1>4, <1>8, <1>9, <1>10, Zenon DEF PulseInv
(* The channels in C are freed and the processes in G are gone; the other  *)
(* threads are left alone, or take a fault.                                *)
LEMMA FreeKeeps ==
    ASSUME RegistryInv, RegistryInv', PulseInv, NEW C, NEW G,
           \A j \in ChIdx : /\ j \notin C => g_channels'[j] = g_channels[j]
                            /\ g_channels'[j].in_use => j \notin C
                            /\ g_channels'[j].in_use => g_channels[j].owner_pid \notin G,
           bound' \in [Threads -> ChIdx \cup {0}],
           \A u \in Threads : bound'[u] # 0 => bound'[u] = bound[u] /\ bound[u] \notin C,
           rx' \in [Threads -> RxState],
           \A u \in Threads : /\ rx'[u].phase = "recv" => rx'[u] = rx[u]
                              /\ rx[u].phase = "fetch" => rx'[u] = rx[u] \/ u[1] \in G,
           active' = active \ C,
           \A q \in Procs \ G : next_slot'[q] = next_slot[q]
    PROVE  PulseInv'
<1>1. RecvsOK'
  <2>1. RecvsOK
    BY Zenon DEF PulseInv
  <2>2. \A j \in ChIdx : g_channels'[j].in_use =>
           /\ g_channels[j].in_use /\ g_channels[j].owner_pid \in Procs \ G
           /\ g_channels'[j].owner_pid = g_channels[j].owner_pid
           /\ g_channels'[j].owner_recv = g_channels[j].owner_recv
    BY <2>1, Zenon DEF RecvsOK
  <2> QED
    BY <2>1, <2>2, RecvsKept, Zenon
<1>2. WaitTypeOK'
  BY Zenon DEF WaitTypeOK
<1>3. BoundRight(rx)'
  <2> SUFFICES ASSUME NEW u \in Threads, bound'[u] # 0
               PROVE  /\ g_channels'[bound'[u]].in_use /\ g_channels'[bound'[u]].ntfn
                      /\ g_channels'[bound'[u]].owner_pid = u[1]
                      /\ rx'[u].phase = "recv" =>
                            /\ rx'[u].slot = g_channels'[bound'[u]].owner_recv
                            /\ bound'[u] \notin active'
    BY Zenon DEF BoundRight
  <2>1. bound'[u] = bound[u] /\ bound[u] \notin C /\ bound[u] \in ChIdx
    BY Zenon
  <2>2. g_channels'[bound[u]] = g_channels[bound[u]]
    BY <2>1, Zenon
  <2>3. /\ g_channels[bound[u]].in_use /\ g_channels[bound[u]].ntfn
        /\ g_channels[bound[u]].owner_pid = u[1]
        /\ rx[u].phase = "recv" => /\ rx[u].slot = g_channels[bound[u]].owner_recv
                                   /\ bound[u] \notin active
    BY <2>1, Zenon DEF PulseInv, BoundRight
  <2> QED
    BY <2>1, <2>2, <2>3, ZenonT(30)
<1>4. PulsesSeen'
  <2> SUFFICES ASSUME NEW j \in ChIdx, Waits(j)'
               PROVE  Attended(j, rx)'
    BY Zenon DEF PulsesSeen
  <2>1. /\ j \notin C /\ g_channels'[j] = g_channels[j] /\ g_channels[j].owner_pid \notin G
        /\ Attended(j, rx)
    BY Zenon DEF Waits, PulseInv, PulsesSeen
  <2>2. CASE \E u \in Threads :
               /\ u[1] = g_channels[j].owner_pid
               /\ rx[u] = [phase |-> "fetch", slot |-> g_channels[j].owner_recv]
    <3>1. PICK u \in Threads :
               /\ u[1] = g_channels[j].owner_pid
               /\ rx[u] = [phase |-> "fetch", slot |-> g_channels[j].owner_recv]
      BY <2>2, Zenon
    <3>2. rx[u].phase = "fetch"
      BY <3>1
    <3> QED
      BY <2>1, <3>1, <3>2, ZenonT(30) DEF Attended
  <2>3. CASE j \in active /\ \A u \in Threads : bound[u] = j => rx[u].phase # "recv"
    <3>1. ASSUME NEW u \in Threads, bound'[u] = j PROVE rx'[u].phase # "recv"
      <4>1. bound'[u] # 0
        BY <3>1, BoundsAssumption DEF ChIdx
      <4> QED
        BY <2>3, <3>1, <4>1, Zenon
    <3> QED
      BY <2>1, <2>3, <3>1, Zenon DEF Attended
  <2> QED
    BY <2>1, <2>2, <2>3, Zenon DEF Attended
<1> QED
  BY <1>1, <1>2, <1>3, <1>4, Zenon DEF PulseInv

LEMMA WakeDestroyKeeps ==
    ASSUME RegistryInv, RegistryInv', PulseInv, NEW t \in Threads, tm_channel_destroy(t)
    PROVE  PulseInv'
<1>1. PICK i \in ChIdx :
        /\ Revoke({i}, IF g_channels[i].ntfn THEN [bound EXCEPT ![MainOf(t[1])] = 0]
                       ELSE bound)
        /\ rx' = [u \in Threads |-> IF u \in FaultedBy({i})
                                    THEN [phase |-> "fault", slot |-> 0] ELSE rx[u]]
        /\ g_channels' = [g_channels EXCEPT ![i] = FreedChannel(@)]
  BY Zenon DEF tm_channel_destroy
<1> DEFINE C == {i}
           G == {}
           b == IF g_channels[i].ntfn THEN [bound EXCEPT ![MainOf(t[1])] = 0] ELSE bound
           fault == [phase |-> "fault", slot |-> 0]
<1>2. /\ bound \in [Threads -> ChIdx \cup {0}] /\ rx \in [Threads -> RxState]
      /\ g_channels \in [ChIdx -> Channel]
  BY Zenon DEF PulseInv, WaitTypeOK, RegistryInv, TablesTypeOK
<1>3. b \in [Threads -> ChIdx \cup {0}] /\ \A u \in Threads : b[u] = 0 \/ b[u] = bound[u]
  BY <1>2, Zenon
<1>4. /\ bound' = [u \in Threads |-> IF b[u] \in C THEN 0 ELSE b[u]]
      /\ active' = active \ C
  BY <1>1, Zenon DEF Revoke
<1>5. FreedChannel(g_channels[i]).in_use = FALSE
  BY DEF FreedChannel
<1>6. \A j \in ChIdx : /\ j \notin C => g_channels'[j] = g_channels[j]
                       /\ g_channels'[j].in_use => j \notin C
                       /\ g_channels'[j].in_use => g_channels[j].owner_pid \notin G
  BY <1>1, <1>2, <1>5, Zenon
<1>7. fault \in RxState /\ fault.phase = "fault"
  BY DEF RxState
<1>8. \A u \in FaultedBy({i}) : rx[u].phase = "recv"
  BY Zenon DEF FaultedBy
<1>9. \A q \in Procs \ G : next_slot'[q] = next_slot[q]
  BY Zenon DEF tm_channel_destroy
<1> HIDE DEF b, C, G
<1>10. /\ bound' \in [Threads -> ChIdx \cup {0}]
       /\ \A u \in Threads : bound'[u] # 0 => bound'[u] = bound[u] /\ bound[u] \notin C
  BY <1>3, <1>4, Zenon
<1>11. /\ rx' \in [Threads -> RxState]
       /\ \A u \in Threads : rx'[u] = IF u \in FaultedBy({i}) THEN fault ELSE rx[u]
  BY <1>1, <1>2, <1>7, Zenon
<1> HIDE DEF fault
<1>12. \A u \in Threads : /\ rx'[u].phase = "recv" => rx'[u] = rx[u]
                          /\ rx[u].phase = "fetch" => rx'[u] = rx[u] \/ u[1] \in G
  BY <1>7, <1>8, <1>11
<1> QED
  BY <1>4, <1>6, <1>9, <1>10, <1>11, <1>12, FreeKeeps, ZenonT(30)

LEMMA WakeTerminateKeeps ==
    ASSUME RegistryInv, RegistryInv', PulseInv, NEW p \in Procs, tm_process_terminate(p)
    PROVE  PulseInv'
<1> DEFINE C == {i \in ChIdx : g_channels[i].in_use /\ g_channels[i].owner_pid = p}
           G == {p}
<1>1. /\ g_channels' = [i \in ChIdx |-> IF i \in C THEN FreedChannel(g_channels[i])
                                        ELSE g_channels[i]]
      /\ bound' = [t \in Threads |-> IF t[1] = p THEN 0 ELSE bound[t]]
      /\ rx' = [t \in Threads |-> IF t[1] = p THEN Running ELSE rx[t]]
      /\ active' = active \ C
      /\ next_slot' = [next_slot EXCEPT ![p] = 1]
  BY Zenon DEF tm_process_terminate
<1>2. /\ bound \in [Threads -> ChIdx \cup {0}] /\ rx \in [Threads -> RxState]
      /\ next_slot \in [Procs -> Nat \ {0}]
  BY Zenon DEF PulseInv, WaitTypeOK, RegistryInv, TablesTypeOK
<1>3. \A i \in ChIdx : FreedChannel(g_channels[i]).in_use = FALSE
  BY DEF FreedChannel
<1>4. \A j \in ChIdx : /\ j \notin C => g_channels'[j] = g_channels[j]
                       /\ g_channels'[j].in_use => j \notin C
                       /\ g_channels'[j].in_use => g_channels[j].owner_pid \notin G
  BY <1>1, <1>3, Zenon
<1>5. Running \in RxState /\ Running.phase = "run"
  BY DEF Running, RxState
<1>6. \A q \in Procs \ G : next_slot'[q] = next_slot[q]
  BY <1>1, <1>2, Zenon
<1>7. \A u \in Threads : bound[u] # 0 /\ u[1] # p => bound[u] \notin C
  BY Zenon DEF PulseInv, BoundRight
<1> HIDE DEF C
<1>8. /\ bound' \in [Threads -> ChIdx \cup {0}]
      /\ \A u \in Threads : bound'[u] # 0 => bound'[u] = bound[u] /\ bound[u] \notin C
  BY <1>1, <1>2, <1>7, Zenon
<1>9. /\ rx' \in [Threads -> RxState]
      /\ \A u \in Threads : rx'[u] = IF u[1] \in G THEN Running ELSE rx[u]
  BY <1>1, <1>2, <1>5, Zenon
<1> HIDE DEF G
<1>10. \A u \in Threads : /\ rx'[u].phase = "recv" => rx'[u] = rx[u]
                          /\ rx[u].phase = "fetch" => rx'[u] = rx[u] \/ u[1] \in G
  BY <1>5, <1>9
<1> QED
  BY <1>1, <1>4, <1>6, <1>8, <1>9, <1>10, FreeKeeps, ZenonT(30)
(* A new channel has a receive slot of its own and no pulses, and the      *)
(* thread that may be bound to it is running.                              *)
LEMMA WakeCreateKeeps ==
    ASSUME RegistryInv, RegistryInv', PulseInv, NEW t \in Threads, NEW flags \in FlagSets,
           tm_channel_create(t, flags)
    PROVE  PulseInv'
<1> DEFINE p == t[1]
<1>1. /\ p \in Procs /\ rx[t].phase # "recv" /\ UNCHANGED <<active, rx>>
  <2>1. rx[t] = Running /\ UNCHANGED <<active, rx>>
    BY Zenon DEF tm_channel_create, Calls
  <2>2. p \in Procs
    BY Zenon DEF Procs
  <2> QED
    BY <2>1, <2>2 DEF Running
<1>2. CASE UNCHANGED <<g_channels, next_slot, bound>>
  BY <1>1, <1>2, ElsewhereKeeps, Zenon
<1>3. CASE \E i \in channel_alloc_slot_idx : \E name, ntfn :
             /\ g_channels' = [g_channels EXCEPT ![i] =
                                 NewChannel(p, name, flags, ntfn, g_channels[i])]
             /\ bound' = IF ntfn THEN [bound EXCEPT ![t] = i] ELSE bound
             /\ TakeSlot(p)
  <2>0. PICK i \in channel_alloc_slot_idx : \E name, ntfn :
             /\ g_channels' = [g_channels EXCEPT ![i] =
                                 NewChannel(p, name, flags, ntfn, g_channels[i])]
             /\ bound' = IF ntfn THEN [bound EXCEPT ![t] = i] ELSE bound
             /\ TakeSlot(p)
    BY <1>3, Zenon
  <2>1. PICK name, ntfn :
             /\ g_channels' = [g_channels EXCEPT ![i] =
                                 NewChannel(p, name, flags, ntfn, g_channels[i])]
             /\ bound' = IF ntfn THEN [bound EXCEPT ![t] = i] ELSE bound
             /\ TakeSlot(p)
    BY <2>0, Zenon
  <2>2. i \in ChIdx /\ ~g_channels[i].in_use /\ i # 0
    BY FreeRows, BoundsAssumption DEF ChIdx
  <2>3. /\ g_channels \in [ChIdx -> Channel] /\ next_slot \in [Procs -> Nat \ {0}]
        /\ bound \in [Threads -> ChIdx \cup {0}]
    BY Zenon DEF RegistryInv, TablesTypeOK, PulseInv, WaitTypeOK
  <2>4. LET c == NewChannel(p, name, flags, ntfn, g_channels[i])
        IN  /\ c.in_use /\ c.owner_pid = p /\ c.owner_recv = next_slot[p]
            /\ c.ntfn = ntfn /\ c.queue = <<>>
    BY DEF NewChannel
  <2>5. /\ g_channels'[i].in_use /\ g_channels'[i].owner_pid = p
        /\ g_channels'[i].owner_recv = next_slot[p]
        /\ g_channels'[i].ntfn = ntfn /\ g_channels'[i].queue = <<>>
        /\ \A j \in ChIdx : j # i => g_channels'[j] = g_channels[j]
    BY <2>1, <2>2, <2>3, <2>4, Zenon
  <2>6. /\ bound' \in [Threads -> ChIdx \cup {0}]
        /\ \A u \in Threads : bound'[u] = bound[u] \/ (u = t /\ bound'[u] = i /\ ntfn)
    BY <2>1, <2>2, <2>3, Zenon
  <2>7. \A u \in Threads : bound[u] # i
    BY <2>2, Zenon DEF PulseInv, BoundRight
  <2>8. RecvsOK'
    <3>1. RecvsOK
      BY Zenon DEF PulseInv
    <3>2. /\ next_slot[p] \in Nat \ {0} /\ next_slot'[p] = next_slot[p] + 1
          /\ \A q \in Procs : q # p => next_slot'[q] = next_slot[q]
      BY <1>1, <2>1, <2>3 DEF TakeSlot
    <3>3. ASSUME NEW j \in ChIdx, j # i, g_channels'[j].in_use
          PROVE  /\ g_channels'[j].owner_pid \in Procs
                 /\ g_channels'[j].owner_recv \in 1 .. (next_slot'[g_channels'[j].owner_pid] - 1)
                 /\ ~(/\ g_channels'[j].owner_pid = p
                      /\ g_channels'[j].owner_recv = next_slot[p])
      <4>1. /\ g_channels'[j] = g_channels[j] /\ g_channels[j].owner_pid \in Procs
            /\ g_channels[j].owner_recv \in 1 .. (next_slot[g_channels[j].owner_pid] - 1)
        BY <2>5, <3>1, <3>3, Zenon DEF RecvsOK
      <4>2. CASE g_channels[j].owner_pid = p
        BY <3>2, <4>1, <4>2
      <4>3. CASE g_channels[j].owner_pid # p
        BY <3>2, <4>1, <4>3, Zenon
      <4> QED
        BY <4>2, <4>3
    <3>4. next_slot[p] \in 1 .. (next_slot'[p] - 1)
      BY <3>2
    <3>5. ASSUME NEW j \in ChIdx, NEW k \in ChIdx,
                 g_channels'[j].in_use, g_channels'[k].in_use,
                 g_channels'[j].owner_pid = g_channels'[k].owner_pid,
                 g_channels'[j].owner_recv = g_channels'[k].owner_recv
          PROVE  j = k
      <4>1. CASE j # i /\ k # i
        BY <2>5, <3>1, <3>5, <4>1, ZenonT(30) DEF RecvsOK
      <4>2. CASE j = i \/ k = i
        BY <2>5, <3>3, <3>5, <4>2, ZenonT(30)
      <4> QED
        BY <4>1, <4>2
    <3>6. \A j \in ChIdx : g_channels'[j].in_use =>
             /\ g_channels'[j].owner_pid \in Procs
             /\ g_channels'[j].owner_recv \in 1 .. (next_slot'[g_channels'[j].owner_pid] - 1)
      BY <1>1, <2>5, <3>3, <3>4, Zenon
    <3> QED
      BY <3>5, <3>6, Zenon DEF RecvsOK
  <2>9. WaitTypeOK'
    BY <1>1, <2>6, Zenon DEF PulseInv, WaitTypeOK
  <2>10. BoundRight(rx)'
    <3> SUFFICES ASSUME NEW u \in Threads, bound'[u] # 0
                 PROVE  /\ g_channels'[bound'[u]].in_use /\ g_channels'[bound'[u]].ntfn
                        /\ g_channels'[bound'[u]].owner_pid = u[1]
                        /\ rx'[u].phase = "recv" =>
                              /\ rx'[u].slot = g_channels'[bound'[u]].owner_recv
                              /\ bound'[u] \notin active'
      BY Zenon DEF BoundRight
    <3>1. CASE bound'[u] = bound[u]
      <4>1. bound[u] \in ChIdx /\ g_channels'[bound[u]] = g_channels[bound[u]]
        BY <2>3, <2>5, <2>7, <3>1, Zenon
      <4> QED
        BY <1>1, <3>1, <4>1, ZenonT(30) DEF PulseInv, BoundRight
    <3>2. CASE u = t /\ bound'[u] = i /\ ntfn
      BY <1>1, <2>5, <3>2, Zenon
    <3> QED
      BY <2>6, <3>1, <3>2, Zenon
  <2>11. PulsesSeen'
    <3> SUFFICES ASSUME NEW j \in ChIdx, Waits(j)'
                 PROVE  Attended(j, rx)'
      BY Zenon DEF PulsesSeen
    <3>1. j # i
      BY <2>5, Zenon DEF Waits
    <3>2. g_channels'[j] = g_channels[j] /\ Attended(j, rx)
      BY <2>5, <3>1, Zenon DEF Waits, PulseInv, PulsesSeen
    <3>3. \A u \in Threads : bound'[u] = j => bound[u] = j
      BY <2>6, <3>1, Zenon
    <3> QED
      BY <1>1, <3>2, <3>3, Zenon DEF Attended
  <2> QED
    BY <2>8, <2>9, <2>10, <2>11, Zenon DEF PulseInv
<1> QED
  BY <1>2, <1>3, Zenon DEF tm_channel_create

-----------------------------------------------------------------------------
LEMMA PulseInit == Init => PulseInv
<1> SUFFICES ASSUME Init PROVE PulseInv
  OBVIOUS
<1>1. Running \in RxState
  BY DEF Running, RxState
<1>2. WaitTypeOK
  BY <1>1, Zenon DEF Init, WaitTypeOK
<1>3. \A i \in ChIdx : ~g_channels[i].in_use
  BY DEF Init
<1>4. \A t \in Threads : bound[t] = 0
  BY Zenon DEF Init
<1> QED
  BY <1>2, <1>3, <1>4, Zenon DEF PulseInv, RecvsOK, BoundRight, PulsesSeen, Waits

LEMMA PulseStep ==
    ASSUME Convention, RegistryInv, PulseInv, [Next]_vars
    PROVE  RegistryInv' /\ PulseInv'
<1> DEFINE Goal == PulseInv'
<1>0. RegistryInv'
  BY RegistryStep, Zenon
<1>1. ASSUME NEW t \in Threads, NEW flags \in FlagSets, tm_channel_create(t, flags)
      PROVE  Goal
  BY <1>0, <1>1, WakeCreateKeeps, Zenon
<1>2. ASSUME NEW t \in Threads, NEW w \in Threads, tm_channel_bind_thread(t, w) PROVE Goal
  BY <1>0, <1>2, BindKeeps, Zenon
<1>3. ASSUME NEW t \in Threads, tm_channel_destroy(t) PROVE Goal
  BY <1>0, <1>3, WakeDestroyKeeps, Zenon
<1>4. ASSUME NEW t \in Threads, tm_connect_attach(t) \/ tm_dup_cap(t) PROVE Goal
  <2>1. /\ UNCHANGED <<g_channels, bound, active, rx>> /\ TakeSlot(t[1])
    BY <1>4, Zenon DEF tm_connect_attach, tm_dup_cap
  <2>2. t[1] \in Procs
    BY Zenon DEF Procs
  <2> QED
    BY <1>0, <2>1, <2>2, ElsewhereKeeps, Zenon
<1>5. ASSUME NEW t \in Threads, tm_connect_detach(t) PROVE Goal
  BY <1>0, <1>5, ElsewhereKeeps, ZenonT(30) DEF tm_connect_detach
<1>6. ASSUME NEW t \in Threads, tm_pulse_send(t) PROVE Goal
  BY <1>0, <1>6, WakeSendKeeps, Zenon
<1>7. ASSUME NEW t \in Threads, DirectPulse(t) PROVE Goal
  BY <1>0, <1>7, WakeDirectKeeps, Zenon
<1>8. ASSUME NEW t \in Threads, MsgReceive(t) PROVE Goal
  BY <1>0, <1>8, ReceiveKeeps, ZenonT(30)
<1>9. ASSUME NEW t \in Threads, MsgReceiveMessage(t) PROVE Goal
  BY <1>0, <1>9, MessageKeeps, Zenon
<1>10. ASSUME NEW t \in Threads, tm_pulse_fetch(t) PROVE Goal
  BY <1>0, <1>10, WakeFetchKeeps, Zenon
<1>11. ASSUME NEW t \in Threads, SpuriousWake(t) PROVE Goal
  BY <1>0, <1>11, SpuriousKeeps, Zenon
<1>12. ASSUME NEW p \in Procs, tm_process_terminate(p) PROVE Goal
  BY <1>0, <1>12, WakeTerminateKeeps, Zenon
<1>13. ASSUME NEW p \in Procs, tm_process_register(p) PROVE Goal
  BY <1>0, <1>13, ElsewhereKeeps, Zenon DEF tm_process_register
<1>14. ASSUME UNCHANGED vars PROVE Goal
  BY <1>0, <1>14, ElsewhereKeeps, Zenon DEF vars
<1> HIDE DEF Goal
<1>15. Goal
  BY ZenonT(30), <1>1, <1>2, <1>3, <1>4, <1>5, <1>6, <1>7, <1>8, <1>9, <1>10, <1>11, <1>12,
     <1>13, <1>14, Zenon DEF Next
<1> QED
  BY <1>0, <1>15, Zenon DEF Goal

(* A pulse that is queued at a channel with a Notification is never        *)
(* forgotten: a thread of the owner is on its way to fetch it, or the      *)
(* signal is pending and the bound thread is not blocked in MsgReceive.    *)
(* This holds for programs in which each thread keeps to one pulse         *)
(* channel, whatever exits and whatever is destroyed.                      *)
THEOREM NoPulseForgotten ==
    ASSUME Convention
    PROVE  Spec => []NoForgottenPulse
<1>1. Init => RegistryInv /\ PulseInv
  BY RegistryInit, PulseInit, Zenon
<1>2. RegistryInv /\ PulseInv /\ [Next]_vars => RegistryInv' /\ PulseInv'
  BY PulseStep, Zenon
<1>3. PulseInv => NoForgottenPulse
  BY PulseGivesAnswer, Zenon
<1> QED
  BY <1>1, <1>2, <1>3, PTL DEF Spec
=============================================================================
