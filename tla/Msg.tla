--------------------------------- MODULE Msg --------------------------------
(***************************************************************************)
(* MsgSend, MsgReceive, MsgSavereply and MsgReply (libc/qsoe/msg.c)        *)
(* between client processes and one server, with taskman's copy for        *)
(* messages that do not fit the message registers: the server PULLs the    *)
(* request when it receives and PUSHes the answer when it replies          *)
(* (tm_msg_xfer_pull, tm_msg_xfer_push), and taskman keeps the client's    *)
(* reply buffer in between.                                                *)
(*                                                                         *)
(* The endpoint and the reply objects are seL4's and external.  The bytes  *)
(* of a message are the number of the request they belong to.  Clients can *)
(* be killed at any time, and a new process can get the pid.               *)
(***************************************************************************)
EXTENDS Integers, FiniteSets, Functions

CONSTANTS Clients,              \* client threads
          PidOf,                \* the pid of each
          Workers,              \* server threads besides the main thread
          Slots,                \* slots for saved reply objects
          SavesBulk,            \* whether the server defers large requests too
          TM_BULK_PENDING_MAX,
          MaxSends, MaxBadges   \* bounds: requests, connections in a run

Main == "main"
Threads == {Main} \cup Workers
Pids == {PidOf[c] : c \in Clients}

Nobody == "nobody"

ASSUME MsgAssumption ==
    /\ Main \notin Workers /\ Threads \cap Slots = {} /\ Nobody \notin Clients
    /\ IsFiniteSet(Clients) /\ PidOf \in [Clients -> Nat \ {0}]
    /\ SavesBulk \in BOOLEAN /\ TM_BULK_PENDING_MAX \in Nat
    /\ MaxSends \in Nat /\ MaxBadges \in Nat

VARIABLES cl,         \* client threads
          queue,      \* clients queued at the endpoint, in order of their requests
          robj,       \* reply object in each slot: the client bound to it
          th,         \* server threads
          deferred,   \* rcvids the server has saved
          pending,    \* s_bulk_pending
          conn,       \* per pid: badge of its connection to the server
          badges,     \* badges handed out
          sent        \* requests made

vars == <<cl, queue, robj, th, deferred, pending, conn, badges, sent>>

(* A row names the reply buffer by the request it belongs to. *)
NoRow == [pid |-> 0, req |-> 0]
NoRcv == [kind |-> "none", badge |-> 0, slot |-> Main, req |-> 0]

(* A client thread: where it is, its request, whether that takes the bulk  *)
(* path, what its reply buffer holds and what it was answered.             *)
Fresh == [st |-> "idle", req |-> 0, bulk |-> FALSE, buf |-> 0, got |-> 0]

Init == /\ cl = [c \in Clients |-> Fresh]
        /\ queue = {}
        /\ robj = [o \in Threads \cup Slots |-> Nobody]
        /\ th = [t \in Threads |-> [st |-> "idle", rcv |-> NoRcv]]
        /\ deferred = {}
        /\ pending = [i \in 1 .. TM_BULK_PENDING_MAX |-> NoRow]
        /\ badges = Cardinality(Pids)
        /\ conn = CHOOSE f \in [Pids -> 1 .. badges] : IsInjective(f)
        /\ sent = 0

-----------------------------------------------------------------------------
(* MsgSend up to the kernel's Call. *)
MsgSend(c, bulk) ==
    /\ cl[c].st = "idle" /\ conn[PidOf[c]] # 0 /\ sent < MaxSends
    /\ sent' = sent + 1
    /\ cl' = [cl EXCEPT ![c] = [st |-> "blocked", req |-> sent', bulk |-> bulk,
                                buf |-> 0, got |-> 0]]
    /\ queue' = queue \cup {c}
    /\ UNCHANGED <<robj, th, deferred, pending, conn, badges>>

(* MsgReceive up to the bulk test.  The kernel takes the first caller and  *)
(* binds the thread's own reply object to it; a caller that is still bound *)
(* to it is cut off and blocks for good.                                   *)
MsgReceive(t) ==
    /\ th[t].st = "idle"
    /\ \E c \in queue :
       /\ \A d \in queue : cl[c].req <= cl[d].req
       /\ th' = [th EXCEPT ![t] = [st |-> IF cl[c].bulk THEN "pull" ELSE "runs",
                                   rcv |-> [kind |-> IF cl[c].bulk THEN "bulk" ELSE "plain",
                                            badge |-> conn[PidOf[c]], slot |-> Main,
                                            req |-> cl[c].req]]]
       /\ robj' = [robj EXCEPT ![t] = c]
       /\ queue' = queue \ {c}
    /\ UNCHANGED <<cl, deferred, pending, conn, badges, sent>>

-----------------------------------------------------------------------------
(* TM_REQ_MSG_XFER.  The badge names the client's process while it has the *)
(* connection.                                                             *)
ClientPid(b) == {p \in Pids : conn[p] = b}
First(S) == {i \in S : \A j \in S : i <= j}
bulk_pending_find(p) == First({i \in DOMAIN pending : pending[i].pid = p})
FreeRows == First({i \in DOMAIN pending : pending[i].pid = 0})

(* Mutant: a row left by an earlier owner of the pid is not taken over. *)
RowNotReused(p) == FreeRows
RowFor(p) == IF bulk_pending_find(p) # {} THEN bulk_pending_find(p) ELSE FreeRows

(* The copy stops at a page that is not the process's (EFAULT), or taskman *)
(* is out of slots (ENOMEM): MsgReceive fails, the caller stays blocked.   *)
PullFails(t) ==
    /\ th[t].st = "pull"
    /\ th' = [th EXCEPT ![t] = [st |-> "idle", rcv |-> NoRcv]]
    /\ cl' = [c \in Clients |-> IF robj[t] = c THEN [cl[c] EXCEPT !.st = "cut"] ELSE cl[c]]
    /\ UNCHANGED <<queue, robj, deferred, pending, conn, badges, sent>>

(* tm_msg_xfer_pull: the reply buffer is kept for the push. *)
tm_msg_xfer_pull(t) ==
    /\ th[t].st = "pull"
    /\ \E p \in ClientPid(th[t].rcv.badge) : \E i \in RowFor(p) :
         pending' = [pending EXCEPT ![i] = [pid |-> p, req |-> th[t].rcv.req]]
    /\ th' = [th EXCEPT ![t].st = "runs"]
    /\ UNCHANGED <<cl, queue, robj, deferred, conn, badges, sent>>

(* The connection is gone (ESRCH) or the table full (EAGAIN). *)
PullRefused(t) ==
    /\ th[t].st = "pull"
    /\ \A p \in ClientPid(th[t].rcv.badge) : RowFor(p) = {}
    /\ PullFails(t)

(* tm_msg_xfer_push: into the buffer the row names; the row is used up.    *)
(* Without a row or a connection MsgReply gives up and answers nobody.     *)
tm_msg_xfer_push(t) ==
    LET rcv == th[t].rcv
        at == UNION {bulk_pending_find(p) : p \in ClientPid(rcv.badge)}
    IN /\ th[t].st = "runs" /\ rcv.kind = "bulk"
       /\ IF at = {}
          THEN /\ th' = [th EXCEPT ![t] = [st |-> "idle", rcv |-> NoRcv]]
               /\ UNCHANGED <<cl, pending>>
          ELSE \E i \in at :
                 /\ cl' = [c \in Clients |-> IF cl[c].req = pending[i].req
                                             THEN [cl[c] EXCEPT !.buf = rcv.req] ELSE cl[c]]
                 /\ pending' = [pending EXCEPT ![i] = NoRow]
                 /\ th' = [th EXCEPT ![t].st = "answers"]
       /\ UNCHANGED <<queue, robj, deferred, conn, badges, sent>>

-----------------------------------------------------------------------------
(* Mutant: the reply object stays where it is. *)
NotMoved(slot) == robj

(* The active reply object moves to the slot; a new one takes its place.   *)
Stashed(slot) == [robj EXCEPT ![slot] = robj[Main], ![Main] = Nobody]

(* MsgSavereply; it may fail and then leaves everything as it was. *)
MsgSavereply(t) ==
    /\ th[t].st = "runs"
    /\ th[t].rcv.kind = "bulk" => SavesBulk
    /\ \E s \in {s \in Slots : \A r \in deferred : r.slot # s} :
         /\ robj' = Stashed(s)
         /\ deferred' = deferred \cup {[th[t].rcv EXCEPT !.kind = "saved", !.slot = s]}
    /\ th' = [th EXCEPT ![t] = [st |-> "idle", rcv |-> NoRcv]]
    /\ UNCHANGED <<cl, queue, pending, conn, badges, sent>>

(* Mutant: a deferred answer goes to the active reply object. *)
AlwaysActive(rcv) == Main

(* Where MsgReply sends: the saved object, or the main thread's. *)
ReplySlot(rcv) == IF rcv.kind = "saved" THEN rcv.slot ELSE Main

(* The kernel answers the client bound to the object, if there is one.  An *)
(* inline answer carries its bytes.                                        *)
Answered(rcv) == [c \in Clients |->
    IF robj[ReplySlot(rcv)] # c THEN cl[c]
    ELSE [cl[c] EXCEPT !.st = "idle", !.got = rcv.req,
                       !.buf = IF rcv.kind = "bulk" \/ cl[c].bulk THEN @ ELSE rcv.req]]

(* MsgReply, after the push if there is one. *)
MsgReply(t) ==
    /\ \/ th[t].st = "answers"
       \/ th[t].st = "runs" /\ th[t].rcv.kind = "plain"
    /\ cl' = Answered(th[t].rcv)
    /\ robj' = [robj EXCEPT ![ReplySlot(th[t].rcv)] = Nobody]
    /\ th' = [th EXCEPT ![t] = [st |-> "idle", rcv |-> NoRcv]]
    /\ UNCHANGED <<queue, deferred, pending, conn, badges, sent>>

MsgReplySaved(rcv) ==
    /\ cl' = Answered(rcv)
    /\ robj' = [robj EXCEPT ![ReplySlot(rcv)] = Nobody]
    /\ deferred' = deferred \ {rcv}
    /\ UNCHANGED <<queue, th, pending, conn, badges, sent>>

-----------------------------------------------------------------------------
(* The process goes, its calls with it (tm_process_terminate): taskman     *)
(* drops its connection but not its row of s_bulk_pending.                 *)
Killed(p) == {c \in Clients : PidOf[c] = p}
Exit(p) ==
    /\ conn[p] # 0
    /\ conn' = [conn EXCEPT ![p] = 0]
    /\ cl' = [c \in Clients |-> IF c \in Killed(p) THEN Fresh ELSE cl[c]]
    /\ queue' = queue \ Killed(p)
    /\ robj' = [o \in DOMAIN robj |-> IF robj[o] \in Killed(p) THEN Nobody ELSE robj[o]]
    /\ UNCHANGED <<th, deferred, pending, badges, sent>>

(* A new process with the pid connects: a badge of its own. *)
ConnectAttach(p) ==
    /\ conn[p] = 0 /\ badges < MaxBadges
    /\ badges' = badges + 1 /\ conn' = [conn EXCEPT ![p] = badges']
    /\ UNCHANGED <<cl, queue, robj, th, deferred, pending, sent>>

Serve(t) == MsgReceive(t) \/ tm_msg_xfer_pull(t) \/ PullRefused(t)
            \/ tm_msg_xfer_push(t) \/ MsgReply(t)

Next == \/ \E c \in Clients, bulk \in BOOLEAN : MsgSend(c, bulk)
        \/ \E t \in Threads : Serve(t) \/ PullFails(t) \/ MsgSavereply(t)
        \/ \E rcv \in deferred : MsgReplySaved(rcv)
        \/ \E p \in Pids : Exit(p) \/ ConnectAttach(p)

(* The server is a loop that receives, answers, and gets round to what it  *)
(* put off.                                                                *)
Spec == /\ Init /\ [][Next]_vars
        /\ \A t \in Threads : WF_vars(Serve(t))
        /\ WF_vars(\E rcv \in deferred : MsgReplySaved(rcv))

-----------------------------------------------------------------------------
Returned(c) == cl[c].st = "idle" /\ cl[c].req # 0

(* A MsgSend returns with the answer made to that very request, however    *)
(* the server interleaves, defers and overlaps its answers.                *)
AnswerIsOwn == \A c \in Clients : Returned(c) => cl[c].got = cl[c].req

(* When MsgSend returns, the bytes of the answer are in its reply buffer,  *)
(* on the bulk path too, whoever used the pid or the rows of               *)
(* s_bulk_pending before.                                                  *)
AnswerIsComplete == \A c \in Clients : Returned(c) => cl[c].buf = cl[c].req

(* Every MsgSend comes back, unless its PULL fails. *)
SendReturns == \A c \in Clients : cl[c].st = "blocked" ~> cl[c].st # "blocked"
=============================================================================
