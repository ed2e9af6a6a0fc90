----------------------------- MODULE MsgProofs ------------------------------
(***************************************************************************)
(* What a MsgSend returns with, for a server that receives in its main     *)
(* thread only and any number of clients, slots and rows.  The invariant   *)
(* OwnInv ties callers to reply objects; CompleteInv follows the bytes of  *)
(* a bulk transfer.  First: every step but a reply keeps OwnInv.           *)
(***************************************************************************)
EXTENDS Msg, FiniteSetTheorems, FunctionTheorems, TLAPS

ClientRec == [st : {"idle", "blocked", "cut"}, req : Nat, bulk : BOOLEAN,
              buf : Nat, got : Nat]
Rcv == [kind : {"none", "plain", "bulk", "saved"}, badge : Nat,
        slot : Threads \cup Slots, req : Nat]
Row == [pid : Nat, req : Nat]

MsgType ==
    /\ cl \in [Clients -> ClientRec]
    /\ queue \subseteq Clients
    /\ robj \in [Threads \cup Slots -> Clients \cup {Nobody}]
    /\ th \in [Threads -> [st : {"idle", "pull", "runs", "answers"}, rcv : Rcv]]
    /\ deferred \subseteq Rcv
    /\ pending \in [1 .. TM_BULK_PENDING_MAX -> Row]
    /\ conn \in [Pids -> Nat]
    /\ badges \in Nat /\ sent \in Nat

OneThread == Workers = {}

(* A caller waits in the queue or is bound to one reply object, and what   *)
(* it is bound to belongs to the request it made.                          *)
Binding ==
    /\ \A c \in queue : cl[c].st = "blocked" /\ \A o \in DOMAIN robj : robj[o] # c
    /\ \A o \in DOMAIN robj : robj[o] # Nobody => cl[robj[o]].st # "idle"
    /\ \A o, u \in DOMAIN robj : robj[o] # Nobody /\ robj[o] = robj[u] => o = u
    /\ th[Main].st # "idle" =>
          /\ th[Main].rcv.kind # "saved"
          /\ robj[Main] # Nobody => cl[robj[Main]].req = th[Main].rcv.req
    /\ \A r \in deferred :
          /\ r.kind = "saved" /\ r.slot \in Slots
          /\ robj[r.slot] # Nobody => cl[robj[r.slot]].req = r.req
    /\ \A r, q \in deferred : r.slot = q.slot => r = q

OwnInv == MsgType /\ Binding /\ AnswerIsOwn

(* Badges name one connection, and rows of s_bulk_pending one process. *)
BadgesNamed ==
    /\ \A p \in Pids : conn[p] <= badges
    /\ \A p, q \in Pids : conn[p] = conn[q] /\ conn[p] # 0 => p = q
RowsNamed ==
    \A i, j \in DOMAIN pending :
       pending[i].pid # 0 /\ pending[i].pid = pending[j].pid => i = j
CallersConnected == \A c \in queue : conn[PidOf[c]] # 0

(* A badge in hand that still resolves leads to the caller that is bound;  *)
(* its row of s_bulk_pending names its reply buffer; and after the push    *)
(* that buffer holds the answer.                                           *)
InHand ==
    th[Main].st # "idle" =>
       LET rcv == th[Main].rcv IN
       /\ rcv.badge # 0 /\ rcv.badge <= badges
       /\ \A p \in Pids : conn[p] = rcv.badge =>
             robj[Main] # Nobody /\ PidOf[robj[Main]] = p
       /\ robj[Main] # Nobody => (cl[robj[Main]].bulk <=> rcv.kind = "bulk")
       /\ th[Main].st \in {"pull", "answers"} => rcv.kind = "bulk"
       /\ th[Main].st = "runs" /\ rcv.kind = "bulk" /\ robj[Main] # Nobody =>
             \A i \in DOMAIN pending :
                pending[i].pid = PidOf[robj[Main]] => pending[i].req = rcv.req
       /\ th[Main].st = "answers" /\ robj[Main] # Nobody =>
             cl[robj[Main]].buf = cl[robj[Main]].req

(* No bulk request waits for its answer. *)
DeferredPlain == \A r \in deferred : robj[r.slot] # Nobody => ~cl[robj[r.slot]].bulk

Transfer == BadgesNamed /\ RowsNamed /\ CallersConnected /\ InHand /\ DeferredPlain

CompleteInv == Transfer /\ AnswerIsComplete

-----------------------------------------------------------------------------
(* Updates of one field leave the others of a client record alone. *)
LEMMA ClientCut ==
    ASSUME NEW r \in ClientRec
    PROVE  /\ [r EXCEPT !.st = "cut"] \in ClientRec
           /\ [r EXCEPT !.st = "cut"].st = "cut"
           /\ [r EXCEPT !.st = "cut"].req = r.req
           /\ [r EXCEPT !.st = "cut"].bulk = r.bulk
           /\ [r EXCEPT !.st = "cut"].buf = r.buf
  BY Zenon DEF ClientRec

LEMMA ClientFilled ==
    ASSUME NEW r \in ClientRec, NEW n \in Nat
    PROVE  /\ [r EXCEPT !.buf = n] \in ClientRec
           /\ [r EXCEPT !.buf = n].st = r.st
           /\ [r EXCEPT !.buf = n].req = r.req
           /\ [r EXCEPT !.buf = n].bulk = r.bulk
           /\ [r EXCEPT !.buf = n].buf = n
           /\ [r EXCEPT !.buf = n].got = r.got
  BY Zenon DEF ClientRec

-----------------------------------------------------------------------------
(* Every step keeps OwnInv: a caller is bound when it is taken from the    *)
(* queue, its binding moves with the rcvid, and it is unbound when it is   *)
(* answered or dies.                                                       *)
LEMMA OwnSend ==
    ASSUME OneThread, OwnInv, NEW c \in Clients, NEW bulk \in BOOLEAN, MsgSend(c, bulk)
    PROVE  OwnInv'
<1> USE MsgAssumption DEF OwnInv, MsgSend, OneThread, Threads
<1>1. MsgType'
  BY DEF MsgType, ClientRec
<1>2. Binding'
  BY SMTT(30) DEF Binding, MsgType, ClientRec, Rcv
<1>3. AnswerIsOwn'
  BY Zenon DEF AnswerIsOwn, Returned, MsgType, ClientRec
<1> QED
  BY <1>1, <1>2, <1>3, Zenon

LEMMA OwnReceive ==
    ASSUME OneThread, OwnInv, MsgReceive(Main)
    PROVE  OwnInv'
<1> USE MsgAssumption DEF OwnInv, OneThread, Threads
<1>1. PICK c \in queue :
        /\ th' = [th EXCEPT ![Main] = [st |-> IF cl[c].bulk THEN "pull" ELSE "runs",
                                       rcv |-> [kind |-> IF cl[c].bulk THEN "bulk" ELSE "plain",
                                                badge |-> conn[PidOf[c]], slot |-> Main,
                                                req |-> cl[c].req]]]
        /\ robj' = [robj EXCEPT ![Main] = c]
        /\ queue' = queue \ {c}
  BY Zenon DEF MsgReceive
<1>2. UNCHANGED <<cl, deferred, pending, conn, badges, sent>>
  BY Zenon DEF MsgReceive
<1>3. c \in Clients /\ cl[c] \in ClientRec /\ conn[PidOf[c]] \in Nat
  BY <1>1, Zenon DEF MsgType, Pids
<1>4. MsgType'
  BY <1>1, <1>2, <1>3, Zenon DEF MsgType, ClientRec, Rcv
<1>5. Binding'
  BY <1>1, <1>2, <1>3, SMTT(30) DEF Binding, MsgType, ClientRec, Rcv
<1>6. AnswerIsOwn'
  BY <1>2, Zenon DEF AnswerIsOwn, Returned
<1> QED
  BY <1>4, <1>5, <1>6, Zenon

LEMMA OwnPullFails ==
    ASSUME OneThread, OwnInv, PullFails(Main)
    PROVE  OwnInv'
<1> USE MsgAssumption DEF OwnInv, PullFails, OneThread, Threads
<1>1. MsgType'
  <2>1. ASSUME NEW c \in Clients PROVE cl'[c] \in ClientRec
    BY ClientCut, Zenon DEF MsgType
  <2>2. cl' \in [Clients -> ClientRec]
    BY <2>1, Zenon
  <2>3. th' \in [Threads -> [st : {"idle", "pull", "runs", "answers"}, rcv : Rcv]]
    BY Zenon DEF MsgType, Rcv, NoRcv
  <2> QED
    BY <2>2, <2>3, Zenon DEF MsgType
<1>2. Binding'
  BY DEF Binding, MsgType, ClientRec, Rcv
<1>3. AnswerIsOwn'
  BY DEF AnswerIsOwn, Returned, MsgType, ClientRec
<1> QED
  BY <1>1, <1>2, <1>3, Zenon

LEMMA OwnPull ==
    ASSUME OneThread, OwnInv, tm_msg_xfer_pull(Main)
    PROVE  OwnInv'
<1> USE MsgAssumption DEF OwnInv, OneThread, Threads
<1>0. PICK p \in ClientPid(th[Main].rcv.badge) : \E i \in RowFor(p) :
        pending' = [pending EXCEPT ![i] = [pid |-> p, req |-> th[Main].rcv.req]]
  BY Zenon DEF tm_msg_xfer_pull
<1>1. PICK i \in RowFor(p) :
        pending' = [pending EXCEPT ![i] = [pid |-> p, req |-> th[Main].rcv.req]]
  BY <1>0, Zenon
<1>2. th' = [th EXCEPT ![Main].st = "runs"]
      /\ UNCHANGED <<cl, queue, robj, deferred, conn, badges, sent>>
      /\ th[Main].st = "pull"
  BY Zenon DEF tm_msg_xfer_pull
<1>3. p \in Nat /\ th[Main].rcv.req \in Nat
  BY <1>0 DEF ClientPid, Pids, MsgType, Rcv
<1>4. MsgType'
  <2>1. [pid |-> p, req |-> th[Main].rcv.req] \in Row
    BY <1>3, Zenon DEF Row
  <2>2. pending' \in [1 .. TM_BULK_PENDING_MAX -> Row]
    BY <1>1, <2>1, Zenon DEF MsgType
  <2> QED
    BY <1>2, <2>2 DEF MsgType
<1>5. Binding'
  BY <1>2 DEF Binding, MsgType
<1>6. AnswerIsOwn'
  BY <1>2, Zenon DEF AnswerIsOwn, Returned
<1> QED
  BY <1>4, <1>5, <1>6, Zenon
LEMMA OwnPush ==
    ASSUME OneThread, OwnInv, tm_msg_xfer_push(Main)
    PROVE  OwnInv'
<1> USE MsgAssumption DEF OwnInv, OneThread, Threads
<1> DEFINE rcv == th[Main].rcv
           at == UNION {bulk_pending_find(p) : p \in ClientPid(rcv.badge)}
<1>1. UNCHANGED <<queue, robj, deferred, conn, badges, sent>>
      /\ th[Main].st = "runs"
  BY Zenon DEF tm_msg_xfer_push
<1>2. CASE at = {}
  <2>1. th' = [th EXCEPT ![Main] = [st |-> "idle", rcv |-> NoRcv]]
        /\ UNCHANGED <<cl, pending>>
    BY <1>2, Zenon DEF tm_msg_xfer_push
  <2>2. MsgType'
    BY <1>1, <2>1, Zenon DEF MsgType, Rcv, NoRcv
  <2>3. Binding' /\ AnswerIsOwn'
    BY <1>1, <2>1 DEF Binding, MsgType, AnswerIsOwn, Returned
  <2> QED
    BY <2>2, <2>3, Zenon
<1>3. CASE at # {}
  <2>1. PICK i \in at :
          /\ cl' = [c \in Clients |-> IF cl[c].req = pending[i].req
                                      THEN [cl[c] EXCEPT !.buf = rcv.req] ELSE cl[c]]
          /\ pending' = [pending EXCEPT ![i] = NoRow]
          /\ th' = [th EXCEPT ![Main].st = "answers"]
    BY <1>3, Zenon DEF tm_msg_xfer_push
  <2>2. rcv.req \in Nat
    BY Zenon DEF MsgType, Rcv
  <2> HIDE DEF rcv, at
  <2>3. ASSUME NEW c \in Clients
        PROVE  /\ cl'[c] \in ClientRec
               /\ cl'[c].st = cl[c].st /\ cl'[c].req = cl[c].req /\ cl'[c].got = cl[c].got
    BY <2>1, <2>2, ClientFilled DEF MsgType
  <2>4. MsgType'
    <3>1. cl' \in [Clients -> ClientRec]
      BY <2>1, <2>3, Zenon
    <3>2. pending' \in [1 .. TM_BULK_PENDING_MAX -> Row]
      BY <2>1, Zenon DEF MsgType, NoRow, Row
    <3>3. th' \in [Threads -> [st : {"idle", "pull", "runs", "answers"}, rcv : Rcv]]
      <4>1. th' = [th EXCEPT ![Main].st = "answers"]
        BY <2>1, Zenon
      <4> QED
        BY <4>1, SMTT(30) DEF MsgType
    <3> QED
      BY <1>1, <3>1, <3>2, <3>3, Zenon DEF MsgType
  <2>5. Binding'
    BY <1>1, <2>1, <2>3 DEF Binding, MsgType
  <2>6. AnswerIsOwn'
    BY <2>3, Zenon DEF AnswerIsOwn, Returned
  <2> QED
    BY <2>4, <2>5, <2>6, Zenon
<1> QED
  BY <1>2, <1>3, Zenon

LEMMA OwnSavereply ==
    ASSUME OneThread, OwnInv, MsgSavereply(Main)
    PROVE  OwnInv'
<1> USE MsgAssumption DEF OwnInv, OneThread, Threads
<1> DEFINE rcv == th[Main].rcv
<1>1. PICK s \in Slots :
        /\ \A r \in deferred : r.slot # s
        /\ robj' = [robj EXCEPT ![s] = robj[Main], ![Main] = Nobody]
        /\ deferred' = deferred \cup {[rcv EXCEPT !.kind = "saved", !.slot = s]}
  BY Zenon DEF MsgSavereply, Stashed
<1>2. th' = [th EXCEPT ![Main] = [st |-> "idle", rcv |-> NoRcv]]
      /\ UNCHANGED <<cl, queue, pending, conn, badges, sent>>
      /\ th[Main].st = "runs"
  BY Zenon DEF MsgSavereply
<1>3. rcv \in Rcv
  BY Zenon DEF MsgType
<1> HIDE DEF rcv
<1> DEFINE new == [rcv EXCEPT !.kind = "saved", !.slot = s]
<1>4. new \in Rcv /\ new.kind = "saved" /\ new.slot = s /\ new.req = rcv.req
  BY <1>1, <1>3, Zenon DEF Rcv
<1> HIDE DEF new
<1>5. deferred' = deferred \cup {new}
  BY <1>1, Zenon DEF new
<1>6. Main \notin Slots
  BY Zenon
<1>7. MsgType'
  <2>1. robj' \in [Threads \cup Slots -> Clients \cup {Nobody}]
    BY <1>1, Zenon DEF MsgType
  <2>2. th' \in [Threads -> [st : {"idle", "pull", "runs", "answers"}, rcv : Rcv]]
    BY <1>2, Zenon DEF MsgType, Rcv, NoRcv
  <2> QED
    BY <1>2, <1>4, <1>5, <2>1, <2>2, Zenon DEF MsgType
<1>8. Binding'
  <2>1. /\ \A o \in DOMAIN robj : robj'[o] = IF o = Main THEN Nobody
                                          ELSE IF o = s THEN robj[Main] ELSE robj[o]
        /\ DOMAIN robj' = DOMAIN robj /\ Main \in DOMAIN robj /\ s \in DOMAIN robj
    BY <1>1, <1>6, Zenon DEF MsgType
  <2>2. th'[Main].st = "idle"
    BY <1>2, Zenon DEF MsgType
  <2>3. \A c \in queue' : cl'[c].st = "blocked" /\ \A o \in DOMAIN robj' : robj'[o] # c
    BY <1>2, <2>1 DEF Binding, MsgType
  <2>4. /\ \A o \in DOMAIN robj' : robj'[o] # Nobody => cl'[robj'[o]].st # "idle"
        /\ \A o, u \in DOMAIN robj' : robj'[o] # Nobody /\ robj'[o] = robj'[u] => o = u
    BY <1>2, <2>1 DEF Binding
  <2>5. ASSUME NEW r \in deferred'
        PROVE  /\ r.kind = "saved" /\ r.slot \in Slots
               /\ robj'[r.slot] # Nobody => cl'[robj'[r.slot]].req = r.req
    <3>1. CASE r = new
      BY <1>2, <1>4, <1>6, <2>1, <3>1, Zenon DEF Binding, rcv
    <3>2. CASE r \in deferred
      BY <1>1, <1>2, <1>6, <2>1, <3>2, Zenon DEF Binding, MsgType
    <3> QED
      BY <1>5, <3>1, <3>2, Zenon
  <2>6. \A r, q \in deferred' : r.slot = q.slot => r = q
    BY <1>1, <1>4, <1>5 DEF Binding
  <2> QED
    BY <2>2, <2>3, <2>4, <2>5, <2>6, Zenon DEF Binding
<1>9. AnswerIsOwn'
  BY <1>2, Zenon DEF AnswerIsOwn, Returned
<1> QED
  BY <1>7, <1>8, <1>9, Zenon

LEMMA OwnExit ==
    ASSUME OneThread, OwnInv, NEW p \in Pids, Exit(p)
    PROVE  OwnInv'
<1> USE MsgAssumption DEF OneThread, Threads
<1>1. /\ conn' = [conn EXCEPT ![p] = 0] /\ queue' = queue \ Killed(p)
      /\ UNCHANGED <<th, deferred, pending, badges, sent>>
  BY Zenon DEF Exit
<1>2. \A c \in Clients : cl'[c] = IF c \in Killed(p) THEN Fresh ELSE cl[c]
  BY Zenon DEF Exit
<1>3. /\ DOMAIN robj' = DOMAIN robj
      /\ \A o \in DOMAIN robj : /\ robj'[o] = IF robj[o] \in Killed(p) THEN Nobody ELSE robj[o]
                                /\ robj[o] \in Clients \cup {Nobody}
  BY Zenon DEF Exit, OwnInv, MsgType
<1>4. MsgType'
  <2>1. Fresh \in ClientRec
    BY Zenon DEF Fresh, ClientRec
  <2>2. cl' \in [Clients -> ClientRec]
    BY <2>1, Zenon DEF Exit, OwnInv, MsgType
  <2>3. robj' \in [Threads \cup Slots -> Clients \cup {Nobody}]
    BY Zenon DEF Exit, OwnInv, MsgType
  <2>4. conn' \in [Pids -> Nat]
    BY <1>1, Zenon DEF OwnInv, MsgType
  <2> QED
    BY <1>1, <2>2, <2>3, <2>4, Zenon DEF OwnInv, MsgType
<1>5. Binding'
  <2>0. Main \in DOMAIN robj /\ Slots \subseteq DOMAIN robj /\ queue \subseteq Clients
    BY Zenon DEF OwnInv, MsgType
  <2>1. \A c \in queue' : cl'[c].st = "blocked" /\ \A o \in DOMAIN robj' : robj'[o] # c
    BY <1>1, <1>2, <1>3, <2>0 DEF OwnInv, Binding
  <2>2. \A o \in DOMAIN robj' : robj'[o] # Nobody =>
           robj'[o] = robj[o] /\ robj[o] \in Clients /\ cl'[robj[o]] = cl[robj[o]]
    BY <1>2, <1>3, Zenon
  <2>3. /\ \A o \in DOMAIN robj' : robj'[o] # Nobody => cl'[robj'[o]].st # "idle"
        /\ \A o, u \in DOMAIN robj' : robj'[o] # Nobody /\ robj'[o] = robj'[u] => o = u
    BY <1>3, <2>2 DEF OwnInv, Binding
  <2>4. th'[Main].st # "idle" =>
           /\ th'[Main].rcv.kind # "saved"
           /\ robj'[Main] # Nobody => cl'[robj'[Main]].req = th'[Main].rcv.req
    BY <1>1, <1>3, <2>0, <2>2 DEF OwnInv, Binding
  <2>5. \A r \in deferred' : /\ r.kind = "saved" /\ r.slot \in Slots
                             /\ robj'[r.slot] # Nobody => cl'[robj'[r.slot]].req = r.req
    BY <1>1, <1>3, <2>0, <2>2 DEF OwnInv, Binding
  <2>6. \A r, q \in deferred' : r.slot = q.slot => r = q
    BY <1>1, Zenon DEF OwnInv, Binding
  <2> QED
    BY <2>1, <2>3, <2>4, <2>5, <2>6, Zenon DEF Binding
<1>6. AnswerIsOwn'
  BY <1>2 DEF OwnInv, AnswerIsOwn, Returned, Fresh
<1> QED
  BY <1>4, <1>5, <1>6, Zenon DEF OwnInv

LEMMA OwnAttach ==
    ASSUME OwnInv, NEW p \in Pids, ConnectAttach(p)
    PROVE  OwnInv'
<1> USE DEF ConnectAttach, OwnInv
<1>1. MsgType'
  BY DEF MsgType
<1>2. Binding' /\ AnswerIsOwn'
  BY DEF Binding, AnswerIsOwn, Returned
<1> QED
  BY <1>1, <1>2, Zenon

-----------------------------------------------------------------------------
(***************************************************************************)
(* MsgReply, at once or to a saved rcvid, keeps OwnInv, and CompleteInv    *)
(* when the server defers no bulk request.                                 *)
(***************************************************************************)

(* What an answer does to the clients: the one bound to the object returns *)
(* with the rcvid's request as its answer.                                 *)
LEMMA AnsweredClients ==
    ASSUME OwnInv, NEW rcv \in Rcv, NEW c \in Clients
    PROVE  /\ Answered(rcv)[c] \in ClientRec
           /\ Answered(rcv)[c].req = cl[c].req
           /\ Answered(rcv)[c].bulk = cl[c].bulk
           /\ robj[ReplySlot(rcv)] # c => Answered(rcv)[c] = cl[c]
           /\ robj[ReplySlot(rcv)] = c =>
                 /\ Answered(rcv)[c].st = "idle" /\ Answered(rcv)[c].got = rcv.req
                 /\ Answered(rcv)[c].buf = IF rcv.kind = "bulk" \/ cl[c].bulk
                                           THEN cl[c].buf ELSE rcv.req
<1> DEFINE r == cl[c]
           b == IF rcv.kind = "bulk" \/ cl[c].bulk THEN cl[c].buf ELSE rcv.req
           n == [r EXCEPT !.st = "idle", !.got = rcv.req, !.buf = b]
<1>1. r \in ClientRec /\ rcv.req \in Nat
  BY Zenon DEF OwnInv, MsgType, Rcv
<1>2. b \in Nat
  BY <1>1, Zenon DEF ClientRec
<1>3. Answered(rcv)[c] = IF robj[ReplySlot(rcv)] # c THEN r ELSE n
  BY Zenon DEF Answered
<1> HIDE DEF r, b
<1>4. /\ n \in ClientRec /\ n.req = r.req /\ n.bulk = r.bulk
      /\ n.st = "idle" /\ n.got = rcv.req /\ n.buf = b
  BY <1>1, <1>2, Zenon DEF ClientRec
<1> HIDE DEF n
<1> QED
  BY <1>1, <1>3, <1>4, Zenon DEF r, b
(* Answering through the object at which a request is bound keeps what     *)
(* concerns the clients.                                                   *)
LEMMA OwnAnswer ==
    ASSUME OwnInv, NEW rcv \in Rcv, ReplySlot(rcv) \in DOMAIN robj,
           robj[ReplySlot(rcv)] # Nobody => cl[robj[ReplySlot(rcv)]].req = rcv.req,
           cl' = Answered(rcv), robj' = [robj EXCEPT ![ReplySlot(rcv)] = Nobody],
           queue' = queue
    PROVE  /\ cl' \in [Clients -> ClientRec]
           /\ robj' \in [Threads \cup Slots -> Clients \cup {Nobody}]
           /\ \A c \in Clients : cl'[c].req = cl[c].req
           /\ \A c \in queue' : cl'[c].st = "blocked" /\ \A o \in DOMAIN robj' : robj'[o] # c
           /\ \A o \in DOMAIN robj' : robj'[o] # Nobody => cl'[robj'[o]].st # "idle"
           /\ \A o, u \in DOMAIN robj' : robj'[o] # Nobody /\ robj'[o] = robj'[u] => o = u
           /\ AnswerIsOwn'
<1> DEFINE s == ReplySlot(rcv)
<1>1. DOMAIN robj = Threads \cup Slots /\ robj[s] \in Clients \cup {Nobody}
      /\ Nobody \notin Clients /\ queue \subseteq Clients
  BY MsgAssumption, Zenon DEF OwnInv, MsgType
<1>2. ASSUME NEW c \in Clients
      PROVE  /\ cl'[c] \in ClientRec /\ cl'[c].req = cl[c].req
             /\ robj[s] # c => cl'[c] = cl[c]
             /\ robj[s] = c => cl'[c].st = "idle" /\ cl'[c].got = rcv.req
  BY AnsweredClients, Zenon
<1>3. cl' \in [Clients -> ClientRec]
  BY <1>2, Zenon DEF Answered
<1> HIDE DEF s
<1>4. /\ DOMAIN robj' = DOMAIN robj
      /\ \A o \in DOMAIN robj : robj'[o] = IF o = s THEN Nobody ELSE robj[o]
      /\ robj' \in [Threads \cup Slots -> Clients \cup {Nobody}]
      /\ s \in DOMAIN robj
  BY <1>1, Zenon DEF OwnInv, MsgType, s
<1>5. \A c \in queue' : cl'[c].st = "blocked" /\ \A o \in DOMAIN robj' : robj'[o] # c
  BY <1>1, <1>2, <1>4 DEF OwnInv, Binding
<1>6. \A o, u \in DOMAIN robj' : robj'[o] # Nobody /\ robj'[o] = robj'[u] => o = u
  BY <1>1, <1>4, Zenon DEF OwnInv, Binding
<1>7. ASSUME NEW o \in DOMAIN robj', robj'[o] # Nobody PROVE cl'[robj'[o]].st # "idle"
  <2>1. o # s /\ robj'[o] = robj[o] /\ robj[o] \in Clients /\ robj[s] # robj[o]
    BY <1>4, <1>7 DEF OwnInv, Binding, MsgType
  <2>2. cl'[robj[o]] = cl[robj[o]]
    BY <1>2, <2>1, Zenon
  <2>3. cl[robj[o]].st # "idle"
    BY <1>4, <1>7, <2>1, Zenon DEF OwnInv, Binding
  <2> QED
    BY <2>1, <2>2, <2>3, Zenon
<1>8. AnswerIsOwn'
  <2> SUFFICES ASSUME NEW c \in Clients, Returned(c)' PROVE cl'[c].got = cl'[c].req
    BY Zenon DEF AnswerIsOwn
  <2>1. CASE robj[s] = c
    BY <1>1, <1>2, <2>1, Zenon DEF s
  <2>2. CASE robj[s] # c
    BY <1>2, <2>2 DEF OwnInv, AnswerIsOwn, Returned
  <2> QED
    BY <2>1, <2>2, Zenon
<1> QED
  BY <1>2, <1>3, <1>4, <1>5, <1>6, <1>7, <1>8, Zenon

LEMMA OwnReply ==
    ASSUME OneThread, OwnInv, MsgReply(Main)
    PROVE  OwnInv'
<1> USE MsgAssumption DEF OneThread, Threads
<1> DEFINE rcv == th[Main].rcv
<1>1. /\ th[Main].st # "idle" /\ rcv \in Rcv
      /\ th' = [th EXCEPT ![Main] = [st |-> "idle", rcv |-> NoRcv]]
      /\ UNCHANGED <<queue, deferred, pending, conn, badges, sent>>
      /\ cl' = Answered(rcv) /\ robj' = [robj EXCEPT ![ReplySlot(rcv)] = Nobody]
  BY Zenon DEF MsgReply, OwnInv, MsgType
<1>2. rcv.kind # "saved" /\ (robj[Main] # Nobody => cl[robj[Main]].req = rcv.req)
  BY <1>1, Zenon DEF OwnInv, Binding
<1>3. ReplySlot(rcv) = Main /\ Main \in DOMAIN robj
  BY <1>2, Zenon DEF ReplySlot, OwnInv, MsgType
<1> HIDE DEF rcv
<1>4. /\ cl' \in [Clients -> ClientRec]
      /\ robj' \in [Threads \cup Slots -> Clients \cup {Nobody}]
      /\ \A c \in Clients : cl'[c].req = cl[c].req
      /\ \A c \in queue' : cl'[c].st = "blocked" /\ \A o \in DOMAIN robj' : robj'[o] # c
      /\ \A o \in DOMAIN robj' : robj'[o] # Nobody => cl'[robj'[o]].st # "idle"
      /\ \A o, u \in DOMAIN robj' : robj'[o] # Nobody /\ robj'[o] = robj'[u] => o = u
      /\ AnswerIsOwn'
  BY <1>1, <1>2, <1>3, OwnAnswer, Zenon
<1>5. MsgType'
  <2>1. th' \in [Threads -> [st : {"idle", "pull", "runs", "answers"}, rcv : Rcv]]
    BY <1>1, Zenon DEF OwnInv, MsgType, Rcv, NoRcv
  <2> QED
    BY <1>1, <1>4, <2>1, Zenon DEF OwnInv, MsgType
<1>6. Binding'
  <2>1. th'[Main].st = "idle"
    BY <1>1, Zenon DEF OwnInv, MsgType
  <2>2. \A o \in Slots : robj'[o] = robj[o] /\ robj[o] \in Clients \cup {Nobody}
    BY <1>1, <1>3, Zenon DEF OwnInv, MsgType
  <2>3. \A r \in deferred' : /\ r.kind = "saved" /\ r.slot \in Slots
                             /\ robj'[r.slot] # Nobody => cl'[robj'[r.slot]].req = r.req
    BY <1>1, <1>4, <2>2 DEF OwnInv, Binding
  <2>4. \A r, q \in deferred' : r.slot = q.slot => r = q
    BY <1>1, Zenon DEF OwnInv, Binding
  <2> QED
    BY <1>4, <2>1, <2>3, <2>4, Zenon DEF Binding
<1> QED
  BY <1>4, <1>5, <1>6, Zenon DEF OwnInv
LEMMA OwnReplySaved ==
    ASSUME OneThread, OwnInv, NEW rcv \in deferred, MsgReplySaved(rcv)
    PROVE  OwnInv'
<1> USE MsgAssumption DEF OneThread, Threads
<1>1. /\ rcv \in Rcv /\ deferred' = deferred \ {rcv}
      /\ UNCHANGED <<queue, th, pending, conn, badges, sent>>
      /\ cl' = Answered(rcv) /\ robj' = [robj EXCEPT ![ReplySlot(rcv)] = Nobody]
  BY Zenon DEF MsgReplySaved, OwnInv, MsgType
<1>2. rcv.slot \in Slots /\ rcv.kind = "saved"
      /\ (robj[rcv.slot] # Nobody => cl[robj[rcv.slot]].req = rcv.req)
  BY Zenon DEF OwnInv, Binding
<1>3. ReplySlot(rcv) = rcv.slot /\ rcv.slot \in DOMAIN robj /\ rcv.slot # Main
  BY <1>2, Zenon DEF ReplySlot, OwnInv, MsgType
<1>4. /\ cl' \in [Clients -> ClientRec]
      /\ robj' \in [Threads \cup Slots -> Clients \cup {Nobody}]
      /\ \A c \in Clients : cl'[c].req = cl[c].req
      /\ \A c \in queue' : cl'[c].st = "blocked" /\ \A o \in DOMAIN robj' : robj'[o] # c
      /\ \A o \in DOMAIN robj' : robj'[o] # Nobody => cl'[robj'[o]].st # "idle"
      /\ \A o, u \in DOMAIN robj' : robj'[o] # Nobody /\ robj'[o] = robj'[u] => o = u
      /\ AnswerIsOwn'
  BY <1>1, <1>2, <1>3, OwnAnswer, Zenon
<1>5. MsgType'
  BY <1>1, <1>4, Zenon DEF OwnInv, MsgType
<1>6. Binding'
  <2>1. \A o \in DOMAIN robj : /\ robj[o] \in Clients \cup {Nobody}
                               /\ o # rcv.slot => robj'[o] = robj[o]
    BY <1>1, <1>3, Zenon DEF OwnInv, MsgType
  <2>2. th'[Main].st # "idle" =>
           /\ th'[Main].rcv.kind # "saved"
           /\ robj'[Main] # Nobody => cl'[robj'[Main]].req = th'[Main].rcv.req
    BY <1>1, <1>3, <1>4, <2>1 DEF OwnInv, Binding, MsgType
  <2>3. ASSUME NEW r \in deferred'
        PROVE  /\ r.kind = "saved" /\ r.slot \in Slots
               /\ robj'[r.slot] # Nobody => cl'[robj'[r.slot]].req = r.req
    <3>1. r \in deferred /\ r.slot # rcv.slot
      BY <1>1, Zenon DEF OwnInv, Binding
    <3>2. r.slot \in DOMAIN robj /\ robj'[r.slot] = robj[r.slot]
      BY <2>1, <3>1, Zenon DEF OwnInv, MsgType, Rcv
    <3> QED
      BY <1>4, <2>1, <3>1, <3>2 DEF OwnInv, Binding
  <2>4. \A r, q \in deferred' : r.slot = q.slot => r = q
    BY <1>1, Zenon DEF OwnInv, Binding
  <2> QED
    BY <1>4, <2>2, <2>3, <2>4, Zenon DEF Binding
<1> QED
  BY <1>4, <1>5, <1>6, Zenon DEF OwnInv

-----------------------------------------------------------------------------
(* An answer whose bytes are in the caller's buffer, or travel with it,    *)
(* leaves every returned caller with its bytes.                            *)
LEMMA CompleteAnswer ==
    ASSUME OwnInv, AnswerIsComplete, NEW rcv \in Rcv,
           NEW c \in Clients, robj[ReplySlot(rcv)] = c => cl[c].req = rcv.req,
           robj[ReplySlot(rcv)] = c =>
              IF rcv.kind = "bulk" \/ cl[c].bulk THEN cl[c].buf = cl[c].req ELSE TRUE,
           cl' = Answered(rcv), Returned(c)'
    PROVE  cl'[c].buf = cl'[c].req
<1>1. CASE robj[ReplySlot(rcv)] = c
  BY <1>1, AnsweredClients
<1>2. CASE robj[ReplySlot(rcv)] # c
  BY <1>2, AnsweredClients DEF AnswerIsComplete, Returned
<1> QED
  BY <1>1, <1>2, Zenon

LEMMA CompleteReply ==
    ASSUME OneThread, OwnInv, CompleteInv, MsgReply(Main)
    PROVE  CompleteInv'
<1> USE MsgAssumption DEF OneThread, Threads
<1> DEFINE rcv == th[Main].rcv
<1>1. /\ rcv \in Rcv
      /\ th[Main].st = "answers" \/ (th[Main].st = "runs" /\ rcv.kind = "plain")
      /\ th' = [th EXCEPT ![Main] = [st |-> "idle", rcv |-> NoRcv]]
      /\ UNCHANGED <<queue, deferred, pending, conn, badges, sent>>
      /\ cl' = Answered(rcv) /\ robj' = [robj EXCEPT ![ReplySlot(rcv)] = Nobody]
  BY Zenon DEF MsgReply, OwnInv, MsgType
<1>2. /\ ReplySlot(rcv) = Main
      /\ robj[Main] # Nobody => cl[robj[Main]].req = rcv.req
  BY <1>1, Zenon DEF OwnInv, Binding, ReplySlot
<1>3. robj[Main] # Nobody =>
         IF rcv.kind = "bulk" \/ cl[robj[Main]].bulk
         THEN cl[robj[Main]].buf = cl[robj[Main]].req ELSE TRUE
  BY <1>1, Zenon DEF CompleteInv, Transfer, InHand
<1>4. th'[Main].st = "idle"
  BY <1>1, Zenon DEF OwnInv, MsgType
<1> HIDE DEF rcv
<1>5. AnswerIsComplete'
  <2> SUFFICES ASSUME NEW c \in Clients, Returned(c)' PROVE cl'[c].buf = cl'[c].req
    BY Zenon DEF AnswerIsComplete
  <2>1. c # Nobody
    BY Zenon
  <2> QED
    BY <1>1, <1>2, <1>3, <2>1, CompleteAnswer DEF CompleteInv
<1>6. \A r \in deferred : robj'[r.slot] = robj[r.slot] /\ robj[r.slot] \in Clients \cup {Nobody}
  BY <1>1, <1>2, SMTT(30) DEF OwnInv, MsgType, Binding
<1>7. \A c \in Clients : cl'[c].bulk = cl[c].bulk
  BY <1>1, AnsweredClients, SMTT(30)
<1>8. Transfer'
  BY <1>1, <1>4, <1>6, <1>7
     DEF CompleteInv, Transfer, BadgesNamed, RowsNamed, CallersConnected, InHand,
         DeferredPlain
<1> QED
  BY <1>5, <1>8, Zenon DEF CompleteInv

LEMMA CompleteReplySaved ==
    ASSUME OneThread, OwnInv, CompleteInv, NEW rcv \in deferred, MsgReplySaved(rcv)
    PROVE  CompleteInv'
<1> USE MsgAssumption DEF OneThread, Threads
<1>1. /\ rcv \in Rcv /\ deferred' = deferred \ {rcv}
      /\ UNCHANGED <<queue, th, pending, conn, badges, sent>>
      /\ cl' = Answered(rcv) /\ robj' = [robj EXCEPT ![ReplySlot(rcv)] = Nobody]
  BY Zenon DEF MsgReplySaved, OwnInv, MsgType
<1>2. /\ ReplySlot(rcv) = rcv.slot /\ rcv.slot \in Slots /\ rcv.kind = "saved"
      /\ robj[rcv.slot] # Nobody => cl[robj[rcv.slot]].req = rcv.req
      /\ robj[rcv.slot] # Nobody => ~cl[robj[rcv.slot]].bulk
  BY Zenon DEF OwnInv, Binding, ReplySlot, CompleteInv, Transfer, DeferredPlain
<1>3. AnswerIsComplete'
  <2> SUFFICES ASSUME NEW c \in Clients, Returned(c)' PROVE cl'[c].buf = cl'[c].req
    BY Zenon DEF AnswerIsComplete
  <2>1. c # Nobody
    BY Zenon
  <2> QED
    BY <1>1, <1>2, <2>1, CompleteAnswer, Zenon DEF CompleteInv
<1>4. \A o \in DOMAIN robj : /\ robj[o] \in Clients \cup {Nobody}
                             /\ robj'[o] = IF o = rcv.slot THEN Nobody ELSE robj[o]
  BY <1>1, <1>2, Zenon DEF OwnInv, MsgType
<1>5. ASSUME NEW c \in Clients
      PROVE  cl'[c].bulk = cl[c].bulk /\ (robj[rcv.slot] # c => cl'[c] = cl[c])
  BY <1>1, <1>2, AnsweredClients
<1>6. /\ robj'[Main] = robj[Main]
      /\ robj[Main] # Nobody => robj[Main] \in Clients /\ cl'[robj[Main]] = cl[robj[Main]]
  BY <1>2, <1>4, <1>5, Zenon DEF OwnInv, Binding, MsgType
<1>7. \A r \in deferred' : robj'[r.slot] # Nobody => ~cl'[robj'[r.slot]].bulk
  <2>1. \A r \in deferred : r.slot \in DOMAIN robj
    BY SMTT(30) DEF OwnInv, MsgType, Rcv
  <2> QED
    BY <1>1, <1>4, <1>5, <2>1, Zenon DEF CompleteInv, Transfer, DeferredPlain
<1>8. Transfer'
  <2>1. BadgesNamed' /\ RowsNamed' /\ CallersConnected'
    BY <1>1, <1>6, <1>7
       DEF CompleteInv, Transfer, BadgesNamed, RowsNamed, CallersConnected
  <2>2. InHand'
    BY <1>1, <1>6, <1>7
       DEF CompleteInv, Transfer, InHand
  <2>3. DeferredPlain'
    BY <1>1, <1>6, <1>7
       DEF CompleteInv, Transfer, DeferredPlain
  <2> QED
    BY <2>1, <2>2, <2>3, Zenon DEF Transfer
<1> QED
  BY <1>3, <1>8, Zenon DEF CompleteInv

-----------------------------------------------------------------------------
(***************************************************************************)
(* Every step but a reply keeps the invariant CompleteInv of bulk          *)
(* transfers when the server defers no bulk request: the badge, the row of *)
(* s_bulk_pending and the reply buffer of a request belong together.       *)
(***************************************************************************)

LEMMA CompleteSend ==
    ASSUME OwnInv, CompleteInv, NEW c \in Clients, NEW bulk \in BOOLEAN, MsgSend(c, bulk)
    PROVE  CompleteInv'
<1>1. /\ cl[c].st = "idle" /\ conn[PidOf[c]] # 0 /\ queue' = queue \cup {c}
      /\ UNCHANGED <<robj, th, deferred, pending, conn, badges>>
  BY Zenon DEF MsgSend
<1>2. cl'[c].st = "blocked" /\ \A d \in Clients : d # c => cl'[d] = cl[d]
  BY Zenon DEF MsgSend, OwnInv, MsgType
<1>3. Main \in DOMAIN robj /\ \A r \in deferred : r.slot \in DOMAIN robj
  BY Zenon DEF OwnInv, MsgType, Threads, Rcv
<1>4. \A o \in DOMAIN robj : robj[o] # Nobody => robj[o] \in Clients /\ cl'[robj[o]] = cl[robj[o]]
  BY <1>1, <1>2 DEF OwnInv, Binding, MsgType
<1>5. Transfer'
  BY <1>1, <1>3, <1>4, Zenon
     DEF CompleteInv, Transfer, BadgesNamed, RowsNamed, CallersConnected, InHand,
         DeferredPlain
<1>6. AnswerIsComplete'
  BY <1>2, Zenon DEF CompleteInv, AnswerIsComplete, Returned
<1> QED
  BY <1>5, <1>6, Zenon DEF CompleteInv

LEMMA CompleteReceive ==
    ASSUME OneThread, OwnInv, CompleteInv, MsgReceive(Main)
    PROVE  CompleteInv'
<1> USE MsgAssumption DEF OneThread, Threads
<1>1. PICK c \in queue :
        /\ th' = [th EXCEPT ![Main] = [st |-> IF cl[c].bulk THEN "pull" ELSE "runs",
                                       rcv |-> [kind |-> IF cl[c].bulk THEN "bulk" ELSE "plain",
                                                badge |-> conn[PidOf[c]], slot |-> Main,
                                                req |-> cl[c].req]]]
        /\ robj' = [robj EXCEPT ![Main] = c]
        /\ queue' = queue \ {c}
  BY Zenon DEF MsgReceive
<1>2. UNCHANGED <<cl, deferred, pending, conn, badges, sent>>
  BY Zenon DEF MsgReceive
<1>3. /\ c \in Clients /\ cl[c].bulk \in BOOLEAN /\ PidOf[c] \in Pids /\ c # Nobody
      /\ conn[PidOf[c]] # 0 /\ conn[PidOf[c]] <= badges
  BY <1>1, ZenonT(40)
     DEF OwnInv, MsgType, ClientRec, Pids, CompleteInv, Transfer, BadgesNamed,
         CallersConnected
<1>4. /\ robj'[Main] = c
      /\ th'[Main].rcv.badge = conn[PidOf[c]]
      /\ cl[c].bulk <=> th'[Main].rcv.kind = "bulk"
      /\ th'[Main].st = "pull" => th'[Main].rcv.kind = "bulk"
      /\ th'[Main].st = "runs" => th'[Main].rcv.kind # "bulk"
      /\ th'[Main].st # "answers"
  BY <1>1, <1>3, Zenon DEF OwnInv, MsgType
<1>5. \A r \in deferred : robj'[r.slot] = robj[r.slot]
  BY <1>1, Zenon DEF OwnInv, MsgType, Binding
<1>6. \A p \in Pids : conn[p] = conn[PidOf[c]] => p = PidOf[c]
  BY <1>3, Zenon DEF CompleteInv, Transfer, BadgesNamed
<1>7. Transfer'
  <2>1. BadgesNamed' /\ RowsNamed' /\ CallersConnected'
    BY <1>1, <1>2
       DEF CompleteInv, Transfer, BadgesNamed, RowsNamed, CallersConnected
  <2>2. InHand'
    BY <1>2, <1>3, <1>4, <1>6 DEF CompleteInv, Transfer, InHand
  <2>3. DeferredPlain'
    BY <1>2, <1>5 DEF CompleteInv, Transfer, DeferredPlain
  <2> QED
    BY <2>1, <2>2, <2>3, Zenon DEF Transfer
<1>8. AnswerIsComplete'
  BY <1>2, Zenon DEF CompleteInv, AnswerIsComplete, Returned
<1> QED
  BY <1>7, <1>8, Zenon DEF CompleteInv

LEMMA CompletePullFails ==
    ASSUME OneThread, OwnInv, CompleteInv, PullFails(Main)
    PROVE  CompleteInv'
<1>1. /\ th' = [th EXCEPT ![Main] = [st |-> "idle", rcv |-> NoRcv]]
      /\ UNCHANGED <<queue, robj, deferred, pending, conn, badges, sent>>
  BY Zenon DEF PullFails
<1>2. th'[Main].st = "idle"
  BY <1>1, Zenon DEF OwnInv, MsgType, Threads
<1>3. \A c \in Clients : /\ cl'[c].bulk = cl[c].bulk
                         /\ cl'[c] = cl[c] \/ cl'[c].st = "cut"
  BY ClientCut, Zenon DEF PullFails, OwnInv, MsgType
<1>4. \A r \in deferred : robj[r.slot] \in Clients \cup {Nobody}
  BY Zenon DEF OwnInv, MsgType, Rcv
<1>5. Transfer'
  BY <1>1, <1>2, <1>3, <1>4, Zenon
     DEF CompleteInv, Transfer, BadgesNamed, RowsNamed, CallersConnected, InHand,
         DeferredPlain
<1>6. AnswerIsComplete'
  BY <1>3, Zenon DEF CompleteInv, AnswerIsComplete, Returned
<1> QED
  BY <1>5, <1>6, Zenon DEF CompleteInv
(* The pull takes over the row of the pid, or a free row if it has none.   *)
LEMMA CompletePull ==
    ASSUME OneThread, OwnInv, CompleteInv, tm_msg_xfer_pull(Main)
    PROVE  CompleteInv'
<1> USE DEF OneThread, Threads
<1> DEFINE rcv == th[Main].rcv
<1>1. PICK p \in ClientPid(rcv.badge) : \E i \in RowFor(p) :
        pending' = [pending EXCEPT ![i] = [pid |-> p, req |-> rcv.req]]
  BY Zenon DEF tm_msg_xfer_pull
<1>2. PICK i \in RowFor(p) : pending' = [pending EXCEPT ![i] = [pid |-> p, req |-> rcv.req]]
  BY <1>1, Zenon
<1>3. th' = [th EXCEPT ![Main].st = "runs"] /\ th[Main].st = "pull"
      /\ UNCHANGED <<cl, queue, robj, deferred, conn, badges, sent>>
  BY Zenon DEF tm_msg_xfer_pull
<1>4. th'[Main].st = "runs" /\ th'[Main].rcv = rcv
  BY <1>3, Zenon DEF OwnInv, MsgType
<1>5. p \in Pids /\ robj[Main] # Nobody /\ PidOf[robj[Main]] = p
  BY <1>1, <1>3, Zenon DEF CompleteInv, Transfer, InHand, ClientPid
<1> HIDE DEF rcv
<1>6. i \in DOMAIN pending
      /\ \A j \in DOMAIN pending : pending[j].pid = p => j = i
  <2>0. p # 0 /\ DOMAIN pending \subseteq Int
    BY <1>5, MsgAssumption DEF Pids, OwnInv, MsgType
  <2>1. CASE bulk_pending_find(p) # {}
    <3>1. i \in DOMAIN pending /\ pending[i].pid = p
      BY <2>1, Zenon DEF RowFor, bulk_pending_find, First
    <3> QED
      BY <2>0, <3>1, Zenon DEF CompleteInv, Transfer, RowsNamed
  <2>2. CASE bulk_pending_find(p) = {}
    <3>1. i \in DOMAIN pending
      BY <2>2, Zenon DEF RowFor, FreeRows, First
    <3>2. ASSUME NEW j \in DOMAIN pending, pending[j].pid = p PROVE FALSE
      <4>1. \A k \in DOMAIN pending : pending[k].pid = p => j <= k
        BY <2>0, <3>2 DEF CompleteInv, Transfer, RowsNamed
      <4> QED
        BY <2>2, <3>2, <4>1, Zenon DEF bulk_pending_find, First
    <3> QED
      BY <3>1, <3>2, Zenon
  <2> QED
    BY <2>1, <2>2, Zenon
<1>7. /\ DOMAIN pending' = DOMAIN pending
      /\ pending'[i].pid = p /\ pending'[i].req = rcv.req
      /\ \A j \in DOMAIN pending : j # i => pending'[j] = pending[j]
  BY <1>2, <1>6, Zenon DEF OwnInv, MsgType
<1>8. Transfer'
  <2>1. \A j, k \in DOMAIN pending' :
           pending'[j].pid # 0 /\ pending'[j].pid = pending'[k].pid => j = k
    BY <1>6, <1>7, Zenon DEF CompleteInv, Transfer, RowsNamed
  <2>2. \A j \in DOMAIN pending' : pending'[j].pid = p => pending'[j].req = rcv.req
    BY <1>6, <1>7, Zenon
  <2> QED
    <3>1. BadgesNamed' /\ RowsNamed' /\ CallersConnected'
      BY <1>3, <2>1
         DEF CompleteInv, Transfer, BadgesNamed, RowsNamed, CallersConnected
    <3>2. InHand'
      BY <1>3, <1>4, <1>5, <2>2 DEF CompleteInv, Transfer, InHand, rcv
    <3>3. DeferredPlain'
      BY <1>3 DEF CompleteInv, Transfer, DeferredPlain
    <3> QED
      BY <3>1, <3>2, <3>3, Zenon DEF Transfer
<1>9. AnswerIsComplete'
  BY <1>3, Zenon DEF CompleteInv, AnswerIsComplete, Returned
<1> QED
  BY <1>8, <1>9, Zenon DEF CompleteInv

(* The push fills the buffer of the caller that is bound.                  *)
LEMMA CompletePush ==
    ASSUME OneThread, OwnInv, CompleteInv, tm_msg_xfer_push(Main)
    PROVE  CompleteInv'
<1> USE MsgAssumption DEF OneThread, Threads
<1> DEFINE rcv == th[Main].rcv
           at == UNION {bulk_pending_find(p) : p \in ClientPid(rcv.badge)}
<1>1. UNCHANGED <<queue, robj, deferred, conn, badges, sent>>
      /\ th[Main].st = "runs" /\ rcv.kind = "bulk"
  BY Zenon DEF tm_msg_xfer_push
<1>2. CASE at = {}
  <2>1. th' = [th EXCEPT ![Main] = [st |-> "idle", rcv |-> NoRcv]]
        /\ UNCHANGED <<cl, pending>>
    BY <1>2, Zenon DEF tm_msg_xfer_push
  <2>2. th'[Main].st = "idle"
    BY <2>1, Zenon DEF OwnInv, MsgType
  <2> QED
    BY <1>1, <2>1, <2>2, Zenon
       DEF CompleteInv, Transfer, BadgesNamed, RowsNamed, CallersConnected, InHand,
           DeferredPlain, AnswerIsComplete, Returned
<1>3. CASE at # {}
  <2>1. PICK i \in at :
          /\ cl' = [c \in Clients |-> IF cl[c].req = pending[i].req
                                      THEN [cl[c] EXCEPT !.buf = rcv.req] ELSE cl[c]]
          /\ pending' = [pending EXCEPT ![i] = NoRow]
          /\ th' = [th EXCEPT ![Main].st = "answers"]
    BY <1>3, Zenon DEF tm_msg_xfer_push
  <2>2. PICK p \in ClientPid(rcv.badge) : i \in bulk_pending_find(p)
    BY <2>1, Zenon
  <2>3. i \in DOMAIN pending /\ pending[i].pid = p
    BY <2>2, Zenon DEF bulk_pending_find, First
  <2>4. robj[Main] # Nobody /\ PidOf[robj[Main]] = p /\ pending[i].req = rcv.req
    BY <1>1, <2>2, <2>3, Zenon DEF CompleteInv, Transfer, InHand, ClientPid
  <2>5. /\ robj[Main] \in Clients /\ cl[robj[Main]].req = rcv.req /\ rcv.req \in Nat
        /\ th'[Main].rcv = rcv /\ th'[Main].st = "answers"
    BY <1>1, <2>1, <2>4 DEF OwnInv, Binding, MsgType, Rcv
  <2> HIDE DEF rcv, at
  <2>6. ASSUME NEW c \in Clients
        PROVE  /\ cl'[c].st = cl[c].st /\ cl'[c].req = cl[c].req /\ cl'[c].bulk = cl[c].bulk
               /\ cl'[c].buf = IF cl[c].req = rcv.req THEN rcv.req ELSE cl[c].buf
    BY <2>1, <2>4, <2>5, ClientFilled DEF OwnInv, MsgType
  <2>7. \A j \in DOMAIN pending' : j \in DOMAIN pending /\ pending'[j] \in {pending[j], NoRow}
    BY <2>1, Zenon DEF OwnInv, MsgType
  <2>8. \A j, k \in DOMAIN pending' :
           pending'[j].pid # 0 /\ pending'[j].pid = pending'[k].pid => j = k
    BY <2>7 DEF CompleteInv, Transfer, RowsNamed, NoRow
  <2>9. \A r \in deferred : robj[r.slot] \in Clients \cup {Nobody}
    BY Zenon DEF OwnInv, MsgType, Rcv
  <2>10. Transfer'
    <3>1. BadgesNamed' /\ RowsNamed' /\ CallersConnected'
      BY <1>1, <2>8
         DEF CompleteInv, Transfer, BadgesNamed, RowsNamed, CallersConnected
    <3>2. InHand'
      BY <1>1, <2>4, <2>5, <2>6 DEF CompleteInv, Transfer, InHand, rcv
    <3>3. DeferredPlain'
      BY <1>1, <2>6, <2>9 DEF CompleteInv, Transfer, DeferredPlain
    <3> QED
      BY <3>1, <3>2, <3>3, Zenon DEF Transfer
  <2>11. AnswerIsComplete'
    BY <2>6 DEF CompleteInv, AnswerIsComplete, Returned
  <2> QED
    BY <2>10, <2>11, Zenon DEF CompleteInv
<1> QED
  BY <1>2, <1>3, Zenon
LEMMA CompleteSavereply ==
    ASSUME OneThread, ~SavesBulk, OwnInv, CompleteInv, MsgSavereply(Main)
    PROVE  CompleteInv'
<1> USE MsgAssumption DEF OneThread, Threads
<1> DEFINE rcv == th[Main].rcv
<1>1. PICK s \in Slots :
        /\ \A r \in deferred : r.slot # s
        /\ robj' = [robj EXCEPT ![s] = robj[Main], ![Main] = Nobody]
        /\ deferred' = deferred \cup {[rcv EXCEPT !.kind = "saved", !.slot = s]}
  BY Zenon DEF MsgSavereply, Stashed
<1>2. /\ th' = [th EXCEPT ![Main] = [st |-> "idle", rcv |-> NoRcv]]
      /\ UNCHANGED <<cl, queue, pending, conn, badges, sent>>
      /\ th[Main].st = "runs" /\ rcv.kind # "bulk" /\ rcv \in Rcv
  BY Zenon DEF MsgSavereply, OwnInv, MsgType
<1>3. th'[Main].st = "idle"
  BY <1>2, Zenon DEF OwnInv, MsgType
<1>4. robj[Main] # Nobody => ~cl[robj[Main]].bulk
  BY <1>2, Zenon DEF CompleteInv, Transfer, InHand
<1> HIDE DEF rcv
<1>5. ASSUME NEW r \in deferred'
      PROVE  robj'[r.slot] # Nobody => ~cl'[robj'[r.slot]].bulk
  <2>1. CASE r \in deferred
    <3>1. robj'[r.slot] = robj[r.slot]
      BY <1>1, <2>1, Zenon DEF OwnInv, Binding, MsgType
    <3> QED
      BY <1>2, <2>1, <3>1, Zenon DEF CompleteInv, Transfer, DeferredPlain
  <2>2. CASE r = [rcv EXCEPT !.kind = "saved", !.slot = s]
    <3>1. r.slot = s
      BY <1>2, <2>2, Zenon DEF Rcv
    <3>2. robj'[s] = robj[Main]
      BY <1>1, SMTT(30) DEF OwnInv, MsgType
    <3> QED
      BY <1>2, <1>4, <3>1, <3>2, Zenon
  <2> QED
    BY <1>1, <2>1, <2>2, Zenon
<1>6. Transfer'
  BY <1>2, <1>3, <1>5, Zenon
     DEF CompleteInv, Transfer, BadgesNamed, RowsNamed, CallersConnected, InHand,
         DeferredPlain
<1>7. AnswerIsComplete'
  BY <1>2, Zenon DEF CompleteInv, AnswerIsComplete, Returned
<1> QED
  BY <1>6, <1>7, Zenon DEF CompleteInv

LEMMA CompleteExit ==
    ASSUME OneThread, OwnInv, CompleteInv, NEW p \in Pids, Exit(p)
    PROVE  CompleteInv'
<1> USE MsgAssumption DEF OneThread, Threads
<1>1. /\ queue' = queue \ Killed(p) /\ queue \subseteq Clients
      /\ UNCHANGED <<th, deferred, pending, badges, sent>>
      /\ \A q \in Pids : conn'[q] = IF q = p THEN 0 ELSE conn[q]
  BY Zenon DEF Exit, OwnInv, MsgType
<1>2. \A c \in Clients : cl'[c] = IF PidOf[c] = p THEN Fresh ELSE cl[c]
  BY Zenon DEF Exit, Killed
<1>3. \A o \in DOMAIN robj :
         /\ robj[o] # Nobody => robj[o] \in Clients
         /\ robj'[o] = IF robj[o] # Nobody /\ PidOf[robj[o]] = p THEN Nobody ELSE robj[o]
  BY Zenon DEF Exit, OwnInv, MsgType, Killed
<1>4. Main \in DOMAIN robj /\ \A r \in deferred : r.slot \in DOMAIN robj
  BY Zenon DEF OwnInv, MsgType, Rcv
<1>5. AnswerIsComplete'
  BY <1>2 DEF CompleteInv, AnswerIsComplete, Returned, Fresh
<1>6. \A o \in DOMAIN robj : robj'[o] # Nobody =>
         robj'[o] = robj[o] /\ robj[o] # Nobody /\ cl'[robj[o]] = cl[robj[o]]
  BY <1>2, <1>3, SMTT(30)
<1>7. Transfer'
  <2>1. /\ \A q \in Pids : conn'[q] <= badges'
        /\ \A q, u \in Pids : conn'[q] = conn'[u] /\ conn'[q] # 0 => q = u
    <3>1. badges \in Nat
      BY Zenon DEF OwnInv, MsgType
    <3>2. /\ \A q \in Pids : conn[q] <= badges
          /\ \A q, u \in Pids : conn[q] = conn[u] /\ conn[q] # 0 => q = u
      BY Zenon DEF CompleteInv, Transfer, BadgesNamed
    <3> QED
      BY <1>1, <3>1, <3>2
  <2>2. \A c \in queue' : conn'[PidOf[c]] # 0
    <3>1. \A c \in queue' : PidOf[c] # p /\ PidOf[c] \in Pids
      BY <1>1, Zenon DEF Killed, Pids
    <3> QED
      BY <1>1, <3>1, Zenon DEF CompleteInv, Transfer, CallersConnected
  <2>3. ASSUME th[Main].st # "idle", NEW q \in Pids, conn'[q] = th[Main].rcv.badge
        PROVE  robj'[Main] # Nobody /\ PidOf[robj'[Main]] = q
    <3>1. q # p /\ conn[q] = th[Main].rcv.badge
      BY <1>1, <2>3, Zenon DEF CompleteInv, Transfer, InHand
    <3>2. robj[Main] # Nobody /\ PidOf[robj[Main]] = q
      BY <2>3, <3>1, Zenon DEF CompleteInv, Transfer, InHand
    <3> QED
      BY <1>3, <1>4, <3>1, <3>2, Zenon
  <2>4. \A r \in deferred' : robj'[r.slot] # Nobody => ~cl'[robj'[r.slot]].bulk
    BY <1>1, <1>4, <1>6 DEF CompleteInv, Transfer, DeferredPlain
  <2> QED
    <3>1. BadgesNamed' /\ RowsNamed' /\ CallersConnected'
      BY <1>1, <2>1, <2>2
         DEF CompleteInv, Transfer, BadgesNamed, RowsNamed, CallersConnected
    <3>2. InHand'
      BY <1>1, <1>4, <1>6, <2>3 DEF CompleteInv, Transfer, InHand
    <3>3. DeferredPlain'
      BY <2>4 DEF DeferredPlain
    <3> QED
      BY <3>1, <3>2, <3>3, Zenon DEF Transfer
<1> QED
  BY <1>5, <1>7, Zenon DEF CompleteInv

LEMMA CompleteAttach ==
    ASSUME OneThread, OwnInv, CompleteInv, NEW p \in Pids, ConnectAttach(p)
    PROVE  CompleteInv'
<1> USE DEF OneThread, Threads
<1>1. /\ conn[p] = 0 /\ badges' = badges + 1 /\ badges \in Nat
      /\ \A q \in Pids : conn[q] \in Nat /\ conn'[q] = IF q = p THEN badges + 1 ELSE conn[q]
      /\ UNCHANGED <<cl, queue, robj, th, deferred, pending, sent>>
  BY Zenon DEF ConnectAttach, OwnInv, MsgType
<1>2. AnswerIsComplete'
  BY <1>1, Zenon DEF CompleteInv, AnswerIsComplete, Returned
<1>3. /\ \A q \in Pids : conn'[q] <= badges'
      /\ \A q, u \in Pids : conn'[q] = conn'[u] /\ conn'[q] # 0 => q = u
  BY <1>1 DEF CompleteInv, Transfer, BadgesNamed
<1>4. \A c \in queue' : conn'[PidOf[c]] # 0
  BY <1>1, Zenon DEF CompleteInv, Transfer, CallersConnected, OwnInv, MsgType, Pids
<1>5. th[Main].rcv.badge \in Nat
  BY Zenon DEF OwnInv, MsgType, Rcv
<1>6. th[Main].st # "idle" =>
         /\ th[Main].rcv.badge <= badges'
         /\ \A q \in Pids : conn'[q] = th[Main].rcv.badge => conn[q] = th[Main].rcv.badge
  BY <1>1, <1>5 DEF CompleteInv, Transfer, InHand
<1>7. Transfer'
  BY <1>1, <1>3, <1>4, <1>6, Zenon
     DEF CompleteInv, Transfer, BadgesNamed, RowsNamed, CallersConnected, InHand,
         DeferredPlain
<1> QED
  BY <1>2, <1>7, Zenon DEF CompleteInv

-----------------------------------------------------------------------------
(***************************************************************************)
(* The invariants hold initially and every step keeps them, so a MsgSend   *)
(* returns with the answer to its request.                                 *)
(***************************************************************************)

(* The processes are finitely many, and taskman has given each one badge.  *)
LEMMA InitialBadges ==
    ASSUME Init
    PROVE  /\ badges \in Nat
           /\ conn \in [Pids -> 1 .. badges]
           /\ IsInjective(conn)
<1>1. PidOf \in Surjection(Clients, Pids)
  BY MsgAssumption DEF Pids, Surjection
<1>2. IsFiniteSet(Pids)
  BY <1>1, FS_Surjection, MsgAssumption DEF ExistsSurjection
<1>3. badges \in Nat /\ ExistsBijection(1 .. badges, Pids)
  BY <1>2, FS_CardinalityType DEF Init
<1>4. ExistsBijection(Pids, 1 .. badges)
  BY <1>3, Fun_ExistsBijSymmetric
<1>5. \E f \in [Pids -> 1 .. badges] : IsInjective(f)
  BY <1>4, Zenon DEF ExistsBijection, Bijection, Injection
<1> QED
  BY <1>3, <1>5 DEF Init

LEMMA OwnInit == Init => OwnInv
<1> SUFFICES ASSUME Init PROVE OwnInv
  BY Zenon
<1> USE DEF Init, Fresh, NoRow, NoRcv
<1>1. MsgType
  BY InitialBadges DEF MsgType, ClientRec, Rcv, Row, Threads
<1>2. Binding
  BY Zenon DEF Binding, Threads
<1>3. AnswerIsOwn
  BY Zenon DEF AnswerIsOwn, Returned
<1> QED
  BY <1>1, <1>2, <1>3 DEF OwnInv

LEMMA CompleteInit == Init => CompleteInv
<1> SUFFICES ASSUME Init PROVE CompleteInv
  BY Zenon
<1>1. \A p \in Pids : conn[p] <= badges
  BY InitialBadges
<1>2. \A p, q \in Pids : conn[p] = conn[q] => p = q
  BY InitialBadges DEF IsInjective
<1>3. AnswerIsComplete
  BY Zenon DEF Init, AnswerIsComplete, Returned, Fresh
<1>4. Transfer
  BY <1>1, <1>2
     DEF Transfer, BadgesNamed, RowsNamed, CallersConnected, InHand, DeferredPlain,
         Init, NoRow, Threads
<1> QED
  BY <1>3, <1>4, Zenon DEF CompleteInv

-----------------------------------------------------------------------------
LEMMA OwnStep == OneThread /\ OwnInv /\ [Next]_vars => OwnInv'
<1> SUFFICES ASSUME OneThread, OwnInv, [Next]_vars PROVE OwnInv'
  BY Zenon
<1>1. CASE UNCHANGED vars
  BY <1>1 DEF vars, OwnInv, MsgType, Binding, AnswerIsOwn, Returned
<1>2. CASE \E c \in Clients, bulk \in BOOLEAN : MsgSend(c, bulk)
  BY <1>2, OwnSend, Zenon
<1>3. CASE \E t \in Threads : Serve(t) \/ PullFails(t) \/ MsgSavereply(t)
  <2>1. Serve(Main) \/ PullFails(Main) \/ MsgSavereply(Main)
    BY <1>3, Zenon DEF OneThread, Threads
  <2> QED
    BY <2>1, OwnReceive, OwnPull, OwnPullFails, OwnPush, OwnReply, OwnSavereply, Zenon
       DEF Serve, PullRefused
<1>4. CASE \E rcv \in deferred : MsgReplySaved(rcv)
  BY <1>4, OwnReplySaved, Zenon
<1>5. CASE \E p \in Pids : Exit(p) \/ ConnectAttach(p)
  BY <1>5, OwnExit, OwnAttach, Zenon
<1> QED
  BY <1>1, <1>2, <1>3, <1>4, <1>5 DEF Next

LEMMA CompleteStep ==
    OneThread /\ ~SavesBulk /\ OwnInv /\ CompleteInv /\ [Next]_vars => CompleteInv'
<1> SUFFICES ASSUME OneThread, ~SavesBulk, OwnInv, CompleteInv, [Next]_vars
             PROVE  CompleteInv'
  BY Zenon
<1>1. CASE UNCHANGED vars
  BY <1>1
     DEF vars, CompleteInv, Transfer, BadgesNamed, RowsNamed, CallersConnected,
         InHand, DeferredPlain, AnswerIsComplete, Returned
<1>2. CASE \E c \in Clients, bulk \in BOOLEAN : MsgSend(c, bulk)
  BY <1>2, CompleteSend, SMTT(30)
<1>3. CASE \E t \in Threads : Serve(t) \/ PullFails(t) \/ MsgSavereply(t)
  <2>1. Serve(Main) \/ PullFails(Main) \/ MsgSavereply(Main)
    BY <1>3, Zenon DEF OneThread, Threads
  <2> QED
    BY <2>1, CompleteReceive, CompletePull, CompletePullFails, CompletePush,
       CompleteReply, CompleteSavereply DEF Serve, PullRefused
<1>4. CASE \E rcv \in deferred : MsgReplySaved(rcv)
  BY <1>4, CompleteReplySaved
<1>5. CASE \E p \in Pids : Exit(p) \/ ConnectAttach(p)
  BY <1>5, CompleteExit, CompleteAttach
<1> QED
  BY <1>1, <1>2, <1>3, <1>4, <1>5, Zenon DEF Next

-----------------------------------------------------------------------------
(* A server that receives in its main thread only, the case the code is    *)
(* written for, answers every MsgSend with the answer to that request,     *)
(* whatever it defers, for any number of clients and slots.                *)
THEOREM AnswersAreOwn == OneThread => (Spec => []AnswerIsOwn)
<1> SUFFICES ASSUME OneThread PROVE Spec => []AnswerIsOwn
  BY Zenon
<1>1. OwnInv /\ [Next]_vars => OwnInv'
  BY OwnStep, Zenon
<1>2. OwnInv => AnswerIsOwn
  BY Zenon DEF OwnInv
<1> QED
  BY OwnInit, <1>1, <1>2, PTL DEF Spec

(* If such a server also defers no bulk request, MsgSend returns with all  *)
(* the bytes of its answer in its buffer, for any number of clients,       *)
(* threads of a client, slots and rows of s_bulk_pending, whichever        *)
(* processes die and come back.                                            *)
THEOREM AnswersAreComplete == OneThread /\ ~SavesBulk => (Spec => []AnswerIsComplete)
<1> SUFFICES ASSUME OneThread, ~SavesBulk PROVE Spec => []AnswerIsComplete
  BY Zenon
<1> DEFINE Inv == OwnInv /\ CompleteInv
<1>1. Init => Inv
  BY OwnInit, CompleteInit
<1>2. Inv /\ [Next]_vars => Inv'
  BY OwnStep, CompleteStep
<1>3. Inv => AnswerIsComplete
  BY Zenon DEF CompleteInv
<1> QED
  BY <1>1, <1>2, <1>3, PTL DEF Spec
=============================================================================
