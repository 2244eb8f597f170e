-------------------------------- MODULE Att --------------------------------
(***************************************************************************)
(* The ATT transport, bluez/att.c on bluez/io-mainloop.c, as this program  *)
(* uses it: requests and commands are queued by the program or by          *)
(* callbacks, and leave while the main loop runs.                          *)
(*                                                                         *)
(* Two queues feed the socket.  The write queue (commands, responses,      *)
(* confirmations) goes first, the request queue only while no request is   *)
(* pending.  can_write_data is called while the write handler is set       *)
(* (writer_active), so every step that makes something sendable has to set *)
(* it.                                                                     *)
(*                                                                         *)
(* The peer follows the protocol: it answers each request once, in order,  *)
(* and has one request or indication of its own under way at most.  It may *)
(* also stop answering, and the link may drop.  Outgoing indications, which *)
(* only a server sends, are left out.                                      *)
(***************************************************************************)
EXTENDS Naturals, Sequences, SequencesExt

CONSTANTS
  MaxOps,   \* bound on the operations the program queues
  MaxPeer   \* bound on the PDUs the peer sends of its own

ASSUME AttAssumption == MaxOps \in Nat /\ MaxPeer \in Nat

VARIABLES
  prog,      \* the program: "calling", "sleeping", or in mainloop_run: "running", "stopping"
  writeQ,    \* write_queue
  reqQ,      \* req_queue
  pending,   \* pending_req: empty or one operation
  armed,     \* ids of the requests whose callback is still set
  fate,      \* fate[id]: what became of the operation
  active,    \* writer_active
  inReq,     \* in_req
  io,        \* "open", "shut" (the hang-up is not handled yet), "gone"
  shutBy,    \* why it is shut: "nobody", "radio", "timeout", "protocol"
  sent,      \* the operations that left, in order
  unanswered,\* requests the peer has and has not answered
  inbox,     \* PDUs to the client
  peerWaits, \* the peer's requests and indications under way
  peerSent   \* PDUs the peer has sent of its own

queueVars == <<writeQ, reqQ, pending, armed, fate>>
ioVars    == <<io, shutBy>>
peerVars  == <<unanswered, inbox, peerWaits, peerSent>>
vars == <<prog, queueVars, active, inReq, ioVars, sent, peerVars>>

Request == [id : Nat, kind : {"req"}]
Write == [id : Nat, kind : {"cmd", "rsp", "conf"}]
Fate == {"open", "sent", "answered", "confused", "failed", "cancelled", "dropped"}
Pdu == [kind : {"answer", "req", "ind", "ntf"}, id : Nat]

Init ==
  /\ prog = "calling"
  /\ writeQ = <<>> /\ reqQ = <<>> /\ pending = {} /\ armed = {} /\ fate = <<>>
  /\ active = FALSE /\ inReq = FALSE
  /\ io = "open" /\ shutBy = "nobody"
  /\ sent = <<>> /\ unanswered = <<>> /\ inbox = <<>> /\ peerWaits = {} /\ peerSent = 0

---------------------------------------------------------------------------
(* Helpers of att.c.                                                       *)

Sendable(w, r, p) == w # <<>> \/ (p = {} /\ r # <<>>)

\* Mutant: the pending request is looked at before it is cleared.
WakeupTooEarly == active' = (active \/ Sendable(writeQ', reqQ', pending))

wakeup_writer == active' = (active \/ Sendable(writeQ', reqQ', pending'))

\* Mutant: one queue for all.
EnqueueAll(kind, f, a) ==
  LET op == [id |-> Len(f) + 1, kind |-> kind]
  IN /\ fate' = Append(f, "open") /\ writeQ' = Append(writeQ, op)
     /\ armed' = a \cup (IF kind = "req" THEN {op.id} ELSE {}) /\ UNCHANGED reqQ

\* bt_att_send, without its wakeup_writer; f and a are fate and armed before it.
Enqueue(kind, f, a) ==
  LET op == [id |-> Len(f) + 1, kind |-> kind]
  IN /\ fate' = Append(f, "open")
     /\ IF kind = "req"
        THEN reqQ' = Append(reqQ, op) /\ armed' = a \cup {op.id} /\ UNCHANGED writeQ
        ELSE writeQ' = Append(writeQ, op) /\ armed' = a /\ UNCHANGED reqQ

(* op->callback, if it is still set.  It may send the next request, as     *)
(* discovery does, or a command.                                           *)
Callback(op, outcome) ==
  LET told == IF op.id \in armed THEN [fate EXCEPT ![op.id] = outcome] ELSE fate
      left == armed \ {op.id}
  IN \/ fate' = told /\ armed' = left /\ UNCHANGED <<reqQ, writeQ>>
     \/ /\ op.id \in armed /\ Len(fate) < MaxOps
        /\ \E kind \in {"req", "cmd"} : Enqueue(kind, told, left)

io_shutdown(why) ==
  /\ io' = (IF io = "open" THEN "shut" ELSE io)
  /\ shutBy' = (IF io = "open" THEN why ELSE shutBy)

\* The callbacks of the program may leave the main loop.
MayQuit == prog' \in {"running", "stopping"}

InLoop == prog = "running"

---------------------------------------------------------------------------
(* What the program does outside of the main loop.                         *)

Send(kind) ==
  /\ prog = "calling" /\ io # "gone" /\ Len(fate) < MaxOps
  /\ Enqueue(kind, fate, armed) /\ UNCHANGED pending /\ wakeup_writer
  /\ UNCHANGED <<prog, inReq, ioVars, sent, peerVars>>

\* Mutants of the next operator.
CancelKeepingCallback(id) == UNCHANGED <<armed, pending>>
CancelForgetting(id) == armed' = armed \ {id} /\ pending' = {}

\* A pending request stays pending; its callback is removed.
CancelPending(id) == armed' = armed \ {id} /\ UNCHANGED pending

bt_att_cancel(id) ==
  /\ prog = "calling" /\ id \in armed
  /\ fate' = [fate EXCEPT ![id] = "cancelled"]
  /\ IF \E op \in pending : op.id = id
     THEN CancelPending(id) /\ UNCHANGED <<reqQ, writeQ, active>>
     ELSE /\ \E i \in DOMAIN reqQ : reqQ[i].id = id /\ reqQ' = RemoveAt(reqQ, i)
          /\ armed' = armed \ {id} /\ UNCHANGED <<writeQ, pending>>
          /\ wakeup_writer
  /\ UNCHANGED <<prog, inReq, ioVars, sent, peerVars>>

\* dfu.c 240: sleep(1) after a short block.
Sleep == prog = "calling" /\ prog' = "sleeping"
         /\ UNCHANGED <<queueVars, active, inReq, ioVars, sent, peerVars>>
Wake == prog = "sleeping" /\ prog' = "calling"
        /\ UNCHANGED <<queueVars, active, inReq, ioVars, sent, peerVars>>

\* A socket that is gone has set fatalError_: no run of the main loop waits any more.
Run == prog = "calling" /\ io # "gone" /\ prog' = "running"
       /\ UNCHANGED <<queueVars, active, inReq, ioVars, sent, peerVars>>
Stop == prog = "stopping" /\ prog' = "calling"
        /\ UNCHANGED <<queueVars, active, inReq, ioVars, sent, peerVars>>

---------------------------------------------------------------------------
(* can_write_data.  A callback that ends the run does not keep the same    *)
(* pass over the socket from writing once more.                            *)

Writing ==
  /\ active
  /\ \/ InLoop /\ UNCHANGED prog
     \/ prog = "stopping" /\ prog' = "calling"

\* Mutant: requests go first.
PickRequestFirst(op) ==
  \/ reqQ # <<>> /\ pending = {} /\ op = Head(reqQ) /\ reqQ' = Tail(reqQ) /\ UNCHANGED writeQ
  \/ /\ reqQ = <<>> \/ pending # {}
     /\ writeQ # <<>> /\ op = Head(writeQ) /\ writeQ' = Tail(writeQ) /\ UNCHANGED reqQ

\* pick_next_send_op: from the write queue, else from the request queue.
Pick(op) ==
  \/ writeQ # <<>> /\ op = Head(writeQ) /\ writeQ' = Tail(writeQ) /\ UNCHANGED reqQ
  \/ /\ writeQ = <<>> /\ reqQ # <<>> /\ pending = {}
     /\ op = Head(reqQ) /\ reqQ' = Tail(reqQ) /\ UNCHANGED writeQ

PeerReceives(op) ==
  /\ sent' = Append(sent, op)
  /\ unanswered' = (IF op.kind = "req" THEN Append(unanswered, op.id) ELSE unanswered)
  /\ peerWaits' = peerWaits \ (IF op.kind = "rsp" THEN {"req"} ELSE
                                IF op.kind = "conf" THEN {"ind"} ELSE {})

\* Mutant: in_req stays set.
StillInReq(op) == inReq

\* The response ends the peer's request.
InReqAfter(op) == inReq /\ op.kind # "rsp"

can_write_data ==
  /\ Writing /\ io = "open"
  /\ \E op \in {Head(q) : q \in {writeQ, reqQ} \ {<<>>}} :
       /\ Pick(op) /\ PeerReceives(op)
       /\ pending' = (IF op.kind = "req" THEN {op} ELSE pending)
       /\ fate' = (IF op.kind = "req" THEN fate ELSE [fate EXCEPT ![op.id] = "sent"])
       /\ inReq' = InReqAfter(op)
  /\ UNCHANGED <<armed, active, ioVars, inbox, peerSent>>

NothingToWrite ==
  /\ Writing /\ io = "open" /\ ~Sendable(writeQ, reqQ, pending)
  /\ active' = FALSE
  /\ UNCHANGED <<queueVars, inReq, ioVars, sent, peerVars>>

(* The link goes after epoll_wait.  Nobody hears of a command that fails.  *)
WriteFails ==
  /\ InLoop /\ active /\ io = "shut"
  /\ \/ /\ writeQ # <<>> /\ writeQ' = Tail(writeQ)
        /\ fate' = [fate EXCEPT ![Head(writeQ).id] = "failed"]
        /\ UNCHANGED <<prog, reqQ, armed>>
     \/ /\ writeQ = <<>> /\ reqQ # <<>> /\ pending = {}
        /\ reqQ' = Tail(reqQ) /\ armed' = armed \ {Head(reqQ).id}
        /\ fate' = [fate EXCEPT ![Head(reqQ).id] = "failed"]
        /\ MayQuit /\ UNCHANGED writeQ
  /\ UNCHANGED <<pending, active, inReq, ioVars, sent, peerVars>>

---------------------------------------------------------------------------
(* can_read_data                                                           *)

Reading(kind) ==
  /\ InLoop /\ io = "open" /\ inbox # <<>> /\ Head(inbox).kind = kind
  /\ inbox' = Tail(inbox)
  /\ UNCHANGED <<sent, unanswered, peerWaits, peerSent>>

\* handle_rsp: the response is taken for the pending request's.
handle_rsp ==
  /\ Reading("answer")
  /\ IF pending = {}
     THEN io_shutdown("protocol") /\ UNCHANGED <<prog, queueVars, active>>
     ELSE \E op \in pending :
            /\ Callback(op, IF op.id = Head(inbox).id THEN "answered" ELSE "confused")
            /\ MayQuit /\ pending' = {} /\ wakeup_writer
            /\ UNCHANGED ioVars
  /\ UNCHANGED inReq

\* Nothing is registered for requests: the answer is an error response.
RequestRead ==
  /\ Reading("req")
  /\ IF inReq
     THEN io_shutdown("protocol") /\ UNCHANGED <<queueVars, active, inReq>>
     ELSE /\ inReq' = TRUE
          /\ Enqueue("rsp", fate, armed) /\ UNCHANGED pending /\ wakeup_writer
          /\ UNCHANGED ioVars
  /\ UNCHANGED prog

\* handle_notify; the GATT client confirms indications.
handle_notify ==
  /\ \/ Reading("ntf") /\ UNCHANGED <<queueVars, active>>
     \/ Reading("ind") /\ Enqueue("conf", fate, armed) /\ UNCHANGED pending /\ wakeup_writer
  /\ MayQuit
  /\ UNCHANGED <<inReq, ioVars>>

---------------------------------------------------------------------------
(* The ATT timer, the hang-up, the radio and the peer.                     *)

\* What the hang-up finds unread is lost (io-mainloop.c 96-118), and nothing more comes.
NothingMoreToRead == unanswered' = <<>> /\ inbox' = <<>> /\ peerWaits' = {} /\ UNCHANGED peerSent

\* The pending request is dropped without its callback.
timeout_cb ==
  /\ InLoop /\ io = "open" /\ pending # {}
  /\ pending' = {} /\ armed' = armed \ {op.id : op \in pending}
  /\ fate' = [i \in DOMAIN fate |->
                IF \E op \in pending : op.id = i /\ i \in armed THEN "dropped" ELSE fate[i]]
  /\ io_shutdown("timeout") /\ NothingMoreToRead
  /\ UNCHANGED <<prog, writeQ, reqQ, active, inReq, sent>>

\* Mutant: only the pending request is dropped.
CancelOnlyPending ==
  /\ armed' = armed \ {op.id : op \in pending} /\ UNCHANGED <<writeQ, reqQ>>
  /\ fate' = [i \in DOMAIN fate |->
                IF \E op \in pending : op.id = i /\ i \in armed THEN "dropped" ELSE fate[i]]

bt_att_cancel_all ==
  /\ writeQ' = <<>> /\ reqQ' = <<>> /\ armed' = {}
  /\ fate' = [i \in DOMAIN fate |-> IF fate[i] = "open" THEN "dropped" ELSE fate[i]]

disconnect_cb ==
  /\ InLoop /\ io = "shut"
  /\ io' = "gone" /\ active' = FALSE
  /\ bt_att_cancel_all
  /\ prog' = "stopping"
  /\ UNCHANGED <<pending, inReq, shutBy, sent, peerVars>>

LinkDrops ==
  /\ io = "open" /\ io_shutdown("radio") /\ NothingMoreToRead
  /\ UNCHANGED <<prog, queueVars, active, inReq, sent>>

PeerAnswers ==
  /\ io = "open" /\ unanswered # <<>>
  /\ unanswered' = Tail(unanswered)
  /\ inbox' = Append(inbox, [kind |-> "answer", id |-> Head(unanswered)])
  /\ UNCHANGED <<prog, queueVars, active, inReq, ioVars, sent, peerWaits, peerSent>>

PeerSends(kind) ==
  /\ io = "open" /\ peerSent < MaxPeer /\ peerSent' = peerSent + 1
  /\ kind \notin peerWaits
  /\ peerWaits' = peerWaits \cup (IF kind = "ntf" THEN {} ELSE {kind})
  /\ inbox' = Append(inbox, [kind |-> kind, id |-> 0])
  /\ UNCHANGED <<prog, queueVars, active, inReq, ioVars, sent, unanswered>>

ProgramNext ==
  \/ (\E kind \in {"req", "cmd"} : Send(kind))
  \/ (\E id \in DOMAIN fate : bt_att_cancel(id))
  \/ Sleep \/ Wake \/ Run \/ Stop
LoopNext ==
  \/ can_write_data \/ NothingToWrite \/ WriteFails
  \/ handle_rsp \/ RequestRead \/ handle_notify \/ timeout_cb \/ disconnect_cb
PeerNext == PeerAnswers \/ LinkDrops \/ \E kind \in {"req", "ind", "ntf"} : PeerSends(kind)

Next == ProgramNext \/ LoopNext \/ PeerNext

Spec == Init /\ [][Next]_vars

(* The program comes back to the main loop, whatever it does in between,   *)
(* and the main loop handles what is ready.                                *)
FairSpec ==
  /\ Spec
  /\ SF_vars(Run) /\ WF_vars(Wake) /\ WF_vars(Stop)
  /\ WF_vars(can_write_data) /\ WF_vars(disconnect_cb)
  /\ WF_vars(handle_rsp \/ RequestRead \/ handle_notify) /\ WF_vars(timeout_cb)
---------------------------------------------------------------------------
TypeOK ==
  /\ prog \in {"calling", "sleeping", "running", "stopping"}
  /\ writeQ \in Seq(Write) /\ reqQ \in Seq(Request) /\ pending \subseteq Request
  /\ fate \in Seq(Fate) /\ armed \subseteq DOMAIN fate
  /\ active \in BOOLEAN /\ inReq \in BOOLEAN
  /\ io \in {"open", "shut", "gone"} /\ shutBy \in {"nobody", "radio", "timeout", "protocol"}
  /\ sent \in Seq(Request \cup Write) /\ unanswered \in Seq(Nat) /\ inbox \in Seq(Pdu)
  /\ peerWaits \subseteq {"req", "ind"} /\ peerSent \in 0..MaxPeer

(* A command queued before a request reaches the peer before it, and two   *)
(* operations of one queue keep their order; only a request can be         *)
(* overtaken.  dfu.c relies on it when it asks for the checksum of chunks  *)
(* it has queued (att.c 371-399, dfu.c 231-246).                           *)
OnlyRequestsOvertaken ==
  \A i, j \in DOMAIN sent :
    i < j /\ sent[i].id > sent[j].id => sent[i].kind # "req" /\ sent[j].kind = "req"

(* The peer never has two requests to answer, and no callback gets the     *)
(* answer to another request, cancelled ones included (att.c 586-644,      *)
(* 1183-1223: "Don't cancel the pending request").                         *)
OneRequestAtATime ==
  /\ Len(unanswered) <= 1
  /\ \A i \in DOMAIN fate : fate[i] # "confused"

(* The link to a peer that follows the protocol is never shut for a        *)
(* violation of it (att.c 594-602, 818-833).                               *)
PeerNotBlamed == shutBy # "protocol"

(* What can be sent is not forgotten: the write handler is set (att.c      *)
(* 519-538; every step that fills a queue or ends a request).              *)
NoLostWakeup == io = "open" /\ Sendable(writeQ, reqQ, pending) => active

(* What became of an operation is final: no callback after a cancellation, *)
(* none twice, none for an operation the hang-up dropped (att.c 214-222,   *)
(* 552-584, 1183-1223).                                                    *)
FateIsFinal ==
  [][\A i \in DOMAIN fate : fate[i] # "open" => fate'[i] = fate[i]]_vars

(* Every operation is settled: sent, answered, or given up with the link,  *)
(* even when the peer falls silent (att.c 406-440).                        *)
EverythingSettles ==
  \A i \in 1..(MaxOps + MaxPeer) : (i \in DOMAIN fate) ~> (i \in DOMAIN fate /\ fate[i] # "open")
=============================================================================
