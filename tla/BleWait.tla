------------------------------ MODULE BleWait ------------------------------
(***************************************************************************)
(* Requests over the control point: ble.c's wait/notify pairing on top of  *)
(* the main loop of bluez/mainloop.c.                                      *)
(*                                                                         *)
(* Each request runs the main loop twice: ble_send_cp and ble_wait_run     *)
(* each wait for one of two events, the response to the write and the      *)
(* notification that answers the request, in either order.  Nothing tells  *)
(* a run which of the two ended it: the pairing holds only if no event of  *)
(* an earlier request, and no epoll_terminate, is ever left over.          *)
(*                                                                         *)
(* The peer may send what it owes in any order, or never, and the link may *)
(* drop at any moment.  What has arrived unread by then is lost, since     *)
(* io_callback looks at the hang-up first (io-mainloop.c 96-118); so the   *)
(* PDUs still to be sent and those still to be read are one set.           *)
(***************************************************************************)
EXTENDS Naturals, Sequences

CONSTANTS
  Ops,         \* op codes of the requests
  NoOp,        \* the -1 of notify_waiting_for_op
  MaxRequests  \* bound on the requests of a connection

ASSUME WaitAssumption == NoOp \notin Ops /\ MaxRequests \in Nat

VARIABLES
  pc,          \* "start" of an attempt, "register", "ready" to ask, "run1", "run2", "over"
  round,       \* number of the current or last request
  waitingOp,   \* notify_waiting_for_op
  answer,      \* notify_code: 0 for -1, else the request it answers
  terminate,   \* epoll_terminate
  exitStatus,  \* exit_status
  fatal,       \* fatalError_
  registered,  \* notify_count > 0: the CCC write was acknowledged
  queue,       \* req_queue of the ATT layer
  pending,     \* its pending_req: empty or one request
  link,        \* "up", "down" (hang-up not seen yet), "closed" (disconnect_cb has run)
  owed,        \* PDUs the peer will still send, or has sent, and the client has not read
  handled      \* last request the bootloader received

appVars  == <<pc, round, waitingOp, answer, registered>>
loopVars == <<terminate, exitStatus, fatal>>
attVars  == <<queue, pending>>
peerVars == <<link, owed, handled>>
vars == <<appVars, loopVars, attVars, peerVars>>

\* Number 0 is the write that enables notifications, the others are the control point's.
Request == [n : Nat, op : Ops \cup {NoOp}]
Enable == [n |-> 0, op |-> NoOp]

\* To the client: write response, error response, notification.
Pdu == [kind : {"rsp", "err", "ntf"}, n : Nat, op : Ops \cup {NoOp}]
PduOf(kind, r) == [kind |-> kind, n |-> r.n, op |-> r.op]

Init ==
  /\ pc = "start" /\ round = 0 /\ waitingOp = NoOp /\ answer = 0
  /\ terminate = FALSE /\ exitStatus = "SUCCESS" /\ fatal = FALSE
  /\ registered = FALSE
  /\ queue = <<>> /\ pending = {}
  /\ link = "up" /\ owed = {} /\ handled = 0

---------------------------------------------------------------------------
(* mainloop.c                                                              *)

\* Mutant: as in BlueZ, which has no fatalError_.
ExitFailureOnce == terminate' = TRUE /\ exitStatus' = "FAILURE" /\ UNCHANGED fatal

mainloop_quit == terminate' = TRUE /\ UNCHANGED <<exitStatus, fatal>>
mainloop_exit_success == terminate' = TRUE /\ exitStatus' = "SUCCESS" /\ UNCHANGED fatal
mainloop_exit_failure == terminate' = TRUE /\ exitStatus' = "FAILURE" /\ fatal' = TRUE

RunPC == {"register", "run1", "run2"}

\* mainloop_run waits for events.
Running == pc \in RunPC /\ ~terminate /\ ~fatal

---------------------------------------------------------------------------
(* ble.c                                                                   *)

\* ccc_write_id is set: the write that enables notifications has no response yet.
Enabling == Enable \in pending \/ \E i \in DOMAIN queue : queue[i] = Enable

(* ble_register_notify, at the start of every attempt.  Once notifications *)
(* are enabled another registration calls back at once, before the run.    *)
RegisterNotifyIf(enabling) ==
  /\ pc \in {"start", "ready"} /\ link # "closed"
  /\ pc' = "register"
  /\ \/ registered /\ terminate' = TRUE /\ UNCHANGED queue
     \/ ~registered /\ enabling /\ UNCHANGED <<terminate, queue>>
     \/ /\ ~registered /\ ~enabling
        /\ queue' = Append(queue, Enable) /\ UNCHANGED terminate
  /\ exitStatus' = "SUCCESS"
  /\ UNCHANGED <<round, waitingOp, answer, registered, fatal, pending, peerVars>>

\* Mutant: the pending write is not noticed.
RegisterNotifyAgain == RegisterNotifyIf(FALSE)

RegisterNotify == RegisterNotifyIf(Enabling)

\* The GATT client is not ready once the link is closed.
RegisterRefused ==
  /\ pc \in {"start", "ready"} /\ link = "closed"
  /\ pc' = "over"
  /\ UNCHANGED <<round, waitingOp, answer, registered, loopVars, attVars, peerVars>>

(* ble_send_cp.  When the write cannot be started it does not run the main *)
(* loop; dfu.c ignores what it returns.                                    *)
SendCp(op) ==
  /\ round' = round + 1
  /\ IF link = "closed"
     THEN pc' = "run2" /\ UNCHANGED queue
     ELSE pc' = "run1" /\ queue' = Append(queue, [n |-> round + 1, op |-> op])
  /\ exitStatus' = "SUCCESS"
  /\ UNCHANGED <<terminate, fatal, registered, pending, peerVars>>

\* Mutant: ble_wait_setup keeps the code of the last notification.
AskKeepingCode(op) ==
  /\ pc = "ready" /\ round < MaxRequests
  /\ waitingOp' = op /\ UNCHANGED answer /\ SendCp(op)

\* ble_wait_setup, then the request.
Ask(op) ==
  /\ pc = "ready" /\ round < MaxRequests
  /\ waitingOp' = op /\ answer' = 0 /\ SendCp(op)

(* The request that makes the application start the bootloader, the only   *)
(* one of its connection, goes out without ble_wait_setup: no notification *)
(* can match, only the disconnect ends the wait (dfu.c 365-375).           *)
EnterBootloader(op) ==
  /\ pc = "ready" /\ round = 0 /\ round < MaxRequests
  /\ SendCp(op) /\ UNCHANGED <<waitingOp, answer>>

(* mainloop_run returns; the caller goes on.  Only ble_register_notify     *)
(* looks at the status.  After EnterBootloader the connection is closed.   *)
RunEndsWith(left) ==
  /\ pc \in RunPC /\ (terminate \/ fatal)
  /\ terminate' = left
  /\ \/ pc = "register" /\ pc' = (IF exitStatus = "SUCCESS" THEN "ready" ELSE "over")
        /\ UNCHANGED <<waitingOp, exitStatus>>
     \/ pc = "run1" /\ pc' = "run2" /\ exitStatus' = "SUCCESS" /\ UNCHANGED waitingOp
     \/ /\ pc = "run2" /\ pc' = (IF waitingOp = NoOp THEN "over" ELSE "ready")
        /\ waitingOp' = NoOp /\ UNCHANGED exitStatus
  /\ UNCHANGED <<round, answer, registered, fatal, attVars, peerVars>>

\* Mutant: epoll_terminate stays set.
RunEndsTerminated == RunEndsWith(terminate)

RunEnds == RunEndsWith(FALSE)

---------------------------------------------------------------------------
(* What a run of the main loop does with an event.                         *)

(* can_write_data sends a request when none is pending.  The bootloader    *)
(* answers it, or rejects the write, or the link goes before it arrives.   *)
Send ==
  /\ Running /\ link = "up" /\ queue # <<>> /\ pending = {}
  /\ queue' = Tail(queue) /\ pending' = {Head(queue)}
  /\ LET r == Head(queue)
     IN \/ /\ owed' = owed \cup {PduOf("rsp", r)} \cup
                      (IF r.n = 0 THEN {} ELSE {PduOf("ntf", r)})
           /\ handled' = (IF r.n = 0 THEN handled ELSE r.n) /\ UNCHANGED link
        \/ owed' = owed \cup {PduOf("err", r)} /\ UNCHANGED <<link, handled>>
        \/ link' = "down" /\ owed' = {} /\ UNCHANGED handled
  /\ UNCHANGED <<appVars, loopVars>>

(* The link goes after epoll_wait: the send fails and the callback gets an *)
(* error without a PDU.  enable_ccc_callback reads error code 0 in it, and *)
(* register_notify_cb takes that for success.                              *)
SendFails ==
  /\ Running /\ link = "down" /\ queue # <<>> /\ pending = {}
  /\ queue' = Tail(queue)
  /\ IF Head(queue).n = 0 THEN mainloop_exit_success ELSE mainloop_exit_failure
  /\ UNCHANGED <<appVars, pending, peerVars>>

ResponseRead(p) ==
  \/ p.kind = "rsp" /\ mainloop_exit_success /\ registered' = (registered \/ p.n = 0)
  \/ p.kind = "err" /\ mainloop_exit_failure /\ UNCHANGED registered

\* write_cb and enable_ccc_callback of the GATT client, by way of handle_rsp.
ReadResponse ==
  /\ Running /\ link = "up"
  /\ \E p \in owed :
       /\ p.kind # "ntf" /\ owed' = owed \ {p}
       /\ ResponseRead(p)
  /\ pending' = {}
  /\ UNCHANGED <<pc, round, waitingOp, answer, queue, link, handled>>

\* notify_cb takes a notification for the op it waits for and ignores any other.
ReadNotification ==
  /\ Running /\ link = "up"
  /\ \E p \in owed :
       /\ p.kind = "ntf" /\ owed' = owed \ {p}
       /\ IF p.op = waitingOp
          THEN answer' = p.n /\ mainloop_quit
          ELSE UNCHANGED <<answer, loopVars>>
  /\ UNCHANGED <<pc, round, waitingOp, registered, attVars, link, handled>>

\* disconnect_cb: the requests are dropped without a callback.
Hangup ==
  /\ Running /\ link = "down"
  /\ link' = "closed" /\ queue' = <<>> /\ pending' = {}
  /\ mainloop_exit_failure
  /\ UNCHANGED <<appVars, owed, handled>>

\* Mutant: the socket is not shut down.
TimeoutForgets ==
  /\ Running /\ pending # {}
  /\ pending' = {}
  /\ UNCHANGED <<appVars, loopVars, queue, peerVars>>

\* timeout_cb: the pending request is dropped and the socket shut down.
Timeout ==
  /\ Running /\ pending # {}
  /\ pending' = {} /\ link' = "down" /\ owed' = {}
  /\ UNCHANGED <<appVars, loopVars, queue, handled>>

LinkDrops ==
  /\ link = "up" /\ link' = "down" /\ owed' = {}
  /\ UNCHANGED <<appVars, loopVars, attVars, handled>>

LoopNext == RunEnds \/ Send \/ SendFails \/ Hangup \/ Timeout
Next ==
  \/ RegisterNotify \/ RegisterRefused
  \/ \E op \in Ops : Ask(op) \/ EnterBootloader(op)
  \/ LoopNext \/ ReadResponse \/ ReadNotification \/ LinkDrops

Spec == Init /\ [][Next]_vars

(* A main loop that runs handles what there is to handle, the ATT timer    *)
(* included.  The peer need not send anything.                             *)
FairSpec == Spec /\ WF_vars(RunEnds) /\ WF_vars(Send) /\ WF_vars(Hangup) /\ WF_vars(Timeout)
---------------------------------------------------------------------------
TypeOK ==
  /\ pc \in {"start", "ready", "over"} \cup RunPC
  /\ round \in Nat /\ waitingOp \in Ops \cup {NoOp} /\ answer \in Nat
  /\ terminate \in BOOLEAN /\ exitStatus \in {"SUCCESS", "FAILURE"} /\ fatal \in BOOLEAN
  /\ registered \in BOOLEAN
  /\ queue \in Seq(Request) /\ pending \subseteq Request
  /\ \A i, j \in DOMAIN queue : queue[i] = Enable /\ queue[j] = Enable => i = j
  /\ link \in {"up", "down", "closed"} /\ owed \subseteq Pdu /\ handled \in Nat

(* The code a request returns is the bootloader's answer to this very      *)
(* request, not a late answer to an earlier one with the same op code      *)
(* (ble.c 458-474, 654-675: only the op code is compared).                 *)
OwnAnswer == answer # 0 => answer = round

(* Between requests nothing is left that could end a later run of the main *)
(* loop before its time (ble.c 541-557, 663-675; mainloop.c 167).          *)
NoLeftovers ==
  pc \in {"start", "ready"} /\ ~fatal =>
    owed = {} /\ queue = <<>> /\ pending = {} /\ ~terminate

(* A request that returns without an answer has left the main loop in the  *)
(* fatal state, so that no later request waits for anything (mainloop.c    *)
(* 99-104, 145; att.c 552-584).                                            *)
SilenceIsFinal == pc = "ready" /\ round > 0 /\ answer = 0 => fatal

\* The peer is connected, has answered the write and owes at most a notification.
OnlyPeerCanEndIt ==
  /\ Running /\ link = "up" /\ queue = <<>> /\ pending = {}
  /\ \A p \in owed : p.kind = "ntf"

(* Every wait ends, on the ATT timer or a hang-up if need be, but for one  *)
(* case that nothing bounds: the peer acknowledges the write, keeps the    *)
(* link and never sends the notification (mainloop.c 149 waits without     *)
(* timeout).                                                               *)
WaitReturns == <>[]OnlyPeerCanEndIt \/ (pc \in RunPC ~> pc \notin RunPC)

(* What dfu.c can rely on; Fails and Answered of DfuSend are its outcomes. *)
Promise == INSTANCE Request WITH
  waiting <- pc \in {"run1", "run2"},
  served  <- round > 0 /\ handled = round,
  outcome <- IF round = 0 \/ pc \in {"run1", "run2"} THEN "none"
             ELSE IF answer # 0 THEN "answer" ELSE "silence",
  usable  <- ~fatal
KeepsPromise == Promise!Spec
=============================================================================
