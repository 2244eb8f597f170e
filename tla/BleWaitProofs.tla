--------------------------- MODULE BleWaitProofs ---------------------------
(***************************************************************************)
(* Proofs about BleWait, for any op codes and any number of requests.      *)
(*                                                                         *)
(* The inductive invariant counts the events: at each place of the two     *)
(* runs of the main loop it says exactly what is in the request queue,     *)
(* what is pending and which PDUs can still arrive (InFlight), and what    *)
(* the last request has left behind (Past).                                *)
(***************************************************************************)
EXTENDS BleWait, SequenceTheorems, TLAPS

Cleared == queue = <<>> /\ pending = {} /\ owed = {}
Unsent(r) == queue = <<r>> /\ pending = {} /\ owed = {}

\* Neither the response nor the notification has been read.
BothDue(r) ==
  /\ queue = <<>> /\ pending \subseteq {r} /\ answer = 0
  /\ \/ owed = {}
     \/ owed = {PduOf("rsp", r)}
     \/ owed = {PduOf("err", r)}
     \/ owed = {PduOf("rsp", r), PduOf("ntf", r)} /\ handled = round

AnswerDue(r) ==
  /\ queue = <<>> /\ pending = {} /\ answer = 0
  /\ owed = {} \/ (owed = {PduOf("ntf", r)} /\ handled = round)

ResponseDue(r) ==
  /\ queue = <<>> /\ pending \subseteq {r} /\ answer = round /\ handled = round
  /\ owed = {} \/ owed = {PduOf("rsp", r)}

Registering ==
  \/ terminate /\ Cleared
  \/ ~terminate /\ Unsent(Enable)
  \/ /\ ~terminate /\ queue = <<>> /\ pending \subseteq {Enable}
     /\ owed = {} \/ owed = {PduOf("rsp", Enable)} \/ owed = {PduOf("err", Enable)}

FirstRun(r) ==
  \/ ~terminate /\ Unsent(r) /\ answer = 0
  \/ ~terminate /\ BothDue(r)
  \/ terminate /\ AnswerDue(r)
  \/ terminate /\ ResponseDue(r)

SecondRun(r) ==
  \/ ~terminate /\ AnswerDue(r)
  \/ ~terminate /\ ResponseDue(r)
  \/ terminate /\ Cleared /\ answer = round /\ handled = round

Current(op) == [n |-> round, op |-> op]

InFlight ==
  /\ pc \in {"start", "ready", "over"} => ~terminate
  /\ ~fatal =>
       /\ pc \in {"start", "ready", "over"} => Cleared
       /\ pc = "register" => Registering
       /\ pc = "run1" => \E op \in Ops : FirstRun(Current(op))
       /\ pc = "run2" => \E op \in Ops : SecondRun(Current(op))

Past ==
  /\ link = "closed" => fatal
  /\ handled <= round
  /\ pc \in {"run1", "run2"} => round > 0
  /\ answer # 0 => answer = round /\ handled = round
  /\ pc \in {"start", "register", "ready"} /\ ~fatal /\ round > 0 => answer # 0

IInv == TypeOK /\ InFlight /\ Past

USE WaitAssumption

Once(q) == \A i, j \in DOMAIN q : q[i] = Enable /\ q[j] = Enable => i = j

\* A request queued behind others: the enabling write only if none is there.
LEMMA AppendOnce ==
  ASSUME NEW q \in Seq(Request), NEW r \in Request, Once(q),
         r = Enable => ~\E i \in DOMAIN q : q[i] = Enable
  PROVE  Append(q, r) \in Seq(Request) /\ Once(Append(q, r))
         /\ (q = <<>> => Append(q, r) = <<r>>)
<1>1. Append(q, r) \in Seq(Request)
  BY AppendProperties
<1>e. q = <<>> => Append(q, r) = <<r>>
  OBVIOUS
<1>2. /\ DOMAIN q = 1..Len(q) /\ Len(q) \in Nat
      /\ DOMAIN Append(q, r) = 1..(Len(q) + 1)
      /\ \A i \in 1..(Len(q) + 1) : Append(q, r)[i] = IF i <= Len(q) THEN q[i] ELSE r
  BY <1>1, LenProperties, AppendProperties
<1>3. ASSUME NEW i \in DOMAIN Append(q, r), NEW j \in DOMAIN Append(q, r),
             Append(q, r)[i] = Enable, Append(q, r)[j] = Enable
      PROVE  i = j
  BY <1>2, <1>3 DEF Once
<1> QED BY <1>1, <1>e, <1>3 DEF Once

\* What the main loop may send is the one request just queued.
LEMMA OnlyRequest ==
  ASSUME IInv, Running, queue # <<>>
  PROVE  /\ Head(queue) \in Request /\ Tail(queue) = <<>> /\ pending = {} /\ owed = {}
         /\ Head(queue) = Enable \/ \E op \in Ops : Head(queue) = Current(op)
<1>1. \E r \in Request : queue = <<r>> /\ pending = {} /\ owed = {}
                      /\ (r = Enable \/ \E op \in Ops : r = Current(op))
  BY DEF IInv, InFlight, TypeOK, Running, RunPC, Registering, FirstRun, SecondRun, Cleared,
         Unsent, BothDue, AnswerDue, ResponseDue, Current, Enable, Request
<1> QED BY <1>1
---------------------------------------------------------------------------
LEMMA RegisterNotifyPreserves == ASSUME IInv, RegisterNotify PROVE IInv'
<1>0. Enable \in Request
  BY DEF Enable, Request
<1>a. /\ queue' \in Seq(Request) /\ Once(queue')
      /\ queue' = queue \/ (queue = <<>> => queue' = <<Enable>>)
  BY <1>0, AppendOnce DEF IInv, TypeOK, RegisterNotify, RegisterNotifyIf, Enabling, Once
<1>1. TypeOK'
  BY <1>a DEF IInv, TypeOK, RegisterNotify, RegisterNotifyIf, RunPC, peerVars, Once
<1>2. InFlight'
  BY <1>a DEF IInv, TypeOK, InFlight, Past, RegisterNotify, RegisterNotifyIf, Enabling, RunPC, appVars, loopVars, attVars, peerVars,
         Cleared, Unsent, BothDue, AnswerDue, ResponseDue, Registering, FirstRun, SecondRun,
         Current, PduOf, Enable
<1>3. Past'
  BY DEF IInv, TypeOK, InFlight, Past, RegisterNotify, RegisterNotifyIf, Enabling, RunPC, appVars, loopVars, attVars, peerVars,
         Cleared, Unsent, BothDue, AnswerDue, ResponseDue, Registering, FirstRun, SecondRun,
         Current, PduOf, Enable
<1> QED BY <1>1, <1>2, <1>3 DEF IInv

LEMMA RegisterRefusedPreserves == ASSUME IInv, RegisterRefused PROVE IInv'
<1>1. TypeOK'
  BY DEF IInv, TypeOK, RegisterRefused, RunPC, appVars, loopVars, attVars, peerVars, Request, Pdu, PduOf, Enable
<1>2. InFlight'
  BY DEF IInv, TypeOK, InFlight, Past, RegisterRefused, RunPC, appVars, loopVars, attVars, peerVars,
         Cleared, Unsent, BothDue, AnswerDue, ResponseDue, Registering, FirstRun, SecondRun,
         Current, PduOf, Enable
<1>3. Past'
  BY DEF IInv, TypeOK, InFlight, Past, RegisterRefused, RunPC, appVars, loopVars, attVars, peerVars,
         Cleared, Unsent, BothDue, AnswerDue, ResponseDue, Registering, FirstRun, SecondRun,
         Current, PduOf, Enable
<1> QED BY <1>1, <1>2, <1>3 DEF IInv

LEMMA RunEndsPreserves == ASSUME IInv, RunEnds PROVE IInv'
<1>1. TypeOK'
  BY DEF IInv, TypeOK, RunEnds, RunEndsWith, RunPC, appVars, loopVars, attVars, peerVars, Request, Pdu, PduOf, Enable
<1>2. InFlight'
  BY DEF IInv, TypeOK, InFlight, Past, RunEnds, RunEndsWith, RunPC, appVars, loopVars, attVars, peerVars,
         Cleared, Unsent, BothDue, AnswerDue, ResponseDue, Registering, FirstRun, SecondRun,
         Current, PduOf, Enable
<1>3. Past'
  BY DEF IInv, TypeOK, InFlight, Past, RunEnds, RunEndsWith, RunPC, appVars, loopVars, attVars, peerVars,
         Cleared, Unsent, BothDue, AnswerDue, ResponseDue, Registering, FirstRun, SecondRun,
         Current, PduOf, Enable
<1> QED BY <1>1, <1>2, <1>3 DEF IInv

LEMMA SendPreserves == ASSUME IInv, Send PROVE IInv'
<1>1. TypeOK'
  BY OnlyRequest DEF IInv, TypeOK, Send, Running, RunPC, appVars, loopVars, attVars, peerVars, Request, Pdu, PduOf, Enable
<1>2. InFlight'
  BY DEF IInv, TypeOK, InFlight, Past, Send, Running, RunPC, appVars, loopVars, attVars, peerVars,
         Cleared, Unsent, BothDue, AnswerDue, ResponseDue, Registering, FirstRun, SecondRun,
         Current, PduOf, Enable
<1>3. Past'
  BY DEF IInv, TypeOK, InFlight, Past, Send, Running, RunPC, appVars, loopVars, attVars, peerVars,
         Cleared, Unsent, BothDue, AnswerDue, ResponseDue, Registering, FirstRun, SecondRun,
         Current, PduOf, Enable
<1> QED BY <1>1, <1>2, <1>3 DEF IInv

LEMMA SendFailsPreserves == ASSUME IInv, SendFails PROVE IInv'
<1>0. Head(queue) \in Request /\ Tail(queue) = <<>>
  BY OnlyRequest DEF SendFails
<1>a. terminate' \in BOOLEAN /\ fatal' \in BOOLEAN /\ exitStatus' \in {"SUCCESS", "FAILURE"}
  BY Zenon DEF IInv, TypeOK, SendFails, mainloop_exit_success, mainloop_exit_failure
<1>c. queue' = <<>>
  BY <1>0 DEF SendFails
<1>b. queue' \in Seq(Request) /\ Once(queue')
  BY <1>c DEF Once
<1>1. TypeOK'
  BY <1>a, <1>b DEF IInv, TypeOK, SendFails, appVars, peerVars, Once
<1>2. InFlight'
  BY DEF IInv, TypeOK, InFlight, Past, SendFails, Running, mainloop_exit_success, mainloop_exit_failure, RunPC, appVars, loopVars, attVars, peerVars,
         Cleared, Unsent, BothDue, AnswerDue, ResponseDue, Registering, FirstRun, SecondRun,
         Current, PduOf, Enable
<1>3. Past'
  BY DEF IInv, TypeOK, InFlight, Past, SendFails, Running, mainloop_exit_success, mainloop_exit_failure, RunPC, appVars, loopVars, attVars, peerVars,
         Cleared, Unsent, BothDue, AnswerDue, ResponseDue, Registering, FirstRun, SecondRun,
         Current, PduOf, Enable
<1> QED BY <1>1, <1>2, <1>3 DEF IInv

LEMMA ReadResponsePreserves == ASSUME IInv, ReadResponse PROVE IInv'
<1>1. TypeOK'
  BY DEF IInv, TypeOK, ReadResponse, ResponseRead, Running, mainloop_exit_success, mainloop_exit_failure, RunPC, appVars, loopVars, attVars, peerVars, Request, Pdu, PduOf, Enable
<1>2. InFlight'
  BY DEF IInv, TypeOK, InFlight, Past, ReadResponse, ResponseRead, Running, mainloop_exit_success, mainloop_exit_failure, RunPC, appVars, loopVars, attVars, peerVars,
         Cleared, Unsent, BothDue, AnswerDue, ResponseDue, Registering, FirstRun, SecondRun,
         Current, PduOf, Enable
<1>3. Past'
  BY DEF IInv, TypeOK, InFlight, Past, ReadResponse, ResponseRead, Running, mainloop_exit_success, mainloop_exit_failure, RunPC, appVars, loopVars, attVars, peerVars,
         Cleared, Unsent, BothDue, AnswerDue, ResponseDue, Registering, FirstRun, SecondRun,
         Current, PduOf, Enable
<1> QED BY <1>1, <1>2, <1>3 DEF IInv

LEMMA ReadNotificationPreserves == ASSUME IInv, ReadNotification PROVE IInv'
<1>1. TypeOK'
  BY DEF IInv, TypeOK, ReadNotification, Running, mainloop_quit, RunPC, appVars, loopVars, attVars, peerVars, Request, Pdu, PduOf, Enable
<1>2. InFlight'
  BY DEF IInv, TypeOK, InFlight, Past, ReadNotification, Running, mainloop_quit, RunPC, appVars, loopVars, attVars, peerVars,
         Cleared, Unsent, BothDue, AnswerDue, ResponseDue, Registering, FirstRun, SecondRun,
         Current, PduOf, Enable
<1>3. Past'
  BY DEF IInv, TypeOK, InFlight, Past, ReadNotification, Running, mainloop_quit, RunPC, appVars, loopVars, attVars, peerVars,
         Cleared, Unsent, BothDue, AnswerDue, ResponseDue, Registering, FirstRun, SecondRun,
         Current, PduOf, Enable
<1> QED BY <1>1, <1>2, <1>3 DEF IInv

LEMMA HangupPreserves == ASSUME IInv, Hangup PROVE IInv'
<1>1. TypeOK'
  BY DEF IInv, TypeOK, Hangup, Running, mainloop_exit_failure, RunPC, appVars, loopVars, attVars, peerVars, Request, Pdu, PduOf, Enable
<1>2. InFlight'
  BY DEF IInv, TypeOK, InFlight, Past, Hangup, Running, mainloop_exit_failure, RunPC, appVars, loopVars, attVars, peerVars,
         Cleared, Unsent, BothDue, AnswerDue, ResponseDue, Registering, FirstRun, SecondRun,
         Current, PduOf, Enable
<1>3. Past'
  BY DEF IInv, TypeOK, InFlight, Past, Hangup, Running, mainloop_exit_failure, RunPC, appVars, loopVars, attVars, peerVars,
         Cleared, Unsent, BothDue, AnswerDue, ResponseDue, Registering, FirstRun, SecondRun,
         Current, PduOf, Enable
<1> QED BY <1>1, <1>2, <1>3 DEF IInv

LEMMA TimeoutPreserves == ASSUME IInv, Timeout PROVE IInv'
<1>1. TypeOK'
  BY DEF IInv, TypeOK, Timeout, Running, RunPC, appVars, loopVars, attVars, peerVars, Request, Pdu, PduOf, Enable
<1>2. InFlight'
  BY DEF IInv, TypeOK, InFlight, Past, Timeout, Running, RunPC, appVars, loopVars, attVars, peerVars,
         Cleared, Unsent, BothDue, AnswerDue, ResponseDue, Registering, FirstRun, SecondRun,
         Current, PduOf, Enable
<1>3. Past'
  BY DEF IInv, TypeOK, InFlight, Past, Timeout, Running, RunPC, appVars, loopVars, attVars, peerVars,
         Cleared, Unsent, BothDue, AnswerDue, ResponseDue, Registering, FirstRun, SecondRun,
         Current, PduOf, Enable
<1> QED BY <1>1, <1>2, <1>3 DEF IInv

LEMMA LinkDropsPreserves == ASSUME IInv, LinkDrops PROVE IInv'
<1>1. TypeOK'
  BY DEF IInv, TypeOK, LinkDrops, RunPC, appVars, loopVars, attVars, peerVars, Request, Pdu, PduOf, Enable
<1>2. InFlight'
  BY DEF IInv, TypeOK, InFlight, Past, LinkDrops, RunPC, appVars, loopVars, attVars, peerVars,
         Cleared, Unsent, BothDue, AnswerDue, ResponseDue, Registering, FirstRun, SecondRun,
         Current, PduOf, Enable
<1>3. Past'
  BY DEF IInv, TypeOK, InFlight, Past, LinkDrops, RunPC, appVars, loopVars, attVars, peerVars,
         Cleared, Unsent, BothDue, AnswerDue, ResponseDue, Registering, FirstRun, SecondRun,
         Current, PduOf, Enable
<1> QED BY <1>1, <1>2, <1>3 DEF IInv

\* A request over the control point is queued behind what is there.
LEMMA SendCpPreserves ==
  ASSUME NEW op \in Ops, IInv, pc = "ready", SendCp(op),
         \/ waitingOp' = op /\ answer' = 0
         \/ round = 0 /\ UNCHANGED <<waitingOp, answer>>
  PROVE  IInv'
<1>0. Current(op)' \in Request /\ Current(op)' # Enable
      /\ Current(op)' = [n |-> round + 1, op |-> op]
  BY DEF IInv, TypeOK, SendCp, Current, Request, Enable
<1>a. /\ queue' \in Seq(Request) /\ Once(queue')
      /\ queue' = queue \/ (queue = <<>> => queue' = <<Current(op)'>>)
  <2>1. queue \in Seq(Request) /\ Once(queue)
    BY DEF IInv, TypeOK, Once
  <2>2. queue' = queue \/ queue' = Append(queue, Current(op)')
    BY <1>0 DEF SendCp
  <2> QED
    BY <1>0, <2>1, <2>2, AppendOnce DEF Once
<1>1. TypeOK'
  BY <1>a DEF IInv, TypeOK, SendCp, RunPC, peerVars, Once
<1>2. InFlight'
  BY <1>a DEF IInv, TypeOK, InFlight, Past, SendCp, peerVars, Cleared, Unsent, FirstRun
<1>3. Past'
  BY DEF IInv, TypeOK, Past, SendCp, peerVars
<1> QED BY <1>1, <1>2, <1>3 DEF IInv

LEMMA InitHolds == Init => IInv
<1>a. Init => queue \in Seq(Request) /\ Once(queue)
  BY DEF Init, Once
<1>b. Init => terminate \in BOOLEAN /\ fatal \in BOOLEAN /\ registered \in BOOLEAN
  BY Zenon DEF Init
<1>1. Init => TypeOK
  BY <1>a, <1>b DEF Init, TypeOK, Once
<1>2. Init => InFlight /\ Past
  BY DEF Init, InFlight, Past, Cleared
<1> QED BY <1>1, <1>2 DEF IInv

LEMMA NextPreserves == ASSUME IInv, [Next]_vars PROVE IInv'
<1>1. CASE \E op \in Ops : Ask(op) \/ EnterBootloader(op)
  <2> PICK op \in Ops : Ask(op) \/ EnterBootloader(op)
    BY <1>1
  <2> QED BY SendCpPreserves DEF Ask, EnterBootloader
<1>2. CASE LoopNext
  BY <1>2, RunEndsPreserves, SendPreserves, SendFailsPreserves, HangupPreserves,
     TimeoutPreserves DEF LoopNext
<1>3. CASE UNCHANGED vars
  BY <1>3 DEF IInv, TypeOK, InFlight, Past, vars, appVars, loopVars, attVars, peerVars,
         Cleared, Unsent, BothDue, AnswerDue, ResponseDue, Registering, FirstRun, SecondRun,
         Current, PduOf, Enable, RunPC, Request, Pdu
<1> QED BY <1>1, <1>2, <1>3, RegisterNotifyPreserves, RegisterRefusedPreserves,
           ReadResponsePreserves, ReadNotificationPreserves, LinkDropsPreserves DEF Next

\* The inductive invariant holds in every reachable state.
THEOREM Invariance == Spec => []IInv
BY InitHolds, NextPreserves, PTL DEF Spec

(* Types, and at most one write that enables notifications on its way.     *)
THEOREM TypeCorrect == Spec => []TypeOK
<1>1. IInv => TypeOK
  BY DEF IInv
<1> QED BY Invariance, <1>1, PTL

(* The code a request returns answers that request (ble.c 654-675).        *)
THEOREM AnswerIsOwn == Spec => []OwnAnswer
<1>1. IInv => OwnAnswer
  BY DEF IInv, Past, OwnAnswer
<1> QED BY Invariance, <1>1, PTL

(* No event of a request outlives it while the main loop is usable         *)
(* (mainloop.c 167).                                                       *)
THEOREM NothingLeftOver == Spec => []NoLeftovers
<1>1. IInv => NoLeftovers
  BY DEF IInv, InFlight, Cleared, NoLeftovers
<1> QED BY Invariance, <1>1, PTL

(* A request without an answer is the last that waits (mainloop.c 99-104). *)
THEOREM SilenceIsTheEnd == Spec => []SilenceIsFinal
<1>1. IInv => SilenceIsFinal
  BY DEF IInv, Past, SilenceIsFinal
<1> QED BY Invariance, <1>1, PTL

---------------------------------------------------------------------------
(* Each step is a step of Request or leaves its variables alone.           *)

LEMMA QuietSteps ==
  ASSUME IInv, RegisterNotify \/ RegisterRefused \/ Timeout \/ LinkDrops \/ UNCHANGED vars
  PROVE  UNCHANGED Promise!requestVars
BY DEF IInv, TypeOK, Promise!requestVars, RegisterNotify, RegisterNotifyIf, RegisterRefused,
       Timeout, LinkDrops, Running, RunPC, vars, appVars, loopVars, attVars, peerVars

LEMMA AskSteps ==
  ASSUME NEW op \in Ops, IInv, Ask(op) \/ EnterBootloader(op)
  PROVE  Promise!Ask
BY DEF IInv, TypeOK, Past, Ask, EnterBootloader, SendCp, peerVars, Promise!Ask

LEMMA RunEndsSteps ==
  ASSUME IInv, RunEnds PROVE Promise!Answer \/ Promise!GiveUp \/ UNCHANGED Promise!requestVars
BY DEF IInv, TypeOK, InFlight, Past, RunEnds, RunEndsWith, RunPC, attVars, peerVars, SecondRun,
       Promise!Answer, Promise!GiveUp, Promise!requestVars

LEMMA SendSteps ==
  ASSUME IInv, Send PROVE Promise!Serve \/ UNCHANGED Promise!requestVars
<1>1. Head(queue) = Enable \/ \E op \in Ops : Head(queue) = Current(op)
  BY OnlyRequest DEF Send
<1>2. pc # "register" => Head(queue).n = round
  <2>1. ASSUME pc = "run1" PROVE Head(queue).n = round
    <3> PICK op \in Ops : FirstRun(Current(op))
      BY <2>1 DEF IInv, InFlight, Send, Running
    <3> queue = <<Current(op)>>
      BY DEF Send, Running, FirstRun, Unsent, BothDue
    <3> QED BY DEF Current
  <2>2. pc # "run2"
    BY DEF IInv, InFlight, Send, Running, SecondRun, AnswerDue, ResponseDue
  <2> QED BY <2>1, <2>2 DEF Send, Running, RunPC
<1>3. pc = "register" => Head(queue).n = 0
  BY DEF IInv, TypeOK, Send, Running, RunPC, InFlight, Registering, Cleared, Unsent, Enable
<1> QED BY <1>1, <1>2, <1>3
        DEF IInv, TypeOK, Past, Send, Running, RunPC, appVars, loopVars, Promise!Serve, Promise!requestVars

LEMMA EventSteps ==
  ASSUME IInv, SendFails \/ ReadResponse \/ ReadNotification \/ Hangup
  PROVE  Promise!Break \/ UNCHANGED Promise!requestVars
BY DEF IInv, TypeOK, InFlight, Past, SendFails, ReadResponse, ResponseRead, ReadNotification,
       Hangup, Running, RunPC, mainloop_quit, mainloop_exit_success, mainloop_exit_failure, Registering,
       Cleared, Unsent, PduOf, appVars, loopVars, attVars, peerVars, Promise!Break, Promise!requestVars

(* The two runs of the main loop per request implement Request: an answer  *)
(* only of a served request, silence only on a connection of no more use   *)
(* (ble.c 541-557, 654-675).                                               *)
THEOREM RequestImplemented == Spec => KeepsPromise
<1>1. Init => Promise!Init
  BY DEF Init, Promise!Init
<1>2. ASSUME IInv, [Next]_vars PROVE [Promise!Next]_(Promise!requestVars)
  BY <1>2, QuietSteps, AskSteps, RunEndsSteps, SendSteps, EventSteps
     DEF Next, LoopNext, Promise!Next
<1> QED BY <1>1, <1>2, Invariance, PTL DEF Spec, KeepsPromise, Promise!Spec
=============================================================================
