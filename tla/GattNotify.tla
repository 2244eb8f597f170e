---------------------------- MODULE GattNotify ----------------------------
(***************************************************************************)
(* Registering for the notifications of one characteristic, in             *)
(* bluez/gatt-client.c.  Registrations share the descriptor that enables   *)
(* notifications on the device (CCC): the first one writes it, those that  *)
(* come during the write wait for it, the last one to leave writes it      *)
(* again.                                                                  *)
(*                                                                         *)
(* A Service Changed indication removes all of it, and a registration that *)
(* comes later starts anew, while an earlier write may still be in the     *)
(* transport.                                                              *)
(*                                                                         *)
(* Each registration of this model is made at most once.  Callbacks do not *)
(* call back into the client, as those of ble.c do not.                    *)
(***************************************************************************)
EXTENDS Naturals, Sequences, FiniteSets

CONSTANTS
  Regs,            \* registrations
  UnregisterEarly, \* callers unregister before they were told, as ble_close may
  RegisterLate,    \* callers register while notifications are being disabled
  MaxChanges       \* bound on the changes of the service

ASSUME NotifyAssumption ==
  /\ IsFiniteSet(Regs) /\ MaxChanges \in Nat
  /\ UnregisterEarly \in BOOLEAN /\ RegisterLate \in BOOLEAN

VARIABLES
  hasCcc,    \* the characteristic has a CCC descriptor: ccc_handle # 0
  asked,     \* registrations made so far
  listed,    \* notify_list
  told,      \* what the register callback was called with
  count,     \* notify_count
  waiting,   \* reg_notify_queue
  cccWrite,  \* the write ccc_write_id stands for: empty or one
  inFlight,  \* the same write in the ATT transport, with its answer; those
             \* of a notify_chrc that was freed are stale
  server,    \* the device has notifications enabled
  link,      \* "up", "shut" (the hang-up is not handled yet), "gone"
  changing,  \* in_svc_chngd
  changes,   \* the changes of the service so far
  overtaken, \* one of them came while a write was under way
  aborted    \* "no", "assert": one has failed, "freed": freed memory was used

chrcVars == <<hasCcc, count, waiting, cccWrite>>
regVars  == <<asked, listed, told>>
svcVars  == <<changing, changes, overtaken>>
vars == <<regVars, chrcVars, inFlight, server, link, svcVars, aborted>>

CccWrite == [by : Regs, enable : BOOLEAN]
Answers == {"none", "ok", "error"}

Init ==
  /\ hasCcc \in BOOLEAN
  /\ asked = {} /\ listed = {} /\ told = [r \in Regs |-> "no"]
  /\ count = 0 /\ waiting = <<>> /\ cccWrite = {} /\ inFlight = {}
  /\ server = FALSE /\ link = "up"
  /\ changing = FALSE /\ changes = 0 /\ overtaken = FALSE /\ aborted = "no"

---------------------------------------------------------------------------
(* "others" are the writes in flight next to the new one.  bt_att_send     *)
(* refuses once the transport has lost its socket.                         *)
notify_data_write_ccc(r, enable, others) ==
  LET write == [by |-> r, enable |-> enable]
  IN IF link = "gone"
     THEN cccWrite' = {} /\ inFlight' = others
     ELSE /\ cccWrite' = {write}
          /\ inFlight' = others \cup {[write |-> write, answer |-> "none", stale |-> FALSE]}

Alive == aborted = "no"
assert(condition) == aborted' = IF condition THEN "no" ELSE "assert"

Tell(rs, what) == told' = [r \in Regs |-> IF r \in rs THEN what ELSE told[r]]

Disabling == \E w \in cccWrite : ~w.enable

\* Mutant: a write under way is not looked at.
RegisterOverWrite(r) ==
  \/ /\ count > 0 \/ ~hasCcc
     /\ count' = count + 1 /\ Tell({r}, "ok")
     /\ UNCHANGED <<waiting, cccWrite, inFlight>>
  \/ /\ count = 0 /\ hasCcc
     /\ notify_data_write_ccc(r, TRUE, inFlight)
     /\ UNCHANGED <<told, count, waiting>>

\* The ways a registration goes on: it waits, is done, or writes the CCC.
Enter(r) ==
  \/ /\ cccWrite # {}
     /\ waiting' = Append(waiting, r)
     /\ UNCHANGED <<told, count, cccWrite, inFlight>>
  \/ cccWrite = {} /\ RegisterOverWrite(r)

bt_gatt_client_register_notify(r) ==
  /\ Alive /\ link # "gone" /\ ~changing
  /\ r \notin asked /\ asked' = asked \cup {r}
  /\ RegisterLate \/ ~Disabling
  /\ listed' = listed \cup {r}
  /\ Enter(r)
  /\ UNCHANGED <<hasCcc, server, link, svcVars, aborted>>

\* Mutant: every leaving registration disables notifications.
LeaveDisabling(r) ==
  /\ count' = count - 1
  /\ IF hasCcc
     THEN notify_data_write_ccc(r, FALSE, inFlight)
     ELSE UNCHANGED <<cccWrite, inFlight>>

(* complete_unregister_notify, after the assertions of its caller.  They   *)
(* leave nothing for its first branch, which cancels a pending write.      *)
Leave(r) ==
  /\ count' = count - 1
  /\ IF count' = 0 /\ hasCcc
     THEN notify_data_write_ccc(r, FALSE, inFlight)
     ELSE UNCHANGED <<cccWrite, inFlight>>

bt_gatt_client_unregister_notify(r) ==
  /\ Alive /\ r \in listed
  /\ UnregisterEarly \/ told[r] = "ok"
  /\ listed' = listed \ {r}
  /\ assert(count > 0 /\ cccWrite = {})
  /\ IF aborted' # "no" THEN UNCHANGED <<count, cccWrite, inFlight>> ELSE Leave(r)
  /\ UNCHANGED <<hasCcc, asked, told, waiting, server, link, svcVars>>

---------------------------------------------------------------------------
Range1(s) == {s[i] : i \in DOMAIN s}

\* Mutants of the next two operators: of those who wait none is served,
\* none tries.
SucceedAlone(r, others) ==
  /\ cccWrite' = {} /\ inFlight' = others
  /\ count' = count + 1
  /\ Tell({r}, "ok")
  /\ UNCHANGED <<listed, waiting>>
FailAlone(r, what, others) ==
  /\ listed' = listed \ {r} /\ Tell({r}, what)
  /\ cccWrite' = {} /\ inFlight' = others /\ UNCHANGED <<count, waiting>>

\* Notifications are enabled for all who wait.
EnableSucceeds(r, others) ==
  /\ cccWrite' = {} /\ inFlight' = others
  /\ count' = count + 1 + Len(waiting)
  /\ Tell({r} \cup Range1(waiting), "ok")
  /\ waiting' = <<>> /\ UNCHANGED listed

\* The next one tries.
EnableFails(r, what, others) ==
  /\ listed' = listed \ {r} /\ Tell({r}, what)
  /\ IF waiting = <<>>
     THEN cccWrite' = {} /\ inFlight' = others /\ UNCHANGED waiting
     ELSE notify_data_write_ccc(Head(waiting), TRUE, others) /\ waiting' = Tail(waiting)
  /\ UNCHANGED count

(* Errors are ignored.  The write for the waiting registration that is     *)
(* taken from the queue is made in the name of the one that has left.      *)
Disabled(r, others) ==
  /\ IF waiting = <<>>
     THEN cccWrite' = {} /\ inFlight' = others /\ UNCHANGED waiting
     ELSE notify_data_write_ccc(r, TRUE, others) /\ waiting' = Tail(waiting)
  /\ UNCHANGED <<listed, told, count>>

\* The transport has one request pending, and queues the others behind it.
Oldest(f) == f \in inFlight /\ (f.stale \/ \A g \in inFlight : ~g.stale)

\* Both callbacks assert that nobody is served and that a write is on record.
Callback(f) ==
  /\ Alive /\ Oldest(f) /\ ~f.stale
  /\ assert(count = 0 /\ cccWrite # {})
  /\ UNCHANGED <<hasCcc, asked, server, link, svcVars>>

\* Answered, or the write could not be sent: then the callback gets no PDU.
Handed(f) == f.answer # "none" \/ link = "shut"

(* Without a PDU the error code that is read is 0: the caller is told of   *)
(* success.                                                                *)
enable_ccc_callback ==
  \E f \in inFlight :
    /\ f.write.enable /\ Handed(f) /\ Callback(f)
    /\ IF f.answer = "ok"
       THEN EnableSucceeds(f.write.by, inFlight \ {f})
       ELSE EnableFails(f.write.by, IF f.answer = "none" THEN "ok" ELSE "failed", inFlight \ {f})

disable_ccc_callback ==
  \E f \in inFlight :
    /\ ~f.write.enable /\ Handed(f) /\ Callback(f)
    /\ Disabled(f.write.by, inFlight \ {f})

(* Either callback of a write whose notify_chrc was freed, where its first *)
(* assertion reads it.                                                     *)
StaleCallback ==
  /\ Alive /\ \E f \in inFlight : f.stale /\ Handed(f)
  /\ aborted' = "freed"
  /\ UNCHANGED <<regVars, chrcVars, inFlight, server, link, svcVars>>

---------------------------------------------------------------------------
(* Service Changed.                                                        *)

\* Mutant: notify_chrc stays, with its count.
ChrcKept == UNCHANGED <<hasCcc, count, waiting, cccWrite>>

\* A later registration makes a new notify_chrc, of the service as it is then.
ChrcRemoved ==
  /\ hasCcc' \in BOOLEAN
  /\ count' = 0 /\ waiting' = <<>> /\ cccWrite' = {}

(* The registrations and their notify_chrc are removed, nobody is told.    *)
(* Those that waited are in notify_list and in reg_notify_queue with one   *)
(* reference, which either removal drops.  The device may have forgotten   *)
(* its CCC.                                                                *)
process_service_changed ==
  /\ Alive /\ link = "up" /\ ~changing /\ changes < MaxChanges
  /\ changing' = TRUE /\ changes' = changes + 1
  /\ listed' = {} /\ ChrcRemoved
  /\ inFlight' = {[f EXCEPT !.stale = TRUE] : f \in inFlight}
  /\ overtaken' = (overtaken \/ inFlight # {})
  /\ aborted' = IF waiting # <<>> THEN "freed" ELSE "no"
  /\ server' \in {server, FALSE}
  /\ UNCHANGED <<asked, told, link>>

\* Events that were queued meanwhile find nothing to remove here.
service_changed_complete ==
  /\ Alive /\ changing /\ changing' = FALSE
  /\ UNCHANGED <<regVars, chrcVars, inFlight, server, link, changes, overtaken, aborted>>

---------------------------------------------------------------------------
(* The ATT transport and the device.                                       *)

\* The device carries out the write, or rejects it.
DeviceWrites ==
  /\ Alive /\ link = "up"
  /\ \E f \in inFlight, answer \in {"ok", "error"} :
       /\ Oldest(f) /\ f.answer = "none"
       /\ inFlight' = (inFlight \ {f}) \cup {[f EXCEPT !.answer = answer]}
       /\ server' = (IF answer = "ok" THEN f.write.enable ELSE server)
  /\ UNCHANGED <<regVars, chrcVars, link, svcVars, aborted>>

\* The transport gives the write up, without its callback, and the link with it.
Timeout ==
  /\ Alive /\ link = "up" /\ inFlight # {}
  /\ inFlight' = {} /\ link' = "shut"
  /\ UNCHANGED <<regVars, chrcVars, server, svcVars, aborted>>

\* An answer that is not read by now is lost.
LinkDrops ==
  /\ Alive /\ link = "up" /\ link' = "shut"
  /\ inFlight' = {f \in inFlight : f.answer = "none"}
  /\ UNCHANGED <<regVars, chrcVars, server, svcVars, aborted>>

att_disconnect_cb ==
  /\ Alive /\ link = "shut" /\ link' = "gone"
  /\ inFlight' = {}
  /\ UNCHANGED <<regVars, chrcVars, server, svcVars, aborted>>

CallbackNext == enable_ccc_callback \/ disable_ccc_callback \/ StaleCallback
ChangeNext == process_service_changed \/ service_changed_complete
TransportNext == DeviceWrites \/ Timeout \/ LinkDrops \/ att_disconnect_cb

Next ==
  \/ \E r \in Regs : bt_gatt_client_register_notify(r) \/ bt_gatt_client_unregister_notify(r)
  \/ CallbackNext \/ ChangeNext \/ TransportNext

Spec == Init /\ [][Next]_vars

(* The main loop hands out what has arrived and its timer fires; the       *)
(* device need not answer.                                                 *)
FairSpec == Spec /\ WF_vars(CallbackNext) /\ WF_vars(Timeout) /\ WF_vars(att_disconnect_cb)
---------------------------------------------------------------------------
TypeOK ==
  /\ hasCcc \in BOOLEAN /\ asked \subseteq Regs /\ listed \subseteq asked
  /\ told \in [Regs -> {"no", "ok", "failed"}]
  /\ count \in Nat /\ waiting \in Seq(Regs)
  /\ cccWrite \subseteq CccWrite
  /\ inFlight \subseteq [write : CccWrite, answer : Answers, stale : BOOLEAN]
  /\ \A f, g \in inFlight : f = g \/ f.stale \/ g.stale
  /\ server \in BOOLEAN /\ link \in {"up", "shut", "gone"}
  /\ changing \in BOOLEAN /\ changes \in 0..MaxChanges /\ overtaken \in BOOLEAN
  /\ aborted \in {"no", "assert", "freed"}

Served == {r \in listed : told[r] = "ok"}

(* No assertion of the client fails: a callback of a CCC write finds no    *)
(* registration served and a write on record (gatt-client.c 1430, 1472),   *)
(* an unregistering caller finds one served and no write (2991).  Also     *)
(* across changes of the service, which free what the callbacks use (1177):*)
(* memory is used after that only when a change overtook a CCC write.      *)
NeverAborts == aborted # "assert" /\ (aborted = "freed" => overtaken)

(* Whoever was told that the registration is made has notifications        *)
(* enabled on the device until it unregisters or the service changes,      *)
(* whatever others do meanwhile (gatt-client.c 1368-1510, 2951-2973).      *)
EnabledWhileServed == link = "up" /\ hasCcc /\ Served # {} => server

(* notify_count counts the registrations that are served: the last one to  *)
(* leave is the one that disables notifications (gatt-client.c 1373, 1501).*)
CountIsServed == count = Cardinality(Served)

(* "Pending calls to register_notify are queued here so that they can be   *)
(* processed after a write that modifies the CCC descriptor"               *)
(* (gatt-client.c 169-171): while the link lasts a registration is served, *)
(* or waits for a write that is under way, or the write is its own.        *)
NobodyForgotten ==
  link = "up" => \A r \in listed :
    \/ told[r] = "ok"
    \/ r \in Range1(waiting) /\ cccWrite # {}
    \/ \E w \in cccWrite : w.by = r /\ w.enable

(* Every registration is told how it ended, unless it is taken back, the   *)
(* service changes or the link is lost (gatt-client.c 1443-1460).          *)
EveryoneTold ==
  \A r \in Regs :
    r \in listed ~> told[r] # "no" \/ r \notin listed \/ link = "gone" \/ ~Alive
=============================================================================
