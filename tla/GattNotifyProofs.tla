------------------------- MODULE GattNotifyProofs -------------------------
(***************************************************************************)
(* Proofs about GattNotify, for any registrations and any number of        *)
(* changes of the service, and for callers that neither unregister before  *)
(* they were told nor register while notifications are being disabled.     *)
(*                                                                         *)
(* The inductive invariant ties the two views of the CCC write together:   *)
(* what is on record (Writes), who waits behind it (Waits), and what of it *)
(* the transport still has after a change of the service (Stales).         *)
(***************************************************************************)
EXTENDS GattNotify, FiniteSetTheorems, SequenceTheorems, TLAPS

\* While a write is on record nobody is served.
Writes ==
  /\ \A f \in inFlight : ~f.stale => cccWrite = {f.write}
  /\ cccWrite # {} /\ link = "up" => \E f \in inFlight : ~f.stale
  /\ link = "gone" => inFlight = {}
  /\ cccWrite # {} => count = 0
  /\ \A w \in cccWrite : cccWrite = {w}

\* Enabling w is the registration's own write.
Own(r) == \E w \in cccWrite : w.enable /\ w.by = r

Waits ==
  /\ waiting # <<>> => \E w \in cccWrite : w.enable
  /\ \A i, j \in DOMAIN waiting : waiting[i] = waiting[j] => i = j
  /\ \A i \in DOMAIN waiting : waiting[i] \in listed /\ ~Own(waiting[i])
  /\ \A w \in cccWrite : w.enable => w.by \in listed
  /\ \A r \in Regs \ asked : told[r] = "no"
  /\ \A r \in listed : told[r] = "ok" \/ (\E i \in DOMAIN waiting : waiting[i] = r) \/ Own(r)

Stales ==
  /\ \A f \in inFlight : f.stale =>
       /\ overtaken /\ (hasCcc => count = 0)
       /\ \A g \in inFlight : ~g.stale => g.answer = "none"
  /\ \A f \in inFlight : ~f.stale /\ f.write.enable /\ f.answer = "ok" => server

IInv ==
  /\ TypeOK
  /\ NeverAborts /\ CountIsServed /\ EnabledWhileServed
  /\ Writes /\ Waits /\ Stales
---------------------------------------------------------------------------
LEMMA DistinctCount ==
  ASSUME NEW S, NEW s \in Seq(S), \A i, j \in DOMAIN s : s[i] = s[j] => i = j
  PROVE  /\ IsFiniteSet(Range1(s))
         /\ Cardinality(Range1(s)) = Len(s)
<1>1. Len(s) \in Nat /\ DOMAIN s = 1..Len(s)
  OBVIOUS
<1>2. s \in Bijection(1..Len(s), Range1(s))
  BY <1>1 DEF Bijection, Injection, Surjection, IsInjective, Range1
<1>3. ExistsBijection(1..Len(s), Range1(s))
  BY <1>2 DEF ExistsBijection
<1>4. IsFiniteSet(1..Len(s)) /\ Cardinality(1..Len(s)) = Len(s)
  BY <1>1, FS_Interval
<1> QED
  BY <1>1, <1>3, <1>4, FS_Bijection

LEMMA TailOf ==
  ASSUME NEW S, NEW s \in Seq(S), s # <<>>
  PROVE  /\ Len(s) \in Nat /\ Len(s) > 0 /\ DOMAIN s = 1..Len(s) /\ Head(s) = s[1] /\ Head(s) \in S
         /\ Tail(s) \in Seq(S) /\ DOMAIN Tail(s) = 1..(Len(s) - 1)
         /\ \A i \in 1..(Len(s) - 1) : Tail(s)[i] = s[i + 1]
<1>1. Len(s) \in Nat /\ Len(s) > 0 /\ DOMAIN s = 1..Len(s) /\ Head(s) = s[1] /\ s[1] \in S
  OBVIOUS
<1>2. Tail(s) \in Seq(S) /\ Len(Tail(s)) = Len(s) - 1
  BY HeadTailProperties
<1>3. DOMAIN Tail(s) = 1..(Len(s) - 1)
  BY <1>2
<1> QED
  BY <1>1, <1>2, <1>3, HeadTailProperties

LEMMA ServedFinite ==
  ASSUME IsFiniteSet(Regs), NEW T \in SUBSET Regs
  PROVE  IsFiniteSet(T) /\ Cardinality(T) \in Nat /\ (Cardinality(T) = 0 <=> T = {})
  BY FS_Subset, FS_CardinalityType, FS_EmptySet

LEMMA NobodyServed ==
  ASSUME TypeOK, CountIsServed
  PROVE  Served \subseteq Regs /\ (count = 0 <=> Served = {})
<1>1. Served \subseteq Regs
  BY DEF TypeOK, Served
<1> QED
  BY <1>1, ServedFinite, NotifyAssumption DEF CountIsServed

LEMMA InitHolds == Init => IInv
<1> SUFFICES ASSUME Init PROVE IInv
  OBVIOUS
<1> USE NotifyAssumption DEF Init
<1>a. hasCcc \in BOOLEAN /\ changes \in 0..MaxChanges /\ waiting \in Seq(Regs)
  OBVIOUS
<1>1. TypeOK
  BY <1>a DEF TypeOK
<1>2. Served = {}
  BY DEF Served
<1>3. CountIsServed
  BY <1>2, FS_EmptySet DEF CountIsServed
<1> QED
  BY <1>1, <1>2, <1>3 DEF IInv, NeverAborts, EnabledWhileServed, Writes, Waits, Own, Stales

(* The device, the timer and the link do not touch what is on record.      *)
LEMMA TransportKeeps == IInv /\ TransportNext => IInv'
<1> SUFFICES ASSUME IInv, TransportNext PROVE IInv'
  OBVIOUS
<1> USE NotifyAssumption DEF IInv, TypeOK, regVars, chrcVars, svcVars
<1>s. Served' = Served /\ UNCHANGED <<chrcVars, regVars, svcVars, aborted>>
  BY DEF TransportNext, DeviceWrites, Timeout, LinkDrops, att_disconnect_cb, Served
<1>1. CountIsServed' /\ NeverAborts'
  BY <1>s DEF CountIsServed, NeverAborts
<1>2. Waits'
  BY <1>s DEF Waits, Own
<1>3. CASE DeviceWrites
  <2>1. TypeOK'
    BY <1>3 DEF DeviceWrites, Answers, CccWrite
  <2>2. Writes'
    BY <1>3 DEF DeviceWrites, Writes, Oldest
  <2>3. Stales' /\ EnabledWhileServed'
    <3>1. PICK f \in inFlight, answer \in {"ok", "error"} :
            /\ Oldest(f) /\ f.answer = "none"
            /\ inFlight' = (inFlight \ {f}) \cup {[f EXCEPT !.answer = answer]}
            /\ server' = IF answer = "ok" THEN f.write.enable ELSE server
      BY <1>3 DEF DeviceWrites
    <3>2. hasCcc => Served = {}
      BY <3>1, NobodyServed DEF Oldest, Stales, Writes
    <3>3. EnabledWhileServed'
      BY <3>2, <1>s DEF EnabledWhileServed
    <3>4. Stales'
      BY <3>1, <1>s DEF Stales, Oldest
    <3> QED
      BY <3>3, <3>4
  <2> QED
    BY <1>1, <1>2, <2>1, <2>2, <2>3
<1>4. CASE Timeout \/ LinkDrops \/ att_disconnect_cb
  <2>1. link' # "up" /\ inFlight' \subseteq inFlight /\ server' = server
        /\ link' \in {"shut", "gone"} /\ (link' = "gone" => inFlight' = {})
    BY <1>4 DEF Timeout, LinkDrops, att_disconnect_cb
  <2>2. TypeOK' /\ Writes' /\ Stales' /\ EnabledWhileServed'
    BY <2>1, <1>s DEF Writes, Stales, EnabledWhileServed
  <2> QED
    BY <1>1, <1>2, <2>2
<1> QED
  BY <1>3, <1>4 DEF TransportNext
---------------------------------------------------------------------------
(* What a service that changes leaves behind is stale.                     *)
LEMMA ChangeKeeps == IInv /\ (ChangeNext \/ StaleCallback) => IInv'
<1> SUFFICES ASSUME IInv, ChangeNext \/ StaleCallback PROVE IInv'
  OBVIOUS
<1> USE NotifyAssumption DEF IInv, TypeOK, regVars, chrcVars, svcVars
<1>1. CASE process_service_changed
  <2> USE <1>1 DEF process_service_changed, ChrcRemoved
  <2>1. Served' = {}
    BY DEF Served
  <2>2. CountIsServed' /\ EnabledWhileServed'
    BY <2>1, FS_EmptySet DEF CountIsServed, EnabledWhileServed
  <2>3. NeverAborts'
    BY DEF NeverAborts, Waits, Writes, Alive
  <2>5. /\ inFlight' \subseteq [write : CccWrite, answer : Answers, stale : BOOLEAN]
        /\ \A f \in inFlight' : f.stale
        /\ inFlight' # {} => overtaken'
    <3>1. inFlight' = {[f EXCEPT !.stale = TRUE] : f \in inFlight}
      OBVIOUS
    <3>2. \A f \in inFlight : /\ [f EXCEPT !.stale = TRUE].stale
                              /\ [f EXCEPT !.stale = TRUE]
                                   \in [write : CccWrite, answer : Answers, stale : BOOLEAN]
      OBVIOUS
    <3>3. inFlight # {} => overtaken'
      OBVIOUS
    <3> QED
      BY <3>1, <3>2, <3>3
  <2>4. Writes' /\ Waits' /\ Stales'
    <3>1. Writes'
      BY <2>5 DEF Writes
    <3>2. Waits'
      BY DEF Waits, Own
    <3>3. Stales'
      BY <2>5 DEF Stales
    <3> QED
      BY <3>1, <3>2, <3>3
  <2>6. TypeOK'
    <3>1. changes' \in 0..MaxChanges /\ waiting' \in Seq(Regs)
      OBVIOUS
    <3>2. overtaken' \in BOOLEAN
      OBVIOUS
    <3>3. aborted' \in {"no", "assert", "freed"} /\ server' \in BOOLEAN
      OBVIOUS
    <3> QED
      BY <2>5, <3>1, <3>2, <3>3
  <2> QED
    BY <2>2, <2>3, <2>4, <2>6
<1>2. CASE service_changed_complete
  <2> USE <1>2 DEF service_changed_complete
  <2>1. Served' = Served
    BY DEF Served
  <2> QED
    BY <2>1 DEF CountIsServed, EnabledWhileServed, NeverAborts, Writes, Waits, Own, Stales
<1>3. CASE StaleCallback
  <2> USE <1>3 DEF StaleCallback
  <2>1. Served' = Served
    BY DEF Served
  <2> QED
    BY <2>1 DEF CountIsServed, EnabledWhileServed, NeverAborts, Writes, Waits, Own, Stales
<1> QED
  BY <1>1, <1>2, <1>3 DEF ChangeNext

(* A registration that is made waits, is served, or writes.                *)
LEMMA RegisterKeeps ==
  ASSUME ~RegisterLate, IInv, NEW r \in Regs, bt_gatt_client_register_notify(r)
  PROVE  IInv'
<1> USE NotifyAssumption DEF IInv, TypeOK, regVars, chrcVars, svcVars, bt_gatt_client_register_notify
<1>1. /\ Alive /\ link # "gone" /\ r \notin asked /\ r \notin listed
      /\ listed' = listed \cup {r} /\ asked' = asked \cup {r}
      /\ UNCHANGED <<hasCcc, server, link, svcVars, aborted>>
      /\ NeverAborts'
  BY DEF NeverAborts, Alive
<1>2. Served \subseteq Regs /\ r \notin Served /\ (count = 0 <=> Served = {})
  BY <1>1, NobodyServed DEF Served
<1>3. CASE cccWrite # {} /\ waiting' = Append(waiting, r) /\ UNCHANGED <<told, count, cccWrite, inFlight>>
  <2> DEFINE n == Len(waiting)
  <2>1. Served = {} /\ Served' = {} /\ count = 0
    BY <1>1, <1>2, <1>3 DEF Writes, Served, Waits
  <2>2. CountIsServed' /\ EnabledWhileServed'
    BY <2>1, <1>3, FS_EmptySet DEF CountIsServed, EnabledWhileServed
  <2>3. Writes' /\ Stales'
    BY <1>1, <1>3 DEF Writes, Stales
  <2>4. \E w \in cccWrite : w.enable
    BY <1>1, <1>3 DEF Disabling
  <2>5. /\ n \in Nat /\ DOMAIN waiting = 1..n /\ waiting' \in Seq(Regs)
        /\ DOMAIN waiting' = 1..(n + 1) /\ waiting'[n + 1] = r
        /\ \A i \in 1..n : waiting'[i] = waiting[i]
    BY <1>3
  <2>6. ~Own(r) /\ \A i \in 1..n : waiting[i] # r
    BY <1>1, <2>5 DEF Waits, Own
  <2>7. Waits'
    BY <1>1, <1>3, <2>4, <2>5, <2>6 DEF Waits, Own
  <2>8. TypeOK'
    BY <1>1, <1>3, <2>5
  <2> QED
    BY <1>1, <2>2, <2>3, <2>7, <2>8
<1>4. CASE cccWrite = {} /\ count' = count + 1 /\ Tell({r}, "ok")
           /\ (count > 0 \/ ~hasCcc) /\ UNCHANGED <<waiting, cccWrite, inFlight>>
  <2>1. Served' = Served \cup {r}
    BY <1>1, <1>4 DEF Served, Tell
  <2>2. CountIsServed'
    BY <1>2, <1>4, <2>1, ServedFinite, FS_AddElement DEF CountIsServed
  <2>3. EnabledWhileServed'
    BY <1>1, <1>2, <1>4 DEF EnabledWhileServed
  <2>4. Writes' /\ Stales'
    BY <1>1, <1>4 DEF Writes, Stales
  <2>5. Waits'
    BY <1>1, <1>4 DEF Waits, Own, Tell
  <2>6. TypeOK'
    BY <1>1, <1>4 DEF Tell
  <2> QED
    BY <1>1, <2>2, <2>3, <2>4, <2>5, <2>6
<1>5. CASE cccWrite = {} /\ count = 0 /\ hasCcc /\ notify_data_write_ccc(r, TRUE, inFlight)
           /\ UNCHANGED <<told, count, waiting>>
  <2>1. Served = {} /\ Served' = {}
    BY <1>1, <1>2, <1>5 DEF Served, Waits
  <2>2. CountIsServed' /\ EnabledWhileServed'
    BY <2>1, <1>5, FS_EmptySet DEF CountIsServed, EnabledWhileServed
  <2> DEFINE write == [by |-> r, enable |-> TRUE]
             fresh == [write |-> write, answer |-> "none", stale |-> FALSE]
  <2>3. /\ cccWrite' = {write} /\ inFlight' = inFlight \cup {fresh}
        /\ write \in CccWrite /\ fresh \in [write : CccWrite, answer : Answers, stale : BOOLEAN]
        /\ \A f \in inFlight : f.stale
    BY <1>1, <1>5 DEF notify_data_write_ccc, CccWrite, Answers, Writes
  <2>4. Writes' /\ Stales'
    <3>0. fresh.write = write /\ ~fresh.stale /\ fresh \in inFlight'
      BY <2>3
    <3>1. Writes'
      <4> HIDE DEF write, fresh
      <4> QED
        BY <1>1, <1>5, <2>3, <3>0 DEF Writes
    <3>2. Stales'
      BY <1>1, <1>5, <2>3 DEF Stales
    <3> QED
      BY <3>1, <3>2
  <2>5. Waits'
    BY <1>1, <1>5, <2>3 DEF Waits, Own
  <2>6. TypeOK'
    BY <1>1, <1>5, <2>3
  <2> QED
    BY <1>1, <2>2, <2>4, <2>5, <2>6
<1> QED
  BY <1>3, <1>4, <1>5 DEF Enter, RegisterOverWrite
(* Who was told is served, so the assertions hold; the last one writes.    *)
LEMMA UnregisterKeeps ==
  ASSUME ~UnregisterEarly, IInv, NEW r \in Regs, bt_gatt_client_unregister_notify(r)
  PROVE  IInv'
<1> USE NotifyAssumption DEF IInv, TypeOK, regVars, chrcVars, svcVars, bt_gatt_client_unregister_notify
<1>1. r \in Served /\ count > 0 /\ cccWrite = {} /\ waiting = <<>>
  <2>1. r \in Served
    BY DEF Served
  <2>2. count > 0
    BY <2>1, NobodyServed
  <2> QED
    BY <2>1, <2>2 DEF Writes, Waits
<1>2. Leave(r) /\ aborted' = "no" /\ aborted = "no"
      /\ UNCHANGED <<hasCcc, asked, told, waiting, server, link, svcVars>>
      /\ listed' = listed \ {r}
  BY <1>1 DEF assert, Alive
<1>3. Served' = Served \ {r} /\ count' = count - 1 /\ count' \in Nat
  BY <1>1, <1>2 DEF Served, Leave
<1>4. CountIsServed'
  BY <1>1, <1>3, NobodyServed, ServedFinite, FS_RemoveElement DEF CountIsServed
<1>5. EnabledWhileServed' /\ NeverAborts'
  BY <1>1, <1>2, <1>3 DEF EnabledWhileServed, NeverAborts
<1>6. CASE UNCHANGED <<cccWrite, inFlight>>
  <2>1. Writes'
    BY <1>1, <1>2, <1>6 DEF Writes
  <2>2. Stales'
    BY <1>1, <1>2, <1>3, <1>6 DEF Stales
  <2>3. Waits'
    BY <1>1, <1>2, <1>6 DEF Waits, Own
  <2>4. TypeOK'
    BY <1>2, <1>3, <1>6
  <2> QED
    BY <1>4, <1>5, <2>1, <2>2, <2>3, <2>4
<1>7. CASE count' = 0 /\ hasCcc /\ notify_data_write_ccc(r, FALSE, inFlight)
  <2>1. CASE link = "gone"
    BY <1>1, <1>6, <1>7, <2>1 DEF notify_data_write_ccc
  <2>2. CASE link # "gone"
    <3> DEFINE write == [by |-> r, enable |-> FALSE]
               fresh == [write |-> write, answer |-> "none", stale |-> FALSE]
    <3>1. /\ cccWrite' = {write} /\ inFlight' = inFlight \cup {fresh}
          /\ write \in CccWrite /\ ~write.enable
          /\ fresh \in [write : CccWrite, answer : Answers, stale : BOOLEAN]
          /\ fresh.write = write /\ ~fresh.stale /\ fresh \in inFlight'
          /\ fresh.answer = "none"
          /\ \A f \in inFlight : f.stale
      BY <1>1, <1>7, <2>2 DEF notify_data_write_ccc, CccWrite, Answers, Writes
    <3> HIDE DEF write, fresh
    <3>2. Writes'
      BY <1>2, <1>7, <2>2, <3>1 DEF Writes
    <3>3. Stales'
      BY <1>2, <1>7, <3>1 DEF Stales
    <3>4. Waits'
      BY <1>1, <1>2, <3>1 DEF Waits, Own
    <3>5. TypeOK'
      BY <1>2, <1>3, <3>1
    <3> QED
      BY <1>4, <1>5, <3>2, <3>3, <3>4, <3>5
  <2> QED
    BY <2>1, <2>2
<1> QED
  BY <1>2, <1>6, <1>7 DEF Leave

(* The write that is called back is the one on record, and the only one in *)
(* the transport.                                                          *)
LEMMA CalledBack ==
  ASSUME IInv, NEW f \in inFlight, Callback(f)
  PROVE  /\ cccWrite = {f.write} /\ f.write \in CccWrite /\ inFlight \ {f} = {}
         /\ count = 0 /\ Served = {} /\ link # "gone"
         /\ aborted = "no" /\ aborted' = "no" /\ NeverAborts'
         /\ UNCHANGED <<hasCcc, asked, server, link, svcVars>>
<1> USE DEF IInv, TypeOK, Callback
<1>1. cccWrite = {f.write} /\ f.write \in CccWrite /\ count = 0
  BY DEF Writes
<1>2. inFlight \ {f} = {}
  BY DEF Oldest
<1>3. link # "gone"
  BY DEF Writes
<1>4. Served = {}
  BY <1>1, NobodyServed
<1>5. aborted = "no" /\ aborted' = "no"
  BY <1>1 DEF Alive, assert
<1> QED
  BY <1>1, <1>2, <1>3, <1>4, <1>5 DEF NeverAborts

(* Nobody is on record any more, and nobody waits.                         *)
LEMMA WriteOver ==
  ASSUME IInv, NEW f \in inFlight, Callback(f),
         cccWrite' = {}, inFlight' = {}, waiting' = <<>>,
         listed' \subseteq listed, told' \in [Regs -> {"no", "ok", "failed"}],
         count' = Cardinality(Served'),
         \A r \in listed' : told'[r] = "ok",
         \A r \in Regs \ asked : told'[r] = told[r],
         EnabledWhileServed'
  PROVE  IInv'
<1>1. Served' \in SUBSET Regs /\ count' \in Nat
  <2>1. Served' \in SUBSET Regs
    BY DEF Served, IInv, TypeOK
  <2> QED
    BY <2>1, ServedFinite, NotifyAssumption
<1>2. TypeOK'
  BY CalledBack, <1>1 DEF IInv, TypeOK, svcVars
<1>3. Writes' /\ Stales' /\ CountIsServed'
  BY CalledBack DEF Writes, Stales, CountIsServed
<1>4. Waits'
  BY CalledBack DEF Waits, Own, IInv
<1> QED
  BY CalledBack, <1>2, <1>3, <1>4 DEF IInv
(* Success is everybody's who waits.                                       *)
LEMMA SuccessKeeps ==
  ASSUME IInv, NEW f \in inFlight, Callback(f),
         f.write.enable, f.answer = "ok", EnableSucceeds(f.write.by, inFlight \ {f})
  PROVE  IInv'
<1> DEFINE r == f.write.by
<1> USE DEF IInv, TypeOK, EnableSucceeds, Tell
<1>1. /\ cccWrite = {f.write} /\ inFlight' = {} /\ count = 0 /\ Served = {}
      /\ r \in Regs /\ r \in listed /\ Own(r)
      /\ UNCHANGED <<listed, asked, hasCcc, server, link>>
  BY CalledBack DEF Waits, Own, CccWrite
<1>2. /\ r \notin Range1(waiting) /\ Range1(waiting) \subseteq listed
      /\ IsFiniteSet(Range1(waiting)) /\ Cardinality(Range1(waiting)) = Len(waiting)
  <2>1. \A i, j \in DOMAIN waiting : waiting[i] = waiting[j] => i = j
    BY DEF Waits
  <2>2. IsFiniteSet(Range1(waiting)) /\ Cardinality(Range1(waiting)) = Len(waiting)
    BY <2>1, DistinctCount
  <2>3. r \notin Range1(waiting) /\ Range1(waiting) \subseteq listed
    BY <1>1 DEF Waits, Range1
  <2> QED
    BY <2>2, <2>3
<1>3. listed = {r} \cup Range1(waiting)
  <2>1. ASSUME NEW x \in listed PROVE x \in {r} \cup Range1(waiting)
    BY <1>1, <2>1 DEF Waits, Own, Range1, Served
  <2> QED
    BY <1>1, <1>2, <2>1
<1>4. told' \in [Regs -> {"no", "ok", "failed"}] /\ \A x \in listed : told'[x] = "ok"
  BY <1>3
<1>5. Served' = Range1(waiting) \cup {r}
  BY <1>1, <1>3, <1>4 DEF Served
<1>6. count' = Cardinality(Served')
  <2>1. Cardinality(Served') = Len(waiting) + 1
    BY <1>2, <1>5, FS_AddElement
  <2> QED
    BY <1>1, <2>1
<1>7. server /\ EnabledWhileServed'
  <2>1. ~f.stale
    BY DEF Callback
  <2> QED
    BY <1>1, <2>1 DEF EnabledWhileServed, Stales
<1>8. \A x \in Regs \ asked : told'[x] = told[x]
  BY <1>1, <1>3
<1> QED
  BY <1>1, <1>4, <1>6, <1>7, <1>8, WriteOver

(* A failure is one's own; the next one that waits writes.                 *)
LEMMA FailureKeeps ==
  ASSUME IInv, NEW f \in inFlight, Callback(f), f.write.enable, NEW what \in {"ok", "failed"},
         EnableFails(f.write.by, what, inFlight \ {f})
  PROVE  IInv'
<1> DEFINE r == f.write.by
<1> USE DEF IInv, TypeOK, EnableFails, Tell
<1>1. /\ cccWrite = {f.write} /\ count = 0 /\ count' = 0 /\ Served = {} /\ link # "gone"
      /\ r \in Regs /\ r \in listed /\ Own(r) /\ r \in asked
      /\ UNCHANGED <<asked, hasCcc, server, link, svcVars>>
      /\ inFlight \ {f} = {} /\ NeverAborts' /\ aborted' = "no"
  BY CalledBack DEF Waits, Own, CccWrite
<1>2. /\ listed' = listed \ {r} /\ told' \in [Regs -> {"no", "ok", "failed"}]
      /\ \A x \in Regs \ {r} : told'[x] = told[x]
  OBVIOUS
<1>3. Served' = {}
  BY <1>1, <1>2 DEF Served
<1>4. CountIsServed' /\ EnabledWhileServed'
  BY <1>1, <1>3, FS_EmptySet DEF CountIsServed, EnabledWhileServed
<1>5. CASE waiting = <<>>
  <2>1. cccWrite' = {} /\ inFlight' = {} /\ waiting' = <<>>
    BY <1>1, <1>5
  <2>2. \A x \in listed' : told'[x] = "ok"
    BY <1>1, <1>2, <1>5 DEF Waits, Own
  <2> QED
    BY <1>1, <1>2, <1>4, <2>1, <2>2, WriteOver DEF CountIsServed
<1>6. CASE waiting # <<>>
  <2> DEFINE next == Head(waiting)
             write == [by |-> next, enable |-> TRUE]
             fresh == [write |-> write, answer |-> "none", stale |-> FALSE]
             n == Len(waiting)
  <2>1. /\ n \in Nat /\ n > 0 /\ DOMAIN waiting = 1..n /\ next = waiting[1] /\ next \in Regs
        /\ waiting' = Tail(waiting) /\ waiting' \in Seq(Regs) /\ DOMAIN waiting' = 1..(n - 1)
        /\ \A i \in 1..(n - 1) : waiting'[i] = waiting[i + 1]
    <3>1. waiting \in Seq(Regs) /\ waiting' = Tail(waiting)
      BY <1>6
    <3> QED
      BY <1>6, <3>1, TailOf
  <2>2. /\ next \in listed /\ next # r /\ \A i \in 1..(n - 1) : waiting'[i] # next
        /\ \A i \in 1..(n - 1) : waiting'[i] \in listed /\ waiting'[i] # r
    BY <1>1, <2>1 DEF Waits
  <2>3. notify_data_write_ccc(next, TRUE, {})
    BY <1>1, <1>6
  <2>4. /\ cccWrite' = {write} /\ inFlight' = {fresh} /\ write \in CccWrite
        /\ write.enable /\ write.by = next
        /\ fresh \in [write : CccWrite, answer : Answers, stale : BOOLEAN]
        /\ fresh.write = write /\ ~fresh.stale /\ fresh.answer = "none"
    BY <1>1, <2>1, <2>3 DEF notify_data_write_ccc, CccWrite, Answers
  <2>5. \A i, j \in 1..(n - 1) : waiting'[i] = waiting'[j] => i = j
    BY <2>1 DEF Waits
  <2>6. \A x \in listed' : told'[x] = "ok" \/ x = next \/ \E i \in 1..(n - 1) : waiting'[i] = x
    <3> SUFFICES ASSUME NEW x \in listed', told'[x] # "ok", x # next
                 PROVE  \E i \in 1..(n - 1) : waiting'[i] = x
      OBVIOUS
    <3>1. x # r /\ x \in listed /\ told[x] # "ok"
      BY <1>2
    <3>2. PICK i \in 1..n : waiting[i] = x
      BY <1>1, <2>1, <3>1 DEF Waits, Own
    <3>3. i # 1 /\ i - 1 \in 1..(n - 1) /\ (i - 1) + 1 = i
      BY <2>1, <3>2
    <3> QED
      BY <2>1, <3>2, <3>3
  <2> HIDE DEF write, fresh, next, n, r
  <2>7. Writes' /\ Stales'
    BY <1>1, <2>4 DEF Writes, Stales
  <2>8. /\ \A i \in DOMAIN waiting' : waiting'[i] \in listed'
        /\ next \in listed' /\ \A x \in Regs \ asked' : told'[x] = "no"
    BY <1>1, <1>2, <2>1, <2>2 DEF Waits
  <2>9. Waits'
    <3>1. \A x : (\E w \in cccWrite' : w.enable /\ w.by = x) <=> x = next
      BY <2>4
    <3>2. \A i \in DOMAIN waiting' :
            waiting'[i] \in listed' /\ ~(\E w \in cccWrite' : w.enable /\ w.by = waiting'[i])
      BY <2>1, <2>2, <2>8, <3>1
    <3>3. \A x \in listed' :
            \/ told'[x] = "ok"
            \/ \E i \in DOMAIN waiting' : waiting'[i] = x
            \/ \E w \in cccWrite' : w.enable /\ w.by = x
      BY <2>1, <2>6, <3>1
    <3>4. \A i, j \in DOMAIN waiting' : waiting'[i] = waiting'[j] => i = j
      BY <2>1, <2>5
    <3>5. /\ waiting' # <<>> => \E w \in cccWrite' : w.enable
          /\ \A w \in cccWrite' : w.enable => w.by \in listed'
      BY <2>4, <2>8
    <3> QED
      BY <2>8, <3>2, <3>3, <3>4, <3>5 DEF Waits, Own
  <2>10. TypeOK'
    BY <1>1, <1>2, <2>1, <2>4 DEF svcVars
  <2> QED
    BY <1>1, <1>4, <2>7, <2>9, <2>10
<1> QED
  BY <1>5, <1>6

(* Nobody waits behind a disabling write, for nobody registers then.       *)
LEMMA DisabledKeeps ==
  ASSUME IInv, NEW f \in inFlight, Callback(f), ~f.write.enable,
         Disabled(f.write.by, inFlight \ {f})
  PROVE  IInv'
<1>1. cccWrite = {f.write} /\ inFlight \ {f} = {} /\ waiting = <<>> /\ count = 0 /\ Served = {}
  BY CalledBack DEF Waits, IInv
<1>2. cccWrite' = {} /\ inFlight' = {} /\ waiting' = <<>> /\ UNCHANGED <<listed, told, count>>
  BY <1>1 DEF Disabled
<1>3. Served' = {}
  BY <1>1, <1>2 DEF Served
<1>4. \A r \in listed' : told'[r] = "ok"
  BY <1>1, <1>2 DEF Waits, Own, IInv
<1> QED
  BY <1>1, <1>2, <1>3, <1>4, WriteOver, FS_EmptySet DEF IInv, TypeOK, EnabledWhileServed
---------------------------------------------------------------------------
LEMMA StepKeeps ==
  ASSUME ~UnregisterEarly, ~RegisterLate
  PROVE  IInv /\ [Next]_vars => IInv'
<1> SUFFICES ASSUME IInv, [Next]_vars PROVE IInv'
  OBVIOUS
<1>1. CASE UNCHANGED vars
  BY <1>1 DEF vars, regVars, chrcVars, svcVars, IInv, TypeOK, NeverAborts, CountIsServed,
    EnabledWhileServed, Served, Writes, Waits, Own, Stales
<1>2. ASSUME NEW r \in Regs, bt_gatt_client_register_notify(r) PROVE IInv'
  BY <1>2, RegisterKeeps
<1>3. ASSUME NEW r \in Regs, bt_gatt_client_unregister_notify(r) PROVE IInv'
  BY <1>3, UnregisterKeeps
<1>4. CASE enable_ccc_callback
  <2>1. PICK f \in inFlight : f.write.enable /\ Handed(f) /\ Callback(f) /\
          IF f.answer = "ok"
          THEN EnableSucceeds(f.write.by, inFlight \ {f})
          ELSE EnableFails(f.write.by, IF f.answer = "none" THEN "ok" ELSE "failed", inFlight \ {f})
    BY <1>4 DEF enable_ccc_callback
  <2> DEFINE what == IF f.answer = "none" THEN "ok" ELSE "failed"
  <2>2. CASE f.answer = "ok"
    BY <2>1, <2>2, SuccessKeeps
  <2>3. CASE f.answer # "ok"
    <3>1. what \in {"ok", "failed"} /\ EnableFails(f.write.by, what, inFlight \ {f})
      BY <2>1, <2>3
    <3> HIDE DEF what
    <3> QED
      BY <2>1, <3>1, FailureKeeps
  <2> QED
    BY <2>2, <2>3
<1>5. CASE disable_ccc_callback
  BY <1>5, DisabledKeeps DEF disable_ccc_callback
<1>6. CASE StaleCallback \/ ChangeNext
  BY <1>6, ChangeKeeps
<1>7. CASE TransportNext
  BY <1>7, TransportKeeps
<1> QED
  BY <1>1, <1>2, <1>3, <1>4, <1>5, <1>6, <1>7 DEF Next, CallbackNext

(* The invariant holds for callers that wait until they were told, and     *)
(* that do not register while notifications are being disabled.            *)
THEOREM Inductive ==
  ASSUME ~UnregisterEarly, ~RegisterLate
  PROVE  Spec => []IInv
<1>1. Init => IInv
  BY InitHolds
<1>2. IInv /\ [Next]_vars => IInv'
  BY StepKeeps
<1> QED
  BY <1>1, <1>2, PTL DEF Spec

(* The state of the client and of the transport is of its types, with one  *)
(* write in the transport that is not stale.                               *)
THEOREM TypeCorrect ==
  ASSUME ~UnregisterEarly, ~RegisterLate
  PROVE  Spec => []TypeOK
<1>1. IInv => TypeOK
  BY DEF IInv
<1> QED
  BY <1>1, Inductive, PTL

(* No assertion of the client fails, and memory is used after it was freed *)
(* only when a change of the service overtook a CCC write.                 *)
THEOREM AssertionsHold ==
  ASSUME ~UnregisterEarly, ~RegisterLate
  PROVE  Spec => []NeverAborts
<1>1. IInv => NeverAborts
  BY DEF IInv
<1> QED
  BY <1>1, Inductive, PTL

(* Notifications are enabled on the device for all who were told so.       *)
THEOREM ServedHaveNotifications ==
  ASSUME ~UnregisterEarly, ~RegisterLate
  PROVE  Spec => []EnabledWhileServed
<1>1. IInv => EnabledWhileServed
  BY DEF IInv
<1> QED
  BY <1>1, Inductive, PTL

(* notify_count is the number of registrations that are served.            *)
THEOREM CountCorrect ==
  ASSUME ~UnregisterEarly, ~RegisterLate
  PROVE  Spec => []CountIsServed
<1>1. IInv => CountIsServed
  BY DEF IInv
<1> QED
  BY <1>1, Inductive, PTL

(* A registration is served, or waits for a write that is under way, or    *)
(* the write is its own.                                                   *)
THEOREM NoneForgotten ==
  ASSUME ~UnregisterEarly, ~RegisterLate
  PROVE  Spec => []NobodyForgotten
<1>1. IInv => NobodyForgotten
  BY DEF IInv, TypeOK, Waits, Own, NobodyForgotten, Range1
<1> QED
  BY <1>1, Inductive, PTL
===========================================================================
