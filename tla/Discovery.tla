---------------------------- MODULE Discovery ----------------------------
(***************************************************************************)
(* How the GATT client fills its database, and keeps it up to date:        *)
(* bluez/gatt-client.c with the paging of bluez/gatt-helpers.c and the     *)
(* services of bluez/gatt-db.c.  The first discovery goes over all         *)
(* handles; each "Service Changed" indication makes one over its range.    *)
(*                                                                         *)
(* An attribute is its kind: UUIDs, properties and values are left out.    *)
(* The device answers a request in one step, from its table of that        *)
(* moment.                                                                 *)
(***************************************************************************)
EXTENDS Naturals, Sequences, FiniteSets, SequencesExt

CONSTANTS
  Tables,     \* the attribute tables the device may have
  MaxHandle,  \* the last handle, 0xffff
  MaxChanges, \* how often the device changes its table
  Wide        \* the range of a change may have Service Changed itself in it

VARIABLES
  dev,           \* the device's services
  changes,       \* changes so far
  enabled,       \* indications are enabled on the device
  indications,   \* those the client has not read yet
  link,
  db,            \* services of the client's database
  op,            \* struct discovery_op
  proc,          \* discovery_req or mtu_req_id: empty or one
  inInit, ready, inSvcChngd, svcChngdQueue,
  listening,     \* value handles in notify_list
  ccc,           \* write that enables indications: "no", "init", "again"
  told,          \* what the ready callback was called with
  failed         \* a discovery has failed or a request was refused

deviceVars == <<dev, changes, enabled, indications>>
clientVars == <<inInit, ready, inSvcChngd, svcChngdQueue, listening, ccc, told, failed>>
vars == <<deviceVars, link, db, op, proc, clientVars>>

Handles == 1..MaxHandle
Kinds   == {"svc", "inc", "chr", "val", "scv", "dsc"}
HandleRange  == [start : Handles, end : Handles]

Overlap(s, r) == s.start <= r.end /\ r.start <= s.end

\* What the attributes of a service follow.  A gap is a handle without one.
WellFormed(l) ==
  \A i \in DOMAIN l :
    /\ (l[i] = "svc") = (i = 1)
    /\ l[i] = "inc" => l[i - 1] \in {"svc", "inc", "gap"}
    /\ l[i] = "chr" => i < Len(l) /\ l[i + 1] \in {"val", "scv"}
    /\ l[i] \in {"val", "scv"} => l[i - 1] = "chr"
    /\ l[i] = "dsc" => l[i - 1] \in {"val", "scv", "dsc", "gap"}

ConformingService(s) ==
  /\ s.start \in Handles /\ s.end \in s.start..MaxHandle
  /\ s.primary \in BOOLEAN /\ s.target \in Nat
  /\ s.layout \in Seq(Kinds \cup {"gap"}) /\ Len(s.layout) \in 1..(s.end - s.start + 1)
  /\ WellFormed(s.layout) /\ Last(s.layout) # "gap"

ASSUME TablesAssumption ==
  /\ MaxHandle \in Nat \ {0} /\ MaxChanges \in Nat /\ Wide \in BOOLEAN
  /\ \A table \in Tables :
       /\ \A s \in table : ConformingService(s)
       /\ \A s, t \in table : Overlap(s, t) => s = t

NewOp(start, end, init) ==
  [start |-> start, end |-> end, init |-> init, missed |-> FALSE,
   pending |-> <<>>, tmp |-> <<>>, chrcs |-> <<>>, cur |-> 0]

Procedure(kind, lo, hi) == {[kind |-> kind, from |-> lo, to |-> hi, found |-> <<>>]}

Init ==
  /\ dev \in Tables /\ changes = 0 /\ enabled = FALSE /\ indications = <<>>
  /\ link = "up" /\ db = {}
  /\ op = NewOp(1, MaxHandle, TRUE) /\ proc = Procedure("mtu", 1, MaxHandle)
  /\ inInit = TRUE /\ ready = FALSE /\ inSvcChngd = FALSE /\ svcChngdQueue = <<>>
  /\ listening = {} /\ ccc = "no" /\ told = "no" /\ failed = FALSE

---------------------------------------------------------------------------
(* The database: a service has room for the handles start..end, and its    *)
(* attributes are added one behind the other.                              *)

Service(d, start) == CHOOSE s \in d : s.start = start
End(d, start) == Service(d, start).end

Clash(d, lo, hi) == \E s \in d : lo \in s.start..s.end \/ hi \in s.start..s.end

gatt_db_clear_range(d, lo, hi) == {s \in d : ~Overlap(s, [start |-> lo, end |-> hi])}

gatt_db_insert_service(d, f, primary) ==
  d \cup {[start |-> f.at, end |-> f.to, primary |-> primary, attrs |-> <<"svc">>, active |-> FALSE]}

InsertAll(d, found, primary) ==
  d \cup UNION {gatt_db_insert_service({}, found[i], primary) : i \in DOMAIN found}

Replace(d, start, s) == (d \ {Service(d, start)}) \cup {s}

Extended(d, start, kinds) ==
  Replace(d, start, [Service(d, start) EXCEPT !.attrs = @ \o kinds])

gatt_db_service_set_active(d, start) ==
  Replace(d, start, [Service(d, start) EXCEPT !.active = TRUE])

\* Attributes are expected behind those the service has, and must fit.
Expected(s, at, i) == at = s.start + Len(s.attrs) + i - 1 /\ at <= s.end

\* Service Changed among the active services: the handles of its value.
ServiceChangedIn(d, lo, hi) ==
  {h \in lo..hi : \E s \in d : s.active /\ h - s.start + 1 \in DOMAIN s.attrs
                              /\ s.attrs[h - s.start + 1] = "scv"}

---------------------------------------------------------------------------
(* The end of a discovery.  The database is cleared of what it was about   *)
(* when it has failed, or found nothing.                                   *)

Remaining(o, d, outcome) ==
  IF outcome = "found" THEN d ELSE gatt_db_clear_range(d, o.start, o.end)

MarkFailed(o, outcome) == failed' = (failed \/ o.missed \/ outcome = "failed")

init_complete(o, d, outcome) ==
  LET sc == ServiceChangedIn(d, 1, MaxHandle) IN
  /\ db' = Remaining(o, d, outcome) /\ op' = o /\ proc' = {}
  /\ inInit' = FALSE
  /\ \/ /\ outcome # "found"
        /\ told' = "failed" /\ UNCHANGED <<ready, listening, ccc>>
     \/ /\ outcome = "found" /\ sc = {}
        /\ told' = "ok" /\ ready' = TRUE /\ UNCHANGED <<listening, ccc>>
     \/ /\ outcome = "found" /\ sc # {}
        /\ ccc' = "init" /\ listening' = sc /\ UNCHANGED <<ready, told>>
  /\ MarkFailed(o, outcome)
  /\ UNCHANGED <<inSvcChngd, svcChngdQueue>>

(* Handlers in the range are dropped, services in it are removed to be     *)
(* discovered again.                                                       *)
process_service_changed(d, r) ==
  /\ listening' = listening \ (r.start..r.end)
  /\ db' = gatt_db_clear_range(d, r.start, r.end)
  /\ op' = NewOp(r.start, r.end, FALSE)
  /\ proc' = Procedure("primary", r.start, r.end)
  /\ inSvcChngd' = TRUE

\* Mutant: queued events are left in the queue.
LeaveQueue(o, d, outcome) ==
  /\ MarkFailed(o, outcome)
  /\ db' = Remaining(o, d, outcome) /\ op' = o /\ proc' = {} /\ inSvcChngd' = FALSE
  /\ UNCHANGED <<inInit, ready, told, svcChngdQueue, listening, ccc>>

service_changed_complete(o, d, outcome) ==
  /\ MarkFailed(o, outcome)
  /\ \/ /\ svcChngdQueue # <<>>
        /\ process_service_changed(Remaining(o, d, outcome), Head(svcChngdQueue))
        /\ svcChngdQueue' = Tail(svcChngdQueue)
        /\ UNCHANGED ccc
     \/ LET sc == ServiceChangedIn(db', o.start, o.end) IN
        /\ svcChngdQueue = <<>>
        /\ db' = Remaining(o, d, outcome) /\ op' = o /\ proc' = {} /\ inSvcChngd' = FALSE
        /\ IF sc = {} THEN UNCHANGED <<listening, ccc>>
                      ELSE listening' = listening \cup sc /\ ccc' = "again"
        /\ UNCHANGED svcChngdQueue
  /\ UNCHANGED <<inInit, ready, told>>

Complete(o, d, outcome) ==
  IF o.init THEN init_complete(o, d, outcome) ELSE service_changed_complete(o, d, outcome)

---------------------------------------------------------------------------
(* The steps of a discovery, from an operation and a database.             *)

Ask(o, d, kind, lo, hi) ==
  op' = o /\ db' = d /\ proc' = Procedure(kind, lo, hi) /\ UNCHANGED clientVars

\* Services of one handle are passed over.
FirstToAsk(d, starts) == SelectInSeq(starts, LAMBDA s : End(d, s) > s)

\* Mutant: the last service is not the end.
NextServiceOnly(o, d) ==
  LET i  == FirstToAsk(d, o.pending)
      s  == o.pending[i]
      d1 == gatt_db_service_set_active(d, o.cur)
  IN IF i = 0
     THEN op' = o /\ db' = d1 /\ proc' = {} /\ UNCHANGED clientVars
     ELSE Ask([o EXCEPT !.pending = SubSeq(@, i + 1, Len(@)), !.cur = s], d1, "chr", s, End(d, s))

NextService(o, d) ==
  LET i  == FirstToAsk(d, o.pending)
      s  == o.pending[i]
      d1 == gatt_db_service_set_active(d, o.cur)
  IN IF i = 0
     THEN Complete(o, d1, "found")
     ELSE Ask([o EXCEPT !.pending = SubSeq(@, i + 1, Len(@)), !.cur = s], d1, "chr", s, End(d, s))

\* Mutant: the handles of descriptors are counted from the value.
RoomFromValue(c) == c.value <= c.end

\* desc_start > end_handle: no handle for a descriptor.
HasRoom(c) == c.value < c.end
FirstWithRoom(chrcs) == SelectInSeq(chrcs, HasRoom)

(* Characteristics are added up to the first with handles for descriptors, *)
(* which are asked for.                                                    *)
discover_descs(o, d) ==
  LET s      == Service(d, o.cur)
      first  == FirstWithRoom(o.chrcs)
      n      == IF first = 0 THEN Len(o.chrcs) ELSE first
      added  == [i \in 1..2 * n |-> IF i % 2 = 1 THEN "chr" ELSE o.chrcs[i \div 2].kind]
      d1     == Extended(d, o.cur, added)
      o1     == [o EXCEPT !.chrcs = SubSeq(@, n + 1, Len(@))]
  IN IF \E i \in 1..n : ~Expected(s, o.chrcs[i].value, 2 * i)
     THEN Complete(o, d, "failed")
     ELSE IF first = 0 THEN NextService(o1, d1)
          ELSE Ask(o1, d1, "dsc", o.chrcs[n].value + 1, o.chrcs[n].end)

\* A characteristic ends where the next one found begins.
Characteristic(found, i, end) ==
  [value |-> found[i].to, kind |-> found[i].kind,
   end |-> IF i = Len(found) THEN end ELSE found[i + 1].at - 1]

discover_chrcs_cb(o, d, found) ==
  LET chrcs == [i \in DOMAIN found |-> Characteristic(found, i, End(d, o.cur))]
  IN IF found = <<>> THEN NextService(o, d)
     ELSE discover_descs([o EXCEPT !.chrcs = @ \o chrcs], d)

FoundKinds(found) == [i \in DOMAIN found |-> found[i].kind]
Misplaced(s, found) == \E i \in DOMAIN found : ~Expected(s, found[i].at, i)

\* Mutant: the characteristics that follow are forgotten.
DescriptorsThenNext(o, d, found) ==
  IF Misplaced(Service(d, o.cur), found) THEN Complete(o, d, "failed")
  ELSE NextService(o, Extended(d, o.cur, FoundKinds(found)))

(* Without descriptors the code goes on with the next service, though      *)
(* characteristics of this one may still be to be added.                   *)
discover_descs_cb(o, d, found) ==
  IF found = <<>> THEN NextService(o, d)
  ELSE IF Misplaced(Service(d, o.cur), found) THEN Complete(o, d, "failed")
  ELSE discover_descs(o, Extended(d, o.cur, FoundKinds(found)))

(* Services of one handle have no included services.  After the last       *)
(* service it starts again with the characteristics of the first.          *)
NextIncluding(o, d) ==
  LET i   == FirstToAsk(d, o.pending)
      all == o.tmp \o o.pending
      s   == o.pending[i]
  IN IF i = 0
     THEN Ask([o EXCEPT !.tmp = <<>>, !.pending = Tail(all), !.cur = Head(all)], d,
              "chr", Head(all), End(d, Head(all)))
     ELSE Ask([o EXCEPT !.tmp = @ \o SubSeq(o.pending, 1, i), !.cur = s,
                        !.pending = SubSeq(@, i + 1, Len(@))], d,
              "inc", s, End(d, s))

discover_incl_cb(o, d, found) ==
  IF \/ Misplaced(Service(d, o.cur), found)
     \/ \E i \in DOMAIN found : \A s \in d : found[i].to \notin s.start..s.end
  THEN Complete(o, d, "failed")
  ELSE NextIncluding(o, Extended(d, o.cur, FoundKinds(found)))

Starts(found) == [i \in DOMAIN found |-> found[i].at]

discover_secondary_cb(o, d, found) ==
  LET all == o.pending \o Starts(found)
      d1  == InsertAll(d, found, FALSE)
  IN IF \E i \in DOMAIN found : Clash(d, found[i].at, found[i].to)
     THEN Complete(o, d, "failed")
     ELSE IF all = <<>> THEN Complete(o, d, "none")
          ELSE Ask([o EXCEPT !.pending = Tail(all), !.tmp = <<Head(all)>>, !.cur = Head(all)], d1,
                   "inc", Head(all), End(d1, Head(all)))

discover_primary_cb(o, d, found) ==
  IF \E i \in DOMAIN found : Clash(d, found[i].at, found[i].to)
  THEN Complete(o, d, "failed")
  ELSE Ask([o EXCEPT !.pending = Starts(found)], InsertAll(d, found, TRUE),
           "secondary", o.start, o.end)

Finished(kind, found) ==
  \/ kind = "primary"   /\ discover_primary_cb(op, db, found)
  \/ kind = "secondary" /\ discover_secondary_cb(op, db, found)
  \/ kind = "inc"       /\ discover_incl_cb(op, db, found)
  \/ kind = "chr"       /\ discover_chrcs_cb(op, db, found)
  \/ kind = "dsc"       /\ discover_descs_cb(op, db, found)

---------------------------------------------------------------------------
(* The device: what it has for a request, in the order of the handles.     *)

Services(table, primary, lo, hi) ==
  {[at |-> s.start, to |-> s.end, kind |-> "svc"] :
     s \in {t \in table : t.primary = primary /\ t.start \in lo..hi}}

\* The attributes of a service, and what a request for one asks for of it.
Attribute(s, i) == [at |-> s.start + i - 1, to |-> s.target, kind |-> s.layout[i]]
Value(s, i)     == [at |-> s.start + i - 1, to |-> s.start + i, kind |-> s.layout[i + 1]]

Wanted(s, kind, lo, hi) ==
  {i \in DOMAIN s.layout :
     /\ s.start + i - 1 \in lo..hi
     /\ s.layout[i] # "gap"
     /\ kind \in {"inc", "chr"} => s.layout[i] = kind}

Attributes(s, kind, lo, hi) ==
  {IF kind = "chr" THEN Value(s, i) ELSE Attribute(s, i) : i \in Wanted(s, kind, lo, hi)}

Matching(table, kind, lo, hi) ==
  IF kind \in {"primary", "secondary"} THEN Services(table, kind = "primary", lo, hi)
  ELSE UNION {Attributes(s, kind, lo, hi) : s \in table}

InOrder(items) ==
  [n \in 1..Cardinality(items) |->
     CHOOSE a \in items : Cardinality({b \in items : b.at <= a.at}) = n]

(* One answer: some of the matches, at least one; or "not found".  The next*)
(* request starts behind the last one, or behind its group.                *)
LastHandle(p, m) == IF p.kind \in {"primary", "secondary"} THEN m.to ELSE m.at

Page(p) ==
  LET matches == InOrder(Matching(dev, p.kind, p.from, p.to)) IN
  \/ matches = <<>> /\ Finished(p.kind, p.found)
  \/ \E n \in 1..Len(matches) :
       LET found == p.found \o SubSeq(matches, 1, n)
           last  == LastHandle(p, matches[n])
       IN \/ /\ last < p.to
             /\ proc' = {[p EXCEPT !.from = last + 1, !.found = found]}
             /\ UNCHANGED <<op, db, clientVars>>
          \/ last >= p.to /\ Finished(p.kind, found)

(* The callbacks of gatt-helpers.c.  Reads of 128 bit UUIDs of included    *)
(* services, which come between two pages, are left out.                   *)
read_by_grp_type_cb(p)  == p.kind \in {"primary", "secondary"} /\ Page(p)
discover_included_cb(p) == p.kind = "inc" /\ Page(p)
read_chrcs_cb(p)        == p.kind = "chr" /\ Page(p)
find_info_cb(p)         == p.kind = "dsc" /\ Page(p)

Answered ==
  /\ link = "up"
  /\ \E p \in proc :
       read_by_grp_type_cb(p) \/ discover_included_cb(p) \/ read_chrcs_cb(p) \/ find_info_cb(p)
  /\ UNCHANGED <<deviceVars, link>>

\* Another error.  One for primary services is taken for none.
Refused ==
  /\ link = "up" /\ ~failed /\ ~op.missed
  /\ \E p \in proc :
       \/ /\ p.kind = "primary"
          /\ Ask([op EXCEPT !.missed = TRUE], db, "secondary", op.start, op.end)
       \/ p.kind # "primary" /\ Complete(op, db, "failed")
  /\ UNCHANGED <<deviceVars, link>>

exchange_mtu_cb ==
  /\ link = "up"
  /\ \E p \in proc : p.kind = "mtu"
  /\ Ask(op, db, "primary", 1, MaxHandle)
  /\ UNCHANGED <<deviceVars, link>>

service_changed_register_cb(ok) ==
  /\ ccc = "init"
  /\ told' = (IF ok THEN "ok" ELSE "failed") /\ ready' = ok

service_changed_reregister_cb == ccc = "again" /\ UNCHANGED <<told, ready>>

\* The CCC of Service Changed is written: accepted, or refused.
CccWritten ==
  /\ link = "up" /\ ccc' = "no"
  /\ \E ok \in IF failed THEN {TRUE} ELSE BOOLEAN :
       /\ service_changed_register_cb(ok) \/ service_changed_reregister_cb
       /\ enabled' = (enabled \/ ok) /\ failed' = (failed \/ ~ok)
       /\ listening' = (IF ok THEN listening ELSE {})
  /\ UNCHANGED <<dev, changes, indications, link, db, op, proc, inInit, inSvcChngd, svcChngdQueue>>

---------------------------------------------------------------------------
(* Service Changed.                                                        *)

\* Mutant: an event during a discovery is dropped.
DropWhenBusy(r) ==
  IF inSvcChngd
  THEN UNCHANGED <<db, op, proc, listening, inSvcChngd, svcChngdQueue>>
  ELSE process_service_changed(db, r) /\ UNCHANGED svcChngdQueue

service_changed_cb(r) ==
  IF inSvcChngd
  THEN svcChngdQueue' = Append(svcChngdQueue, r) /\ UNCHANGED <<db, op, proc, listening, inSvcChngd>>
  ELSE process_service_changed(db, r) /\ UNCHANGED svcChngdQueue

(* An indication is confirmed whether somebody listens or not.  Ranges that*)
(* remove the characteristic whose CCC is being written are left out.      *)
notify_cb ==
  /\ link = "up" /\ indications # <<>> /\ indications' = Tail(indications)
  /\ LET r == Head(indications) IN
     /\ ccc # "no" => listening \cap (r.start..r.end) = {}
     /\ IF listening # {} THEN service_changed_cb(r)
        ELSE UNCHANGED <<db, op, proc, listening, inSvcChngd, svcChngdQueue>>
  /\ UNCHANGED <<dev, changes, enabled, link, inInit, ready, ccc, told, failed>>

\* The handles of the services that two tables do not share.
Hull(a, b) ==
  LET diff == (a \ b) \cup (b \ a) IN
  [start |-> CHOOSE h \in Handles : (\E s \in diff : s.start = h) /\ \A s \in diff : h <= s.start,
   end   |-> CHOOSE h \in Handles : (\E s \in diff : s.end = h) /\ \A s \in diff : h >= s.end]

HasServiceChanged(s) == \E i \in DOMAIN s.layout : s.layout[i] = "scv"

\* The service that has Service Changed stays as it is.
DeviceChanges ==
  /\ link = "up" /\ enabled /\ changes < MaxChanges /\ changes' = changes + 1
  /\ \E table \in Tables \ {dev} :
       /\ \A s \in dev \cup table : HasServiceChanged(s) => s \in dev \cap table
       /\ dev' = table
       /\ \E r \in {Hull(dev, table), [start |-> 1, end |-> MaxHandle]} :
            /\ Wide \/ \A s \in dev : HasServiceChanged(s) => ~Overlap(s, r)
            /\ indications' = Append(indications, r)
  /\ UNCHANGED <<enabled, link, db, op, proc, clientVars>>

(* Hang-up, or the ATT timer: requests go without an answer, and with them *)
(* the discovery they belong to.  discovery_op_unref clears its range, but *)
(* not that of the first one: exchange_mtu_cb has called it a success.     *)
att_disconnect_cb ==
  /\ link = "up" /\ link' = "gone"
  /\ proc' = {} /\ ccc' = "no" /\ inInit' = FALSE /\ ready' = FALSE
  /\ db' = (IF proc = {} \/ op.init THEN db ELSE gatt_db_clear_range(db, op.start, op.end))
  /\ told' = (IF inInit THEN "failed" ELSE told)
  /\ UNCHANGED <<deviceVars, op, inSvcChngd, svcChngdQueue, listening, failed>>

DeviceAnswers == exchange_mtu_cb \/ Answered \/ Refused \/ CccWritten

Next == DeviceAnswers \/ notify_cb \/ DeviceChanges \/ att_disconnect_cb

Spec == Init /\ [][Next]_vars

(* A request is answered or the ATT timer ends the link; the main loop     *)
(* hands out what has arrived.                                             *)
FairSpec ==
  /\ Spec /\ WF_vars(notify_cb)
  /\ WF_vars(DeviceAnswers \/ ((proc # {} \/ ccc # "no") /\ att_disconnect_cb))
---------------------------------------------------------------------------
TypeOK ==
  /\ changes \in 0..MaxChanges /\ enabled \in BOOLEAN /\ link \in {"up", "gone"}
  /\ indications \in Seq(HandleRange) /\ svcChngdQueue \in Seq(HandleRange)
  /\ \A s \in db :
       /\ s.start \in Handles /\ s.end \in s.start..MaxHandle
       /\ s.primary \in BOOLEAN /\ s.active \in BOOLEAN
       /\ s.attrs \in Seq(Kinds) /\ Len(s.attrs) \in 1..(s.end - s.start + 1)
  /\ op.start \in Handles /\ op.end \in Handles /\ op.cur \in 0..MaxHandle
  /\ op.pending \in Seq(Handles) /\ op.tmp \in Seq(Handles)
  /\ \A p \in proc : p.from \in Handles /\ p.to \in p.from..MaxHandle
  /\ Cardinality(proc) <= 1
  /\ inInit \in BOOLEAN /\ ready \in BOOLEAN /\ inSvcChngd \in BOOLEAN /\ failed \in BOOLEAN
  /\ listening \subseteq Handles /\ ccc \in {"no", "init", "again"}
  /\ told \in {"no", "ok", "failed"}

(* Where the code stops in a service: it asks for the descriptors behind a *)
(* value, there are none although the handles have room, and it takes the  *)
(* service for done (discover_descs_cb).                                   *)
CutAtGap(attrs, layout) ==
  Last(attrs) \in {"val", "scv"} /\ IsPrefix(Append(attrs, "gap"), layout)

\* A service of the database is one of the device, with all its attributes, or cut at a gap.
Whole(s) ==
  \E d \in dev : /\ d.start = s.start /\ d.end = s.end /\ d.primary = s.primary
                 /\ d.layout = s.attrs \/ CutAtGap(s.attrs, d.layout)

NoneMissing(d) == \A s \in dev : \E t \in d : t.start = s.start
Quiet == link = "up" /\ ready /\ proc = {} /\ ccc = "no" /\ indications = <<>> /\ svcChngdQueue = <<>>

(* Whenever the client is ready and no discovery is under way, its         *)
(* database is the device's table: no service that is not there or lacks   *)
(* attributes, save those behind a gap; and, unless a discovery has failed,*)
(* none is missing.  The table may have changed several times, and in the  *)
(* midst of a discovery (gatt-client.c 1108-1249).                         *)
MirrorsDevice == Quiet => (\A s \in db : Whole(s)) /\ (failed \/ NoneMissing(db))

(* A service is activated, which is when others are told that it was added,*)
(* once its characteristics and descriptors are in the database            *)
(* (gatt-client.c 698-700, 807).  The comment at 797, "Sequentially        *)
(* discover descriptors for each characteristic and insert the             *)
(* characteristics into the database as we proceed", promises this of      *)
(* every service; the code does not keep it where handles behind a value   *)
(* are unused.  There, and only there, and only from that gap on, an       *)
(* active service may lack what the device has.                            *)
ActiveIsComplete == changes = 0 => \A s \in db : s.active => Whole(s)

(* "The GATT service was modified. Re-register the handler for indications *)
(* from the Service Changed characteristic" (gatt-client.c 1149-1151):     *)
(* unless something failed, a ready client at rest listens for changes.    *)
ListensAgain == Quiet /\ ~failed /\ enabled => listening # {}

(* The first discovery ends, with a call of the ready callback, unless the *)
(* link is lost first (gatt-client.c 1275-1326, 1596-1612).                *)
InitEnds == <>(told # "no" \/ link = "gone")

(* Every change reaches the database in the end: queued events are         *)
(* processed (gatt-client.c 1133-1140).                                    *)
CatchesUp == []<>(link = "gone" \/ told = "failed" \/ Quiet)
=============================================================================
