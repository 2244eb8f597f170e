----------------------------- MODULE MainLoop -----------------------------
(***************************************************************************)
(* The main loop, bluez/mainloop.c, with its two users: the socket         *)
(* (bluez/io-mainloop.c) and the timer of the pending ATT request          *)
(* (bluez/timeout-mainloop.c), over the life of the connections and        *)
(* updates that ble.c, dfu.c and libnrfdfu.c make of them.                 *)
(*                                                                         *)
(* What Att takes for granted is the state here: descriptors, which the    *)
(* system numbers from the lowest free one and which number the timers     *)
(* too; mainloop_list, indexed by descriptor; its entries, which are       *)
(* allocated and freed, so that an address comes back; the epoll set,      *)
(* which holds addresses of entries; and the batch of events that          *)
(* mainloop_run has fetched and hands out one after the other, while the   *)
(* callbacks change all of these.                                          *)
(*                                                                         *)
(* Using an entry that is freed is undefined.  The model ends there        *)
(* (freed # "unused") or goes on as if nothing had been called.            *)
(***************************************************************************)
EXTENDS Naturals, Sequences, FiniteSets, SequencesExt

CONSTANTS
  MaxFd,       \* descriptors of the process are 1..MaxFd; 0 is its stdin
  MaxEntries,  \* MAX_MAINLOOP_ENTRIES
  Places,      \* addresses that malloc finds for entries
  MaxUpdates,  \* bound on the updates of the process
  MaxConnects, \* bound on the connections of the process
  MaxRequests, \* bound on the requests of a connection
  MaxInbox     \* bound on what the socket holds for the client

ASSUME MainLoopAssumption ==
  /\ {MaxFd, MaxEntries, MaxUpdates, MaxConnects, MaxRequests, MaxInbox} \subseteq Nat \ {0}
  /\ Places \subseteq Nat \ {0}

VARIABLES
  k,         \* the tables: [files, list, heap, watch, epfd], see Init
  batch,     \* events[n..nfds] of mainloop_run
  call,      \* io_callback is on the stack, and the event bits it has left
  prog,      \* "out" of the main loop or "running" it
  terminate, fatal, \* epoll_terminate and fatalError_
  freed,     \* "unused", or what was used after it was freed: "event", "memory"
  io,        \* the socket's struct io, io.fd = 0 is -1
  att,       \* "none", "open", "gone" (att->io is NULL)
  pending,   \* pending_req: empty or one request with its timeout_id
  queued,    \* req_queue
  nextId,    \* next_send_id
  owed,      \* the peer has a request to answer
  inbox,     \* what the peer has sent and nobody has read
  hup,       \* the socket is hung up
  ble,       \* ble->fd, 0 when nothing is open
  crypto,    \* the descriptor of att->crypto, 0 if the kernel has none
  spent      \* the updates, connections and re-initialisations so far

loopVars == <<batch, call, prog, terminate, fatal, freed>>
attVars  == <<io, att, pending, queued, nextId>>
peerVars == <<owed, inbox, hup>>
bleVars  == <<ble, crypto, spent>>
vars == <<k, loopVars, attVars, peerVars, bleVars>>

Fds == 1..MaxFd
Bits == {"in", "out", "hup"}
File == {"none", "epoll", "lost", "zip", "socket", "crypto", "timer", "rang"}
Entry == [fd : Fds, kind : {"io", "timer"}, req : Nat]
Free == [fd |-> 0, kind |-> "free", req |-> 0]
NoWatch == [ptr |-> 0, mask |-> {}]
NoIo == [fd |-> 0, events |-> {}, handlers |-> {}, refs |-> 0]

Init ==
  /\ k = [files |-> [fd \in Fds |-> "none"], list |-> [fd \in Fds |-> 0],
          heap |-> [p \in Places |-> Free], watch |-> [fd \in Fds |-> NoWatch], epfd |-> 0]
  /\ batch = <<>> /\ call = [on |-> FALSE, bits |-> {}]
  /\ prog = "out" /\ terminate = FALSE /\ fatal = FALSE /\ freed = "unused"
  /\ io = NoIo /\ att = "none" /\ pending = {} /\ queued = <<>> /\ nextId = 1
  /\ owed = FALSE /\ inbox = <<>> /\ hup = FALSE
  /\ ble = 0 /\ crypto = 0
  /\ spent = [updates |-> 0, connects |-> 0, reinit |-> TRUE]

---------------------------------------------------------------------------
(* The system: descriptors.                                                *)

FreeFds(t) == {fd \in Fds : t.files[fd] = "none"}
LowestFree(t) == Min(FreeFds(t))
Open(t, kind) == [t EXCEPT !.files[LowestFree(t)] = kind]
\* Closing takes the descriptor out of the epoll set; 0 stands for none.
Close(t, fd) ==
  IF fd = 0 THEN t ELSE [t EXCEPT !.files[fd] = "none", !.watch[fd] = NoWatch]

---------------------------------------------------------------------------
(* mainloop.c: the table.                                                  *)

\* Mutant: off by one.
RefusedLate(fd) == fd > MaxEntries

Refused(fd) == fd > MaxEntries - 1

\* mainloop_add_fd for an fd that is not refused.
mainloop_add_fd(t, p, entry, mask) ==
  [t EXCEPT !.heap[p] = entry, !.list[entry.fd] = p,
            !.watch[entry.fd] = [ptr |-> p, mask |-> mask]]

mainloop_modify_fd(t, fd, mask) ==
  IF fd = 0 \/ t.list[fd] = 0 THEN t ELSE [t EXCEPT !.watch[fd].mask = mask]

(* The destructors, io_cleanup and mainloop.c's timeout_destroy, close the *)
(* descriptor.                                                             *)
mainloop_remove_fd(t, fd) ==
  IF fd = 0 \/ t.list[fd] = 0 THEN t
  ELSE Close([t EXCEPT !.list[fd] = 0, !.heap[t.list[fd]] = Free], fd)

\* Mutant: the timers are left to the next mainloop_init.
FinishSocketOnly(t) ==
  LET left == {fd \in Fds : t.list[fd] # 0 /\ t.files[fd] = "socket"}
  IN [t EXCEPT
        !.list = [fd \in Fds |-> 0],
        !.heap = [p \in Places |-> IF t.heap[p].fd \in left THEN Free ELSE t.heap[p]],
        !.files = [fd \in Fds |-> IF fd \in left \cup {t.epfd} THEN "none" ELSE t.files[fd]],
        !.watch = [fd \in Fds |-> NoWatch], !.epfd = 0]

mainloop_finish(t) ==
  LET left == {fd \in Fds : t.list[fd] # 0}
  IN [t EXCEPT
        !.list = [fd \in Fds |-> 0],
        !.heap = [p \in Places |-> IF t.heap[p].fd \in left THEN Free ELSE t.heap[p]],
        !.files = [fd \in Fds |-> IF fd \in left \cup {t.epfd} THEN "none" ELSE t.files[fd]],
        !.watch = [fd \in Fds |-> NoWatch], !.epfd = 0]

(* A new epoll descriptor and an empty table.  The old descriptor, if      *)
(* there is one, stays open and is forgotten.                              *)
mainloop_init(t) ==
  LET old == IF t.epfd = 0 THEN t ELSE [t EXCEPT !.files[t.epfd] = "lost"]
  IN [Open(old, "epoll") EXCEPT !.epfd = LowestFree(old), !.list = [fd \in Fds |-> 0],
                                !.watch = [fd \in Fds |-> NoWatch]]

---------------------------------------------------------------------------
(* timeout-mainloop.c and mainloop.c: the timer of a request.              *)

\* Mutant: nothing wakes the main loop when the timer expires.
TimerMaskNone == {}

TimerMask == {"in"}

(* timeout_add: the timer's descriptor is its id; 0 if there is none or it *)
(* is refused, of which can_write_data takes no notice.                    *)
timeout_add(t, t2, id, req) ==
  IF FreeFds(t) = {} \/ Refused(LowestFree(t))
  THEN id = 0 /\ t2 = t
  ELSE \E p \in {q \in Places : t.heap[q] = Free} :
         /\ id = LowestFree(t)
         /\ t2 = mainloop_add_fd(Open(t, "timer"), p, [fd |-> id, kind |-> "timer", req |-> req],
                                 TimerMask)

timeout_remove(t, id) == mainloop_remove_fd(t, id)

\* Mutant: the timer of an answered request is left running.
DestroyOpOnly(t, op) == t

destroy_att_send_op(t, op) == timeout_remove(t, op.timer)

---------------------------------------------------------------------------
(* io-mainloop.c and its user, att.c.                                      *)

SetHandlers(i, add, del) ==
  [i EXCEPT !.handlers = (@ \cup add) \ del,
            !.events = (@ \cup {IF h = "read" THEN "in" ELSE "out" : h \in add})
                          \ {IF h = "read" THEN "in" ELSE "out" : h \in del}]

\* The handler is set or removed, and the epoll set told.
Watched(t, i) == mainloop_modify_fd(t, i.fd, i.events)

\* wakeup_writer, after the changes of q and p.
Woken(i, q, p) ==
  IF q # <<>> /\ p = {} /\ i.fd # 0 THEN SetHandlers(i, {"write"}, {}) ELSE i

\* io_new and bt_att_new: the handlers of att.c.
NewIo(fd) ==
  [fd |-> fd, events |-> {"in", "hup"}, handlers |-> {"read", "disconnect"}, refs |-> 1]

\* io_destroy: io_cleanup has closed the descriptor.
io_destroy(i) == [i EXCEPT !.fd = 0, !.handlers = {}, !.refs = @ - 1]

io_ref(i) == [i EXCEPT !.refs = @ + 1]

\* io_shutdown of a socket that may be gone.
io_shutdown == hup' = (hup \/ att = "open")

---------------------------------------------------------------------------
(* The program outside of the main loop.                                   *)

Outside == prog = "out" /\ freed = "unused"

\* dfu_update: ble_init and open_zip, whose descriptor is never closed.
StartUpdate ==
  /\ Outside /\ k.epfd = 0 /\ ble = 0
  /\ spent.updates < MaxUpdates /\ Cardinality(FreeFds(k)) >= 2
  /\ spent' = [spent EXCEPT !.updates = @ + 1, !.reinit = TRUE]
  /\ k' = Open(mainloop_init(k), "zip")
  /\ terminate' = FALSE /\ fatal' = FALSE
  /\ UNCHANGED <<batch, call, prog, freed, attVars, peerVars, ble, crypto>>

(* ble_open up to its mainloop_run.  A socket that the main loop refuses   *)
(* is closed again.  The sockets of bt_crypto_new, here one, may be        *)
(* missing from the kernel.                                                *)
ble_open ==
  /\ Outside /\ k.epfd # 0 /\ ble = 0
  /\ spent.connects < MaxConnects /\ spent' = [spent EXCEPT !.connects = @ + 1]
  /\ IF FreeFds(k) = {} \/ Refused(LowestFree(k))
     THEN UNCHANGED <<k, attVars, peerVars, ble, crypto>>
     ELSE LET fd == LowestFree(k)
              opened == Open(k, "socket")
          IN /\ \E p \in {q \in Places : k.heap[q] = Free} :
                  LET added == mainloop_add_fd(opened, p, [fd |-> fd, kind |-> "io", req |-> 0], {})
                      set == Watched(added, NewIo(fd))
                  IN \/ k' = set /\ crypto' = 0
                     \/ FreeFds(set) # {} /\ k' = Open(set, "crypto") /\ crypto' = LowestFree(set)
             /\ io' = NewIo(fd) /\ att' = "open" /\ ble' = fd
             /\ pending' = {} /\ queued' = <<>> /\ nextId' = 1
             /\ owed' = FALSE /\ inbox' = <<>> /\ hup' = FALSE
  /\ UNCHANGED loopVars

\* bt_att_send
Enqueued == Append(queued, nextId)

bt_att_send ==
  /\ Outside /\ att = "open" /\ nextId <= MaxRequests
  /\ queued' = Enqueued /\ nextId' = nextId + 1
  /\ io' = Woken(io, queued', pending) /\ k' = Watched(k, io')
  /\ UNCHANGED <<loopVars, att, pending, peerVars, bleVars>>

Run == Outside /\ ble # 0 /\ prog' = "running"
       /\ UNCHANGED <<k, batch, call, terminate, fatal, freed, attVars, peerVars, bleVars>>

NoConnection ==
  /\ att' = "none" /\ io' = NoIo /\ pending' = {} /\ queued' = <<>> /\ nextId' = 1
  /\ owed' = FALSE /\ inbox' = <<>> /\ hup' = FALSE /\ ble' = 0 /\ crypto' = 0

(* ble_close.  bt_att_free drops the pending request with its timer and    *)
(* the socket, unless the hang-up has; ble->fd is closed in any case.      *)
ble_close ==
  /\ Outside /\ ble # 0
  /\ LET timerless == IF \E op \in pending : op.timer # 0
                      THEN destroy_att_send_op(k, CHOOSE op \in pending : TRUE) ELSE k
         socketless == mainloop_remove_fd(timerless, io.fd)
     IN k' = Close(Close(socketless, crypto), ble)
  /\ NoConnection
  /\ UNCHANGED <<loopVars, spent>>

\* dfu() calls ble_init again after the first ble_close.
Reinit ==
  /\ Outside /\ k.epfd # 0 /\ ble = 0 /\ spent.connects > 0
  /\ spent.reinit /\ FreeFds(k) # {}
  /\ spent' = [spent EXCEPT !.reinit = FALSE]
  /\ k' = mainloop_init(k) /\ terminate' = FALSE /\ fatal' = FALSE
  /\ UNCHANGED <<batch, call, prog, freed, attVars, peerVars, ble, crypto>>

\* The end of dfu_update, also after a dfu() that returned without ble_close.
EndUpdate ==
  /\ Outside /\ k.epfd # 0
  /\ k' = mainloop_finish(k)
  /\ NoConnection
  /\ UNCHANGED <<loopVars, spent>>

---------------------------------------------------------------------------
(* mainloop_run                                                            *)

InLoop == prog = "running" /\ freed = "unused"
Idle == InLoop /\ batch = <<>> /\ ~call.on

\* What epoll reports of fd; a hang-up is reported whatever the mask.
Ready(fd) ==
  LET mask == k.watch[fd].mask
  IN CASE k.files[fd] = "socket" ->
            (mask \cap ({"out"} \cup (IF inbox # <<>> \/ hup THEN {"in"} ELSE {})))
              \cup (IF hup THEN {"hup"} ELSE {})
       [] k.files[fd] = "rang" -> mask \cap {"in"}
       [] OTHER -> {}

(* epoll_wait: the events in any order; was, what they were fetched for,   *)
(* is there for the properties.  A timer's watch is EPOLLONESHOT.          *)
EpollWait ==
  /\ Idle /\ ~terminate /\ ~fatal
  /\ LET ready == {fd \in Fds : k.watch[fd].ptr # 0 /\ Ready(fd) # {}}
         event == [fd \in ready |-> [ptr |-> k.watch[fd].ptr, bits |-> Ready(fd),
                                     was |-> k.heap[k.watch[fd].ptr]]]
     IN /\ ready # {}
        /\ batch' \in {[n \in DOMAIN s |-> event[s[n]]] : s \in SetToSeqs(ready)}
        /\ k' = [k EXCEPT !.watch = [fd \in Fds |->
                   IF fd \in ready /\ k.files[fd] = "rang" THEN [@[fd] EXCEPT !.mask = {}] ELSE @[fd]]]
  /\ UNCHANGED <<call, prog, terminate, fatal, freed, attVars, peerVars, bleVars>>

LoopEnds ==
  /\ Idle /\ (terminate \/ fatal)
  /\ prog' = "out" /\ terminate' = FALSE
  /\ UNCHANGED <<k, batch, call, fatal, freed, attVars, peerVars, bleVars>>

Dispatching(kind) ==
  /\ InLoop /\ ~call.on /\ batch # <<>>
  /\ k.heap[Head(batch).ptr].kind = kind
  /\ batch' = Tail(batch)

\* The entry was freed by a callback earlier in the batch.
DispatchFreed ==
  /\ Dispatching("free") /\ freed' \in {"unused", "event"}
  /\ UNCHANGED <<k, call, prog, terminate, fatal, attVars, peerVars, bleVars>>

DispatchIo ==
  /\ Dispatching("io")
  /\ call' = [on |-> TRUE, bits |-> Head(batch).bits]
  /\ io' = io_ref(io)
  /\ UNCHANGED <<k, prog, terminate, fatal, freed, att, pending, queued, nextId, peerVars, bleVars>>

\* Mutant: the operation keeps its timeout_id.
KeepTimeoutId(op) == op

\* att.c 429: the timer is destroyed by its own callback's caller, not with the operation.
ForgetTimeoutId(op) == [op EXCEPT !.timer = 0]

(* The timer's callback, through timeout_cb of att.c and back:             *)
(* timeout-mainloop.c reads its data afterwards, and removes the timer.    *)
TimerRings(t) ==
  LET mine == {op \in pending : op.id = t.req}
      after == IF mine = {} THEN k
               ELSE destroy_att_send_op(k, ForgetTimeoutId(CHOOSE op \in mine : TRUE))
  IN /\ pending' = pending \ mine
     /\ IF mine = {} THEN UNCHANGED hup ELSE io_shutdown
     /\ freed' = IF after.list[t.fd] = 0 THEN "memory" ELSE "unused"
     /\ k' = mainloop_remove_fd(after, t.fd)

\* Mutant: timeout_callback does not look at what it has read.
RangAnyway(fd) == TRUE

\* The read of timeout_callback gets the expirations, or EAGAIN.
Rang(fd) == k.files[fd] = "rang"

timeout_callback ==
  /\ Dispatching("timer")
  /\ LET t == k.heap[Head(batch).ptr]
     IN IF Rang(t.fd) THEN TimerRings(t) ELSE UNCHANGED <<k, pending, hup, freed>>
  /\ UNCHANGED <<call, prog, terminate, fatal, io, att, queued, nextId, owed, inbox, bleVars>>

---------------------------------------------------------------------------
(* io_callback: the hang-up, then reading, then writing.                   *)

Handling(bit, before) ==
  InLoop /\ call.on /\ bit \in call.bits /\ call.bits \cap before = {}
BitDone(bit) == call' = [call EXCEPT !.bits = @ \ {bit}]

(* disconnect_cb of att.c destroys the io and ends the program's wait; the *)
(* pending request stays with its timer until bt_att_free.  io_callback    *)
(* goes on with the io; there is nothing left to read or to write with.    *)
disconnect_cb ==
  /\ Handling("hup", {})
  /\ k' = mainloop_remove_fd(k, io.fd)
  /\ io' = io_destroy(io)
  /\ freed' = IF io'.refs = 0 THEN "memory" ELSE "unused"
  /\ att' = "gone" /\ queued' = <<>>
  /\ terminate' = TRUE /\ fatal' = TRUE
  /\ owed' = FALSE /\ inbox' = <<>> /\ hup' = FALSE
  /\ call' = [call EXCEPT !.bits = {}]
  /\ UNCHANGED <<batch, prog, pending, nextId, bleVars>>

\* Callbacks of att.c may end the wait.
MayQuit == terminate' \in {terminate, TRUE}

Reading(kind) ==
  /\ Handling("in", {"hup"}) /\ "read" \in io.handlers /\ BitDone("in")
  /\ inbox # <<>> /\ Head(inbox) = kind /\ inbox' = Tail(inbox)
  /\ UNCHANGED <<batch, prog, fatal, freed, att, owed, bleVars>>

(* handle_rsp.  Its callback may send the next request, which waits for    *)
(* the wakeup at the end.  A late answer finds no pending request.         *)
handle_rsp ==
  /\ Reading("answer")
  /\ IF pending = {}
     THEN io_shutdown /\ UNCHANGED <<k, io, pending, queued, nextId, terminate>>
     ELSE \E op \in pending :
            /\ pending' = {} /\ UNCHANGED hup /\ MayQuit
            /\ \/ UNCHANGED <<queued, nextId>>
               \/ nextId <= MaxRequests /\ queued' = Enqueued /\ nextId' = nextId + 1
            /\ io' = Woken(io, queued', {})
            /\ k' = Watched(destroy_att_send_op(k, op), io')

handle_notify ==
  /\ Reading("notification") /\ MayQuit
  /\ UNCHANGED <<k, io, pending, queued, nextId, hup>>

(* The link was lost after the batch was fetched: the read gives the error *)
(* instead of what is left, and the handler is removed.                    *)
ReadFails ==
  /\ Handling("in", {"hup"}) /\ "read" \in io.handlers /\ BitDone("in")
  /\ hup
  /\ io' = SetHandlers(io, {}, {"read"}) /\ k' = Watched(k, io')
  /\ UNCHANGED <<batch, prog, terminate, fatal, freed, att, pending, queued, nextId, peerVars, bleVars>>

Writing == Handling("out", {"hup", "in"}) /\ "write" \in io.handlers /\ BitDone("out")

can_write_data ==
  /\ Writing /\ queued # <<>> /\ pending = {} /\ ~hup
  /\ queued' = Tail(queued)
  /\ \E id \in Fds \cup {0} :
       /\ timeout_add(k, k', id, Head(queued))
       /\ pending' = {[id |-> Head(queued), timer |-> id]}
  /\ owed' = TRUE
  /\ UNCHANGED <<batch, prog, terminate, fatal, freed, io, att, nextId, inbox, hup, bleVars>>

\* The callback of a request that cannot be sent is told.
WriteFails ==
  /\ Writing /\ queued # <<>> /\ pending = {} /\ hup
  /\ queued' = Tail(queued) /\ MayQuit
  /\ UNCHANGED <<k, batch, prog, fatal, freed, io, att, pending, nextId, peerVars, bleVars>>

\* pick_next_send_op finds nothing: the handler is removed.
NothingToWrite ==
  /\ Writing /\ (queued = <<>> \/ pending # {})
  /\ io' = SetHandlers(io, {}, {"write"}) /\ k' = Watched(k, io')
  /\ UNCHANGED <<batch, prog, terminate, fatal, freed, att, pending, queued, nextId, peerVars, bleVars>>

io_callback_returns ==
  /\ InLoop /\ call.on /\ call.bits = {}
  /\ call' = [call EXCEPT !.on = FALSE] /\ io' = [io EXCEPT !.refs = @ - 1]
  /\ UNCHANGED <<k, batch, prog, terminate, fatal, freed, att, pending, queued, nextId, peerVars, bleVars>>

---------------------------------------------------------------------------
(* The peer, the radio and the time.                                       *)

Arrives(what) == ~hup /\ Len(inbox) < MaxInbox /\ inbox' = Append(inbox, what)

PeerAnswers ==
  /\ owed /\ owed' = FALSE /\ Arrives("answer")
  /\ UNCHANGED <<k, loopVars, attVars, hup, bleVars>>

PeerNotifies ==
  /\ att = "open" /\ Arrives("notification")
  /\ UNCHANGED <<k, loopVars, attVars, owed, hup, bleVars>>

LinkDrops ==
  /\ att = "open" /\ ~hup /\ hup' = TRUE
  /\ UNCHANGED <<k, loopVars, attVars, owed, inbox, bleVars>>

TimerExpires ==
  /\ \E fd \in Fds : k.files[fd] = "timer" /\ k' = [k EXCEPT !.files[fd] = "rang"]
  /\ UNCHANGED <<loopVars, attVars, peerVars, bleVars>>

---------------------------------------------------------------------------
ProgramNext ==
  StartUpdate \/ ble_open \/ bt_att_send \/ Run \/ ble_close \/ Reinit \/ EndUpdate
HandlerNext ==
  \/ disconnect_cb \/ handle_rsp \/ handle_notify \/ ReadFails
  \/ can_write_data \/ WriteFails \/ NothingToWrite \/ io_callback_returns
LoopNext ==
  EpollWait \/ LoopEnds \/ DispatchFreed \/ DispatchIo \/ timeout_callback \/ HandlerNext
EnvironmentNext == PeerAnswers \/ PeerNotifies \/ LinkDrops \/ TimerExpires

Next == ProgramNext \/ LoopNext \/ EnvironmentNext

Spec == Init /\ [][Next]_vars

(* A process that is in the main loop runs, one that is not comes back to  *)
(* it or ends its connection, and does so when the link is lost: dfu()     *)
(* tries a bounded number of times.  Time passes; the peer need not answer. *)
FairSpec ==
  /\ Spec
  /\ WF_vars(LoopNext) /\ WF_vars(ProgramNext) /\ SF_vars(fatal /\ ble_close)
  /\ WF_vars(TimerExpires)
---------------------------------------------------------------------------
(* Nothing is entered beyond the end of mainloop_list (mainloop.c 204).    *)
TypeOK ==
  /\ k.files \in [Fds -> File] /\ k.list \in [Fds -> Places \cup {0}]
  /\ \A fd \in Fds : fd >= MaxEntries => k.list[fd] = 0
  /\ k.heap \in [Places -> Entry \cup {Free}]
  /\ k.watch \in [Fds -> [ptr : Places \cup {0}, mask : SUBSET Bits]]
  /\ k.epfd \in Fds \cup {0}
  /\ batch \in Seq([ptr : Places, bits : SUBSET Bits, was : Entry])
  /\ call \in [on : BOOLEAN, bits : SUBSET Bits]
  /\ prog \in {"out", "running"} /\ terminate \in BOOLEAN /\ fatal \in BOOLEAN
  /\ freed \in {"unused", "event", "memory"}
  /\ io \in [fd : Fds \cup {0}, events : SUBSET Bits,
             handlers : SUBSET {"read", "write", "disconnect"}, refs : 0..2]
  /\ att \in {"none", "open", "gone"}
  /\ pending \subseteq [id : 1..MaxRequests, timer : Fds \cup {0}]
  /\ queued \in Seq(1..MaxRequests) /\ nextId \in 1..(MaxRequests + 1)
  /\ owed \in BOOLEAN /\ inbox \in Seq({"answer", "notification"}) /\ hup \in BOOLEAN
  /\ ble \in Fds \cup {0} /\ crypto \in Fds \cup {0}

(* The list, the entries, the epoll set and the open descriptors tell the  *)
(* same, whatever callbacks, reconnections and second updates have done:   *)
(* no entry is lost, none watches a descriptor that is closed or another's, *)
(* and the number that ble_close closes once more is no other file's       *)
(* (mainloop.c 197-281, io-mainloop.c 71-88, ble.c 183-204).               *)
TablesAgree ==
  /\ \A fd \in Fds : k.list[fd] # 0 =>
       /\ k.heap[k.list[fd]].fd = fd /\ k.watch[fd].ptr = k.list[fd]
       /\ k.files[fd] \in (IF k.heap[k.list[fd]].kind = "io" THEN {"socket"} ELSE {"timer", "rang"})
  /\ \A fd \in Fds : k.files[fd] \in {"socket", "timer", "rang"} => k.list[fd] # 0
  /\ \A p \in Places : k.heap[p] # Free => k.list[k.heap[p].fd] = p
  /\ io.fd # 0 => k.files[io.fd] = "socket" /\ k.watch[io.fd].mask = io.events
  /\ ble # 0 => ble = io.fd \/ k.files[ble] = "none"

(* The timers of the table are those of the pending request, one each,     *)
(* although its id is a number that comes back.  A request goes without    *)
(* one only if the descriptors below MAX_MAINLOOP_ENTRIES have run out     *)
(* (att.c 203-215, 429, 506-513; mainloop.c 204, 325-364).                 *)
TimerPerRequest ==
  /\ \A fd \in Fds : k.list[fd] # 0 /\ k.heap[k.list[fd]].kind = "timer" =>
       [id |-> k.heap[k.list[fd]].req, timer |-> fd] \in pending
  /\ \A op \in pending :
       IF op.timer = 0
       THEN att = "open" => \A fd \in FreeFds(k) : Refused(fd)
       ELSE k.list[op.timer] # 0 /\ k.heap[k.list[op.timer]].kind = "timer"

(* An event may outlive its entry in the batch.  It is then the event of a *)
(* timer whose request was answered, and so ended, earlier in the same     *)
(* batch; the socket's event is never stale, and nothing but the entry of  *)
(* such an event is used after it was freed (mainloop.c 153-158,           *)
(* io-mainloop.c 94-150, timeout-mainloop.c 34-43).                        *)
OnlyTimersStale ==
  /\ \A n \in DOMAIN batch :
       k.heap[batch[n].ptr] # batch[n].was =>
         batch[n].was.kind = "timer" /\ \A op \in pending : op.id # batch[n].was.req
  /\ freed # "memory"

(* A request is given up in the main loop only when its own timer has      *)
(* expired: not for an event that was meant for the timer before, whose    *)
(* address and descriptor may be its timer's (mainloop.c 294-309, att.c    *)
(* 406-440).                                                               *)
GivenUpInTime ==
  [][\A op \in pending :
       prog = "running" /\ op \notin pending' /\ inbox' = inbox =>
         op.timer # 0 /\ k.files[op.timer] = "rang"]_vars

(* A request that has a timer ends, though the peer does not answer and    *)
(* the link holds, unless the process ends on a stale event (mainloop.c    *)
(* 125-172, 294-364).                                                      *)
RequestEnds ==
  \A id \in 1..MaxRequests :
    (\E op \in pending : op.id = id /\ op.timer # 0)
      ~> (freed # "unused" \/ \A op \in pending : op.id # id)
=============================================================================
