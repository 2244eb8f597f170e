--------------------------- MODULE MainLoopProofs ---------------------------
(***************************************************************************)
(* Proofs about MainLoop, for any number of descriptors, entries, places   *)
(* for them, updates, connections and requests.                            *)
(*                                                                         *)
(* Linked says of the tables alone that they agree; each operation of      *)
(* mainloop.c keeps it.  Connection says which files the connection has.   *)
(* The batch is the difficult part: Fetched and RequestIds say that the    *)
(* event of a timer that is gone belongs to a request older than any that  *)
(* can still be sent, so that a new timer at the same address, and with    *)
(* the same descriptor, is never taken for the one the event was for.      *)
(***************************************************************************)
EXTENDS MainLoop, FiniteSetTheorems, SequenceTheorems, WellFoundedInduction, TLAPS

Tables == [files : [Fds -> File], list : [Fds -> Places \cup {0}], heap : [Places -> Entry \cup {Free}],
           watch : [Fds -> [ptr : Places \cup {0}, mask : SUBSET Bits]], epfd : Fds \cup {0}]

Sockets == {"socket"}
Timers == {"timer", "rang"}

\* list, heap, watch and files say the same.
Linked(t) ==
  /\ \A fd \in Fds : t.watch[fd].ptr = t.list[fd]
  /\ \A fd \in Fds : t.list[fd] # 0 =>
       /\ t.heap[t.list[fd]] # Free /\ t.heap[t.list[fd]].fd = fd
       /\ t.files[fd] \in (IF t.heap[t.list[fd]].kind = "io" THEN Sockets ELSE Timers)
       /\ ~Refused(fd)
  /\ \A p \in Places : t.heap[p] # Free => t.list[t.heap[p].fd] = p
  /\ \A fd \in Fds : t.files[fd] \in Sockets \cup Timers => t.list[fd] # 0
  /\ t.epfd # 0 => t.files[t.epfd] = "epoll"

\* The connection and its files.
Connection ==
  /\ ble = 0 => att = "none"
  /\ att = "none" => ble = 0 /\ io.fd = 0 /\ crypto = 0 /\ pending = {} /\ queued = <<>> /\ prog = "out"
  /\ att = "open" => io.fd = ble /\ k.files[io.fd] = "socket" /\ k.watch[io.fd].mask = io.events
  /\ att = "gone" => io.fd = 0 /\ k.files[ble] = "none" /\ call.bits = {} /\ queued = <<>>
  /\ \A fd \in Fds : k.files[fd] = "socket" => fd = io.fd
  /\ crypto # 0 => k.files[crypto] = "crypto"

\* The references to io.
References ==
  /\ io.refs = (IF att = "open" THEN 1 ELSE 0) + (IF call.on THEN 1 ELSE 0)
  /\ prog = "out" => batch = <<>> /\ ~call.on

\* The oldest request in the queue; requests before it are sent.
Oldest == nextId - Len(queued)

RequestIds ==
  /\ Oldest \in Nat \ {0} /\ \A i \in DOMAIN queued : queued[i] = Oldest + i - 1
  /\ \A op \in pending : op.id < Oldest
  /\ \A op, other \in pending : op = other

\* The events of a batch.
Fetched ==
  /\ \A n \in DOMAIN batch :
       /\ batch[n].was.kind = "timer" =>
            batch[n].was.req < Oldest /\ k.heap[batch[n].ptr].kind # "io"
       /\ batch[n].was.kind = "io" => ~call.on /\ k.heap[batch[n].ptr] = batch[n].was
  /\ \A m, n \in DOMAIN batch : batch[m].was.kind = "io" /\ batch[n].was.kind = "io" => m = n

LoopTyped ==
  /\ batch \in Seq([ptr : Places, bits : SUBSET Bits, was : Entry])
  /\ call \in [on : BOOLEAN, bits : SUBSET Bits]
  /\ prog \in {"out", "running"} /\ terminate \in BOOLEAN /\ fatal \in BOOLEAN
  /\ freed \in {"unused", "event", "memory"}

AttTyped ==
  /\ io \in [fd : Fds \cup {0}, events : SUBSET Bits,
             handlers : SUBSET {"read", "write", "disconnect"}, refs : 0..2]
  /\ att \in {"none", "open", "gone"}
  /\ pending \subseteq [id : 1..MaxRequests, timer : Fds \cup {0}]
  /\ queued \in Seq(1..MaxRequests) /\ nextId \in 1..(MaxRequests + 1)

PeerTyped == owed \in BOOLEAN /\ inbox \in Seq({"answer", "notification"}) /\ hup \in BOOLEAN

BleTyped == ble \in Fds \cup {0} /\ crypto \in Fds \cup {0}

IInv ==
  /\ k \in Tables /\ LoopTyped /\ AttTyped /\ PeerTyped /\ BleTyped
  /\ Linked(k) /\ Connection /\ References
  /\ RequestIds /\ TimerPerRequest
  /\ Fetched /\ OnlyTimersStale
---------------------------------------------------------------------------
(* Descriptors.                                                            *)

LEMMA LeastElement ==
  ASSUME NEW S \in SUBSET Nat, S # {}
  PROVE  Min(S) \in S /\ \A n \in S : Min(S) <= n
<1>1. PICK m \in S : \A n \in S : ~ (<<n, m>> \in OpToRel(<, Nat))
  BY NatLessThanWellFounded, WFMin
<1>2. \A n \in S : m <= n
  <2> SUFFICES ASSUME NEW n \in S, n < m PROVE FALSE
    OBVIOUS
  <2>1. <<n, m>> \in OpToRel(<, Nat)
    BY DEF OpToRel
  <2> QED
    BY <1>1, <2>1
<1> QED
  BY <1>1, <1>2 DEF Min

LEMMA LowestIsFree ==
  ASSUME NEW t, FreeFds(t) # {}
  PROVE  /\ LowestFree(t) \in Fds /\ t.files[LowestFree(t)] = "none"
         /\ \A fd \in FreeFds(t) : LowestFree(t) <= fd
<1>1. FreeFds(t) \in SUBSET Nat
  BY MainLoopAssumption DEF FreeFds, Fds
<1> QED
  BY <1>1, LeastElement DEF LowestFree, FreeFds

LEMMA Opened ==
  ASSUME NEW t \in Tables, FreeFds(t) # {}, NEW kind \in File
  PROVE  /\ Open(t, kind) \in Tables
         /\ Open(t, kind).files = [t.files EXCEPT ![LowestFree(t)] = kind]
         /\ Open(t, kind).list = t.list /\ Open(t, kind).heap = t.heap
         /\ Open(t, kind).watch = t.watch /\ Open(t, kind).epfd = t.epfd
<1>1. LowestFree(t) \in Fds
  BY LowestIsFree
<1> QED
  BY <1>1 DEF Open, Tables

LEMMA Closed ==
  ASSUME NEW t \in Tables, NEW fd \in Fds
  PROVE  /\ Close(t, fd) \in Tables
         /\ Close(t, fd).files = [t.files EXCEPT ![fd] = "none"]
         /\ Close(t, fd).watch = [t.watch EXCEPT ![fd] = NoWatch]
         /\ Close(t, fd).list = t.list /\ Close(t, fd).heap = t.heap /\ Close(t, fd).epfd = t.epfd
<1>1. fd # 0
  BY MainLoopAssumption DEF Fds
<1>2. NoWatch \in [ptr : Places \cup {0}, mask : SUBSET Bits] /\ "none" \in File
  BY DEF NoWatch, File
<1> QED
  BY <1>1, <1>2 DEF Close, Tables
---------------------------------------------------------------------------
(* The table of mainloop.c.                                                *)

LEMMA EntryAdded ==
  ASSUME NEW t \in Tables, Linked(t), NEW fd \in Fds, t.files[fd] = "none", ~Refused(fd),
         NEW p \in Places, t.heap[p] = Free, NEW e \in Entry, e.fd = fd,
         NEW w, w.ptr = p,
         NEW r \in Tables, r.files = [t.files EXCEPT ![fd] = IF e.kind = "io" THEN "socket" ELSE "timer"],
         r.list = [t.list EXCEPT ![fd] = p], r.heap = [t.heap EXCEPT ![p] = e],
         r.watch = [t.watch EXCEPT ![fd] = w], r.epfd = t.epfd
  PROVE  Linked(r)
<1> USE DEF Tables, Sockets, Timers
<1>1. 0 \notin Places /\ 0 \notin Fds
  BY MainLoopAssumption DEF Fds
<1>2. t.list[fd] = 0
  BY DEF Linked
<1>3. e # Free
  BY <1>1 DEF Free
<1>4. \A q \in Places : t.heap[q] # Free => t.heap[q].fd \in Fds /\ t.heap[q].fd # fd
  BY <1>2, <1>1 DEF Linked, Entry, Free
<1>5. \A x \in Fds : t.list[x] # p
  BY <1>1 DEF Linked
<1>6. \A x \in Fds : r.watch[x].ptr = r.list[x]
  BY DEF Linked
<1>7. \A x \in Fds : r.list[x] # 0 =>
        /\ r.heap[r.list[x]] # Free /\ r.heap[r.list[x]].fd = x
        /\ r.files[x] \in (IF r.heap[r.list[x]].kind = "io" THEN Sockets ELSE Timers)
        /\ ~Refused(x)
  BY <1>1, <1>3, <1>5 DEF Linked
<1>8. \A q \in Places : r.heap[q] # Free => r.list[r.heap[q].fd] = q
  BY <1>1, <1>4 DEF Linked
<1>9. \A x \in Fds : r.files[x] \in Sockets \cup Timers => r.list[x] # 0
  BY <1>1 DEF Linked
<1>10. r.epfd # 0 => r.files[r.epfd] = "epoll"
  BY DEF Linked
<1> QED
  BY <1>6, <1>7, <1>8, <1>9, <1>10 DEF Linked

\* What mainloop_remove_fd leaves of an entry that is there.
LEMMA EntryRemoved ==
  ASSUME NEW t \in Tables, Linked(t), NEW fd \in Fds, t.list[fd] # 0
  PROVE  LET r == mainloop_remove_fd(t, fd)
             p == t.list[fd]
         IN /\ r \in Tables /\ Linked(r) /\ p \in Places /\ r.epfd = t.epfd
            /\ r.files = [t.files EXCEPT ![fd] = "none"] /\ r.list = [t.list EXCEPT ![fd] = 0]
            /\ r.heap = [t.heap EXCEPT ![p] = Free] /\ r.watch = [t.watch EXCEPT ![fd] = NoWatch]
<1> DEFINE p == t.list[fd]
           u == [t EXCEPT !.list[fd] = 0, !.heap[p] = Free]
           r == Close(u, fd)
<1>1. 0 \notin Places /\ fd # 0 /\ p \in Places
  <2>1. 0 \notin Places /\ 0 \notin Fds
    BY MainLoopAssumption DEF Fds
  <2>2. t.list \in [Fds -> Places \cup {0}]
    BY DEF Tables
  <2> QED
    BY <2>1, <2>2
<1>2. mainloop_remove_fd(t, fd) = r
  BY <1>1 DEF mainloop_remove_fd
<1>3. /\ u \in Tables /\ u.files = t.files /\ u.list = [t.list EXCEPT ![fd] = 0]
      /\ u.heap = [t.heap EXCEPT ![p] = Free] /\ u.watch = t.watch /\ u.epfd = t.epfd
  BY <1>1 DEF Tables
<1> HIDE DEF u, p
<1>c. /\ r \in Tables /\ r.files = [u.files EXCEPT ![fd] = "none"]
      /\ r.watch = [u.watch EXCEPT ![fd] = NoWatch]
      /\ r.list = u.list /\ r.heap = u.heap /\ r.epfd = u.epfd
  BY <1>3, Closed, Zenon
<1> HIDE DEF r
<1>4. /\ r \in Tables /\ r.epfd = t.epfd
      /\ r.files = [t.files EXCEPT ![fd] = "none"] /\ r.list = [t.list EXCEPT ![fd] = 0]
      /\ r.heap = [t.heap EXCEPT ![p] = Free] /\ r.watch = [t.watch EXCEPT ![fd] = NoWatch]
  BY <1>3, <1>c, Zenon
<1> USE DEF p
<1>5. Linked(r)
  <2> USE DEF Tables
  <2>1. t.heap[p] # Free /\ t.heap[p].fd = fd /\ t.files[fd] \in Sockets \cup Timers
    BY <1>1 DEF Linked
  <2>2. \A x \in Fds : x # fd => t.list[x] # p
    BY <1>1, <2>1 DEF Linked
  <2>3. \A q \in Places : q # p /\ t.heap[q] # Free => t.heap[q].fd # fd
    BY <1>1 DEF Linked
  <2>4. \A q \in Places : r.heap[q] # Free => q # p /\ r.heap[q] = t.heap[q]
    BY <1>1, <1>4
  <2>5. \A q \in Places : r.heap[q] # Free => r.list[r.heap[q].fd] = q
    BY <1>1, <1>4, <2>3, <2>4 DEF Linked, Entry
  <2>6. \A x \in Fds : r.watch[x].ptr = r.list[x]
    BY <1>4 DEF Linked, NoWatch
  <2>7. \A x \in Fds : r.list[x] # 0 =>
          /\ r.heap[r.list[x]] # Free /\ r.heap[r.list[x]].fd = x
          /\ r.files[x] \in (IF r.heap[r.list[x]].kind = "io" THEN Sockets ELSE Timers)
          /\ ~Refused(x)
    BY <1>1, <1>4, <2>2 DEF Linked
  <2>8. \A x \in Fds : r.files[x] \in Sockets \cup Timers => r.list[x] # 0
    BY <1>4 DEF Linked, Sockets, Timers
  <2>9. r.epfd # 0 => r.files[r.epfd] = "epoll"
    BY <1>4, <2>1 DEF Linked, Sockets, Timers
  <2> QED
    BY <2>5, <2>6, <2>7, <2>8, <2>9 DEF Linked
<1> QED
  BY <1>1, <1>2, <1>4, <1>5

\* mainloop_modify_fd changes a mask and nothing else.
LEMMA MaskChanged ==
  ASSUME NEW t \in Tables, Linked(t), NEW fd \in Fds, t.list[fd] # 0, NEW mask \in SUBSET Bits
  PROVE  LET r == mainloop_modify_fd(t, fd, mask)
         IN /\ r \in Tables /\ Linked(r)
            /\ r.files = t.files /\ r.list = t.list /\ r.heap = t.heap /\ r.epfd = t.epfd
            /\ \A x \in Fds : r.watch[x].ptr = t.watch[x].ptr
                              /\ r.watch[x].mask = IF x = fd THEN mask ELSE t.watch[x].mask
<1> DEFINE r == [t EXCEPT !.watch[fd].mask = mask]
<1>1. fd # 0
  BY MainLoopAssumption DEF Fds
<1>2. mainloop_modify_fd(t, fd, mask) = r
  BY <1>1 DEF mainloop_modify_fd
<1>3. /\ r \in Tables /\ r.files = t.files /\ r.list = t.list /\ r.heap = t.heap /\ r.epfd = t.epfd
      /\ \A x \in Fds : r.watch[x].ptr = t.watch[x].ptr
                        /\ r.watch[x].mask = IF x = fd THEN mask ELSE t.watch[x].mask
  BY DEF Tables
<1> HIDE DEF r
<1>4. Linked(r)
  BY <1>3 DEF Linked
<1> QED
  BY <1>2, <1>3, <1>4

\* A table without entries.
Empty(t) == t \in Tables /\ Linked(t) /\ \A fd \in Fds : t.list[fd] = 0

LEMMA Initialised ==
  ASSUME NEW t, Empty(t), FreeFds(t) # {}
  PROVE  /\ Empty(mainloop_init(t)) /\ mainloop_init(t).epfd = LowestFree(t)
         /\ \A fd \in FreeFds(t) : fd # LowestFree(t) => fd \in FreeFds(mainloop_init(t))
<1> USE DEF Tables
<1> DEFINE old == IF t.epfd = 0 THEN t ELSE [t EXCEPT !.files[t.epfd] = "lost"]
           low == LowestFree(old)
           opened == Open(old, "epoll")
           r == mainloop_init(t)
<1>1. t \in Tables /\ Linked(t) /\ 0 \notin Fds /\ 0 \notin Places
  BY MainLoopAssumption DEF Empty, Fds
<1>2. /\ old \in Tables /\ old.heap = t.heap
      /\ \A fd \in Fds : old.files[fd] = IF fd = t.epfd THEN "lost" ELSE t.files[fd]
  BY <1>1 DEF File
<1>3. FreeFds(old) = FreeFds(t)
  BY <1>1, <1>2 DEF FreeFds, Linked
<1>4. low = LowestFree(t) /\ low \in Fds
  BY <1>3, LowestIsFree DEF LowestFree
<1> HIDE DEF old
<1>5. /\ opened \in Tables /\ opened.files = [old.files EXCEPT ![low] = "epoll"]
      /\ opened.heap = t.heap
  BY <1>2, <1>3, Opened DEF File
<1> HIDE DEF opened
<1>6. r = [opened EXCEPT !.epfd = low, !.list = [fd \in Fds |-> 0], !.watch = [fd \in Fds |-> NoWatch]]
  BY DEF mainloop_init, old, opened
<1> HIDE DEF r, low
<1>7. /\ r \in Tables /\ r.epfd = low /\ r.list = [fd \in Fds |-> 0] /\ r.heap = t.heap
      /\ r.watch = [fd \in Fds |-> NoWatch] /\ r.files = opened.files
  BY <1>4, <1>5, <1>6 DEF NoWatch
<1>8. \A fd \in Fds : r.files[fd] = IF fd = low THEN "epoll"
                                    ELSE IF fd = t.epfd THEN "lost" ELSE t.files[fd]
  BY <1>2, <1>4, <1>5, <1>7
<1>9. \A p \in Places : r.heap[p] = Free
  <2> SUFFICES ASSUME NEW p \in Places, t.heap[p] # Free PROVE FALSE
    BY <1>7
  <2> QED
    BY <1>1 DEF Linked, Empty, Entry, Free
<1>10. Linked(r)
  <2>1. \A fd \in Fds : r.watch[fd].ptr = r.list[fd] /\ r.list[fd] = 0
    BY <1>7 DEF NoWatch
  <2>2. \A fd \in Fds : t.files[fd] \notin Sockets \cup Timers
    BY <1>1 DEF Linked, Empty
  <2>3. \A fd \in Fds : r.files[fd] \notin Sockets \cup Timers
    BY <1>8, <2>2 DEF Sockets, Timers
  <2>4. r.files[r.epfd] = "epoll"
    BY <1>4, <1>7, <1>8
  <2> QED
    BY <1>9, <2>1, <2>3, <2>4 DEF Linked
<1>11. \A fd \in FreeFds(t) : fd # low => fd \in FreeFds(r)
  BY <1>1, <1>8 DEF FreeFds, Linked
<1> QED
  BY <1>4, <1>7, <1>10, <1>11 DEF Empty, r

LEMMA Finished ==
  ASSUME NEW t \in Tables, Linked(t)
  PROVE  Empty(mainloop_finish(t))
<1> USE DEF Tables
<1> DEFINE left == {fd \in Fds : t.list[fd] # 0}
           r == mainloop_finish(t)
<1>1. 0 \notin Fds /\ 0 \notin Places
  BY MainLoopAssumption DEF Fds
<1>2. /\ r \in Tables /\ r.list = [fd \in Fds |-> 0] /\ r.watch = [fd \in Fds |-> NoWatch] /\ r.epfd = 0
      /\ \A p \in Places : r.heap[p] = IF t.heap[p].fd \in left THEN Free ELSE t.heap[p]
      /\ \A fd \in Fds : r.files[fd] = IF fd \in left \cup {t.epfd} THEN "none" ELSE t.files[fd]
  BY DEF mainloop_finish, NoWatch, File
<1> HIDE DEF r
<1>3. \A p \in Places : r.heap[p] = Free
  BY <1>1, <1>2 DEF Linked, Entry
<1>4. Linked(r)
  BY <1>1, <1>2, <1>3 DEF Linked, NoWatch, Sockets, Timers
<1> QED
  BY <1>2, <1>4 DEF Empty, r

\* A timer that is added, or is not because there is no descriptor below the table's end.
LEMMA TimerAdded ==
  ASSUME NEW t \in Tables, Linked(t), NEW t2, NEW id, NEW req \in Nat,
         timeout_add(t, t2, id, req)
  PROVE  /\ t2 \in Tables /\ Linked(t2)
         /\ id = 0 => t2 = t /\ \A fd \in FreeFds(t) : Refused(fd)
         /\ id # 0 => \E p \in Places :
              /\ t.heap[p] = Free /\ id \in Fds /\ t.files[id] = "none"
              /\ \A fd \in Fds : /\ t2.files[fd] = IF fd = id THEN "timer" ELSE t.files[fd]
                                 /\ t2.list[fd] = IF fd = id THEN p ELSE t.list[fd]
                                 /\ fd # id => t2.watch[fd] = t.watch[fd]
              /\ \A q \in Places : t2.heap[q] = IF q = p THEN [fd |-> id, kind |-> "timer", req |-> req]
                                                 ELSE t.heap[q]
<1>1. 0 \notin Fds
  BY MainLoopAssumption DEF Fds
<1>2. CASE FreeFds(t) = {} \/ Refused(LowestFree(t))
  <2>1. id = 0 /\ t2 = t
    BY <1>2 DEF timeout_add
  <2>2. \A fd \in FreeFds(t) : Refused(fd)
    BY <1>2, LowestIsFree, MainLoopAssumption DEF Refused, FreeFds, Fds
  <2> QED
    BY <2>1, <2>2
<1>3. CASE ~(FreeFds(t) = {} \/ Refused(LowestFree(t)))
  <2> DEFINE e == [fd |-> id, kind |-> "timer", req |-> req]
             opened == Open(t, "timer")
  <2>1. PICK p \in Places : t.heap[p] = Free /\ id = LowestFree(t)
                            /\ t2 = mainloop_add_fd(opened, p, e, TimerMask)
    BY <1>3 DEF timeout_add
  <2>2. id \in Fds /\ t.files[id] = "none"
    BY <1>3, <2>1, LowestIsFree
  <2>3. e \in Entry /\ TimerMask \in SUBSET Bits /\ e.fd = id /\ e.kind = "timer"
    BY <2>2 DEF Entry, TimerMask, Bits
  <2>4. /\ opened \in Tables /\ opened.files = [t.files EXCEPT ![id] = "timer"]
        /\ opened.list = t.list /\ opened.heap = t.heap /\ opened.watch = t.watch
        /\ opened.epfd = t.epfd
    BY <1>3, <2>1, Opened DEF File
  <2> HIDE DEF e, opened
  <2>5. /\ t2 \in Tables /\ t2.files = opened.files /\ t2.epfd = opened.epfd
        /\ t2.list = [opened.list EXCEPT ![e.fd] = p] /\ t2.heap = [opened.heap EXCEPT ![p] = e]
        /\ t2.watch = [opened.watch EXCEPT ![e.fd] = [ptr |-> p, mask |-> TimerMask]]
    BY <2>1, <2>3, <2>4 DEF mainloop_add_fd, Tables, Entry
  <2>6. /\ t2.files = [t.files EXCEPT ![id] = "timer"]
        /\ t2.list = [t.list EXCEPT ![id] = p] /\ t2.heap = [t.heap EXCEPT ![p] = e]
        /\ t2.watch = [t.watch EXCEPT ![id] = [ptr |-> p, mask |-> TimerMask]]
        /\ t2.epfd = t.epfd
    BY <2>3, <2>4, <2>5
  <2>7. ~Refused(id)
    BY <1>3, <2>1
  <2>8. Linked(t2)
    <3>1. t2.files = [t.files EXCEPT ![id] = IF e.kind = "io" THEN "socket" ELSE "timer"]
      BY <2>3, <2>6
    <3> DEFINE w == [ptr |-> p, mask |-> TimerMask]
    <3>2. w.ptr = p /\ t2.watch = [t.watch EXCEPT ![id] = w]
      BY <2>6
    <3> HIDE DEF w
    <3> QED
      BY <2>1, <2>2, <2>3, <2>5, <2>6, <2>7, <3>1, <3>2, EntryAdded
  <2>9. \A fd \in Fds : /\ t2.files[fd] = IF fd = id THEN "timer" ELSE t.files[fd]
                        /\ t2.list[fd] = IF fd = id THEN p ELSE t.list[fd]
    BY <2>2, <2>6 DEF Tables
  <2>10. \A fd \in Fds : fd # id => t2.watch[fd] = t.watch[fd]
    BY <2>2, <2>6 DEF Tables
  <2>11. \A q \in Places : t2.heap[q] = IF q = p THEN e ELSE t.heap[q]
    BY <2>6 DEF Tables
  <2>12. \A q \in Places : t2.heap[q] = IF q = p THEN [fd |-> id, kind |-> "timer", req |-> req]
                                        ELSE t.heap[q]
    BY <2>11, Zenon DEF e
  <2> QED
    BY <1>1, <2>1, <2>2, <2>5, <2>8, <2>9, <2>10, <2>12
<1> QED
  BY <1>2, <1>3
---------------------------------------------------------------------------
(* The socket's io.                                                        *)

Ios == [fd : Fds \cup {0}, events : SUBSET Bits,
        handlers : SUBSET {"read", "write", "disconnect"}, refs : 0..2]

LEMMA HandlerSet ==
  ASSUME NEW i \in Ios, NEW h \in {"read", "write"},
         NEW j \in {SetHandlers(i, {h}, {}), SetHandlers(i, {}, {h})}
  PROVE  j \in Ios /\ j.fd = i.fd /\ j.refs = i.refs
<1> DEFINE EventsOf(a) == {IF x = "read" THEN "in" ELSE "out" : x \in a}
           Set(a, d, b, c) == [i EXCEPT !.handlers = (@ \cup a) \ d, !.events = (@ \cup b) \ c]
<1>1. ASSUME NEW a, NEW b, NEW c, NEW d, a \subseteq {"read", "write"}, b \subseteq Bits
      PROVE  Set(a, d, b, c) \in Ios /\ Set(a, d, b, c).fd = i.fd /\ Set(a, d, b, c).refs = i.refs
  BY <1>1 DEF Ios
<1>2. \A a, d : SetHandlers(i, a, d) = Set(a, d, EventsOf(a), EventsOf(d))
  BY DEF SetHandlers
<1>3. \A a : EventsOf(a) \subseteq Bits
  BY DEF Bits
<1> HIDE DEF Set, EventsOf
<1> QED
  BY <1>1, <1>2, <1>3

LEMMA WokenIsIo ==
  ASSUME NEW i \in Ios, NEW q, NEW p
  PROVE  Woken(i, q, p) \in Ios /\ Woken(i, q, p).fd = i.fd /\ Woken(i, q, p).refs = i.refs
BY HandlerSet DEF Woken

\* The epoll set is told of a socket that is open.
LEMMA WatchedChanged ==
  ASSUME NEW t \in Tables, Linked(t), NEW i \in Ios, i.fd # 0, t.files[i.fd] = "socket",
         NEW r, r = Watched(t, i)
  PROVE  /\ r \in Tables /\ Linked(r)
         /\ r.files = t.files /\ r.list = t.list /\ r.heap = t.heap /\ r.epfd = t.epfd
         /\ r.watch[i.fd].mask = i.events
<1>1. i.fd \in Fds /\ i.events \in SUBSET Bits /\ t.list[i.fd] # 0
  BY DEF Ios, Linked, Sockets
<1>2. r = mainloop_modify_fd(t, i.fd, i.events)
  BY DEF Watched
<1> DEFINE s == mainloop_modify_fd(t, i.fd, i.events)
<1>3. /\ s \in Tables /\ Linked(s)
      /\ s.files = t.files /\ s.list = t.list /\ s.heap = t.heap /\ s.epfd = t.epfd
      /\ s.watch[i.fd].mask = i.events
  BY <1>1, MaskChanged
<1> QED
  BY <1>2, <1>3
---------------------------------------------------------------------------
(* What the invariant says.                                                *)

LEMMA Typed == ASSUME IInv PROVE TypeOK
<1>1. \A fd \in Fds : fd >= MaxEntries => k.list[fd] = 0
  BY MainLoopAssumption DEF IInv, Linked, Refused, Fds
<1> QED
  BY <1>1 DEF IInv, Tables, LoopTyped, AttTyped, PeerTyped, BleTyped, TypeOK

\* An entry is the socket's or that of the pending request's timer.
LEMMA InTable ==
  ASSUME IInv, NEW p \in Places, k.heap[p] # Free
  PROVE  LET e == k.heap[p]
         IN /\ e \in Entry /\ k.list[e.fd] = p
            /\ e.kind = "timer" => /\ pending = {[id |-> e.req, timer |-> e.fd]}
                                   /\ k.files[e.fd] \in Timers
            /\ e.kind = "io" => att = "open" /\ e.fd = io.fd /\ k.files[e.fd] = "socket"
<1> DEFINE e == k.heap[p]
<1>1. e \in Entry /\ e.fd \in Fds /\ k.list[e.fd] = p /\ p # 0 /\ 0 \notin Fds
  BY MainLoopAssumption DEF IInv, Tables, Linked, Entry, Fds
<1>2. k.files[e.fd] \in (IF e.kind = "io" THEN Sockets ELSE Timers)
  BY <1>1 DEF IInv, Linked
<1>3. ASSUME e.kind = "timer" PROVE pending = {[id |-> e.req, timer |-> e.fd]}
  <2>1. [id |-> e.req, timer |-> e.fd] \in pending
    BY <1>1, <1>3 DEF IInv, TimerPerRequest
  <2> QED
    BY <2>1 DEF IInv, RequestIds
<1>4. ASSUME e.kind = "io" PROVE att = "open" /\ e.fd = io.fd /\ k.files[e.fd] = "socket"
  <2>1. k.files[e.fd] = "socket"
    BY <1>2, <1>4 DEF Sockets
  <2>2. e.fd = io.fd /\ io.fd # 0
    BY <1>1, <2>1 DEF IInv, Connection
  <2> QED
    BY <2>1, <2>2 DEF IInv, Connection, AttTyped
<1> QED
  BY <1>1, <1>2, <1>3, <1>4

\* Without a connection the tables are empty.
LEMMA NothingOpen ==
  ASSUME IInv, att = "none"
  PROVE  Empty(k)
<1>1. \A fd \in Fds : k.list[fd] = 0
  <2> SUFFICES ASSUME NEW fd \in Fds, k.list[fd] # 0 PROVE FALSE
    OBVIOUS
  <2>1. k.list[fd] \in Places /\ k.heap[k.list[fd]] # Free
    BY DEF IInv, Tables, Linked
  <2>2. k.heap[k.list[fd]].kind = "timer" /\ pending # {}
    BY <2>1, InTable DEF Entry
  <2> QED
    BY <2>2 DEF IInv, Connection
<1> QED
  BY <1>1 DEF Empty, IInv

\* The socket and its entry while the connection is open.
LEMMA Listening ==
  ASSUME IInv, att = "open"
  PROVE  /\ io \in Ios /\ io.fd \in Fds /\ io.fd # 0 /\ k.files[io.fd] = "socket"
         /\ k.list[io.fd] \in Places /\ k.list[io.fd] # 0
         /\ k.heap[k.list[io.fd]] # Free /\ k.heap[k.list[io.fd]].kind = "io"
         /\ k.heap[k.list[io.fd]].fd = io.fd
<1>1. io \in Ios /\ io.fd \in Fds /\ io.fd # 0 /\ k.files[io.fd] = "socket"
  BY MainLoopAssumption DEF IInv, Connection, AttTyped, BleTyped, Ios, Fds
<1>2. k.list[io.fd] # 0 /\ k.list[io.fd] \in Places
  BY <1>1 DEF IInv, Linked, Tables, Sockets
<1>3. k.heap[k.list[io.fd]] # Free /\ k.heap[k.list[io.fd]].fd = io.fd
  BY <1>1, <1>2 DEF IInv, Linked
<1>4. k.heap[k.list[io.fd]].kind # "timer"
  BY <1>1, <1>2, <1>3, InTable DEF Timers
<1>5. k.heap[k.list[io.fd]].kind = "io"
  BY <1>2, <1>3, <1>4, InTable DEF Entry
<1> QED
  BY <1>1, <1>2, <1>3, <1>5

\* A handler of the socket runs only while the connection is open.
LEMMA HandlerRuns ==
  ASSUME IInv, NEW bit, NEW before, Handling(bit, before)
  PROVE  att = "open" /\ call.on /\ prog = "running" /\ freed = "unused"
BY DEF IInv, Connection, AttTyped, Handling, InLoop

\* A file that the main loop does not watch.
LEMMA OpenedUnwatched ==
  ASSUME NEW t \in Tables, Linked(t), FreeFds(t) # {}, NEW kind \in {"zip", "crypto"}
  PROVE  LET r == Open(t, kind)
         IN /\ r \in Tables /\ Linked(r) /\ r.files = [t.files EXCEPT ![LowestFree(t)] = kind]
            /\ r.list = t.list /\ r.heap = t.heap /\ r.watch = t.watch
<1> DEFINE r == Open(t, kind)
           low == LowestFree(t)
<1>1. low \in Fds /\ t.files[low] = "none" /\ kind \in File
  BY LowestIsFree DEF File
<1>2. /\ r \in Tables /\ r.files = [t.files EXCEPT ![low] = kind]
      /\ r.list = t.list /\ r.heap = t.heap /\ r.watch = t.watch /\ r.epfd = t.epfd
  BY <1>1, Opened
<1> HIDE DEF r, low
<1>3. Linked(r)
  BY <1>1, <1>2 DEF Linked, Sockets, Timers, Tables
<1> QED
  BY <1>2, <1>3 DEF r, low

\* What holds without a connection.
LEMMA Disconnected ==
  ASSUME LoopTyped', AttTyped', PeerTyped', BleTyped', Empty(k'),
         att' = "none", io'.fd = 0, io'.refs = 0, pending' = {}, queued' = <<>>, ble' = 0, crypto' = 0,
         prog' = "out", batch' = <<>>, ~call'.on, freed' # "memory"
  PROVE  IInv'
<1> USE MainLoopAssumption
<1>1. Connection'
  BY DEF Connection, Empty, Linked, Sockets
<1>2. References'
  BY DEF References
<1>3. RequestIds'
  BY DEF RequestIds, Oldest, AttTyped
<1>4. TimerPerRequest'
  BY DEF TimerPerRequest, Empty
<1>5. Fetched' /\ OnlyTimersStale'
  BY DEF Fetched, OnlyTimersStale
<1> QED
  BY <1>1, <1>2, <1>3, <1>4, <1>5 DEF IInv, Empty

LEMMA Events ==
  ASSUME IInv, NEW n \in DOMAIN batch
  PROVE  batch[n].ptr \in Places /\ batch[n].was \in Entry /\ batch[n].was.req \in Nat
<1> DEFINE Type == [ptr : Places, bits : SUBSET Bits, was : Entry]
<1>1. batch \in Seq(Type)
  BY DEF IInv, LoopTyped
<1> HIDE DEF Type
<1>2. batch[n] \in Type
  BY <1>1, ElementOfSeq, LenProperties
<1> QED
  BY <1>2 DEF Type, Entry

\* Outside of the main loop, before a connection is opened.
LEMMA Apart ==
  ASSUME IInv, prog = "out", ble = 0
  PROVE  /\ Empty(k) /\ att = "none" /\ io.fd = 0 /\ io.refs = 0 /\ pending = {} /\ queued = <<>>
         /\ crypto = 0 /\ batch = <<>> /\ ~call.on
<1>1. att = "none" /\ batch = <<>> /\ ~call.on
  BY DEF IInv, Connection, References
<1>2. io.refs = 0 /\ io.fd = 0 /\ pending = {} /\ queued = <<>> /\ crypto = 0
  BY <1>1 DEF IInv, Connection, References
<1> QED
  BY <1>1, <1>2, NothingOpen

\* The end of a connection, however the tables are cleared.
LEMMA Ended ==
  ASSUME IInv, Outside, NoConnection, UNCHANGED loopVars, Empty(k')
  PROVE  IInv'
<1> USE MainLoopAssumption
<1>1. AttTyped' /\ BleTyped' /\ PeerTyped'
  <2>1. io' \in Ios
    BY DEF NoConnection, NoIo, Ios
  <2>2. queued' \in Seq(1..MaxRequests) /\ nextId' \in 1..(MaxRequests + 1)
        /\ inbox' \in Seq({"answer", "notification"})
    BY DEF NoConnection
  <2> QED
    BY <2>1, <2>2 DEF AttTyped, BleTyped, PeerTyped, NoConnection, Ios
<1>2. LoopTyped'
  BY DEF IInv, LoopTyped, loopVars
<1>3. batch' = <<>> /\ ~call'.on /\ prog' = "out" /\ freed' # "memory"
  BY DEF IInv, References, Outside, loopVars
<1> QED
  BY <1>1, <1>2, <1>3, Disconnected DEF NoConnection, NoIo
---------------------------------------------------------------------------
(* The program outside of the main loop.                                   *)

LEMMA TwoFree ==
  ASSUME NEW t \in Tables, Cardinality(FreeFds(t)) >= 2
  PROVE  \E fd \in FreeFds(t) : fd # LowestFree(t)
<1>1. SUFFICES ASSUME FreeFds(t) \subseteq {LowestFree(t)} PROVE FALSE
  OBVIOUS
<1>2. Cardinality({LowestFree(t)}) = 1 /\ IsFiniteSet({LowestFree(t)})
  BY FS_Singleton
<1>3. Cardinality(FreeFds(t)) <= 1
  BY <1>1, <1>2, FS_Subset
<1>4. Cardinality(FreeFds(t)) \in Nat
  BY <1>1, <1>2, FS_Subset, FS_CardinalityType
<1> QED
  BY <1>3, <1>4

LEMMA StartUpdateKeeps == ASSUME IInv, StartUpdate PROVE IInv'
<1>1. /\ Empty(k) /\ att = "none" /\ io.fd = 0 /\ io.refs = 0 /\ pending = {} /\ queued = <<>>
      /\ crypto = 0 /\ batch = <<>> /\ ~call.on
  BY Apart DEF StartUpdate, Outside
<1>2. PICK fd \in FreeFds(k) : fd # LowestFree(k)
  BY TwoFree DEF StartUpdate, IInv
<1> DEFINE t == mainloop_init(k)
<1>3. Empty(t) /\ FreeFds(t) # {}
  BY <1>1, <1>2, Initialised
<1>4. k' = Open(t, "zip")
  BY DEF StartUpdate
<1> HIDE DEF t
<1>5. Empty(k')
  BY <1>3, <1>4, OpenedUnwatched DEF Empty
<1>6. LoopTyped' /\ AttTyped' /\ PeerTyped' /\ BleTyped'
  BY DEF IInv, LoopTyped, AttTyped, PeerTyped, BleTyped, StartUpdate, attVars, peerVars
<1> QED
  BY <1>1, <1>5, <1>6, Disconnected DEF StartUpdate, Outside, attVars

LEMMA ReinitKeeps == ASSUME IInv, Reinit PROVE IInv'
<1>1. /\ Empty(k) /\ att = "none" /\ io.fd = 0 /\ io.refs = 0 /\ pending = {} /\ queued = <<>>
      /\ crypto = 0 /\ batch = <<>> /\ ~call.on
  BY Apart DEF Reinit, Outside
<1>2. Empty(k')
  BY <1>1, Initialised DEF Reinit
<1>3. LoopTyped' /\ AttTyped' /\ PeerTyped' /\ BleTyped'
  BY DEF IInv, LoopTyped, AttTyped, PeerTyped, BleTyped, Reinit, attVars, peerVars
<1> QED
  BY <1>1, <1>2, <1>3, Disconnected DEF Reinit, Outside, attVars

LEMMA EndUpdateKeeps == ASSUME IInv, EndUpdate PROVE IInv'
<1>1. Empty(k')
  BY Finished DEF EndUpdate, IInv
<1> QED
  BY <1>1, Ended DEF EndUpdate

LEMMA ClosedUnwatched ==
  ASSUME NEW t, Empty(t), NEW fd \in Fds \cup {0}, fd # 0 => t.files[fd] # "epoll"
  PROVE  /\ Empty(Close(t, fd))
         /\ \A x \in Fds : Close(t, fd).files[x] = IF x = fd THEN "none" ELSE t.files[x]
<1>1. t \in Tables /\ Linked(t) /\ 0 \notin Fds
  BY MainLoopAssumption DEF Empty, Fds
<1>2. CASE fd = 0
  BY <1>1, <1>2 DEF Close
<1>3. CASE fd \in Fds
  <2> DEFINE r == Close(t, fd)
  <2>1. /\ r \in Tables /\ r.files = [t.files EXCEPT ![fd] = "none"]
        /\ r.watch = [t.watch EXCEPT ![fd] = NoWatch]
        /\ r.list = t.list /\ r.heap = t.heap /\ r.epfd = t.epfd
    BY <1>1, <1>3, Closed
  <2> HIDE DEF r
  <2>2. /\ \A x \in Fds : r.watch[x].ptr = r.list[x]
        /\ \A x \in Fds : r.list[x] = 0
    BY <1>1, <1>3, <2>1 DEF Empty, Linked, NoWatch, Tables
  <2>3. \A x \in Fds : r.files[x] = IF x = fd THEN "none" ELSE t.files[x]
    BY <1>1, <1>3, <2>1 DEF Tables
  <2>4. Linked(r)
    BY <1>1, <1>3, <2>1, <2>2, <2>3 DEF Linked, Sockets, Timers, Empty, Tables
  <2> QED
    BY <2>1, <2>2, <2>3, <2>4 DEF Empty, r
<1> QED
  BY <1>2, <1>3

\* The timer that bt_att_free drops is the table's only one.
LEMMA TimerDropped ==
  ASSUME IInv,
         NEW t, t = IF \E op \in pending : op.timer # 0
                    THEN destroy_att_send_op(k, CHOOSE op \in pending : TRUE) ELSE k
  PROVE  /\ t \in Tables /\ Linked(t)
         /\ \A fd \in Fds : k.files[fd] \notin Timers => t.files[fd] = k.files[fd] /\ t.list[fd] = k.list[fd]
         /\ \A fd \in Fds : t.list[fd] # 0 => k.list[fd] # 0 /\ k.files[fd] = "socket"
<1>1. \A fd \in Fds : k.list[fd] # 0 /\ k.files[fd] # "socket" =>
        \E op \in pending : op.timer = fd
  <2> SUFFICES ASSUME NEW fd \in Fds, k.list[fd] # 0, k.files[fd] # "socket"
               PROVE  \E op \in pending : op.timer = fd
    OBVIOUS
  <2> DEFINE p == k.list[fd]
  <2>1. p \in Places /\ k.heap[p] # Free /\ k.heap[p].fd = fd
    BY DEF IInv, Tables, Linked
  <2>2. k.heap[p].kind = "timer"
    BY <2>1, InTable DEF Entry
  <2> QED
    BY <2>1, <2>2 DEF IInv, TimerPerRequest
<1>2. CASE \E op \in pending : op.timer # 0
  <2>1. PICK op \in pending : op.timer # 0
    BY <1>2
  <2>2. (CHOOSE o \in pending : TRUE) = op
    BY <2>1 DEF IInv, RequestIds
  <2>3. op.timer \in Fds /\ k.list[op.timer] # 0
    BY <2>1 DEF IInv, AttTyped, TimerPerRequest
  <2>4. t = mainloop_remove_fd(k, op.timer)
    BY <1>2, <2>2 DEF destroy_att_send_op, timeout_remove
  <2> DEFINE r == mainloop_remove_fd(k, op.timer)
  <2>5. /\ r \in Tables /\ Linked(r)
        /\ r.files = [k.files EXCEPT ![op.timer] = "none"] /\ r.list = [k.list EXCEPT ![op.timer] = 0]
    BY <2>3, EntryRemoved DEF IInv
  <2> HIDE DEF r
  <2>6. t = r
    BY <2>4 DEF r
  <2>7. k.files[op.timer] \in Timers
    <3> DEFINE p == k.list[op.timer]
    <3>1. p \in Places /\ k.heap[p] # Free /\ k.heap[p].fd = op.timer /\ k.heap[p].kind = "timer"
      BY <2>1, <2>3 DEF IInv, Tables, Linked, TimerPerRequest
    <3> QED
      BY <3>1, InTable
  <2>8. \A o \in pending : o = op
    BY <2>1 DEF IInv, RequestIds
  <2>9. k.list \in [Fds -> Places \cup {0}] /\ k.files \in [Fds -> File]
    BY DEF IInv, Tables
  <2> QED
    BY <1>1, <2>3, <2>5, <2>6, <2>7, <2>8, <2>9
<1>3. CASE ~ \E op \in pending : op.timer # 0
  <2>1. 0 \notin Fds
    BY MainLoopAssumption DEF Fds
  <2> QED
    BY <1>1, <1>3, <2>1 DEF IInv
<1> QED
  BY <1>2, <1>3

LEMMA BleCloseKeeps == ASSUME IInv, ble_close PROVE IInv'
<1> DEFINE timerless == IF \E op \in pending : op.timer # 0
                        THEN destroy_att_send_op(k, CHOOSE op \in pending : TRUE) ELSE k
           socketless == mainloop_remove_fd(timerless, io.fd)
           cryptoless == Close(socketless, crypto)
<1>1. k' = Close(cryptoless, ble) /\ ble # 0 /\ Outside /\ NoConnection /\ UNCHANGED loopVars
  BY DEF ble_close
<1>2. /\ timerless \in Tables /\ Linked(timerless)
      /\ \A fd \in Fds : k.files[fd] \notin Timers =>
           timerless.files[fd] = k.files[fd] /\ timerless.list[fd] = k.list[fd]
      /\ \A fd \in Fds : timerless.list[fd] # 0 => k.list[fd] # 0 /\ k.files[fd] = "socket"
  BY TimerDropped
<1> HIDE DEF timerless
<1>3. ble \in Fds /\ crypto \in Fds \cup {0} /\ 0 \notin Fds
  BY <1>1, MainLoopAssumption DEF IInv, BleTyped, Fds
<1>4. /\ Empty(socketless) /\ socketless.files[ble] = "none"
      /\ crypto # 0 => socketless.files[crypto] = "crypto"
  <2>1. CASE att = "open"
    <3>1. io.fd \in Fds /\ k.files[io.fd] = "socket" /\ k.list[io.fd] # 0 /\ ble = io.fd
      BY <2>1, Listening DEF IInv, Connection
    <3>2. timerless.list[io.fd] # 0
      BY <1>2, <3>1 DEF Timers
    <3>3. /\ socketless \in Tables /\ Linked(socketless)
          /\ socketless.files = [timerless.files EXCEPT ![io.fd] = "none"]
          /\ socketless.list = [timerless.list EXCEPT ![io.fd] = 0]
      BY <1>2, <3>1, <3>2, EntryRemoved
    <3> HIDE DEF socketless
    <3>4. \A fd \in Fds : k.files[fd] = "socket" => fd = io.fd
      BY DEF IInv, Connection
    <3>5. \A fd \in Fds : socketless.list[fd] = 0
      BY <1>2, <3>1, <3>3, <3>4 DEF Tables
    <3>6. crypto # 0 => crypto # io.fd /\ timerless.files[crypto] = "crypto"
      BY <1>2, <1>3, <3>1 DEF IInv, Connection, Timers
    <3> QED
      BY <1>2, <1>3, <3>1, <3>3, <3>5, <3>6 DEF Empty, Tables
  <2>2. CASE att # "open"
    <3>1. att = "gone" /\ io.fd = 0 /\ k.files[ble] = "none"
      BY <1>1, <2>2 DEF IInv, Connection, AttTyped
    <3>2. socketless = timerless
      BY <3>1 DEF mainloop_remove_fd
    <3>3. \A fd \in Fds : timerless.list[fd] = 0
      BY <1>2, <1>3, <3>1 DEF IInv, Connection
    <3>4. crypto # 0 => timerless.files[crypto] = "crypto"
      BY <1>2, <1>3 DEF IInv, Connection, Timers
    <3>5. timerless.files[ble] = "none"
      BY <1>2, <1>3, <3>1 DEF Timers
    <3> QED
      BY <1>2, <3>2, <3>3, <3>4, <3>5 DEF Empty
  <2> QED
    BY <2>1, <2>2
<1> HIDE DEF socketless
<1>5. Empty(cryptoless) /\ cryptoless.files[ble] = "none"
  BY <1>3, <1>4, ClosedUnwatched
<1> HIDE DEF cryptoless
<1>6. Empty(k')
  BY <1>1, <1>3, <1>5, ClosedUnwatched
<1> QED
  BY <1>1, <1>6, Ended

\* The socket is entered in a table that is empty, and watched.
LEMMA SocketEntered ==
  ASSUME NEW t, Empty(t), FreeFds(t) # {}, ~Refused(LowestFree(t)),
         NEW p \in Places, t.heap[p] = Free,
         NEW fd, fd = LowestFree(t),
         NEW r, r = Watched(mainloop_add_fd(Open(t, "socket"), p, [fd |-> fd, kind |-> "io", req |-> 0], {}),
                            NewIo(fd))
  PROVE  /\ r \in Tables /\ Linked(r) /\ fd \in Fds
         /\ r.files[fd] = "socket" /\ r.watch[fd].mask = NewIo(fd).events
         /\ r.heap[r.list[fd]].kind = "io"
         /\ \A x \in Fds : x # fd => r.list[x] = 0 /\ r.files[x] = t.files[x]
<1> DEFINE e == [fd |-> fd, kind |-> "io", req |-> 0]
           w == [ptr |-> p, mask |-> {}]
           opened == Open(t, "socket")
           added == mainloop_add_fd(opened, p, e, {})
           i == NewIo(fd)
<1>1. /\ t \in Tables /\ Linked(t) /\ \A x \in Fds : t.list[x] = 0
      /\ fd \in Fds /\ t.files[fd] = "none" /\ ~Refused(fd) /\ fd # 0 /\ 0 \notin Places
  BY LowestIsFree, MainLoopAssumption DEF Empty, Fds
<1>2. /\ opened \in Tables /\ opened.files = [t.files EXCEPT ![fd] = "socket"]
      /\ opened.list = t.list /\ opened.heap = t.heap /\ opened.watch = t.watch
      /\ opened.epfd = t.epfd
  BY <1>1, Opened DEF File
<1>3. e \in Entry /\ e.fd = fd /\ e.kind = "io" /\ w.ptr = p /\ {} \subseteq Bits
      /\ w \in [ptr : Places \cup {0}, mask : SUBSET Bits]
  BY <1>1 DEF Entry
<1> HIDE DEF opened
<1>4. /\ added = [opened EXCEPT !.heap[p] = e, !.list[e.fd] = p, !.watch[e.fd] = w]
  BY DEF mainloop_add_fd
<1> HIDE DEF e, w, added
<1>5. /\ added \in Tables /\ added.files = opened.files /\ added.epfd = opened.epfd
      /\ added.list = [opened.list EXCEPT ![fd] = p] /\ added.heap = [opened.heap EXCEPT ![p] = e]
      /\ added.watch = [opened.watch EXCEPT ![fd] = w]
  BY <1>1, <1>2, <1>3, <1>4 DEF Tables
<1>6. added.files = [t.files EXCEPT ![fd] = IF e.kind = "io" THEN "socket" ELSE "timer"]
  BY <1>2, <1>3, <1>5
<1>7. Linked(added)
  BY <1>1, <1>2, <1>3, <1>5, <1>6, EntryAdded
<1>8. i \in Ios /\ i.fd = fd
  BY <1>1 DEF NewIo, Ios, Bits
<1>9. added.files[fd] = "socket" /\ added.list[fd] = p /\ added.heap[p] = e
  BY <1>1, <1>2, <1>5 DEF Tables
<1>10. r = Watched(added, i)
  BY DEF added, opened, e
<1> HIDE DEF i
<1>11. /\ r \in Tables /\ Linked(r) /\ r.files = added.files /\ r.list = added.list
       /\ r.heap = added.heap /\ r.watch[i.fd].mask = i.events
  BY <1>1, <1>5, <1>7, <1>8, <1>9, <1>10, WatchedChanged
<1>12. \A x \in Fds : x # fd => r.list[x] = 0 /\ r.files[x] = t.files[x]
  BY <1>1, <1>2, <1>5, <1>11 DEF Tables
<1> QED
  BY <1>1, <1>3, <1>8, <1>9, <1>11, <1>12 DEF i

LEMMA BleOpenKeeps == ASSUME IInv, ble_open PROVE IInv'
<1> USE MainLoopAssumption
<1>1. /\ Empty(k) /\ att = "none" /\ batch = <<>> /\ ~call.on
      /\ prog = "out" /\ freed = "unused" /\ UNCHANGED loopVars
  BY Apart DEF ble_open, Outside
<1>2. LoopTyped'
  BY DEF IInv, LoopTyped, ble_open, loopVars
<1>3. CASE FreeFds(k) = {} \/ Refused(LowestFree(k))
  <2>1. UNCHANGED <<k, attVars, peerVars, ble, crypto>>
    BY <1>3 DEF ble_open
  <2>2. AttTyped' /\ PeerTyped' /\ BleTyped' /\ Empty(k')
    BY <1>1, <2>1 DEF IInv, AttTyped, PeerTyped, BleTyped, attVars, peerVars
  <2>3. io.refs = 0 /\ io.fd = 0 /\ pending = {} /\ queued = <<>> /\ crypto = 0
    BY Apart DEF ble_open, Outside
  <2> QED
    BY <1>1, <1>2, <2>1, <2>2, <2>3, Disconnected DEF attVars, loopVars, ble_open
<1>4. CASE ~(FreeFds(k) = {} \/ Refused(LowestFree(k)))
  <2> DEFINE fd == LowestFree(k)
             Set(p) == Watched(mainloop_add_fd(Open(k, "socket"), p,
                                               [fd |-> fd, kind |-> "io", req |-> 0], {}), NewIo(fd))
  <2>1. PICK p \in Places :
          /\ k.heap[p] = Free
          /\ \/ k' = Set(p) /\ crypto' = 0
             \/ FreeFds(Set(p)) # {} /\ k' = Open(Set(p), "crypto") /\ crypto' = LowestFree(Set(p))
    BY <1>4 DEF ble_open
  <2>2. /\ io' = NewIo(fd) /\ att' = "open" /\ ble' = fd
        /\ pending' = {} /\ queued' = <<>> /\ nextId' = 1
        /\ owed' = FALSE /\ inbox' = <<>> /\ hup' = FALSE
    BY <1>4 DEF ble_open
  <2> DEFINE set == Set(p)
  <2>3. /\ set \in Tables /\ Linked(set) /\ fd \in Fds
        /\ set.files[fd] = "socket" /\ set.watch[fd].mask = NewIo(fd).events
        /\ set.heap[set.list[fd]].kind = "io"
        /\ \A x \in Fds : x # fd => set.list[x] = 0 /\ set.files[x] = k.files[x]
    BY <1>1, <1>4, <2>1, SocketEntered
  <2> HIDE DEF Set, fd
  <2>4. /\ k' \in Tables /\ Linked(k') /\ k'.list = set.list /\ k'.heap = set.heap /\ k'.watch = set.watch
        /\ crypto' \in Fds \cup {0} /\ k'.files[fd] = "socket"
        /\ crypto' # 0 => k'.files[crypto'] = "crypto"
        /\ \A x \in Fds : k'.files[x] = "socket" => set.files[x] = "socket"
    <3>1. CASE k' = set /\ crypto' = 0
      BY <2>3, <3>1
    <3>2. CASE FreeFds(set) # {} /\ k' = Open(set, "crypto") /\ crypto' = LowestFree(set)
      <4>1. crypto' \in Fds /\ set.files[crypto'] = "none"
        BY <3>2, LowestIsFree
      <4>2. /\ k' \in Tables /\ Linked(k') /\ k'.files = [set.files EXCEPT ![crypto'] = "crypto"]
            /\ k'.list = set.list /\ k'.heap = set.heap /\ k'.watch = set.watch
        BY <2>3, <3>2, OpenedUnwatched
      <4> QED
        BY <2>3, <4>1, <4>2 DEF Tables
    <3> QED
      BY <2>1, <3>1, <3>2
  <2> HIDE DEF set
  <2>5. AttTyped' /\ PeerTyped' /\ BleTyped'
    <3>1. io' \in Ios
      BY <2>2, <2>3 DEF NewIo, Ios, Bits
    <3>2. queued' \in Seq(1..MaxRequests) /\ nextId' \in 1..(MaxRequests + 1)
          /\ inbox' \in Seq({"answer", "notification"})
      BY <2>2
    <3> QED
      BY <2>2, <2>3, <2>4, <3>1, <3>2 DEF AttTyped, PeerTyped, BleTyped, Ios
  <2>6. \A x \in Fds : k'.files[x] = "socket" => x = fd
    BY <1>1, <2>3, <2>4 DEF Empty, Linked, Sockets
  <2>7. io'.fd = fd /\ io'.events = NewIo(fd).events /\ io'.refs = 1 /\ fd # 0
    BY <2>2, <2>3 DEF NewIo, Fds
  <2>8. Connection'
    BY <1>1, <2>2, <2>3, <2>4, <2>6, <2>7 DEF Connection
  <2>9. References'
    BY <1>1, <2>2, <2>7 DEF References, loopVars
  <2>10. RequestIds'
    BY <2>2 DEF RequestIds, Oldest
  <2>11. TimerPerRequest'
    BY <2>2, <2>3, <2>4 DEF TimerPerRequest
  <2>12. Fetched' /\ OnlyTimersStale'
    BY <1>1 DEF Fetched, OnlyTimersStale, loopVars
  <2> QED
    BY <1>2, <2>4, <2>5, <2>8, <2>9, <2>10, <2>11, <2>12 DEF IInv
<1> QED
  BY <1>3, <1>4
---------------------------------------------------------------------------
(* The queue.                                                              *)

LEMMA HeadTail ==
  ASSUME NEW S, NEW s \in Seq(S), s # <<>>
  PROVE  /\ Head(s) \in S /\ Head(s) = s[1] /\ 1 \in DOMAIN s /\ Len(s) \in Nat \ {0}
         /\ Tail(s) \in Seq(S) /\ Len(Tail(s)) = Len(s) - 1
         /\ \A n \in DOMAIN Tail(s) : n + 1 \in DOMAIN s /\ Tail(s)[n] = s[n + 1]
         /\ \A n \in DOMAIN Tail(s) : n \in Nat \ {0} /\ Tail(s)[n] \in S
BY HeadTailProperties

LEMMA Enqueueing ==
  ASSUME IInv, nextId <= MaxRequests, queued' = Enqueued, nextId' = nextId + 1,
         pending' \in {pending, {}}
  PROVE  /\ RequestIds' /\ Oldest' = Oldest
         /\ queued' \in Seq(1..MaxRequests) /\ nextId' \in 1..(MaxRequests + 1) /\ queued' # <<>>
<1> USE MainLoopAssumption
<1>1. queued \in Seq(1..MaxRequests) /\ nextId \in 1..MaxRequests /\ Len(queued) \in Nat
  BY DEF IInv, AttTyped
<1>2. /\ queued' \in Seq(1..MaxRequests) /\ Len(queued') = Len(queued) + 1 /\ queued' # <<>>
      /\ \A i \in DOMAIN queued' : i \in 1..(Len(queued) + 1)
           /\ queued'[i] = IF i = Len(queued) + 1 THEN nextId ELSE queued[i]
  BY <1>1, AppendProperties DEF Enqueued
<1>3. nextId' \in 1..(MaxRequests + 1) /\ Oldest' = Oldest /\ Oldest \in Nat \ {0}
  BY <1>1, <1>2 DEF Oldest, IInv, RequestIds
<1>4. \A i \in DOMAIN queued' : queued'[i] = Oldest + i - 1
  <2> SUFFICES ASSUME NEW i \in DOMAIN queued' PROVE queued'[i] = Oldest + i - 1
    OBVIOUS
  <2>1. CASE i = Len(queued) + 1
    <3> DEFINE n == Len(queued)
    <3>1. n \in Nat /\ nextId \in Nat /\ Oldest = nextId - n /\ i = n + 1
      BY <1>1, <2>1 DEF Oldest
    <3>2. queued'[i] = nextId
      BY <1>2, <2>1
    <3> HIDE DEF n
    <3>3. Oldest + i - 1 = nextId
      BY <3>1
    <3> QED
      BY <3>2, <3>3
  <2>2. CASE i # Len(queued) + 1
    <3>1. i \in DOMAIN queued
      BY <1>1, <1>2, <2>2
    <3>2. \A j \in DOMAIN queued : queued[j] = Oldest + j - 1
      BY DEF IInv, RequestIds
    <3>3. queued'[i] = queued[i]
      BY <1>2, <2>2
    <3> QED
      BY <3>1, <3>2, <3>3, Zenon
  <2> QED
    BY <2>1, <2>2
<1>5. RequestIds'
  BY <1>3, <1>4 DEF IInv, RequestIds
<1> QED
  BY <1>2, <1>3, <1>5

LEMMA Dequeueing ==
  ASSUME IInv, queued # <<>>, queued' = Tail(queued), nextId' = nextId
  PROVE  /\ queued' \in Seq(1..MaxRequests) /\ Head(queued) \in 1..MaxRequests
         /\ Oldest' = Oldest + 1 /\ Head(queued) = Oldest /\ Oldest \in Nat \ {0}
         /\ \A i \in DOMAIN queued' : queued'[i] = Oldest' + i - 1
<1>1. queued \in Seq(1..MaxRequests) /\ nextId \in Nat /\ Oldest \in Nat \ {0}
  BY DEF IInv, AttTyped, RequestIds
<1>2. /\ Head(queued) \in 1..MaxRequests /\ Head(queued) = queued[1] /\ 1 \in DOMAIN queued
      /\ Len(queued) \in Nat \ {0}
      /\ Tail(queued) \in Seq(1..MaxRequests) /\ Len(Tail(queued)) = Len(queued) - 1
      /\ \A n \in DOMAIN Tail(queued) :
           n \in Nat \ {0} /\ n + 1 \in DOMAIN queued /\ Tail(queued)[n] = queued[n + 1]
  <2> DEFINE S == 1..MaxRequests
  <2> HIDE DEF S
  <2>1. queued \in Seq(S)
    BY <1>1 DEF S
  <2>2. /\ Head(queued) \in S /\ Head(queued) = queued[1] /\ 1 \in DOMAIN queued
        /\ Len(queued) \in Nat \ {0}
        /\ Tail(queued) \in Seq(S) /\ Len(Tail(queued)) = Len(queued) - 1
        /\ \A n \in DOMAIN Tail(queued) : n + 1 \in DOMAIN queued /\ Tail(queued)[n] = queued[n + 1]
        /\ \A n \in DOMAIN Tail(queued) : n \in Nat \ {0}
    BY <2>1, HeadTail
  <2> QED
    BY <2>2, Zenon DEF S
<1>3. Oldest' = Oldest + 1
  <2> DEFINE n == Len(queued)
             m == Len(Tail(queued))
  <2>1. n \in Nat /\ m = n - 1 /\ Oldest' = nextId - m /\ Oldest = nextId - n
    BY <1>2 DEF Oldest
  <2> HIDE DEF n, m
  <2> QED
    BY <1>1, <2>1
<1>4. Head(queued) = Oldest
  BY <1>1, <1>2 DEF IInv, RequestIds
<1>5. \A i \in DOMAIN queued' : queued'[i] = Oldest' + i - 1
  BY <1>1, <1>2, <1>3 DEF IInv, RequestIds
<1> QED
  BY <1>1, <1>2, <1>3, <1>4, <1>5
---------------------------------------------------------------------------
(* Steps that change masks of the epoll set at most.                       *)

LEMMA StillOpen ==
  ASSUME IInv, LoopTyped', AttTyped', PeerTyped', att = "open", att' = "open",
         k' \in Tables, Linked(k'), k'.files = k.files, k'.list = k.list, k'.heap = k.heap,
         io'.fd = io.fd, k'.watch[io.fd].mask = io'.events,
         UNCHANGED <<ble, crypto, pending, batch, freed>>, call'.on => call.on,
         References', RequestIds', Oldest <= Oldest'
  PROVE  IInv'
<1>1. BleTyped'
  BY DEF IInv, BleTyped
<1>2. Connection'
  BY DEF IInv, Connection
<1>3. TimerPerRequest'
  BY DEF IInv, TimerPerRequest, FreeFds
<1>4. Fetched'
  <2>1. \A n \in DOMAIN batch : batch[n].was.req \in Nat
    BY Events
  <2>2. Oldest \in Nat /\ Oldest' \in Nat
    BY DEF IInv, RequestIds
  <2>3. \A n \in DOMAIN batch : batch[n].was.req < Oldest => batch[n].was.req < Oldest'
    BY <2>1, <2>2
  <2> QED
    BY <2>3 DEF IInv, Fetched
<1>5. OnlyTimersStale'
  BY DEF IInv, OnlyTimersStale
<1> QED
  BY <1>1, <1>2, <1>3, <1>4, <1>5 DEF IInv

\* The tables are those of the open connection.
LEMMA OpenTables ==
  ASSUME IInv, att = "open"
  PROVE  /\ k \in Tables /\ Linked(k) /\ k.watch[io.fd].mask = io.events
         /\ io \in Ios /\ io.fd # 0 /\ k.files[io.fd] = "socket"
BY Listening DEF IInv, Connection

LEMMA BtAttSendKeeps == ASSUME IInv, bt_att_send PROVE IInv'
<1>1. /\ att = "open" /\ att' = "open" /\ UNCHANGED <<ble, crypto, pending, batch, call, prog, freed>>
      /\ nextId <= MaxRequests /\ queued' = Enqueued /\ nextId' = nextId + 1
      /\ io' = Woken(io, queued', pending) /\ k' = Watched(k, io')
  BY DEF bt_att_send, loopVars, bleVars
<1>2. /\ k \in Tables /\ Linked(k) /\ io \in Ios /\ io.fd # 0 /\ k.files[io.fd] = "socket"
  BY <1>1, OpenTables
<1>3. io' \in Ios /\ io'.fd = io.fd /\ io'.refs = io.refs
  BY <1>1, <1>2, WokenIsIo
<1>4. /\ k' \in Tables /\ Linked(k') /\ k'.files = k.files /\ k'.list = k.list /\ k'.heap = k.heap
      /\ k'.watch[io'.fd].mask = io'.events
  BY <1>1, <1>2, <1>3, WatchedChanged
<1>5. /\ RequestIds' /\ Oldest' = Oldest
      /\ queued' \in Seq(1..MaxRequests) /\ nextId' \in 1..(MaxRequests + 1)
  BY <1>1, Enqueueing
<1>6. LoopTyped' /\ PeerTyped' /\ AttTyped'
  BY <1>1, <1>3, <1>5 DEF IInv, LoopTyped, PeerTyped, AttTyped, Ios, bt_att_send, loopVars, peerVars
<1>7. References'
  BY <1>1, <1>3 DEF IInv, References
<1>8. Oldest <= Oldest'
  BY <1>5 DEF IInv, RequestIds
<1> QED
  BY <1>1, <1>3, <1>4, <1>5, <1>6, <1>7, <1>8, StillOpen

\* A handler that changes the masks, and no more of the invariant's variables.
LEMMA HandlerReturns ==
  ASSUME IInv, att = "open", call.on, prog = "running", freed' = freed,
         UNCHANGED <<batch, prog, att, pending, queued, nextId, ble, crypto>>,
         call' = [call EXCEPT !.bits = @ \ {"in"}] \/ call' = [call EXCEPT !.bits = @ \ {"out"}],
         terminate' \in BOOLEAN, fatal' = fatal, PeerTyped',
         \/ UNCHANGED <<k, io>>
         \/ io' \in Ios /\ io'.fd = io.fd /\ io'.refs = io.refs /\ k' = Watched(k, io')
  PROVE  IInv'
<1>1. /\ k \in Tables /\ Linked(k) /\ k.watch[io.fd].mask = io.events
      /\ io \in Ios /\ io.fd # 0 /\ k.files[io.fd] = "socket"
  BY OpenTables
<1>2. /\ io' \in Ios /\ io'.fd = io.fd /\ io'.refs = io.refs
      /\ k' \in Tables /\ Linked(k') /\ k'.files = k.files /\ k'.list = k.list /\ k'.heap = k.heap
      /\ k'.watch[io.fd].mask = io'.events
  BY <1>1, WatchedChanged
<1>3. call' \in [on : BOOLEAN, bits : SUBSET Bits] /\ call'.on = call.on
  BY DEF IInv, LoopTyped
<1>4. LoopTyped' /\ AttTyped'
  BY <1>2, <1>3 DEF IInv, LoopTyped, AttTyped, Ios
<1>5. RequestIds' /\ Oldest' = Oldest
  BY DEF IInv, RequestIds, Oldest
<1>6. References'
  BY <1>2, <1>3 DEF IInv, References
<1>7. Oldest <= Oldest'
  BY <1>5 DEF IInv, RequestIds
<1> QED
  BY <1>2, <1>3, <1>4, <1>5, <1>6, <1>7, StillOpen

LEMMA HandleNotifyKeeps == ASSUME IInv, handle_notify PROVE IInv'
<1>1. att = "open" /\ call.on /\ prog = "running"
  BY HandlerRuns DEF handle_notify, Reading
<1>2. terminate' \in BOOLEAN
  BY DEF handle_notify, MayQuit, IInv, LoopTyped
<1>3. PeerTyped'
  BY HeadTail DEF handle_notify, Reading, IInv, PeerTyped
<1> QED
  BY <1>1, <1>2, <1>3, HandlerReturns DEF handle_notify, Reading, BitDone, bleVars

LEMMA ReadFailsKeeps == ASSUME IInv, ReadFails PROVE IInv'
<1>1. att = "open" /\ call.on /\ prog = "running"
  BY HandlerRuns DEF ReadFails
<1>2. terminate' \in BOOLEAN /\ PeerTyped'
  BY DEF ReadFails, IInv, LoopTyped, PeerTyped, peerVars
<1>3. io' \in Ios /\ io'.fd = io.fd /\ io'.refs = io.refs
  BY <1>1, OpenTables, HandlerSet DEF ReadFails
<1> QED
  BY <1>1, <1>2, <1>3, HandlerReturns DEF ReadFails, BitDone, bleVars

LEMMA NothingToWriteKeeps == ASSUME IInv, NothingToWrite PROVE IInv'
<1>1. att = "open" /\ call.on /\ prog = "running"
  BY HandlerRuns DEF NothingToWrite, Writing
<1>2. terminate' \in BOOLEAN /\ PeerTyped'
  BY DEF NothingToWrite, IInv, LoopTyped, PeerTyped, peerVars
<1>3. io' \in Ios /\ io'.fd = io.fd /\ io'.refs = io.refs
  BY <1>1, OpenTables, HandlerSet DEF NothingToWrite
<1> QED
  BY <1>1, <1>2, <1>3, HandlerReturns DEF NothingToWrite, Writing, BitDone, bleVars

LEMMA WriteFailsKeeps == ASSUME IInv, WriteFails PROVE IInv'
<1>1. att = "open" /\ att' = "open" /\ call.on /\ prog = "running"
  BY HandlerRuns DEF WriteFails, Writing
<1>2. /\ queued' \in Seq(1..MaxRequests) /\ Oldest' = Oldest + 1 /\ Oldest \in Nat \ {0}
      /\ \A i \in DOMAIN queued' : queued'[i] = Oldest' + i - 1
  BY Dequeueing DEF WriteFails
<1>3. call' \in [on : BOOLEAN, bits : SUBSET Bits] /\ call'.on = call.on
  BY DEF WriteFails, Writing, BitDone, IInv, LoopTyped
<1>4. LoopTyped' /\ AttTyped' /\ PeerTyped'
  BY <1>2, <1>3 DEF WriteFails, MayQuit, IInv, LoopTyped, AttTyped, PeerTyped, peerVars
<1>5. RequestIds'
  BY <1>2 DEF RequestIds, WriteFails
<1>6. References'
  BY <1>3 DEF WriteFails, IInv, References
<1>7. Oldest <= Oldest'
  BY <1>2
<1> QED
  BY <1>1, <1>3, <1>4, <1>5, <1>6, <1>7, StillOpen, OpenTables DEF WriteFails, bleVars

LEMMA RunKeeps == ASSUME IInv, Run PROVE IInv'
<1>1. UNCHANGED <<k, batch, call, terminate, fatal, freed, io, att, pending, queued, nextId,
                  owed, inbox, hup, ble, crypto>> /\ prog' = "running" /\ ble # 0
  BY DEF Run, attVars, peerVars, bleVars
<1>2. LoopTyped' /\ AttTyped' /\ PeerTyped' /\ BleTyped'
  BY <1>1 DEF IInv, LoopTyped, AttTyped, PeerTyped, BleTyped
<1>3. Connection' /\ References'
  BY <1>1 DEF IInv, Connection, References
<1>4. RequestIds' /\ TimerPerRequest' /\ Fetched' /\ OnlyTimersStale'
  BY <1>1 DEF IInv, RequestIds, TimerPerRequest, Fetched, OnlyTimersStale, Oldest
<1> QED
  BY <1>1, <1>2, <1>3, <1>4 DEF IInv

LEMMA LoopEndsKeeps == ASSUME IInv, LoopEnds PROVE IInv'
<1>1. UNCHANGED <<k, batch, call, fatal, freed, io, att, pending, queued, nextId,
                  owed, inbox, hup, ble, crypto>> /\ prog' = "out" /\ prog = "running"
      /\ terminate' = FALSE /\ batch = <<>> /\ ~call.on
  BY DEF LoopEnds, Idle, InLoop, attVars, peerVars, bleVars
<1>2. LoopTyped' /\ AttTyped' /\ PeerTyped' /\ BleTyped'
  BY <1>1 DEF IInv, LoopTyped, AttTyped, PeerTyped, BleTyped
<1>3. Connection' /\ References'
  BY <1>1 DEF IInv, Connection, References
<1>4. RequestIds' /\ TimerPerRequest' /\ Fetched' /\ OnlyTimersStale'
  BY <1>1 DEF IInv, RequestIds, TimerPerRequest, Fetched, OnlyTimersStale, Oldest
<1> QED
  BY <1>1, <1>2, <1>3, <1>4 DEF IInv

LEMMA IoCallbackReturnsKeeps == ASSUME IInv, io_callback_returns PROVE IInv'
<1>1. UNCHANGED <<k, batch, prog, terminate, fatal, freed, att, pending, queued, nextId,
                  owed, inbox, hup, ble, crypto>> /\ prog = "running" /\ call.on /\ call.bits = {}
      /\ call' = [call EXCEPT !.on = FALSE] /\ io' = [io EXCEPT !.refs = @ - 1]
  BY DEF io_callback_returns, InLoop, peerVars, bleVars
<1>2. call' \in [on : BOOLEAN, bits : SUBSET Bits] /\ ~call'.on /\ call'.bits = {}
  BY <1>1 DEF IInv, LoopTyped
<1>3. /\ io \in Ios /\ io.refs = (IF att = "open" THEN 1 ELSE 0) + 1
  BY <1>1 DEF IInv, AttTyped, References, Ios
<1>4. io' \in Ios /\ io'.fd = io.fd /\ io'.events = io.events
      /\ io'.refs = (IF att = "open" THEN 1 ELSE 0)
  BY <1>1, <1>3 DEF Ios
<1>5. LoopTyped' /\ AttTyped' /\ PeerTyped' /\ BleTyped'
  BY <1>1, <1>2, <1>4 DEF IInv, LoopTyped, AttTyped, PeerTyped, BleTyped, Ios
<1>6. Connection'
  BY <1>1, <1>2, <1>4 DEF IInv, Connection
<1>7. References'
  BY <1>1, <1>2, <1>4 DEF References
<1>8. RequestIds' /\ TimerPerRequest' /\ OnlyTimersStale'
  BY <1>1 DEF IInv, RequestIds, TimerPerRequest, OnlyTimersStale, Oldest
<1>9. Fetched'
  BY <1>1 DEF IInv, Fetched, Oldest
<1> QED
  BY <1>1, <1>5, <1>6, <1>7, <1>8, <1>9 DEF IInv

LEMMA PeerActs ==
  ASSUME IInv, UNCHANGED <<k, loopVars, attVars, bleVars>>, PeerTyped'
  PROVE  IInv'
<1>1. UNCHANGED <<k, batch, call, prog, terminate, fatal, freed, io, att, pending, queued, nextId, ble, crypto>>
  BY DEF loopVars, attVars, bleVars
<1>2. LoopTyped' /\ AttTyped' /\ BleTyped' /\ Connection' /\ References' /\ RequestIds'
  BY <1>1 DEF IInv, LoopTyped, AttTyped, BleTyped, Connection, References, RequestIds, Oldest
<1>3. TimerPerRequest' /\ Fetched' /\ OnlyTimersStale'
  BY <1>1 DEF IInv, TimerPerRequest, Fetched, OnlyTimersStale, Oldest
<1> QED
  BY <1>1, <1>2, <1>3 DEF IInv

LEMMA PeerKeeps == ASSUME IInv, PeerAnswers \/ PeerNotifies \/ LinkDrops PROVE IInv'
<1>1. PeerTyped'
  <2>1. ASSUME NEW what \in {"answer", "notification"}, Arrives(what)
        PROVE  inbox' \in Seq({"answer", "notification"})
    BY <2>1, AppendProperties DEF IInv, PeerTyped, Arrives
  <2> QED
    BY <2>1 DEF IInv, PeerTyped, PeerAnswers, PeerNotifies, LinkDrops
<1> QED
  BY <1>1, PeerActs DEF PeerAnswers, PeerNotifies, LinkDrops

LEMMA TimerExpiresKeeps == ASSUME IInv, TimerExpires PROVE IInv'
<1>1. PICK fd \in Fds : k.files[fd] = "timer" /\ k' = [k EXCEPT !.files[fd] = "rang"]
  BY DEF TimerExpires
<1>2. UNCHANGED <<batch, call, prog, terminate, fatal, freed, io, att, pending, queued, nextId,
                  owed, inbox, hup, ble, crypto>>
  BY DEF TimerExpires, loopVars, attVars, peerVars, bleVars
<1>3. /\ k' \in Tables /\ k'.list = k.list /\ k'.heap = k.heap /\ k'.watch = k.watch /\ k'.epfd = k.epfd
      /\ \A x \in Fds : k'.files[x] = IF x = fd THEN "rang" ELSE k.files[x]
  BY <1>1 DEF IInv, Tables, File
<1>4. Linked(k')
  BY <1>1, <1>3 DEF IInv, Linked, Sockets, Timers, Tables
<1>5. Connection'
  BY <1>1, <1>2, <1>3 DEF IInv, Connection, AttTyped, BleTyped
<1>6. FreeFds(k)' = FreeFds(k)
  BY <1>1, <1>3 DEF FreeFds
<1>7. TimerPerRequest'
  BY <1>2, <1>3, <1>6 DEF IInv, TimerPerRequest
<1>8. LoopTyped' /\ AttTyped' /\ PeerTyped' /\ BleTyped' /\ References' /\ RequestIds'
  BY <1>2 DEF IInv, LoopTyped, AttTyped, PeerTyped, BleTyped, References, RequestIds, Oldest
<1>9. Fetched' /\ OnlyTimersStale'
  BY <1>2, <1>3 DEF IInv, Fetched, OnlyTimersStale, Oldest
<1> QED
  BY <1>3, <1>4, <1>5, <1>7, <1>8, <1>9 DEF IInv
---------------------------------------------------------------------------
(* The events.                                                             *)

LEMMA EpollWaitKeeps == ASSUME IInv, EpollWait PROVE IInv'
<1> DEFINE ready == {fd \in Fds : k.watch[fd].ptr # 0 /\ Ready(fd) # {}}
           event == [fd \in ready |-> [ptr |-> k.watch[fd].ptr, bits |-> Ready(fd),
                                       was |-> k.heap[k.watch[fd].ptr]]]
           Type == [ptr : Places, bits : SUBSET Bits, was : Entry]
           D == 1..Cardinality(ready)
<1>1. UNCHANGED <<call, prog, terminate, fatal, freed, io, att, pending, queued, nextId,
                  owed, inbox, hup, ble, crypto>> /\ ~call.on /\ prog = "running"
  BY DEF EpollWait, Idle, InLoop, attVars, peerVars, bleVars
<1>2. PICK s \in SetToSeqs(ready) : batch' = [n \in DOMAIN s |-> event[s[n]]]
  BY DEF EpollWait
<1>3. s \in [D -> ready] /\ \A i, j \in D : s[i] = s[j] => i = j
  BY <1>2 DEF SetToSeqs
<1>4. Cardinality(ready) \in Nat
  <2>1. IsFiniteSet(Fds)
    BY MainLoopAssumption, FS_Interval DEF Fds
  <2>2. ready \subseteq Fds
    OBVIOUS
  <2> HIDE DEF ready
  <2>3. IsFiniteSet(ready)
    BY <2>1, <2>2, FS_Subset
  <2> QED
    BY <2>3, FS_CardinalityType
<1>5. \A fd \in ready : /\ k.list[fd] = k.watch[fd].ptr /\ k.list[fd] \in Places
                        /\ k.heap[k.list[fd]] \in Entry /\ k.heap[k.list[fd]].fd = fd
  BY DEF IInv, Linked, Tables
<1>6. \A fd \in Fds : Ready(fd) \in SUBSET Bits
  BY DEF Ready, IInv, Tables, Bits
<1>7. \A fd \in ready : event[fd] \in Type /\ event[fd].ptr = k.list[fd]
                        /\ event[fd].was = k.heap[k.list[fd]]
  BY <1>5, <1>6
<1>8. /\ k' \in Tables /\ k'.files = k.files /\ k'.list = k.list /\ k'.heap = k.heap /\ k'.epfd = k.epfd
      /\ \A fd \in Fds : k'.watch[fd].ptr = k.watch[fd].ptr
      /\ \A fd \in Fds : k.files[fd] # "rang" => k'.watch[fd] = k.watch[fd]
  BY DEF EpollWait, IInv, Tables
<1> HIDE DEF ready, event, Type
<1>9. DOMAIN batch' = D /\ \A n \in D : s[n] \in Fds /\ s[n] \in ready /\ batch'[n] = event[s[n]]
  BY <1>2, <1>3 DEF ready
<1>10. batch' \in Seq(Type)
  <2>1. batch' \in [D -> Type]
    BY <1>2, <1>3, <1>7
  <2> QED
    BY <1>4, <2>1, SeqDef
<1>11. LoopTyped' /\ AttTyped' /\ PeerTyped' /\ BleTyped'
  BY <1>1, <1>10 DEF IInv, LoopTyped, AttTyped, PeerTyped, BleTyped, Type
<1>12. Linked(k')
  BY <1>8 DEF IInv, Linked
<1>13. Connection' /\ References'
  BY <1>1, <1>8, Listening DEF IInv, Connection, References
<1>14. RequestIds' /\ TimerPerRequest'
  BY <1>1, <1>8 DEF IInv, RequestIds, TimerPerRequest, Oldest, FreeFds
<1>15. \A n \in D : k.heap[batch'[n].ptr] = batch'[n].was
  BY <1>7, <1>9
<1>16. OnlyTimersStale'
  BY <1>1, <1>8, <1>9, <1>15 DEF IInv, OnlyTimersStale
<1>17. \A n \in D : LET e == batch'[n].was
                    IN /\ e.kind = "timer" => e.req < Oldest
                       /\ e.kind = "io" => s[n] = io.fd
  <2> SUFFICES ASSUME NEW n \in D
               PROVE  LET e == batch'[n].was
                      IN (e.kind = "timer" => e.req < Oldest) /\ (e.kind = "io" => s[n] = io.fd)
    OBVIOUS
  <2> DEFINE p == k.list[s[n]]
  <2>1. p \in Places /\ k.heap[p] # Free /\ batch'[n].was = k.heap[p] /\ k.heap[p].fd = s[n]
    <3>1. p \in Places /\ batch'[n].was = k.heap[p] /\ k.heap[p].fd = s[n]
      BY <1>5, <1>7, <1>9
    <3>2. k.list[s[n]] # 0
      BY <3>1, MainLoopAssumption
    <3> QED
      BY <1>9, <3>1, <3>2 DEF IInv, Linked
  <2> HIDE DEF p
  <2>2. k.heap[p].kind = "timer" => pending = {[id |-> k.heap[p].req, timer |-> k.heap[p].fd]}
    BY <2>1, InTable
  <2>3. k.heap[p].kind = "io" => s[n] = io.fd
    BY <2>1, InTable
  <2>4. k.heap[p].kind = "timer" => k.heap[p].req < Oldest
    <3> DEFINE op == [id |-> k.heap[p].req, timer |-> k.heap[p].fd]
    <3>1. k.heap[p].kind = "timer" => op \in pending
      BY <2>2
    <3>2. op.id = k.heap[p].req
      OBVIOUS
    <3>3. \A o \in pending : o.id < Oldest
      BY DEF IInv, RequestIds
    <3> HIDE DEF op
    <3> QED
      BY <3>1, <3>2, <3>3, Zenon
  <2> QED
    BY <2>1, <2>3, <2>4
<1>18. Fetched'
  <2>1. Oldest' = Oldest
    BY <1>1 DEF Oldest
  <2>2. \A n \in D : batch'[n].was.kind = "timer" => k.heap[batch'[n].ptr].kind # "io"
    BY <1>15
  <2> QED
    BY <1>1, <1>3, <1>8, <1>9, <1>15, <1>17, <2>1, <2>2 DEF Fetched
<1> QED
  BY <1>8, <1>11, <1>12, <1>13, <1>14, <1>16, <1>18 DEF IInv

\* What the head of the batch is, and what dispatching it leaves.
LEMMA Dispatched ==
  ASSUME IInv, batch # <<>>, batch' = Tail(batch), UNCHANGED <<call, prog, terminate, fatal>>,
         freed' \in {"unused", "event"}
  PROVE  /\ LoopTyped' /\ 1 \in DOMAIN batch /\ Head(batch) = batch[1]
         /\ \A n \in DOMAIN batch' : n + 1 \in DOMAIN batch /\ batch'[n] = batch[n + 1] /\ n + 1 # 1
<1> DEFINE Type == [ptr : Places, bits : SUBSET Bits, was : Entry]
<1>1. batch \in Seq(Type)
  BY DEF IInv, LoopTyped
<1> HIDE DEF Type
<1>2. /\ 1 \in DOMAIN batch /\ Head(batch) = batch[1] /\ batch' \in Seq(Type)
      /\ \A n \in DOMAIN batch' : n \in Nat \ {0} /\ n + 1 \in DOMAIN batch /\ batch'[n] = batch[n + 1]
  BY <1>1, HeadTail
<1>3. LoopTyped'
  BY <1>2 DEF IInv, LoopTyped, Type
<1>4. \A n \in DOMAIN batch' : n + 1 # 1
  BY <1>2
<1> QED
  BY <1>2, <1>3, <1>4

LEMMA DispatchFreedKeeps == ASSUME IInv, DispatchFreed PROVE IInv'
<1>1. UNCHANGED <<k, call, prog, terminate, fatal, io, att, pending, queued, nextId,
                  owed, inbox, hup, ble, crypto>> /\ prog = "running" /\ ~call.on
      /\ batch # <<>> /\ batch' = Tail(batch) /\ freed' \in {"unused", "event"}
  BY DEF DispatchFreed, Dispatching, InLoop, attVars, peerVars, bleVars
<1>2. /\ LoopTyped'
      /\ \A n \in DOMAIN batch' : n + 1 \in DOMAIN batch /\ batch'[n] = batch[n + 1]
  BY <1>1, Dispatched
<1>3. AttTyped' /\ PeerTyped' /\ BleTyped' /\ Connection' /\ References' /\ RequestIds' /\ TimerPerRequest'
  BY <1>1 DEF IInv, AttTyped, PeerTyped, BleTyped, Connection, References, RequestIds, TimerPerRequest, Oldest
<1>4. Fetched'
  <2>1. \A m, n \in DOMAIN batch' : m + 1 = n + 1 => m = n
    <3>1. batch' \in Seq([ptr : Places, bits : SUBSET Bits, was : Entry])
      BY <1>2 DEF LoopTyped
    <3> QED
      BY <3>1
  <2> QED
    BY <1>1, <1>2, <2>1 DEF IInv, Fetched, Oldest
<1>5. OnlyTimersStale'
  BY <1>1, <1>2 DEF IInv, OnlyTimersStale
<1> QED
  BY <1>1, <1>2, <1>3, <1>4, <1>5 DEF IInv

LEMMA DispatchIoKeeps == ASSUME IInv, DispatchIo PROVE IInv'
<1>1. UNCHANGED <<k, prog, terminate, fatal, freed, att, pending, queued, nextId,
                  owed, inbox, hup, ble, crypto>> /\ prog = "running" /\ ~call.on
      /\ batch # <<>> /\ batch' = Tail(batch) /\ freed = "unused"
      /\ k.heap[Head(batch).ptr].kind = "io"
      /\ call' = [on |-> TRUE, bits |-> Head(batch).bits] /\ io' = io_ref(io)
  BY DEF DispatchIo, Dispatching, InLoop, peerVars, bleVars
<1>2. /\ 1 \in DOMAIN batch /\ Head(batch) = batch[1] /\ batch' \in Seq([ptr : Places, bits : SUBSET Bits, was : Entry])
      /\ \A n \in DOMAIN batch' : n + 1 \in DOMAIN batch /\ batch'[n] = batch[n + 1] /\ n + 1 # 1
      /\ Head(batch).bits \in SUBSET Bits
  <2> DEFINE Type == [ptr : Places, bits : SUBSET Bits, was : Entry]
  <2>1. batch \in Seq(Type)
    BY DEF IInv, LoopTyped
  <2> HIDE DEF Type
  <2>2. /\ 1 \in DOMAIN batch /\ Head(batch) = batch[1] /\ batch' \in Seq(Type) /\ Head(batch) \in Type
        /\ \A n \in DOMAIN batch' : n \in Nat \ {0} /\ n + 1 \in DOMAIN batch /\ batch'[n] = batch[n + 1]
    BY <1>1, <2>1, HeadTail
  <2>3. \A n \in DOMAIN batch' : n + 1 # 1
    BY <2>2
  <2> QED
    BY <2>2, <2>3 DEF Type
<1>3. att = "open" /\ batch[1].was.kind = "io"
  <2> DEFINE p == batch[1].ptr
  <2>1. p \in Places /\ batch[1].was \in Entry
    BY <1>2, Events
  <2>2. k.heap[p].kind = "io" /\ k.heap[p] # Free
    BY <1>1, <1>2 DEF Free
  <2> HIDE DEF p
  <2>3. att = "open"
    BY <2>1, <2>2, InTable
  <2>4. batch[1].was.kind # "timer"
    BY <1>2, <2>2 DEF IInv, Fetched, p
  <2> QED
    BY <2>1, <2>3, <2>4 DEF Entry
<1>4. /\ io' \in Ios /\ io'.fd = io.fd /\ io'.events = io.events /\ io'.refs = 2
      /\ call'.on /\ call' \in [on : BOOLEAN, bits : SUBSET Bits]
  <2>1. io \in Ios /\ io.refs = 1
    BY <1>1, <1>3 DEF IInv, AttTyped, Ios, References
  <2>2. io' = [io EXCEPT !.refs = 2]
    BY <1>1, <2>1 DEF io_ref
  <2>3. io' \in Ios /\ io'.fd = io.fd /\ io'.events = io.events /\ io'.refs = 2
    BY <2>1, <2>2 DEF Ios
  <2>4. call'.on /\ call' \in [on : BOOLEAN, bits : SUBSET Bits]
    BY <1>1, <1>2
  <2> QED
    BY <2>3, <2>4
<1>5. LoopTyped' /\ AttTyped' /\ PeerTyped' /\ BleTyped'
  BY <1>1, <1>2, <1>4 DEF IInv, LoopTyped, AttTyped, PeerTyped, BleTyped, Ios
<1>6. Connection' /\ References'
  BY <1>1, <1>3, <1>4 DEF IInv, Connection, References
<1>7. RequestIds' /\ TimerPerRequest'
  BY <1>1 DEF IInv, RequestIds, TimerPerRequest, Oldest
<1>8. \A n \in DOMAIN batch' : batch'[n].was.kind # "io"
  BY <1>2, <1>3 DEF IInv, Fetched
<1>9. Fetched'
  BY <1>1, <1>2, <1>8 DEF IInv, Fetched, Oldest
<1>10. OnlyTimersStale'
  BY <1>1, <1>2 DEF IInv, OnlyTimersStale
<1> QED
  BY <1>1, <1>5, <1>6, <1>7, <1>9, <1>10 DEF IInv

\* The timer of a request that leaves the table with it.
LEMMA TimerGone ==
  ASSUME IInv, NEW op \in pending, NEW t, t = timeout_remove(k, op.timer)
  PROVE  /\ t \in Tables /\ Linked(t)
         /\ \A fd \in Fds : k.files[fd] \notin Timers => t.files[fd] = k.files[fd] /\ t.watch[fd] = k.watch[fd]
         /\ \A fd \in Fds : t.files[fd] # k.files[fd] => t.files[fd] = "none"
         /\ \A p \in Places : t.heap[p] = k.heap[p] \/ (k.heap[p].kind = "timer" /\ t.heap[p] = Free)
         /\ \A fd \in Fds : t.list[fd] # 0 => t.heap[t.list[fd]].kind # "timer"
<1>1. \A fd \in Fds : k.list[fd] # 0 /\ k.heap[k.list[fd]].kind = "timer" => fd = op.timer
  <2> SUFFICES ASSUME NEW fd \in Fds, k.list[fd] # 0, k.heap[k.list[fd]].kind = "timer"
               PROVE  fd = op.timer
    OBVIOUS
  <2> DEFINE p == k.list[fd]
  <2>1. p \in Places /\ k.heap[p] # Free /\ k.heap[p].fd = fd /\ k.heap[p].kind = "timer"
    BY DEF IInv, Tables, Linked
  <2> HIDE DEF p
  <2>2. pending = {[id |-> k.heap[p].req, timer |-> fd]}
    BY <2>1, InTable
  <2> QED
    BY <2>2
<1>2. CASE op.timer = 0
  <2>1. t = k /\ 0 \notin Fds
    BY <1>2, MainLoopAssumption DEF timeout_remove, mainloop_remove_fd, Fds
  <2> QED
    BY <1>1, <1>2, <2>1 DEF IInv
<1>3. CASE op.timer # 0
  <2> DEFINE fd == op.timer
             p == k.list[fd]
             r == mainloop_remove_fd(k, fd)
  <2>1. fd \in Fds /\ p # 0 /\ k.heap[p].kind = "timer"
    BY <1>3 DEF IInv, AttTyped, TimerPerRequest
  <2>2. p \in Places /\ k.heap[p] # Free /\ k.heap[p].fd = fd
    BY <2>1 DEF IInv, Tables, Linked
  <2>3. k.files[fd] \in Timers
    BY <2>1, <2>2, InTable
  <2>4. /\ r \in Tables /\ Linked(r)
        /\ r.files = [k.files EXCEPT ![fd] = "none"] /\ r.list = [k.list EXCEPT ![fd] = 0]
        /\ r.heap = [k.heap EXCEPT ![p] = Free] /\ r.watch = [k.watch EXCEPT ![fd] = NoWatch]
    BY <2>1, EntryRemoved DEF IInv
  <2>5. t = r
    BY DEF timeout_remove
  <2> HIDE DEF r, p, fd
  <2>6. /\ k.files \in [Fds -> File] /\ k.list \in [Fds -> Places \cup {0}] /\ DOMAIN k.heap = Places
        /\ DOMAIN k.watch = Fds
    BY DEF IInv, Tables
  <2>7. \A x \in Fds : r.list[x] # 0 => x # fd /\ r.list[x] = k.list[x] /\ k.list[x] \in Places
    BY <2>1, <2>4, <2>6
  <2>8. \A x \in Fds : r.list[x] # 0 => k.heap[r.list[x]].kind # "timer"
    BY <1>1, <2>7 DEF fd
  <2>9. \A x \in Fds : r.list[x] # 0 => r.heap[r.list[x]].kind # "timer"
    BY <2>4, <2>6, <2>7, <2>8 DEF Free
  <2>10. \A q \in Places : r.heap[q] = k.heap[q] \/ (k.heap[q].kind = "timer" /\ r.heap[q] = Free)
    BY <2>1, <2>4, <2>6 DEF p
  <2>11. \A x \in Fds : x # fd => r.files[x] = k.files[x] /\ r.watch[x] = k.watch[x]
    BY <2>4, <2>6
  <2>12. r.files[fd] = "none"
    BY <2>1, <2>4, <2>6
  <2>13. \A x \in Fds : k.files[x] \notin Timers => r.files[x] = k.files[x] /\ r.watch[x] = k.watch[x]
    BY <2>3, <2>11
  <2>14. \A x \in Fds : r.files[x] # k.files[x] => r.files[x] = "none"
    BY <2>11, <2>12
  <2>15. r \in Tables /\ Linked(r)
    BY <2>4
  <2> HIDE DEF Timers
  <2> QED
    BY <2>5, <2>9, <2>10, <2>13, <2>14, <2>15
<1> QED
  BY <1>2, <1>3

LEMMA TimeoutCallbackKeeps == ASSUME IInv, timeout_callback PROVE IInv'
<1> DEFINE p == Head(batch).ptr
           t == k.heap[p]
<1>1. UNCHANGED <<call, prog, terminate, fatal, io, att, queued, nextId, owed, inbox, ble, crypto>>
      /\ prog = "running" /\ ~call.on /\ freed = "unused"
      /\ batch # <<>> /\ batch' = Tail(batch) /\ t.kind = "timer"
  BY DEF timeout_callback, Dispatching, InLoop, bleVars
<1>2. p \in Places /\ t # Free
  <2>1. Head(batch) = batch[1] /\ 1 \in DOMAIN batch
    <3>1. batch \in Seq([ptr : Places, bits : SUBSET Bits, was : Entry])
      BY DEF IInv, LoopTyped
    <3> QED
      BY <1>1, <3>1, HeadTail
  <2>2. p \in Places
    BY <2>1, Events
  <2> QED
    BY <1>1, <2>2 DEF Free
<1>3. IF Rang(t.fd) THEN TimerRings(t) ELSE UNCHANGED <<k, pending, hup, freed>>
  BY DEF timeout_callback
<1> HIDE DEF p
<1>4. /\ t \in Entry /\ k.list[t.fd] = p /\ p # 0 /\ t.fd \in Fds
      /\ pending = {[id |-> t.req, timer |-> t.fd]}
  BY <1>1, <1>2, InTable, MainLoopAssumption DEF Entry
<1> DEFINE op == [id |-> t.req, timer |-> t.fd]
<1>5. CASE ~Rang(t.fd)
  <2>1. UNCHANGED <<k, pending, hup, freed>>
    BY <1>3, <1>5
  <2>2. /\ LoopTyped'
        /\ \A n \in DOMAIN batch' : n + 1 \in DOMAIN batch /\ batch'[n] = batch[n + 1]
    BY <1>1, <2>1, Dispatched
  <2>3. AttTyped' /\ PeerTyped' /\ BleTyped' /\ Connection' /\ References' /\ RequestIds' /\ TimerPerRequest'
    BY <1>1, <2>1 DEF IInv, AttTyped, PeerTyped, BleTyped, Connection, References, RequestIds,
                      TimerPerRequest, Oldest
  <2>4. \A m, n \in DOMAIN batch' : m + 1 = n + 1 => m = n
    <3>1. batch' \in Seq([ptr : Places, bits : SUBSET Bits, was : Entry])
      BY <2>2 DEF LoopTyped
    <3> QED
      BY <3>1
  <2>5. Fetched'
    BY <1>1, <2>1, <2>2, <2>4 DEF IInv, Fetched, Oldest
  <2>6. OnlyTimersStale'
    BY <1>1, <2>1, <2>2 DEF IInv, OnlyTimersStale
  <2> QED
    BY <1>1, <2>1, <2>2, <2>3, <2>5, <2>6 DEF IInv
<1>6. CASE Rang(t.fd)
  <2>1. {o \in pending : o.id = t.req} = pending
    BY <1>4
  <2>2. (CHOOSE o \in pending : TRUE) = op /\ pending # {}
    BY <1>4
  <2>3. destroy_att_send_op(k, ForgetTimeoutId(op)) = k
    BY DEF destroy_att_send_op, timeout_remove, mainloop_remove_fd, ForgetTimeoutId
  <2>4. /\ pending' = {} /\ hup' = (hup \/ att = "open") /\ freed' = "unused"
        /\ k' = mainloop_remove_fd(k, t.fd)
    BY <1>3, <1>4, <1>6, <2>1, <2>2, <2>3 DEF TimerRings, io_shutdown
  <2>5. op \in pending /\ k' = timeout_remove(k, op.timer)
    BY <1>4, <2>4 DEF timeout_remove
  <2> HIDE DEF t
  <2>6. /\ k' \in Tables /\ Linked(k')
        /\ \A fd \in Fds : k.files[fd] \notin Timers => k'.files[fd] = k.files[fd] /\ k'.watch[fd] = k.watch[fd]
        /\ \A fd \in Fds : k'.files[fd] # k.files[fd] => k'.files[fd] = "none"
        /\ \A q \in Places : k'.heap[q] = k.heap[q] \/ (k.heap[q].kind = "timer" /\ k'.heap[q] = Free)
        /\ \A fd \in Fds : k'.list[fd] # 0 => k'.heap[k'.list[fd]].kind # "timer"
    BY <2>5, TimerGone
  <2>7. /\ LoopTyped'
        /\ \A n \in DOMAIN batch' : n + 1 \in DOMAIN batch /\ batch'[n] = batch[n + 1]
    BY <1>1, <2>4, Dispatched
  <2>8. AttTyped' /\ PeerTyped' /\ BleTyped'
    BY <1>1, <2>4 DEF IInv, AttTyped, PeerTyped, BleTyped
  <2>9. Connection'
    BY <1>1, <2>4, <2>6, <2>8 DEF IInv, Connection, Timers, AttTyped, BleTyped
  <2>10. References' /\ RequestIds' /\ TimerPerRequest'
    BY <1>1, <2>4, <2>6 DEF IInv, References, RequestIds, TimerPerRequest, Oldest
  <2>11. \A m, n \in DOMAIN batch' : m + 1 = n + 1 => m = n
    <3>1. batch' \in Seq([ptr : Places, bits : SUBSET Bits, was : Entry])
      BY <2>7 DEF LoopTyped
    <3> QED
      BY <3>1
  <2>12. \A n \in DOMAIN batch' : batch'[n].ptr \in Places /\ batch'[n].was \in Entry
    BY <2>7, Events
  <2>13. \A n \in DOMAIN batch' : batch'[n].was.kind = "io" => k'.heap[batch'[n].ptr] = batch'[n].was
    BY <2>6, <2>7, <2>12 DEF IInv, Fetched
  <2>14. \A n \in DOMAIN batch' : batch'[n].was.kind = "timer" =>
           batch'[n].was.req < Oldest /\ k'.heap[batch'[n].ptr].kind # "io"
    BY <2>6, <2>7, <2>12 DEF IInv, Fetched, Free
  <2>15. Fetched'
    BY <1>1, <2>7, <2>11, <2>13, <2>14 DEF IInv, Fetched, Oldest
  <2>16. OnlyTimersStale'
    BY <2>4, <2>12, <2>13 DEF OnlyTimersStale, Entry
  <2> QED
    BY <2>6, <2>7, <2>8, <2>9, <2>10, <2>15, <2>16 DEF IInv
<1> QED
  BY <1>5, <1>6

LEMMA DisconnectKeeps == ASSUME IInv, disconnect_cb PROVE IInv'
<1> DEFINE p == k.list[io.fd]
<1>1. /\ att = "open" /\ call.on /\ prog = "running" /\ freed = "unused"
      /\ UNCHANGED <<batch, prog, pending, nextId, ble, crypto>>
      /\ k' = mainloop_remove_fd(k, io.fd) /\ io' = io_destroy(io)
      /\ freed' = (IF io'.refs = 0 THEN "memory" ELSE "unused")
      /\ att' = "gone" /\ queued' = <<>> /\ terminate' = TRUE /\ fatal' = TRUE
      /\ owed' = FALSE /\ inbox' = <<>> /\ hup' = FALSE
      /\ call' = [call EXCEPT !.bits = {}]
  BY HandlerRuns DEF disconnect_cb, bleVars
<1>2. /\ io \in Ios /\ io.fd \in Fds /\ io.fd # 0 /\ k.files[io.fd] = "socket"
      /\ p \in Places /\ p # 0 /\ k.heap[p] # Free /\ k.heap[p].kind = "io" /\ io.fd = ble
  BY <1>1, Listening DEF IInv, Connection
<1>3. /\ k' \in Tables /\ Linked(k')
      /\ k'.files = [k.files EXCEPT ![io.fd] = "none"] /\ k'.list = [k.list EXCEPT ![io.fd] = 0]
      /\ k'.heap = [k.heap EXCEPT ![p] = Free]
  BY <1>1, <1>2, EntryRemoved DEF IInv
<1> HIDE DEF p
<1>4. io' \in Ios /\ io'.fd = 0 /\ io'.refs = 1
  <2>1. io.refs = 2
    BY <1>1 DEF IInv, References
  <2>2. io' = [io EXCEPT !.fd = 0, !.handlers = {}, !.refs = 1]
    BY <1>1, <2>1 DEF io_destroy
  <2>3. {} \in SUBSET {"read", "write", "disconnect"} /\ 1 \in 0..2
    OBVIOUS
  <2> QED
    BY <1>2, <2>2, <2>3 DEF Ios
<1>5. call' \in [on : BOOLEAN, bits : SUBSET Bits] /\ call'.on /\ call'.bits = {} /\ freed' = "unused"
  BY <1>1, <1>4 DEF IInv, LoopTyped
<1>6. LoopTyped' /\ AttTyped' /\ PeerTyped' /\ BleTyped'
  <2>1. queued' \in Seq(1..MaxRequests) /\ inbox' \in Seq({"answer", "notification"})
    BY <1>1
  <2>2. LoopTyped' /\ PeerTyped' /\ BleTyped'
    BY <1>1, <1>5, <2>1 DEF IInv, LoopTyped, PeerTyped, BleTyped
  <2>3. AttTyped'
    BY <1>1, <1>4, <2>1 DEF IInv, AttTyped, Ios
  <2> QED
    BY <2>2, <2>3
<1>7. /\ \A fd \in Fds : k'.files[fd] = IF fd = io.fd THEN "none" ELSE k.files[fd]
      /\ \A fd \in Fds : k'.list[fd] = IF fd = io.fd THEN 0 ELSE k.list[fd]
      /\ \A q \in Places : k'.heap[q] = IF q = p THEN Free ELSE k.heap[q]
  BY <1>3 DEF IInv, Tables
<1>8. Connection'
  BY <1>1, <1>2, <1>4, <1>5, <1>6, <1>7 DEF IInv, Connection, BleTyped
<1>9. References'
  BY <1>1, <1>4, <1>5 DEF References
<1>10. Oldest' = nextId /\ Oldest <= nextId /\ Oldest \in Nat \ {0} /\ nextId \in Nat \ {0}
  BY <1>1, MainLoopAssumption DEF Oldest, IInv, AttTyped, RequestIds
<1>11. RequestIds'
  <2>1. \A op \in pending : op.id \in Nat /\ op.id < Oldest
    BY DEF IInv, RequestIds, AttTyped
  <2>2. \A op \in pending : op.id < Oldest'
    BY <1>10, <2>1
  <2> QED
    BY <1>1, <1>10, <2>2 DEF IInv, RequestIds
<1>12. TimerPerRequest'
  <2>1. \A fd \in Fds : k'.list[fd] # 0 =>
          fd # io.fd /\ k'.list[fd] = k.list[fd] /\ k'.heap[k'.list[fd]] \in {k.heap[k.list[fd]], Free}
    BY <1>7 DEF IInv, Tables
  <2>2. \A fd \in Fds : k'.list[fd] # 0 /\ k'.heap[k'.list[fd]].kind = "timer" =>
          [id |-> k'.heap[k'.list[fd]].req, timer |-> fd] \in pending
    BY <2>1 DEF IInv, TimerPerRequest, Free
  <2>3. ASSUME NEW op \in pending, op.timer # 0
        PROVE  k'.list[op.timer] # 0 /\ k'.heap[k'.list[op.timer]].kind = "timer"
    <3>1. op.timer \in Fds /\ k.list[op.timer] # 0 /\ k.heap[k.list[op.timer]].kind = "timer"
      BY <2>3 DEF IInv, TimerPerRequest, AttTyped
    <3>2. op.timer # io.fd /\ k.list[op.timer] \in Places /\ k.list[op.timer] # p
      BY <1>2, <3>1 DEF p, IInv, Tables
    <3> QED
      BY <1>7, <3>1, <3>2
  <2> QED
    BY <1>1, <2>2, <2>3 DEF TimerPerRequest
<1>13. \A n \in DOMAIN batch : batch[n].ptr \in Places /\ batch[n].was \in Entry /\ batch[n].was.req \in Nat
  BY Events
<1>14. \A n \in DOMAIN batch : /\ batch[n].was.kind = "timer" /\ batch[n].was.req < Oldest
                               /\ k.heap[batch[n].ptr].kind # "io" /\ batch[n].ptr # p
                               /\ k'.heap[batch[n].ptr] = k.heap[batch[n].ptr]
  BY <1>1, <1>2, <1>7, <1>13 DEF IInv, Fetched, Entry
<1>15. Fetched'
  <2>1. \A n \in DOMAIN batch : batch[n].was.req < Oldest'
    BY <1>10, <1>13, <1>14
  <2> QED
    BY <1>1, <1>14, <2>1 DEF Fetched
<1>16. OnlyTimersStale'
  BY <1>1, <1>5, <1>14 DEF IInv, OnlyTimersStale
<1> QED
  BY <1>3, <1>6, <1>8, <1>9, <1>11, <1>12, <1>15, <1>16 DEF IInv

LEMMA HandleRspKeeps == ASSUME IInv, handle_rsp PROVE IInv'
<1>1. /\ att = "open" /\ att' = "open" /\ call.on /\ prog = "running" /\ freed = "unused"
      /\ UNCHANGED <<batch, prog, fatal, freed, owed, ble, crypto>>
      /\ call' = [call EXCEPT !.bits = @ \ {"in"}] /\ inbox # <<>> /\ inbox' = Tail(inbox)
  BY HandlerRuns DEF handle_rsp, Reading, BitDone, bleVars
<1>2. inbox' \in Seq({"answer", "notification"})
  BY <1>1, HeadTail DEF IInv, PeerTyped
<1>3. CASE pending = {}
  <2>1. io_shutdown /\ UNCHANGED <<k, io, pending, queued, nextId, terminate>>
    BY <1>3 DEF handle_rsp
  <2>2. PeerTyped' /\ terminate' \in BOOLEAN
    BY <1>1, <1>2, <2>1 DEF IInv, PeerTyped, LoopTyped, io_shutdown
  <2> QED
    BY <1>1, <2>1, <2>2, HandlerReturns
<1>4. CASE pending # {}
  <2>1. PICK op \in pending :
          /\ pending' = {} /\ UNCHANGED hup /\ MayQuit
          /\ \/ UNCHANGED <<queued, nextId>>
             \/ nextId <= MaxRequests /\ queued' = Enqueued /\ nextId' = nextId + 1
          /\ io' = Woken(io, queued', {})
          /\ k' = Watched(destroy_att_send_op(k, op), io')
    BY <1>4 DEF handle_rsp
  <2> DEFINE t == timeout_remove(k, op.timer)
  <2>2. /\ t \in Tables /\ Linked(t)
        /\ \A fd \in Fds : k.files[fd] \notin Timers => t.files[fd] = k.files[fd] /\ t.watch[fd] = k.watch[fd]
        /\ \A fd \in Fds : t.files[fd] # k.files[fd] => t.files[fd] = "none"
        /\ \A q \in Places : t.heap[q] = k.heap[q] \/ (k.heap[q].kind = "timer" /\ t.heap[q] = Free)
        /\ \A fd \in Fds : t.list[fd] # 0 => t.heap[t.list[fd]].kind # "timer"
    BY TimerGone
  <2>3. k' = Watched(t, io')
    BY <2>1 DEF destroy_att_send_op
  <2> HIDE DEF t
  <2>4. io \in Ios /\ io.fd \in Fds /\ io.fd # 0 /\ k.files[io.fd] = "socket"
    BY <1>1, Listening
  <2>5. io' \in Ios /\ io'.fd = io.fd /\ io'.refs = io.refs
    BY <2>1, <2>4, WokenIsIo
  <2>6. t.files[io.fd] = "socket"
    BY <2>2, <2>4 DEF Timers
  <2>7. /\ k' \in Tables /\ Linked(k') /\ k'.files = t.files /\ k'.list = t.list /\ k'.heap = t.heap
        /\ k'.watch[io.fd].mask = io'.events
    BY <2>2, <2>3, <2>4, <2>5, <2>6, WatchedChanged
  <2>8. /\ RequestIds' /\ Oldest' = Oldest
        /\ queued' \in Seq(1..MaxRequests) /\ nextId' \in 1..(MaxRequests + 1)
    <3>1. CASE UNCHANGED <<queued, nextId>>
      BY <2>1, <3>1 DEF IInv, RequestIds, Oldest, AttTyped
    <3>2. CASE nextId <= MaxRequests /\ queued' = Enqueued /\ nextId' = nextId + 1
      BY <2>1, <3>2, Enqueueing
    <3> QED
      BY <2>1, <3>1, <3>2
  <2>9. call' \in [on : BOOLEAN, bits : SUBSET Bits] /\ call'.on
    BY <1>1 DEF IInv, LoopTyped
  <2>10. LoopTyped' /\ AttTyped' /\ PeerTyped' /\ BleTyped'
    <3>1. LoopTyped' /\ PeerTyped' /\ BleTyped'
      BY <1>1, <1>2, <2>1, <2>9 DEF IInv, LoopTyped, PeerTyped, BleTyped, MayQuit
    <3>2. AttTyped'
      BY <1>1, <2>1, <2>5, <2>8 DEF AttTyped, Ios
    <3> QED
      BY <3>1, <3>2
  <2>11. Connection'
    BY <1>1, <2>1, <2>2, <2>4, <2>5, <2>6, <2>7, <2>10 DEF IInv, Connection, Timers, BleTyped
  <2>12. References'
    BY <1>1, <2>5, <2>9 DEF IInv, References
  <2>13. TimerPerRequest'
    BY <2>1, <2>2, <2>7 DEF TimerPerRequest
  <2>14. \A n \in DOMAIN batch : batch[n].ptr \in Places /\ batch[n].was \in Entry
    BY Events
  <2>15. \A n \in DOMAIN batch : /\ batch[n].was.kind = "timer" /\ batch[n].was.req < Oldest
                                 /\ k'.heap[batch[n].ptr].kind # "io"
    BY <1>1, <2>2, <2>7, <2>14 DEF IInv, Fetched, Entry, Free
  <2>16. Fetched' /\ OnlyTimersStale'
    BY <1>1, <2>1, <2>8, <2>9, <2>15 DEF Fetched, OnlyTimersStale
  <2> QED
    BY <2>7, <2>8, <2>10, <2>11, <2>12, <2>13, <2>16 DEF IInv
<1> QED
  BY <1>3, <1>4

LEMMA CanWriteDataKeeps == ASSUME IInv, can_write_data PROVE IInv'
<1>1. /\ att = "open" /\ att' = "open" /\ call.on /\ prog = "running" /\ freed = "unused"
      /\ UNCHANGED <<batch, prog, terminate, fatal, freed, io, inbox, hup, ble, crypto, nextId>>
      /\ call' = [call EXCEPT !.bits = @ \ {"out"}] /\ owed' = TRUE
      /\ queued # <<>> /\ pending = {} /\ queued' = Tail(queued)
  BY HandlerRuns DEF can_write_data, Writing, BitDone, bleVars
<1>2. /\ queued' \in Seq(1..MaxRequests) /\ Head(queued) \in 1..MaxRequests
      /\ Oldest' = Oldest + 1 /\ Head(queued) = Oldest /\ Oldest \in Nat \ {0}
      /\ \A i \in DOMAIN queued' : queued'[i] = Oldest' + i - 1
  BY <1>1, Dequeueing
<1> DEFINE req == Head(queued)
<1> HIDE DEF req
<1>3. PICK id \in Fds \cup {0} : timeout_add(k, k', id, req) /\ pending' = {[id |-> req, timer |-> id]}
  BY DEF can_write_data, req
<1>4. req \in 1..MaxRequests /\ req \in Nat /\ req = Oldest
  BY <1>2, MainLoopAssumption DEF req
<1>5. /\ k' \in Tables /\ Linked(k')
      /\ id = 0 => k' = k /\ \A fd \in FreeFds(k) : Refused(fd)
      /\ id # 0 => \E p \in Places :
           /\ k.heap[p] = Free /\ id \in Fds /\ k.files[id] = "none"
           /\ \A fd \in Fds : /\ k'.files[fd] = IF fd = id THEN "timer" ELSE k.files[fd]
                              /\ k'.list[fd] = IF fd = id THEN p ELSE k.list[fd]
                              /\ fd # id => k'.watch[fd] = k.watch[fd]
           /\ \A q \in Places : k'.heap[q] = IF q = p THEN [fd |-> id, kind |-> "timer", req |-> req]
                                              ELSE k.heap[q]
  BY <1>3, <1>4, TimerAdded DEF IInv
<1>6. 0 \notin Places /\ 0 \notin Fds
  BY MainLoopAssumption DEF Fds
<1>7. \A fd \in Fds : k.list[fd] # 0 =>
        k.list[fd] \in Places /\ k.heap[k.list[fd]] # Free /\ k.heap[k.list[fd]].kind # "timer"
  BY <1>1 DEF IInv, Linked, Tables, TimerPerRequest
<1>8. /\ \A fd \in Fds : k'.files[fd] = k.files[fd] \/ (fd = id /\ k.files[fd] = "none" /\ k'.files[fd] = "timer")
      /\ \A fd \in Fds : k'.watch[fd] = k.watch[fd] \/ (fd = id /\ k.files[fd] = "none")
      /\ \A q \in Places : k'.heap[q] = k.heap[q]
                           \/ (k.heap[q] = Free /\ k'.heap[q] = [fd |-> id, kind |-> "timer", req |-> req])
      /\ \A fd \in Fds : k'.list[fd] # 0 /\ k'.heap[k'.list[fd]].kind = "timer" =>
           fd = id /\ k'.heap[k'.list[fd]].req = req
      /\ id # 0 => k'.list[id] # 0 /\ k'.heap[k'.list[id]].kind = "timer"
      /\ id = 0 => k' = k /\ \A fd \in FreeFds(k) : Refused(fd)
  <2>1. CASE id = 0
    BY <1>5, <1>7, <2>1
  <2>2. CASE id # 0
    <3> DEFINE e == [fd |-> id, kind |-> "timer", req |-> req]
    <3>1. e.kind = "timer" /\ e.req = req
      OBVIOUS
    <3>2. PICK p \in Places :
           /\ k.heap[p] = Free /\ id \in Fds /\ k.files[id] = "none"
           /\ \A fd \in Fds : /\ k'.files[fd] = IF fd = id THEN "timer" ELSE k.files[fd]
                              /\ k'.list[fd] = IF fd = id THEN p ELSE k.list[fd]
                              /\ fd # id => k'.watch[fd] = k.watch[fd]
           /\ \A q \in Places : k'.heap[q] = IF q = p THEN e ELSE k.heap[q]
      BY <1>5, <2>2
    <3> HIDE DEF e
    <3>3. \A fd \in Fds : k'.list[fd] # 0 /\ k'.heap[k'.list[fd]].kind = "timer" => fd = id
      <4> SUFFICES ASSUME NEW fd \in Fds, fd # id, k'.list[fd] # 0
                   PROVE  k'.heap[k'.list[fd]].kind # "timer"
        OBVIOUS
      <4>1. k'.list[fd] = k.list[fd] /\ k.list[fd] # 0
        BY <3>2
      <4>2. k.list[fd] \in Places /\ k.list[fd] # p /\ k.heap[k.list[fd]].kind # "timer"
        BY <1>7, <3>2, <4>1
      <4> QED
        BY <3>2, <4>1, <4>2
    <3>4. k'.list[id] = p /\ k'.list[id] # 0 /\ k'.heap[k'.list[id]] = e
      BY <1>6, <3>2
    <3>5. \A fd \in Fds : k'.files[fd] = k.files[fd]
                          \/ (fd = id /\ k.files[fd] = "none" /\ k'.files[fd] = "timer")
      BY <3>2
    <3>6. \A q \in Places : k'.heap[q] = k.heap[q] \/ (k.heap[q] = Free /\ k'.heap[q] = e)
      BY <3>2
    <3>7. \A fd \in Fds : k'.watch[fd] = k.watch[fd] \/ (fd = id /\ k.files[fd] = "none")
      BY <3>2
    <3>8. \A fd \in Fds : k'.list[fd] # 0 /\ k'.heap[k'.list[fd]].kind = "timer" =>
            fd = id /\ k'.heap[k'.list[fd]].req = req
      BY <3>1, <3>3, <3>4
    <3>9. \A q \in Places : k'.heap[q] = k.heap[q]
            \/ (k.heap[q] = Free /\ k'.heap[q] = [fd |-> id, kind |-> "timer", req |-> req])
      BY <3>6, Zenon DEF e
    <3>10. id # 0 => k'.list[id] # 0 /\ k'.heap[k'.list[id]].kind = "timer"
      BY <3>1, <3>4
    <3> QED
      BY <2>2, <3>5, <3>7, <3>8, <3>9, <3>10
  <2> QED
    BY <2>1, <2>2
<1>9. LoopTyped' /\ AttTyped' /\ PeerTyped' /\ BleTyped'
  <2>1. call' \in [on : BOOLEAN, bits : SUBSET Bits]
    BY <1>1 DEF IInv, LoopTyped
  <2>2. pending' \subseteq [id : 1..MaxRequests, timer : Fds \cup {0}]
    BY <1>3, <1>4
  <2> QED
    BY <1>1, <1>2, <2>1, <2>2 DEF IInv, LoopTyped, AttTyped, PeerTyped, BleTyped
<1>10. Connection'
  <2>1. io.fd \in Fds /\ k.files[io.fd] = "socket" /\ k.watch[io.fd].mask = io.events /\ io.fd = ble
    BY <1>1, Listening DEF IInv, Connection
  <2>2. k'.files[io.fd] = "socket" /\ k'.watch[io.fd].mask = io.events
    BY <1>8, <2>1
  <2>3. \A fd \in Fds : k'.files[fd] = "socket" => fd = io.fd
    BY <1>8 DEF IInv, Connection
  <2>4. crypto # 0 => k'.files[crypto] = "crypto"
    BY <1>8 DEF IInv, Connection, BleTyped
  <2>5. ble # 0
    BY <1>6, <2>1
  <2> QED
    BY <1>1, <2>1, <2>2, <2>3, <2>4, <2>5 DEF Connection
<1>11. call'.on /\ References'
  BY <1>1 DEF IInv, References, LoopTyped
<1>12. RequestIds'
  BY <1>2, <1>3, <1>4 DEF RequestIds
<1>13. TimerPerRequest'
  <2>1. \A fd \in Fds : k'.list[fd] # 0 /\ k'.heap[k'.list[fd]].kind = "timer" =>
          [id |-> k'.heap[k'.list[fd]].req, timer |-> fd] \in pending'
    BY <1>3, <1>8
  <2>2. \A op \in pending' : op.timer = id
    BY <1>3
  <2> QED
    BY <1>8, <2>1, <2>2 DEF TimerPerRequest
<1>14. \A n \in DOMAIN batch : batch[n].ptr \in Places /\ batch[n].was \in Entry /\ batch[n].was.req \in Nat
  BY Events
<1>15. \A n \in DOMAIN batch : /\ batch[n].was.kind = "timer" /\ batch[n].was.req < Oldest
                               /\ k'.heap[batch[n].ptr].kind # "io"
  BY <1>1, <1>8, <1>14 DEF IInv, Fetched, Entry
<1>16. Fetched'
  <2>1. \A n \in DOMAIN batch : batch[n].was.req < Oldest'
    BY <1>2, <1>14, <1>15
  <2> QED
    BY <1>1, <1>11, <1>15, <2>1 DEF Fetched
<1>17. OnlyTimersStale'
  <2>1. \A n \in DOMAIN batch : batch[n].was.req # req
    BY <1>4, <1>14, <1>15
  <2>2. \A op \in pending' : op.id = req
    BY <1>3
  <2> QED
    BY <1>1, <1>15, <2>1, <2>2 DEF OnlyTimersStale
<1> QED
  BY <1>5, <1>9, <1>10, <1>11, <1>12, <1>13, <1>16, <1>17 DEF IInv
---------------------------------------------------------------------------
(* The theorems.                                                           *)

LEMMA Initially == ASSUME Init PROVE IInv
<1> USE MainLoopAssumption
<1>1. k \in Tables
  BY DEF Init, Tables, File, NoWatch
<1>2. Linked(k)
  BY DEF Init, Linked, NoWatch, Sockets, Timers
<1>3. LoopTyped /\ PeerTyped /\ BleTyped
  <2>1. \A S : <<>> \in Seq(S)
    OBVIOUS
  <2>2. batch \in Seq([ptr : Places, bits : SUBSET Bits, was : Entry])
    BY <2>1 DEF Init
  <2>3. inbox \in Seq({"answer", "notification"})
    BY <2>1 DEF Init
  <2> QED
    BY <2>2, <2>3 DEF Init, LoopTyped, PeerTyped, BleTyped
<1>4. AttTyped
  BY DEF Init, AttTyped, NoIo
<1>5. Connection /\ References
  BY DEF Init, Connection, References, NoIo
<1>6. RequestIds /\ TimerPerRequest /\ Fetched /\ OnlyTimersStale
  BY DEF Init, RequestIds, TimerPerRequest, Fetched, OnlyTimersStale, Oldest
<1> QED
  BY <1>1, <1>2, <1>3, <1>4, <1>5, <1>6 DEF IInv

LEMMA StepKeeps == ASSUME IInv, [Next]_vars PROVE IInv'
<1>1. CASE ProgramNext
  BY <1>1, StartUpdateKeeps, BleOpenKeeps, BtAttSendKeeps, RunKeeps, BleCloseKeeps, ReinitKeeps,
     EndUpdateKeeps DEF ProgramNext
<1>2. CASE HandlerNext
  BY <1>2, DisconnectKeeps, HandleRspKeeps, HandleNotifyKeeps, ReadFailsKeeps, CanWriteDataKeeps,
     WriteFailsKeeps, NothingToWriteKeeps, IoCallbackReturnsKeeps DEF HandlerNext
<1>3. CASE LoopNext
  BY <1>2, <1>3, EpollWaitKeeps, LoopEndsKeeps, DispatchFreedKeeps, DispatchIoKeeps,
     TimeoutCallbackKeeps DEF LoopNext
<1>4. CASE EnvironmentNext
  BY <1>4, PeerKeeps, TimerExpiresKeeps DEF EnvironmentNext
<1>5. CASE UNCHANGED vars
  <2>1. UNCHANGED <<k, loopVars, attVars, bleVars>> /\ PeerTyped'
    BY <1>5 DEF vars, peerVars, IInv, PeerTyped
  <2> QED
    BY <2>1, PeerActs
<1> QED
  BY <1>1, <1>3, <1>4, <1>5 DEF Next

(* The invariant of every reachable state: the tables of the main loop,    *)
(* the connection, and the events in the batch.                            *)
THEOREM Inductive == Spec => []IInv
<1>1. Init => IInv
  BY Initially
<1>2. IInv /\ [Next]_vars => IInv'
  BY StepKeeps
<1> QED
  BY <1>1, <1>2, PTL DEF Spec

(* Every variable keeps its type, and nothing is entered beyond the end of *)
(* mainloop_list (mainloop.c 204).                                         *)
THEOREM TypeCorrect == Spec => []TypeOK
<1>1. IInv => TypeOK
  BY Typed
<1> QED
  BY <1>1, Inductive, PTL

(* The list, the entries, the epoll set and the open descriptors agree     *)
(* after any sequence of updates, connections, hang-ups and time-outs, for *)
(* any number of descriptors (mainloop.c 197-281, io-mainloop.c 71-88,     *)
(* ble.c 183-204).                                                         *)
THEOREM TablesAlwaysAgree == Spec => []TablesAgree
<1>1. ASSUME IInv PROVE TablesAgree
  <2>1. \A fd \in Fds : k.list[fd] # 0 =>
          /\ k.heap[k.list[fd]].fd = fd /\ k.watch[fd].ptr = k.list[fd]
          /\ k.files[fd] \in (IF k.heap[k.list[fd]].kind = "io" THEN {"socket"} ELSE {"timer", "rang"})
    BY <1>1 DEF IInv, Linked, Sockets, Timers
  <2>2. \A fd \in Fds : k.files[fd] \in {"socket", "timer", "rang"} => k.list[fd] # 0
    BY <1>1 DEF IInv, Linked, Sockets, Timers
  <2>3. \A p \in Places : k.heap[p] # Free => k.list[k.heap[p].fd] = p
    BY <1>1 DEF IInv, Linked
  <2>4. io.fd # 0 => k.files[io.fd] = "socket" /\ k.watch[io.fd].mask = io.events
    BY <1>1 DEF IInv, Connection, AttTyped
  <2>5. ble # 0 => ble = io.fd \/ k.files[ble] = "none"
    BY <1>1 DEF IInv, Connection, AttTyped
  <2> QED
    BY <2>1, <2>2, <2>3, <2>4, <2>5 DEF TablesAgree
<1> QED
  BY <1>1, Inductive, PTL

(* The timers of the table are those of the pending request, although the  *)
(* descriptor that identifies one comes back (att.c 203-215, 429, 506-513; *)
(* mainloop.c 325-364).                                                    *)
THEOREM OneTimerPerRequest == Spec => []TimerPerRequest
<1>1. IInv => TimerPerRequest
  BY DEF IInv
<1> QED
  BY <1>1, Inductive, PTL

(* An event that outlives its entry is a timer's whose request has ended;  *)
(* the socket's event never is, and the struct io and the data of a timer  *)
(* are not used after they were freed (mainloop.c 153-158, io-mainloop.c   *)
(* 94-150, timeout-mainloop.c 34-43).                                      *)
THEOREM StaleOnlyForTimers == Spec => []OnlyTimersStale
<1>1. IInv => OnlyTimersStale
  BY DEF IInv
<1> QED
  BY <1>1, Inductive, PTL

(* The event of an earlier timer never gives up the request that is        *)
(* pending (mainloop.c 294-309, att.c 406-440).                            *)
THEOREM NeverGivenUpEarly == Spec => GivenUpInTime
<1> DEFINE Done(op) == prog = "running" /\ op \notin pending' /\ inbox' = inbox
           Rung(op) == op.timer # 0 /\ k.files[op.timer] = "rang"
<1>1. ASSUME IInv, [Next]_vars
      PROVE  [\A op \in pending : Done(op) => Rung(op)]_vars
  <2> SUFFICES ASSUME Next, prog = "running", inbox' = inbox, NEW op \in pending, op \notin pending'
               PROVE  Rung(op)
    BY <1>1
  <2>1. prog # "out" /\ pending' # pending
    OBVIOUS
  <2>2. ~ProgramNext
    BY <2>1 DEF ProgramNext, StartUpdate, ble_open, bt_att_send, Run, ble_close, Reinit, EndUpdate, Outside
  <2>3. ~EnvironmentNext
    BY <2>1 DEF EnvironmentNext, PeerAnswers, PeerNotifies, LinkDrops, TimerExpires, attVars
  <2>4. ~handle_rsp
    <3> SUFFICES ASSUME inbox # <<>>, inbox' = Tail(inbox) PROVE FALSE
      BY DEF handle_rsp, Reading
    <3> DEFINE n == Len(inbox)
               m == Len(Tail(inbox))
    <3>1. n \in Nat /\ m = n - 1
      BY <1>1, HeadTail DEF IInv, PeerTyped
    <3>2. n = m
      OBVIOUS
    <3> HIDE DEF n, m
    <3> QED
      BY <3>1, <3>2
  <2>5. ~HandlerNext
    BY <1>1, <2>1, <2>4 DEF HandlerNext, disconnect_cb, handle_notify, ReadFails, can_write_data, WriteFails,
       NothingToWrite, io_callback_returns
  <2>6. ~EpollWait /\ ~LoopEnds /\ ~DispatchFreed /\ ~DispatchIo
    BY <2>1 DEF EpollWait, LoopEnds, DispatchFreed, DispatchIo, attVars
  <2>7. timeout_callback
    BY <2>2, <2>3, <2>5, <2>6 DEF Next, LoopNext
  <2> DEFINE p == Head(batch).ptr
             t == k.heap[p]
  <2>8. batch # <<>> /\ t.kind = "timer" /\ Rang(t.fd)
    BY <2>1, <2>7 DEF timeout_callback, Dispatching
  <2>9. p \in Places /\ t # Free
    <3>1. Head(batch) = batch[1] /\ 1 \in DOMAIN batch
      <4>1. batch \in Seq([ptr : Places, bits : SUBSET Bits, was : Entry])
        BY <1>1 DEF IInv, LoopTyped
      <4> QED
        BY <2>8, <4>1, HeadTail
    <3>2. p \in Places
      BY <1>1, <3>1, Events
    <3> QED
      BY <2>8, <3>2 DEF Free
  <2> HIDE DEF p
  <2>10. t \in Entry /\ pending = {[id |-> t.req, timer |-> t.fd]}
    BY <1>1, <2>8, <2>9, InTable
  <2>11. op.timer = t.fd /\ t.fd # 0
    BY <2>10, MainLoopAssumption DEF Entry, Fds
  <2> QED
    BY <2>8, <2>11 DEF Rang
<1> QED
  BY <1>1, Inductive, PTL DEF Spec, GivenUpInTime
=============================================================================
