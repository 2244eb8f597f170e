------------------------------- MODULE Queue -------------------------------
(***************************************************************************)
(* bluez/queue.c: a singly linked list with a tail pointer and a count,    *)
(* whose entries are counted by reference since queue_foreach calls        *)
(* functions that change the list it walks over: handlers that send,       *)
(* register and unregister.                                                *)
(*                                                                         *)
(* An entry that was removed under the walk is kept, with the link it had. *)
(* That link is followed afterwards, and nothing keeps what it leads to.   *)
(* So a callback that has removed its own entry does well to leave the one *)
(* behind it alone, unless it removes everything, and not to put anything  *)
(* where the link does not lead (MindsRemoval, MindsPush).  Callbacks do   *)
(* anything here, and a walk is told by whether its callbacks were heedful *)
(* so far.  Those of this program are: its one walk over a list that it    *)
(* changes is gatt-client.c's over two registrations.                      *)
(*                                                                         *)
(* Every element is in the queue at most once, as objects of the program   *)
(* are.  Destructors do not touch the queue.                               *)
(***************************************************************************)
EXTENDS Integers, FiniteSets, Sequences

CONSTANTS
  Data,       \* the elements
  MaxEntries  \* entries that malloc finds

ASSUME QueueAssumption == MaxEntries \in Nat /\ IsFiniteSet(Data)

VARIABLES
  q,      \* head, tail, entries, and the entries themselves: [data, next, refs]
  refs,   \* queue->ref_count
  owned,  \* the owner has not destroyed the queue
  at,     \* the entry queue_foreach is at, inside the call; 0 outside
  freed,  \* an entry was used after it was freed
  heedful \* the callbacks of the walk that is going on minded its link

vars == <<q, refs, owned, at, freed, heedful>>

Entries == 1..MaxEntries
Links == 0..MaxEntries
Entry == [data : SUBSET Data, next : Links, refs : Int]
Lists == [head : Links, tail : Links, entries : Int, mem : [Entries -> Entry]]
Unused == [data |-> {}, next |-> 0, refs |-> 0]
Empty == [head |-> 0, tail |-> 0, entries |-> 0, mem |-> [e \in Entries |-> Unused]]

Init ==
  q = Empty /\ refs = 1 /\ owned = TRUE /\ at = 0 /\ freed = FALSE /\ heedful = TRUE

---------------------------------------------------------------------------
(* Following the links.                                                    *)

\* f, applied n times.
Repeated(f, x, n) ==
  LET after[i \in 0..n] == IF i = 0 THEN x ELSE f[after[i - 1]] IN after[n]

\* The entries from one on, and the next one.
Onward(l, first) ==
  [s \in Seq(Entries) |->
     LET e == IF s = <<>> THEN first ELSE l.mem[s[Len(s)]].next
     IN IF e = 0 THEN s ELSE Append(s, e)]
Chain(l, first) == Repeated(Onward(l, first), <<>>, MaxEntries)
List(l) == Chain(l, l.head)
Listed(l) == LET s == List(l) IN {s[i] : i \in DOMAIN s}
DataOf(l, s) == [i \in DOMAIN s |-> CHOOSE d \in Data : l.mem[s[i]].data = {d}]
\* The entries that hold one of these elements.
Holding(l, some) == {e \in Listed(l) : l.mem[e].data \subseteq some}

---------------------------------------------------------------------------
(* Entries.                                                                *)

Released(entry) == IF entry.refs = 1 THEN Unused ELSE [entry EXCEPT !.refs = @ - 1]
queue_entry_unref(l, e) == [l EXCEPT !.mem[e] = Released(@)]

queue_entry_ref(l, e) == [l EXCEPT !.mem[e].refs = @ + 1]

New(l) == {e \in Entries : l.mem[e].refs = 0}
queue_entry_new(l, e, d) == [l EXCEPT !.mem[e] = [data |-> {d}, next |-> 0, refs |-> 1],
                                      !.entries = @ + 1]

queue_push_tail(l, e, d) ==
  LET new == queue_entry_new(l, e, d)
  IN IF l.tail = 0 THEN [new EXCEPT !.head = e, !.tail = e]
     ELSE [new EXCEPT !.mem[l.tail].next = e, !.tail = e]

queue_push_head(l, e, d) ==
  [queue_entry_new(l, e, d) EXCEPT !.mem[e].next = l.head, !.head = e,
                                   !.tail = IF l.tail = 0 THEN e ELSE l.tail]

queue_push_after(l, e, old, d) ==
  [queue_entry_new(l, e, d) EXCEPT !.mem[e].next = l.mem[old].next, !.mem[old].next = e,
                                   !.tail = IF l.mem[old].next = 0 THEN e ELSE l.tail]

\* Mutant: the tail stays where it was.
UnlinkKeepingTail(l, e) ==
  LET prev == {p \in Listed(l) : l.mem[p].next = e}
      linked == IF prev = {} THEN [l EXCEPT !.head = l.mem[e].next]
                ELSE [l EXCEPT !.mem[CHOOSE p \in prev : TRUE].next = l.mem[e].next]
  IN queue_entry_unref([linked EXCEPT !.entries = @ - 1], e)

\* queue_remove, queue_remove_if and queue_pop_head, of the entry they have found.
Unlink(l, e) ==
  LET prev == {p \in Listed(l) : l.mem[p].next = e}
      linked == IF prev = {} THEN [l EXCEPT !.head = l.mem[e].next]
                ELSE [l EXCEPT !.mem[CHOOSE p \in prev : TRUE].next = l.mem[e].next]
      ended == IF l.mem[e].next # 0 THEN linked
               ELSE [linked EXCEPT !.tail = IF prev = {} THEN 0 ELSE CHOOSE p \in prev : TRUE]
  IN queue_entry_unref([ended EXCEPT !.entries = @ - 1], e)

\* The first entry that matches, if there is one.
queue_remove_if(matching) ==
  [l \in Lists |->
     LET s     == List(l)
         found == {i \in DOMAIN s : s[i] \in matching}
     IN IF found = {} THEN l
        ELSE Unlink(l, s[CHOOSE i \in found : \A j \in found : i <= j])]

\* queue_remove_all with a match function: until nothing matches.
RemoveMatching(l, matching) == Repeated(queue_remove_if(matching), l, Len(List(l)))

\* queue_remove_all without one: the list is emptied first.
RemoveEverything(l) ==
  [l EXCEPT !.head = 0, !.tail = 0, !.entries = 0,
            !.mem = [e \in Entries |-> IF e \in Listed(l) THEN Released(l.mem[e]) ELSE l.mem[e]]]

---------------------------------------------------------------------------
(* Whether the link of an entry that is held outside the list is minded,   *)
(* see above.                                                              *)

MindsRemoval(removed) ==
  at \notin (Listed(q) \ removed) \cup {0} /\ ~(Listed(q) \subseteq removed) =>
    q.mem[at].next \notin removed

MindsPush == at \notin Listed(q) \cup {0} => q.mem[at].next \in Listed(q)

\* An element is not put in again while an entry, listed or held, has it.
Fresh(d) == \A e \in Entries : q.mem[e].data # {d}

---------------------------------------------------------------------------
Usable == owned /\ ~freed
Same == UNCHANGED <<refs, owned, at, freed>>
Minding(minds) == heedful' = (heedful /\ minds)

Push(d) ==
  /\ Usable /\ Fresh(d)
  /\ \E e \in New(q) :
       \/ q' = queue_push_tail(q, e, d)
       \/ q' = queue_push_head(q, e, d)
       \/ \E old \in Listed(q) : q' = queue_push_after(q, e, old, d)
  /\ Minding(MindsPush) /\ Same

queue_pop_head ==
  /\ Usable /\ q.head # 0
  /\ q' = Unlink(q, q.head) /\ Minding(MindsRemoval({q.head})) /\ Same

queue_remove(d) ==
  /\ Usable
  /\ \E e \in Holding(q, {d}) : q' = Unlink(q, e) /\ Minding(MindsRemoval({e}))
  /\ Same

queue_remove_all ==
  /\ Usable
  /\ \/ \E some \in SUBSET Data :
          /\ q' = RemoveMatching(q, Holding(q, some))
          /\ Minding(MindsRemoval(Holding(q, some)))
     \/ q' = RemoveEverything(q) /\ UNCHANGED heedful
  /\ Same

\* queue_unref frees the queue with the last reference.
queue_destroy ==
  /\ Usable
  /\ q' = RemoveEverything(q) /\ refs' = refs - 1 /\ owned' = FALSE
  /\ UNCHANGED <<at, freed, heedful>>

queue_new ==
  /\ ~owned /\ refs = 0 /\ ~freed
  /\ q' = [Empty EXCEPT !.mem = q.mem] /\ refs' = 1 /\ owned' = TRUE
  /\ UNCHANGED <<at, freed, heedful>>

---------------------------------------------------------------------------
(* queue_foreach                                                           *)

StartWalk ==
  /\ Usable /\ at = 0 /\ q.head # 0
  /\ refs' = refs + 1 /\ at' = q.head /\ q' = queue_entry_ref(q, q.head)
  /\ UNCHANGED <<owned, freed, heedful>>

\* Mutant: the walk goes on from the list instead of the entry it holds.
FollowHead(l) == IF at \in Listed(l) THEN l.mem[at].next ELSE l.head

\* The link of the entry that is held.
Following(l) == l.mem[at].next

(* The function returns.  The walk goes on unless the list is empty or     *)
(* nobody but the walk has the queue.                                      *)
StepWalk ==
  /\ at # 0 /\ ~freed
  /\ LET next == Following(q)
         left == queue_entry_unref(q, at)
         goes == next # 0 /\ q.head # 0 /\ refs > 1
     IN /\ at' = (IF goes THEN next ELSE 0)
        /\ q' = (IF goes THEN queue_entry_ref(left, next) ELSE left)
        /\ refs' = (IF goes THEN refs ELSE refs - 1)
        /\ freed' = (q.mem[at].refs = 0 \/ (goes /\ left.mem[next].refs = 0))
        /\ heedful' = (heedful \/ ~goes)
  /\ UNCHANGED owned

\* What a freed entry leads to is not followed further.
LeftOpen == freed /\ UNCHANGED vars

Next ==
  \/ \E d \in Data : Push(d) \/ queue_remove(d)
  \/ queue_pop_head \/ queue_remove_all \/ queue_destroy \/ queue_new
  \/ StartWalk \/ StepWalk \/ LeftOpen

Spec == Init /\ [][Next]_vars
---------------------------------------------------------------------------
LinksAgree ==
  /\ q.entries = Len(List(q)) /\ Cardinality(Listed(q)) = q.entries
  /\ q.tail = (IF q.head = 0 THEN 0 ELSE List(q)[q.entries])
  /\ q.tail # 0 => q.mem[q.tail].next = 0
  /\ \A e \in Entries :
       q.mem[e].refs = (IF e \in Listed(q) THEN 1 ELSE 0) + (IF e = at THEN 1 ELSE 0)

(* Whatever callbacks do, up to the use of an entry that was freed the     *)
(* links from the head lead through entries that are in use to the tail,   *)
(* entries counts them, and no entry is in use besides them but the one    *)
(* the walk holds.  A freed entry is used only by a walk of which a        *)
(* callback, with its own entry removed, has not minded the link that is   *)
(* followed next (queue.c 79-95, 110-213, 243-257, 283-393).               *)
QueueOK == IF freed THEN ~heedful ELSE LinksAgree

(* The walk as the abstract one sees it.                                   *)
Promise == INSTANCE WalkedList WITH
  list <- DataOf(q, List(q)),
  here <- IF at = 0 THEN {} ELSE q.mem[at].data,
  ahead <- IF at = 0 \/ q.head = 0 THEN <<>> ELSE DataOf(q, Chain(q, q.mem[at].next))

(* The queue is a sequence, and a walk whose callbacks mind the link       *)
(* visits once and in order what lies ahead of it, what is put there       *)
(* meanwhile included, and nothing that is removed, also when it is its    *)
(* own entry that the callback removes (queue.c 231-258).                  *)
Implements == Promise!Init /\ [][heedful /\ heedful' => Promise!Next]_(Promise!vars)
=============================================================================
