---------------------------- MODULE WalkedList ----------------------------
(***************************************************************************)
(* What bluez/queue.c promises: a sequence, and a walk over it             *)
(* (queue_foreach) that visits in order what lies ahead of it, although    *)
(* the function it calls changes the sequence.                             *)
(***************************************************************************)
EXTENDS Naturals, Sequences, SequencesExt

CONSTANT Data \* what is put into the queue

VARIABLES
  list,  \* the elements in the queue
  here,  \* the element the walk is at, {} if nobody walks
  ahead  \* the elements the walk is still to visit

vars == <<list, here, ahead>>

Elements(s) == {s[i] : i \in DOMAIN s}
\* Of elements that differ: t has some of s, in the same order.
Subsequence(t, s) ==
  /\ Elements(t) \subseteq Elements(s)
  /\ \A i, j \in DOMAIN t : i < j => \E k, m \in DOMAIN s : k < m /\ t[i] = s[k] /\ t[j] = s[m]
Behind(s, e, d) ==
  IF e \in Elements(s)
  THEN LET i == CHOOSE i \in DOMAIN s : s[i] = e IN InsertAt(s, i + 1, d)
  ELSE s

Init == list = <<>> /\ here = {} /\ ahead = <<>>

PushTail(d) ==
  /\ d \notin Elements(list) \cup here /\ list' = Append(list, d)
  /\ ahead' = (IF here = {} THEN ahead ELSE Append(ahead, d))
  /\ UNCHANGED here

PushHead(d) ==
  d \notin Elements(list) \cup here /\ list' = <<d>> \o list /\ UNCHANGED <<here, ahead>>

PushAfter(e, d) ==
  /\ d \notin Elements(list) \cup here /\ e \in Elements(list)
  /\ list' = Behind(list, e, d)
  /\ ahead' = (IF here = {e} THEN <<d>> \o ahead ELSE Behind(ahead, e, d))
  /\ UNCHANGED here

\* Some elements are removed, those ahead among them.
TakeOut ==
  /\ Subsequence(list', list) /\ Subsequence(ahead', ahead)
  /\ Elements(ahead') = Elements(ahead) \cap Elements(list')
  /\ UNCHANGED here

Start ==
  /\ here = {} /\ list # <<>>
  /\ here' = {Head(list)} /\ ahead' = Tail(list) /\ UNCHANGED list

Step ==
  /\ here # {} /\ UNCHANGED list
  /\ IF ahead = <<>>
     THEN here' = {} /\ UNCHANGED ahead
     ELSE here' = {Head(ahead)} /\ ahead' = Tail(ahead)

Next ==
  \/ Start \/ Step \/ TakeOut
  \/ \E d \in Data : PushTail(d) \/ PushHead(d) \/ \E e \in Data : PushAfter(e, d)

Spec == Init /\ [][Next]_vars
=============================================================================
