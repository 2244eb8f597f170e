----------------------------- MODULE AttProofs -----------------------------
(***************************************************************************)
(* Proofs about Att, for any number of operations and of the peer's PDUs.  *)
(*                                                                         *)
(* The safety invariants are not inductive.  Order on the air rests on the *)
(* order of the two queues against each other and against what was sent    *)
(* (QueueOrder), one final outcome on what is still open (Alive), and the  *)
(* right callback on the pending request being the one the peer answers    *)
(* (Pairing).  That in_req never blames the peer takes where its request   *)
(* and the response to it are (PeerOrder).                                 *)
(***************************************************************************)
EXTENDS Att, SequenceTheorems, TLAPS

Increasing(q) == \A i, j \in DOMAIN q : i < j => q[i].id < q[j].id

\* At most one element of the kind.
Once(q, kind) == \A i, j \in DOMAIN q : q[i].kind = kind /\ q[j].kind = kind => i = j

Without(q, kind) == \A e \in Range(q) : e.kind # kind

QueueOrder ==
  /\ Increasing(writeQ) /\ Increasing(reqQ)
  /\ \A op \in Range(writeQ) \cup Range(reqQ) \cup Range(sent) \cup pending : op.id \in DOMAIN fate
  /\ \A op \in Range(sent), w \in Range(writeQ) : op.id < w.id
  /\ \A op \in Range(sent) \cup pending, r \in Range(reqQ) : op.kind = "req" => op.id < r.id

Alive ==
  /\ \A id \in armed : fate[id] = "open"
  /\ \A w \in Range(writeQ) : fate[w.id] = "open" /\ w.id \notin armed
  /\ \A r \in Range(reqQ) : r.id \in armed

Pairing ==
  /\ \A op, other \in pending : op = other
  /\ Once(inbox, "answer")
  /\ io # "open" => unanswered = <<>> /\ inbox = <<>>
  /\ unanswered = <<>> \/ \E op \in pending : unanswered = <<op.id>> /\ Without(inbox, "answer")
  /\ \A m \in Range(inbox) : m.kind = "answer" => \E op \in pending : m.id = op.id

NobodyConfused == \A i \in DOMAIN fate : fate[i] # "confused"

PeerOrder ==
  /\ Once(inbox, "req")
  /\ ~Without(inbox, "req") => "req" \in peerWaits /\ ~inReq
  /\ io = "open" =>
       /\ inReq => "req" \in peerWaits
       /\ ~Without(writeQ, "rsp") => inReq
       /\ Once(writeQ, "rsp")

IInv ==
  /\ TypeOK
  /\ QueueOrder /\ Alive /\ OnlyRequestsOvertaken
  /\ Pairing /\ NobodyConfused
  /\ PeerOrder /\ PeerNotBlamed
  /\ NoLostWakeup
---------------------------------------------------------------------------
(* Sequences of records.                                                   *)

LEMMA HeadAndTail ==
  ASSUME NEW S, NEW q \in Seq(S), q # <<>>
  PROVE  /\ Head(q) \in S /\ Tail(q) \in Seq(S)
         /\ Range(q) = {Head(q)} \cup Range(Tail(q))
         /\ Increasing(q) => Increasing(Tail(q)) /\ \A e \in Range(Tail(q)) : Head(q).id < e.id
         /\ \A kind : Once(q, kind) =>
              Once(Tail(q), kind) /\ (Head(q).kind = kind => Without(Tail(q), kind))
<1> DEFINE t == Tail(q)
<1>1. /\ Len(q) \in Nat \ {0} /\ DOMAIN q = 1..Len(q)
      /\ Head(q) \in S /\ t \in Seq(S) /\ Len(t) = Len(q) - 1 /\ DOMAIN t = 1..(Len(q) - 1)
      /\ Head(q) = q[1]
  OBVIOUS
<1>2. \A i \in DOMAIN t : i + 1 \in DOMAIN q /\ t[i] = q[i + 1]
  BY <1>1, HeadTailProperties
<1>3. \A i \in DOMAIN q : i = 1 \/ (i - 1 \in DOMAIN t /\ q[i] = t[i - 1])
  BY <1>1, <1>2
<1> HIDE DEF t
<1>4. Range(q) = {Head(q)} \cup Range(t)
  <2>1. \A e \in Range(q) : e \in {Head(q)} \cup Range(t)
    BY <1>1, <1>3 DEF Range
  <2>2. \A e \in Range(t) : e \in Range(q)
    BY <1>2 DEF Range
  <2>3. Head(q) \in Range(q)
    BY <1>1 DEF Range
  <2> QED
    BY <2>1, <2>2, <2>3
<1>5. Increasing(q) => Increasing(t) /\ \A e \in Range(t) : Head(q).id < e.id
  <2> SUFFICES ASSUME Increasing(q)
               PROVE  Increasing(t) /\ \A i \in DOMAIN t : Head(q).id < t[i].id
    BY DEF Range
  <2>1. Increasing(t)
    BY <1>1, <1>2 DEF Increasing
  <2>2. ASSUME NEW i \in DOMAIN t PROVE Head(q).id < t[i].id
    BY <1>1, <1>2 DEF Increasing
  <2> QED
    BY <2>1, <2>2
<1>6. ASSUME NEW kind, Once(q, kind)
      PROVE  Once(t, kind) /\ (Head(q).kind = kind => Without(t, kind))
  <2>1. Once(t, kind)
    BY <1>1, <1>2, <1>6 DEF Once
  <2>2. ASSUME NEW i \in DOMAIN t, Head(q).kind = kind PROVE t[i].kind # kind
    BY <1>1, <1>2, <1>6, <2>2 DEF Once
  <2> QED
    BY <2>1, <2>2 DEF Without, Range
<1> QED
  BY <1>1, <1>4, <1>5, <1>6 DEF t

LEMMA Appended ==
  ASSUME NEW S, NEW q \in Seq(S), NEW e \in S
  PROVE  /\ Append(q, e) \in Seq(S)
         /\ Append(q, e) # <<>>
         /\ Range(Append(q, e)) = Range(q) \cup {e}
         /\ Increasing(q) /\ (\A d \in Range(q) : d.id < e.id) => Increasing(Append(q, e))
         /\ \A kind : Once(q, kind) /\ (e.kind = kind => Without(q, kind)) => Once(Append(q, e), kind)
<1> DEFINE a == Append(q, e)
<1>1. /\ Len(q) \in Nat /\ DOMAIN q = 1..Len(q)
      /\ a \in Seq(S) /\ a # <<>> /\ Len(a) = Len(q) + 1 /\ DOMAIN a = 1..(Len(q) + 1)
      /\ a[Len(q) + 1] = e
  OBVIOUS
<1>2. \A i \in DOMAIN q : i \in DOMAIN a /\ a[i] = q[i]
  BY <1>1
<1>3. \A i \in DOMAIN a : i = Len(q) + 1 \/ i \in DOMAIN q
  BY <1>1
<1> HIDE DEF a
<1>4. Range(a) = Range(q) \cup {e}
  <2>1. \A d \in Range(a) : d \in Range(q) \cup {e}
    BY <1>1, <1>2, <1>3 DEF Range
  <2>2. \A d \in Range(q) : d \in Range(a)
    BY <1>2 DEF Range
  <2>3. e \in Range(a)
    BY <1>1 DEF Range
  <2> QED
    BY <2>1, <2>2, <2>3
<1>5. Increasing(q) /\ (\A d \in Range(q) : d.id < e.id) => Increasing(a)
  BY <1>1, <1>2, <1>3 DEF Increasing, Range
<1>6. \A kind : Once(q, kind) /\ (e.kind = kind => Without(q, kind)) => Once(a, kind)
  BY <1>1, <1>2, <1>3 DEF Once, Without, Range
<1> QED
  BY <1>1, <1>4, <1>5, <1>6 DEF a

LEMMA Removed ==
  ASSUME NEW S, \A e \in S : e.id \in Nat,
         NEW q \in Seq(S), NEW k \in DOMAIN q, Increasing(q)
  PROVE  /\ RemoveAt(q, k) \in Seq(S) /\ Increasing(RemoveAt(q, k))
         /\ \A e \in Range(RemoveAt(q, k)) : e \in Range(q) /\ e.id # q[k].id
<1> DEFINE l == SubSeq(q, 1, k - 1)  u == SubSeq(q, k + 1, Len(q))  r == l \o u
<1>1. /\ Len(q) \in Nat /\ DOMAIN q = 1..Len(q) /\ k \in 1..Len(q)
      /\ \A i \in 1..Len(q) : q[i] \in S
  OBVIOUS
<1>2. l \in Seq(S) /\ Len(l) = k - 1 /\ \A i \in 1..(k - 1) : l[i] = q[i]
  BY <1>1, SubSeqProperties
<1>3. u \in Seq(S) /\ Len(u) = Len(q) - k /\ \A i \in 1..(Len(q) - k) : u[i] = q[k + i]
  BY <1>1, SubSeqProperties
<1> HIDE DEF l, u
<1>4. /\ r \in Seq(S) /\ Len(r) = Len(q) - 1
      /\ \A i \in 1..(Len(q) - 1) : r[i] = q[IF i < k THEN i ELSE i + 1]
  <2>1. /\ r \in Seq(S) /\ Len(r) = Len(l) + Len(u)
        /\ \A i \in 1..(Len(l) + Len(u)) : r[i] = IF i <= Len(l) THEN l[i] ELSE u[i - Len(l)]
    BY <1>2, <1>3, ConcatProperties
  <2> HIDE DEF r
  <2>2. r \in Seq(S) /\ Len(r) = Len(q) - 1
    BY <1>1, <1>2, <1>3, <2>1
  <2>3. ASSUME NEW i \in 1..(Len(q) - 1) PROVE r[i] = q[IF i < k THEN i ELSE i + 1]
    <3>1. CASE i < k
      BY <1>1, <1>2, <1>3, <2>1, <3>1
    <3>2. CASE ~(i < k)
      <4>1. i - (k - 1) \in 1..(Len(q) - k) /\ k + (i - (k - 1)) = i + 1
        BY <1>1, <3>2
      <4>2. r[i] = u[i - (k - 1)]
        BY <1>1, <1>2, <1>3, <2>1, <3>2
      <4> QED
        BY <1>3, <3>2, <4>1, <4>2
    <3> QED
      BY <3>1, <3>2
  <2> QED
    BY <2>2, <2>3
<1> HIDE DEF r
<1>5. DOMAIN r = 1..(Len(q) - 1)
  BY <1>1, <1>4
<1>6. Increasing(r)
  <2> SUFFICES ASSUME NEW i \in DOMAIN r, NEW j \in DOMAIN r, i < j
               PROVE  r[i].id < r[j].id
    BY DEF Increasing
  <2> DEFINE m == IF i < k THEN i ELSE i + 1  n == IF j < k THEN j ELSE j + 1
  <2>1. m \in DOMAIN q /\ n \in DOMAIN q /\ m < n
    BY <1>1, <1>5
  <2>2. r[i] = q[m] /\ r[j] = q[n]
    BY <1>4, <1>5
  <2> QED
    BY <2>1, <2>2 DEF Increasing
<1>7. ASSUME NEW i \in DOMAIN r PROVE r[i] \in Range(q) /\ r[i].id # q[k].id
  <2> DEFINE m == IF i < k THEN i ELSE i + 1
  <2>1. m \in DOMAIN q /\ (m < k \/ k < m)
    BY <1>1, <1>5
  <2>2. r[i] = q[m]
    BY <1>4, <1>5
  <2>3. q[m].id < q[k].id \/ q[k].id < q[m].id
    BY <2>1 DEF Increasing
  <2>4. q[m].id # q[k].id
    <3>1. q[m].id \in Nat /\ q[k].id \in Nat
      BY <1>1, <2>1
    <3> QED
      BY <2>3, <3>1
  <2> QED
    BY <2>1, <2>2, <2>4 DEF Range
<1> QED
  BY <1>4, <1>6, <1>7 DEF r, l, u, RemoveAt, Range

LEMMA InRange ==
  ASSUME NEW S, NEW q \in Seq(S)
  PROVE  Range(q) \subseteq S
  BY DEF Range

LEMMA EmptyQueue ==
  /\ Range(<<>>) = {} /\ Increasing(<<>>)
  /\ \A kind : Once(<<>>, kind) /\ Without(<<>>, kind)
  BY DEF Range, Increasing, Once, Without

LEMMA InitHolds == Init => IInv
<1> SUFFICES ASSUME Init PROVE IInv
  OBVIOUS
<1> USE AttAssumption, EmptyQueue DEF Init
<1>a. /\ writeQ \in Seq(Write) /\ reqQ \in Seq(Request) /\ fate \in Seq(Fate)
      /\ sent \in Seq(Request \cup Write) /\ unanswered \in Seq(Nat) /\ inbox \in Seq(Pdu)
  BY EmptySeq
<1>b. armed \subseteq DOMAIN fate /\ peerSent \in 0..MaxPeer
  OBVIOUS
<1>1. TypeOK
  BY <1>a, <1>b DEF TypeOK
<1>2. QueueOrder /\ Alive
  BY DEF QueueOrder, Alive
<1>3. Pairing /\ NobodyConfused /\ PeerOrder /\ OnlyRequestsOvertaken
  BY DEF Pairing, NobodyConfused, PeerOrder, OnlyRequestsOvertaken
<1>4. PeerNotBlamed /\ NoLostWakeup
  BY DEF PeerNotBlamed, NoLostWakeup, Sendable
<1> QED
  BY <1>1, <1>2, <1>3, <1>4 DEF IInv
---------------------------------------------------------------------------
(* Steps on the queues.                                                    *)

QueuesTyped ==
  writeQ \in Seq(Write) /\ reqQ \in Seq(Request) /\ fate \in Seq(Fate) /\ armed \subseteq DOMAIN fate

Queued == QueuesTyped /\ QueueOrder /\ Alive /\ NobodyConfused

FinalStep == \A i \in DOMAIN fate : fate[i] # "open" => fate'[i] = fate[i]

\* What a queueing step leaves of the responses under way.
ResponsesKept ==
  /\ Without(writeQ, "rsp") => Without(writeQ', "rsp")
  /\ Once(writeQ, "rsp") => Once(writeQ', "rsp")

LEMMA Enqueued ==
  ASSUME TypeOK, QueueOrder, Alive,
         NEW kind \in {"req", "cmd", "rsp", "conf"}, NEW f \in Seq(Fate), NEW a \in SUBSET armed,
         Len(f) = Len(fate), \A i \in DOMAIN f : f[i] # "confused",
         \A id \in a : f[id] = "open",
         \A w \in Range(writeQ) : f[w.id] = "open",
         \A r \in Range(reqQ) : r.id \in a,
         Enqueue(kind, f, a), sent' = sent, pending' \subseteq pending
  PROVE  /\ Queued'
         /\ \A i \in DOMAIN fate : fate'[i] = f[i]
         /\ kind # "rsp" => ResponsesKept
         /\ Without(writeQ, "rsp") => Once(writeQ', "rsp")
<1> DEFINE n == Len(fate) + 1  op == [id |-> n, kind |-> kind]
<1>1. /\ Len(fate) \in Nat /\ n \in Nat /\ DOMAIN fate = 1..Len(fate) /\ DOMAIN f = 1..Len(fate)
      /\ writeQ \in Seq(Write) /\ reqQ \in Seq(Request) /\ sent \in Seq(Request \cup Write)
      /\ armed \subseteq DOMAIN fate /\ a \subseteq DOMAIN fate /\ pending \subseteq Request
  BY DEF TypeOK
<1>2. fate' = Append(f, "open")
  BY DEF Enqueue
<1>3. /\ fate' \in Seq(Fate) /\ DOMAIN fate' = 1..n /\ fate'[n] = "open"
      /\ \A i \in DOMAIN fate : fate'[i] = f[i]
  BY <1>1, <1>2 DEF Fate
<1>4. NobodyConfused'
  BY <1>1, <1>3 DEF NobodyConfused
<1>5. \A d \in Range(writeQ) \cup Range(reqQ) \cup Range(sent) \cup pending :
        d.id \in DOMAIN fate /\ d.id \in Nat /\ d.id < n
  BY <1>1 DEF QueueOrder
<1>6. CASE kind = "req"
  <2>1. op \in Request /\ reqQ' = Append(reqQ, op) /\ armed' = a \cup {n} /\ writeQ' = writeQ
    BY <1>1, <1>6 DEF Enqueue, Request
  <2>2. /\ reqQ' \in Seq(Request) /\ Range(reqQ') = Range(reqQ) \cup {op}
        /\ Increasing(reqQ')
    BY <1>1, <1>5, <2>1, Appended DEF QueueOrder
  <2>3. QueuesTyped'
    BY <1>1, <1>3, <2>1, <2>2 DEF QueuesTyped
  <2>4. QueueOrder'
    BY <1>1, <1>3, <1>5, <2>1, <2>2 DEF QueueOrder
  <2>5. Alive'
    BY <1>1, <1>3, <1>5, <2>1, <2>2 DEF Alive
  <2>6. ResponsesKept /\ (Without(writeQ, "rsp") => Once(writeQ', "rsp"))
    BY <2>1 DEF ResponsesKept, Without, Once, Range
  <2> QED
    BY <1>3, <1>4, <2>3, <2>4, <2>5, <2>6 DEF Queued
<1>7. CASE kind # "req"
  <2>1. op \in Write /\ writeQ' = Append(writeQ, op) /\ armed' = a /\ reqQ' = reqQ
    BY <1>1, <1>7 DEF Enqueue, Write
  <2>2. /\ writeQ' \in Seq(Write) /\ Range(writeQ') = Range(writeQ) \cup {op}
        /\ Increasing(writeQ')
        /\ \A k : Once(writeQ, k) /\ (op.kind = k => Without(writeQ, k)) => Once(writeQ', k)
    BY <1>1, <1>5, <2>1, Appended DEF QueueOrder
  <2>3. QueuesTyped'
    BY <1>1, <1>3, <2>1, <2>2 DEF QueuesTyped
  <2>4. QueueOrder'
    BY <1>1, <1>3, <1>5, <2>1, <2>2 DEF QueueOrder
  <2>5. Alive'
    <3>1. \A w \in Range(writeQ) : w.id \notin a
      BY DEF Alive
    <3> QED
      BY <1>1, <1>3, <1>5, <2>1, <2>2, <3>1 DEF Alive
  <2>6. kind # "rsp" => ResponsesKept
    BY <2>1, <2>2 DEF ResponsesKept, Without
  <2>7. Without(writeQ, "rsp") => Once(writeQ', "rsp")
    <3>1. Without(writeQ, "rsp") => Once(writeQ, "rsp")
      BY DEF Without, Once, Range
    <3> QED
      BY <2>2, <3>1
  <2> QED
    BY <1>3, <1>4, <2>3, <2>4, <2>5, <2>6, <2>7 DEF Queued
<1> QED
  BY <1>6, <1>7

LEMMA CallbackRan ==
  ASSUME TypeOK, QueueOrder, Alive, NobodyConfused,
         NEW op \in pending, NEW outcome \in Fate \ {"confused"},
         Callback(op, outcome), sent' = sent, pending' \subseteq pending
  PROVE  Queued' /\ FinalStep /\ ResponsesKept
<1> DEFINE told == IF op.id \in armed THEN [fate EXCEPT ![op.id] = outcome] ELSE fate
           left == armed \ {op.id}
<1>1. /\ op.id \in DOMAIN fate /\ op.kind = "req" /\ armed \subseteq DOMAIN fate
      /\ Len(fate) \in Nat /\ DOMAIN fate = 1..Len(fate) /\ fate \in Seq(Fate)
      /\ writeQ \in Seq(Write) /\ reqQ \in Seq(Request)
  BY DEF TypeOK, QueueOrder, Request
<1>2. /\ told \in Seq(Fate) /\ Len(told) = Len(fate) /\ DOMAIN told = DOMAIN fate
      /\ \A i \in DOMAIN fate : told[i] = IF i = op.id /\ i \in armed THEN outcome ELSE fate[i]
  <2>1. CASE op.id \in armed
    <3>1. told = [fate EXCEPT ![op.id] = outcome]
      BY <2>1
    <3> QED
      BY <1>1, <2>1, <3>1, ExceptSeq
  <2>2. CASE op.id \notin armed
    BY <1>1, <2>2
  <2> QED
    BY <2>1, <2>2
<1> HIDE DEF told
<1>3. \A i \in DOMAIN told : told[i] # "confused"
  BY <1>2 DEF NobodyConfused
<1>4. \A id \in left : told[id] = "open"
  BY <1>1, <1>2 DEF Alive
<1>5. \A w \in Range(writeQ) : told[w.id] = "open" /\ w.id \notin left
  BY <1>2 DEF Alive, QueueOrder
<1>6. \A r \in Range(reqQ) : r.id \in left
  <2>1. \A r \in Range(reqQ) : op.id < r.id /\ r.id \in Nat
    BY <1>1, InRange DEF QueueOrder, Request
  <2> QED
    BY <1>1, <2>1 DEF Alive
<1>7. \A i \in DOMAIN fate : fate[i] # "open" => told[i] = fate[i]
  BY <1>2 DEF Alive
<1>8. CASE fate' = told /\ armed' = left /\ UNCHANGED <<reqQ, writeQ>>
  <2>1. QueuesTyped'
    BY <1>1, <1>2, <1>8 DEF QueuesTyped
  <2>2. QueueOrder'
    BY <1>2, <1>8 DEF QueueOrder
  <2>3. Alive' /\ NobodyConfused'
    BY <1>3, <1>4, <1>5, <1>6, <1>8 DEF Alive, NobodyConfused
  <2> QED
    BY <1>7, <1>8, <2>1, <2>2, <2>3 DEF Queued, FinalStep, ResponsesKept
<1>9. CASE \E kind \in {"req", "cmd"} : Enqueue(kind, told, left)
  <2>1. PICK kind \in {"req", "cmd"} : Enqueue(kind, told, left)
    BY <1>9
  <2>2. /\ Queued' /\ ResponsesKept
        /\ \A i \in DOMAIN fate : fate'[i] = told[i]
    BY <1>2, <1>3, <1>4, <1>5, <1>6, <2>1, Enqueued
  <2> QED
    BY <1>7, <2>2 DEF FinalStep
<1> QED
  BY <1>8, <1>9 DEF Callback, told

LEMMA Woken == wakeup_writer => NoLostWakeup'
  BY DEF wakeup_writer, NoLostWakeup

LEMMA SentInOrder ==
  ASSUME sent \in Seq(Request \cup Write), OnlyRequestsOvertaken,
         NEW op \in Request \cup Write, sent' = Append(sent, op),
         \A s \in Range(sent) : s.id < op.id \/ (op.kind = "req" /\ s.kind # "req")
  PROVE  /\ sent' \in Seq(Request \cup Write) /\ Range(sent') = Range(sent) \cup {op}
         /\ OnlyRequestsOvertaken'
<1>1. /\ Len(sent) \in Nat /\ DOMAIN sent = 1..Len(sent)
      /\ DOMAIN sent' = 1..(Len(sent) + 1) /\ sent'[Len(sent) + 1] = op
      /\ \A i \in DOMAIN sent : sent'[i] = sent[i]
  OBVIOUS
<1>2. \A i \in DOMAIN sent : sent[i].id \in Nat
  BY DEF Request, Write
<1>3. op.id \in Nat
  BY DEF Request, Write
<1>4. ASSUME NEW i \in DOMAIN sent', NEW j \in DOMAIN sent', i < j, sent'[i].id > sent'[j].id
      PROVE  sent'[i].kind # "req" /\ sent'[j].kind = "req"
  <2>1. CASE j \in DOMAIN sent
    BY <1>1, <1>4, <2>1 DEF OnlyRequestsOvertaken
  <2>2. CASE j = Len(sent) + 1
    <3>1. i \in DOMAIN sent /\ sent'[i] \in Range(sent) /\ sent'[j] = op
      BY <1>1, <1>4, <2>2 DEF Range
    <3>2. ~(sent'[i].id < op.id)
      BY <1>1, <1>2, <1>3, <1>4, <3>1
    <3> QED
      BY <3>1, <3>2
  <2> QED
    BY <1>1, <2>1, <2>2
<1> QED
  BY <1>4, Appended DEF OnlyRequestsOvertaken
---------------------------------------------------------------------------
(* The actions.                                                            *)

\* The part of the invariant that speaks of the peer, in terms of what a step changes.
LEMMA PeerSideKept ==
  ASSUME IInv, ResponsesKept, UNCHANGED <<pending, inReq, ioVars, peerVars>>
  PROVE  Pairing' /\ PeerOrder' /\ PeerNotBlamed'
  BY DEF IInv, ResponsesKept, Pairing, PeerOrder, PeerNotBlamed, ioVars, peerVars

LEMMA EnqueuedNow ==
  ASSUME IInv, NEW kind \in {"req", "cmd", "rsp", "conf"},
         Enqueue(kind, fate, armed), UNCHANGED <<pending, sent>>, wakeup_writer
  PROVE  /\ Queued' /\ FinalStep
         /\ kind # "rsp" => ResponsesKept
         /\ Without(writeQ, "rsp") => Once(writeQ', "rsp")
         /\ active' \in BOOLEAN /\ NoLostWakeup' /\ OnlyRequestsOvertaken'
<1>1. /\ TypeOK /\ fate \in Seq(Fate) /\ armed \in SUBSET armed
      /\ QueueOrder /\ Alive /\ NobodyConfused
  BY DEF IInv, TypeOK
<1>2. /\ \A id \in armed : fate[id] = "open"
      /\ \A w \in Range(writeQ) : fate[w.id] = "open"
      /\ \A r \in Range(reqQ) : r.id \in armed
      /\ \A i \in DOMAIN fate : fate[i] # "confused"
  BY <1>1 DEF Alive, NobodyConfused
<1>3. /\ Queued' /\ \A i \in DOMAIN fate : fate'[i] = fate[i]
      /\ kind # "rsp" => ResponsesKept
      /\ Without(writeQ, "rsp") => Once(writeQ', "rsp")
  BY <1>1, <1>2, Enqueued
<1>4. active' \in BOOLEAN
  BY <1>1 DEF TypeOK, wakeup_writer, Sendable
<1>5. OnlyRequestsOvertaken' /\ NoLostWakeup'
  BY Woken DEF IInv, OnlyRequestsOvertaken
<1> QED
  BY <1>3, <1>4, <1>5 DEF FinalStep

LEMMA SendKeeps ==
  ASSUME IInv, NEW kind \in {"req", "cmd"}, Send(kind)
  PROVE  IInv' /\ FinalStep
<1>1. /\ Enqueue(kind, fate, armed) /\ wakeup_writer
      /\ UNCHANGED <<prog, inReq, ioVars, sent, peerVars, pending>>
  BY DEF Send
<1>2. /\ Queued' /\ FinalStep /\ ResponsesKept
      /\ active' \in BOOLEAN /\ NoLostWakeup' /\ OnlyRequestsOvertaken'
  BY <1>1, EnqueuedNow
<1>3. TypeOK'
  BY <1>1, <1>2 DEF IInv, TypeOK, Queued, QueuesTyped, ioVars, peerVars
<1> QED
  BY <1>1, <1>2, <1>3, PeerSideKept DEF IInv, Queued

LEMMA CancelKeeps ==
  ASSUME IInv, NEW id \in DOMAIN fate, bt_att_cancel(id)
  PROVE  IInv' /\ FinalStep
<1> USE DEF bt_att_cancel
<1>1. /\ TypeOK /\ QueueOrder /\ Alive /\ NobodyConfused
      /\ writeQ \in Seq(Write) /\ reqQ \in Seq(Request) /\ fate \in Seq(Fate)
      /\ armed \subseteq DOMAIN fate
  BY DEF IInv, TypeOK
<1>2. id \in armed /\ fate[id] = "open" /\ fate' = [fate EXCEPT ![id] = "cancelled"]
  BY <1>1 DEF Alive
<1>3. /\ fate' \in Seq(Fate) /\ DOMAIN fate' = DOMAIN fate
      /\ \A i \in DOMAIN fate : fate'[i] = IF i = id THEN "cancelled" ELSE fate[i]
  BY <1>1, <1>2, ExceptSeq DEF Fate
<1>4. /\ reqQ' \in Seq(Request) /\ Increasing(reqQ')
      /\ \A r \in Range(reqQ') : r \in Range(reqQ) /\ r.id # id
  <2>1. CASE \E op \in pending : op.id = id
    <3>1. PICK op \in pending : op.id = id
      BY <2>1
    <3>2. \A r \in Range(reqQ) : op.id < r.id /\ r.id \in Nat /\ op.id \in Nat
      BY <1>1, <3>1, InRange DEF TypeOK, QueueOrder, Request
    <3>3. reqQ' = reqQ
      BY <2>1
    <3> QED
      BY <1>1, <3>1, <3>2, <3>3 DEF QueueOrder
  <2>2. CASE ~\E op \in pending : op.id = id
    <3>1. PICK k \in DOMAIN reqQ : reqQ[k].id = id /\ reqQ' = RemoveAt(reqQ, k)
      BY <2>2
    <3>2. \A e \in Request : e.id \in Nat
      BY DEF Request
    <3> QED
      BY <1>1, <3>1, <3>2, Removed DEF QueueOrder
  <2> QED
    BY <2>1, <2>2
<1>5. armed' = armed \ {id} /\ writeQ' = writeQ /\ pending' = pending /\ sent' = sent
  BY DEF CancelPending
<1> HIDE DEF bt_att_cancel
<1>6. QueueOrder'
  BY <1>1, <1>3, <1>4, <1>5 DEF QueueOrder
<1>7. Alive' /\ NobodyConfused'
  BY <1>1, <1>2, <1>3, <1>4, <1>5 DEF Alive, NobodyConfused, QueueOrder
<1>8. active' \in BOOLEAN /\ NoLostWakeup'
  <2>1. CASE UNCHANGED <<reqQ, writeQ, active>>
    BY <1>1, <1>5, <2>1 DEF IInv, TypeOK, NoLostWakeup, Sendable, bt_att_cancel, ioVars
  <2>2. CASE wakeup_writer
    BY <1>1, <2>2, Woken DEF wakeup_writer, TypeOK, Sendable
  <2> QED
    BY <2>1, <2>2 DEF bt_att_cancel
<1>9. TypeOK'
  BY <1>1, <1>3, <1>4, <1>5, <1>8 DEF TypeOK, bt_att_cancel, ioVars, peerVars
<1>10. OnlyRequestsOvertaken' /\ FinalStep
  BY <1>2, <1>3, <1>5 DEF IInv, OnlyRequestsOvertaken, FinalStep
<1>11. ResponsesKept /\ UNCHANGED <<pending, inReq, ioVars, peerVars>>
  BY <1>5 DEF ResponsesKept, bt_att_cancel
<1> QED
  BY <1>6, <1>7, <1>8, <1>9, <1>10, <1>11, PeerSideKept DEF IInv

LEMMA ProgramStepKeeps ==
  ASSUME IInv, Sleep \/ Wake \/ Run \/ Stop
  PROVE  IInv' /\ FinalStep
<1>1. UNCHANGED <<queueVars, active, inReq, ioVars, sent, peerVars>>
  BY DEF Sleep, Wake, Run, Stop
<1>2. TypeOK'
  BY <1>1 DEF IInv, TypeOK, queueVars, ioVars, peerVars, Sleep, Wake, Run, Stop
<1>3. QueueOrder' /\ Alive' /\ NobodyConfused' /\ OnlyRequestsOvertaken' /\ NoLostWakeup'
  BY <1>1 DEF IInv, QueueOrder, Alive, NobodyConfused, OnlyRequestsOvertaken, NoLostWakeup, Sendable,
              queueVars, ioVars
<1>4. ResponsesKept /\ FinalStep
  BY <1>1 DEF ResponsesKept, FinalStep, queueVars
<1> QED
  BY <1>1, <1>2, <1>3, <1>4, PeerSideKept DEF IInv, queueVars

\* The head of the write queue leaves it, with what became of it.
LEMMA WriteTaken ==
  ASSUME TypeOK, QueueOrder, Alive, NobodyConfused, writeQ # <<>>,
         NEW outcome \in {"sent", "failed"},
         writeQ' = Tail(writeQ), fate' = [fate EXCEPT ![Head(writeQ).id] = outcome],
         UNCHANGED <<reqQ, armed, pending>>
  PROVE  /\ QueuesTyped' /\ Alive' /\ NobodyConfused' /\ FinalStep /\ ResponsesKept
         /\ Head(writeQ) \in Write /\ Head(writeQ).id \in DOMAIN fate
         /\ Once(writeQ, "rsp") /\ Head(writeQ).kind = "rsp" => Without(writeQ', "rsp")
         /\ \A s \in Range(sent) : s.id < Head(writeQ).id
         /\ (\A s \in Range(sent') : s \in Range(sent) \/ s = Head(writeQ)) => QueueOrder'
<1> DEFINE op == Head(writeQ)
<1>1. /\ writeQ \in Seq(Write) /\ reqQ \in Seq(Request) /\ fate \in Seq(Fate)
      /\ armed \subseteq DOMAIN fate /\ pending \subseteq Request
  BY DEF TypeOK
<1>2. /\ op \in Write /\ writeQ' \in Seq(Write) /\ Range(writeQ) = {op} \cup Range(writeQ')
      /\ Increasing(writeQ') /\ \A w \in Range(writeQ') : op.id < w.id
      /\ \A k : Once(writeQ, k) =>
            Once(writeQ', k) /\ (op.kind = k => Without(writeQ', k))
  BY <1>1, HeadAndTail DEF QueueOrder
<1>3. op.id \in DOMAIN fate /\ op.id \in Nat /\ fate[op.id] = "open" /\ op.id \notin armed
  BY <1>1, <1>2 DEF QueueOrder, Alive, Write
<1> HIDE DEF op
<1>4. fate' = [fate EXCEPT ![op.id] = outcome]
  BY DEF op
<1>5. /\ fate' \in Seq(Fate) /\ DOMAIN fate' = DOMAIN fate
      /\ \A i \in DOMAIN fate : fate'[i] = IF i = op.id THEN outcome ELSE fate[i]
  BY <1>1, <1>3, <1>4, ExceptSeq DEF Fate
<1>6. QueuesTyped'
  BY <1>1, <1>2, <1>5 DEF QueuesTyped
<1>7. Alive' /\ NobodyConfused' /\ FinalStep
  <2>1. \A w \in Range(writeQ') : w.id # op.id /\ w.id \in DOMAIN fate
    BY <1>2, <1>3 DEF QueueOrder
  <2> QED
    BY <1>1, <1>2, <1>3, <1>5, <2>1 DEF Alive, NobodyConfused, FinalStep
<1>8. ResponsesKept
  BY <1>2 DEF ResponsesKept, Without
<1>9. \A s \in Range(sent) : s.id < op.id
  BY <1>2 DEF QueueOrder
<1>10. ASSUME \A s \in Range(sent') : s \in Range(sent) \/ s = op
       PROVE  QueueOrder'
  <2>1. op.kind # "req"
    BY <1>2 DEF Write
  <2> QED
    BY <1>1, <1>2, <1>3, <1>5, <1>10, <2>1 DEF QueueOrder
<1> QED
  BY <1>2, <1>3, <1>6, <1>7, <1>8, <1>9, <1>10 DEF op

\* The head of the request queue leaves it.
LEMMA RequestTaken ==
  ASSUME TypeOK, QueueOrder, reqQ # <<>>, reqQ' = Tail(reqQ)
  PROVE  /\ reqQ' \in Seq(Request) /\ Increasing(reqQ')
         /\ Range(reqQ) = {Head(reqQ)} \cup Range(reqQ')
         /\ Head(reqQ) \in Request /\ Head(reqQ).id \in DOMAIN fate
         /\ \A r \in Range(reqQ') : Head(reqQ).id < r.id /\ r.id # Head(reqQ).id
<1>1. reqQ \in Seq(Request)
  BY DEF TypeOK
<1>2. /\ Head(reqQ) \in Request /\ reqQ' \in Seq(Request)
      /\ Range(reqQ) = {Head(reqQ)} \cup Range(reqQ')
      /\ Increasing(reqQ') /\ \A r \in Range(reqQ') : Head(reqQ).id < r.id
  BY <1>1, HeadAndTail DEF QueueOrder
<1>3. Head(reqQ).id \in Nat /\ \A r \in Range(reqQ') : r.id \in Nat
  <2>1. \A r \in Request : r.id \in Nat
    BY DEF Request
  <2> QED
    BY <1>2, <2>1, InRange
<1> QED
  BY <1>2, <1>3 DEF QueueOrder

LEMMA CanWriteKeeps ==
  ASSUME IInv, can_write_data
  PROVE  IInv' /\ FinalStep
<1>1. PICK op : /\ Pick(op) /\ PeerReceives(op)
                /\ pending' = (IF op.kind = "req" THEN {op} ELSE pending)
                /\ fate' = (IF op.kind = "req" THEN fate ELSE [fate EXCEPT ![op.id] = "sent"])
                /\ inReq' = InReqAfter(op)
  BY DEF can_write_data
<1>2. /\ Writing /\ active = TRUE /\ io = "open"
      /\ UNCHANGED <<armed, active, ioVars, inbox, peerSent>>
  BY DEF can_write_data, Writing, IInv, TypeOK
<1>3. /\ TypeOK /\ QueueOrder /\ Alive /\ NobodyConfused /\ OnlyRequestsOvertaken
      /\ Pairing /\ PeerOrder /\ PeerNotBlamed
      /\ sent \in Seq(Request \cup Write)
  BY DEF IInv, TypeOK
<1>4. NoLostWakeup' /\ PeerNotBlamed'
  BY <1>2, <1>3 DEF NoLostWakeup, PeerNotBlamed, ioVars
<1>5. prog' \in {"calling", "sleeping", "running", "stopping"} /\ inReq' \in BOOLEAN
      /\ peerWaits' \subseteq {"req", "ind"}
  BY <1>1, <1>2, <1>3 DEF Writing, InLoop, TypeOK, InReqAfter, PeerReceives
<1>6. CASE writeQ # <<>> /\ op = Head(writeQ) /\ writeQ' = Tail(writeQ) /\ UNCHANGED reqQ
  <2>1. op \in Write /\ op.kind # "req"
    <3>1. writeQ \in Seq(Write)
      BY <1>3 DEF TypeOK
    <3>2. op \in Write
      BY <1>6, <3>1, HeadAndTail
    <3> QED
      BY <3>2 DEF Write
  <2>2. /\ fate' = [fate EXCEPT ![Head(writeQ).id] = "sent"] /\ pending' = pending
        /\ unanswered' = unanswered /\ sent' = Append(sent, op)
    BY <1>1, <1>6, <2>1 DEF PeerReceives
  <2>3. /\ QueuesTyped' /\ Alive' /\ NobodyConfused' /\ FinalStep /\ ResponsesKept
        /\ Once(writeQ, "rsp") /\ op.kind = "rsp" => Without(writeQ', "rsp")
        /\ \A s \in Range(sent) : s.id < op.id
        /\ (\A s \in Range(sent') : s \in Range(sent) \/ s = op) => QueueOrder'
    BY <1>2, <1>3, <1>6, <2>2, WriteTaken
  <2>4. /\ sent' \in Seq(Request \cup Write) /\ Range(sent') = Range(sent) \cup {op}
        /\ OnlyRequestsOvertaken'
    BY <1>3, <2>1, <2>2, <2>3, SentInOrder
  <2>5. QueueOrder'
    BY <2>3, <2>4
  <2>6. TypeOK'
    BY <1>2, <1>3, <1>5, <2>2, <2>3, <2>4 DEF TypeOK, QueuesTyped, ioVars
  <2>7. Pairing'
    BY <1>2, <1>3, <2>2 DEF Pairing, ioVars
  <2>8. PeerOrder'
    <3>1. CASE op.kind = "rsp"
      <4>1. inReq' = FALSE
        BY <1>1, <3>1 DEF InReqAfter
      <4>2. ~Without(writeQ, "rsp") /\ Without(writeQ', "rsp") /\ Once(writeQ', "rsp")
        <5>1. op \in Range(writeQ)
          BY <1>3, <1>6, HeadAndTail DEF TypeOK
        <5> QED
          BY <1>2, <1>3, <2>3, <3>1, <5>1 DEF PeerOrder, Without, ResponsesKept
      <4>3. Without(inbox, "req")
        BY <1>2, <1>3, <4>2 DEF PeerOrder
      <4> QED
        BY <1>2, <1>3, <4>1, <4>2, <4>3 DEF PeerOrder
    <3>2. CASE op.kind # "rsp"
      <4>1. inReq' = inReq /\ ("req" \in peerWaits => "req" \in peerWaits')
        BY <1>1, <1>3, <3>2 DEF InReqAfter, PeerReceives, TypeOK
      <4> QED
        BY <1>2, <1>3, <2>3, <4>1 DEF PeerOrder, ResponsesKept, ioVars
    <3> QED
      BY <3>1, <3>2
  <2> QED
    BY <1>4, <2>3, <2>4, <2>5, <2>6, <2>7, <2>8 DEF IInv
<1>7. CASE writeQ = <<>> /\ reqQ # <<>> /\ pending = {} /\ op = Head(reqQ) /\ reqQ' = Tail(reqQ)
           /\ UNCHANGED writeQ
  <2>1. /\ reqQ' \in Seq(Request) /\ Increasing(reqQ')
        /\ Range(reqQ) = {op} \cup Range(reqQ')
        /\ op \in Request /\ op.kind = "req" /\ op.id \in DOMAIN fate /\ op.id \in Nat
        /\ \A r \in Range(reqQ') : op.id < r.id /\ r.id # op.id
    BY <1>3, <1>7, RequestTaken DEF Request
  <2>2. /\ fate' = fate /\ pending' = {op} /\ sent' = Append(sent, op)
        /\ unanswered' = Append(unanswered, op.id) /\ peerWaits' = peerWaits
    BY <1>1, <1>3, <2>1 DEF PeerReceives, TypeOK
  <2>3. \A s \in Range(sent) : s.kind = "req" => s.id < op.id
    BY <1>3, <2>1 DEF QueueOrder
  <2>4. /\ sent' \in Seq(Request \cup Write) /\ Range(sent') = Range(sent) \cup {op}
        /\ OnlyRequestsOvertaken'
    BY <1>3, <2>1, <2>2, <2>3, SentInOrder
  <2>5. QueueOrder'
    BY <1>3, <1>7, <2>1, <2>2, <2>4, EmptyQueue DEF QueueOrder
  <2>6. Alive' /\ NobodyConfused' /\ FinalStep
    BY <1>2, <1>3, <1>7, <2>1, <2>2 DEF Alive, NobodyConfused, FinalStep
  <2>7. unanswered = <<>> /\ unanswered' = <<op.id>> /\ Without(inbox, "answer")
    <3>1. unanswered = <<>> /\ Without(inbox, "answer")
      BY <1>3, <1>7 DEF Pairing, Without
    <3> QED
      BY <2>2, <3>1
  <2>8. TypeOK'
    BY <1>2, <1>3, <1>5, <1>7, <2>1, <2>2, <2>4, <2>7 DEF TypeOK, ioVars
  <2>9. Pairing'
    BY <1>2, <1>3, <2>2, <2>7 DEF Pairing, ioVars, Without
  <2>10. PeerOrder'
    <3>1. inReq' = inReq
      BY <1>1, <1>3, <2>1 DEF InReqAfter, TypeOK
    <3> QED
      BY <1>2, <1>3, <1>7, <2>2, <3>1 DEF PeerOrder, ioVars
  <2> QED
    BY <1>4, <2>4, <2>5, <2>6, <2>8, <2>9, <2>10 DEF IInv
<1> QED
  BY <1>1, <1>6, <1>7 DEF Pick

LEMMA NothingToWriteKeeps ==
  ASSUME IInv, NothingToWrite
  PROVE  IInv' /\ FinalStep
<1>1. UNCHANGED <<queueVars, inReq, ioVars, sent, peerVars>> /\ active' = FALSE
  BY DEF NothingToWrite
<1>2. TypeOK'
  BY <1>1 DEF IInv, TypeOK, queueVars, ioVars, peerVars, NothingToWrite, Writing, InLoop
<1>3. QueueOrder' /\ Alive' /\ NobodyConfused' /\ OnlyRequestsOvertaken'
  BY <1>1 DEF IInv, QueueOrder, Alive, NobodyConfused, OnlyRequestsOvertaken, queueVars
<1>4. NoLostWakeup'
  BY <1>1 DEF NothingToWrite, NoLostWakeup, Sendable, queueVars
<1>5. ResponsesKept /\ FinalStep
  BY <1>1 DEF ResponsesKept, FinalStep, queueVars
<1> QED
  BY <1>1, <1>2, <1>3, <1>4, <1>5, PeerSideKept DEF IInv, queueVars

LEMMA WriteFailsKeeps ==
  ASSUME IInv, WriteFails
  PROVE  IInv' /\ FinalStep
<1>1. /\ io = "shut" /\ UNCHANGED <<pending, active, inReq, ioVars, sent, peerVars>>
      /\ TypeOK /\ QueueOrder /\ Alive /\ NobodyConfused
  BY DEF WriteFails, IInv
<1>2. prog' \in {"calling", "sleeping", "running", "stopping"}
  BY DEF WriteFails, InLoop, MayQuit
<1>3. OnlyRequestsOvertaken' /\ NoLostWakeup'
  BY <1>1 DEF IInv, OnlyRequestsOvertaken, NoLostWakeup, ioVars
<1>4. CASE writeQ # <<>> /\ writeQ' = Tail(writeQ) /\ UNCHANGED <<prog, reqQ, armed>>
           /\ fate' = [fate EXCEPT ![Head(writeQ).id] = "failed"]
  <2>1. QueuesTyped' /\ Alive' /\ NobodyConfused' /\ FinalStep /\ ResponsesKept /\ QueueOrder'
    BY <1>1, <1>4, WriteTaken
  <2>2. TypeOK'
    BY <1>1, <1>2, <2>1 DEF TypeOK, QueuesTyped, ioVars, peerVars
  <2> QED
    BY <1>1, <1>3, <2>1, <2>2, PeerSideKept DEF IInv
<1>5. CASE /\ writeQ = <<>> /\ reqQ # <<>> /\ pending = {}
           /\ reqQ' = Tail(reqQ) /\ armed' = armed \ {Head(reqQ).id}
           /\ fate' = [fate EXCEPT ![Head(reqQ).id] = "failed"] /\ UNCHANGED writeQ
  <2> DEFINE op == Head(reqQ)
  <2>1. /\ reqQ' \in Seq(Request) /\ Increasing(reqQ')
        /\ Range(reqQ) = {op} \cup Range(reqQ')
        /\ op.id \in DOMAIN fate
        /\ \A r \in Range(reqQ') : op.id < r.id /\ r.id # op.id
    BY <1>1, <1>5, RequestTaken
  <2>2. armed' = armed \ {op.id} /\ fate' = [fate EXCEPT ![op.id] = "failed"]
    BY <1>5
  <2> HIDE DEF op
  <2>3. /\ fate \in Seq(Fate) /\ armed \subseteq DOMAIN fate
    BY <1>1 DEF TypeOK
  <2>4. /\ fate' \in Seq(Fate) /\ DOMAIN fate' = DOMAIN fate
        /\ \A i \in DOMAIN fate : fate'[i] = IF i = op.id THEN "failed" ELSE fate[i]
    BY <2>1, <2>2, <2>3, ExceptSeq DEF Fate
  <2>5. fate[op.id] = "open"
    BY <1>1, <2>1 DEF Alive
  <2>6. QueueOrder'
    BY <1>1, <1>5, <2>1, <2>4 DEF QueueOrder
  <2>7. Alive' /\ NobodyConfused' /\ FinalStep
    BY <1>1, <1>5, <2>1, <2>2, <2>3, <2>4, <2>5, EmptyQueue DEF Alive, NobodyConfused, FinalStep
  <2>8. TypeOK'
    BY <1>1, <1>2, <1>5, <2>1, <2>2, <2>3, <2>4 DEF TypeOK, ioVars, peerVars
  <2>9. ResponsesKept
    BY <1>5 DEF ResponsesKept
  <2> QED
    BY <1>1, <1>3, <2>6, <2>7, <2>8, <2>9, PeerSideKept DEF IInv
<1> QED
  BY <1>4, <1>5 DEF WriteFails

LEMMA PduRead ==
  ASSUME IInv, NEW kind, Reading(kind)
  PROVE  /\ io = "open" /\ prog = "running" /\ UNCHANGED <<sent, unanswered, peerWaits, peerSent>>
         /\ Head(inbox) \in Pdu /\ Head(inbox).kind = kind /\ Head(inbox) \in Range(inbox)
         /\ inbox' \in Seq(Pdu) /\ Range(inbox') \subseteq Range(inbox)
         /\ Once(inbox', "answer") /\ Once(inbox', "req")
         /\ kind \in {"answer", "req"} => Without(inbox', kind)
<1>1. inbox \in Seq(Pdu) /\ Once(inbox, "answer") /\ Once(inbox, "req")
  BY DEF IInv, TypeOK, Pairing, PeerOrder
<1> QED
  BY <1>1, HeadAndTail DEF Reading, InLoop

LEMMA ResponseKeeps ==
  ASSUME IInv, handle_rsp
  PROVE  IInv' /\ FinalStep
<1>1. /\ Reading("answer") /\ inReq' = inReq
      /\ TypeOK /\ QueueOrder /\ Alive /\ NobodyConfused /\ Pairing /\ PeerOrder
  BY DEF handle_rsp, IInv
<1>2. /\ io = "open" /\ UNCHANGED <<sent, unanswered, peerWaits, peerSent>>
      /\ Head(inbox).kind = "answer" /\ Head(inbox) \in Range(inbox)
      /\ inbox' \in Seq(Pdu) /\ Range(inbox') \subseteq Range(inbox)
      /\ Once(inbox', "answer") /\ Once(inbox', "req") /\ Without(inbox', "answer")
  BY <1>1, PduRead
<1>3. PICK op \in pending : Head(inbox).id = op.id
  BY <1>1, <1>2 DEF Pairing
<1>4. /\ Callback(op, "answered") /\ MayQuit /\ pending' = {} /\ wakeup_writer
      /\ UNCHANGED ioVars
  <2>1. PICK d \in pending :
           /\ Callback(d, IF d.id = Head(inbox).id THEN "answered" ELSE "confused")
           /\ MayQuit /\ pending' = {} /\ wakeup_writer /\ UNCHANGED ioVars
    BY <1>3 DEF handle_rsp
  <2>2. d = op
    BY <1>1 DEF Pairing
  <2> QED
    BY <1>3, <2>1, <2>2
<1>5. Queued' /\ FinalStep /\ ResponsesKept
  <2>1. "answered" \in Fate \ {"confused"} /\ sent' = sent /\ pending' \subseteq pending
    BY <1>2, <1>4 DEF Fate
  <2> QED
    BY <1>1, <1>4, <2>1, CallbackRan
<1>6. unanswered = <<>>
  BY <1>1, <1>2 DEF Pairing, Without
<1>7. TypeOK'
  BY <1>1, <1>2, <1>4, <1>5 DEF TypeOK, Queued, QueuesTyped, ioVars, MayQuit, wakeup_writer, Sendable
<1>8. Pairing'
  BY <1>1, <1>2, <1>4, <1>6 DEF Pairing, Without, ioVars
<1>9. PeerOrder'
  <2>1. Without(inbox, "req") => Without(inbox', "req")
    BY <1>2 DEF Without
  <2> QED
    BY <1>1, <1>2, <1>4, <1>5, <2>1 DEF PeerOrder, ResponsesKept, ioVars
<1>10. OnlyRequestsOvertaken' /\ PeerNotBlamed' /\ NoLostWakeup'
  BY <1>2, <1>4, Woken DEF IInv, OnlyRequestsOvertaken, PeerNotBlamed, ioVars
<1> QED
  BY <1>5, <1>7, <1>8, <1>9, <1>10 DEF IInv, Queued

LEMMA RequestReadKeeps ==
  ASSUME IInv, RequestRead
  PROVE  IInv' /\ FinalStep
<1>1. /\ Reading("req") /\ TypeOK /\ Pairing /\ PeerOrder /\ prog' = prog
  BY DEF RequestRead, IInv
<1>2. /\ io = "open" /\ UNCHANGED <<sent, unanswered, peerWaits, peerSent>>
      /\ Head(inbox).kind = "req" /\ Head(inbox) \in Range(inbox)
      /\ inbox' \in Seq(Pdu) /\ Range(inbox') \subseteq Range(inbox)
      /\ Once(inbox', "answer") /\ Once(inbox', "req") /\ Without(inbox', "req")
  BY <1>1, PduRead
<1>3. "req" \in peerWaits /\ ~inReq /\ Without(writeQ, "rsp")
  BY <1>1, <1>2 DEF PeerOrder, Without
<1>4. /\ inReq' = TRUE /\ Enqueue("rsp", fate, armed) /\ pending' = pending /\ wakeup_writer
      /\ UNCHANGED ioVars
  BY <1>3 DEF RequestRead
<1>5. /\ Queued' /\ FinalStep /\ Once(writeQ', "rsp")
      /\ active' \in BOOLEAN /\ NoLostWakeup' /\ OnlyRequestsOvertaken'
  BY <1>2, <1>3, <1>4, EnqueuedNow
<1>6. TypeOK'
  BY <1>1, <1>2, <1>4, <1>5 DEF TypeOK, Queued, QueuesTyped, ioVars
<1>7. Pairing'
  BY <1>1, <1>2, <1>4 DEF Pairing, Without, ioVars
<1>8. PeerOrder' /\ PeerNotBlamed'
  BY <1>2, <1>3, <1>4, <1>5 DEF PeerOrder, PeerNotBlamed, ioVars, IInv
<1> QED
  BY <1>5, <1>6, <1>7, <1>8 DEF IInv, Queued

LEMMA NotifyKeeps ==
  ASSUME IInv, handle_notify
  PROVE  IInv' /\ FinalStep
<1>1. /\ MayQuit /\ UNCHANGED <<inReq, ioVars>> /\ pending' = pending
      /\ TypeOK /\ Pairing /\ PeerOrder
  BY DEF handle_notify, IInv, queueVars
<1>2. /\ UNCHANGED <<sent, unanswered, peerWaits, peerSent>> /\ io = "open"
      /\ inbox' \in Seq(Pdu) /\ Range(inbox') \subseteq Range(inbox)
      /\ Once(inbox', "answer") /\ Once(inbox', "req")
  BY PduRead DEF handle_notify
<1>3. /\ Queued' /\ FinalStep /\ ResponsesKept
      /\ active' \in BOOLEAN /\ NoLostWakeup' /\ OnlyRequestsOvertaken'
  <2>1. CASE UNCHANGED <<queueVars, active>>
    <3>1. Queued' /\ FinalStep /\ ResponsesKept
      BY <1>2, <2>1 DEF IInv, TypeOK, Queued, QueuesTyped, QueueOrder, Alive, NobodyConfused,
                        FinalStep, ResponsesKept, queueVars
    <3> QED
      BY <1>1, <1>2, <2>1, <3>1
         DEF IInv, TypeOK, NoLostWakeup, Sendable, OnlyRequestsOvertaken, queueVars, ioVars
  <2>2. CASE Enqueue("conf", fate, armed) /\ wakeup_writer
    BY <1>1, <1>2, <2>2, EnqueuedNow
  <2> QED
    BY <2>1, <2>2 DEF handle_notify
<1>4. TypeOK'
  BY <1>1, <1>2, <1>3 DEF TypeOK, Queued, QueuesTyped, ioVars, MayQuit
<1>5. Pairing'
  BY <1>1, <1>2 DEF Pairing, Without, ioVars
<1>6. PeerOrder' /\ PeerNotBlamed'
  <2>1. Without(inbox, "req") => Without(inbox', "req")
    BY <1>2 DEF Without
  <2> QED
    BY <1>1, <1>2, <1>3, <2>1 DEF PeerOrder, PeerNotBlamed, ResponsesKept, ioVars, IInv
<1> QED
  BY <1>3, <1>4, <1>5, <1>6 DEF IInv, Queued

LEMMA FateFunction ==
  ASSUME fate \in Seq(Fate), NEW g \in [DOMAIN fate -> Fate]
  PROVE  g \in Seq(Fate) /\ DOMAIN g = DOMAIN fate
<1>1. Len(fate) \in Nat /\ DOMAIN fate = 1..Len(fate)
  OBVIOUS
<1> QED
  BY <1>1, SeqDef

\* The link is lost: nothing is left to read, nothing to answer.
LEMMA LinkLost ==
  ASSUME IInv, io = "open", NEW why \in {"radio", "timeout"}, io_shutdown(why), NothingMoreToRead
  PROVE  /\ io' = "shut" /\ shutBy' = why
         /\ unanswered' = <<>> /\ inbox' = <<>> /\ peerWaits' = {} /\ peerSent' = peerSent
         /\ unanswered' \in Seq(Nat) /\ inbox' \in Seq(Pdu)
         /\ Pairing' <=> \A op, other \in pending' : op = other
         /\ PeerOrder' /\ PeerNotBlamed' /\ NoLostWakeup'
<1>1. /\ io' = "shut" /\ shutBy' = why
      /\ unanswered' = <<>> /\ inbox' = <<>> /\ peerWaits' = {} /\ peerSent' = peerSent
  BY DEF io_shutdown, NothingMoreToRead
<1>2. unanswered' \in Seq(Nat) /\ inbox' \in Seq(Pdu)
  BY <1>1, EmptySeq
<1>3. Pairing' <=> \A op, other \in pending' : op = other
  BY <1>1, EmptyQueue DEF Pairing
<1>4. PeerOrder' /\ PeerNotBlamed' /\ NoLostWakeup'
  BY <1>1, EmptyQueue DEF PeerOrder, PeerNotBlamed, NoLostWakeup
<1> QED
  BY <1>1, <1>2, <1>3, <1>4

LEMMA TimeoutKeeps ==
  ASSUME IInv, timeout_cb
  PROVE  IInv' /\ FinalStep
<1> DEFINE Given(i) == \E op \in pending : op.id = i /\ i \in armed
           g == [i \in DOMAIN fate |-> IF Given(i) THEN "dropped" ELSE fate[i]]
<1>1. /\ pending' = {} /\ armed' = armed \ {op.id : op \in pending} /\ fate' = g
      /\ UNCHANGED <<prog, writeQ, reqQ, active, inReq, sent>>
      /\ TypeOK /\ QueueOrder /\ Alive /\ NobodyConfused
      /\ fate \in Seq(Fate) /\ armed \subseteq DOMAIN fate
  BY DEF timeout_cb, IInv, TypeOK
<1>2. /\ io' = "shut" /\ shutBy' = "timeout"
      /\ unanswered' \in Seq(Nat) /\ inbox' \in Seq(Pdu) /\ peerWaits' = {} /\ peerSent' = peerSent
      /\ Pairing' /\ PeerOrder' /\ PeerNotBlamed' /\ NoLostWakeup'
  BY <1>1, LinkLost DEF timeout_cb
<1>3. g \in [DOMAIN fate -> Fate]
  BY <1>1 DEF Fate
<1>4. /\ fate' \in Seq(Fate) /\ DOMAIN fate' = DOMAIN fate
      /\ \A i \in DOMAIN fate : fate'[i] = IF Given(i) THEN "dropped" ELSE fate[i]
  BY <1>1, <1>3, FateFunction
<1> HIDE DEF g
<1>5. TypeOK'
  BY <1>1, <1>2, <1>4 DEF TypeOK
<1>6. QueueOrder'
  BY <1>1, <1>4 DEF QueueOrder
<1>7. Alive'
  <2>1. \A id \in armed' : id \in armed /\ ~Given(id)
    BY <1>1
  <2>2. \A w \in Range(writeQ) : ~Given(w.id) /\ w.id \in DOMAIN fate
    BY <1>1 DEF Alive, QueueOrder
  <2>3. \A r \in Range(reqQ) : r.id \in armed'
    <3>1. \A op \in pending, r \in Range(reqQ) : op.id < r.id
      BY <1>1 DEF QueueOrder, TypeOK, Request
    <3>2. \A op \in pending, r \in Range(reqQ) : op.id \in Nat /\ r.id \in Nat
      <4>1. \A r \in Request : r.id \in Nat
        BY DEF Request
      <4> QED
        BY <1>1, <4>1, InRange DEF TypeOK
    <3>3. \A op \in pending, r \in Range(reqQ) : op.id # r.id
      BY <3>1, <3>2
    <3> QED
      BY <1>1, <3>3 DEF Alive
  <2> QED
    BY <1>1, <1>4, <2>1, <2>2, <2>3 DEF Alive
<1>8. NobodyConfused' /\ FinalStep /\ OnlyRequestsOvertaken'
  BY <1>1, <1>4 DEF NobodyConfused, FinalStep, OnlyRequestsOvertaken, Alive, IInv
<1> QED
  BY <1>2, <1>5, <1>6, <1>7, <1>8 DEF IInv

LEMMA DisconnectKeeps ==
  ASSUME IInv, disconnect_cb
  PROVE  IInv' /\ FinalStep
<1> DEFINE g == [i \in DOMAIN fate |-> IF fate[i] = "open" THEN "dropped" ELSE fate[i]]
<1>1. /\ io = "shut" /\ io' = "gone" /\ active' = FALSE /\ prog' = "stopping"
      /\ writeQ' = <<>> /\ reqQ' = <<>> /\ armed' = {} /\ fate' = g
      /\ UNCHANGED <<pending, inReq, shutBy, sent, peerVars>>
      /\ TypeOK /\ QueueOrder /\ NobodyConfused /\ Pairing /\ fate \in Seq(Fate)
  BY DEF disconnect_cb, bt_att_cancel_all, IInv, TypeOK
<1>2. g \in [DOMAIN fate -> Fate]
  BY <1>1 DEF Fate
<1>3. /\ fate' \in Seq(Fate) /\ DOMAIN fate' = DOMAIN fate
      /\ \A i \in DOMAIN fate : fate'[i] = IF fate[i] = "open" THEN "dropped" ELSE fate[i]
  BY <1>1, <1>2, FateFunction
<1> HIDE DEF g
<1>4. writeQ' \in Seq(Write) /\ reqQ' \in Seq(Request)
  BY <1>1, EmptySeq
<1>5. TypeOK'
  BY <1>1, <1>3, <1>4 DEF TypeOK, peerVars
<1>6. QueueOrder' /\ Alive'
  BY <1>1, <1>3, EmptyQueue DEF QueueOrder, Alive
<1>7. NobodyConfused' /\ FinalStep /\ OnlyRequestsOvertaken' /\ PeerNotBlamed' /\ NoLostWakeup'
  BY <1>1, <1>3 DEF NobodyConfused, FinalStep, OnlyRequestsOvertaken, PeerNotBlamed, NoLostWakeup, IInv
<1>8. Pairing'
  BY <1>1 DEF Pairing, peerVars
<1>9. PeerOrder'
  BY <1>1, EmptyQueue DEF PeerOrder, Pairing, peerVars
<1> QED
  BY <1>5, <1>6, <1>7, <1>8, <1>9 DEF IInv

LEMMA LinkDropsKeeps ==
  ASSUME IInv, LinkDrops
  PROVE  IInv' /\ FinalStep
<1>1. UNCHANGED <<prog, queueVars, active, inReq, sent>>
  BY DEF LinkDrops
<1>2. /\ io' = "shut" /\ shutBy' = "radio"
      /\ unanswered' \in Seq(Nat) /\ inbox' \in Seq(Pdu) /\ peerWaits' = {} /\ peerSent' = peerSent
      /\ Pairing' /\ PeerOrder' /\ PeerNotBlamed' /\ NoLostWakeup'
  BY <1>1, LinkLost DEF LinkDrops, IInv, Pairing, queueVars
<1>3. TypeOK'
  BY <1>1, <1>2 DEF IInv, TypeOK, queueVars
<1>4. QueueOrder' /\ Alive' /\ NobodyConfused' /\ OnlyRequestsOvertaken' /\ FinalStep
  BY <1>1 DEF IInv, QueueOrder, Alive, NobodyConfused, OnlyRequestsOvertaken, FinalStep, queueVars
<1> QED
  BY <1>2, <1>3, <1>4 DEF IInv

\* A PDU of the peer arrives.
LEMMA PduArrives ==
  ASSUME IInv, NEW m \in Pdu, inbox' = Append(inbox, m),
         UNCHANGED <<prog, queueVars, active, inReq, ioVars, sent>>,
         unanswered' \in Seq(Nat), peerWaits' \subseteq {"req", "ind"}, peerSent' \in 0..MaxPeer
  PROVE  /\ TypeOK' /\ QueueOrder' /\ Alive' /\ NobodyConfused' /\ OnlyRequestsOvertaken'
         /\ PeerNotBlamed' /\ NoLostWakeup' /\ FinalStep
         /\ Range(inbox') = Range(inbox) \cup {m}
         /\ \A kind : Once(inbox, kind) /\ (m.kind = kind => Without(inbox, kind)) => Once(inbox', kind)
<1>1. inbox \in Seq(Pdu)
  BY DEF IInv, TypeOK
<1>2. /\ inbox' \in Seq(Pdu) /\ Range(inbox') = Range(inbox) \cup {m}
      /\ \A kind : Once(inbox, kind) /\ (m.kind = kind => Without(inbox, kind)) => Once(inbox', kind)
  BY <1>1, Appended
<1>3. TypeOK'
  BY <1>2 DEF IInv, TypeOK, queueVars, ioVars
<1>4. /\ QueueOrder' /\ Alive' /\ NobodyConfused' /\ OnlyRequestsOvertaken'
      /\ PeerNotBlamed' /\ NoLostWakeup' /\ FinalStep
  BY DEF IInv, QueueOrder, Alive, NobodyConfused, OnlyRequestsOvertaken, FinalStep, PeerNotBlamed,
         NoLostWakeup, Sendable, queueVars, ioVars
<1> QED
  BY <1>2, <1>3, <1>4

LEMMA AnswerKeeps ==
  ASSUME IInv, PeerAnswers
  PROVE  IInv' /\ FinalStep
<1> DEFINE m == [kind |-> "answer", id |-> Head(unanswered)]
<1>1. /\ io = "open" /\ unanswered # <<>> /\ unanswered' = Tail(unanswered)
      /\ inbox' = Append(inbox, m)
      /\ UNCHANGED <<prog, queueVars, active, inReq, ioVars, sent, peerWaits, peerSent>>
      /\ TypeOK /\ Pairing /\ PeerOrder
  BY DEF PeerAnswers, IInv
<1>2. PICK op \in pending : unanswered = <<op.id>> /\ Without(inbox, "answer")
  BY <1>1 DEF Pairing
<1>3. op.id \in Nat
  BY <1>1 DEF TypeOK, Request
<1>4. m \in Pdu /\ m.id = op.id /\ m.kind = "answer" /\ unanswered' = <<>>
  BY <1>1, <1>2, <1>3 DEF Pdu
<1> HIDE DEF m
<1>5. unanswered' \in Seq(Nat) /\ peerWaits' \subseteq {"req", "ind"} /\ peerSent' \in 0..MaxPeer
  BY <1>1, <1>4, EmptySeq DEF TypeOK
<1>6. /\ TypeOK' /\ QueueOrder' /\ Alive' /\ NobodyConfused' /\ OnlyRequestsOvertaken'
      /\ PeerNotBlamed' /\ NoLostWakeup' /\ FinalStep
      /\ Range(inbox') = Range(inbox) \cup {m}
      /\ \A kind : Once(inbox, kind) /\ (m.kind = kind => Without(inbox, kind)) => Once(inbox', kind)
  BY <1>1, <1>4, <1>5, PduArrives
<1>7. Pairing'
  BY <1>1, <1>2, <1>4, <1>6 DEF Pairing, Without, queueVars, ioVars
<1>8. PeerOrder'
  <2>1. Once(inbox', "req") /\ (Without(inbox, "req") => Without(inbox', "req"))
    BY <1>1, <1>4, <1>6 DEF PeerOrder, Without
  <2> QED
    BY <1>1, <2>1 DEF PeerOrder, queueVars, ioVars
<1> QED
  BY <1>6, <1>7, <1>8 DEF IInv

LEMMA PeerSendsKeeps ==
  ASSUME IInv, NEW kind \in {"req", "ind", "ntf"}, PeerSends(kind)
  PROVE  IInv' /\ FinalStep
<1> DEFINE m == [kind |-> kind, id |-> 0]
<1>1. /\ io = "open" /\ peerSent < MaxPeer /\ peerSent' = peerSent + 1 /\ kind \notin peerWaits
      /\ peerWaits' = peerWaits \cup (IF kind = "ntf" THEN {} ELSE {kind})
      /\ inbox' = Append(inbox, m)
      /\ UNCHANGED <<prog, queueVars, active, inReq, ioVars, sent, unanswered>>
      /\ TypeOK /\ Pairing /\ PeerOrder
  BY DEF PeerSends, IInv
<1>2. m \in Pdu /\ m.kind = kind
  BY DEF Pdu
<1> HIDE DEF m
<1>3. unanswered' \in Seq(Nat) /\ peerWaits' \subseteq {"req", "ind"} /\ peerSent' \in 0..MaxPeer
  BY <1>1, AttAssumption DEF TypeOK
<1>4. /\ TypeOK' /\ QueueOrder' /\ Alive' /\ NobodyConfused' /\ OnlyRequestsOvertaken'
      /\ PeerNotBlamed' /\ NoLostWakeup' /\ FinalStep
      /\ Range(inbox') = Range(inbox) \cup {m}
      /\ \A k : Once(inbox, k) /\ (m.kind = k => Without(inbox, k)) => Once(inbox', k)
  BY <1>1, <1>2, <1>3, PduArrives
<1>5. Pairing'
  BY <1>1, <1>2, <1>4 DEF Pairing, Without, queueVars, ioVars
<1>6. PeerOrder'
  <2>1. kind = "req" => Without(inbox, "req") /\ ~inReq
    BY <1>1 DEF PeerOrder
  <2>2. Once(inbox', "req") /\ (kind # "req" /\ Without(inbox, "req") => Without(inbox', "req"))
    BY <1>1, <1>2, <1>4, <2>1 DEF PeerOrder, Without
  <2> QED
    BY <1>1, <2>1, <2>2 DEF PeerOrder, queueVars, ioVars
<1> QED
  BY <1>4, <1>5, <1>6 DEF IInv
---------------------------------------------------------------------------
LEMMA StepKeeps == IInv /\ [Next]_vars => IInv' /\ (FinalStep \/ UNCHANGED vars)
<1> SUFFICES ASSUME IInv, [Next]_vars PROVE IInv' /\ (FinalStep \/ UNCHANGED vars)
  OBVIOUS
<1>1. CASE ProgramNext
  BY <1>1, SendKeeps, CancelKeeps, ProgramStepKeeps DEF ProgramNext
<1>2. CASE LoopNext
  BY <1>2, CanWriteKeeps, NothingToWriteKeeps, WriteFailsKeeps, ResponseKeeps, RequestReadKeeps,
     NotifyKeeps, TimeoutKeeps, DisconnectKeeps DEF LoopNext
<1>3. CASE PeerNext
  BY <1>3, AnswerKeeps, LinkDropsKeeps, PeerSendsKeeps DEF PeerNext
<1>4. CASE UNCHANGED vars
  <2>1. TypeOK' /\ QueueOrder' /\ Alive' /\ NobodyConfused' /\ OnlyRequestsOvertaken' /\ NoLostWakeup'
    BY <1>4 DEF IInv, TypeOK, QueueOrder, Alive, NobodyConfused, OnlyRequestsOvertaken, NoLostWakeup,
                Sendable, vars, queueVars, ioVars, peerVars
  <2>2. ResponsesKept /\ UNCHANGED <<pending, inReq, ioVars, peerVars>>
    BY <1>4 DEF ResponsesKept, vars, queueVars
  <2> QED
    BY <1>4, <2>1, <2>2, PeerSideKept DEF IInv
<1> QED
  BY <1>1, <1>2, <1>3, <1>4 DEF Next

(* Whatever is queued, cancelled, answered or lost, the invariant holds.   *)
THEOREM Inductive == Spec => []IInv
<1>1. IInv /\ [Next]_vars => IInv'
  BY StepKeeps
<1> QED
  BY <1>1, InitHolds, PTL DEF Spec

(* The queues, the pending request and the peer's side keep their types    *)
(* (att.c).                                                                *)
THEOREM TypeCorrect == Spec => []TypeOK
<1>1. IInv => TypeOK
  BY DEF IInv
<1> QED
  BY <1>1, Inductive, PTL

(* Operations reach the peer in the order they were queued, except that    *)
(* a command may overtake a request (att.c 371-399).                       *)
THEOREM InOrder == Spec => []OnlyRequestsOvertaken
<1>1. IInv => OnlyRequestsOvertaken
  BY DEF IInv
<1> QED
  BY <1>1, Inductive, PTL

(* One request at a time at the peer, and no callback is called with the   *)
(* answer to another request (att.c 586-644, 1183-1223).                   *)
THEOREM OneAtATime == Spec => []OneRequestAtATime
<1>1. IInv => OneRequestAtATime
  <2> SUFFICES ASSUME IInv PROVE OneRequestAtATime
    OBVIOUS
  <2>1. unanswered = <<>> \/ \E op \in pending : unanswered = <<op.id>>
    BY DEF IInv, Pairing
  <2>2. Len(unanswered) <= 1
    <3>1. CASE unanswered = <<>>
      BY <3>1
    <3>2. ASSUME NEW op \in pending, unanswered = <<op.id>> PROVE Len(unanswered) <= 1
      BY <3>2
    <3> QED
      BY <2>1, <3>1, <3>2, Zenon
  <2> QED
    BY <2>2 DEF IInv, NobodyConfused, OneRequestAtATime
<1> QED
  BY <1>1, Inductive, PTL

(* A peer that follows the protocol is never shut out for breaking it      *)
(* (att.c 594-602, 818-833).                                               *)
THEOREM NeverBlamed == Spec => []PeerNotBlamed
<1>1. IInv => PeerNotBlamed
  BY DEF IInv
<1> QED
  BY <1>1, Inductive, PTL

(* Nothing sendable waits without the write handler (att.c 519-538).       *)
THEOREM WriterAwake == Spec => []NoLostWakeup
<1>1. IInv => NoLostWakeup
  BY DEF IInv
<1> QED
  BY <1>1, Inductive, PTL

(* The outcome of an operation never changes again (att.c 552-584,         *)
(* 1183-1223).                                                             *)
THEOREM FatesAreFinal == Spec => FateIsFinal
<1> DEFINE Final == \A i \in DOMAIN fate : fate[i] # "open" => fate'[i] = fate[i]
<1>1. IInv /\ [Next]_vars => [Final]_vars
  BY StepKeeps DEF FinalStep
<1>2. Spec => [][Final]_vars
  BY <1>1, Inductive, PTL DEF Spec
<1> QED
  BY <1>2 DEF FateIsFinal
=============================================================================
