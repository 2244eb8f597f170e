--------------------------- MODULE QueueProofs ---------------------------
(***************************************************************************)
(* Proofs about Queue, for any elements and any number of entries.         *)
(*                                                                         *)
(* The operators of Queue follow links and repeat removals by recursion.   *)
(* What a recursion makes is proved by induction, of which the principle   *)
(* is had in the form of sets: a set of numbers that is closed under       *)
(* successors holds them all.                                              *)
(***************************************************************************)
EXTENDS Queue, FiniteSetTheorems, SequenceTheorems, WellFoundedInduction, TLAPS

USE QueueAssumption

---------------------------------------------------------------------------
(* Induction and recursion.                                                *)

LEMMA Least ==
  ASSUME NEW T, T \subseteq Nat, T # {}
  PROVE  \E n \in T : \A m \in T : n <= m
<1>1. PICK n \in T : \A m \in T : ~(<<m, n>> \in OpToRel(<, Nat))
  BY NatLessThanWellFounded, WFMin
<1>2. ASSUME NEW m \in T PROVE n <= m
  <2>1. n \in Nat /\ m \in Nat
    OBVIOUS
  <2>2. ~(m < n)
    BY <1>1, <2>1 DEF OpToRel
  <2> QED BY <2>1, <2>2
<1> QED BY <1>2

LEMMA SetInduction ==
  ASSUME NEW T, 0 \in T, \A n \in Nat : n \in T => n + 1 \in T
  PROVE  \A n \in Nat : n \in T
<1> SUFFICES ASSUME NEW n \in Nat, n \notin T PROVE FALSE
  OBVIOUS
<1> DEFINE U == {k \in Nat : k \notin T}
<1>1. U \subseteq Nat /\ n \in U
  OBVIOUS
<1>2. PICK m \in U : \A j \in U : m <= j
  <2> HIDE DEF U
  <2> QED BY <1>1, Least
<1>3. m # 0 /\ m - 1 \in Nat
  BY <1>1
<1>4. m - 1 \in T
  BY <1>2, <1>3
<1> QED BY <1>2, <1>3, <1>4

\* The values that a recursion goes through.
GoesThrough(a, f, x, n) == a = [i \in 0..n |-> IF i = 0 THEN x ELSE f[a[i - 1]]]

LEMMA RepetitionExists ==
  ASSUME NEW f, NEW x, NEW n \in Nat
  PROVE  \E a : GoesThrough(a, f, x, n)
<1> DEFINE T == {k \in Nat : \E a : GoesThrough(a, f, x, k)}
<1>1. 0 \in T
  <2> DEFINE a == [i \in 0..0 |-> x]
  <2>1. a = [i \in 0..0 |-> IF i = 0 THEN x ELSE f[a[i - 1]]]
    OBVIOUS
  <2> HIDE DEF a
  <2>2. GoesThrough(a, f, x, 0)
    BY <2>1, Zenon DEF GoesThrough
  <2> QED BY <2>2
<1>2. ASSUME NEW k \in Nat, k \in T PROVE k + 1 \in T
  <2>1. PICK a : GoesThrough(a, f, x, k)
    BY <1>2
  <2>2. \A i \in 0..k : a[i] = IF i = 0 THEN x ELSE f[a[i - 1]]
    BY <2>1 DEF GoesThrough
  <2> DEFINE b == [i \in 0..(k + 1) |-> IF i = k + 1 THEN f[a[k]] ELSE a[i]]
  <2>3. ASSUME NEW i \in 0..(k + 1) PROVE b[i] = IF i = 0 THEN x ELSE f[b[i - 1]]
    <3>1. CASE i = k + 1
      <4>1. b[i] = f[a[k]] /\ k \in 0..(k + 1) /\ b[k] = a[k] /\ i - 1 = k /\ i # 0
        BY <3>1
      <4> HIDE DEF b
      <4> QED BY <4>1
    <3>2. CASE i # k + 1 /\ i # 0
      <4>1. b[i] = a[i] /\ i \in 0..k /\ b[i - 1] = a[i - 1]
        BY <3>2
      <4> HIDE DEF b
      <4> QED BY <2>2, <3>2, <4>1
    <3>3. CASE i = 0
      BY <2>2, <3>3
    <3> QED BY <3>1, <3>2, <3>3
  <2>4. b = [i \in DOMAIN b |-> b[i]] /\ DOMAIN b = 0..(k + 1)
    OBVIOUS
  <2> HIDE DEF b
  <2>5. b = [i \in 0..(k + 1) |-> IF i = 0 THEN x ELSE f[b[i - 1]]]
    BY <2>3, <2>4
  <2>6. GoesThrough(b, f, x, k + 1)
    BY <2>5, Zenon DEF GoesThrough
  <2> QED BY <2>6
<1> HIDE DEF T
<1>3. n \in T
  BY <1>1, <1>2, SetInduction
<1> QED BY <1>3 DEF T

LEMMA RepeatedIs ==
  ASSUME NEW f, NEW x, NEW n \in Nat
  PROVE  \E a : GoesThrough(a, f, x, n) /\ Repeated(f, x, n) = a[n]
<1> DEFINE a == CHOOSE a : GoesThrough(a, f, x, n)
<1>1. Repeated(f, x, n) = a[n]
  BY Zenon DEF Repeated, GoesThrough
<1>2. GoesThrough(a, f, x, n)
  BY RepetitionExists, Zenon
<1> QED BY <1>1, <1>2, Zenon

(* What holds at first, and is kept by every application, holds in the     *)
(* end.  inv[i] is the set of the values that are right after i of them.   *)
LEMMA RepeatedInduction ==
  ASSUME NEW f, NEW x, NEW n \in Nat, NEW inv, x \in inv[0],
         \A i \in 1..n : \A v \in inv[i - 1] : f[v] \in inv[i]
  PROVE  Repeated(f, x, n) \in inv[n]
<1>1. PICK a : GoesThrough(a, f, x, n) /\ Repeated(f, x, n) = a[n]
  BY ONLY n \in Nat, RepeatedIs, Zenon
<1>2. a[0] = x /\ \A i \in 1..n : a[i] = f[a[i - 1]]
  BY <1>1 DEF GoesThrough
<1> DEFINE T == {k \in Nat : k <= n => a[k] \in inv[k]}
<1>3. 0 \in T
  BY <1>2
<1>4. ASSUME NEW k \in Nat, k \in T PROVE k + 1 \in T
  <2> SUFFICES ASSUME k + 1 <= n PROVE a[k + 1] \in inv[k + 1]
    OBVIOUS
  <2>1. k + 1 \in 1..n /\ (k + 1) - 1 = k
    OBVIOUS
  <2>2. a[k] \in inv[k] /\ a[k + 1] = f[a[k]]
    BY <1>2, <1>4, <2>1
  <2> QED BY <2>1, <2>2
<1> HIDE DEF T
<1>5. n \in T
  BY <1>3, <1>4, SetInduction
<1> QED BY <1>1, <1>5 DEF T

---------------------------------------------------------------------------
(* The list that the links of a queue make.                                *)

\* The entry at a place of the list, 0 behind its end.
At(s, i) == IF i \in 1..Len(s) THEN s[i] ELSE 0
In(s) == {s[i] : i \in DOMAIN s}
Distinct(s) == \A i, j \in 1..Len(s) : s[i] = s[j] => i = j
\* The links from first lead through s.
Path(l, first, s) ==
  /\ s \in Seq(Entries) /\ Len(s) <= MaxEntries
  /\ first = At(s, 1)
  /\ \A i \in 1..Len(s) : l.mem[s[i]].next = At(s, i + 1)
Shape(l, s) ==
  /\ l \in Lists /\ Distinct(s) /\ Path(l, l.head, s)
  /\ l.tail = At(s, Len(s)) /\ l.entries = Len(s)

LEMMA ChainIs ==
  ASSUME NEW l, l \in Lists, NEW first, NEW t, Path(l, first, t)
  PROVE  Chain(l, first) = t
<1> DEFINE f == Onward(l, first)
           n == MaxEntries
           front(v, i) == /\ v \in Seq(Entries) /\ Len(v) = (IF i < Len(t) THEN i ELSE Len(t))
                          /\ \A j \in 1..Len(v) : v[j] = t[j]
           inv == [i \in 0..n |-> {v \in Seq(Entries) : front(v, i)}]
<1>3. <<>> \in inv[0]
  BY DEF Path
<1>4. ASSUME NEW i \in 1..n, NEW v \in inv[i - 1]
      PROVE  f[v] \in inv[i]
  <2>1. front(v, i - 1) /\ i - 1 \in 0..n
    BY <1>4
  <2> DEFINE e == IF v = <<>> THEN first ELSE l.mem[v[Len(v)]].next
  <2>2. f[v] = IF e = 0 THEN v ELSE Append(v, e)
    BY <2>1, Zenon DEF Onward
  <2>3. e = At(t, Len(v) + 1)
    <3>1. CASE v = <<>>
      BY <3>1 DEF Path
    <3>2. CASE v # <<>>
      <4>1. Len(v) \in 1..Len(t) /\ Len(v) \in 1..Len(v)
        BY <2>1, <3>2, EmptySeq, LenProperties DEF Path
      <4> QED BY <2>1, <3>2, <4>1 DEF Path
    <3> QED BY <3>1, <3>2
  <2> HIDE DEF e
  <2>4. CASE e = 0
    <3>1. Len(v) = Len(t)
      BY <2>1, <2>3, <2>4 DEF At, Path, Entries
    <3>2. front(v, i)
      BY <2>1, <3>1 DEF Path
    <3>3. v \in Seq(Entries) /\ f[v] = v /\ i \in 0..n
      BY <2>1, <2>2, <2>4
    <3> HIDE DEF front, f
    <3> QED BY <3>2, <3>3
  <2>5. CASE e # 0
    <3>1. Len(v) + 1 \in 1..Len(t) /\ e = t[Len(v) + 1] /\ e \in Entries /\ Len(v) = i - 1
      BY <2>1, <2>3, <2>5 DEF At, Path
    <3>2. front(Append(v, e), i)
      BY <2>1, <3>1 DEF Path
    <3>3. Append(v, e) \in Seq(Entries) /\ f[v] = Append(v, e) /\ i \in 0..n
      BY <2>1, <2>2, <2>5, <3>1
    <3> HIDE DEF front, f
    <3> QED BY <3>2, <3>3
  <2> QED BY <2>4, <2>5
<1>5. <<>> \in Seq(Entries) /\ n \in Nat
  OBVIOUS
<1>6. Repeated(f, <<>>, n) \in inv[n]
  <2> HIDE DEF inv, f
  <2> QED BY <1>3, <1>4, <1>5, RepeatedInduction
<1>7. front(Repeated(f, <<>>, n), n)
  BY <1>6
<1> HIDE DEF f
<1> DEFINE r == Repeated(f, <<>>, n)
<1>8. r = t
  <2> HIDE DEF r
  <2>1. r \in Seq(Entries) /\ t \in Seq(Entries) /\ Len(r) = Len(t) /\ \A j \in 1..Len(r) : r[j] = t[j]
    BY <1>7 DEF Path, r
  <2> QED BY <2>1, SeqEqual
<1> QED BY <1>8, Zenon DEF Chain, f

LEMMA ListIs ==
  ASSUME NEW l, NEW s, Shape(l, s)
  PROVE  List(l) = s /\ Listed(l) = In(s)
<1>1. List(l) = s
  BY ChainIs, Zenon DEF Shape, List
<1> QED BY <1>1, Zenon DEF Listed, In

LEMMA CountOfList ==
  ASSUME NEW s, s \in Seq(Entries), Distinct(s)
  PROVE  Cardinality(In(s)) = Len(s) /\ Len(s) <= MaxEntries
<1>1. Len(s) \in Nat /\ DOMAIN s = 1..Len(s) /\ s \in [1..Len(s) -> In(s)]
  BY LenProperties DEF In
<1>2. s \in Bijection(1..Len(s), In(s))
  <2>1. \A i, j \in 1..Len(s) : s[i] = s[j] => i = j
    BY DEF Distinct
  <2>2. \A e \in In(s) : \E i \in 1..Len(s) : s[i] = e
    BY <1>1 DEF In
  <2> QED BY <1>1, <2>1, <2>2, Zenon DEF Bijection, Injection, Surjection, IsInjective
<1>3. Cardinality(In(s)) = Len(s)
  BY <1>1, <1>2, FS_CountingElements DEF ExistsBijection
<1>4. IsFiniteSet(Entries) /\ Cardinality(Entries) = MaxEntries
  BY FS_Interval DEF Entries
<1>5. In(s) \in SUBSET Entries
  BY <1>1, ElementOfSeq DEF In
<1>6. Cardinality(In(s)) <= Cardinality(Entries)
  BY <1>4, <1>5, FS_Subset, Zenon
<1> QED BY <1>3, <1>4, <1>6

---------------------------------------------------------------------------
(* Putting an entry into a list, and taking one out.                       *)

Put(s, k, e) == [i \in 1..(Len(s) + 1) |-> IF i < k THEN s[i] ELSE IF i = k THEN e ELSE s[i - 1]]
Without(s, k) == [i \in 1..(Len(s) - 1) |-> IF i < k THEN s[i] ELSE s[i + 1]]

LEMMA PutIs ==
  ASSUME NEW S, NEW s, s \in Seq(S), NEW e, e \in S, NEW k \in 1..(Len(s) + 1)
  PROVE  /\ Put(s, k, e) \in Seq(S) /\ Len(Put(s, k, e)) = Len(s) + 1
         /\ \A i \in 1..(Len(s) + 1) :
              Put(s, k, e)[i] = IF i < k THEN s[i] ELSE IF i = k THEN e ELSE s[i - 1]
         /\ In(Put(s, k, e)) = In(s) \cup {e}
         /\ Distinct(s) /\ e \notin In(s) => Distinct(Put(s, k, e))
<1>0. Len(s) \in Nat /\ DOMAIN s = 1..Len(s) /\ \A i \in 1..Len(s) : s[i] \in S
  BY LenProperties, ElementOfSeq
<1> DEFINE t == Put(s, k, e)
           n == Len(s)
<1>1. t \in [1..(n + 1) -> S]
  BY <1>0 DEF Put
<1>2. t \in Seq(S) /\ Len(t) = n + 1 /\ DOMAIN t = 1..(n + 1)
  <2>1. \A i \in 1..(n + 1) : t[i] \in S
    BY <1>1
  <2>2. t \in Seq(S)
    BY <1>0, <1>1, SeqDef
  <2> QED BY <1>0, <1>1, <2>2, LenProperties
<1>3. \A i \in 1..(n + 1) : t[i] = IF i < k THEN s[i] ELSE IF i = k THEN e ELSE s[i - 1]
  BY <1>0 DEF Put
<1> HIDE DEF t
<1>4. In(t) = In(s) \cup {e}
  <2>1. ASSUME NEW i \in 1..(n + 1) PROVE t[i] \in In(s) \cup {e}
    BY <1>0, <1>3 DEF In
  <2>2. t[k] = e /\ k \in 1..(n + 1)
    BY <1>0, <1>3
  <2>3. ASSUME NEW i \in 1..n PROVE \E j \in 1..(n + 1) : t[j] = s[i]
    <3>1. CASE i < k
      BY <1>0, <1>3, <3>1
    <3>2. CASE ~(i < k)
      <4>1. i + 1 \in 1..(n + 1) /\ t[i + 1] = s[i]
        BY <1>0, <1>3, <3>2
      <4> QED BY <4>1
    <3> QED BY <3>1, <3>2
  <2> QED BY <1>0, <1>2, <2>1, <2>2, <2>3 DEF In
<1>5. ASSUME Distinct(s), e \notin In(s) PROVE Distinct(t)
  <2>1. \A i \in 1..n : s[i] # e
    BY <1>0, <1>5 DEF In
  <2> SUFFICES ASSUME NEW i \in 1..(n + 1), NEW j \in 1..(n + 1), t[i] = t[j] PROVE i = j
    BY <1>2 DEF Distinct
  <2> QED BY <1>0, <1>3, <1>5, <2>1 DEF Distinct
<1> QED BY <1>2, <1>3, <1>4, <1>5 DEF t

LEMMA WithoutIs ==
  ASSUME NEW s, s \in Seq(Entries), NEW k \in 1..Len(s), Distinct(s)
  PROVE  /\ Without(s, k) \in Seq(Entries) /\ Len(Without(s, k)) = Len(s) - 1
         /\ \A i \in 1..(Len(s) - 1) : Without(s, k)[i] = IF i < k THEN s[i] ELSE s[i + 1]
         /\ In(Without(s, k)) = In(s) \ {s[k]}
         /\ Distinct(Without(s, k))
<1>0. Len(s) \in Nat /\ DOMAIN s = 1..Len(s) /\ \A i \in 1..Len(s) : s[i] \in Entries
  BY LenProperties, ElementOfSeq
<1> DEFINE t == Without(s, k)
           n == Len(s)
<1>1. t \in [1..(n - 1) -> Entries] /\ n - 1 \in Nat
  BY <1>0 DEF Without
<1>2. t \in Seq(Entries) /\ Len(t) = n - 1 /\ DOMAIN t = 1..(n - 1)
  <2>1. \E m \in Nat : t \in [1..m -> Entries]
    BY <1>1
  <2>2. t \in Seq(Entries)
    BY <2>1, SeqDef
  <2>3. DOMAIN t = 1..(n - 1) /\ DOMAIN t = 1..Len(t) /\ Len(t) \in Nat
    BY <1>1, <2>2, LenProperties
  <2>4. Len(t) = n - 1
    BY <1>1, <2>3
  <2> QED BY <2>2, <2>3, <2>4
<1>3. \A i \in 1..(n - 1) : t[i] = IF i < k THEN s[i] ELSE s[i + 1]
  BY <1>0 DEF Without
<1> HIDE DEF t
<1>4. In(t) = In(s) \ {s[k]}
  <2>1. ASSUME NEW i \in 1..(n - 1) PROVE t[i] \in In(s) /\ t[i] # s[k]
    BY <1>0, <1>3 DEF In, Distinct
  <2>2. ASSUME NEW i \in 1..n, i # k PROVE \E j \in 1..(n - 1) : t[j] = s[i]
    <3>1. CASE i < k
      <4>1. i \in 1..(n - 1) /\ t[i] = s[i]
        BY <1>0, <1>3, <3>1
      <4> QED BY <4>1
    <3>2. CASE ~(i < k)
      <4>1. i - 1 \in 1..(n - 1) /\ t[i - 1] = s[i]
        BY <1>0, <1>3, <2>2, <3>2
      <4> QED BY <4>1
    <3> QED BY <3>1, <3>2
  <2>3. ASSUME NEW e, e \in In(t) PROVE e \in In(s) \ {s[k]}
    BY <1>2, <2>1, <2>3 DEF In
  <2>4. ASSUME NEW e, e \in In(s), e # s[k] PROVE e \in In(t)
    <3>1. PICK i \in 1..n : e = s[i]
      BY <1>0, <2>4 DEF In
    <3>2. PICK j \in 1..(n - 1) : t[j] = e
      BY <2>2, <2>4, <3>1
    <3> QED BY <1>2, <3>2 DEF In
  <2> QED BY <2>3, <2>4
<1>5. Distinct(t)
  <2> SUFFICES ASSUME NEW i \in 1..(n - 1), NEW j \in 1..(n - 1), t[i] = t[j] PROVE i = j
    BY <1>2 DEF Distinct
  <2> QED BY <1>0, <1>3 DEF Distinct
<1> QED BY <1>2, <1>3, <1>4, <1>5 DEF t

---------------------------------------------------------------------------
(* Removals.                                                               *)

\* An entry is held by the list and by the walk.
Counted(l, s, held) ==
  \A e \in Entries :
    l.mem[e].refs = (IF e \in In(s) THEN 1 ELSE 0) + (IF e = held THEN 1 ELSE 0)
InOrder(t, s) ==
  \A i, j \in 1..Len(t) :
    i < j => \E k, n \in 1..Len(s) : k < n /\ t[i] = s[k] /\ t[j] = s[n]
\* From l, which has the list s, to m, which has t: the entries that are gone were removed.
Removed(l, s, m, t, gone, held) ==
  /\ Shape(m, t) /\ Counted(m, t, held)
  /\ In(t) = In(s) \ gone /\ InOrder(t, s)
  /\ \A e \in In(t) : m.mem[e].data = l.mem[e].data
  /\ held # 0 => m.mem[held].data = l.mem[held].data
  /\ held # 0 /\ l.mem[held].next \notin gone =>
       m.mem[held].next = l.mem[held].next

LEMMA ReleasedIs ==
  ASSUME NEW x, x \in Entry
  PROVE  /\ Released(x) \in Entry
         /\ x.refs # 1 => /\ Released(x).refs = x.refs - 1
                          /\ Released(x).data = x.data /\ Released(x).next = x.next
         /\ x.refs = 1 => Released(x).refs = 0
<1>1. Unused \in Entry /\ Unused.refs = 0
  BY DEF Unused, Entry, Links
<1>2. CASE x.refs = 1
  BY <1>1, <1>2 DEF Released
<1>3. CASE x.refs # 1
  <2>1. Released(x) = [x EXCEPT !.refs = @ - 1]
    BY <1>3 DEF Released
  <2> QED BY <2>1, <1>3 DEF Entry
<1> QED BY <1>2, <1>3

\* m is l without the entry at place k of the list s.
Unlinked(l, s, m, k) ==
  /\ m \in Lists
  /\ m.head = (IF k = 1 THEN At(s, 2) ELSE l.head)
  /\ m.tail = (IF k = Len(s) THEN At(s, k - 1) ELSE l.tail)
  /\ m.entries = l.entries - 1
  /\ m.mem[s[k]] = Released(l.mem[s[k]])
  /\ \A i \in 1..Len(s) : i = k - 1 =>
       m.mem[s[i]] = [l.mem[s[i]] EXCEPT !.next = At(s, k + 1)]
  /\ \A x \in Entries : x # s[k] /\ (k > 1 => x # s[k - 1]) => m.mem[x] = l.mem[x]

LEMMA UnlinkPoints ==
  ASSUME NEW l, NEW s, Shape(l, s), NEW k \in 1..Len(s)
  PROVE  Unlinked(l, s, Unlink(l, s[k]), k)
<1>0. /\ l \in Lists /\ s \in Seq(Entries) /\ Len(s) \in Nat /\ DOMAIN s = 1..Len(s)
      /\ \A i \in 1..Len(s) : s[i] \in Entries
  BY LenProperties, ElementOfSeq DEF Shape, Path
<1>n. Len(s) \in Nat
  BY <1>0
<1>t. l.mem \in [Entries -> Entry] /\ l.entries \in Int /\ l.head \in Links /\ l.tail \in Links
  BY <1>0 DEF Lists
<1> DEFINE e == s[k]
           prev == {p \in Listed(l) : l.mem[p].next = e}
           linked == IF prev = {} THEN [l EXCEPT !.head = l.mem[e].next]
                     ELSE [l EXCEPT !.mem[CHOOSE p \in prev : TRUE].next = l.mem[e].next]
           ended == IF l.mem[e].next # 0 THEN linked
                    ELSE [linked EXCEPT !.tail = IF prev = {} THEN 0 ELSE CHOOSE p \in prev : TRUE]
           left == [ended EXCEPT !.entries = @ - 1]
           m == queue_entry_unref(left, e)
<1>1. Unlink(l, s[k]) = m
  BY Zenon DEF Unlink
<1>2. e \in Entries /\ e # 0 /\ l.mem[e].next = At(s, k + 1)
  BY <1>0 DEF Shape, Path, Entries
<1>3. At(s, k + 1) \in Links /\ (At(s, k + 1) # 0 <=> k # Len(s)) /\ At(s, k + 1) # e
  <2>1. CASE k = Len(s)
    <3>1. At(s, k + 1) = 0
      BY <1>0, <2>1 DEF At
    <3> QED BY <1>2, <2>1, <3>1 DEF Links
  <2>2. CASE k # Len(s)
    <3>0. k + 1 \in 1..Len(s)
      BY <1>n, <2>2
    <3>1. k + 1 \in 1..Len(s) /\ At(s, k + 1) = s[k + 1]
      BY <3>0, Zenon DEF At
    <3>2. s[k + 1] # s[k]
      BY <1>0, <3>1 DEF Shape, Distinct
    <3>3. s[k + 1] \in Entries
      BY <1>0, <3>0
    <3> HIDE DEF m, left, ended, linked, prev
    <3> QED BY <2>2, <3>1, <3>2, <3>3 DEF Links, Entries, e
  <2> QED BY <2>1, <2>2
<1>4. ASSUME NEW i \in 1..Len(s) PROVE l.mem[s[i]].next = e <=> i = k - 1
  <2>1. l.mem[s[i]].next = At(s, i + 1)
    BY DEF Shape, Path
  <2>2. CASE i = Len(s)
    BY <1>0, <1>2, <2>1, <2>2 DEF At
  <2>3. CASE i # Len(s)
    <3>0. i + 1 \in 1..Len(s)
      BY <1>n, <2>3
    <3>1. i + 1 \in 1..Len(s) /\ At(s, i + 1) = s[i + 1]
      BY <3>0, Zenon DEF At
    <3>2. s[i + 1] = s[k] <=> i + 1 = k
      BY <1>0, <3>1 DEF Shape, Distinct
    <3> QED BY <1>0, <2>1, <3>1, <3>2
  <2> QED BY <2>2, <2>3
<1>5. prev = {s[i] : i \in {i \in 1..Len(s) : i = k - 1}}
  <2>1. Listed(l) = {s[i] : i \in 1..Len(s)}
    BY <1>0, ListIs DEF In
  <2> QED BY <2>1, <1>4
<1> HIDE DEF e, prev
<1>6. CASE k = 1
  <2>1. prev = {}
    BY <1>5, <1>6
  <2>2. linked = [l EXCEPT !.head = l.mem[e].next]
    BY <2>1
  <2> HIDE DEF linked
  <2>3. /\ linked \in Lists /\ linked.head = At(s, 2) /\ linked.tail = l.tail
        /\ linked.entries = l.entries /\ linked.mem = l.mem
    BY <1>0, <1>t, <1>2, <1>3, <1>6, <2>2 DEF Lists
  <2>4. /\ ended \in Lists /\ ended.head = At(s, 2)
        /\ ended.tail = (IF k = Len(s) THEN 0 ELSE l.tail)
        /\ ended.entries = l.entries /\ ended.mem = l.mem
    BY <1>0, <1>2, <1>3, <2>1, <2>3 DEF Lists, Links
  <2> HIDE DEF ended
  <2>5. /\ left \in Lists /\ left.head = ended.head /\ left.tail = ended.tail
        /\ left.entries = l.entries - 1 /\ left.mem = l.mem
    BY <2>4 DEF Lists
  <2> HIDE DEF left
  <2>6. /\ m \in Lists /\ m.head = left.head /\ m.tail = left.tail /\ m.entries = left.entries
        /\ m.mem = [left.mem EXCEPT ![e] = Released(@)]
    BY <1>2, <2>5, ReleasedIs DEF queue_entry_unref, Lists
  <2> HIDE DEF m
  <2>7. At(s, k - 1) = 0 /\ ~(k > 1) /\ \A i \in 1..Len(s) : i # k - 1
    BY <1>6 DEF At
  <2>8. m.mem[e] = Released(l.mem[e]) /\ \A x \in Entries : x # e => m.mem[x] = l.mem[x]
    BY <1>t, <1>2, <2>3, <2>4, <2>5, <2>6
  <2>9. m.head = (IF k = 1 THEN At(s, 2) ELSE l.head)
    BY <1>6, <2>4, <2>5, <2>6
  <2>10. m.tail = (IF k = Len(s) THEN At(s, k - 1) ELSE l.tail)
    BY <2>4, <2>5, <2>6, <2>7
  <2> QED BY <1>1, <2>5, <2>6, <2>7, <2>8, <2>9, <2>10, Zenon DEF e, Unlinked
<1>7. CASE k # 1
  <2> DEFINE p == s[k - 1]
  <2>0. k - 1 \in 1..Len(s) /\ p \in Entries /\ p # e /\ p # 0 /\ At(s, k - 1) = p
    BY <1>0, <1>7 DEF Shape, Distinct, e, At, Entries
  <2>1. prev = {p}
    BY <1>5, <2>0
  <2>p. (CHOOSE x \in prev : TRUE) = p /\ prev # {}
    BY <2>1
  <2> HIDE DEF p
  <2>2. linked = [l EXCEPT !.mem[p].next = At(s, k + 1)]
    BY <2>p, <1>2
  <2> HIDE DEF linked
  <2>3. /\ linked \in Lists /\ linked.head = l.head /\ linked.tail = l.tail
        /\ linked.entries = l.entries
        /\ linked.mem = [l.mem EXCEPT ![p] = [l.mem[p] EXCEPT !.next = At(s, k + 1)]]
    BY <1>0, <1>t, <2>0, <1>3, <2>2 DEF Lists, Entry
  <2>4. /\ ended \in Lists /\ ended.head = l.head
        /\ ended.tail = (IF k = Len(s) THEN p ELSE l.tail)
        /\ ended.entries = l.entries /\ ended.mem = linked.mem
    <3>1. CASE k = Len(s)
      <4>1. ended = [linked EXCEPT !.tail = p]
        BY <1>2, <1>3, <2>p, <3>1
      <4> QED BY <2>0, <2>3, <3>1, <4>1 DEF Lists, Links, Entries
    <3>2. CASE k # Len(s)
      BY <1>2, <1>3, <2>3, <3>2
    <3> QED BY <3>1, <3>2
  <2> HIDE DEF ended
  <2>5. /\ left \in Lists /\ left.head = ended.head /\ left.tail = ended.tail
        /\ left.entries = l.entries - 1 /\ left.mem = linked.mem
    BY <2>4 DEF Lists
  <2> HIDE DEF left
  <2>6. /\ m \in Lists /\ m.head = left.head /\ m.tail = left.tail /\ m.entries = left.entries
        /\ m.mem = [left.mem EXCEPT ![e] = Released(@)]
    BY <1>2, <2>5, ReleasedIs DEF queue_entry_unref, Lists
  <2> HIDE DEF m
  <2>7. linked.mem[e] = l.mem[e] /\ linked.mem[p] = [l.mem[p] EXCEPT !.next = At(s, k + 1)]
    BY <1>2, <1>t, <2>0, <2>3
  <2>8. \A x \in Entries : x # e /\ x # p => m.mem[x] = l.mem[x]
    BY <1>t, <2>3, <2>5, <2>6
  <2>9. m.mem[e] = Released(l.mem[e]) /\ m.mem[p] = [l.mem[p] EXCEPT !.next = At(s, k + 1)]
    BY <1>t, <1>2, <2>0, <2>3, <2>5, <2>6, <2>7
  <2>10. \A i \in 1..Len(s) : i = k - 1 => s[i] = p
    BY DEF p
  <2>11. m.head = (IF k = 1 THEN At(s, 2) ELSE l.head)
    BY <1>7, <2>4, <2>5, <2>6
  <2>12. m.tail = (IF k = Len(s) THEN At(s, k - 1) ELSE l.tail)
    BY <2>0, <2>4, <2>5, <2>6
  <2>13. k > 1
    BY <1>7
  <2> QED BY <1>1, <2>5, <2>6, <2>8, <2>9, <2>10, <2>11, <2>12, <2>13, Zenon DEF e, p, Unlinked
<1> QED BY <1>6, <1>7

LEMMA UnlinkIs ==
  ASSUME NEW l, NEW s, Shape(l, s), NEW held \in Links, Counted(l, s, held),
         NEW k \in 1..Len(s)
  PROVE  Removed(l, s, Unlink(l, s[k]), Without(s, k), {s[k]}, held)
<1> DEFINE m == Unlink(l, s[k])
           t == Without(s, k)
           n == Len(s)
<1>0. /\ l \in Lists /\ s \in Seq(Entries) /\ DOMAIN s = 1..n /\ Distinct(s)
      /\ \A i \in 1..n : s[i] \in Entries
  BY LenProperties, ElementOfSeq DEF Shape, Path
<1>n. n \in Nat
  BY <1>0, LenProperties
<1>t. l.mem \in [Entries -> Entry]
  BY <1>0 DEF Lists
<1>1. /\ t \in Seq(Entries) /\ Len(t) = n - 1 /\ In(t) = In(s) \ {s[k]} /\ Distinct(t)
      /\ \A i \in 1..(n - 1) : t[i] = IF i < k THEN s[i] ELSE s[i + 1]
  BY <1>0, WithoutIs
<1>2. /\ m \in Lists
      /\ m.head = (IF k = 1 THEN At(s, 2) ELSE l.head)
      /\ m.tail = (IF k = n THEN At(s, k - 1) ELSE l.tail)
      /\ m.entries = l.entries - 1
      /\ m.mem[s[k]] = Released(l.mem[s[k]])
      /\ \A i \in 1..n : i = k - 1 =>
           m.mem[s[i]] = [l.mem[s[i]] EXCEPT !.next = At(s, k + 1)]
      /\ \A x \in Entries : x # s[k] /\ (k > 1 => x # s[k - 1]) => m.mem[x] = l.mem[x]
  <2>1. Unlinked(l, s, m, k)
    BY UnlinkPoints
  <2> HIDE DEF m
  <2> QED BY <2>1, Zenon DEF Unlinked
<1> HIDE DEF m, t
<1>3. \A i \in 1..n : s[i] \in In(s) /\ s[i] # 0
  BY <1>0 DEF In, Entries
<1>4. \A i \in 1..n : i # k => s[i] # s[k]
  BY <1>0 DEF Distinct
<1>5. /\ Released(l.mem[s[k]]) \in Entry
      /\ l.mem[s[k]].refs # 1 =>
           /\ Released(l.mem[s[k]]).refs = l.mem[s[k]].refs - 1
           /\ Released(l.mem[s[k]]).data = l.mem[s[k]].data
           /\ Released(l.mem[s[k]]).next = l.mem[s[k]].next
      /\ l.mem[s[k]].refs = 1 => Released(l.mem[s[k]]).refs = 0
  BY <1>0, <1>t, ReleasedIs
<1>6. l.mem[s[k]].refs = IF s[k] = held THEN 2 ELSE 1
  BY <1>0, <1>3 DEF Counted
\* The places of the list that is left.
<1>7. /\ \A i \in Nat : i < k => At(t, i) = At(s, i) \/ (i = k - 1 /\ i = 0)
      /\ \A i \in 1..n : i >= k => At(t, i) = At(s, i + 1)
      /\ At(t, 0) = 0 /\ At(s, 0) = 0
  <2>1. ASSUME NEW i \in Nat, i < k PROVE At(t, i) = At(s, i)
    <3>1. i \in 1..(n - 1) <=> i \in 1..n
      BY <2>1, <1>n
    <3> QED BY <1>1, <2>1, <3>1 DEF At
  <2>2. ASSUME NEW i \in 1..n, i >= k PROVE At(t, i) = At(s, i + 1)
    <3>1. i \in 1..(n - 1) <=> i + 1 \in 1..n
      BY <1>n
    <3>2. i \in 1..(n - 1) => t[i] = s[i + 1]
      BY <1>1, <1>n, <2>2
    <3> QED BY <1>1, <3>1, <3>2 DEF At
  <2>3. At(t, 0) = 0 /\ At(s, 0) = 0
    BY DEF At
  <2> QED BY <2>1, <2>2, <2>3
<1>8. m.head = At(t, 1)
  <2>1. CASE k = 1
    <3>1. At(t, 1) = At(s, 1 + 1)
      BY <1>7, <1>n, <2>1
    <3> QED BY <1>2, <2>1, <3>1
  <2>2. CASE k # 1
    <3>1. 1 < k
      BY <2>2
    <3>2. At(t, 1) = At(s, 1)
      BY <1>7, <3>1
    <3> QED BY <1>2, <2>2, <3>2 DEF Shape, Path
  <2> QED BY <2>1, <2>2
<1>9. m.tail = At(t, n - 1)
  <2>1. CASE k = n
    <3>1. n - 1 \in Nat /\ n - 1 < k /\ k - 1 = n - 1
      BY <2>1, <1>n
    <3> QED BY <1>2, <1>7, <2>1, <3>1
  <2>2. CASE k # n
    <3>1. n - 1 \in 1..n /\ n - 1 >= k /\ (n - 1) + 1 = n
      BY <2>2, <1>n
    <3>2. At(t, n - 1) = At(s, n)
      BY <1>7, <3>1
    <3> QED BY <1>2, <2>2, <3>2 DEF Shape
  <2> QED BY <2>1, <2>2
<1>10. ASSUME NEW i \in 1..(n - 1) PROVE m.mem[t[i]].next = At(t, i + 1)
  <2>1. CASE i + 1 < k
    <3>1. i \in 1..n /\ t[i] = s[i] /\ i # k /\ i # k - 1 /\ i + 1 \in Nat
      BY <1>1, <1>n, <2>1
    <3>2. s[i] # s[k] /\ (k > 1 => s[i] # s[k - 1])
      BY <1>0, <1>n, <2>1, <3>1 DEF Distinct
    <3>3. m.mem[s[i]] = l.mem[s[i]]
      BY <1>0, <1>2, <3>1, <3>2
    <3>4. l.mem[s[i]].next = At(s, i + 1)
      BY <3>1 DEF Shape, Path
    <3>5. At(t, i + 1) = At(s, i + 1)
      BY <1>7, <2>1, <3>1
    <3> QED BY <3>1, <3>3, <3>4, <3>5
  <2>2. CASE i + 1 = k
    <3>1. i \in 1..n /\ t[i] = s[i] /\ i = k - 1 /\ k \in 1..n /\ k >= k /\ i + 1 = k
      BY <1>1, <1>n, <2>2
    <3>2. m.mem[s[i]] = [l.mem[s[i]] EXCEPT !.next = At(s, k + 1)]
      BY <1>2, <3>1
    <3>3. l.mem[s[i]] \in Entry
      BY <1>0, <1>t, <3>1
    <3>4. m.mem[s[i]].next = At(s, k + 1)
      BY <3>2, <3>3 DEF Entry
    <3>5. At(t, k) = At(s, k + 1)
      BY <1>7, <3>1
    <3> QED BY <3>1, <3>4, <3>5
  <2>3. CASE i + 1 > k
    <3>1. i + 1 \in 1..n /\ t[i] = s[i + 1] /\ i + 1 # k /\ i + 1 # k - 1 /\ i + 1 >= k
      BY <1>1, <1>n, <2>3
    <3>2. s[i + 1] # s[k] /\ (k > 1 => s[i + 1] # s[k - 1])
      BY <1>0, <1>n, <2>3, <3>1 DEF Distinct
    <3>3. m.mem[s[i + 1]] = l.mem[s[i + 1]]
      BY <1>0, <1>2, <3>1, <3>2
    <3>4. l.mem[s[i + 1]].next = At(s, (i + 1) + 1)
      BY <3>1 DEF Shape, Path
    <3>5. At(t, i + 1) = At(s, (i + 1) + 1)
      BY <1>7, <3>1
    <3> QED BY <3>1, <3>3, <3>4, <3>5
  <2> QED BY <1>n, <2>1, <2>2, <2>3
<1>11. Shape(m, t)
  <2>1. Len(t) <= MaxEntries /\ m.entries = Len(t)
    BY <1>1, <1>2, <1>n DEF Shape, Path
  <2> QED BY <1>1, <1>2, <1>8, <1>9, <1>10, <2>1, Zenon DEF Shape, Path
<1>12. ASSUME NEW x \in Entries, x # s[k]
       PROVE  m.mem[x].refs = l.mem[x].refs /\ m.mem[x].data = l.mem[x].data
  <2>1. CASE k > 1 /\ x = s[k - 1]
    <3>1. k - 1 \in 1..n
      BY <2>1, <1>n
    <3>2. m.mem[x] = [l.mem[x] EXCEPT !.next = At(s, k + 1)]
      BY <1>2, <2>1, <3>1
    <3> QED BY <1>t, <3>2 DEF Entry
  <2>2. CASE ~(k > 1 /\ x = s[k - 1])
    BY <1>2, <1>12, <2>2
  <2> QED BY <2>1, <2>2
<1>13. Counted(m, t, held)
  <2> SUFFICES ASSUME NEW x \in Entries
               PROVE  m.mem[x].refs = (IF x \in In(t) THEN 1 ELSE 0) + (IF x = held THEN 1 ELSE 0)
    BY DEF Counted
  <2>1. CASE x = s[k]
    <3>1. m.mem[x].refs = IF x = held THEN 1 ELSE 0
      BY <1>2, <1>5, <1>6, <2>1
    <3>2. x \notin In(t)
      BY <1>1, <2>1
    <3> QED BY <3>1, <3>2
  <2>2. CASE x # s[k]
    <3>1. x \in In(t) <=> x \in In(s)
      BY <1>1, <2>2
    <3> QED BY <1>12, <2>2, <3>1 DEF Counted
  <2> QED BY <2>1, <2>2
<1>14. InOrder(t, s)
  <2> SUFFICES ASSUME NEW i \in 1..Len(t), NEW j \in 1..Len(t), i < j
               PROVE  \E a, b \in 1..n : a < b /\ t[i] = s[a] /\ t[j] = s[b]
    BY Zenon DEF InOrder
  <2> DEFINE a == IF i < k THEN i ELSE i + 1
             b == IF j < k THEN j ELSE j + 1
  <2>0. i \in 1..(n - 1) /\ j \in 1..(n - 1)
    BY <1>1
  <2>1. a \in 1..n /\ b \in 1..n /\ a < b
    BY <1>n, <2>0
  <2>2. t[i] = s[a] /\ t[j] = s[b]
    BY <1>1, <2>0
  <2> HIDE DEF a, b
  <2> QED BY <2>1, <2>2
<1>15. \A x \in In(t) : m.mem[x].data = l.mem[x].data
  <2>1. In(t) \subseteq Entries /\ s[k] \notin In(t)
    BY <1>0, <1>1 DEF In
  <2> QED BY <1>12, <2>1
<1>16. ASSUME held # 0
       PROVE  /\ m.mem[held].data = l.mem[held].data
              /\ l.mem[held].next # s[k] => m.mem[held].next = l.mem[held].next
  <2>0. held \in Entries
    BY <1>16 DEF Links, Entries
  <2>1. CASE held = s[k]
    BY <1>2, <1>5, <1>6, <2>1
  <2>2. CASE held # s[k] /\ k > 1 /\ held = s[k - 1]
    <3>1. k - 1 \in 1..n /\ (k - 1) + 1 = k
      BY <2>2, <1>n
    <3>2. l.mem[held].next = At(s, k)
      BY <2>2, <3>1 DEF Shape, Path
    <3>3. l.mem[held].next = s[k]
      BY <3>2 DEF At
    <3> QED BY <1>12, <2>0, <2>2, <3>3
  <2>3. CASE held # s[k] /\ ~(k > 1 /\ held = s[k - 1])
    BY <1>2, <2>0, <2>3
  <2> QED BY <2>1, <2>2, <2>3
<1> QED BY <1>1, <1>11, <1>13, <1>14, <1>15, <1>16, Zenon DEF Removed, m, t

LEMMA NothingRemoved ==
  ASSUME NEW l, NEW s, Shape(l, s), NEW held, Counted(l, s, held)
  PROVE  Removed(l, s, l, s, {}, held)
<1>1. InOrder(s, s)
  BY Zenon DEF InOrder
<1> QED BY <1>1 DEF Removed

LEMMA RemovedTwice ==
  ASSUME NEW l, NEW s, NEW held, NEW m, NEW t, NEW gone, Removed(l, s, m, t, gone, held),
         NEW r, NEW u, NEW more, Removed(m, t, r, u, more, held)
  PROVE  Removed(l, s, r, u, gone \cup more, held)
<1>1. InOrder(u, s)
  <2> SUFFICES ASSUME NEW i \in 1..Len(u), NEW j \in 1..Len(u), i < j
               PROVE  \E k, n \in 1..Len(s) : k < n /\ u[i] = s[k] /\ u[j] = s[n]
    BY Zenon DEF InOrder
  <2>1. PICK a \in 1..Len(t), b \in 1..Len(t) : a < b /\ u[i] = t[a] /\ u[j] = t[b]
    BY Zenon DEF Removed, InOrder
  <2>2. PICK k \in 1..Len(s), n \in 1..Len(s) : k < n /\ t[a] = s[k] /\ t[b] = s[n]
    BY <2>1, Zenon DEF Removed, InOrder
  <2> QED BY <2>1, <2>2
<1>2. Shape(r, u) /\ Counted(r, u, held) /\ In(u) = In(s) \ (gone \cup more)
  BY DEF Removed
<1>3. /\ \A e \in In(u) : r.mem[e].data = l.mem[e].data
      /\ held # 0 => r.mem[held].data = l.mem[held].data
      /\ held # 0 /\ l.mem[held].next \notin gone \cup more =>
           r.mem[held].next = l.mem[held].next
  BY DEF Removed
<1> QED BY <1>1, <1>2, <1>3, Zenon DEF Removed

LEMMA RemoveMatchingIs ==
  ASSUME NEW l, NEW s, Shape(l, s), NEW held, held \in Links, Counted(l, s, held),
         NEW matching, matching \subseteq In(s)
  PROVE  \E t : Removed(l, s, RemoveMatching(l, matching), t, matching, held)
<1> DEFINE n == Len(s)
           f == queue_remove_if(matching)
           some(v, t, gone, i) == /\ gone \subseteq matching /\ Removed(l, s, v, t, gone, held)
                                  /\ gone = matching \/ Len(t) = n - i
           inv == [i \in 0..n |-> {v \in Lists : \E t, gone : some(v, t, gone, i)}]
<1>n. n \in Nat /\ l \in Lists
  BY LenProperties DEF Shape, Path
<1>1. l \in inv[0]
  <2>1. some(l, s, {}, 0)
    BY <1>n, NothingRemoved
  <2> HIDE DEF some
  <2> QED BY <1>n, <2>1
<1>2. ASSUME NEW i \in 1..n, NEW v \in inv[i - 1] PROVE f[v] \in inv[i]
  <2>1. v \in Lists /\ \E t, gone : some(v, t, gone, i - 1)
    <3> HIDE DEF some
    <3>1. i - 1 \in 0..n
      BY <1>n
    <3> QED BY <3>1
  <2>2. PICK t, gone : some(v, t, gone, i - 1)
    BY <2>1
  <2>3. Shape(v, t) /\ Counted(v, t, held) /\ In(t) = In(s) \ gone
    BY <2>2 DEF Removed
  <2>4. List(v) = t
    BY <2>3, ListIs
  <2>5. DOMAIN t = 1..Len(t) /\ Len(t) \in Nat /\ t \in Seq(Entries) /\ Distinct(t)
    BY <2>3, LenProperties DEF Shape, Path
  <2> DEFINE found == {j \in DOMAIN t : t[j] \in matching}
             least == CHOOSE j \in found : \A k \in found : j <= k
  <2>6. f[v] = IF found = {} THEN v ELSE Unlink(v, t[least])
    <3> DEFINE body(z) ==
                 LET matched == {j \in DOMAIN z : z[j] \in matching}
                 IN IF matched = {} THEN v
                    ELSE Unlink(v, z[CHOOSE j \in matched : \A k \in matched : j <= k])
    <3>1. f[v] = body(List(v))
      BY <2>1, Zenon DEF queue_remove_if
    <3>2. body(t) = IF found = {} THEN v ELSE Unlink(v, t[least])
      BY Zenon
    <3> HIDE DEF body
    <3> QED BY <2>4, <3>1, <3>2, Zenon
  <2>7. CASE found = {}
    <3>1. gone = matching
      <4>1. \A e \in In(t) : e \notin matching
        BY <2>7, Zenon DEF In
      <4>2. gone \subseteq matching
        BY <2>2
      <4> QED BY <2>3, <4>1, <4>2
    <3>2. some(v, t, gone, i)
      BY <2>2, <3>1
    <3> HIDE DEF some, found
    <3> QED BY <1>n, <2>1, <2>6, <2>7, <3>2
  <2>8. CASE found # {}
    <3>1. found \subseteq Nat
      BY <2>5
    <3>2. \E j \in found : \A k \in found : j <= k
      BY <3>1, <2>8, Least
    <3>3. least \in found
      BY <3>2
    <3> HIDE DEF least
    <3>4. least \in 1..Len(t) /\ t[least] \in matching
      BY <2>5, <3>3
    <3> DEFINE r == Unlink(v, t[least])
               u == Without(t, least)
    <3>5. Removed(v, t, r, u, {t[least]}, held)
      BY <2>3, <3>4, UnlinkIs, Zenon
    <3>6. Removed(l, s, r, u, gone \cup {t[least]}, held)
      BY <2>2, <3>5, RemovedTwice, Zenon
    <3>7. Len(u) = Len(t) - 1
      BY <2>5, <3>4, WithoutIs
    <3> HIDE DEF r, u
    <3>8. gone # matching
      <4>1. t[least] \in In(t)
        BY <2>5, <3>4 DEF In
      <4> QED BY <2>3, <3>4, <4>1
    <3>9. some(r, u, gone \cup {t[least]}, i)
      BY <1>n, <2>2, <2>5, <3>4, <3>6, <3>7, <3>8
    <3>10. r \in Lists /\ f[v] = r
      BY <2>6, <2>8, <3>6, Zenon DEF Removed, Shape, r
    <3> HIDE DEF some, f
    <3> QED BY <1>n, <3>9, <3>10
  <2> QED BY <2>7, <2>8
<1> HIDE DEF inv, f
<1>3. Repeated(f, l, n) \in inv[n]
  BY <1>n, <1>1, <1>2, RepeatedInduction
<1>4. RemoveMatching(l, matching) = Repeated(f, l, n)
  BY ListIs, Zenon DEF RemoveMatching, f
<1> DEFINE r == Repeated(f, l, n)
<1> HIDE DEF r
<1>5. PICK t, gone : some(r, t, gone, n)
  <2> HIDE DEF some
  <2> QED BY <1>n, <1>3 DEF inv, r
<1>6. gone = matching
  <2>1. CASE gone = matching
    BY <2>1
  <2>2. CASE Len(t) = n - n
    <3>1. DOMAIN t = 1..Len(t) /\ In(t) = In(s) \ gone
      BY <1>5, LenProperties DEF Removed, Shape, Path
    <3>2. In(t) = {}
      BY <1>n, <2>2, <3>1 DEF In
    <3> QED BY <1>5, <3>1, <3>2
  <2> QED BY <1>5, <2>1, <2>2
<1> QED BY <1>4, <1>5, <1>6, Zenon DEF r

LEMMA RemoveEverythingIs ==
  ASSUME NEW l, NEW s, Shape(l, s), NEW held, held \in Links, Counted(l, s, held)
  PROVE  Removed(l, s, RemoveEverything(l), <<>>, In(s), held)
<1> DEFINE m == RemoveEverything(l)
<1>0. l \in Lists /\ l.mem \in [Entries -> Entry]
  BY DEF Shape, Lists
<1>1. m = [l EXCEPT !.head = 0, !.tail = 0, !.entries = 0,
             !.mem = [e \in Entries |-> IF e \in In(s) THEN Released(l.mem[e]) ELSE l.mem[e]]]
  <2>1. Listed(l) = In(s)
    BY ListIs
  <2> QED BY <2>1 DEF RemoveEverything
<1>2. [e \in Entries |-> IF e \in In(s) THEN Released(l.mem[e]) ELSE l.mem[e]] \in [Entries -> Entry]
  BY <1>0, ReleasedIs
<1> DEFINE mem == [e \in Entries |-> IF e \in In(s) THEN Released(l.mem[e]) ELSE l.mem[e]]
<1> HIDE DEF m
<1>3. /\ m \in Lists /\ m.head = 0 /\ m.tail = 0 /\ m.entries = 0
      /\ m.mem = [e \in Entries |-> IF e \in In(s) THEN Released(l.mem[e]) ELSE l.mem[e]]
  <2>1. mem \in [Entries -> Entry]
    BY <1>2
  <2> HIDE DEF mem
  <2>2. m = [l EXCEPT !.head = 0, !.tail = 0, !.entries = 0, !.mem = mem]
    BY <1>1 DEF mem
  <2>3. m = [head |-> 0, tail |-> 0, entries |-> 0, mem |-> mem]
    BY <1>0, <2>2 DEF Lists
  <2>4. m \in Lists /\ m.head = 0 /\ m.tail = 0 /\ m.entries = 0 /\ m.mem = mem
    BY <2>1, <2>3 DEF Lists, Links
  <2> QED BY <2>4 DEF mem
<1>4. Shape(m, <<>>)
  BY <1>3 DEF Shape, Path, Distinct, At
<1>5. In(<<>>) = {} /\ InOrder(<<>>, s)
  BY DEF In, InOrder
<1>6. ASSUME NEW e \in Entries
      PROVE  /\ m.mem[e].refs = l.mem[e].refs - (IF e \in In(s) THEN 1 ELSE 0)
             /\ e = held => m.mem[e].data = l.mem[e].data /\ m.mem[e].next = l.mem[e].next
  <2>1. CASE e \in In(s)
    <3>1. m.mem[e] = Released(l.mem[e]) /\ l.mem[e] \in Entry
      BY <1>0, <1>3, <2>1
    <3>2. l.mem[e].refs = IF e = held THEN 2 ELSE 1
      BY <2>1 DEF Counted
    <3> QED BY <2>1, <3>1, <3>2, ReleasedIs
  <2>2. CASE e \notin In(s)
    <3>1. m.mem[e] = l.mem[e] /\ l.mem[e] \in Entry
      BY <1>0, <1>3, <2>2
    <3> QED BY <2>2, <3>1 DEF Entry
  <2> QED BY <2>1, <2>2
<1>7. Counted(m, <<>>, held)
  BY <1>5, <1>6 DEF Counted
<1>8. held # 0 => m.mem[held].data = l.mem[held].data /\ m.mem[held].next = l.mem[held].next
  BY <1>6 DEF Links, Entries
<1> QED BY <1>4, <1>5, <1>7, <1>8 DEF Removed, m

---------------------------------------------------------------------------
(* Insertions.                                                             *)

\* m is l with e linked in, at place k of the list s.
Linked(l, s, m, e, d, k) ==
  /\ m \in Lists
  /\ m.head = (IF k = 1 THEN e ELSE l.head)
  /\ m.tail = (IF k = Len(s) + 1 THEN e ELSE l.tail)
  /\ m.entries = l.entries + 1
  /\ m.mem[e] = [data |-> {d}, next |-> At(s, k), refs |-> 1]
  /\ \A i \in 1..Len(s) : i = k - 1 => m.mem[s[i]] = [l.mem[s[i]] EXCEPT !.next = e]
  /\ \A x \in Entries \ {e} : (k > 1 => x # s[k - 1]) => m.mem[x] = l.mem[x]
Pushed(l, s, m, e, d, k, held) ==
  /\ Shape(m, Put(s, k, e)) /\ Counted(m, Put(s, k, e), held)
  /\ m.mem[e].data = {d}
  /\ \A x \in Entries \ {e} : /\ m.mem[x].data = l.mem[x].data
                              /\ x \notin In(s) => m.mem[x].next = l.mem[x].next

LEMMA LinkedIsPushed ==
  ASSUME NEW l, NEW s, Shape(l, s), NEW held \in Links, Counted(l, s, held),
         NEW e \in Entries, l.mem[e].refs = 0, NEW k \in 1..(Len(s) + 1), NEW d,
         NEW m, Linked(l, s, m, e, d, k)
  PROVE  Pushed(l, s, m, e, d, k, held)
<1> DEFINE t == Put(s, k, e)
           n == Len(s)
<1>0. /\ l \in Lists /\ s \in Seq(Entries) /\ DOMAIN s = 1..n /\ Distinct(s)
      /\ \A i \in 1..n : s[i] \in Entries
  BY LenProperties, ElementOfSeq DEF Shape, Path
<1>n. n \in Nat /\ k \in Nat
  BY <1>0, LenProperties
<1>t. l.mem \in [Entries -> Entry]
  BY <1>0 DEF Lists
<1>1. e \notin In(s) /\ e # held /\ e # 0
  BY DEF Counted, Entries
<1>2. /\ t \in Seq(Entries) /\ Len(t) = n + 1 /\ In(t) = In(s) \cup {e} /\ Distinct(t)
      /\ \A i \in 1..(n + 1) : t[i] = IF i < k THEN s[i] ELSE IF i = k THEN e ELSE s[i - 1]
  BY <1>0, <1>1, PutIs
<1> HIDE DEF t
<1>3. ASSUME NEW i \in 1..n PROVE s[i] \in In(s) /\ s[i] # e /\ s[i] # 0
  <2>1. s[i] \in In(s)
    BY <1>0 DEF In
  <2>2. s[i] # 0
    BY <1>0 DEF Entries
  <2> QED BY <1>1, <2>1, <2>2
\* The places of the list that is made.
<1>4. /\ \A i \in Nat : i < k => At(t, i) = At(s, i)
      /\ At(t, k) = e
      /\ \A i \in Nat : i >= k => At(t, i + 1) = At(s, i)
  <2>1. ASSUME NEW i \in Nat, i < k PROVE At(t, i) = At(s, i)
    <3>1. i \in 1..(n + 1) <=> i \in 1..n
      BY <2>1, <1>n
    <3> QED BY <1>2, <2>1, <3>1 DEF At
  <2>2. At(t, k) = e
    <3>1. t[k] = e /\ k \in 1..Len(t)
      BY <1>2, <1>n
    <3> QED BY <3>1 DEF At
  <2>3. ASSUME NEW i \in Nat, i >= k PROVE At(t, i + 1) = At(s, i)
    <3>1. i + 1 \in 1..(n + 1) <=> i \in 1..n
      BY <1>n, <2>3
    <3>2. i \in 1..n => t[i + 1] = s[i]
      BY <1>2, <1>n, <2>3
    <3> QED BY <1>2, <3>1, <3>2 DEF At
  <2> QED BY <2>1, <2>2, <2>3
<1>5. m.head = At(t, 1)
  <2>1. CASE k = 1
    BY <1>4, <2>1 DEF Linked
  <2>2. CASE k # 1
    <3>1. At(t, 1) = At(s, 1)
      BY <1>4, <1>n, <2>2
    <3> QED BY <2>2, <3>1 DEF Linked, Shape, Path
  <2> QED BY <2>1, <2>2
<1>6. m.tail = At(t, n + 1)
  <2>1. CASE k = n + 1
    BY <1>4, <2>1 DEF Linked
  <2>2. CASE k # n + 1
    <3>1. At(t, n + 1) = At(s, n)
      BY <1>4, <1>n, <2>2
    <3> QED BY <2>2, <3>1 DEF Linked, Shape
  <2> QED BY <2>1, <2>2
<1>7. ASSUME NEW i \in 1..n, i # k - 1 PROVE m.mem[s[i]].next = At(s, i + 1)
  <2>1. k > 1 => k - 1 \in 1..n
    BY <1>n
  <2>2. k > 1 => s[i] # s[k - 1]
    BY <1>0, <1>7, <2>1 DEF Distinct
  <2>3. m.mem[s[i]] = l.mem[s[i]]
    BY <1>0, <1>3, <2>2 DEF Linked
  <2> QED BY <2>3 DEF Shape, Path
<1>8. ASSUME NEW i \in 1..(n + 1) PROVE m.mem[t[i]].next = At(t, i + 1)
  <2>1. CASE i + 1 < k
    <3>1. i \in 1..n /\ i # k - 1 /\ t[i] = s[i] /\ i + 1 \in Nat
      BY <1>2, <1>n, <2>1
    <3>2. m.mem[s[i]].next = At(s, i + 1)
      BY <1>7, <3>1
    <3>3. At(t, i + 1) = At(s, i + 1)
      BY <1>4, <2>1, <3>1
    <3> QED BY <3>1, <3>2, <3>3
  <2>2. CASE i + 1 = k
    <3>1. i \in 1..n /\ i = k - 1 /\ t[i] = s[i]
      BY <1>2, <1>n, <2>2
    <3>2. m.mem[s[i]] = [l.mem[s[i]] EXCEPT !.next = e] /\ l.mem[s[i]] \in Entry
      BY <1>0, <1>t, <3>1 DEF Linked
    <3>3. m.mem[s[i]].next = e
      BY <3>2 DEF Entry
    <3> QED BY <1>4, <2>2, <3>1, <3>3
  <2>3. CASE i = k
    <3>1. t[i] = e /\ At(t, i + 1) = At(s, k)
      BY <1>2, <1>4, <1>n, <2>3
    <3> QED BY <3>1 DEF Linked
  <2>4. CASE i > k
    <3>1. i - 1 \in 1..n /\ i - 1 # k - 1 /\ t[i] = s[i - 1] /\ (i - 1) + 1 = i /\ i \in Nat /\ i >= k
      BY <1>2, <1>n, <2>4
    <3>2. m.mem[s[i - 1]].next = At(s, i)
      BY <1>7, <3>1
    <3>3. At(t, i + 1) = At(s, i)
      BY <1>4, <3>1
    <3> QED BY <3>1, <3>2, <3>3
  <2> QED BY <1>n, <2>1, <2>2, <2>3, <2>4
<1>9. Len(t) <= MaxEntries
  BY <1>2, CountOfList
<1>10. Shape(m, t)
  <2>1. m \in Lists /\ m.entries = Len(t)
    BY <1>2 DEF Linked, Shape
  <2> QED BY <1>2, <1>5, <1>6, <1>8, <1>9, <2>1, Zenon DEF Shape, Path
<1>11. ASSUME NEW x \in Entries \ {e}
       PROVE  /\ m.mem[x].refs = l.mem[x].refs /\ m.mem[x].data = l.mem[x].data
              /\ x \notin In(s) => m.mem[x].next = l.mem[x].next
  <2>1. CASE k > 1 /\ x = s[k - 1]
    <3>1. k - 1 \in 1..n
      BY <2>1, <1>n
    <3>2. m.mem[x] = [l.mem[x] EXCEPT !.next = e] /\ l.mem[x] \in Entry /\ x \in In(s)
      BY <1>3, <1>t, <2>1, <3>1 DEF Linked
    <3> QED BY <3>2 DEF Entry
  <2>2. CASE ~(k > 1 /\ x = s[k - 1])
    BY <2>2 DEF Linked
  <2> QED BY <2>1, <2>2
<1>12. m.mem[e].refs = 1 /\ m.mem[e].data = {d}
  BY DEF Linked
<1>13. Counted(m, t, held)
  <2> SUFFICES ASSUME NEW x \in Entries
               PROVE  m.mem[x].refs = (IF x \in In(t) THEN 1 ELSE 0) + (IF x = held THEN 1 ELSE 0)
    BY DEF Counted
  <2>1. CASE x = e
    BY <1>1, <1>2, <1>12, <2>1
  <2>2. CASE x # e
    <3>1. x \in In(t) <=> x \in In(s)
      BY <1>2, <2>2
    <3> QED BY <1>11, <2>2, <3>1 DEF Counted
  <2> QED BY <2>1, <2>2
<1> QED BY <1>10, <1>11, <1>12, <1>13, Zenon DEF Pushed, t

LEMMA NewEntryIs ==
  ASSUME NEW l, l \in Lists, NEW e \in Entries, NEW d \in Data
  PROVE  LET new == queue_entry_new(l, e, d)
         IN /\ new \in Lists /\ new.head = l.head /\ new.tail = l.tail
            /\ new.entries = l.entries + 1
            /\ new.mem[e] = [data |-> {d}, next |-> 0, refs |-> 1]
            /\ \A x \in Entries \ {e} : new.mem[x] = l.mem[x]
<1> DEFINE new == queue_entry_new(l, e, d)
           entry == [data |-> {d}, next |-> 0, refs |-> 1]
<1>1. entry \in Entry
  BY DEF Entry, Links
<1>2. new = [l EXCEPT !.mem[e] = entry, !.entries = @ + 1]
  BY Zenon DEF queue_entry_new
<1> HIDE DEF new, entry
<1>3. l.mem \in [Entries -> Entry]
  BY DEF Lists
<1>4. /\ new \in Lists /\ new.head = l.head /\ new.tail = l.tail /\ new.entries = l.entries + 1
      /\ new.mem = [l.mem EXCEPT ![e] = entry]
  <2> DEFINE mem == [l.mem EXCEPT ![e] = entry]
  <2>1. new = [l EXCEPT !.mem = mem, !.entries = @ + 1]
    BY <1>2
  <2>2. mem \in [Entries -> Entry]
    BY <1>1, <1>3
  <2> HIDE DEF mem
  <2>t. l.head \in Links /\ l.tail \in Links /\ l.entries \in Int
    BY DEF Lists
  <2>3. new = [head |-> l.head, tail |-> l.tail, entries |-> l.entries + 1, mem |-> mem]
    BY <2>1 DEF Lists
  <2>4. new \in Lists /\ new.head = l.head /\ new.tail = l.tail /\ new.entries = l.entries + 1
        /\ new.mem = mem
    BY <2>2, <2>3, <2>t DEF Lists
  <2> QED BY <2>4 DEF mem
<1>5. new.mem[e] = entry /\ \A x \in Entries \ {e} : new.mem[x] = l.mem[x]
  BY <1>3, <1>4
<1> QED BY <1>4, <1>5, Zenon DEF new, entry

LEMMA LinkSet ==
  ASSUME NEW d, NEW v
  PROVE  [[data |-> {d}, next |-> 0, refs |-> 1] EXCEPT !.next = v]
           = [data |-> {d}, next |-> v, refs |-> 1]
OBVIOUS

LEMMA PushTailIs ==
  ASSUME NEW l, NEW s, Shape(l, s), NEW e \in Entries, e \notin In(s), NEW d \in Data
  PROVE  Linked(l, s, queue_push_tail(l, e, d), e, d, Len(s) + 1)
<1> DEFINE new == queue_entry_new(l, e, d)
           m == queue_push_tail(l, e, d)
           n == Len(s)
<1>0. /\ l \in Lists /\ s \in Seq(Entries) /\ DOMAIN s = 1..n
      /\ \A i \in 1..n : s[i] \in Entries /\ s[i] \in In(s) /\ s[i] # 0
  BY LenProperties, ElementOfSeq DEF Shape, Path, In, Entries
<1>n. n \in Nat /\ (n + 1) - 1 = n /\ At(s, n + 1) = 0
  BY <1>0, LenProperties DEF At
<1>1. /\ new \in Lists /\ new.head = l.head /\ new.tail = l.tail
      /\ new.entries = l.entries + 1
      /\ new.mem[e] = [data |-> {d}, next |-> 0, refs |-> 1]
      /\ \A x \in Entries \ {e} : new.mem[x] = l.mem[x]
  BY <1>0, NewEntryIs
<1>2. m = IF l.tail = 0 THEN [new EXCEPT !.head = e, !.tail = e]
          ELSE [new EXCEPT !.mem[l.tail].next = e, !.tail = e]
  BY Zenon DEF queue_push_tail
<1> HIDE DEF new, m
<1>3. e \in Links
  BY DEF Entries, Links
<1>4. CASE n = 0
  <2>1. l.tail = 0
    BY <1>4 DEF Shape, At
  <2>2. m \in Lists /\ m.head = e /\ m.tail = e /\ m.entries = new.entries /\ m.mem = new.mem
    BY <1>1, <1>2, <1>3, <2>1 DEF Lists
  <2>3. \A i \in 1..n : FALSE
    BY <1>4
  <2>4. ~(n + 1 > 1)
    BY <1>4
  <2>5. n + 1 = 1
    BY <1>4
  <2> QED BY <1>1, <1>n, <2>2, <2>3, <2>4, <2>5, Zenon DEF Linked, m
<1>5. CASE n # 0
  <2> DEFINE p == s[n]
  <2>1. n \in 1..n /\ n + 1 # 1 /\ n + 1 > 1
    BY <1>n, <1>5
  <2>2. l.tail = p /\ p # 0 /\ p \in Entries /\ p # e
    BY <1>0, <2>1 DEF Shape, At
  <2>3. new.mem \in [Entries -> Entry]
    BY <1>1 DEF Lists
  <2> HIDE DEF p
  <2>4. m = [new EXCEPT !.mem[p].next = e, !.tail = e]
    BY <1>2, <2>2
  <2>5. /\ m \in Lists /\ m.head = l.head /\ m.tail = e /\ m.entries = l.entries + 1
        /\ m.mem = [new.mem EXCEPT ![p] = [new.mem[p] EXCEPT !.next = e]]
    <3>1. m = [new EXCEPT !.mem = [new.mem EXCEPT ![p] = [new.mem[p] EXCEPT !.next = e]], !.tail = e]
      BY <2>4
    <3>2. [new.mem EXCEPT ![p] = [new.mem[p] EXCEPT !.next = e]] \in [Entries -> Entry]
      BY <1>3, <2>2, <2>3 DEF Entry
    <3> QED BY <1>1, <1>3, <3>1, <3>2 DEF Lists
  <2>6. m.mem[p] = [l.mem[p] EXCEPT !.next = e] /\ m.mem[e] = new.mem[e]
    BY <1>1, <2>2, <2>3, <2>5
  <2>7. \A x \in Entries \ {e} : x # p => m.mem[x] = l.mem[x]
    BY <1>1, <2>3, <2>5
  <2>8. \A i \in 1..n : i = (n + 1) - 1 => s[i] = p
    BY <1>n DEF p
  <2>9. s[(n + 1) - 1] = p
    BY <1>n DEF p
  <2> QED BY <1>1, <1>n, <2>1, <2>5, <2>6, <2>7, <2>8, <2>9, Zenon DEF Linked, m
<1> QED BY <1>4, <1>5

LEMMA PushHeadIs ==
  ASSUME NEW l, NEW s, Shape(l, s), NEW e \in Entries, e \notin In(s), NEW d \in Data
  PROVE  Linked(l, s, queue_push_head(l, e, d), e, d, 1)
<1> DEFINE new == queue_entry_new(l, e, d)
           m == queue_push_head(l, e, d)
           n == Len(s)
<1>0. /\ l \in Lists /\ s \in Seq(Entries) /\ n \in Nat /\ DOMAIN s = 1..n
      /\ \A i \in 1..n : s[i] \in Entries /\ s[i] # 0
  BY LenProperties, ElementOfSeq DEF Shape, Path, Entries
<1>1. /\ new \in Lists /\ new.head = l.head /\ new.tail = l.tail
      /\ new.entries = l.entries + 1
      /\ new.mem[e] = [data |-> {d}, next |-> 0, refs |-> 1]
      /\ \A x \in Entries \ {e} : new.mem[x] = l.mem[x]
  BY <1>0, NewEntryIs
<1> DEFINE last == IF l.tail = 0 THEN e ELSE l.tail
<1>2. m = [new EXCEPT !.mem[e].next = l.head, !.head = e, !.tail = last]
  BY Zenon DEF queue_push_head
<1>3. e \in Links /\ last \in Links /\ l.head \in Links /\ l.head = At(s, 1)
      /\ new.mem \in [Entries -> Entry]
  BY <1>0, <1>1 DEF Entries, Links, Lists, Shape, Path
<1>4. last = (IF 1 = n + 1 THEN e ELSE l.tail)
  BY <1>0 DEF Shape, At
<1> HIDE DEF new, m, last
<1>5. /\ m \in Lists /\ m.head = e /\ m.tail = last /\ m.entries = l.entries + 1
      /\ m.mem = [new.mem EXCEPT ![e] = [new.mem[e] EXCEPT !.next = l.head]]
  BY <1>1, <1>2, <1>3 DEF Lists, Entry
<1>6. m.mem[e] = [data |-> {d}, next |-> At(s, 1), refs |-> 1]
  <2>1. m.mem[e] = [new.mem[e] EXCEPT !.next = l.head]
    BY <1>3, <1>5
  <2>2. [[data |-> {d}, next |-> 0, refs |-> 1] EXCEPT !.next = l.head]
          = [data |-> {d}, next |-> l.head, refs |-> 1]
    BY LinkSet, Zenon
  <2> QED BY <1>1, <1>3, <2>1, <2>2, Zenon
<1>7. \A x \in Entries \ {e} : m.mem[x] = l.mem[x]
  BY <1>1, <1>3, <1>5
<1>8. \A i \in 1..n : i # 1 - 1
  OBVIOUS
<1> QED BY <1>4, <1>5, <1>6, <1>7, <1>8, Zenon DEF Linked, m

LEMMA PushAfterIs ==
  ASSUME NEW l, NEW s, Shape(l, s), NEW e \in Entries, e \notin In(s), NEW d \in Data,
         NEW j \in 1..Len(s)
  PROVE  Linked(l, s, queue_push_after(l, e, s[j], d), e, d, j + 1)
<1> DEFINE new == queue_entry_new(l, e, d)
           old == s[j]
           m == queue_push_after(l, e, old, d)
           n == Len(s)
           next == l.mem[old].next
<1>0. /\ l \in Lists /\ s \in Seq(Entries) /\ DOMAIN s = 1..n
      /\ \A i \in 1..n : s[i] \in Entries /\ s[i] \in In(s)
  BY LenProperties, ElementOfSeq DEF Shape, Path, In
<1>n. n \in Nat /\ (j + 1) - 1 = j
  BY <1>0, LenProperties
<1>1. /\ new \in Lists /\ new.head = l.head /\ new.tail = l.tail
      /\ new.entries = l.entries + 1
      /\ new.mem[e] = [data |-> {d}, next |-> 0, refs |-> 1]
      /\ \A x \in Entries \ {e} : new.mem[x] = l.mem[x]
  BY <1>0, NewEntryIs
<1>2. old \in Entries /\ old # e /\ l.mem[old] \in Entry
  BY <1>0 DEF Lists
<1>3. next = At(s, j + 1) /\ next \in Links
  BY <1>2 DEF Shape, Path, Entry
<1>4. next = 0 <=> j + 1 = n + 1
  <2>1. CASE j = n
    BY <1>3, <1>n, <2>1 DEF At
  <2>2. CASE j # n
    <3>1. j + 1 \in 1..n
      BY <1>n, <2>2
    <3>2. next = s[j + 1] /\ next \in Entries
      BY <1>0, <1>3, <3>1 DEF At
    <3> QED BY <1>n, <2>2, <3>2 DEF Entries
  <2> QED BY <2>1, <2>2
<1> DEFINE last == IF next = 0 THEN e ELSE l.tail
<1>5. m = [new EXCEPT !.mem[e].next = next, !.mem[old].next = e, !.tail = last]
  BY Zenon DEF queue_push_after
<1>6. e \in Links /\ last \in Links /\ new.mem \in [Entries -> Entry]
  BY <1>0, <1>1 DEF Entries, Links, Lists
<1>7. last = (IF j + 1 = n + 1 THEN e ELSE l.tail)
  BY <1>4
<1>8. s[(j + 1) - 1] = old /\ \A i \in 1..n : i = (j + 1) - 1 => s[i] = old
  BY <1>n
<1> HIDE DEF new, m, last, old, next
<1>9. /\ m \in Lists /\ m.head = l.head /\ m.tail = last /\ m.entries = l.entries + 1
      /\ m.mem = [new.mem EXCEPT ![e] = [new.mem[e] EXCEPT !.next = next],
                                 ![old] = [new.mem[old] EXCEPT !.next = e]]
  BY <1>1, <1>2, <1>3, <1>5, <1>6 DEF Lists, Entry
<1>10. m.mem[e] = [data |-> {d}, next |-> At(s, j + 1), refs |-> 1]
  <2>1. m.mem[e] = [new.mem[e] EXCEPT !.next = next]
    BY <1>2, <1>6, <1>9
  <2>2. [[data |-> {d}, next |-> 0, refs |-> 1] EXCEPT !.next = next]
          = [data |-> {d}, next |-> next, refs |-> 1]
    BY LinkSet, Zenon
  <2> QED BY <1>1, <1>3, <2>1, <2>2, Zenon
<1>11. m.mem[old] = [l.mem[old] EXCEPT !.next = e]
  BY <1>1, <1>2, <1>6, <1>9
<1>12. \A x \in Entries \ {e} : x # old => m.mem[x] = l.mem[x]
  BY <1>1, <1>2, <1>6, <1>9
<1>13. j + 1 > 1 /\ j + 1 # 1
  OBVIOUS
<1> QED BY <1>7, <1>8, <1>9, <1>10, <1>11, <1>12, <1>13, Zenon DEF Linked, m, old

---------------------------------------------------------------------------
(* The inductive invariant.                                                *)

\* An entry that is in use has its own element.
Named(l, s, held) ==
  /\ \A e \in Entries : e \in In(s) \/ e = held => \E d \in Data : l.mem[e].data = {d}
  /\ \A e, f \in Entries :
       (e \in In(s) \/ e = held) /\ (f \in In(s) \/ f = held) /\ l.mem[e].data = l.mem[f].data =>
         e = f
\* Where a walk goes on to: the list, unless that is empty, since it ends then.
Leads(l, s, held) == held \notin In(s) \cup {0} /\ s # <<>> => l.mem[held].next \in In(s) \cup {0}

ListBase(l, s, held) == Shape(l, s) /\ Counted(l, s, held) /\ Named(l, s, held)
ListInv(l, s, held) == Shape(l, s) /\ Counted(l, s, held) /\ Named(l, s, held) /\ Leads(l, s, held)

\* Whatever the callbacks did, and what holds too if they minded the link.
Base(s) ==
  /\ ListBase(q, s, at)
  /\ at \in Links /\ owned \in BOOLEAN /\ freed = FALSE
  /\ refs = (IF owned THEN 1 ELSE 0) + (IF at # 0 THEN 1 ELSE 0)
  /\ ~owned => s = <<>>
Inv(s) ==
  /\ ListInv(q, s, at)
  /\ at \in Links /\ owned \in BOOLEAN /\ freed = FALSE
  /\ refs = (IF owned THEN 1 ELSE 0) + (IF at # 0 THEN 1 ELSE 0)
  /\ ~owned => s = <<>>
IInv ==
  \/ heedful = TRUE /\ \E s : Inv(s)
  \/ heedful = FALSE /\ \E s : Base(s)
  \/ heedful = FALSE /\ freed = TRUE

LEMMA ShapeIs ==
  ASSUME NEW l, NEW s, Shape(l, s)
  PROVE  /\ l \in Lists /\ s \in Seq(Entries) /\ Len(s) \in Nat /\ DOMAIN s = 1..Len(s)
         /\ \A i \in 1..Len(s) : /\ s[i] \in Entries /\ s[i] \in In(s) /\ s[i] # 0
                                 /\ l.mem[s[i]].next = At(s, i + 1)
         /\ In(s) \subseteq Entries /\ 0 \notin In(s)
         /\ \A e \in In(s) : \E i \in 1..Len(s) : e = s[i]
         /\ l.head = 0 <=> s = <<>>
         /\ s # <<>> => Len(s) > 0 /\ l.head = s[1]
<1>1. /\ l \in Lists /\ s \in Seq(Entries) /\ Len(s) \in Nat /\ DOMAIN s = 1..Len(s)
      /\ \A i \in 1..Len(s) : s[i] \in Entries
  BY LenProperties, ElementOfSeq DEF Shape, Path
<1>2. \A e \in In(s) : \E i \in 1..Len(s) : e = s[i]
  BY <1>1 DEF In
<1>3. \A i \in 1..Len(s) : s[i] \in In(s)
  BY <1>1 DEF In
<1>4. 0 \notin Entries
  BY DEF Entries
<1>5. s # <<>> => Len(s) > 0
  BY <1>1, EmptySeq
<1>6. s = <<>> => l.head = 0
  BY DEF Shape, Path, At
<1>7. s # <<>> => l.head = s[1] /\ 1 \in 1..Len(s)
  BY <1>1, <1>5 DEF Shape, Path, At
<1>8. \A i \in 1..Len(s) : l.mem[s[i]].next = At(s, i + 1)
  BY DEF Shape, Path
<1> QED BY <1>1, <1>2, <1>3, <1>4, <1>5, <1>6, <1>7, <1>8

LEMMA AtIs ==
  ASSUME NEW l, NEW s, Shape(l, s), NEW i \in Nat
  PROVE  At(s, i) \in In(s) \cup {0}
BY ShapeIs DEF At

LEMMA RemovalKeepsBase ==
  ASSUME NEW l, NEW s, NEW held, held \in Links, ListBase(l, s, held),
         NEW m, NEW t, NEW gone, Removed(l, s, m, t, gone, held)
  PROVE  ListBase(m, t, held)
<1>1. /\ Shape(m, t) /\ Counted(m, t, held) /\ In(t) = In(s) \ gone
      /\ \A e \in In(t) : m.mem[e].data = l.mem[e].data
      /\ held # 0 => m.mem[held].data = l.mem[held].data
  BY Zenon DEF Removed
<1>2. \A e \in Entries : e \in In(t) \/ e = held =>
        m.mem[e].data = l.mem[e].data /\ (e \in In(s) \/ e = held)
  BY <1>1 DEF Entries
<1>3. Named(m, t, held)
  BY <1>2 DEF Named, ListBase
<1> QED BY <1>1, <1>3 DEF ListBase

LEMMA RemovalKeeps ==
  ASSUME NEW l, NEW s, NEW held, held \in Links, ListInv(l, s, held),
         NEW m, NEW t, NEW gone, Removed(l, s, m, t, gone, held),
         held \notin (In(s) \ gone) \cup {0} /\ ~(In(s) \subseteq gone) =>
           l.mem[held].next \notin gone
  PROVE  ListInv(m, t, held)
<1>1. Shape(l, s) /\ Named(l, s, held) /\ Leads(l, s, held)
  BY DEF ListInv
<1>2. /\ Shape(m, t) /\ Counted(m, t, held) /\ In(t) = In(s) \ gone
      /\ held # 0 /\ l.mem[held].next \notin gone => m.mem[held].next = l.mem[held].next
  BY Zenon DEF Removed
<1>3. ListBase(l, s, held)
  BY <1>1 DEF ListBase, ListInv
<1>4. Named(m, t, held)
  BY <1>3, RemovalKeepsBase DEF ListBase
<1>5. ASSUME held \notin In(t) \cup {0}, t # <<>> PROVE m.mem[held].next \in In(t) \cup {0}
  <2>1. In(t) # {}
    <3>1. t[1] \in In(t)
      BY <1>2, <1>5, ShapeIs
    <3> QED BY <3>1
  <2>2. ~(In(s) \subseteq gone) /\ s # <<>>
    <3>1. In(<<>>) = {}
      BY DEF In
    <3> QED BY <1>2, <2>1, <3>1
  <2>3. l.mem[held].next \notin gone
    BY <1>2, <1>5, <2>2
  <2>4. m.mem[held].next = l.mem[held].next
    BY <1>2, <1>5, <2>3
  <2>5. l.mem[held].next \in In(s) \cup {0}
    <3>1. CASE held \in In(s)
      <4>1. PICK i \in 1..Len(s) : held = s[i]
        BY <1>1, <3>1, ShapeIs
      <4>2. l.mem[held].next = At(s, i + 1)
        BY <1>1, <4>1, ShapeIs
      <4>3. i + 1 \in Nat
        BY <1>1, ShapeIs
      <4> QED BY <1>1, <4>2, <4>3, AtIs
    <3>2. CASE held \notin In(s)
      BY <1>1, <1>5, <2>2, <3>2 DEF Leads
    <3> QED BY <3>1, <3>2
  <2> QED BY <1>2, <2>3, <2>4, <2>5
<1> QED BY <1>2, <1>4, <1>5 DEF ListInv, Leads

LEMMA PushKeepsBase ==
  ASSUME NEW l, NEW s, NEW held, held \in Links, ListBase(l, s, held),
         NEW d \in Data, \A x \in Entries : l.mem[x].data # {d},
         NEW e \in Entries, l.mem[e].refs = 0, NEW k \in 1..(Len(s) + 1),
         NEW m, Linked(l, s, m, e, d, k)
  PROVE  Pushed(l, s, m, e, d, k, held) /\ ListBase(m, Put(s, k, e), held)
<1> DEFINE t == Put(s, k, e)
<1>1. Shape(l, s) /\ Counted(l, s, held) /\ Named(l, s, held)
  BY DEF ListBase
<1>2. Pushed(l, s, m, e, d, k, held)
  BY <1>1, LinkedIsPushed
<1>3. In(t) = In(s) \cup {e}
  BY <1>1, ShapeIs, PutIs
<1> HIDE DEF t
<1>4. e \notin In(s) /\ e # held
  BY <1>1 DEF Counted
<1>5. /\ m.mem[e].data = {d}
      /\ \A x \in Entries \ {e} : m.mem[x].data = l.mem[x].data
  BY <1>2, Zenon DEF Pushed
<1>6. Named(m, t, held)
  <2>1. ASSUME NEW x \in Entries, x \in In(t) \/ x = held
        PROVE  \E c \in Data : m.mem[x].data = {c}
    <3>1. CASE x = e
      BY <1>5, <3>1
    <3>2. CASE x # e
      BY <1>1, <1>3, <1>5, <2>1, <3>2 DEF Named
    <3> QED BY <3>1, <3>2
  <2>2. ASSUME NEW x \in Entries, NEW y \in Entries, x \in In(t) \/ x = held,
               y \in In(t) \/ y = held, m.mem[x].data = m.mem[y].data
        PROVE  x = y
    <3>1. CASE x = e \/ y = e
      BY <1>5, <2>2, <3>1
    <3>2. CASE x # e /\ y # e
      BY <1>1, <1>3, <1>5, <2>2, <3>2 DEF Named
    <3> QED BY <3>1, <3>2
  <2> QED BY <2>1, <2>2, Zenon DEF Named
<1>7. Shape(m, t) /\ Counted(m, t, held)
  BY <1>2, Zenon DEF Pushed, t
<1> QED BY <1>2, <1>6, <1>7, Zenon DEF ListBase, t

LEMMA PushKeeps ==
  ASSUME NEW l, NEW s, NEW held, held \in Links, ListInv(l, s, held),
         held \notin In(s) \cup {0} => l.mem[held].next \in In(s),
         NEW d \in Data, \A x \in Entries : l.mem[x].data # {d},
         NEW e \in Entries, l.mem[e].refs = 0, NEW k \in 1..(Len(s) + 1),
         NEW m, Linked(l, s, m, e, d, k)
  PROVE  Pushed(l, s, m, e, d, k, held) /\ ListInv(m, Put(s, k, e), held)
<1> DEFINE t == Put(s, k, e)
<1>1. ListBase(l, s, held) /\ Shape(l, s) /\ Counted(l, s, held)
  BY DEF ListInv, ListBase
<1>2. Pushed(l, s, m, e, d, k, held) /\ ListBase(m, t, held)
  BY <1>1, PushKeepsBase, Zenon
<1>3. In(t) = In(s) \cup {e}
  BY <1>1, ShapeIs, PutIs
<1> HIDE DEF t
<1>4. \A x \in Entries \ {e} : x \notin In(s) => m.mem[x].next = l.mem[x].next
  BY <1>2, Zenon DEF Pushed
<1>5. Leads(m, t, held)
  <2> SUFFICES ASSUME held \notin In(t) \cup {0} PROVE m.mem[held].next \in In(t)
    BY DEF Leads
  <2>1. held \in Entries \ {e} /\ held \notin In(s)
    BY <1>1, <1>3 DEF Links, Entries
  <2>2. l.mem[held].next \in In(s)
    BY <2>1
  <2> QED BY <1>3, <1>4, <2>1, <2>2
<1> QED BY <1>2, <1>5, Zenon DEF ListInv, ListBase, t

LEMMA SameShape ==
  ASSUME NEW l, NEW s, Shape(l, s), NEW m, m \in Lists,
         m.head = l.head, m.tail = l.tail, m.entries = l.entries,
         \A x \in In(s) : m.mem[x].next = l.mem[x].next
  PROVE  Shape(m, s)
<1>1. \A i \in 1..Len(s) : m.mem[s[i]].next = At(s, i + 1)
  <2>1. \A i \in 1..Len(s) : s[i] \in In(s) /\ l.mem[s[i]].next = At(s, i + 1)
    BY ShapeIs
  <2> QED BY <2>1
<1> QED BY <1>1 DEF Shape, Path

\* The entries of s have the same elements and links in m as in l.
SameOf(m, l, s) == \A x \in In(s) : m.mem[x].data = l.mem[x].data /\ m.mem[x].next = l.mem[x].next

LEMMA HoldKeeps ==
  ASSUME NEW l, NEW s, ListInv(l, s, 0), NEW e, e \in In(s)
  PROVE  /\ l.mem[e].refs = 1
         /\ ListInv(queue_entry_ref(l, e), s, e)
         /\ SameOf(queue_entry_ref(l, e), l, s)
<1> DEFINE m == queue_entry_ref(l, e)
<1>1. Shape(l, s) /\ Counted(l, s, 0) /\ Named(l, s, 0)
  BY DEF ListInv
<1>2. l \in Lists /\ l.mem \in [Entries -> Entry] /\ e \in Entries /\ e # 0
  BY <1>1, ShapeIs DEF Lists
<1>3. l.mem[e].refs = 1
  BY <1>1, <1>2 DEF Counted
<1> DEFINE mem == [l.mem EXCEPT ![e] = [l.mem[e] EXCEPT !.refs = @ + 1]]
<1>4. m = [l EXCEPT !.mem = mem]
  BY <1>2 DEF queue_entry_ref, Lists
<1>5. mem \in [Entries -> Entry]
  BY <1>2 DEF Entry
<1>6. \A x \in Entries : /\ mem[x].data = l.mem[x].data /\ mem[x].next = l.mem[x].next
                         /\ mem[x].refs = l.mem[x].refs + (IF x = e THEN 1 ELSE 0)
  BY <1>2 DEF Entry
<1> HIDE DEF m, mem
<1>7. m \in Lists /\ m.head = l.head /\ m.tail = l.tail /\ m.entries = l.entries /\ m.mem = mem
  BY <1>2, <1>4, <1>5 DEF Lists
<1>8. Shape(m, s)
  BY <1>1, <1>6, <1>7, ShapeIs, SameShape
<1>9. Counted(m, s, e)
  <2> SUFFICES ASSUME NEW x \in Entries
               PROVE  m.mem[x].refs = (IF x \in In(s) THEN 1 ELSE 0) + (IF x = e THEN 1 ELSE 0)
    BY DEF Counted
  <2>1. x # 0
    BY DEF Entries
  <2>2. l.mem[x].refs = (IF x \in In(s) THEN 1 ELSE 0)
    BY <1>1, <2>1 DEF Counted
  <2> QED BY <1>6, <1>7, <2>2
<1>10. Named(m, s, e)
  BY <1>1, <1>6, <1>7 DEF Named
<1>11. Leads(m, s, e)
  BY DEF Leads
<1>12. SameOf(m, l, s)
  <2>1. In(s) \subseteq Entries
    BY <1>1, ShapeIs
  <2> QED BY <1>6, <1>7, <2>1 DEF SameOf
<1> QED BY <1>3, <1>8, <1>9, <1>10, <1>11, <1>12, Zenon DEF ListInv, m

LEMMA ReleaseKeeps ==
  ASSUME NEW l, NEW s, NEW held, held \in Links, held # 0, ListBase(l, s, held)
  PROVE  /\ l.mem[held].refs # 0
         /\ ListInv(queue_entry_unref(l, held), s, 0)
         /\ SameOf(queue_entry_unref(l, held), l, s)
<1> DEFINE m == queue_entry_unref(l, held)
<1>1. Shape(l, s) /\ Counted(l, s, held) /\ Named(l, s, held)
  BY DEF ListBase
<1>2. l \in Lists /\ l.mem \in [Entries -> Entry] /\ held \in Entries /\ l.mem[held] \in Entry
      /\ In(s) \subseteq Entries
  BY <1>1, ShapeIs DEF Lists, Links, Entries
<1>3. l.mem[held].refs = (IF held \in In(s) THEN 2 ELSE 1)
  BY <1>1, <1>2 DEF Counted
<1> DEFINE mem == [l.mem EXCEPT ![held] = Released(l.mem[held])]
<1>4. m = [l EXCEPT !.mem = mem]
  BY <1>2 DEF queue_entry_unref, Lists
<1>5. mem \in [Entries -> Entry]
  BY <1>2, ReleasedIs
<1>6. /\ mem[held].refs = l.mem[held].refs - 1
      /\ held \in In(s) => mem[held].data = l.mem[held].data /\ mem[held].next = l.mem[held].next
      /\ \A x \in Entries : x # held => mem[x] = l.mem[x]
  <2>1. mem[held] = Released(l.mem[held]) /\ \A x \in Entries : x # held => mem[x] = l.mem[x]
    BY <1>2
  <2> HIDE DEF mem
  <2>2. Released(l.mem[held]).refs = l.mem[held].refs - 1
    BY <1>2, <1>3, ReleasedIs
  <2>3. held \in In(s) => /\ Released(l.mem[held]).data = l.mem[held].data
                          /\ Released(l.mem[held]).next = l.mem[held].next
    BY <1>2, <1>3, ReleasedIs
  <2> QED BY <2>1, <2>2, <2>3
<1> HIDE DEF m, mem
<1>7. m \in Lists /\ m.head = l.head /\ m.tail = l.tail /\ m.entries = l.entries /\ m.mem = mem
  BY <1>2, <1>4, <1>5 DEF Lists
<1>8. \A x \in In(s) : m.mem[x].data = l.mem[x].data /\ m.mem[x].next = l.mem[x].next
  BY <1>2, <1>6, <1>7
<1>9. Shape(m, s)
  BY <1>1, <1>7, <1>8, SameShape
<1>10. Counted(m, s, 0)
  <2> SUFFICES ASSUME NEW x \in Entries
               PROVE  m.mem[x].refs = (IF x \in In(s) THEN 1 ELSE 0) + (IF x = 0 THEN 1 ELSE 0)
    BY DEF Counted
  <2>1. x # 0
    BY DEF Entries
  <2>2. CASE x = held
    BY <1>3, <1>6, <1>7, <2>1, <2>2
  <2>3. CASE x # held
    BY <1>1, <1>6, <1>7, <2>1, <2>3 DEF Counted
  <2> QED BY <2>2, <2>3
<1>11. Named(m, s, 0)
  <2>1. 0 \notin Entries
    BY DEF Entries
  <2> QED BY <1>1, <1>8, <2>1 DEF Named
<1>12. Leads(m, s, 0)
  BY DEF Leads
<1>13. l.mem[held].refs # 0
  BY <1>3
<1>14. SameOf(m, l, s)
  BY <1>8 DEF SameOf
<1> QED BY <1>9, <1>10, <1>11, <1>12, <1>13, <1>14, Zenon DEF ListInv, m

---------------------------------------------------------------------------
(* Every step keeps the invariant.  What a step makes of the list is said  *)
(* of the states themselves, for the refinement to use.                    *)

\* What a push does: an entry for d, at place k.
PushOf(s, e, d, k) ==
  /\ e \in Entries /\ q.mem[e].refs = 0 /\ k \in 1..(Len(s) + 1)
  /\ Linked(q, s, q', e, d, k)
  /\ Pushed(q, s, q', e, d, k, at) /\ ListInv(q', Put(s, k, e), at)

\* Where a push links its entry in.
LinkOf(s, e, d, k) ==
  /\ e \in Entries /\ q.mem[e].refs = 0 /\ k \in 1..(Len(s) + 1)
  /\ Linked(q, s, q', e, d, k)

LEMMA PushLinks ==
  ASSUME NEW s, ListBase(q, s, at), NEW d \in Data, Push(d)
  PROVE  \E e : \/ LinkOf(s, e, d, Len(s) + 1)
                \/ LinkOf(s, e, d, 1)
                \/ \E j \in 1..Len(s) : LinkOf(s, e, d, j + 1)
<1>1. Shape(q, s) /\ Counted(q, s, at)
  BY DEF ListBase
<1>2. Listed(q) = In(s)
  BY <1>1, ListIs
<1>5. PICK e \in New(q) :
        \/ q' = queue_push_tail(q, e, d)
        \/ q' = queue_push_head(q, e, d)
        \/ \E old \in Listed(q) : q' = queue_push_after(q, e, old, d)
  BY Zenon DEF Push
<1>6. e \in Entries /\ q.mem[e].refs = 0
  BY DEF New
<1>7. e \notin In(s)
  BY <1>1, <1>6 DEF Counted
<1>9. CASE q' = queue_push_tail(q, e, d)
  <2>1. Linked(q, s, q', e, d, Len(s) + 1)
    BY <1>1, <1>6, <1>7, <1>9, PushTailIs
  <2>2. Len(s) + 1 \in 1..(Len(s) + 1)
    BY <1>1, ShapeIs
  <2> QED BY <1>6, <2>1, <2>2, Zenon DEF LinkOf
<1>10. CASE q' = queue_push_head(q, e, d)
  <2>1. Linked(q, s, q', e, d, 1)
    BY <1>1, <1>6, <1>7, <1>10, PushHeadIs
  <2>2. 1 \in 1..(Len(s) + 1)
    BY <1>1, ShapeIs
  <2> QED BY <1>6, <2>1, <2>2, Zenon DEF LinkOf
<1>11. CASE \E old \in Listed(q) : q' = queue_push_after(q, e, old, d)
  <2>1. PICK old \in In(s) : q' = queue_push_after(q, e, old, d)
    BY <1>2, <1>11
  <2>2. PICK j \in 1..Len(s) : old = s[j]
    BY <1>1, ShapeIs
  <2>3. Linked(q, s, q', e, d, j + 1)
    BY <1>1, <1>6, <1>7, <2>1, <2>2, PushAfterIs
  <2>4. j + 1 \in 1..(Len(s) + 1)
    BY <1>1, ShapeIs
  <2> QED BY <1>6, <2>3, <2>4, Zenon DEF LinkOf
<1> QED BY <1>5, <1>9, <1>10, <1>11

LEMMA PushStep ==
  ASSUME NEW s, Inv(s), NEW d \in Data, Push(d), heedful'
  PROVE  /\ \A x \in Entries : q.mem[x].data # {d}
         /\ at \notin In(s) \cup {0} => q.mem[at].next \in In(s)
         /\ \E e : \/ PushOf(s, e, d, Len(s) + 1)
                   \/ PushOf(s, e, d, 1)
                   \/ \E j \in 1..Len(s) : PushOf(s, e, d, j + 1)
<1>1. ListInv(q, s, at) /\ ListBase(q, s, at) /\ Shape(q, s) /\ at \in Links
  BY DEF Inv, ListInv, ListBase
<1>2. Listed(q) = In(s)
  BY <1>1, ListIs
<1>3. at \notin In(s) \cup {0} => q.mem[at].next \in In(s)
  <2>1. MindsPush
    BY Zenon DEF Push, Minding
  <2> QED BY <1>2, <2>1 DEF MindsPush
<1>4. \A x \in Entries : q.mem[x].data # {d}
  BY DEF Push, Fresh
<1>5. ASSUME NEW e, NEW k, LinkOf(s, e, d, k)
      PROVE  PushOf(s, e, d, k)
  <2>1. /\ e \in Entries /\ q.mem[e].refs = 0 /\ k \in 1..(Len(s) + 1)
        /\ Linked(q, s, q', e, d, k)
    BY <1>5, Zenon DEF LinkOf
  <2>2. Pushed(q, s, q', e, d, k, at) /\ ListInv(q', Put(s, k, e), at)
    BY <1>1, <1>3, <1>4, <2>1, PushKeeps
  <2> QED BY <2>1, <2>2, Zenon DEF PushOf
<1>6. PICK e : \/ LinkOf(s, e, d, Len(s) + 1)
               \/ LinkOf(s, e, d, 1)
               \/ \E j \in 1..Len(s) : LinkOf(s, e, d, j + 1)
  BY <1>1, PushLinks, Zenon
<1> QED BY <1>3, <1>4, <1>5, <1>6, Zenon

\* What a removal does: the list is t, and no link leads from it to what is gone.
RemovalOf(s, t) ==
  /\ ListInv(q', t, at) /\ at' = at
  /\ \E gone : /\ Removed(q, s, q', t, gone, at)
               /\ at \notin In(t) \cup {0} /\ t # <<>> => q.mem[at].next \notin gone

LEMMA RemovalStep ==
  ASSUME NEW s, Inv(s), NEW t, NEW gone, Removed(q, s, q', t, gone, at), at' = at,
         MindsRemoval(gone) \/ gone = In(s)
  PROVE  RemovalOf(s, t)
<1>1. ListInv(q, s, at) /\ Shape(q, s) /\ at \in Links
  BY DEF Inv, ListInv
<1>2. Listed(q) = In(s)
  BY <1>1, ListIs
<1>3. at \notin (In(s) \ gone) \cup {0} /\ ~(In(s) \subseteq gone) => q.mem[at].next \notin gone
  BY <1>2 DEF MindsRemoval
<1>4. ListInv(q', t, at)
  BY <1>1, <1>3, RemovalKeeps
<1>5. In(t) = In(s) \ gone /\ Shape(q', t)
  BY DEF Removed
<1>6. t # <<>> => ~(In(s) \subseteq gone)
  <2>1. t # <<>> => 1 \in 1..Len(t)
    BY <1>5, ShapeIs
  <2>2. t # <<>> => t[1] \in In(t)
    BY <1>5, <2>1, ShapeIs
  <2> QED BY <1>5, <2>2
<1> QED BY <1>3, <1>4, <1>5, <1>6 DEF RemovalOf

Removing == queue_pop_head \/ (\E d \in Data : queue_remove(d)) \/ queue_remove_all

\* The list is t, without what is gone; the link was minded or the walk is not heedful.
TakingOf(s, t, gone) ==
  /\ Removed(q, s, q', t, gone, at) /\ at' = at
  /\ \/ gone = In(s) /\ UNCHANGED heedful
     \/ Minding(MindsRemoval(gone))

LEMMA RemovingTakes ==
  ASSUME NEW s, ListBase(q, s, at), at \in Links, Removing
  PROVE  \E t, gone : TakingOf(s, t, gone)
<1>1. Shape(q, s) /\ Counted(q, s, at) /\ at \in Links
  BY DEF ListBase
<1>2. Listed(q) = In(s)
  BY <1>1, ListIs
<1>3. ASSUME NEW e \in In(s), Minding(MindsRemoval({e})), q' = Unlink(q, e), at' = at
      PROVE  \E t, gone : TakingOf(s, t, gone)
  <2>1. PICK k \in 1..Len(s) : e = s[k]
    BY <1>1, ShapeIs
  <2>2. Removed(q, s, q', Without(s, k), {e}, at)
    BY <1>1, <1>3, <2>1, UnlinkIs
  <2> QED BY <1>3, <2>2, Zenon DEF TakingOf
<1>4. CASE queue_pop_head
  <2>1. q.head \in In(s)
    <3>1. q.head # 0 /\ s # <<>> /\ 1 \in 1..Len(s)
      BY <1>1, <1>4, ShapeIs DEF queue_pop_head
    <3> QED BY <1>1, <3>1, ShapeIs
  <2> QED BY <1>3, <1>4, <2>1 DEF queue_pop_head, Same
<1>5. CASE \E d \in Data : queue_remove(d)
  <2>1. PICK d \in Data : queue_remove(d)
    BY <1>5
  <2>2. PICK e \in Holding(q, {d}) : q' = Unlink(q, e) /\ Minding(MindsRemoval({e}))
    BY <2>1, Zenon DEF queue_remove
  <2>3. e \in In(s) /\ at' = at
    BY <1>2, <2>1 DEF Holding, queue_remove, Same
  <2> QED BY <1>3, <2>2, <2>3
<1>6. CASE queue_remove_all
  <2>1. at' = at
    BY <1>6 DEF queue_remove_all, Same
  <2>2. CASE q' = RemoveEverything(q) /\ UNCHANGED heedful
    <3>1. Removed(q, s, q', <<>>, In(s), at)
      BY <1>1, <2>2, RemoveEverythingIs
    <3> QED BY <2>1, <2>2, <3>1, Zenon DEF TakingOf
  <2>3. CASE \E some \in SUBSET Data :
               /\ q' = RemoveMatching(q, Holding(q, some))
               /\ Minding(MindsRemoval(Holding(q, some)))
    <3>1. PICK some \in SUBSET Data :
            /\ q' = RemoveMatching(q, Holding(q, some))
            /\ Minding(MindsRemoval(Holding(q, some)))
      BY <2>3
    <3> DEFINE matching == Holding(q, some)
    <3>2. matching \subseteq In(s)
      BY <1>2 DEF Holding
    <3> HIDE DEF matching
    <3>3. PICK t : Removed(q, s, RemoveMatching(q, matching), t, matching, at)
      BY <1>1, <3>2, RemoveMatchingIs
    <3>4. Removed(q, s, q', t, matching, at) /\ Minding(MindsRemoval(matching))
      BY <3>1, <3>3, Zenon DEF matching
    <3> QED BY <2>1, <3>4, Zenon DEF TakingOf
  <2> QED BY <1>6, <2>2, <2>3, Zenon DEF queue_remove_all
<1> QED BY <1>4, <1>5, <1>6 DEF Removing

LEMMA RemovingStep ==
  ASSUME NEW s, Inv(s), Removing, heedful'
  PROVE  \E t : RemovalOf(s, t)
<1>1. ListBase(q, s, at) /\ at \in Links
  BY DEF Inv, ListInv, ListBase
<1>2. PICK t, gone : TakingOf(s, t, gone)
  BY <1>1, RemovingTakes, Zenon
<1>3. Removed(q, s, q', t, gone, at) /\ at' = at /\ (MindsRemoval(gone) \/ gone = In(s))
  BY <1>2, Zenon DEF TakingOf, Minding
<1> QED BY <1>3, RemovalStep, Zenon

LEMMA DestroyStep ==
  ASSUME NEW s, Inv(s), queue_destroy
  PROVE  RemovalOf(s, <<>>)
<1>1. ListInv(q, s, at) /\ Shape(q, s) /\ Counted(q, s, at) /\ at \in Links
  BY DEF Inv, ListInv
<1>2. Removed(q, s, q', <<>>, In(s), at)
  BY <1>1, RemoveEverythingIs DEF queue_destroy
<1> QED BY <1>2, RemovalStep DEF queue_destroy

\* What the walk does: it leaves its entry, if it has one, and holds this one, if it is one.
HoldOf(s, e) ==
  /\ at' = e /\ ListInv(q', s, e) /\ e \in In(s) \cup {0}
  /\ SameOf(q', q, s)

LEMMA StartStep ==
  ASSUME NEW s, Inv(s), StartWalk
  PROVE  HoldOf(s, q.head) /\ s # <<>> /\ q.head = s[1] /\ at = 0
<1>1. ListInv(q, s, 0) /\ Shape(q, s) /\ at = 0 /\ q.head # 0
  BY DEF Inv, ListInv, StartWalk
<1>2. s # <<>> /\ q.head = s[1] /\ 1 \in 1..Len(s)
  BY <1>1, ShapeIs
<1>3. q.head \in In(s) /\ In(s) \subseteq Entries
  BY <1>1, <1>2, ShapeIs
<1>4. /\ ListInv(queue_entry_ref(q, q.head), s, q.head)
      /\ SameOf(queue_entry_ref(q, q.head), q, s)
  BY <1>1, <1>3, HoldKeeps
<1>5. at' = q.head /\ q' = queue_entry_ref(q, q.head)
  BY DEF StartWalk
<1> QED BY <1>1, <1>2, <1>3, <1>4, <1>5 DEF HoldOf

LEMMA WalkStep ==
  ASSUME NEW s, Inv(s), StepWalk
  PROVE  /\ HoldOf(s, IF s = <<>> THEN 0 ELSE q.mem[at].next)
         /\ freed' = FALSE /\ refs' = (IF owned THEN 1 ELSE 0) + (IF at' # 0 THEN 1 ELSE 0)
<1>1. /\ ListInv(q, s, at) /\ Shape(q, s) /\ at \in Links \ {0}
      /\ owned \in BOOLEAN /\ refs = (IF owned THEN 1 ELSE 0) + 1 /\ (~owned => s = <<>>)
  BY DEF Inv, ListInv, StepWalk
<1> DEFINE next == Following(q)
           left == queue_entry_unref(q, at)
           goes == next # 0 /\ q.head # 0 /\ refs > 1
<1>2. /\ at' = (IF goes THEN next ELSE 0)
      /\ q' = (IF goes THEN queue_entry_ref(left, next) ELSE left)
      /\ refs' = (IF goes THEN refs ELSE refs - 1)
      /\ freed' = (q.mem[at].refs = 0 \/ (goes /\ left.mem[next].refs = 0))
  BY Zenon DEF StepWalk
<1>3. q.mem[at].refs # 0 /\ ListInv(left, s, 0) /\ SameOf(left, q, s)
  <2>1. at \in Links /\ at # 0 /\ ListBase(q, s, at)
    BY <1>1 DEF ListInv, ListBase
  <2> HIDE DEF left
  <2>2. q.mem[at].refs # 0 /\ ListInv(left, s, 0) /\ SameOf(left, q, s)
    BY <2>1, ReleaseKeeps, Zenon DEF left
  <2> QED BY <2>2
<1>4. next = q.mem[at].next
  BY DEF Following
<1> HIDE DEF next, left
<1>5. goes <=> s # <<>> /\ next # 0
  <2>1. s # <<>> <=> q.head # 0
    BY <1>1, ShapeIs
  <2>2. s # <<>> => refs > 1
    BY <1>1
  <2> QED BY <2>1, <2>2
<1>6. s # <<>> => next \in In(s) \cup {0}
  <2>1. CASE at \in In(s)
    <3>1. PICK i \in 1..Len(s) : at = s[i]
      BY <1>1, <2>1, ShapeIs
    <3>2. next = At(s, i + 1) /\ i + 1 \in Nat
      BY <1>1, <1>4, <3>1, ShapeIs
    <3> QED BY <1>1, <3>2, AtIs
  <2>2. CASE at \notin In(s)
    BY <1>1, <1>4, <2>2 DEF ListInv, Leads
  <2> QED BY <2>1, <2>2
<1> HIDE DEF goes
<1>7. CASE goes
  <2>1. next \in In(s) /\ next # 0 /\ s # <<>> /\ In(s) \subseteq Entries
    BY <1>1, <1>5, <1>6, <1>7, ShapeIs
  <2>2. /\ left.mem[next].refs = 1
        /\ ListInv(queue_entry_ref(left, next), s, next)
        /\ SameOf(queue_entry_ref(left, next), left, s)
    BY <1>3, <2>1, HoldKeeps
  <2>3. at' = next /\ q' = queue_entry_ref(left, next) /\ refs' = refs
    BY <1>2, <1>7
  <2>4. SameOf(q', q, s)
    BY <1>3, <2>2, <2>3 DEF SameOf
  <2>5. HoldOf(s, next)
    BY <2>1, <2>2, <2>3, <2>4 DEF HoldOf
  <2>6. ~(q.mem[at].refs = 0) /\ ~(left.mem[next].refs = 0)
    BY <1>3, <2>2
  <2>7. freed' = FALSE
    BY <1>2, <2>6, Zenon
  <2> QED BY <1>1, <1>4, <2>1, <2>3, <2>5, <2>7
<1>8. CASE ~goes
  <2>1. at' = 0 /\ q' = left /\ refs' = refs - 1
    BY <1>2, <1>8
  <2>2. HoldOf(s, 0)
    BY <1>3, <2>1 DEF HoldOf
  <2>3. ~(q.mem[at].refs = 0)
    BY <1>3
  <2>4. freed' = FALSE
    BY <1>2, <1>8, <2>3, Zenon
  <2>5. (IF s = <<>> THEN 0 ELSE q.mem[at].next) = 0
    BY <1>4, <1>5, <1>8
  <2> QED BY <1>1, <2>1, <2>2, <2>4, <2>5
<1> QED BY <1>7, <1>8

LEMMA NewStep ==
  ASSUME NEW s, Inv(s), queue_new
  PROVE  s = <<>> /\ at = 0 /\ at' = 0 /\ q.head = 0 /\ q'.head = 0 /\ ListInv(q', <<>>, 0)
<1>1. s = <<>> /\ at = 0 /\ at' = 0
  BY DEF Inv, queue_new
<1>2. Shape(q, <<>>) /\ Counted(q, <<>>, 0) /\ Named(q, <<>>, 0)
  BY <1>1 DEF Inv, ListInv
<1>3. q.head = 0 /\ q \in Lists
  BY <1>2, ShapeIs
<1>4. q' = [head |-> 0, tail |-> 0, entries |-> 0, mem |-> q.mem]
  BY DEF queue_new, Empty
<1>5. q' \in Lists /\ q'.head = 0 /\ q'.tail = 0 /\ q'.entries = 0 /\ q'.mem = q.mem
  BY <1>3, <1>4 DEF Lists, Links
<1>6. Shape(q', <<>>)
  BY <1>5 DEF Shape, Path, Distinct, At
<1>7. Counted(q', <<>>, 0) /\ Named(q', <<>>, 0) /\ Leads(q', <<>>, 0)
  BY <1>2, <1>5 DEF Counted, Named, Leads
<1> QED BY <1>1, <1>3, <1>5, <1>6, <1>7 DEF ListInv

LEMMA InitIs ==
  ASSUME Init
  PROVE  Inv(<<>>)
<1>1. q = [head |-> 0, tail |-> 0, entries |-> 0, mem |-> [e \in Entries |-> Unused]]
  BY DEF Init, Empty
<1>2. Unused \in Entry /\ Unused.refs = 0
  BY DEF Unused, Entry, Links
<1>3. [e \in Entries |-> Unused] \in [Entries -> Entry]
  BY <1>2
<1>4. /\ q \in Lists /\ q.head = 0 /\ q.tail = 0 /\ q.entries = 0
      /\ q.mem = [e \in Entries |-> Unused]
  BY <1>1, <1>3 DEF Lists, Links
<1>5. \A e \in Entries : q.mem[e].refs = 0 /\ e # 0
  BY <1>2, <1>4 DEF Entries
<1>6. In(<<>>) = {}
  BY DEF In
<1>7. Shape(q, <<>>)
  BY <1>4 DEF Shape, Path, Distinct, At
<1>8. Counted(q, <<>>, 0) /\ Named(q, <<>>, 0) /\ Leads(q, <<>>, 0)
  BY <1>5, <1>6 DEF Counted, Named, Leads
<1> QED BY <1>7, <1>8 DEF Init, Inv, ListInv, Links

\* While the callbacks mind the link.
LEMMA InvKeeps ==
  ASSUME NEW s, Inv(s), [Next]_vars, heedful'
  PROVE  \E t : Inv(t)'
<1>1. Inv(s)
  OBVIOUS
<1>2. /\ at \in Links /\ owned \in BOOLEAN /\ freed = FALSE /\ (~owned => s = <<>>)
      /\ refs = (IF owned THEN 1 ELSE 0) + (IF at # 0 THEN 1 ELSE 0)
  BY <1>1 DEF Inv
<1>3. ASSUME NEW d \in Data, Push(d) PROVE \E t : Inv(t)'
  <2>1. PICK e, k : PushOf(s, e, d, k)
    BY <1>1, <1>3, PushStep, Zenon
  <2>2. ListInv(q', Put(s, k, e), at)
    BY <2>1, Zenon DEF PushOf
  <2>3. UNCHANGED <<refs, owned, at, freed>> /\ owned = TRUE
    BY <1>2, <1>3 DEF Push, Same, Usable
  <2>4. Inv(Put(s, k, e))'
    BY <1>2, <2>2, <2>3 DEF Inv
  <2> QED BY <2>4
<1>4. CASE Removing
  <2>1. PICK t : RemovalOf(s, t)
    BY <1>1, <1>4, RemovingStep
  <2>2. UNCHANGED <<refs, owned, at, freed>> /\ owned = TRUE
    BY <1>2, <1>4
       DEF Removing, queue_pop_head, queue_remove, queue_remove_all, Same, Usable
  <2>3. Inv(t)'
    BY <1>2, <2>1, <2>2 DEF Inv, RemovalOf
  <2> QED BY <2>3
<1>5. CASE queue_destroy
  <2>1. RemovalOf(s, <<>>)
    BY <1>1, <1>5, DestroyStep
  <2>2. owned = TRUE /\ owned' = FALSE /\ refs' = refs - 1 /\ at' = at /\ freed' = freed
    BY <1>2, <1>5 DEF queue_destroy, Usable
  <2>3. /\ freed' = FALSE /\ owned' \in BOOLEAN /\ at' \in Links /\ ListInv(q', <<>>, at')
        /\ refs' = (IF owned' THEN 1 ELSE 0) + (IF at' # 0 THEN 1 ELSE 0)
    <3>1. freed' = FALSE /\ owned' \in BOOLEAN /\ at' \in Links
      BY <1>2, <2>2, Zenon
    <3>2. ListInv(q', <<>>, at')
      BY <2>1, Zenon DEF RemovalOf
    <3>3. refs = 1 + (IF at # 0 THEN 1 ELSE 0)
      BY <1>2, <2>2
    <3>4. refs' = (IF at' # 0 THEN 1 ELSE 0)
      BY <2>2, <3>3
    <3>5. (IF owned' THEN 1 ELSE 0) = 0
      BY <2>2, Zenon
    <3> QED BY <3>1, <3>2, <3>4, <3>5
  <2>4. Inv(<<>>)'
    BY <2>3 DEF Inv
  <2> QED BY <2>4
<1>6. CASE queue_new
  <2>1. at' = 0 /\ ListInv(q', <<>>, 0)
    BY <1>1, <1>6, NewStep
  <2>2. owned' = TRUE /\ refs' = 1 /\ freed' = freed
    BY <1>6 DEF queue_new
  <2>3. /\ freed' = FALSE /\ owned' \in BOOLEAN /\ at' \in Links /\ ListInv(q', <<>>, at')
        /\ refs' = (IF owned' THEN 1 ELSE 0) + (IF at' # 0 THEN 1 ELSE 0)
    BY <1>2, <2>1, <2>2 DEF Links
  <2>4. Inv(<<>>)'
    BY <2>3 DEF Inv
  <2> QED BY <2>4
<1>7. CASE StartWalk
  <2>1. HoldOf(s, q.head) /\ s # <<>> /\ q.head = s[1] /\ at = 0
    BY <1>1, <1>7, StartStep
  <2>2. q.head # 0 /\ q.head \in Links
    BY <1>1, <1>7 DEF StartWalk, Inv, ListInv, Shape, Lists
  <2>3. owned' = owned /\ refs' = refs + 1 /\ freed' = freed
    BY <1>7 DEF StartWalk
  <2>4. Inv(s)'
    BY <1>2, <2>1, <2>2, <2>3 DEF Inv, HoldOf
  <2> QED BY <2>4
<1>8. CASE StepWalk
  <2>1. /\ HoldOf(s, IF s = <<>> THEN 0 ELSE q.mem[at].next)
        /\ freed' = FALSE /\ refs' = (IF owned THEN 1 ELSE 0) + (IF at' # 0 THEN 1 ELSE 0)
    BY <1>1, <1>8, WalkStep
  <2>2. owned' = owned
    BY <1>8 DEF StepWalk
  <2>3. at' \in Links /\ ListInv(q', s, at')
    <3>1. Shape(q, s)
      BY <1>1 DEF Inv, ListInv
    <3>2. In(s) \subseteq Links
      BY <3>1, ShapeIs DEF Entries, Links
    <3> QED BY <2>1, <3>2 DEF HoldOf, Links
  <2>4. Inv(s)'
    BY <1>2, <2>1, <2>2, <2>3 DEF Inv
  <2> QED BY <2>4
<1>9. CASE LeftOpen \/ UNCHANGED vars
  <2>1. q' = q /\ refs' = refs /\ owned' = owned /\ at' = at /\ freed' = freed
    BY <1>9, Zenon DEF vars, LeftOpen
  <2>2. Inv(s)'
    BY <1>1, <2>1 DEF Inv
  <2> QED BY <2>2
<1> QED BY <1>3, <1>4, <1>5, <1>6, <1>7, <1>8, <1>9 DEF Next, Removing

\* Whatever they do: the walk can come to use a freed entry, or to be heedful again.
LEMMA BaseKeeps ==
  ASSUME NEW s, Base(s), heedful \in BOOLEAN, [Next]_vars
  PROVE  \/ freed' = TRUE /\ heedful' = heedful
         \/ heedful' \in BOOLEAN /\ (heedful' => heedful) /\ \E t : Base(t)'
         \/ heedful' \in BOOLEAN /\ \E t : Inv(t)'
<1>1. /\ at \in Links /\ owned \in BOOLEAN /\ freed = FALSE /\ (~owned => s = <<>>)
      /\ refs = (IF owned THEN 1 ELSE 0) + (IF at # 0 THEN 1 ELSE 0)
      /\ ListBase(q, s, at) /\ Shape(q, s) /\ Counted(q, s, at)
  BY DEF Base, ListBase
<1>2. ASSUME NEW t, ListBase(q', t, at), UNCHANGED <<refs, owned, at, freed>>, owned = TRUE,
             NEW minds, Minding(minds)
      PROVE  heedful' \in BOOLEAN /\ (heedful' => heedful) /\ \E u : Base(u)'
  <2>1. Base(t)'
    BY <1>1, <1>2 DEF Base
  <2>2. heedful' \in BOOLEAN /\ (heedful' => heedful)
    BY <1>2, Zenon DEF Minding
  <2> QED BY <2>1, <2>2
<1>3. ASSUME NEW d \in Data, Push(d)
      PROVE  heedful' \in BOOLEAN /\ (heedful' => heedful) /\ \E t : Base(t)'
  <2>1. PICK e, k : LinkOf(s, e, d, k)
    BY <1>1, <1>3, PushLinks, Zenon
  <2>2. /\ e \in Entries /\ q.mem[e].refs = 0 /\ k \in 1..(Len(s) + 1)
        /\ Linked(q, s, q', e, d, k)
    BY <2>1, Zenon DEF LinkOf
  <2>3. \A x \in Entries : q.mem[x].data # {d}
    BY <1>3 DEF Push, Fresh
  <2>4. ListBase(q', Put(s, k, e), at)
    BY <1>1, <2>2, <2>3, PushKeepsBase
  <2>5. UNCHANGED <<refs, owned, at, freed>> /\ owned = TRUE /\ Minding(MindsPush)
    BY <1>1, <1>3 DEF Push, Same, Usable
  <2> QED BY <1>2, <2>4, <2>5, Zenon
<1>4. CASE Removing
  <2>1. PICK t, gone : TakingOf(s, t, gone)
    BY <1>1, <1>4, RemovingTakes, Zenon
  <2>2. Removed(q, s, q', t, gone, at)
    BY <2>1, Zenon DEF TakingOf
  <2>3. ListBase(q', t, at)
    BY <1>1, <2>2, RemovalKeepsBase
  <2>4. UNCHANGED <<refs, owned, at, freed>> /\ owned = TRUE
    BY <1>1, <1>4
       DEF Removing, queue_pop_head, queue_remove, queue_remove_all, Same, Usable
  <2>5. Minding(TRUE) \/ Minding(MindsRemoval(gone))
    BY <2>1, Zenon DEF TakingOf, Minding
  <2> QED BY <1>2, <2>3, <2>4, <2>5, Zenon
<1>5. CASE queue_destroy
  <2>1. Removed(q, s, q', <<>>, In(s), at)
    BY <1>1, <1>5, RemoveEverythingIs DEF queue_destroy
  <2>2. ListBase(q', <<>>, at)
    BY <1>1, <2>1, RemovalKeepsBase
  <2>3. /\ owned = TRUE /\ owned' = FALSE /\ refs' = refs - 1 /\ at' = at /\ freed' = freed
        /\ heedful' = heedful
    BY <1>1, <1>5 DEF queue_destroy, Usable
  <2>4. refs' = (IF owned' THEN 1 ELSE 0) + (IF at' # 0 THEN 1 ELSE 0)
    <3>1. refs = 1 + (IF at # 0 THEN 1 ELSE 0)
      BY <1>1, <2>3
    <3>2. (IF owned' THEN 1 ELSE 0) = 0
      BY <2>3, Zenon
    <3> QED BY <2>3, <3>1, <3>2
  <2>5. Base(<<>>)'
    BY <1>1, <2>2, <2>3, <2>4 DEF Base
  <2> QED BY <2>3, <2>5
<1>6. CASE queue_new
  <2>1. s = <<>> /\ at = 0
    BY <1>1, <1>6 DEF queue_new
  <2>2. Leads(q, s, at)
    BY <2>1 DEF Leads
  <2>3. Inv(s)
    BY <1>1, <2>2 DEF Inv, ListInv, ListBase
  <2>4. at' = 0 /\ ListInv(q', <<>>, 0)
    BY <1>6, <2>3, NewStep
  <2>5. owned' = TRUE /\ refs' = 1 /\ freed' = freed /\ heedful' = heedful
    BY <1>6 DEF queue_new
  <2>6. Inv(<<>>)'
    BY <1>1, <2>4, <2>5 DEF Inv, Links
  <2> QED BY <2>5, <2>6
<1>7. CASE StartWalk
  <2>1. at = 0
    BY <1>7 DEF StartWalk
  <2>2. Leads(q, s, at)
    BY <2>1 DEF Leads
  <2>3. Inv(s)
    BY <1>1, <2>2 DEF Inv, ListInv, ListBase
  <2>4. HoldOf(s, q.head) /\ q.head # 0 /\ q.head \in Links
    BY <1>1, <1>7, <2>3, StartStep DEF StartWalk, Shape, Lists
  <2>5. owned' = owned /\ refs' = refs + 1 /\ freed' = freed /\ heedful' = heedful
    BY <1>7 DEF StartWalk
  <2>6. Inv(s)'
    BY <1>1, <2>1, <2>4, <2>5 DEF Inv, HoldOf
  <2> QED BY <2>5, <2>6
<1>8. CASE StepWalk
  <2> DEFINE next == Following(q)
             left == queue_entry_unref(q, at)
             goes == next # 0 /\ q.head # 0 /\ refs > 1
  <2>1. /\ at' = (IF goes THEN next ELSE 0)
        /\ q' = (IF goes THEN queue_entry_ref(left, next) ELSE left)
        /\ refs' = (IF goes THEN refs ELSE refs - 1)
        /\ freed' = (q.mem[at].refs = 0 \/ (goes /\ left.mem[next].refs = 0))
        /\ heedful' = (heedful \/ ~goes) /\ owned' = owned
    BY <1>8, Zenon DEF StepWalk
  <2>2. at # 0
    BY <1>8 DEF StepWalk
  <2>3. q.mem[at].refs # 0 /\ ListInv(left, s, 0)
    BY <1>1, <2>2, ReleaseKeeps, Zenon
  <2>4. next \in Links
    BY <1>1, <2>2 DEF Following, Shape, Lists, Entry, Links, Entries
  <2> HIDE DEF next, left
  <2>5. goes \in BOOLEAN
    OBVIOUS
  <2> HIDE DEF goes
  <2>6. CASE ~goes
    <3>1. at' = 0 /\ q' = left /\ refs' = refs - 1
      BY <2>1, <2>6
    <3>2. freed' = FALSE /\ heedful' = TRUE
      BY <2>1, <2>3, <2>6, Zenon
    <3>3. refs' = (IF owned' THEN 1 ELSE 0) + (IF at' # 0 THEN 1 ELSE 0)
      BY <1>1, <2>1, <2>2, <3>1
    <3>4. Inv(s)'
      BY <1>1, <2>1, <2>3, <3>1, <3>2, <3>3 DEF Inv, Links
    <3> QED BY <3>2, <3>4
  <2>7. CASE goes /\ next \notin In(s)
    <3>1. next \in Entries
      BY <2>4, <2>7 DEF goes, Links, Entries
    <3>2. left.mem[next].refs = 0
      BY <2>3, <2>7, <3>1 DEF ListInv, Counted, Entries
    <3>3. freed' = TRUE /\ heedful' = heedful
      BY <2>1, <2>7, <3>2, Zenon
    <3> QED BY <3>3
  <2>8. CASE goes /\ next \in In(s)
    <3>1. left.mem[next].refs = 1 /\ ListInv(queue_entry_ref(left, next), s, next)
      BY <2>3, <2>8, HoldKeeps
    <3>2. at' = next /\ q' = queue_entry_ref(left, next) /\ refs' = refs
      BY <2>1, <2>8
    <3>3. ~(left.mem[next].refs = 0) /\ ~(q.mem[at].refs = 0)
      BY <2>3, <3>1
    <3>4. freed' = FALSE /\ heedful' = heedful
      BY <2>1, <2>8, <3>3, Zenon
    <3>5. next # 0
      BY <2>8 DEF goes
    <3>6. refs' = (IF owned' THEN 1 ELSE 0) + (IF at' # 0 THEN 1 ELSE 0)
      BY <1>1, <2>1, <2>2, <3>2, <3>5
    <3>7. Inv(s)'
      BY <1>1, <2>1, <2>4, <3>1, <3>2, <3>4, <3>6 DEF Inv
    <3> QED BY <3>4, <3>7
  <2> QED BY <2>5, <2>6, <2>7, <2>8
<1>9. CASE LeftOpen \/ UNCHANGED vars
  <2>1. Base(s)' /\ heedful' = heedful
    BY <1>9 DEF Base, vars, LeftOpen
  <2> QED BY <2>1
<1> QED BY <1>3, <1>4, <1>5, <1>6, <1>7, <1>8, <1>9, Zenon DEF Next, Removing

LEMMA NextKeeps ==
  ASSUME IInv, [Next]_vars
  PROVE  IInv'
<1>1. CASE freed = TRUE
  <2>1. UNCHANGED vars
    BY <1>1 DEF Next, Push, queue_pop_head, queue_remove, queue_remove_all, queue_destroy,
                queue_new, StartWalk, StepWalk, LeftOpen, Usable
  <2> QED BY <2>1, <1>1 DEF IInv, Inv, Base, vars
<1>2. CASE heedful = TRUE /\ heedful' = TRUE /\ freed # TRUE
  <2>1. PICK s : Inv(s)
    BY <1>2 DEF IInv
  <2>2. \E t : Inv(t)'
    BY <1>2, <2>1, InvKeeps, Zenon
  <2> QED BY <1>2, <2>2 DEF IInv
<1>3. CASE ~(heedful = TRUE /\ heedful' = TRUE) /\ freed # TRUE
  <2>1. \A s : Inv(s) => Base(s)
    BY DEF Inv, Base, ListInv, ListBase
  <2>2. heedful \in BOOLEAN /\ \E s : Base(s)
    BY <1>3, <2>1 DEF IInv
  <2>3. PICK s : Base(s)
    BY <2>2
  <2>4. \/ freed' = TRUE /\ heedful' = heedful
        \/ heedful' \in BOOLEAN /\ (heedful' => heedful) /\ \E t : Base(t)'
        \/ heedful' \in BOOLEAN /\ \E t : Inv(t)'
    BY <2>2, <2>3, BaseKeeps, Zenon
  <2>5. \A t : Inv(t)' => Base(t)'
    BY DEF Inv, Base, ListInv, ListBase
  <2>6. heedful' \in BOOLEAN
    BY <2>2, <2>4, Zenon
  <2>7. CASE heedful' = FALSE
    BY <2>4, <2>5, <2>7, Zenon DEF IInv
  <2>8. CASE heedful' = TRUE
    <3>1. heedful = FALSE
      BY <1>3, <2>2, <2>8
    <3>2. \E t : Inv(t)'
      BY <2>4, <2>8, <3>1, Zenon
    <3> QED BY <2>8, <3>2, Zenon DEF IInv
  <2> QED BY <2>6, <2>7, <2>8
<1> QED BY <1>1, <1>2, <1>3

(* The invariant holds in every reachable state.                           *)
THEOREM Inductive == Spec => []IInv
<1>1. Init => IInv
  <2>1. Init => heedful = TRUE
    BY DEF Init
  <2> QED BY <2>1, InitIs DEF IInv
<1>2. IInv /\ [Next]_vars => IInv'
  BY NextKeeps
<1> QED BY <1>1, <1>2, PTL DEF Spec

(* Whatever the callbacks of a walk put in and take out, the list, its     *)
(* tail, its count and the references of its entries agree up to the use   *)
(* of a freed entry; and none is used unless a callback of that walk, with *)
(* its own entry out of the list, took out the entry behind it or put one  *)
(* in where the link that is followed does not lead (queue.c 79-95,        *)
(* 110-213, 243-257, 283-393).                                             *)
THEOREM LinksAlwaysAgree == Spec => []QueueOK
<1>1. IInv => QueueOK
  <2> SUFFICES ASSUME IInv, freed # TRUE PROVE freed = FALSE /\ LinksAgree
    <3>1. IInv /\ freed = TRUE => heedful = FALSE
      BY DEF IInv, Inv
    <3> QED BY <3>1 DEF QueueOK
  <2>0. PICK s : Base(s)
    BY DEF IInv, Inv, Base, ListInv, ListBase
  <2>1. Shape(q, s) /\ Counted(q, s, at) /\ freed = FALSE
    BY <2>0 DEF Base, ListBase
  <2>2. List(q) = s /\ Listed(q) = In(s)
    BY <2>1, ListIs
  <2>3. Cardinality(In(s)) = Len(s) /\ q.entries = Len(s)
    BY <2>1, CountOfList DEF Shape, Path
  <2>4. q.tail = (IF q.head = 0 THEN 0 ELSE s[Len(s)]) /\ (q.tail # 0 => q.mem[q.tail].next = 0)
    <3>1. CASE s = <<>>
      <4>1. q.head = 0 /\ q.tail = 0
        BY <2>1, <3>1, ShapeIs DEF Shape, At
      <4> QED BY <4>1
    <3>2. CASE s # <<>>
      <4>1. Len(s) \in 1..Len(s) /\ q.head # 0
        BY <2>1, <3>2, ShapeIs
      <4>2. q.tail = s[Len(s)]
        BY <2>1, <4>1 DEF Shape, At
      <4>3. q.mem[s[Len(s)]].next = At(s, Len(s) + 1)
        BY <2>1, <4>1, ShapeIs
      <4>4. ~(Len(s) + 1 \in 1..Len(s))
        BY <2>1, ShapeIs
      <4> QED BY <4>1, <4>2, <4>3, <4>4 DEF At
    <3> QED BY <3>1, <3>2
  <2> QED BY <2>1, <2>2, <2>3, <2>4 DEF LinksAgree, Counted
<1> QED BY <1>1, Inductive, PTL

---------------------------------------------------------------------------
(* The refinement of WalkedList.  What lies ahead of a walk is the rest of *)
(* the list from one of its places on.                                     *)

Rest(s, k) == [i \in 1..(Len(s) - k + 1) |-> s[i + k - 1]]
\* The entries ahead of the walk that holds one.
Ahead(l, held) == IF held = 0 \/ l.head = 0 THEN <<>> ELSE Chain(l, l.mem[held].next)
\* The walk goes on at place k of the list.
GoesOn(l, s, held, k) ==
  /\ k \in 1..(Len(s) + 1) /\ l.mem[held].next = At(s, k)
  /\ held \in In(s) => k > 1 /\ held = s[k - 1]
  /\ Ahead(l, held) = Rest(s, k)

LEMMA RestIs ==
  ASSUME NEW s, s \in Seq(Entries), NEW k \in 1..(Len(s) + 1)
  PROVE  /\ Rest(s, k) \in Seq(Entries) /\ Len(Rest(s, k)) = Len(s) - k + 1
         /\ \A i \in 1..(Len(s) - k + 1) : Rest(s, k)[i] = s[i + k - 1]
         /\ \A j \in 1..Len(s) : j >= k => s[j] \in In(Rest(s, k))
         /\ \A e \in In(Rest(s, k)) : \E j \in 1..Len(s) : j >= k /\ e = s[j]
<1> DEFINE n == Len(s)
           r == Rest(s, k)
<1>0. n \in Nat /\ DOMAIN s = 1..n /\ \A i \in 1..n : s[i] \in Entries
  BY LenProperties, ElementOfSeq
<1>1. n - k + 1 \in Nat
  BY <1>0
<1>2. r \in [1..(n - k + 1) -> Entries]
  BY <1>0 DEF Rest
<1>3. \A i \in 1..(n - k + 1) : r[i] = s[i + k - 1]
  BY DEF Rest
<1> HIDE DEF r
<1>4. r \in Seq(Entries) /\ Len(r) = n - k + 1 /\ DOMAIN r = 1..(n - k + 1)
  <2>1. \E m \in Nat : r \in [1..m -> Entries]
    BY <1>1, <1>2
  <2>2. r \in Seq(Entries)
    BY <2>1, SeqDef
  <2>3. DOMAIN r = 1..(n - k + 1) /\ DOMAIN r = 1..Len(r) /\ Len(r) \in Nat
    BY <1>2, <2>2, LenProperties
  <2>4. Len(r) = n - k + 1
    BY <1>1, <2>3
  <2> QED BY <2>2, <2>3, <2>4
<1>5. ASSUME NEW j \in 1..n, j >= k PROVE s[j] \in In(r)
  <2>1. j - k + 1 \in 1..(n - k + 1) /\ (j - k + 1) + k - 1 = j
    BY <1>0, <1>5
  <2>2. r[j - k + 1] = s[j]
    BY <1>3, <2>1
  <2> QED BY <1>4, <2>1, <2>2 DEF In
<1>6. ASSUME NEW e \in In(r) PROVE \E j \in 1..n : j >= k /\ e = s[j]
  <2>1. PICK i \in 1..(n - k + 1) : e = r[i]
    BY <1>4 DEF In
  <2>2. i + k - 1 \in 1..n /\ i + k - 1 >= k /\ e = s[i + k - 1]
    BY <1>0, <1>3, <2>1
  <2> QED BY <2>2
<1> QED BY <1>3, <1>4, <1>5, <1>6 DEF r

LEMMA ChainRest ==
  ASSUME NEW l, NEW s, Shape(l, s), NEW k \in 1..(Len(s) + 1)
  PROVE  Chain(l, At(s, k)) = Rest(s, k)
<1> DEFINE n == Len(s)
           r == Rest(s, k)
<1>0. /\ l \in Lists /\ s \in Seq(Entries) /\ n \in Nat /\ n <= MaxEntries
      /\ \A i \in 1..n : l.mem[s[i]].next = At(s, i + 1)
  BY ShapeIs DEF Shape, Path
<1>1. /\ r \in Seq(Entries) /\ Len(r) = n - k + 1
      /\ \A i \in 1..(n - k + 1) : r[i] = s[i + k - 1]
  BY <1>0, RestIs
<1> HIDE DEF r
<1>2. ASSUME NEW i \in 1..(n - k + 2) PROVE At(r, i) = At(s, i + k - 1)
  <2>1. i \in 1..(n - k + 1) <=> i + k - 1 \in 1..n
    BY <1>0
  <2> QED BY <1>1, <2>1 DEF At
<1>3. At(s, k) = At(r, 1)
  <2>1. 1 \in 1..(n - k + 2) /\ 1 + k - 1 = k
    BY <1>0
  <2> QED BY <1>2, <2>1
<1>4. ASSUME NEW i \in 1..Len(r) PROVE l.mem[r[i]].next = At(r, i + 1)
  <2>1. i \in 1..(n - k + 1) /\ i + 1 \in 1..(n - k + 2) /\ i + k - 1 \in 1..n
        /\ (i + k - 1) + 1 = (i + 1) + k - 1
    BY <1>0, <1>1
  <2>2. r[i] = s[i + k - 1] /\ At(r, i + 1) = At(s, (i + 1) + k - 1)
    BY <1>1, <1>2, <2>1
  <2> QED BY <1>0, <2>1, <2>2
<1>5. Len(r) <= MaxEntries
  BY <1>0, <1>1
<1>6. Path(l, At(s, k), r)
  BY <1>1, <1>3, <1>4, <1>5, Zenon DEF Path
<1> QED BY <1>0, <1>6, ChainIs DEF r

LEMMA WalkGoesOn ==
  ASSUME NEW l, NEW s, NEW held, held # 0, ListInv(l, s, held), s # <<>>
  PROVE  \E k : GoesOn(l, s, held, k)
<1>1. Shape(l, s) /\ Leads(l, s, held)
  BY DEF ListInv
<1>2. l.head # 0 /\ Len(s) \in Nat
  BY <1>1, ShapeIs
<1>3. ASSUME NEW k \in 1..(Len(s) + 1), l.mem[held].next = At(s, k),
             held \in In(s) => k > 1 /\ held = s[k - 1]
      PROVE  GoesOn(l, s, held, k)
  <2>1. Ahead(l, held) = Chain(l, At(s, k))
    BY <1>2, <1>3 DEF Ahead
  <2>2. Ahead(l, held) = Rest(s, k)
    BY <1>1, <2>1, ChainRest
  <2> QED BY <1>3, <2>2 DEF GoesOn
<1>4. CASE held \in In(s)
  <2>1. PICK i \in 1..Len(s) : held = s[i]
    BY <1>1, <1>4, ShapeIs
  <2>2. l.mem[held].next = At(s, i + 1)
    BY <1>1, <2>1, ShapeIs
  <2>3. i + 1 \in 1..(Len(s) + 1) /\ i + 1 > 1 /\ (i + 1) - 1 = i
    BY <1>2
  <2> QED BY <1>3, <2>1, <2>2, <2>3
<1>5. CASE held \notin In(s)
  <2>1. l.mem[held].next \in In(s) \cup {0}
    BY <1>1, <1>5 DEF Leads
  <2>2. CASE l.mem[held].next = 0
    <3>1. Len(s) + 1 \in 1..(Len(s) + 1) /\ At(s, Len(s) + 1) = 0
      BY <1>2 DEF At
    <3> QED BY <1>3, <1>5, <2>2, <3>1
  <2>3. CASE l.mem[held].next \in In(s)
    <3>0. \A e \in In(s) : \E k \in 1..Len(s) : e = s[k]
      BY <1>1, ShapeIs
    <3>1. PICK k \in 1..Len(s) : l.mem[held].next = s[k]
      BY <2>3, <3>0
    <3>2. k \in 1..(Len(s) + 1) /\ At(s, k) = s[k]
      BY <1>2 DEF At
    <3> QED BY <1>3, <1>5, <3>1, <3>2
  <2> QED BY <2>1, <2>2, <2>3
<1> QED BY <1>4, <1>5

---------------------------------------------------------------------------
(* Removals take out of the list, and of what lies ahead.                  *)

LEMMA OrderKept ==
  ASSUME NEW s, NEW t, Distinct(s), Distinct(t), InOrder(t, s),
         NEW i \in 1..Len(t), NEW j \in 1..Len(s), t[i] = s[j],
         NEW a \in 1..Len(t), NEW b \in 1..Len(s), t[a] = s[b]
  PROVE  i < a <=> j < b
<1>1. ASSUME i < a PROVE j < b
  <2>1. PICK k \in 1..Len(s), n \in 1..Len(s) : k < n /\ t[i] = s[k] /\ t[a] = s[n]
    BY <1>1, Zenon DEF InOrder
  <2>2. k = j /\ n = b
    BY <2>1, Zenon DEF Distinct
  <2> QED BY <2>1, <2>2
<1>2. ASSUME a < i PROVE b < j
  <2>1. PICK k \in 1..Len(s), n \in 1..Len(s) : k < n /\ t[a] = s[k] /\ t[i] = s[n]
    BY <1>2, Zenon DEF InOrder
  <2>2. k = b /\ n = j
    BY <2>1, Zenon DEF Distinct
  <2> QED BY <2>1, <2>2
<1>3. i = a => j = b
  BY Zenon DEF Distinct
<1>4. i \in Int /\ a \in Int /\ j \in Int /\ b \in Int
  OBVIOUS
<1> HIDE DEF Distinct
<1> QED BY <1>1, <1>2, <1>3, <1>4

LEMMA PlacesAgree ==
  ASSUME NEW l, NEW s, NEW held, held # 0, ListInv(l, s, held),
         NEW m, NEW t, NEW gone, Removed(l, s, m, t, gone, held),
         held \notin In(t) \cup {0} => l.mem[held].next \notin gone,
         NEW k, GoesOn(l, s, held, k), NEW n, GoesOn(m, t, held, n)
  PROVE  \A i \in 1..Len(t) : \A j \in 1..Len(s) : t[i] = s[j] => (i >= n <=> j >= k)
<1>1. Shape(l, s) /\ Shape(m, t) /\ InOrder(t, s) /\ In(t) = In(s) \ gone
  BY DEF ListInv, Removed
<1>2. Distinct(s) /\ Distinct(t) /\ Len(s) \in Nat /\ Len(t) \in Nat
  BY <1>1, ShapeIs DEF Shape
<1>k. k \in 1..(Len(s) + 1) /\ n \in 1..(Len(t) + 1)
  BY DEF GoesOn
<1> SUFFICES ASSUME NEW i \in 1..Len(t), NEW j \in 1..Len(s), t[i] = s[j]
             PROVE  i >= n <=> j >= k
  OBVIOUS
<1>3. CASE held \in In(t)
  <2>1. n > 1 /\ k > 1 /\ held = t[n - 1] /\ held = s[k - 1]
    BY <1>1, <1>3 DEF GoesOn
  <2> DEFINE a == n - 1
             b == k - 1
  <2>2. a \in 1..Len(t) /\ b \in 1..Len(s) /\ t[a] = s[b]
    BY <1>2, <1>k, <2>1
  <2>3. a < i <=> b < j
    <3> HIDE DEF a, b
    <3> QED BY <1>1, <1>2, <2>2, OrderKept
  <2> QED BY <1>2, <1>k, <2>3
<1>4. CASE held \notin In(t)
  <2>1. m.mem[held].next = l.mem[held].next
    BY <1>4 DEF Removed
  <2>2. At(t, n) = At(s, k)
    BY <2>1 DEF GoesOn
  <2>3. CASE At(s, k) = 0
    <3>1. ~(k \in 1..Len(s)) /\ ~(n \in 1..Len(t))
      BY <1>1, <2>2, <2>3, ShapeIs DEF At
    <3> QED BY <1>2, <1>k, <3>1
  <2>4. CASE At(s, k) # 0
    <3>1. k \in 1..Len(s) /\ n \in 1..Len(t) /\ t[n] = s[k]
      BY <2>2, <2>4 DEF At
    <3>2. i < n <=> j < k
      BY <1>1, <1>2, <3>1, OrderKept
    <3> QED BY <1>2, <1>k, <3>2
  <2> QED BY <2>3, <2>4
<1> QED BY <1>3, <1>4

LEMMA RestAgrees ==
  ASSUME NEW s, NEW t, s \in Seq(Entries), t \in Seq(Entries), Distinct(s),
         In(t) \subseteq In(s), InOrder(t, s),
         NEW k \in 1..(Len(s) + 1), NEW n \in 1..(Len(t) + 1),
         \A i \in 1..Len(t) : \A j \in 1..Len(s) : t[i] = s[j] => (i >= n <=> j >= k)
  PROVE  /\ In(Rest(t, n)) = In(Rest(s, k)) \cap In(t)
         /\ InOrder(Rest(t, n), Rest(s, k))
<1> DEFINE r == Rest(s, k)
           u == Rest(t, n)
<1>0. /\ Len(s) \in Nat /\ DOMAIN s = 1..Len(s) /\ Len(t) \in Nat /\ DOMAIN t = 1..Len(t)
  BY LenProperties
<1>1. /\ Len(r) = Len(s) - k + 1
      /\ \A i \in 1..(Len(s) - k + 1) : r[i] = s[i + k - 1]
      /\ \A j \in 1..Len(s) : j >= k => s[j] \in In(r)
      /\ \A e \in In(r) : \E j \in 1..Len(s) : j >= k /\ e = s[j]
  BY RestIs
<1>2. /\ Len(u) = Len(t) - n + 1
      /\ \A i \in 1..(Len(t) - n + 1) : u[i] = t[i + n - 1]
      /\ \A j \in 1..Len(t) : j >= n => t[j] \in In(u)
      /\ \A e \in In(u) : \E j \in 1..Len(t) : j >= n /\ e = t[j]
  BY RestIs
<1> HIDE DEF r, u
<1>3. /\ \A i \in 1..Len(t) : t[i] \in In(t) /\ \E j \in 1..Len(s) : t[i] = s[j]
      /\ \A e \in In(t) : \E i \in 1..Len(t) : e = t[i]
  <2>1. \A i \in 1..Len(t) : t[i] \in In(t)
    BY <1>0 DEF In
  <2>2. \A e \in In(s) : \E j \in 1..Len(s) : e = s[j]
    BY <1>0 DEF In
  <2>3. \A e \in In(t) : \E i \in 1..Len(t) : e = t[i]
    BY <1>0 DEF In
  <2> QED BY <2>1, <2>2, <2>3
<1>4. ASSUME NEW e \in In(u) PROVE e \in In(r) /\ e \in In(t)
  <2>1. PICK i \in 1..Len(t) : i >= n /\ e = t[i]
    BY <1>2
  <2>2. PICK j \in 1..Len(s) : t[i] = s[j]
    BY <1>3
  <2>3. j >= k
    BY <2>1, <2>2
  <2> QED BY <1>1, <1>3, <2>1, <2>2, <2>3
<1>5. ASSUME NEW e, e \in In(r), e \in In(t) PROVE e \in In(u)
  <2>1. PICK j \in 1..Len(s) : j >= k /\ e = s[j]
    BY <1>1, <1>5
  <2>2. PICK i \in 1..Len(t) : e = t[i]
    BY <1>3, <1>5
  <2>3. i >= n
    BY <2>1, <2>2
  <2> QED BY <1>2, <2>2, <2>3
<1>6. InOrder(u, r)
  <2> SUFFICES ASSUME NEW i \in 1..Len(u), NEW j \in 1..Len(u), i < j
               PROVE  \E a, b \in 1..Len(r) : a < b /\ u[i] = r[a] /\ u[j] = r[b]
    BY Zenon DEF InOrder
  <2> DEFINE x == i + n - 1
             y == j + n - 1
  <2>1. x \in 1..Len(t) /\ y \in 1..Len(t) /\ x < y /\ x >= n /\ y >= n
        /\ u[i] = t[x] /\ u[j] = t[y]
    BY <1>0, <1>2
  <2> HIDE DEF x, y
  <2>2. PICK a \in 1..Len(s), b \in 1..Len(s) : a < b /\ t[x] = s[a] /\ t[y] = s[b]
    BY <2>1, Zenon DEF InOrder
  <2>3. a >= k /\ b >= k
    BY <2>1, <2>2
  <2> DEFINE c == a - k + 1
             d == b - k + 1
  <2>4. c \in 1..Len(r) /\ d \in 1..Len(r) /\ c < d /\ c + k - 1 = a /\ d + k - 1 = b
        /\ c \in 1..(Len(s) - k + 1) /\ d \in 1..(Len(s) - k + 1)
    BY <1>0, <1>1, <2>2, <2>3
  <2> HIDE DEF c, d
  <2>5. r[c] = s[a] /\ r[d] = s[b]
    BY <1>1, <2>4
  <2> QED BY <2>1, <2>2, <2>4, <2>5
<1>7. In(u) = In(r) \cap In(t)
  BY <1>4, <1>5
<1> QED BY <1>6, <1>7 DEF r, u

\* Every entry of r has an element.
HasNames(l, r) == r \in Seq(Entries) /\ \A e \in In(r) : \E d \in Data : l.mem[e].data = {d}

LEMMA NamesAre ==
  ASSUME NEW l, NEW r, HasNames(l, r)
  PROVE  /\ Len(r) \in Nat /\ DataOf(l, r) \in Seq(Data) /\ Len(DataOf(l, r)) = Len(r)
         /\ DOMAIN DataOf(l, r) = 1..Len(r)
         /\ \A i \in 1..Len(r) : r[i] \in In(r) /\ l.mem[r[i]].data = {DataOf(l, r)[i]}
<1> DEFINE n == Len(r)
           name(e) == CHOOSE d \in Data : l.mem[e].data = {d}
           v == DataOf(l, r)
<1>0. n \in Nat /\ DOMAIN r = 1..n
  BY LenProperties DEF HasNames
<1>1. \A i \in 1..n : r[i] \in In(r)
  BY <1>0 DEF In
<1>2. ASSUME NEW i \in 1..n PROVE name(r[i]) \in Data /\ l.mem[r[i]].data = {name(r[i])}
  <2>1. \E d \in Data : l.mem[r[i]].data = {d}
    BY <1>1 DEF HasNames
  <2> QED BY <2>1
<1>3. v = [i \in 1..n |-> name(r[i])]
  BY <1>0, Zenon DEF DataOf
<1> HIDE DEF name, v
<1>4. v \in [1..n -> Data] /\ \A i \in 1..n : v[i] = name(r[i])
  BY <1>2, <1>3
<1>5. v \in Seq(Data)
  BY <1>0, <1>4, SeqDef
<1>6. Len(v) = n /\ DOMAIN v = 1..n
  <2>1. DOMAIN v = 1..Len(v) /\ Len(v) \in Nat /\ DOMAIN v = 1..n
    BY <1>4, <1>5, LenProperties
  <2>2. n \in Nat
    BY <1>0
  <2>3. Len(v) = n
    BY <2>1, <2>2
  <2> QED BY <2>1, <2>3
<1> QED BY <1>0, <1>1, <1>2, <1>4, <1>5, <1>6 DEF v

LEMMA ElementsAre ==
  ASSUME NEW l, NEW r, HasNames(l, r), NEW c
  PROVE  c \in Promise!Elements(DataOf(l, r)) <=> \E e \in In(r) : l.mem[e].data = {c}
<1> DEFINE v == DataOf(l, r)
<1>1. /\ Len(r) \in Nat /\ DOMAIN v = 1..Len(r)
      /\ \A i \in 1..Len(r) : r[i] \in In(r) /\ l.mem[r[i]].data = {v[i]}
  BY NamesAre
<1> HIDE DEF v
<1>2. \A e \in In(r) : \E i \in 1..Len(r) : e = r[i]
  <2>1. DOMAIN r = 1..Len(r)
    BY LenProperties DEF HasNames
  <2> QED BY <2>1 DEF In
<1>3. c \in Promise!Elements(v) <=> \E i \in 1..Len(r) : c = v[i]
  BY <1>1 DEF Promise!Elements
<1>4. ASSUME NEW i \in 1..Len(r), c = v[i] PROVE \E e \in In(r) : l.mem[e].data = {c}
  BY <1>1, <1>4
<1>5. ASSUME NEW e \in In(r), l.mem[e].data = {c} PROVE \E i \in 1..Len(r) : c = v[i]
  <2>1. PICK i \in 1..Len(r) : e = r[i]
    BY <1>2
  <2>2. {c} = {v[i]}
    BY <1>1, <1>5, <2>1
  <2>3. c = v[i]
    BY <2>2
  <2> QED BY <2>3
<1> QED BY <1>3, <1>4, <1>5 DEF v

LEMMA SubsequenceOf ==
  ASSUME NEW l, NEW r, HasNames(l, r), NEW m, NEW u, HasNames(m, u),
         In(u) \subseteq In(r), InOrder(u, r),
         \A e \in In(u) : m.mem[e].data = l.mem[e].data
  PROVE  Promise!Subsequence(DataOf(m, u), DataOf(l, r))
<1> DEFINE v == DataOf(l, r)
           w == DataOf(m, u)
<1>1. /\ Len(r) \in Nat /\ DOMAIN v = 1..Len(r)
      /\ \A i \in 1..Len(r) : r[i] \in In(r) /\ l.mem[r[i]].data = {v[i]}
  BY NamesAre
<1>2. /\ Len(u) \in Nat /\ DOMAIN w = 1..Len(u)
      /\ \A i \in 1..Len(u) : u[i] \in In(u) /\ m.mem[u[i]].data = {w[i]}
  BY NamesAre
<1>3. ASSUME NEW c \in Promise!Elements(w) PROVE c \in Promise!Elements(v)
  <2>1. PICK e \in In(u) : m.mem[e].data = {c}
    BY ElementsAre
  <2>2. e \in In(r) /\ l.mem[e].data = {c}
    BY <2>1
  <2> QED BY <2>2, ElementsAre
<1> HIDE DEF v, w
<1>4. ASSUME NEW i \in 1..Len(u), NEW j \in 1..Len(u), i < j
      PROVE  \E k, n \in DOMAIN v : k < n /\ w[i] = v[k] /\ w[j] = v[n]
  <2>1. PICK k \in 1..Len(r), n \in 1..Len(r) : k < n /\ u[i] = r[k] /\ u[j] = r[n]
    BY <1>4, Zenon DEF InOrder
  <2>2. {w[i]} = {v[k]} /\ {w[j]} = {v[n]}
    <3>1. {w[i]} = m.mem[u[i]].data /\ {w[j]} = m.mem[u[j]].data
      BY <1>2
    <3>2. {v[k]} = l.mem[r[k]].data /\ {v[n]} = l.mem[r[n]].data
      BY <1>1
    <3>3. u[i] \in In(u) /\ u[j] \in In(u)
      BY <1>2
    <3>4. m.mem[u[i]].data = l.mem[u[i]].data /\ m.mem[u[j]].data = l.mem[u[j]].data
      BY <3>3
    <3> QED BY <2>1, <3>1, <3>2, <3>4
  <2>3. w[i] = v[k] /\ w[j] = v[n]
    BY <2>2
  <2> QED BY <1>1, <2>1, <2>3
<1>5. Promise!Elements(w) \subseteq Promise!Elements(v)
  BY <1>3
<1> QED BY <1>2, <1>4, <1>5 DEF Promise!Subsequence, v, w

LEMMA AllNamed ==
  ASSUME NEW l, NEW s, NEW held, ListInv(l, s, held)
  PROVE  HasNames(l, s) /\ \A k \in 1..(Len(s) + 1) : HasNames(l, Rest(s, k))
<1>1. s \in Seq(Entries) /\ \A e \in In(s) : \E d \in Data : l.mem[e].data = {d}
  BY ShapeIs DEF ListInv, Named
<1>2. ASSUME NEW k \in 1..(Len(s) + 1) PROVE HasNames(l, Rest(s, k))
  <2>1. Rest(s, k) \in Seq(Entries)
    BY <1>1, RestIs
  <2>2. \A e \in In(Rest(s, k)) : e \in In(s)
    <3>1. \A e \in In(Rest(s, k)) : \E j \in 1..Len(s) : j >= k /\ e = s[j]
      BY <1>1, RestIs
    <3>2. \A j \in 1..Len(s) : s[j] \in In(s)
      BY ShapeIs DEF ListInv
    <3> QED BY <3>1, <3>2
  <2> QED BY <1>1, <2>1, <2>2 DEF HasNames
<1> QED BY <1>1, <1>2 DEF HasNames

LEMMA NoNames ==
  ASSUME NEW l
  PROVE  HasNames(l, <<>>) /\ DataOf(l, <<>>) = <<>> /\ In(<<>>) = {}
<1>1. In(<<>>) = {}
  BY DEF In
<1>2. HasNames(l, <<>>)
  BY <1>1 DEF HasNames
<1>3. DataOf(l, <<>>) \in Seq(Data) /\ Len(DataOf(l, <<>>)) = Len(<<>>)
  BY <1>2, NamesAre
<1>4. DataOf(l, <<>>) = <<>>
  BY <1>3, EmptySeq
<1> QED BY <1>1, <1>2, <1>4

\* What the walk has ahead of it before and after a removal.
LEMMA AheadAgrees ==
  ASSUME NEW l, NEW s, NEW held, ListInv(l, s, held),
         NEW m, NEW t, ListInv(m, t, held), NEW gone, Removed(l, s, m, t, gone, held),
         held \notin In(t) \cup {0} /\ t # <<>> => l.mem[held].next \notin gone
  PROVE  /\ HasNames(l, Ahead(l, held)) /\ HasNames(m, Ahead(m, held))
         /\ In(Ahead(m, held)) = In(Ahead(l, held)) \cap In(t)
         /\ InOrder(Ahead(m, held), Ahead(l, held))
<1>1. Shape(l, s) /\ Shape(m, t) /\ InOrder(t, s) /\ In(t) = In(s) \ gone
  BY DEF ListInv, Removed
<1>2. InOrder(<<>>, Ahead(l, held)) /\ In(<<>>) = {}
  BY DEF InOrder, In
<1>3. CASE held = 0
  <2>1. Ahead(l, held) = <<>> /\ Ahead(m, held) = <<>>
    BY <1>3, Zenon DEF Ahead
  <2> QED BY <1>2, <2>1, NoNames
<1>4. CASE held # 0 /\ t = <<>>
  <2>1. m.head = 0
    BY <1>1, <1>4, ShapeIs
  <2>2. Ahead(m, held) = <<>>
    BY <2>1, Zenon DEF Ahead
  <2>3. HasNames(l, Ahead(l, held))
    <3>1. CASE s = <<>>
      <4>1. l.head = 0
        BY <1>1, <3>1, ShapeIs
      <4>2. Ahead(l, held) = <<>>
        BY <4>1, Zenon DEF Ahead
      <4> QED BY <4>2, NoNames
    <3>2. CASE s # <<>>
      <4>1. PICK k : GoesOn(l, s, held, k)
        BY <1>4, <3>2, WalkGoesOn
      <4> QED BY <4>1, AllNamed DEF GoesOn
    <3> QED BY <3>1, <3>2
  <2> QED BY <1>2, <1>4, <2>2, <2>3, NoNames
<1>5. CASE held # 0 /\ t # <<>>
  <2>1. s # <<>>
    <3>1. t[1] \in In(t)
      BY <1>1, <1>5, ShapeIs
    <3> QED BY <1>1, <1>2, <3>1
  <2>2. PICK k : GoesOn(l, s, held, k)
    BY <1>5, <2>1, WalkGoesOn
  <2>3. PICK n : GoesOn(m, t, held, n)
    BY <1>5, WalkGoesOn
  <2>4. \A i \in 1..Len(t) : \A j \in 1..Len(s) : t[i] = s[j] => (i >= n <=> j >= k)
    BY <1>5, <2>2, <2>3, PlacesAgree
  <2>5. /\ k \in 1..(Len(s) + 1) /\ n \in 1..(Len(t) + 1)
        /\ Ahead(l, held) = Rest(s, k) /\ Ahead(m, held) = Rest(t, n)
    BY <2>2, <2>3 DEF GoesOn
  <2>6. In(Rest(t, n)) = In(Rest(s, k)) \cap In(t) /\ InOrder(Rest(t, n), Rest(s, k))
    <3>1. s \in Seq(Entries) /\ t \in Seq(Entries) /\ Distinct(s) /\ In(t) \subseteq In(s)
      BY <1>1, ShapeIs DEF Shape
    <3> QED BY <1>1, <2>4, <2>5, <3>1, RestAgrees
  <2> QED BY <2>5, <2>6, AllNamed
<1> QED BY <1>3, <1>4, <1>5

\* The abstract state, of a queue and the entry that is held.
AbsList(l) == DataOf(l, List(l))
AbsHere(l, held) == IF held = 0 THEN {} ELSE l.mem[held].data
AbsAhead(l, held) == IF held = 0 \/ l.head = 0 THEN <<>> ELSE DataOf(l, Chain(l, l.mem[held].next))

LEMMA AbstractIs ==
  ASSUME NEW l, NEW s, NEW held, ListInv(l, s, held)
  PROVE  AbsList(l) = DataOf(l, s) /\ AbsAhead(l, held) = DataOf(l, Ahead(l, held))
<1>1. List(l) = s
  BY ListIs DEF ListInv
<1>2. AbsList(l) = DataOf(l, s)
  BY <1>1, Zenon DEF AbsList
<1>3. CASE held = 0 \/ l.head = 0
  <2>1. Ahead(l, held) = <<>> /\ AbsAhead(l, held) = <<>>
    BY <1>3, Zenon DEF Ahead, AbsAhead
  <2> QED BY <1>2, <2>1, NoNames
<1>4. CASE ~(held = 0 \/ l.head = 0)
  BY <1>2, <1>4, Zenon DEF Ahead, AbsAhead
<1> QED BY <1>3, <1>4

LEMMA AheadListed ==
  ASSUME NEW l, NEW s, NEW held, ListInv(l, s, held)
  PROVE  In(Ahead(l, held)) \subseteq In(s)
<1>1. CASE held = 0 \/ l.head = 0
  <2>1. Ahead(l, held) = <<>>
    BY <1>1, Zenon DEF Ahead
  <2> QED BY <2>1, NoNames
<1>2. CASE held # 0 /\ l.head # 0
  <2>1. Shape(l, s) /\ s # <<>>
    BY <1>2, ShapeIs DEF ListInv
  <2>2. PICK k : GoesOn(l, s, held, k)
    BY <1>2, <2>1, WalkGoesOn
  <2>3. k \in 1..(Len(s) + 1) /\ Ahead(l, held) = Rest(s, k)
    BY <2>2 DEF GoesOn
  <2>4. \A e \in In(Rest(s, k)) : \E j \in 1..Len(s) : j >= k /\ e = s[j]
    BY <2>1, <2>3, ShapeIs, RestIs
  <2>5. \A j \in 1..Len(s) : s[j] \in In(s)
    BY <2>1, ShapeIs
  <2> QED BY <2>3, <2>4, <2>5
<1> QED BY <1>1, <1>2

LEMMA RemovalTakesOut ==
  ASSUME NEW s, Inv(s), NEW t, RemovalOf(s, t)
  PROVE  Promise!TakeOut
<1>1. ListInv(q, s, at) /\ ListInv(q', t, at) /\ at' = at
  BY DEF Inv, RemovalOf
<1>2. PICK gone : /\ Removed(q, s, q', t, gone, at)
                  /\ at \notin In(t) \cup {0} /\ t # <<>> => q.mem[at].next \notin gone
  BY Zenon DEF RemovalOf
<1>3. /\ In(t) \subseteq In(s) /\ InOrder(t, s)
      /\ \A e \in In(t) : q'.mem[e].data = q.mem[e].data
      /\ at # 0 => q'.mem[at].data = q.mem[at].data
  <2>1. In(t) = In(s) \ gone
    BY <1>2, Zenon DEF Removed
  <2>2. In(t) \subseteq In(s)
    BY <2>1
  <2> QED BY <1>2, <2>2, Zenon DEF Removed
<1> DEFINE r == Ahead(q, at)
           u == Ahead(q', at)
<1>4. HasNames(q, r) /\ HasNames(q', u) /\ In(u) = In(r) \cap In(t) /\ InOrder(u, r)
  BY <1>1, <1>2, AheadAgrees
<1>5. HasNames(q, s) /\ HasNames(q', t)
  BY <1>1, AllNamed
<1>6. /\ AbsList(q) = DataOf(q, s) /\ AbsList(q') = DataOf(q', t)
      /\ AbsAhead(q, at) = DataOf(q, r) /\ AbsAhead(q', at') = DataOf(q', u)
  BY <1>1, AbstractIs
<1> HIDE DEF r, u
<1>7. Promise!Subsequence(DataOf(q', t), DataOf(q, s))
  BY <1>3, <1>5, SubsequenceOf
<1>8. Promise!Subsequence(DataOf(q', u), DataOf(q, r))
  BY <1>3, <1>4, SubsequenceOf
<1>9. Promise!Elements(DataOf(q', u))
        = Promise!Elements(DataOf(q, r)) \cap Promise!Elements(DataOf(q', t))
  <2>1. ASSUME NEW c \in Promise!Elements(DataOf(q', u))
        PROVE  c \in Promise!Elements(DataOf(q, r)) /\ c \in Promise!Elements(DataOf(q', t))
    <3>1. PICK e \in In(u) : q'.mem[e].data = {c}
      BY <1>4, ElementsAre
    <3>2. e \in In(r) /\ e \in In(t) /\ q.mem[e].data = {c}
      BY <1>3, <1>4, <3>1
    <3> QED BY <1>4, <1>5, <3>1, <3>2, ElementsAre
  <2>2. ASSUME NEW c, c \in Promise!Elements(DataOf(q, r)), c \in Promise!Elements(DataOf(q', t))
        PROVE  c \in Promise!Elements(DataOf(q', u))
    <3>1. PICK e \in In(r) : q.mem[e].data = {c}
      BY <1>4, <2>2, ElementsAre
    <3>2. PICK f \in In(t) : q'.mem[f].data = {c}
      BY <1>5, <2>2, ElementsAre
    <3>3. q.mem[f].data = {c} /\ f \in In(s)
      BY <1>3, <3>2
    <3>4. e = f
      <4>1. In(r) \subseteq In(s)
        BY <1>1, AheadListed DEF r
      <4>2. In(s) \subseteq Entries
        BY <1>1, ShapeIs DEF ListInv
      <4> QED BY <1>1, <3>1, <3>3, <4>1, <4>2 DEF ListInv, Named
    <3> QED BY <1>4, <3>1, <3>2, <3>4, ElementsAre
  <2> QED BY <2>1, <2>2
<1>10. AbsHere(q', at') = AbsHere(q, at)
  BY <1>1, <1>3 DEF AbsHere
<1>11. /\ Promise!Subsequence(AbsList(q'), AbsList(q))
       /\ Promise!Subsequence(AbsAhead(q', at'), AbsAhead(q, at))
       /\ Promise!Elements(AbsAhead(q', at'))
            = Promise!Elements(AbsAhead(q, at)) \cap Promise!Elements(AbsList(q'))
  BY <1>6, <1>7, <1>8, <1>9, Zenon
<1> QED BY <1>10, <1>11, Zenon DEF Promise!TakeOut, AbsList, AbsHere, AbsAhead

---------------------------------------------------------------------------
(* The walk takes from what lies ahead.                                    *)

LEMMA SameNames ==
  ASSUME NEW l, NEW m, NEW r, HasNames(l, r), HasNames(m, r),
         \A e \in In(r) : m.mem[e].data = l.mem[e].data
  PROVE  DataOf(m, r) = DataOf(l, r)
<1> DEFINE v == DataOf(l, r)
           w == DataOf(m, r)
<1>1. /\ Len(r) \in Nat /\ v \in Seq(Data) /\ Len(v) = Len(r)
      /\ \A i \in 1..Len(r) : r[i] \in In(r) /\ l.mem[r[i]].data = {v[i]}
  <2>1. HasNames(l, r)
    OBVIOUS
  <2> QED BY ONLY <2>1, NamesAre
<1>2. /\ Len(r) \in Nat /\ w \in Seq(Data) /\ Len(w) = Len(r)
      /\ \A i \in 1..Len(r) : r[i] \in In(r) /\ m.mem[r[i]].data = {w[i]}
  <2>1. HasNames(m, r)
    OBVIOUS
  <2> QED BY ONLY <2>1, NamesAre
<1> HIDE DEF v, w
<1>3. ASSUME NEW i \in 1..Len(r) PROVE w[i] = v[i]
  <2>1. {w[i]} = {v[i]}
    BY <1>1, <1>2
  <2> QED BY <2>1
<1>4. w = v
  BY <1>1, <1>2, <1>3, SeqEqual
<1> QED BY <1>4 DEF v, w

LEMMA NamesOfRest ==
  ASSUME NEW l, NEW s, NEW held, ListInv(l, s, held), NEW k \in 1..Len(s)
  PROVE  /\ DataOf(l, Rest(s, k)) # <<>>
         /\ l.mem[s[k]].data = {Head(DataOf(l, Rest(s, k)))}
         /\ DataOf(l, Rest(s, k + 1)) = Tail(DataOf(l, Rest(s, k)))
<1> DEFINE n == Len(s)
           r == Rest(s, k)
           u == Rest(s, k + 1)
           v == DataOf(l, r)
           w == DataOf(l, u)
<1>0. s \in Seq(Entries) /\ n \in Nat /\ k \in 1..(n + 1) /\ k + 1 \in 1..(n + 1)
  BY ShapeIs DEF ListInv
<1>1. Len(r) = n - k + 1 /\ \A i \in 1..(n - k + 1) : r[i] = s[i + k - 1]
  BY <1>0, RestIs
<1>2. Len(u) = n - k /\ \A i \in 1..(n - k) : u[i] = s[i + k]
  <2>1. /\ Len(u) = n - (k + 1) + 1
        /\ \A i \in 1..(n - (k + 1) + 1) : u[i] = s[i + (k + 1) - 1]
    BY <1>0, RestIs
  <2>2. n - (k + 1) + 1 = n - k /\ \A i \in 1..(n - k) : i + (k + 1) - 1 = i + k
    BY <1>0
  <2> QED BY <2>1, <2>2
<1>3. HasNames(l, r) /\ HasNames(l, u)
  BY <1>0, AllNamed
<1>4. /\ v \in Seq(Data) /\ Len(v) = Len(r)
      /\ \A i \in 1..Len(r) : l.mem[r[i]].data = {v[i]}
  BY <1>3, NamesAre
<1>5. /\ w \in Seq(Data) /\ Len(w) = Len(u)
      /\ \A i \in 1..Len(u) : l.mem[u[i]].data = {w[i]}
  BY <1>3, NamesAre
<1> HIDE DEF r, u, v, w
<1>6. 1 \in 1..Len(r) /\ Len(v) > 0 /\ v # <<>> /\ r[1] = s[k]
  <2>1. 1 \in 1..(n - k + 1) /\ 1 + k - 1 = k
    BY <1>0
  <2> QED BY <1>1, <1>4, <2>1
<1>7. l.mem[s[k]].data = {Head(v)}
  <2>1. Head(v) = v[1]
    BY <1>4, <1>6
  <2>2. l.mem[r[1]].data = {v[1]}
    BY <1>4, <1>6
  <2> QED BY <1>6, <2>1, <2>2, Zenon
<1>8. /\ Tail(v) \in Seq(Data) /\ Len(Tail(v)) = n - k
      /\ \A i \in 1..(n - k) : Tail(v)[i] = v[i + 1]
  BY <1>0, <1>1, <1>4, <1>6, HeadTailProperties
<1>9. ASSUME NEW i \in 1..(n - k) PROVE w[i] = Tail(v)[i]
  <2>1. i + 1 \in 1..(n - k + 1) /\ (i + 1) + k - 1 = i + k
    BY <1>0
  <2>2. u[i] = r[i + 1]
    BY <1>1, <1>2, <2>1
  <2>3. {w[i]} = {v[i + 1]}
    BY <1>1, <1>2, <1>4, <1>5, <2>1, <2>2
  <2> QED BY <1>8, <2>3
<1>10. w = Tail(v)
  BY <1>2, <1>5, <1>8, <1>9, SeqEqual
<1> QED BY <1>6, <1>7, <1>10 DEF r, u, v, w

LEMMA HoldsNext ==
  ASSUME NEW l, NEW s, NEW held, ListInv(l, s, held), NEW k \in 1..Len(s),
         NEW m, ListInv(m, s, s[k]), SameOf(m, l, s)
  PROVE  /\ DataOf(l, Rest(s, k)) # <<>>
         /\ AbsHere(m, s[k]) = {Head(DataOf(l, Rest(s, k)))}
         /\ AbsAhead(m, s[k]) = Tail(DataOf(l, Rest(s, k)))
<1>1. Shape(l, s) /\ s \in Seq(Entries) /\ Len(s) \in Nat /\ s[k] # 0 /\ s[k] \in In(s) /\ s # <<>>
  <2>1. Shape(l, s)
    BY DEF ListInv
  <2>2. s # <<>>
    OBVIOUS
  <2> QED BY <2>1, <2>2, ShapeIs
<1>2. /\ DataOf(l, Rest(s, k)) # <<>>
      /\ l.mem[s[k]].data = {Head(DataOf(l, Rest(s, k)))}
      /\ DataOf(l, Rest(s, k + 1)) = Tail(DataOf(l, Rest(s, k)))
  BY NamesOfRest
<1>3. AbsHere(m, s[k]) = l.mem[s[k]].data
  BY <1>1 DEF AbsHere, SameOf
<1>4. PICK n : GoesOn(m, s, s[k], n)
  BY <1>1, WalkGoesOn
<1>5. n = k + 1
  <2>1. n \in 1..(Len(s) + 1) /\ n > 1 /\ s[k] = s[n - 1]
    BY <1>1, <1>4 DEF GoesOn
  <2>2. n - 1 \in 1..Len(s)
    BY <1>1, <2>1
  <2>3. n - 1 = k
    BY <1>1, <2>1, <2>2 DEF Shape, Distinct
  <2> QED BY <2>1, <2>3
<1>6. Ahead(m, s[k]) = Rest(s, k + 1)
  BY <1>4, <1>5 DEF GoesOn
<1>7. DataOf(m, Rest(s, k + 1)) = DataOf(l, Rest(s, k + 1))
  <2>1. k + 1 \in 1..(Len(s) + 1)
    BY <1>1
  <2>2. HasNames(l, Rest(s, k + 1)) /\ HasNames(m, Rest(s, k + 1))
    BY <2>1, AllNamed
  <2>3. \A e \in In(Rest(s, k + 1)) : e \in In(s)
    BY <1>6, AheadListed
  <2> QED BY <2>2, <2>3, SameNames DEF SameOf
<1>8. AbsAhead(m, s[k]) = DataOf(m, Ahead(m, s[k]))
  BY AbstractIs
<1> QED BY <1>2, <1>3, <1>6, <1>7, <1>8

LEMMA RestFromFirst ==
  ASSUME NEW s, s \in Seq(Entries)
  PROVE  Rest(s, 1) = s /\ Rest(s, Len(s) + 1) = <<>>
<1>0. Len(s) \in Nat
  BY LenProperties
<1>1. 1 \in 1..(Len(s) + 1) /\ Len(s) + 1 \in 1..(Len(s) + 1)
  BY <1>0
<1>2. /\ Rest(s, 1) \in Seq(Entries) /\ Len(Rest(s, 1)) = Len(s) - 1 + 1
      /\ \A i \in 1..(Len(s) - 1 + 1) : Rest(s, 1)[i] = s[i + 1 - 1]
  BY <1>1, RestIs
<1>3. Len(Rest(s, 1)) = Len(s) /\ \A i \in 1..Len(s) : Rest(s, 1)[i] = s[i]
  BY <1>0, <1>2
<1>4. Rest(s, 1) = s
  <2> DEFINE r == Rest(s, 1)
  <2>1. r \in Seq(Entries) /\ Len(r) = Len(s) /\ \A i \in 1..Len(r) : r[i] = s[i]
    BY <1>2, <1>3
  <2> HIDE DEF r
  <2>2. r = s
    BY <2>1, SeqEqual
  <2> QED BY <2>2 DEF r
<1>5. Rest(s, Len(s) + 1) \in Seq(Entries) /\ Len(Rest(s, Len(s) + 1)) = 0
  <2>1. /\ Rest(s, Len(s) + 1) \in Seq(Entries)
        /\ Len(Rest(s, Len(s) + 1)) = Len(s) - (Len(s) + 1) + 1
    BY <1>1, RestIs
  <2>2. Len(s) - (Len(s) + 1) + 1 = 0
    BY <1>0
  <2> QED BY <2>1, <2>2
<1>6. Rest(s, Len(s) + 1) = <<>>
  BY <1>5, EmptySeq
<1> QED BY <1>4, <1>6

LEMMA WalkStarts ==
  ASSUME NEW s, Inv(s), StartWalk
  PROVE  Promise!Start
<1>1. HoldOf(s, q.head) /\ s # <<>> /\ q.head = s[1] /\ at = 0
  BY StartStep
<1>2. ListInv(q, s, 0) /\ Shape(q, s)
  BY <1>1 DEF Inv, ListInv
<1>3. 1 \in 1..Len(s) /\ s \in Seq(Entries)
  BY <1>1, <1>2, ShapeIs
<1>4. at' = s[1] /\ ListInv(q', s, s[1]) /\ SameOf(q', q, s)
  BY <1>1 DEF HoldOf
<1>5. /\ DataOf(q, Rest(s, 1)) # <<>>
      /\ AbsHere(q', s[1]) = {Head(DataOf(q, Rest(s, 1)))}
      /\ AbsAhead(q', s[1]) = Tail(DataOf(q, Rest(s, 1)))
  BY <1>2, <1>3, <1>4, HoldsNext
<1>6. AbsList(q) = DataOf(q, s) /\ AbsList(q') = DataOf(q', s)
  BY <1>2, <1>4, AbstractIs
<1>7. DataOf(q', s) = DataOf(q, s)
  BY <1>2, <1>4, AllNamed, SameNames DEF SameOf
<1>8. Rest(s, 1) = s
  BY <1>3, RestFromFirst
<1>9. /\ AbsHere(q, at) = {} /\ AbsList(q) # <<>> /\ AbsHere(q', at') = {Head(AbsList(q))}
      /\ AbsAhead(q', at') = Tail(AbsList(q)) /\ AbsList(q') = AbsList(q)
  BY <1>1, <1>4, <1>5, <1>6, <1>7, <1>8, Zenon DEF AbsHere
<1> QED BY <1>9, Zenon DEF Promise!Start, AbsList, AbsHere, AbsAhead

LEMMA WalkSteps ==
  ASSUME NEW s, Inv(s), StepWalk
  PROVE  Promise!Step
<1> DEFINE next == IF s = <<>> THEN 0 ELSE q.mem[at].next
<1>1. HoldOf(s, next)
  BY WalkStep
<1>2. /\ ListInv(q, s, at) /\ Shape(q, s) /\ at # 0 /\ at \in Entries
      /\ s \in Seq(Entries) /\ Len(s) \in Nat
  BY ShapeIs DEF Inv, ListInv, StepWalk, Links, Entries
<1>3. at' = next /\ ListInv(q', s, next) /\ SameOf(q', q, s)
  BY <1>1 DEF HoldOf
<1>4. AbsHere(q, at) # {}
  <2>1. \E d \in Data : q.mem[at].data = {d}
    BY <1>2 DEF ListInv, Named
  <2> QED BY <1>2, <2>1 DEF AbsHere
<1>5. AbsList(q') = AbsList(q)
  <2>1. AbsList(q) = DataOf(q, s) /\ AbsList(q') = DataOf(q', s)
    BY <1>2, <1>3, AbstractIs
  <2>2. DataOf(q', s) = DataOf(q, s)
    BY <1>2, <1>3, AllNamed, SameNames DEF SameOf
  <2> QED BY <2>1, <2>2
<1>6. IF AbsAhead(q, at) = <<>>
      THEN AbsHere(q', at') = {} /\ AbsAhead(q', at') = AbsAhead(q, at)
      ELSE /\ AbsHere(q', at') = {Head(AbsAhead(q, at))}
           /\ AbsAhead(q', at') = Tail(AbsAhead(q, at))
  <2>1. CASE s = <<>>
    <3>1. q.head = 0
      BY <1>2, <2>1, ShapeIs
    <3>2. AbsAhead(q, at) = <<>>
      BY <3>1, Zenon DEF AbsAhead
    <3>3. AbsHere(q', at') = {} /\ AbsAhead(q', at') = <<>>
      BY <1>3, <2>1 DEF AbsHere, AbsAhead
    <3> QED BY <3>2, <3>3
  <2>2. CASE s # <<>>
    <3>1. PICK k : GoesOn(q, s, at, k)
      BY <1>2, <2>2, WalkGoesOn
    <3>2. k \in 1..(Len(s) + 1) /\ next = At(s, k) /\ Ahead(q, at) = Rest(s, k)
      BY <2>2, <3>1 DEF GoesOn
    <3>3. AbsAhead(q, at) = DataOf(q, Rest(s, k))
      BY <1>2, <3>2, AbstractIs
    <3> HIDE DEF next
    <3>4. CASE k = Len(s) + 1
      <4>1. Rest(s, k) = <<>>
        BY <1>2, <3>4, RestFromFirst
      <4>2. AbsAhead(q, at) = <<>>
        BY <3>3, <4>1, NoNames
      <4>3. next = 0
        BY <1>2, <3>2, <3>4 DEF At
      <4>4. AbsHere(q', at') = {} /\ AbsAhead(q', at') = <<>>
        BY <1>3, <4>3 DEF AbsHere, AbsAhead
      <4> QED BY <4>2, <4>4
    <3>5. CASE k # Len(s) + 1
      <4>1. k \in 1..Len(s) /\ next = s[k]
        BY <1>2, <3>2, <3>5 DEF At
      <4>2. /\ DataOf(q, Rest(s, k)) # <<>>
            /\ AbsHere(q', s[k]) = {Head(DataOf(q, Rest(s, k)))}
            /\ AbsAhead(q', s[k]) = Tail(DataOf(q, Rest(s, k)))
        BY <1>2, <1>3, <4>1, HoldsNext
      <4> QED BY <1>3, <3>3, <4>1, <4>2
    <3> QED BY <3>4, <3>5
  <2> QED BY <2>1, <2>2
<1> QED BY <1>4, <1>5, <1>6, Zenon DEF Promise!Step, AbsList, AbsHere, AbsAhead

LEMMA NewStutters ==
  ASSUME NEW s, Inv(s), queue_new
  PROVE  UNCHANGED Promise!vars
<1>1. s = <<>> /\ at = 0 /\ at' = 0 /\ q.head = 0 /\ q'.head = 0 /\ ListInv(q', <<>>, 0)
  BY NewStep
<1>2. ListInv(q, <<>>, 0)
  BY <1>1 DEF Inv
<1>3. AbsList(q) = <<>> /\ AbsList(q') = <<>>
  BY <1>1, <1>2, AbstractIs, NoNames
<1>4. AbsHere(q, at) = {} /\ AbsHere(q', at') = {} /\ AbsAhead(q, at) = <<>> /\ AbsAhead(q', at') = <<>>
  BY <1>1 DEF AbsHere, AbsAhead
<1> QED BY <1>3, <1>4, Zenon DEF Promise!vars, AbsList, AbsHere, AbsAhead

---------------------------------------------------------------------------
(* Pushes put into the list, and into what lies ahead.                     *)

LEMMA InsertIsPut ==
  ASSUME NEW v, v \in Seq(Data), NEW d, d \in Data, NEW k \in 1..(Len(v) + 1)
  PROVE  Promise!InsertAt(v, k, d) = Put(v, k, d)
<1> DEFINE n == Len(v)
           a == SubSeq(v, 1, k - 1)
           b == SubSeq(v, k, n)
           w == a \o <<d>> \o b
           p == Put(v, k, d)
<1>0. n \in Nat /\ k \in Nat /\ k - 1 \in Nat
  BY LenProperties
<1>1. /\ p \in Seq(Data) /\ Len(p) = n + 1
      /\ \A i \in 1..(n + 1) : p[i] = IF i < k THEN v[i] ELSE IF i = k THEN d ELSE v[i - 1]
  BY PutIs
<1>2. a \in Seq(Data) /\ Len(a) = k - 1 /\ \A i \in 1..(k - 1) : a[i] = v[i]
  <2>1. \A i \in 1..(k - 1) : v[i] \in Data
    BY <1>0, ElementOfSeq
  <2> QED BY <1>0, <2>1
<1>3. b \in Seq(Data) /\ Len(b) = n - k + 1 /\ \A i \in 1..(n - k + 1) : b[i] = v[i + k - 1]
  <2>1. \A i \in k..n : v[i] \in Data
    BY <1>0, ElementOfSeq
  <2> QED BY <1>0, <2>1
<1>4. <<d>> \in Seq(Data) /\ Len(<<d>>) = 1 /\ <<d>>[1] = d
  OBVIOUS
<1> HIDE DEF a, b, p
<1>5. /\ a \o <<d>> \in Seq(Data) /\ Len(a \o <<d>>) = k
      /\ \A i \in 1..(k - 1) : (a \o <<d>>)[i] = v[i]
      /\ (a \o <<d>>)[k] = d
  BY <1>0, <1>2, <1>4
<1> DEFINE c == a \o <<d>>
<1> HIDE DEF c
<1>6. /\ c \o b \in Seq(Data) /\ Len(c \o b) = n + 1
      /\ \A i \in 1..k : (c \o b)[i] = c[i]
      /\ \A i \in (k + 1)..(n + 1) : (c \o b)[i] = b[i - k]
  <2>1. c \in Seq(Data) /\ Len(c) = k
    BY <1>5 DEF c
  <2>2. /\ c \o b \in Seq(Data) /\ Len(c \o b) = Len(c) + Len(b)
        /\ \A i \in 1..(Len(c) + Len(b)) :
             (c \o b)[i] = IF i <= Len(c) THEN c[i] ELSE b[i - Len(c)]
    BY <1>3, <2>1, ConcatProperties
  <2>3. k + (n - k + 1) = n + 1
    BY <1>0
  <2>4. /\ Len(c \o b) = n + 1
        /\ \A i \in 1..(n + 1) : (c \o b)[i] = IF i <= k THEN c[i] ELSE b[i - k]
    BY <1>3, <2>1, <2>2, <2>3
  <2>5. \A i \in 1..k : i \in 1..(n + 1) /\ i <= k
    BY <1>0
  <2>6. \A i \in (k + 1)..(n + 1) : i \in 1..(n + 1) /\ ~(i <= k)
    BY <1>0
  <2> QED BY <2>2, <2>4, <2>5, <2>6
<1>7. w = c \o b
  BY DEF c
<1> HIDE DEF w
<1>8. ASSUME NEW i \in 1..(n + 1) PROVE w[i] = p[i]
  <2>1. CASE i < k
    <3>1. i \in 1..k /\ i \in 1..(k - 1)
      BY <1>0, <2>1
    <3> QED BY <1>1, <1>5, <1>6, <1>7, <2>1, <3>1 DEF c
  <2>2. CASE i = k
    <3>1. k \in 1..k /\ ~(i < k)
      BY <1>0, <2>2
    <3> QED BY <1>1, <1>5, <1>6, <1>7, <2>2, <3>1 DEF c
  <2>3. CASE i > k
    <3>1. i \in (k + 1)..(n + 1) /\ i - k \in 1..(n - k + 1) /\ (i - k) + k - 1 = i - 1
          /\ ~(i < k) /\ i # k
      BY <1>0, <2>3
    <3>2. b[i - k] = v[i - 1]
      BY <1>3, <3>1
    <3> QED BY <1>1, <1>6, <1>7, <3>1, <3>2
  <2> QED BY <1>0, <2>1, <2>2, <2>3
<1>9. w = p
  BY <1>1, <1>6, <1>7, <1>8, SeqEqual
<1> QED BY <1>9, Zenon DEF Promise!InsertAt, w, p, a, b

LEMMA EndsArePut ==
  ASSUME NEW v, v \in Seq(Data), NEW d, d \in Data
  PROVE  Append(v, d) = Put(v, Len(v) + 1, d) /\ <<d>> \o v = Put(v, 1, d)
<1> DEFINE n == Len(v)
           p == Put(v, n + 1, d)
           r == Put(v, 1, d)
<1>0. n \in Nat /\ n + 1 \in 1..(n + 1) /\ 1 \in 1..(n + 1)
  BY LenProperties
<1>1. /\ p \in Seq(Data) /\ Len(p) = n + 1
      /\ \A i \in 1..(n + 1) : p[i] = IF i < n + 1 THEN v[i] ELSE IF i = n + 1 THEN d ELSE v[i - 1]
  BY <1>0, PutIs
<1>2. /\ r \in Seq(Data) /\ Len(r) = n + 1
      /\ \A i \in 1..(n + 1) : r[i] = IF i < 1 THEN v[i] ELSE IF i = 1 THEN d ELSE v[i - 1]
  BY <1>0, PutIs
<1> HIDE DEF p, r
<1>3. /\ Append(v, d) \in Seq(Data) /\ Len(Append(v, d)) = n + 1
      /\ \A i \in 1..(n + 1) : Append(v, d)[i] = IF i = n + 1 THEN d ELSE v[i]
  BY <1>0
<1>4. Append(v, d) = p
  <2> DEFINE w == Append(v, d)
  <2> HIDE DEF w
  <2>1. w \in Seq(Data) /\ Len(w) = n + 1 /\ \A i \in 1..(n + 1) : w[i] = p[i]
    BY <1>0, <1>1, <1>3 DEF w
  <2>2. w = p
    BY <1>1, <2>1, SeqEqual
  <2> QED BY <2>2 DEF w
<1>5. /\ <<d>> \o v \in Seq(Data) /\ Len(<<d>> \o v) = n + 1
      /\ \A i \in 1..(n + 1) : (<<d>> \o v)[i] = IF i = 1 THEN d ELSE v[i - 1]
  BY <1>0
<1>6. <<d>> \o v = r
  <2> DEFINE w == <<d>> \o v
  <2> HIDE DEF w
  <2>1. w \in Seq(Data) /\ Len(w) = n + 1 /\ \A i \in 1..(n + 1) : w[i] = r[i]
    BY <1>0, <1>2, <1>5 DEF w
  <2>2. w = r
    BY <1>2, <2>1, SeqEqual
  <2> QED BY <2>2 DEF w
<1> QED BY <1>4, <1>6 DEF p, r

\* The entries of r have their elements in m as in l, and e has d.
NamesWith(l, m, r, e, d) ==
  /\ HasNames(l, r) /\ e \in Entries /\ d \in Data /\ m.mem[e].data = {d}
  /\ \A x \in In(r) : m.mem[x].data = l.mem[x].data

LEMMA NamesOfPut ==
  ASSUME NEW l, NEW m, NEW r, NEW e, NEW d, NamesWith(l, m, r, e, d), NEW k \in 1..(Len(r) + 1)
  PROVE  DataOf(m, Put(r, k, e)) = Put(DataOf(l, r), k, d)
<1> DEFINE n == Len(r)
           u == Put(r, k, e)
           v == DataOf(l, r)
           w == DataOf(m, u)
           p == Put(v, k, d)
<1>h. /\ HasNames(l, r) /\ e \in Entries /\ d \in Data /\ m.mem[e].data = {d}
      /\ \A x \in In(r) : m.mem[x].data = l.mem[x].data
  BY DEF NamesWith
<1>0. r \in Seq(Entries) /\ n \in Nat
  BY <1>h, LenProperties DEF HasNames
<1>1. /\ u \in Seq(Entries) /\ Len(u) = n + 1 /\ In(u) = In(r) \cup {e}
      /\ \A i \in 1..(n + 1) : u[i] = IF i < k THEN r[i] ELSE IF i = k THEN e ELSE r[i - 1]
  BY <1>0, <1>h, PutIs, SMTT(30)
<1> HIDE DEF u
<1>2. HasNames(m, u)
  BY <1>1, <1>h DEF HasNames
<1>3. /\ v \in Seq(Data) /\ Len(v) = n
      /\ \A i \in 1..n : r[i] \in In(r) /\ l.mem[r[i]].data = {v[i]}
  BY <1>h, NamesAre
<1>u. /\ w \in Seq(Data) /\ Len(w) = Len(u)
      /\ \A i \in 1..Len(u) : m.mem[u[i]].data = {w[i]}
  BY <1>2, NamesAre
<1> HIDE DEF v, w
<1>4. /\ w \in Seq(Data) /\ Len(w) = n + 1
      /\ \A i \in 1..(n + 1) : m.mem[u[i]].data = {w[i]}
  BY <1>1, <1>u
<1>5. /\ p \in Seq(Data) /\ Len(p) = n + 1
      /\ \A i \in 1..(n + 1) : p[i] = IF i < k THEN v[i] ELSE IF i = k THEN d ELSE v[i - 1]
  BY <1>3, <1>h, PutIs
<1> HIDE DEF p
<1>6. ASSUME NEW i \in 1..(n + 1) PROVE w[i] = p[i]
  <2>1. m.mem[u[i]].data = {p[i]}
    <3>1. CASE i < k
      <4>1. i \in 1..n /\ u[i] = r[i] /\ p[i] = v[i]
        BY <1>0, <1>1, <1>5, <3>1
      <4> QED BY <1>3, <1>h, <4>1
    <3>2. CASE i = k
      <4>1. u[i] = e /\ p[i] = d
        BY <1>1, <1>5, <3>2
      <4> QED BY <1>h, <4>1
    <3>3. CASE i > k
      <4>1. i - 1 \in 1..n /\ u[i] = r[i - 1] /\ p[i] = v[i - 1]
        BY <1>0, <1>1, <1>5, <3>3
      <4> QED BY <1>3, <1>h, <4>1
    <3> QED BY <3>1, <3>2, <3>3
  <2>2. {w[i]} = {p[i]}
    BY <1>4, <2>1
  <2> QED BY <2>2
<1>7. w = p
  BY <1>4, <1>5, <1>6, SeqEqual
<1> QED BY <1>7 DEF u, v, w, p

LEMMA RestOfPut ==
  ASSUME NEW s, s \in Seq(Entries), NEW e, e \in Entries,
         NEW k \in 1..(Len(s) + 1), NEW c \in 1..(Len(s) + 1)
  PROVE  /\ c <= k => Rest(Put(s, k, e), c) = Put(Rest(s, c), k - c + 1, e)
         /\ c >= k => Rest(Put(s, k, e), c + 1) = Rest(s, c)
<1> DEFINE n == Len(s)
           t == Put(s, k, e)
           r == Rest(s, c)
<1>0. n \in Nat
  BY LenProperties
<1>1. /\ t \in Seq(Entries) /\ Len(t) = n + 1
      /\ \A i \in 1..(n + 1) : t[i] = IF i < k THEN s[i] ELSE IF i = k THEN e ELSE s[i - 1]
  BY PutIs
<1>2. /\ r \in Seq(Entries) /\ Len(r) = n - c + 1
      /\ \A i \in 1..(n - c + 1) : r[i] = s[i + c - 1]
  BY RestIs
<1> HIDE DEF t, r
<1>3. ASSUME c <= k PROVE Rest(t, c) = Put(r, k - c + 1, e)
  <2> DEFINE u == Rest(t, c)
             p == Put(r, k - c + 1, e)
  <2>1. c \in 1..(Len(t) + 1) /\ k - c + 1 \in 1..(Len(r) + 1)
    BY <1>0, <1>1, <1>2, <1>3
  <2>2. /\ u \in Seq(Entries) /\ Len(u) = Len(t) - c + 1
        /\ \A i \in 1..(Len(t) - c + 1) : u[i] = t[i + c - 1]
    BY <1>1, <2>1, RestIs
  <2>3. /\ p \in Seq(Entries) /\ Len(p) = Len(r) + 1
        /\ \A i \in 1..(Len(r) + 1) :
             p[i] = IF i < k - c + 1 THEN r[i] ELSE IF i = k - c + 1 THEN e ELSE r[i - 1]
    <3>1. ASSUME NEW x, x \in Seq(Entries), NEW g \in 1..(Len(x) + 1)
          PROVE  /\ Put(x, g, e) \in Seq(Entries) /\ Len(Put(x, g, e)) = Len(x) + 1
                 /\ \A i \in 1..(Len(x) + 1) :
                      Put(x, g, e)[i] = IF i < g THEN x[i] ELSE IF i = g THEN e ELSE x[i - 1]
      BY <3>1, PutIs
    <3>2. r \in Seq(Entries)
      BY <1>2
    <3> QED BY <2>1, <3>1, <3>2
  <2> HIDE DEF u, p
  <2>4. Len(u) = n - c + 2 /\ Len(p) = n - c + 2
    BY <1>0, <1>1, <1>2, <2>2, <2>3
  <2>5. ASSUME NEW i \in 1..(n - c + 2) PROVE u[i] = p[i]
    <3>1. i \in 1..(Len(t) - c + 1) /\ i \in 1..(Len(r) + 1) /\ i + c - 1 \in 1..(n + 1)
      BY <1>0, <1>1, <1>2
    <3>2. u[i] = t[i + c - 1]
      BY <2>2, <3>1
    <3>3. CASE i < k - c + 1
      <4>1. i + c - 1 < k /\ i \in 1..(n - c + 1)
        BY <1>0, <3>3
      <4>2. t[i + c - 1] = s[i + c - 1] /\ r[i] = s[i + c - 1]
        BY <1>1, <1>2, <3>1, <4>1
      <4> QED BY <2>3, <3>1, <3>2, <3>3, <4>2
    <3>4. CASE i = k - c + 1
      <4>1. i + c - 1 = k
        BY <1>0, <3>4
      <4>2. t[i + c - 1] = e
        BY <1>1, <3>1, <4>1
      <4>3. ~(i < k - c + 1)
        BY <1>0, <3>4
      <4> QED BY <2>3, <3>1, <3>2, <3>4, <4>2, <4>3
    <3>5. CASE i > k - c + 1
      <4>1. /\ ~(i + c - 1 < k) /\ i + c - 1 # k /\ i - 1 \in 1..(n - c + 1)
            /\ (i - 1) + c - 1 = (i + c - 1) - 1 /\ ~(i < k - c + 1) /\ i # k - c + 1
        BY <1>0, <1>3, <3>5
      <4>2. t[i + c - 1] = s[(i + c - 1) - 1] /\ r[i - 1] = s[(i + c - 1) - 1]
        BY <1>1, <1>2, <3>1, <4>1
      <4> QED BY <2>3, <3>1, <3>2, <4>1, <4>2
    <3>6. i < k - c + 1 \/ i = k - c + 1 \/ i > k - c + 1
      BY <1>0
    <3> QED BY <3>3, <3>4, <3>5, <3>6
  <2>6. u = p
    BY <2>2, <2>3, <2>4, <2>5, SeqEqual
  <2> QED BY <2>6 DEF u, p
<1>4. ASSUME c >= k PROVE Rest(t, c + 1) = r
  <2> DEFINE u == Rest(t, c + 1)
  <2>1. c + 1 \in 1..(Len(t) + 1)
    BY <1>0, <1>1
  <2>2. /\ u \in Seq(Entries) /\ Len(u) = Len(t) - (c + 1) + 1
        /\ \A i \in 1..(Len(t) - (c + 1) + 1) : u[i] = t[i + (c + 1) - 1]
    BY <1>1, <2>1, RestIs
  <2> HIDE DEF u
  <2>3. Len(u) = n - c + 1
    BY <1>0, <1>1, <2>2
  <2>4. ASSUME NEW i \in 1..(n - c + 1) PROVE u[i] = r[i]
    <3>1. /\ i \in 1..(Len(t) - (c + 1) + 1) /\ i + (c + 1) - 1 = i + c /\ i + c \in 1..(n + 1)
          /\ ~(i + c < k) /\ i + c # k
      BY <1>0, <1>1, <1>4
    <3>2. u[i] = t[i + c] /\ t[i + c] = s[i + c - 1]
      BY <1>1, <2>2, <3>1
    <3> QED BY <1>2, <3>2
  <2>5. u = r
    BY <1>2, <2>2, <2>3, <2>4, SeqEqual
  <2> QED BY <2>5 DEF u
<1> QED BY <1>3, <1>4 DEF t, r

\* Whether what is put at place k lies ahead of a walk that goes on at place c.
LiesAhead(s, held, c, k) == IF held \in In(s) THEN c <= k ELSE c < k

LEMMA PushAhead ==
  ASSUME NEW s, ListInv(q, s, at), at \in Links, at # 0, s # <<>>,
         at \notin In(s) \cup {0} => q.mem[at].next \in In(s),
         NEW c, GoesOn(q, s, at, c),
         NEW e, NEW d, NEW k, PushOf(s, e, d, k)
  PROVE  Ahead(q', at) = IF LiesAhead(s, at, c, k) THEN Put(Rest(s, c), k - c + 1, e)
                         ELSE Rest(s, c)
<1> DEFINE t == Put(s, k, e)
<1>1. /\ ListInv(q', t, at) /\ e \in Entries /\ k \in 1..(Len(s) + 1)
      /\ Shape(q, s) /\ Shape(q', t) /\ Counted(q, s, at)
      /\ q.mem[e].refs = 0
      /\ \A x \in Entries \ {e} : x \notin In(s) => q'.mem[x].next = q.mem[x].next
  BY DEF PushOf, Pushed, ListInv
<1>2. /\ s \in Seq(Entries) /\ Len(s) \in Nat /\ c \in 1..(Len(s) + 1)
      /\ q.mem[at].next = At(s, c)
      /\ at \in In(s) => c > 1 /\ at = s[c - 1]
  BY <1>1, ShapeIs DEF GoesOn
<1>3. e \notin In(s) /\ e # at
  BY <1>1 DEF Counted
<1>4. /\ Len(t) = Len(s) + 1 /\ In(t) = In(s) \cup {e}
      /\ \A i \in 1..(Len(s) + 1) : t[i] = IF i < k THEN s[i] ELSE IF i = k THEN e ELSE s[i - 1]
  BY <1>1, <1>2, PutIs
<1>5. \A i, j \in 1..Len(t) : t[i] = t[j] => i = j
  BY <1>1 DEF Shape, Distinct
<1> HIDE DEF t
<1>6. t # <<>>
  BY <1>2, <1>4
<1>7. PICK n : GoesOn(q', t, at, n)
  BY <1>1, <1>6, WalkGoesOn
<1>8. /\ n \in 1..(Len(t) + 1) /\ q'.mem[at].next = At(t, n)
      /\ at \in In(t) => n > 1 /\ at = t[n - 1]
      /\ Ahead(q', at) = Rest(t, n)
  BY <1>7 DEF GoesOn
<1>9. n = IF LiesAhead(s, at, c, k) THEN c ELSE c + 1
  <2>1. CASE at \in In(s)
    <3>1. n > 1 /\ at = t[n - 1] /\ c > 1 /\ at = s[c - 1]
      BY <1>2, <1>4, <1>8, <2>1
    <3>2. CASE c <= k
      <4>1. c - 1 \in 1..(Len(s) + 1) /\ c - 1 < k /\ c - 1 \in 1..Len(t) /\ n - 1 \in 1..Len(t)
        BY <1>1, <1>2, <1>4, <1>8, <3>1, <3>2
      <4>2. t[c - 1] = s[c - 1]
        BY <1>4, <4>1
      <4>3. n - 1 = c - 1
        BY <1>5, <3>1, <4>1, <4>2
      <4> QED BY <1>2, <1>8, <2>1, <3>2, <4>3 DEF LiesAhead
    <3>3. CASE ~(c <= k)
      <4>1. c \in 1..(Len(s) + 1) /\ ~(c < k) /\ c # k /\ c \in 1..Len(t) /\ n - 1 \in 1..Len(t)
        BY <1>1, <1>2, <1>4, <1>8, <3>1, <3>3
      <4>2. t[c] = s[c - 1]
        BY <1>4, <4>1
      <4>3. n - 1 = c
        BY <1>5, <3>1, <4>1, <4>2
      <4> QED BY <1>2, <1>8, <2>1, <3>3, <4>3 DEF LiesAhead
    <3> QED BY <3>2, <3>3
  <2>2. CASE at \notin In(s)
    <3>1. at \in Entries /\ at \notin In(t)
      BY <1>3, <1>4, <2>2 DEF Links, Entries
    <3>2. q'.mem[at].next = q.mem[at].next
      BY <1>1, <1>3, <2>2, <3>1
    <3>3. q.mem[at].next \in In(s) /\ 0 \notin In(s)
      BY <1>1, <2>2, ShapeIs
    <3>4. c \in 1..Len(s) /\ q.mem[at].next = s[c]
      BY <1>2, <3>3 DEF At
    <3>5. s[c] # 0
      BY <3>3, <3>4
    <3>6. n \in 1..Len(t) /\ t[n] = s[c]
      BY <1>8, <3>2, <3>4, <3>5 DEF At
    <3>7. CASE c < k
      <4>1. c \in 1..(Len(s) + 1) /\ c \in 1..Len(t)
        BY <1>2, <1>4, <3>4
      <4>2. t[c] = s[c]
        BY <1>4, <3>7, <4>1
      <4>3. n = c
        BY <1>5, <3>6, <4>1, <4>2
      <4> QED BY <2>2, <3>7, <4>3 DEF LiesAhead
    <3>8. CASE ~(c < k)
      <4>1. /\ c + 1 \in 1..(Len(s) + 1) /\ c + 1 \in 1..Len(t) /\ ~(c + 1 < k) /\ c + 1 # k
            /\ (c + 1) - 1 = c
        BY <1>1, <1>2, <1>4, <3>4, <3>8
      <4>2. t[c + 1] = s[c]
        BY <1>4, <4>1
      <4>3. n = c + 1
        BY <1>5, <3>6, <4>1, <4>2
      <4> QED BY <2>2, <3>8, <4>3 DEF LiesAhead
    <3> QED BY <3>7, <3>8
  <2> QED BY <2>1, <2>2
<1>10. CASE LiesAhead(s, at, c, k)
  <2>1. c <= k
    BY <1>1, <1>2, <1>10 DEF LiesAhead
  <2>2. Rest(t, c) = Put(Rest(s, c), k - c + 1, e)
    BY <1>1, <1>2, <2>1, RestOfPut DEF t
  <2> QED BY <1>8, <1>9, <1>10, <2>2
<1>11. CASE ~LiesAhead(s, at, c, k)
  <2>1. c >= k
    BY <1>1, <1>2, <1>11 DEF LiesAhead
  <2>2. Rest(t, c + 1) = Rest(s, c)
    BY <1>1, <1>2, <2>1, RestOfPut DEF t
  <2> QED BY <1>8, <1>9, <1>11, <2>2
<1> QED BY <1>10, <1>11

\* When something is put in, and what for.
Puts(s, e, d, k) ==
  /\ Inv(s) /\ PushOf(s, e, d, k) /\ at' = at
  /\ d \in Data /\ \A x \in Entries : q.mem[x].data # {d}
  /\ at \notin In(s) \cup {0} => q.mem[at].next \in In(s)

LEMMA PutsAre ==
  ASSUME NEW s, NEW e, NEW d, NEW k, Puts(s, e, d, k)
  PROVE  /\ ListInv(q, s, at) /\ ListInv(q', Put(s, k, e), at) /\ at \in Links
         /\ at # 0 => at \in Entries /\ s # <<>>
         /\ e \in Entries /\ q'.mem[e].data = {d} /\ s \in Seq(Entries) /\ Len(s) \in Nat
         /\ k \in 1..(Len(s) + 1)
         /\ \A x \in In(s) : q'.mem[x].data = q.mem[x].data
         /\ at # 0 => q'.mem[at].data = q.mem[at].data
<1>1. /\ ListInv(q, s, at) /\ Shape(q, s) /\ Counted(q, s, at) /\ at \in Links
      /\ e \in Entries /\ q.mem[e].refs = 0 /\ k \in 1..(Len(s) + 1)
      /\ ListInv(q', Put(s, k, e), at)
      /\ q'.mem[e].data = {d}
      /\ \A x \in Entries \ {e} : q'.mem[x].data = q.mem[x].data
  BY DEF Puts, PushOf, Pushed, Inv, ListInv
<1>2. e \notin In(s) /\ e # at
  BY <1>1 DEF Counted
<1>3. In(s) \subseteq Entries /\ s \in Seq(Entries) /\ Len(s) \in Nat
  BY <1>1, ShapeIs
<1>4. at # 0 => at \in Entries
  BY <1>1 DEF Links, Entries
<1>5. at # 0 => s # <<>>
  <2>1. In(<<>>) = {}
    BY NoNames
  <2> QED BY <2>1 DEF Puts
<1> QED BY <1>1, <1>2, <1>3, <1>4, <1>5

LEMMA PutsInList ==
  ASSUME NEW s, NEW e, NEW d, NEW k, Puts(s, e, d, k)
  PROVE  /\ AbsList(q) \in Seq(Data) /\ Len(AbsList(q)) = Len(s)
         /\ AbsList(q') = Put(AbsList(q), k, d)
         /\ AbsHere(q', at') = AbsHere(q, at)
         /\ d \notin Promise!Elements(AbsList(q)) \cup AbsHere(q, at)
<1>1. /\ ListInv(q, s, at) /\ ListInv(q', Put(s, k, e), at)
      /\ at # 0 => at \in Entries
      /\ e \in Entries /\ q'.mem[e].data = {d} /\ k \in 1..(Len(s) + 1)
      /\ \A x \in In(s) : q'.mem[x].data = q.mem[x].data
      /\ at # 0 => q'.mem[at].data = q.mem[at].data
  BY PutsAre
<1>2. at' = at /\ d \in Data /\ \A x \in Entries : q.mem[x].data # {d}
  BY DEF Puts
<1>3. HasNames(q, s)
  BY <1>1, AllNamed
<1>4. AbsList(q) = DataOf(q, s) /\ AbsList(q') = DataOf(q', Put(s, k, e))
  BY <1>1, AbstractIs
<1>5. DataOf(q, s) \in Seq(Data) /\ Len(DataOf(q, s)) = Len(s)
  BY <1>3, NamesAre
<1>6. DataOf(q', Put(s, k, e)) = Put(DataOf(q, s), k, d)
  <2>1. NamesWith(q, q', s, e, d)
    BY <1>1, <1>2, <1>3 DEF NamesWith
  <2> QED BY <1>1, <2>1, NamesOfPut
<1>7. AbsHere(q', at') = AbsHere(q, at)
  BY <1>1, <1>2 DEF AbsHere
<1>8. d \notin Promise!Elements(DataOf(q, s))
  <2>1. In(s) \subseteq Entries
    BY <1>1, ShapeIs DEF ListInv
  <2> QED BY <1>2, <1>3, <2>1, ElementsAre
<1>9. d \notin AbsHere(q, at)
  <2>1. CASE at = 0
    BY <2>1 DEF AbsHere
  <2>2. CASE at # 0
    <3>1. at \in Entries
      BY <1>1, <2>2
    <3>2. \E c \in Data : q.mem[at].data = {c}
      BY <1>1, <3>1 DEF ListInv, Named
    <3>3. PICK c \in Data : q.mem[at].data = {c}
      BY <3>2
    <3>4. c # d
      BY <1>2, <3>1, <3>3
    <3>5. AbsHere(q, at) = {c}
      BY <2>2, <3>3 DEF AbsHere
    <3> QED BY <3>4, <3>5
  <2> QED BY <2>1, <2>2
<1>10. d \notin Promise!Elements(AbsList(q)) \cup AbsHere(q, at)
  <2>1. d \notin Promise!Elements(AbsList(q))
    BY <1>4, <1>8, Zenon
  <2> QED BY <1>9, <2>1
<1> QED BY <1>4, <1>5, <1>6, <1>7, <1>10

LEMMA PutsAhead ==
  ASSUME NEW s, NEW e, NEW d, NEW k, Puts(s, e, d, k), at # 0
  PROVE  \E c \in 1..(Len(s) + 1) :
           /\ IF at \in In(s) THEN c > 1 /\ at = s[c - 1] ELSE c <= Len(s)
           /\ AbsAhead(q, at) = DataOf(q, Rest(s, c))
           /\ AbsAhead(q, at) \in Seq(Data) /\ Len(AbsAhead(q, at)) = Len(s) - c + 1
           /\ AbsAhead(q', at') = IF LiesAhead(s, at, c, k) THEN Put(AbsAhead(q, at), k - c + 1, d)
                                  ELSE AbsAhead(q, at)
<1>1. /\ ListInv(q, s, at) /\ ListInv(q', Put(s, k, e), at) /\ at \in Links /\ s # <<>>
      /\ e \in Entries /\ q'.mem[e].data = {d} /\ k \in 1..(Len(s) + 1)
      /\ s \in Seq(Entries) /\ Len(s) \in Nat
      /\ \A x \in In(s) : q'.mem[x].data = q.mem[x].data
  BY PutsAre
<1>2. /\ at' = at /\ d \in Data /\ PushOf(s, e, d, k)
      /\ at \notin In(s) \cup {0} => q.mem[at].next \in In(s)
  BY DEF Puts
<1>3. PICK c : GoesOn(q, s, at, c)
  BY <1>1, WalkGoesOn
<1>4. /\ c \in 1..(Len(s) + 1) /\ Ahead(q, at) = Rest(s, c)
      /\ IF at \in In(s) THEN c > 1 /\ at = s[c - 1] ELSE c <= Len(s)
  <2>1. /\ c \in 1..(Len(s) + 1) /\ Ahead(q, at) = Rest(s, c) /\ q.mem[at].next = At(s, c)
        /\ at \in In(s) => c > 1 /\ at = s[c - 1]
    BY <1>3 DEF GoesOn
  <2>2. 0 \notin In(s)
    BY <1>1, ShapeIs DEF ListInv
  <2>3. at \notin In(s) => At(s, c) # 0
    BY <1>2, <2>1, <2>2, PutsAre
  <2> QED BY <1>1, <2>1, <2>3 DEF At
<1> DEFINE r == Rest(s, c)
<1>5. Ahead(q', at) = IF LiesAhead(s, at, c, k) THEN Put(r, k - c + 1, e) ELSE r
  BY <1>1, <1>2, <1>3, PushAhead
<1>6. AbsAhead(q, at) = DataOf(q, r) /\ AbsAhead(q', at') = DataOf(q', Ahead(q', at))
  BY <1>1, <1>2, <1>4, AbstractIs
<1>7. HasNames(q, r) /\ \A x \in In(r) : q'.mem[x].data = q.mem[x].data
  <2>1. In(r) \subseteq In(s)
    BY <1>1, <1>4, AheadListed
  <2> QED BY <1>1, <1>4, <2>1, AllNamed
<1>8. Len(r) = Len(s) - c + 1
  BY <1>1, <1>4, RestIs
<1> HIDE DEF r
<1>9. DataOf(q, r) \in Seq(Data) /\ Len(DataOf(q, r)) = Len(r)
  BY <1>7, NamesAre
<1>10. CASE LiesAhead(s, at, c, k)
  <2>1. k - c + 1 \in 1..(Len(r) + 1)
    BY <1>1, <1>4, <1>8, <1>10 DEF LiesAhead
  <2>2. NamesWith(q, q', r, e, d)
    BY <1>1, <1>2, <1>7 DEF NamesWith
  <2>3. DataOf(q', Put(r, k - c + 1, e)) = Put(DataOf(q, r), k - c + 1, d)
    BY <2>1, <2>2, NamesOfPut
  <2>4. AbsAhead(q', at') = Put(AbsAhead(q, at), k - c + 1, d)
    BY <1>5, <1>6, <1>10, <2>3
  <2> QED BY <1>4, <1>6, <1>8, <1>9, <1>10, <2>4 DEF r
<1>11. CASE ~LiesAhead(s, at, c, k)
  <2>1. HasNames(q', r)
    <3>1. Ahead(q', at) = r
      BY <1>5, <1>11
    <3> QED BY <1>7 DEF HasNames
  <2>2. DataOf(q', r) = DataOf(q, r)
    BY <1>7, <2>1, SameNames
  <2>3. AbsAhead(q', at') = AbsAhead(q, at)
    BY <1>5, <1>6, <1>11, <2>2
  <2> QED BY <1>4, <1>6, <1>8, <1>9, <1>11, <2>3 DEF r
<1> QED BY <1>10, <1>11

LEMMA BehindIs ==
  ASSUME NEW v, v \in Seq(Data), NEW d, d \in Data, NEW x
  PROVE  /\ \A i \in 1..Len(v) : (\A j \in 1..Len(v) : v[j] = x <=> j = i) =>
              Promise!Behind(v, x, d) = Put(v, i + 1, d)
         /\ (\A j \in 1..Len(v) : v[j] # x) => Promise!Behind(v, x, d) = v
<1>0. DOMAIN v = 1..Len(v) /\ Len(v) \in Nat
  BY LenProperties
<1>1. ASSUME NEW i \in 1..Len(v), \A j \in 1..Len(v) : v[j] = x <=> j = i
      PROVE  Promise!Behind(v, x, d) = Put(v, i + 1, d)
  <2>1. x \in Promise!Elements(v)
    BY <1>0, <1>1 DEF Promise!Elements
  <2>2. (CHOOSE j \in DOMAIN v : v[j] = x) = i
    BY <1>0, <1>1
  <2>3. Promise!Behind(v, x, d) = Promise!InsertAt(v, i + 1, d)
    BY <2>1, <2>2, Zenon DEF Promise!Behind
  <2>4. i + 1 \in 1..(Len(v) + 1)
    BY <1>0
  <2> QED BY <2>3, <2>4, InsertIsPut
<1>2. ASSUME \A j \in 1..Len(v) : v[j] # x PROVE Promise!Behind(v, x, d) = v
  <2>1. x \notin Promise!Elements(v)
    BY <1>0, <1>2 DEF Promise!Elements
  <2> QED BY <2>1, Zenon DEF Promise!Behind
<1> QED BY <1>1, <1>2

LEMMA NamesDiffer ==
  ASSUME NEW l, NEW s, NEW held, ListInv(l, s, held), NEW c \in 1..(Len(s) + 1)
  PROVE  /\ \A i, j \in 1..Len(s) : DataOf(l, s)[i] = DataOf(l, s)[j] => i = j
         /\ \A i \in 1..(Len(s) - c + 1) : DataOf(l, Rest(s, c))[i] = DataOf(l, s)[i + c - 1]
         /\ held \in Entries =>
              \A j \in 1..Len(s) : AbsHere(l, held) = {DataOf(l, s)[j]} => held = s[j]
<1> DEFINE v == DataOf(l, s)
           r == Rest(s, c)
           w == DataOf(l, r)
<1>0. /\ Len(s) \in Nat /\ s \in Seq(Entries) /\ In(s) \subseteq Entries
      /\ \A i, j \in 1..Len(s) : s[i] = s[j] => i = j
  BY ShapeIs DEF ListInv, Shape, Distinct
<1>1. \A i \in 1..Len(s) : s[i] \in In(s) /\ l.mem[s[i]].data = {v[i]}
  BY AllNamed, NamesAre
<1>2. Len(r) = Len(s) - c + 1 /\ \A i \in 1..(Len(s) - c + 1) : r[i] = s[i + c - 1]
  BY <1>0, RestIs
<1>3. \A i \in 1..Len(r) : l.mem[r[i]].data = {w[i]}
  BY AllNamed, NamesAre
<1> HIDE DEF v, r, w
<1>4. \A e, f \in Entries :
        (e \in In(s) \/ e = held) /\ (f \in In(s) \/ f = held) /\ l.mem[e].data = l.mem[f].data =>
          e = f
  BY DEF ListInv, Named
<1>5. ASSUME NEW i \in 1..Len(s), NEW j \in 1..Len(s), v[i] = v[j] PROVE i = j
  <2>1. l.mem[s[i]].data = l.mem[s[j]].data
    BY <1>1, <1>5
  <2>2. s[i] = s[j]
    BY <1>0, <1>1, <1>4, <2>1
  <2> QED BY <1>0, <2>2
<1>6. ASSUME NEW i \in 1..(Len(s) - c + 1) PROVE w[i] = v[i + c - 1]
  <2>1. i + c - 1 \in 1..Len(s)
    BY <1>0
  <2>2. {w[i]} = {v[i + c - 1]}
    BY <1>1, <1>2, <1>3, <2>1
  <2> QED BY <2>2
<1>7. ASSUME held \in Entries, NEW j \in 1..Len(s), AbsHere(l, held) = {v[j]} PROVE held = s[j]
  <2>1. AbsHere(l, held) = l.mem[held].data
    BY <1>7 DEF AbsHere, Entries
  <2>2. l.mem[held].data = l.mem[s[j]].data
    BY <1>1, <1>7, <2>1
  <2> QED BY <1>0, <1>1, <1>4, <1>7, <2>2
<1> QED BY <1>5, <1>6, <1>7 DEF v, r, w

LEMMA TailIsPut ==
  ASSUME NEW s, NEW e, NEW d, Puts(s, e, d, Len(s) + 1)
  PROVE  Promise!PushTail(d)
<1> DEFINE v == AbsList(q)
           a == AbsAhead(q, at)
           n == Len(s)
<1>1. /\ v \in Seq(Data) /\ Len(v) = n /\ AbsList(q') = Put(v, n + 1, d)
      /\ AbsHere(q', at') = AbsHere(q, at) /\ d \notin Promise!Elements(v) \cup AbsHere(q, at)
  BY PutsInList
<1>2. d \in Data /\ n \in Nat /\ at' = at /\ ListInv(q, s, at)
  BY PutsAre DEF Puts
<1>3. AbsList(q') = Append(v, d)
  BY <1>1, <1>2, EndsArePut
<1>4. AbsAhead(q', at') = IF AbsHere(q, at) = {} THEN a ELSE Append(a, d)
  <2>1. CASE at = 0
    BY <1>2, <2>1 DEF AbsHere, AbsAhead
  <2>2. CASE at # 0
    <3>1. PICK c \in 1..(n + 1) :
            /\ IF at \in In(s) THEN c > 1 /\ at = s[c - 1] ELSE c <= n
            /\ a \in Seq(Data) /\ Len(a) = n - c + 1
            /\ AbsAhead(q', at') = IF LiesAhead(s, at, c, n + 1) THEN Put(a, (n + 1) - c + 1, d) ELSE a
      BY <2>2, PutsAhead
    <3>2. LiesAhead(s, at, c, n + 1) /\ (n + 1) - c + 1 = Len(a) + 1
      BY <1>2, <3>1 DEF LiesAhead
    <3>3. Append(a, d) = Put(a, Len(a) + 1, d)
      BY <1>2, <3>1, EndsArePut
    <3>4. AbsHere(q, at) # {}
      <4>1. at \in Entries
        BY <2>2, PutsAre
      <4>2. \E x \in Data : q.mem[at].data = {x}
        BY <1>2, <4>1 DEF ListInv, Named
      <4> QED BY <2>2, <4>2 DEF AbsHere
    <3> QED BY <3>1, <3>2, <3>3, <3>4
  <2> QED BY <2>1, <2>2
<1> QED BY <1>1, <1>3, <1>4, Zenon DEF Promise!PushTail, AbsList, AbsHere, AbsAhead

LEMMA HeadIsPut ==
  ASSUME NEW s, NEW e, NEW d, Puts(s, e, d, 1)
  PROVE  Promise!PushHead(d)
<1> DEFINE v == AbsList(q)
<1>1. /\ v \in Seq(Data) /\ AbsList(q') = Put(v, 1, d)
      /\ AbsHere(q', at') = AbsHere(q, at) /\ d \notin Promise!Elements(v) \cup AbsHere(q, at)
  BY PutsInList
<1>2. d \in Data /\ at' = at
  BY DEF Puts
<1>3. AbsList(q') = <<d>> \o v
  BY <1>1, <1>2, EndsArePut
<1>4. AbsAhead(q', at') = AbsAhead(q, at)
  <2>1. CASE at = 0
    BY <1>2, <2>1 DEF AbsAhead
  <2>2. CASE at # 0
    <3>1. PICK c \in 1..(Len(s) + 1) :
            /\ at \in In(s) => c > 1
            /\ ~LiesAhead(s, at, c, 1) => AbsAhead(q', at') = AbsAhead(q, at)
      BY <2>2, PutsAhead
    <3>2. ~LiesAhead(s, at, c, 1)
      BY <3>1 DEF LiesAhead
    <3> QED BY <3>1, <3>2
  <2> QED BY <2>1, <2>2
<1> QED BY <1>1, <1>3, <1>4, Zenon DEF Promise!PushHead, AbsList, AbsHere, AbsAhead

LEMMA AfterIsPut ==
  ASSUME NEW s, NEW e, NEW d, NEW j \in 1..Len(s), Puts(s, e, d, j + 1)
  PROVE  \E x \in Data : Promise!PushAfter(x, d)
<1> DEFINE v == AbsList(q)
           a == AbsAhead(q, at)
           n == Len(s)
           x == v[j]
<1>1. /\ v \in Seq(Data) /\ Len(v) = n /\ AbsList(q') = Put(v, j + 1, d)
      /\ AbsHere(q', at') = AbsHere(q, at) /\ d \notin Promise!Elements(v) \cup AbsHere(q, at)
  BY PutsInList
<1>2. /\ d \in Data /\ n \in Nat /\ at' = at /\ ListInv(q, s, at) /\ v = DataOf(q, s)
      /\ at # 0 => at \in Entries
  BY PutsAre, AbstractIs DEF Puts
<1>3. \A i, k \in 1..n : v[i] = v[k] => i = k
  <2>1. 1 \in 1..(n + 1)
    BY <1>2
  <2>2. \A i, k \in 1..n : DataOf(q, s)[i] = DataOf(q, s)[k] => i = k
    BY <1>2, <2>1, NamesDiffer
  <2> QED BY <1>2, <2>2
<1>4. x \in Data /\ x \in Promise!Elements(v)
  <2>1. DOMAIN v = 1..n
    BY <1>1, LenProperties
  <2>2. v[j] \in Data
    BY <1>1, ElementOfSeq
  <2> QED BY <2>1, <2>2 DEF Promise!Elements
<1> HIDE DEF v
<1>5. AbsList(q') = Promise!Behind(v, x, d)
  <2>1. \A i \in 1..n : v[i] = x <=> i = j
    BY <1>3
  <2> QED BY <1>1, <1>2, <2>1, BehindIs
<1>6. AbsAhead(q', at') = IF AbsHere(q, at) = {x} THEN <<d>> \o a ELSE Promise!Behind(a, x, d)
  <2>1. CASE at = 0
    <3>1. AbsHere(q, at) = {} /\ a = <<>> /\ AbsAhead(q', at') = <<>>
      BY <1>2, <2>1 DEF AbsHere, AbsAhead
    <3>2. Promise!Behind(<<>>, x, d) = <<>>
      <4>1. <<>> \in Seq(Data) /\ \A i \in 1..Len(<<>>) : <<>>[i] # x
        OBVIOUS
      <4>2. d \in Data
        BY <1>2
      <4> QED BY <4>1, <4>2, BehindIs
    <3>3. AbsHere(q, at) # {x}
      BY <3>1
    <3> QED BY <3>1, <3>2, <3>3, Zenon
  <2>2. CASE at # 0
    <3>1. PICK c \in 1..(n + 1) :
            /\ IF at \in In(s) THEN c > 1 /\ at = s[c - 1] ELSE c <= n
            /\ a = DataOf(q, Rest(s, c))
            /\ a \in Seq(Data) /\ Len(a) = n - c + 1
            /\ AbsAhead(q', at') = IF LiesAhead(s, at, c, j + 1) THEN Put(a, (j + 1) - c + 1, d) ELSE a
      BY <2>2, PutsAhead
    <3>2. \A i \in 1..(n - c + 1) : a[i] = v[i + c - 1]
      BY <1>2, <3>1, NamesDiffer
    <3>3. s[j] \in In(s) /\ \A i \in 1..n : s[i] = s[j] => i = j
      BY <1>2, ShapeIs DEF ListInv, Shape, Distinct
    <3>4. AbsHere(q, at) = {x} => at = s[j]
      <4>1. AbsHere(q, at) = {DataOf(q, s)[j]} => at = s[j]
        BY <1>2, <2>2, <3>1, NamesDiffer
      <4> QED BY <1>2, <4>1
    <3>5. at = s[j] => AbsHere(q, at) = {x}
      <4>1. q.mem[s[j]].data = {DataOf(q, s)[j]}
        BY <1>2, AllNamed, NamesAre
      <4> QED BY <1>2, <2>2, <4>1 DEF AbsHere
    <3> HIDE DEF a, x
    <3>6. CASE at = s[j]
      <4>1. c - 1 = j
        BY <1>2, <3>1, <3>3, <3>6
      <4>2. LiesAhead(s, at, c, j + 1) /\ (j + 1) - c + 1 = 1
        BY <3>1, <3>3, <3>6, <4>1 DEF LiesAhead
      <4>3. <<d>> \o a = Put(a, 1, d)
        BY <1>2, <3>1, EndsArePut
      <4> QED BY <3>1, <3>5, <3>6, <4>2, <4>3
    <3>7. CASE at # s[j] /\ c <= j
      <4>1. LiesAhead(s, at, c, j + 1)
        BY <3>1, <3>7 DEF LiesAhead
      <4> DEFINE g == j - c + 1
      <4>2. g \in 1..(n - c + 1) /\ (j + 1) - c + 1 = g + 1
        BY <1>2, <3>7
      <4>3. \A i \in 1..(n - c + 1) : a[i] = x <=> i = g
        <5>1. ASSUME NEW i \in 1..(n - c + 1) PROVE a[i] = x <=> i = g
          <6>1. i + c - 1 \in 1..n /\ (i + c - 1 = j <=> i = g)
            BY <1>2
          <6>2. a[i] = v[i + c - 1] /\ x = v[j]
            BY <3>2 DEF x
          <6> QED BY <1>3, <6>1, <6>2
        <5> QED BY <5>1
      <4> HIDE DEF g
      <4>4. Promise!Behind(a, x, d) = Put(a, g + 1, d)
        <5>1. a \in Seq(Data) /\ g \in 1..Len(a) /\ \A i \in 1..Len(a) : a[i] = x <=> i = g
          BY <3>1, <4>2, <4>3
        <5>2. d \in Data
          BY <1>2
        <5>3. \A i \in 1..Len(a) : (\A k \in 1..Len(a) : a[k] = x <=> k = i) =>
                Promise!Behind(a, x, d) = Put(a, i + 1, d)
          BY <5>1, <5>2, BehindIs
        <5> QED BY <5>1, <5>3
      <4> QED BY <3>1, <3>4, <3>7, <4>1, <4>2, <4>4
    <3>8. CASE at # s[j] /\ ~(c <= j)
      <4>1. ~LiesAhead(s, at, c, j + 1)
        <5>1. at \in In(s) => c # j + 1
          BY <3>1, <3>8
        <5> QED BY <1>2, <3>1, <3>8, <5>1 DEF LiesAhead
      <4>2. \A i \in 1..(n - c + 1) : a[i] # x
        <5>1. ASSUME NEW i \in 1..(n - c + 1) PROVE a[i] # x
          <6>1. i + c - 1 \in 1..n /\ i + c - 1 # j
            BY <1>2, <3>8
          <6>2. a[i] = v[i + c - 1] /\ x = v[j]
            BY <3>2 DEF x
          <6> QED BY <1>3, <6>1, <6>2
        <5> QED BY <5>1
      <4>3. Promise!Behind(a, x, d) = a
        BY <1>2, <3>1, <4>2, BehindIs
      <4> QED BY <3>1, <3>4, <3>8, <4>1, <4>3
    <3> QED BY <3>6, <3>7, <3>8
  <2> QED BY <2>1, <2>2
<1>7. Promise!PushAfter(x, d)
  <2>1. /\ d \notin Promise!Elements(v) \cup AbsHere(q, at) /\ x \in Promise!Elements(v)
        /\ AbsList(q') = Promise!Behind(v, x, d) /\ AbsHere(q', at') = AbsHere(q, at)
    BY <1>1, <1>4, <1>5
  <2> HIDE DEF x
  <2> QED BY <1>6, <2>1, Zenon DEF Promise!PushAfter, AbsList, AbsHere, AbsAhead, v, a
<1> QED BY <1>4, <1>7

---------------------------------------------------------------------------
(* Every step is one of the abstract walk, or changes nothing it sees.     *)

LEMMA StepIsPromised ==
  ASSUME IInv, heedful, heedful', [Next]_vars
  PROVE  [Promise!Next]_(Promise!vars)
<1>1. PICK s : Inv(s)
  BY DEF IInv
<1>2. ASSUME NEW d \in Data, Push(d) PROVE Promise!Next
  <2>1. at' = at
    BY <1>2 DEF Push, Same
  <2>2. ASSUME NEW e, NEW k, PushOf(s, e, d, k) PROVE Puts(s, e, d, k)
    <3>1. /\ \A x \in Entries : q.mem[x].data # {d}
          /\ at \notin In(s) \cup {0} => q.mem[at].next \in In(s)
      BY <1>1, <1>2, PushStep, Zenon
    <3> QED BY <1>1, <2>1, <2>2, <3>1, Zenon DEF Puts
  <2>3. PICK e : \/ PushOf(s, e, d, Len(s) + 1)
                 \/ PushOf(s, e, d, 1)
                 \/ \E j \in 1..Len(s) : PushOf(s, e, d, j + 1)
    BY <1>1, <1>2, PushStep, Zenon
  <2>4. CASE PushOf(s, e, d, Len(s) + 1)
    <3>1. Promise!PushTail(d)
      BY <2>2, <2>4, TailIsPut, Zenon
    <3> QED BY <3>1, Zenon DEF Promise!Next
  <2>5. CASE PushOf(s, e, d, 1)
    <3>1. Promise!PushHead(d)
      BY <2>2, <2>5, HeadIsPut, Zenon
    <3> QED BY <3>1, Zenon DEF Promise!Next
  <2>6. CASE \E j \in 1..Len(s) : PushOf(s, e, d, j + 1)
    <3>1. \E x \in Data : Promise!PushAfter(x, d)
      BY <2>2, <2>6, AfterIsPut, Zenon
    <3> QED BY <3>1, Zenon DEF Promise!Next
  <2> QED BY <2>3, <2>4, <2>5, <2>6
<1>3. CASE Removing
  <2>1. PICK t : RemovalOf(s, t)
    BY <1>1, <1>3, RemovingStep
  <2>2. Promise!TakeOut
    BY <1>1, <2>1, RemovalTakesOut
  <2> QED BY <2>2, Zenon DEF Promise!Next
<1>4. CASE queue_destroy
  <2>1. RemovalOf(s, <<>>)
    BY <1>1, <1>4, DestroyStep
  <2>2. Promise!TakeOut
    BY <1>1, <2>1, RemovalTakesOut
  <2> QED BY <2>2, Zenon DEF Promise!Next
<1>5. CASE queue_new
  BY <1>1, <1>5, NewStutters
<1>6. CASE StartWalk
  <2>1. Promise!Start
    BY <1>1, <1>6, WalkStarts
  <2> QED BY <2>1, Zenon DEF Promise!Next
<1>7. CASE StepWalk
  <2>1. Promise!Step
    BY <1>1, <1>7, WalkSteps
  <2> QED BY <2>1, Zenon DEF Promise!Next
<1>8. CASE LeftOpen \/ UNCHANGED vars
  <2>1. q' = q /\ at' = at
    BY <1>8, Zenon DEF vars, LeftOpen
  <2>2. UNCHANGED Promise!vars
    <3>1. AbsList(q') = AbsList(q) /\ AbsHere(q', at') = AbsHere(q, at)
          /\ AbsAhead(q', at') = AbsAhead(q, at)
      BY <2>1, Zenon
    <3> QED BY <3>1, Zenon DEF Promise!vars, AbsList, AbsHere, AbsAhead
  <2> QED BY <2>2
<1> QED BY <1>2, <1>3, <1>4, <1>5, <1>6, <1>7, <1>8, Zenon DEF Next, Removing

LEMMA StartIsPromised ==
  ASSUME Init
  PROVE  Promise!Init
<1>1. Inv(<<>>) /\ at = 0
  BY InitIs DEF Init
<1>2. AbsList(q) = <<>>
  BY <1>1, AbstractIs, NoNames DEF Inv
<1>3. AbsHere(q, at) = {} /\ AbsAhead(q, at) = <<>>
  BY <1>1 DEF AbsHere, AbsAhead
<1> QED BY <1>2, <1>3, Zenon DEF Promise!Init, AbsList, AbsHere, AbsAhead

(* A walk whose callbacks mind the link of an entry that they removed      *)
(* visits once and in order what lies ahead of it, what is put there       *)
(* meanwhile included, and nothing that is removed, also when it is its    *)
(* own entry that the callback removes (queue.c 231-258).                  *)
THEOREM WalkKeepsItsPromise == Spec => Implements
<1>1. Init => Promise!Init
  BY StartIsPromised
<1>2. IInv /\ [Next]_vars => [heedful /\ heedful' => Promise!Next]_(Promise!vars)
  BY StepIsPromised, Zenon
<1> QED BY <1>1, <1>2, Inductive, PTL DEF Spec, Implements
=============================================================================
