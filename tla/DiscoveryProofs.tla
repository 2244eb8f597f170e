------------------------- MODULE DiscoveryProofs -------------------------
(***************************************************************************)
(* Proofs about Discovery, for any tables of the device, any number of     *)
(* changes and answers of any size.                                        *)
(***************************************************************************)
EXTENDS Discovery, FiniteSetTheorems, SequenceTheorems, TLAPS

LEMMA Bounds == MaxHandle \in Nat \ {0} /\ MaxChanges \in Nat /\ Wide \in BOOLEAN
BY TablesAssumption

USE Bounds

El(q) == {q[i] : i \in DOMAIN q}

---------------------------------------------------------------------------
(* Types.                                                                  *)

Items      == [at : Handles, to : Nat, kind : Kinds]
Chrcs      == [value : Handles, kind : Kinds, end : 0..MaxHandle]
DbServices == [start : Handles, end : Handles, primary : BOOLEAN, attrs : Seq(Kinds), active : BOOLEAN]
Ranges     == {r \in HandleRange : r.start <= r.end}

Ops == [start : Handles, end : Handles, init : BOOLEAN, missed : BOOLEAN,
        pending : Seq(Handles), tmp : Seq(Handles), chrcs : Seq(Chrcs), cur : 0..MaxHandle]

Grouped    == {"primary", "secondary"}
Procedures == [kind : {"mtu", "inc", "chr", "dsc"} \cup Grouped,
               from : Handles, to : Handles, found : Seq(Items)]

DbOK(d) ==
  /\ d \subseteq DbServices
  /\ \A s \in d : Len(s.attrs) \in 1..(s.end - s.start + 1)
  /\ \A s, t \in d : s.start = t.start => s = t

---------------------------------------------------------------------------
(* A discovery under way.                                                  *)

\* The services still to be worked on, in their order.
WorkList(o, kind) ==
  CASE kind = "secondary"       -> o.pending
    [] kind = "inc"             -> o.tmp \o o.pending
    [] kind \in {"chr", "dsc"}  -> <<o.cur>> \o o.pending
    [] OTHER                    -> <<>>

\* A service overlaps one that is worked on later only if it lies inside of it.
InTurn(a, b) == a.end < b.start \/ b.end < a.start \/ (b.start < a.start /\ a.end < b.end)

Listed(o, d, q) ==
  /\ \A i \in DOMAIN q : q[i] \in o.start..o.end /\ \E s \in d : s.start = q[i] /\ ~s.active
  /\ \A i, j \in DOMAIN q : i < j => \A a, b \in d : a.start = q[i] /\ b.start = q[j] => InTurn(a, b)

FoundShape(o, kind, to, found) ==
  /\ \A i \in DOMAIN found :
       /\ found[i].at <= to
       /\ kind \in Grouped => /\ o.start <= found[i].at /\ found[i].at <= found[i].to
                              /\ found[i].to <= MaxHandle
       /\ kind = "chr" => o.cur <= found[i].at /\ found[i].to = found[i].at + 1 /\ found[i].to <= MaxHandle
  /\ \A i, j \in DOMAIN found :
       i < j => found[i].at < found[j].at /\ (kind \in Grouped => found[i].to < found[j].at)

\* The next request starts behind all that was found.
Behind(kind, from, found) ==
  \A i \in DOMAIN found : found[i].at < from /\ (kind \in Grouped => found[i].to < from)

Frame(o, d, kind, to) ==
  /\ o \in Ops /\ o.start <= o.end /\ DbOK(d)
  /\ Listed(o, d, WorkList(o, kind))
  /\ kind = "mtu" => o.start = 1 /\ o.end = MaxHandle /\ o.init /\ d = {}
  /\ kind \in {"mtu", "primary"} => o.pending = <<>>
  /\ kind \in {"mtu", "inc"} \cup Grouped => o.chrcs = <<>>
  /\ kind \in {"mtu"} \cup Grouped =>
       o.tmp = <<>> /\ to = o.end /\ \A t \in d : t.start \in o.start..o.end => t.start \in El(o.pending)
  /\ kind = "inc" => o.tmp # <<>> /\ o.cur = o.tmp[Len(o.tmp)]
  /\ kind \in {"inc", "chr"} => \A t \in d : t.start = o.cur => to = t.end

ProcedureOK(o, d, p) ==
  /\ p \in Procedures /\ p.from <= p.to
  /\ p.kind \in Grouped => o.start <= p.from
  /\ p.kind \in {"inc", "chr"} => o.cur <= p.from
  /\ p.kind = "dsc" => \A t \in d : t.start = o.cur => t.start + Len(t.attrs) <= p.from
  /\ FoundShape(o, p.kind, p.to, p.found) /\ Behind(p.kind, p.from, p.found)

---------------------------------------------------------------------------
(* Service Changed itself.                                                 *)

ServiceChangedArea(T) == {h \in Handles : \E s \in T : HasServiceChanged(s) /\ s.start <= h /\ h <= s.end}

Beside(T, r) == \A s \in T : HasServiceChanged(s) => ~Overlap(s, r)

DbPlaced(T, d) ==
  \A t \in d : \A i \in DOMAIN t.attrs : t.attrs[i] = "scv" => t.start + i - 1 \in ServiceChangedArea(T)
ChrcsPlaced(T, o) ==
  \A i \in DOMAIN o.chrcs : o.chrcs[i].kind = "scv" => o.chrcs[i].value \in ServiceChangedArea(T)
FoundPlaced(T, kind, found) ==
  \A i \in DOMAIN found :
    found[i].kind = "scv" =>
      (IF kind = "chr" THEN found[i].to ELSE found[i].at) \in ServiceChangedArea(T)

---------------------------------------------------------------------------
(* What the database says, of a device with table T, when the ranges Q     *)
(* still have to be discovered.                                            *)

Clear(Q, s) == \A i \in DOMAIN Q : ~Overlap(s, Q[i])

Within(s, r)  == r.start <= s.start /\ s.end <= r.end
Same(s, t)    == s.start = t.start /\ s.end = t.end /\ s.primary = t.primary
Begins(a, l)  == Len(a) <= Len(l) /\ \A i \in 1..Len(a) : a[i] = l[i]
Boundary(l, k) == k = Len(l) \/ l[k + 1] = "chr"
Begun(a, l)   == Begins(a, l) /\ Boundary(l, Len(a)) /\ \A i \in 1..Len(a) : a[i] # "chr"

\* A service of the database is one of the device: new ones have no attributes yet, those
\* that have begun those before the characteristics, and all but the open one have all.
AgreeAt(T, t, new, begun, open) ==
  \E s \in T :
    /\ Same(s, t)
    /\ t.start \in new => t.attrs = <<"svc">>
    /\ t.start \in begun => Begun(t.attrs, s.layout)
    /\ t.start \notin (new \cup begun \cup {open}) => t.attrs = s.layout

Agree(T, Q, d, new, begun, open) == \A t \in d : Clear(Q, t) => AgreeAt(T, t, new, begun, open)

InDb(d, s) == \E t \in d : t.start = s.start /\ t.end = s.end
Known(T, Q, d) == \A s \in T : Clear(Q, s) => InDb(d, s)
KnownOrAhead(T, Q, o, d, kind) ==
  \A s \in T : Clear(Q, s) =>
    InDb(d, s) \/ (Within(s, o) /\ (kind \in {"mtu", "primary"} \/ (kind = "secondary" /\ ~s.primary)))

Settled(T, Q, d, f) == Agree(T, Q, d, {}, {}, 0) /\ (f \/ Known(T, Q, d))

Span(f) == [start |-> f.at, end |-> f.to]

\* What was found is what there is, as far as the procedure has come.
FoundAll(T, Q, o, d, kind, upto, found) ==
  /\ kind \in Grouped =>
       /\ \A f \in El(found) : Clear(Q, Span(f)) => f \in Matching(T, kind, o.start, upto)
       /\ \A f \in Matching(T, kind, o.start, upto) : Clear(Q, Span(f)) => f \in El(found)
  /\ kind \in {"inc", "chr", "dsc"} =>
       \A t \in d : t.start = o.cur /\ Clear(Q, t) =>
         El(found) = Matching(T, kind, IF kind = "dsc" THEN t.start + Len(t.attrs) ELSE t.start, upto)

\* The characteristics to be added are those that a service lacks.
Lacks(s, a, chrcs) ==
  /\ Begins(a, s.layout)
  /\ \A i \in DOMAIN chrcs :
       LET n == chrcs[i].value - s.start + 1 IN
       /\ n <= Len(s.layout) /\ Len(a) < n - 1
       /\ s.layout[n - 1] = "chr" /\ s.layout[n] = chrcs[i].kind
       /\ chrcs[i].end = (IF i = Len(chrcs) THEN s.end ELSE chrcs[i + 1].value - 2)
  /\ \A i, j \in DOMAIN chrcs : i < j => chrcs[i].value < chrcs[j].value
  /\ \A n \in (Len(a) + 1)..Len(s.layout) :
       s.layout[n] = "chr" => \E i \in DOMAIN chrcs : chrcs[i].value = s.start + n

\* Characteristics that were left over are none of a service to come.
NotOf(Q, d, chrcs, starts) ==
  \A i \in DOMAIN chrcs : \A t \in d :
    t.start \in starts /\ Clear(Q, t) => ~(t.start <= chrcs[i].value - 1 /\ chrcs[i].value - 1 <= t.end)

New(o, kind) == CASE kind = "secondary" -> El(o.pending)
                  [] kind = "inc"       -> El(o.pending) \cup {o.cur}
                  [] OTHER              -> {}
BegunOnes(o, kind) == CASE kind = "inc" -> El(o.tmp) \ {o.cur}
                        [] kind = "chr" -> El(o.pending) \cup {o.cur}
                        [] kind = "dsc" -> El(o.pending)
                        [] OTHER        -> {}
Open(o, kind) == IF kind = "dsc" THEN o.cur ELSE 0

Aligned(T, Q, r) == \A s \in T : Clear(Q, s) /\ Overlap(s, r) => Within(s, r)

Sense(T, Q, o, d, kind, to, f) ==
  /\ Aligned(T, Q, o)
  /\ Agree(T, Q, d, New(o, kind), BegunOnes(o, kind), Open(o, kind))
  /\ o.missed \/ f \/ KnownOrAhead(T, Q, o, d, kind)
  /\ kind = "chr" => NotOf(Q, d, o.chrcs, El(o.pending) \cup {o.cur})
  /\ kind = "dsc" =>
       /\ NotOf(Q, d, o.chrcs, El(o.pending))
       /\ \A t \in d : t.start = o.cur /\ Clear(Q, t) =>
            \E s \in T : Same(s, t) /\ Lacks(s, t.attrs, o.chrcs)
                         /\ to = (IF o.chrcs = <<>> THEN s.end ELSE o.chrcs[1].value - 2)

---------------------------------------------------------------------------
(* The invariant.                                                          *)

Due == svcChngdQueue \o indications

\* A service that a range cuts through came with a later one.
AllAligned(T, Q) ==
  \A s \in T : \A i \in DOMAIN Q : Overlap(s, Q[i]) => \E j \in i..Len(Q) : Within(s, Q[j])

NoGaps == \A table \in Tables : \A s \in table : \A i \in DOMAIN s.layout : s.layout[i] # "gap"
Sound  == NoGaps /\ (~Wide \/ changes = 0)

Control ==
  /\ dev \in Tables /\ changes \in 0..MaxChanges /\ link \in {"up", "gone"}
  /\ enabled \in BOOLEAN /\ inInit \in BOOLEAN /\ ready \in BOOLEAN /\ inSvcChngd \in BOOLEAN
  /\ failed \in BOOLEAN /\ listening \subseteq Handles
  /\ ccc \in {"no", "init", "again"} /\ told \in {"no", "ok", "failed"}
  /\ indications \in Seq(Ranges) /\ svcChngdQueue \in Seq(Ranges)
  /\ op \in Ops /\ op.start <= op.end /\ DbOK(db)
  /\ proc # {} => link = "up" /\ op.init = inInit /\ inSvcChngd = ~inInit
  /\ inInit \/ ccc = "init" => ~enabled /\ ~inSvcChngd
  /\ ~enabled => changes = 0 /\ ~inSvcChngd /\ ccc # "again"
  /\ changes = 0 => indications = <<>> /\ svcChngdQueue = <<>>
  /\ svcChngdQueue # <<>> => inSvcChngd
  /\ ccc # "no" => ~inInit

Listening ==
  /\ enabled => listening # {}
  /\ ccc # "no" => ccc = "init" /\ listening # {}
  /\ listening \subseteq ServiceChangedArea(dev)
  /\ \A r \in El(Due) : Beside(dev, r)
  /\ proc # {} /\ ~op.init => Beside(dev, op)
  /\ DbPlaced(dev, db)
  /\ \A p \in proc : ChrcsPlaced(dev, op) /\ FoundPlaced(dev, p.kind, p.found)

Meaning ==
  /\ AllAligned(dev, Due)
  /\ proc = {} => Settled(dev, Due, db, failed)
  /\ \A p \in proc : /\ Sense(dev, Due, op, db, p.kind, p.to, failed)
                    /\ FoundAll(dev, Due, op, db, p.kind, p.from - 1, p.found)

Shape ==
  /\ Control
  /\ proc # {} => \E p : proc = {p} /\ Frame(op, db, p.kind, p.to) /\ ProcedureOK(op, db, p)

IInv ==
  /\ Shape
  /\ ~Wide => Listening
  /\ Sound /\ link = "up" => Meaning
  /\ NoGaps /\ link = "gone" => ActiveIsComplete

---------------------------------------------------------------------------
(* Sets of numbers, and items in order.                                    *)

LEMMA Least ==
  ASSUME NEW T, T \subseteq Nat, T # {}
  PROVE  \E n \in T : \A m \in T : n <= m
<1>1. PICK n \in T : \A m \in T : ~(<<m, n>> \in OpToRel(<, Nat))
  BY NatLessThanWellFounded, WFMin
<1>2. ASSUME NEW m \in T PROVE n <= m
  <2>1. n \in Nat /\ m \in Nat
    OBVIOUS
  <2>2. ~(m < n)
    BY <1>1, <2>1 DEF OpToRel
  <2> QED BY <2>1, <2>2
<1> QED BY <1>2

\* Items that can be put in the order of their handles.
Orderable(S) ==
  /\ IsFiniteSet(S) /\ \A a \in S : a.at \in Nat
  /\ \A a, b \in S : a.at = b.at => a = b

LEMMA InOrderIs ==
  ASSUME NEW S, Orderable(S)
  PROVE  /\ InOrder(S) \in Seq(S) /\ El(InOrder(S)) = S
         /\ \A i, j \in DOMAIN InOrder(S) : i < j => InOrder(S)[i].at < InOrder(S)[j].at
<1> DEFINE n == Cardinality(S)
           Below(a) == {b \in S : b.at <= a.at}
           rank == [a \in S |-> Cardinality(Below(a))]
<1>1. n \in Nat /\ IsFiniteSet(S)
  BY FS_CardinalityType DEF Orderable
<1>2. ASSUME NEW a \in S
      PROVE  IsFiniteSet(Below(a)) /\ rank[a] = Cardinality(Below(a)) /\ rank[a] \in 1..n
  <2>1. Below(a) \in SUBSET S /\ a \in Below(a)
    BY DEF Orderable
  <2>2. IsFiniteSet(Below(a)) /\ Cardinality(Below(a)) <= n
    BY <1>1, <2>1, FS_Subset
  <2>3. Cardinality(Below(a)) \in Nat /\ Cardinality(Below(a)) # 0
    BY <2>1, <2>2, FS_CardinalityType, FS_EmptySet
  <2>4. rank[a] = Cardinality(Below(a))
    OBVIOUS
  <2> HIDE DEF Below, rank, n
  <2> QED BY <1>1, <2>2, <2>3, <2>4
<1>3. ASSUME NEW a \in S, NEW b \in S, a.at < b.at PROVE rank[a] < rank[b]
  <2>1. Below(a) \in SUBSET Below(b) /\ b \in Below(b) /\ b \notin Below(a)
    BY <1>3 DEF Orderable
  <2>2. Below(a) # Below(b)
    BY <2>1
  <2> HIDE DEF Below, rank, n
  <2>3. Cardinality(Below(a)) <= Cardinality(Below(b)) /\ Cardinality(Below(a)) # Cardinality(Below(b))
    BY <1>2, <2>1, <2>2, FS_Subset
  <2> QED BY <1>1, <1>2, <2>3
<1>4. rank \in Injection(S, 1..n)
  <2>1. rank \in [S -> 1..n]
    <3>1. rank = [a \in S |-> rank[a]]
      OBVIOUS
    <3> HIDE DEF rank, n
    <3> QED BY <1>2, <3>1
  <2>2. ASSUME NEW a \in S, NEW b \in S, rank[a] = rank[b] PROVE a = b
    <3>1. a.at \in Nat /\ b.at \in Nat /\ (a.at = b.at => a = b)
      BY DEF Orderable
    <3>2. rank[a] \in Nat /\ rank[b] \in Nat
      BY <1>1, <1>2
    <3>3. a.at < b.at => rank[a] < rank[b]
      BY <1>3
    <3>4. b.at < a.at => rank[b] < rank[a]
      BY <1>3
    <3>5. ~(a.at < b.at) /\ ~(b.at < a.at)
      <4> HIDE DEF rank, n
      <4> QED BY <2>2, <3>2, <3>3, <3>4
    <3> QED BY <3>1, <3>5
  <2> HIDE DEF rank, n
  <2> QED BY <2>1, <2>2 DEF Injection, IsInjective
<1>5. \A m \in 1..n : \E a \in S : rank[a] = m
  <2>1. IsFiniteSet(1..n) /\ Cardinality(1..n) = n
    <3> HIDE DEF n
    <3> QED BY <1>1, FS_Interval
  <2>2. rank \in Surjection(S, 1..n)
    <3> HIDE DEF rank
    <3> QED BY <1>4, <2>1, FS_Injection
  <2> HIDE DEF rank, n
  <2> QED BY <2>2 DEF Surjection
<1>6. InOrder(S) = [m \in 1..n |-> CHOOSE a \in S : Cardinality(Below(a)) = m]
  BY DEF InOrder
<1>7. ASSUME NEW m \in 1..n PROVE InOrder(S)[m] \in S /\ rank[InOrder(S)[m]] = m
  <2>1. InOrder(S)[m] = CHOOSE a \in S : Cardinality(Below(a)) = m
    BY <1>6
  <2>2. \E a \in S : Cardinality(Below(a)) = m
    <3> HIDE DEF Below, rank, n
    <3> QED BY <1>2, <1>5
  <2> HIDE DEF Below, rank, n
  <2>3. InOrder(S)[m] \in S /\ Cardinality(Below(InOrder(S)[m])) = m
    BY <2>1, <2>2
  <2> QED BY <1>2, <2>3
<1>8. InOrder(S) \in Seq(S) /\ DOMAIN InOrder(S) = 1..n
  <2>1. InOrder(S) = [m \in 1..n |-> InOrder(S)[m]]
    BY <1>6
  <2> HIDE DEF Below, rank, n
  <2>2. InOrder(S) \in [1..n -> S]
    BY <1>7, <2>1
  <2> QED BY <1>1, <2>2
<1>9. El(InOrder(S)) = S
  <2>1. ASSUME NEW a \in S PROVE \E m \in 1..n : InOrder(S)[m] = a
    <3> HIDE DEF Below, rank, n
    <3>1. rank[a] \in 1..n
      BY <1>2
    <3>2. InOrder(S)[rank[a]] \in S /\ rank[InOrder(S)[rank[a]]] = rank[a]
      BY <1>7, <3>1
    <3>3. InOrder(S)[rank[a]] = a
      BY <1>4, <3>2 DEF Injection, IsInjective
    <3> QED BY <3>1, <3>3
  <2> HIDE DEF Below, rank, n
  <2> QED BY <1>7, <1>8, <2>1 DEF El
<1>10. ASSUME NEW i \in 1..n, NEW j \in 1..n, i < j PROVE InOrder(S)[i].at < InOrder(S)[j].at
  <2> DEFINE a == InOrder(S)[i]
             b == InOrder(S)[j]
  <2>1. a \in S /\ b \in S /\ rank[a] = i /\ rank[b] = j
    <3> HIDE DEF Below, rank, n
    <3> QED BY <1>7
  <2> HIDE DEF a, b
  <2>2. a.at \in Nat /\ b.at \in Nat /\ (a.at = b.at => a = b)
    BY <2>1 DEF Orderable
  <2>3. ~(b.at < a.at) /\ a # b
    <3> HIDE DEF Below, rank, n
    <3> QED BY <1>1, <1>3, <1>10, <2>1
  <2>4. a.at < b.at
    BY <2>2, <2>3
  <2> QED BY <2>4 DEF a, b
<1> HIDE DEF n
<1> QED BY <1>8, <1>9, <1>10

---------------------------------------------------------------------------
(* The tables of the device.                                               *)

LEMMA ServiceFacts ==
  ASSUME NEW T, T \in Tables, NEW s, s \in T
  PROVE  /\ s.start \in Handles /\ s.end \in Handles /\ s.start <= s.end
         /\ s.primary \in BOOLEAN /\ s.target \in Nat
         /\ s.layout \in Seq(Kinds \cup {"gap"}) /\ WellFormed(s.layout)
         /\ Len(s.layout) \in Nat /\ 1 <= Len(s.layout)
         /\ s.start + Len(s.layout) - 1 <= s.end
<1>1. ConformingService(s)
  BY TablesAssumption
<1>2. s.start \in Handles /\ s.end \in s.start..MaxHandle /\ Len(s.layout) \in 1..(s.end - s.start + 1)
      /\ s.primary \in BOOLEAN /\ s.target \in Nat
      /\ s.layout \in Seq(Kinds \cup {"gap"}) /\ WellFormed(s.layout)
  BY <1>1 DEF ConformingService
<1> QED BY <1>2 DEF Handles

LEMMA OneService ==
  ASSUME NEW T, T \in Tables, NEW s, s \in T, NEW t, t \in T, Overlap(s, t)
  PROVE  s = t
BY TablesAssumption

\* Two services that have a handle in common are one.
LEMMA OneAtHandle ==
  ASSUME NEW T, T \in Tables, NEW s, s \in T, NEW t, t \in T, NEW h, h \in Int,
         s.start <= h, h <= s.end, t.start <= h, h <= t.end
  PROVE  s = t
<1>1. s.start \in Int /\ s.end \in Int /\ t.start \in Int /\ t.end \in Int
  BY ServiceFacts DEF Handles
<1>2. Overlap(s, t)
  BY <1>1 DEF Overlap
<1> QED BY <1>2, OneService

\* The item for an attribute.
Item(kind, s, i) == IF kind = "chr" THEN Value(s, i) ELSE Attribute(s, i)

LEMMA MatchingIs ==
  ASSUME NEW T, NEW kind, NEW lo, NEW hi, NEW f
  PROVE  /\ kind \in Grouped =>
              (f \in Matching(T, kind, lo, hi) <=>
                 \E s \in T : /\ s.primary = (kind = "primary") /\ s.start \in lo..hi
                              /\ f = [at |-> s.start, to |-> s.end, kind |-> "svc"])
         /\ kind \notin Grouped =>
              (f \in Matching(T, kind, lo, hi) <=>
                 \E s \in T : \E i \in Wanted(s, kind, lo, hi) : f = Item(kind, s, i))
<1>1. CASE kind \in Grouped
  <2>1. Matching(T, kind, lo, hi) = Services(T, kind = "primary", lo, hi)
    BY <1>1 DEF Matching, Grouped
  <2> QED BY <1>1, <2>1 DEF Services
<1>2. CASE kind \notin Grouped
  <2>1. Matching(T, kind, lo, hi) = UNION {Attributes(s, kind, lo, hi) : s \in T}
    BY <1>2 DEF Matching, Grouped
  <2>2. \A s : f \in Attributes(s, kind, lo, hi) <=> \E i \in Wanted(s, kind, lo, hi) : f = Item(kind, s, i)
    BY DEF Attributes, Item
  <2>3. f \in UNION {Attributes(s, kind, lo, hi) : s \in T} <=> \E s \in T : f \in Attributes(s, kind, lo, hi)
    OBVIOUS
  <2> QED BY <1>2, <2>1, <2>2, <2>3
<1> QED BY <1>1, <1>2

LEMMA WantedFacts ==
  ASSUME NEW T, T \in Tables, NEW s, s \in T, NEW kind, NEW lo, lo \in Nat, NEW hi, hi \in Nat,
         NEW i, i \in Wanted(s, kind, lo, hi)
  PROVE  /\ i \in Nat /\ 1 <= i /\ i <= Len(s.layout) /\ s.layout[i] \in Kinds
         /\ lo <= s.start + i - 1 /\ s.start + i - 1 <= hi
         /\ s.start + i - 1 \in Handles /\ s.start + i - 1 <= s.end
         /\ kind \in {"inc", "chr"} => s.layout[i] = kind
         /\ kind = "chr" => i + 1 <= Len(s.layout) /\ s.layout[i + 1] \in Kinds /\ s.start + i \in Handles
<1>1. /\ s.start \in Handles /\ s.end \in Handles /\ s.layout \in Seq(Kinds \cup {"gap"})
      /\ WellFormed(s.layout) /\ Len(s.layout) \in Nat /\ s.start + Len(s.layout) - 1 <= s.end
  BY ServiceFacts
<1>2. DOMAIN s.layout = 1..Len(s.layout) /\ \A j \in 1..Len(s.layout) : s.layout[j] \in Kinds \cup {"gap"}
  BY <1>1
<1>3. /\ i \in DOMAIN s.layout /\ s.start + i - 1 \in lo..hi /\ s.layout[i] # "gap"
      /\ kind \in {"inc", "chr"} => s.layout[i] = kind
  BY DEF Wanted
<1>4. i \in 1..Len(s.layout) /\ s.layout[i] \in Kinds
  BY <1>2, <1>3
<1>5. kind = "chr" => i + 1 <= Len(s.layout) /\ s.layout[i + 1] \in Kinds
  <2> SUFFICES ASSUME kind = "chr" PROVE i < Len(s.layout) /\ s.layout[i + 1] \in {"val", "scv"}
    BY <1>1, <1>4 DEF Kinds
  <2>1. s.layout[i] = "chr"
    BY <1>3
  <2> QED BY <1>1, <1>3, <2>1 DEF WellFormed
<1>6. i \in Nat /\ s.start \in Nat /\ 1 <= s.start /\ s.end \in Nat /\ s.end <= MaxHandle
  BY <1>1, <1>4 DEF Handles
<1>7. 1 <= i /\ i <= Len(s.layout) /\ lo <= s.start + i - 1 /\ s.start + i - 1 <= hi
  BY <1>1, <1>3, <1>4, <1>6
<1>8. s.start + i - 1 \in Handles /\ s.start + i - 1 <= s.end
  BY <1>1, <1>6, <1>7 DEF Handles
<1>9. kind = "chr" => s.start + i \in Handles
  <2> DEFINE n == Len(s.layout)
  <2>1. n \in Nat /\ s.start + n - 1 <= s.end /\ (kind = "chr" => i + 1 <= n)
    BY <1>1, <1>5
  <2> HIDE DEF n
  <2>2. kind = "chr" => s.start + i <= s.end
    BY <1>6, <2>1
  <2> QED BY <1>6, <2>2 DEF Handles
<1> QED BY <1>3, <1>4, <1>5, <1>6, <1>7, <1>8, <1>9

LEMMA ItemFacts ==
  ASSUME NEW T, T \in Tables, NEW s, s \in T, NEW kind, NEW lo, lo \in Nat, NEW hi, hi \in Nat,
         NEW i, i \in Wanted(s, kind, lo, hi)
  PROVE  /\ Item(kind, s, i) \in Items /\ Item(kind, s, i).at = s.start + i - 1
         /\ kind = "chr" => Item(kind, s, i).to = s.start + i /\ Item(kind, s, i).kind = s.layout[i + 1]
         /\ kind # "chr" => Item(kind, s, i).kind = s.layout[i]
<1>1. s.target \in Nat
  BY ServiceFacts
<1>2. /\ s.layout[i] \in Kinds /\ s.start + i - 1 \in Handles
      /\ kind = "chr" => s.layout[i + 1] \in Kinds /\ s.start + i \in Handles
  BY WantedFacts
<1> QED BY <1>1, <1>2 DEF Item, Value, Attribute, Items, Handles

\* What can answer a request for lo..hi.
AnswerOK(M, kind, lo, hi) ==
  /\ M \subseteq Items /\ Orderable(M)
  /\ \A f \in M : /\ lo <= f.at /\ f.at <= hi
                  /\ kind \in Grouped => f.at <= f.to /\ f.to <= MaxHandle
                  /\ kind = "chr" => f.to = f.at + 1 /\ f.to <= MaxHandle
  /\ kind \in Grouped => \A f, g \in M : f.at < g.at => f.to < g.at

LEMMA MatchingOK ==
  ASSUME NEW T, T \in Tables, NEW kind, NEW lo, lo \in Nat, NEW hi, hi \in Nat
  PROVE  AnswerOK(Matching(T, kind, lo, hi), kind, lo, hi)
<1> DEFINE M == Matching(T, kind, lo, hi)
<1> HIDE DEF M
<1>m. \A f : f \in M <=> f \in Matching(T, kind, lo, hi)
  BY DEF M
<1> DEFINE Facts ==
             /\ \A f \in M : /\ f \in Items /\ lo <= f.at /\ f.at <= hi
                             /\ kind \in Grouped => f.at <= f.to /\ f.to <= MaxHandle
                             /\ kind = "chr" => f.to = f.at + 1 /\ f.to <= MaxHandle
             /\ \A f, g \in M : f.at = g.at => f = g
             /\ kind \in Grouped => \A f, g \in M : f.at < g.at => f.to < g.at
<1>1. ASSUME kind \in Grouped PROVE Facts
  <2>1. \A f \in M : \E s \in T : s.start \in lo..hi /\ f = [at |-> s.start, to |-> s.end, kind |-> "svc"]
    BY <1>1, <1>m, MatchingIs
  <2>2. ASSUME NEW f \in M
        PROVE  f \in Items /\ lo <= f.at /\ f.at <= hi /\ f.at <= f.to /\ f.to <= MaxHandle
    <3>1. PICK s \in T : s.start \in lo..hi /\ f = [at |-> s.start, to |-> s.end, kind |-> "svc"]
      BY <2>1
    <3>2. s.start \in Handles /\ s.end \in Handles /\ s.start <= s.end
      BY ServiceFacts
    <3> QED BY <3>1, <3>2 DEF Items, Handles, Kinds
  <2>3. ASSUME NEW f \in M, NEW g \in M PROVE (f.at = g.at => f = g) /\ (f.at < g.at => f.to < g.at)
    <3>1. PICK s \in T : s.start \in lo..hi /\ f = [at |-> s.start, to |-> s.end, kind |-> "svc"]
      BY <2>1
    <3>2. PICK t \in T : t.start \in lo..hi /\ g = [at |-> t.start, to |-> t.end, kind |-> "svc"]
      BY <2>1
    <3>3. /\ s.start \in Int /\ s.end \in Int /\ s.start <= s.end
          /\ t.start \in Int /\ t.end \in Int /\ t.start <= t.end
      BY ServiceFacts DEF Handles
    <3>4. Overlap(s, t) => s = t
      BY OneService
    <3> QED BY <3>1, <3>2, <3>3, <3>4 DEF Overlap
  <2> QED BY <1>1, <2>2, <2>3 DEF Grouped
<1>2. ASSUME kind \notin Grouped PROVE Facts
  <2>1. \A f \in M : \E s \in T : \E i \in Wanted(s, kind, lo, hi) : f = Item(kind, s, i)
    BY <1>2, <1>m, MatchingIs
  <2>2. ASSUME NEW f \in M
        PROVE  f \in Items /\ lo <= f.at /\ f.at <= hi /\ (kind = "chr" => f.to = f.at + 1 /\ f.to <= MaxHandle)
    <3>s. PICK s \in T : \E i \in Wanted(s, kind, lo, hi) : f = Item(kind, s, i)
      BY <2>1
    <3>1. PICK i \in Wanted(s, kind, lo, hi) : f = Item(kind, s, i)
      BY <3>s
    <3>2. s.start \in Int
      BY ServiceFacts DEF Handles
    <3>3. f \in Items /\ f.at = s.start + i - 1 /\ (kind = "chr" => f.to = s.start + i)
      BY <3>1, ItemFacts
    <3>4. /\ i \in Nat /\ lo <= s.start + i - 1 /\ s.start + i - 1 <= hi
          /\ kind = "chr" => s.start + i \in Handles
      BY WantedFacts
    <3> QED BY <3>2, <3>3, <3>4 DEF Handles
  <2>3. ASSUME NEW f \in M, NEW g \in M, f.at = g.at PROVE f = g
    <3>s. PICK s \in T : \E i \in Wanted(s, kind, lo, hi) : f = Item(kind, s, i)
      BY <2>1
    <3>1. PICK i \in Wanted(s, kind, lo, hi) : f = Item(kind, s, i)
      BY <3>s
    <3>t. PICK t \in T : \E j \in Wanted(t, kind, lo, hi) : g = Item(kind, t, j)
      BY <2>1
    <3>2. PICK j \in Wanted(t, kind, lo, hi) : g = Item(kind, t, j)
      BY <3>t
    <3>3. f.at = s.start + i - 1 /\ g.at = t.start + j - 1
      BY <3>1, <3>2, ItemFacts
    <3>4. i \in Nat /\ 1 <= i /\ s.start + i - 1 <= s.end /\ j \in Nat /\ 1 <= j /\ t.start + j - 1 <= t.end
      BY WantedFacts
    <3>5. s.start \in Int /\ t.start \in Int /\ s.end \in Int /\ t.end \in Int
      BY ServiceFacts DEF Handles
    <3>a. s.start + i - 1 = t.start + j - 1
      BY <2>3, <3>3
    <3>6. Overlap(s, t)
      BY <3>a, <3>4, <3>5 DEF Overlap
    <3>7. s = t
      BY <3>6, OneService
    <3>8. i = j
      BY <3>a, <3>4, <3>5, <3>7
    <3> QED BY <3>1, <3>2, <3>7, <3>8
  <2> QED BY <1>2, <2>2, <2>3
<1>3. M \subseteq Items /\ \A f, g \in M : f.at = g.at => f = g
  BY <1>1, <1>2 DEF Facts
<1>4. IsFiniteSet(M)
  <2> DEFINE at == [f \in M |-> f.at]
  <2>1. at \in Injection(M, 1..MaxHandle)
    <3>1. \A f \in M : f.at \in 1..MaxHandle
      BY <1>3 DEF Items, Handles
    <3> QED BY <1>3, <3>1 DEF Injection, IsInjective
  <2>2. IsFiniteSet(1..MaxHandle)
    BY FS_Interval
  <2> HIDE DEF at, M
  <2> QED BY <2>1, <2>2, FS_Injection
<1>5. Orderable(M)
  BY <1>3, <1>4 DEF Orderable, Items, Handles
<1> QED BY <1>1, <1>2, <1>5 DEF AnswerOK, M

\* A request for a part of the handles gets that part of all there is.
LEMMA MatchingRange ==
  ASSUME NEW T, T \in Tables, NEW kind, NEW lo, lo \in Nat, NEW hi, hi \in Nat, NEW f
  PROVE  f \in Matching(T, kind, lo, hi) <=> f \in Matching(T, kind, 0, MaxHandle) /\ lo <= f.at /\ f.at <= hi
<1>1. CASE kind \in Grouped
  <2>1. ASSUME NEW a, a \in Nat, NEW b, b \in Nat
        PROVE  f \in Matching(T, kind, a, b) <=>
                 \E s \in T : /\ s.primary = (kind = "primary") /\ s.start \in a..b
                              /\ f = [at |-> s.start, to |-> s.end, kind |-> "svc"]
    BY <1>1, MatchingIs
  <2>2. \A s \in T : s.start \in 0..MaxHandle /\ s.start \in Int
    BY ServiceFacts DEF Handles
  <2>3. f \in Matching(T, kind, lo, hi) <=>
          \E s \in T : /\ s.primary = (kind = "primary") /\ s.start \in lo..hi
                       /\ f = [at |-> s.start, to |-> s.end, kind |-> "svc"]
    BY <2>1
  <2>4. f \in Matching(T, kind, 0, MaxHandle) <=>
          \E s \in T : /\ s.primary = (kind = "primary") /\ s.start \in 0..MaxHandle
                       /\ f = [at |-> s.start, to |-> s.end, kind |-> "svc"]
    BY <2>1
  <2>5. ASSUME NEW s \in T, f = [at |-> s.start, to |-> s.end, kind |-> "svc"]
        PROVE  s.start \in lo..hi <=> s.start \in 0..MaxHandle /\ lo <= f.at /\ f.at <= hi
    BY <2>2, <2>5
  <2> QED BY <2>3, <2>4, <2>5
<1>2. CASE kind \notin Grouped
  <2>1. ASSUME NEW s \in T, NEW i
        PROVE  i \in Wanted(s, kind, lo, hi) <=>
                 i \in Wanted(s, kind, 0, MaxHandle) /\ lo <= s.start + i - 1 /\ s.start + i - 1 <= hi
    <3>1. s.start \in Int /\ s.end \in Int /\ s.start >= 1 /\ s.end <= MaxHandle
          /\ Len(s.layout) \in Nat /\ s.start + Len(s.layout) - 1 <= s.end
          /\ DOMAIN s.layout = 1..Len(s.layout)
      BY ServiceFacts DEF Handles
    <3>2. i \in DOMAIN s.layout => s.start + i - 1 \in 0..MaxHandle /\ i \in Int
      BY <3>1
    <3> QED BY <3>1, <3>2 DEF Wanted
  <2>2. f \in Matching(T, kind, lo, hi) <=> \E s \in T : \E i \in Wanted(s, kind, lo, hi) : f = Item(kind, s, i)
    BY <1>2, MatchingIs
  <2>3. f \in Matching(T, kind, 0, MaxHandle)
          <=> \E s \in T : \E i \in Wanted(s, kind, 0, MaxHandle) : f = Item(kind, s, i)
    BY <1>2, MatchingIs
  <2>4. \A s \in T : \A i \in Wanted(s, kind, 0, MaxHandle) : Item(kind, s, i).at = s.start + i - 1
    BY ItemFacts
  <2> QED BY <2>1, <2>2, <2>3, <2>4
<1> QED BY <1>1, <1>2

---------------------------------------------------------------------------
(* Sequences.                                                              *)

LEMMA SeqFacts ==
  ASSUME NEW S, NEW q, q \in Seq(S)
  PROVE  /\ Len(q) \in Nat /\ DOMAIN q = 1..Len(q) /\ El(q) \subseteq S
         /\ \A i \in 1..Len(q) : q[i] \in S /\ q[i] \in El(q)
         /\ \A x \in El(q) : \E i \in 1..Len(q) : q[i] = x
<1>1. Len(q) \in Nat /\ DOMAIN q = 1..Len(q) /\ \A i \in 1..Len(q) : q[i] \in S
  BY LenProperties, ElementOfSeq
<1> QED BY <1>1 DEF El

LEMMA ConcatIs ==
  ASSUME NEW S, NEW a, a \in Seq(S), NEW b, b \in Seq(S)
  PROVE  /\ a \o b \in Seq(S) /\ Len(a \o b) = Len(a) + Len(b)
         /\ \A i \in 1..Len(a) : (a \o b)[i] = a[i]
         /\ \A i \in 1..Len(b) : (a \o b)[Len(a) + i] = b[i]
         /\ El(a \o b) = El(a) \cup El(b)
<1> DEFINE c == a \o b
<1>0. Len(a) \in Nat /\ Len(b) \in Nat
  BY LenProperties
<1>1. c \in Seq(S) /\ Len(c) = Len(a) + Len(b)
      /\ \A i \in 1..Len(a) + Len(b) : c[i] = IF i <= Len(a) THEN a[i] ELSE b[i - Len(a)]
  BY ConcatProperties
<1> HIDE DEF c
<1>2. \A i \in 1..Len(a) : c[i] = a[i]
  BY <1>0, <1>1
<1>3. ASSUME NEW i \in 1..Len(b) PROVE c[Len(a) + i] = b[i]
  <2> DEFINE k == Len(a) + i
  <2>1. k \in 1..Len(a) + Len(b) /\ ~(k <= Len(a)) /\ k - Len(a) = i
    BY <1>0
  <2> HIDE DEF k
  <2>2. c[k] = b[k - Len(a)]
    BY <1>1, <2>1
  <2> QED BY <2>1, <2>2 DEF k
<1>4. ASSUME NEW x PROVE x \in El(c) <=> x \in El(a) \/ x \in El(b)
  <2>1. DOMAIN c = 1..Len(c) /\ DOMAIN a = 1..Len(a) /\ DOMAIN b = 1..Len(b)
    BY <1>1, LenProperties
  <2>2. ASSUME x \in El(c) PROVE x \in El(a) \/ x \in El(b)
    <3>1. PICK i \in 1..Len(c) : x = c[i]
      BY <2>1, <2>2 DEF El
    <3>2. CASE i <= Len(a)
      BY <1>0, <1>1, <2>1, <3>1, <3>2 DEF El
    <3>3. CASE ~(i <= Len(a))
      <4>1. i - Len(a) \in 1..Len(b) /\ x = b[i - Len(a)]
        BY <1>0, <1>1, <3>1, <3>3
      <4> QED BY <2>1, <4>1 DEF El
    <3> QED BY <3>2, <3>3
  <2>3. ASSUME x \in El(a) PROVE x \in El(c)
    <3>1. PICK i \in 1..Len(a) : x = a[i]
      BY <2>1, <2>3 DEF El
    <3>2. i \in 1..Len(c) /\ x = c[i]
      BY <1>0, <1>1, <1>2, <3>1
    <3> QED BY <2>1, <3>2 DEF El
  <2>4. ASSUME x \in El(b) PROVE x \in El(c)
    <3>1. PICK i \in 1..Len(b) : x = b[i]
      BY <2>1, <2>4 DEF El
    <3>2. Len(a) + i \in 1..Len(c) /\ x = c[Len(a) + i]
      BY <1>0, <1>1, <1>3, <3>1
    <3> QED BY <2>1, <3>2 DEF El
  <2> QED BY <2>2, <2>3, <2>4
<1> QED BY <1>1, <1>2, <1>3, <1>4 DEF c

LEMMA ConcatThree ==
  ASSUME NEW S, NEW a, a \in Seq(S), NEW b, b \in Seq(S), NEW c, c \in Seq(S)
  PROVE  (a \o b) \o c = a \o (b \o c)
BY ConcatAssociative

\* A sequence cut behind its n-th element.
LEMMA CutIs ==
  ASSUME NEW S, NEW q, q \in Seq(S), NEW n, n \in 0..Len(q)
  PROVE  /\ SubSeq(q, 1, n) \in Seq(S) /\ Len(SubSeq(q, 1, n)) = n
         /\ \A i \in 1..n : SubSeq(q, 1, n)[i] = q[i]
         /\ SubSeq(q, n + 1, Len(q)) \in Seq(S) /\ Len(SubSeq(q, n + 1, Len(q))) = Len(q) - n
         /\ \A i \in 1..Len(q) - n : SubSeq(q, n + 1, Len(q))[i] = q[n + i]
         /\ SubSeq(q, 1, n) \o SubSeq(q, n + 1, Len(q)) = q
<1>1. Len(q) \in Nat /\ n \in Nat /\ n <= Len(q) /\ \A i \in 1..Len(q) : q[i] \in S
  BY LenProperties, ElementOfSeq
<1> DEFINE a == SubSeq(q, 1, n)
           b == SubSeq(q, n + 1, Len(q))
<1>2. a \in Seq(S) /\ Len(a) = n /\ \A i \in 1..n : a[i] = q[i]
  BY <1>1, SubSeqProperties
<1>3. b \in Seq(S) /\ Len(b) = Len(q) - n /\ \A i \in 1..Len(q) - n : b[i] = q[n + i]
  <2> DEFINE m == n + 1
  <2>0. m \in Int /\ Len(q) \in Int /\ \A i \in m..Len(q) : q[i] \in S
    BY <1>1
  <2>1. /\ SubSeq(q, m, Len(q)) \in Seq(S)
        /\ Len(SubSeq(q, m, Len(q))) = IF m <= Len(q) THEN Len(q) - m + 1 ELSE 0
        /\ \A i \in 1..Len(q) - m + 1 : SubSeq(q, m, Len(q))[i] = q[m + i - 1]
    <3> HIDE DEF m
    <3> QED BY <2>0, SubSeqProperties
  <2>2. Len(b) = Len(q) - n
    BY <1>1, <2>1
  <2>3. ASSUME NEW i \in 1..Len(q) - n PROVE b[i] = q[n + i]
    <3>1. m + i - 1 = n + i /\ i \in 1..Len(q) - m + 1
      BY <1>1
    <3>2. SubSeq(q, m, Len(q))[i] = q[m + i - 1]
      <4> HIDE DEF m
      <4> QED BY <2>1, <3>1
    <3> QED BY <3>1, <3>2
  <2> QED BY <2>1, <2>2, <2>3
<1> HIDE DEF a, b
<1>4. a \o b = q
  <2> DEFINE c == a \o b
  <2>1. c \in Seq(S) /\ Len(c) = Len(q)
        /\ \A i \in 1..Len(q) : c[i] = IF i <= n THEN a[i] ELSE b[i - n]
    BY <1>1, <1>2, <1>3, ConcatProperties
  <2> HIDE DEF c
  <2>2. ASSUME NEW i \in 1..Len(q) PROVE c[i] = q[i]
    BY <1>1, <1>2, <1>3, <2>1
  <2>3. c = q
    BY <2>1, <2>2, SeqEqual
  <2> QED BY <2>3 DEF c
<1> QED BY <1>2, <1>3, <1>4 DEF a, b

\* The head of a sequence in front of its tail.
LEMMA HeadTailIs ==
  ASSUME NEW S, NEW q, q \in Seq(S), q # <<>>
  PROVE  /\ Head(q) = q[1] /\ Head(q) \in S /\ Len(q) \in Nat /\ 1 <= Len(q)
         /\ Tail(q) \in Seq(S) /\ <<Head(q)>> \o Tail(q) = q
<1>1. Head(q) \in S /\ Tail(q) \in Seq(S) /\ Len(Tail(q)) = Len(q) - 1
      /\ \A i \in 1..Len(Tail(q)) : Tail(q)[i] = q[i + 1]
  BY HeadTailProperties
<1>2. Head(q) = q[1] /\ Len(q) \in Nat /\ 1 <= Len(q)
  BY EmptySeq, LenProperties
<1> DEFINE c == <<Head(q)>> \o Tail(q)
<1>3. <<Head(q)>> \in Seq(S) /\ Len(<<Head(q)>>) = 1 /\ <<Head(q)>>[1] = Head(q)
  BY <1>1
<1>4. c \in Seq(S) /\ Len(c) = 1 + Len(Tail(q))
      /\ \A i \in 1..1 + Len(Tail(q)) : c[i] = IF i <= 1 THEN <<Head(q)>>[i] ELSE Tail(q)[i - 1]
  BY <1>1, <1>3, ConcatProperties
<1> HIDE DEF c
<1>5. ASSUME NEW i \in 1..Len(q) PROVE c[i] = q[i]
  <2>1. CASE i = 1
    BY <1>1, <1>2, <1>3, <1>4, <2>1
  <2>2. CASE i # 1
    <3>1. i - 1 \in 1..Len(Tail(q)) /\ (i - 1) + 1 = i /\ ~(i <= 1) /\ i \in 1..1 + Len(Tail(q))
      BY <1>1, <1>2, <2>2
    <3>2. Tail(q)[i - 1] = q[(i - 1) + 1]
      BY <1>1, <3>1
    <3> QED BY <1>4, <3>1, <3>2
  <2> QED BY <2>1, <2>2
<1>6. c = q
  BY <1>1, <1>2, <1>4, <1>5, SeqEqual
<1> QED BY <1>1, <1>2, <1>6 DEF c

LEMMA FirstIs ==
  ASSUME NEW I, I \subseteq Nat, I # {}
  PROVE  Min(I) \in I /\ \A m \in I : Min(I) <= m
<1>1. \E x \in I : \A y \in I : x <= y
  BY Least
<1> QED BY <1>1 DEF Min

\* The first service of a list that takes more than one handle.
LEMMA FirstToAskIs ==
  ASSUME NEW d, NEW q, q \in Seq(Handles)
  PROVE  /\ FirstToAsk(d, q) \in 0..Len(q)
         /\ \A i \in 1..Len(q) :
              FirstToAsk(d, q) = 0 \/ i < FirstToAsk(d, q) => ~(End(d, q[i]) > q[i])
         /\ FirstToAsk(d, q) # 0 => End(d, q[FirstToAsk(d, q)]) > q[FirstToAsk(d, q)]
<1> DEFINE I == {i \in 1..Len(q) : End(d, q[i]) > q[i]}
<1>1. FirstToAsk(d, q) = IF I # {} THEN Min(I) ELSE 0
  BY DEF FirstToAsk, SelectInSeq
<1>2. Len(q) \in Nat /\ I \subseteq Nat
  BY SeqFacts
<1>3. I # {} => Min(I) \in I /\ \A m \in I : Min(I) <= m
  <2> HIDE DEF I
  <2> QED BY <1>2, FirstIs
<1>4. CASE I = {}
  BY <1>1, <1>2, <1>4
<1>5. CASE I # {}
  <2>1. FirstToAsk(d, q) = Min(I) /\ Min(I) \in I /\ \A m \in I : Min(I) <= m
    <3> HIDE DEF I
    <3> QED BY <1>1, <1>3, <1>5
  <2> DEFINE k == FirstToAsk(d, q)
  <2>2. k \in 1..Len(q) /\ End(d, q[k]) > q[k] /\ \A m \in I : k <= m
    BY <2>1
  <2> HIDE DEF k
  <2>3. ASSUME NEW i \in 1..Len(q), i < k PROVE ~(End(d, q[i]) > q[i])
    BY <1>2, <2>2, <2>3
  <2> QED BY <1>2, <2>2, <2>3 DEF k
<1> QED BY <1>4, <1>5

\* The first characteristic of a list with handles for descriptors.
LEMMA FirstRoomIs ==
  ASSUME NEW q, q \in Seq(Chrcs)
  PROVE  /\ FirstWithRoom(q) \in 0..Len(q)
         /\ \A i \in 1..Len(q) :
              FirstWithRoom(q) = 0 \/ i < FirstWithRoom(q) => ~HasRoom(q[i])
         /\ FirstWithRoom(q) # 0 => HasRoom(q[FirstWithRoom(q)])
<1> DEFINE I == {i \in 1..Len(q) : HasRoom(q[i])}
<1>1. FirstWithRoom(q) = IF I # {} THEN Min(I) ELSE 0
  BY DEF FirstWithRoom, SelectInSeq
<1>2. Len(q) \in Nat /\ I \subseteq Nat
  BY SeqFacts
<1>3. I # {} => Min(I) \in I /\ \A m \in I : Min(I) <= m
  <2> HIDE DEF I
  <2> QED BY <1>2, FirstIs
<1>4. CASE I = {}
  BY <1>1, <1>2, <1>4
<1>5. CASE I # {}
  <2> DEFINE k == FirstWithRoom(q)
  <2>1. k \in I /\ \A m \in I : k <= m
    <3> HIDE DEF I
    <3> QED BY <1>1, <1>3, <1>5
  <2>2. k \in 1..Len(q) /\ HasRoom(q[k]) /\ \A m \in I : k <= m
    BY <2>1
  <2> HIDE DEF k
  <2>3. ASSUME NEW i \in 1..Len(q), i < k PROVE ~HasRoom(q[i])
    BY <1>2, <2>2, <2>3
  <2> QED BY <1>2, <2>2, <2>3 DEF k
<1> QED BY <1>4, <1>5

---------------------------------------------------------------------------
(* One page of a procedure.                                                *)

LEMMA PageOf ==
  ASSUME NEW q, q \in Seq(Items), NEW n, n \in 1..Len(q), NEW found, found \in Seq(Items),
         \A i, j \in DOMAIN q : i < j => q[i].at < q[j].at
  PROVE  /\ found \o SubSeq(q, 1, n) \in Seq(Items)
         /\ Len(found \o SubSeq(q, 1, n)) = Len(found) + n
         /\ \A i \in 1..Len(found) : (found \o SubSeq(q, 1, n))[i] = found[i]
         /\ \A i \in 1..n : (found \o SubSeq(q, 1, n))[Len(found) + i] = q[i]
         /\ \A f : f \in El(found \o SubSeq(q, 1, n)) <=>
                     f \in El(found) \/ (f \in El(q) /\ f.at <= q[n].at)
<1> DEFINE h == SubSeq(q, 1, n)
<1>1. Len(q) \in Nat /\ DOMAIN q = 1..Len(q) /\ n \in 0..Len(q) /\ n \in Nat
      /\ \A i \in 1..Len(q) : q[i] \in Items /\ q[i].at \in Nat
  <2>1. Len(q) \in Nat /\ DOMAIN q = 1..Len(q) /\ \A i \in 1..Len(q) : q[i] \in Items
    BY SeqFacts
  <2>2. \A f \in Items : f.at \in Nat
    BY DEF Items, Handles
  <2> QED BY <2>1, <2>2
<1>2. h \in Seq(Items) /\ Len(h) = n /\ \A i \in 1..n : h[i] = q[i]
  BY <1>1, CutIs
<1> HIDE DEF h
<1>3. /\ found \o h \in Seq(Items) /\ Len(found \o h) = Len(found) + n
      /\ \A i \in 1..Len(found) : (found \o h)[i] = found[i]
      /\ \A i \in 1..n : (found \o h)[Len(found) + i] = h[i]
      /\ El(found \o h) = El(found) \cup El(h)
  <2> DEFINE g == found \o h
  <2>1. /\ g \in Seq(Items) /\ Len(g) = Len(found) + Len(h)
        /\ \A i \in 1..Len(found) : g[i] = found[i]
        /\ \A i \in 1..Len(h) : g[Len(found) + i] = h[i]
        /\ El(g) = El(found) \cup El(h)
    BY <1>2, ConcatIs, ZenonT(40)
  <2> HIDE DEF g
  <2>2. /\ g \in Seq(Items) /\ Len(g) = Len(found) + n
        /\ \A i \in 1..Len(found) : g[i] = found[i]
        /\ \A i \in 1..n : g[Len(found) + i] = h[i]
        /\ El(g) = El(found) \cup El(h)
    BY <1>2, <2>1
  <2> QED BY <2>2 DEF g
<1>4. ASSUME NEW f PROVE f \in El(h) <=> f \in El(q) /\ f.at <= q[n].at
  <2>1. DOMAIN h = 1..n
    BY <1>2, SeqFacts
  <2>2. ASSUME NEW i \in 1..Len(q) PROVE i <= n <=> q[i].at <= q[n].at
    <3>1. n < i => q[n].at < q[i].at
      BY <1>1
    <3>2. i < n => q[i].at < q[n].at
      BY <1>1
    <3>3. q[i].at \in Nat /\ q[n].at \in Nat
      BY <1>1
    <3> QED BY <1>1, <3>1, <3>2, <3>3
  <2>3. f \in El(h) <=> \E i \in 1..n : q[i] = f
    BY <1>2, <2>1 DEF El
  <2>4. f \in El(q) <=> \E i \in 1..Len(q) : q[i] = f
    BY <1>1 DEF El
  <2>5. \A i : i \in 1..n <=> i \in 1..Len(q) /\ i <= n
    BY <1>1
  <2> QED BY <2>2, <2>3, <2>4, <2>5
<1> QED BY <1>2, <1>3, <1>4 DEF h

---------------------------------------------------------------------------
(* The database.                                                           *)

Fits(t) == t \in DbServices /\ Len(t.attrs) \in 1..(t.end - t.start + 1)

NewService(f, primary) ==
  [start |-> f.at, end |-> f.to, primary |-> primary, attrs |-> <<"svc">>, active |-> FALSE]

LEMMA FitFacts ==
  ASSUME NEW t, Fits(t)
  PROVE  /\ t.start \in Handles /\ t.end \in Handles /\ t.start \in Nat /\ t.end \in Nat
         /\ 1 <= t.start /\ t.start <= t.end /\ t.end <= MaxHandle
         /\ t.attrs \in Seq(Kinds) /\ Len(t.attrs) \in Nat /\ 1 <= Len(t.attrs)
         /\ t.start + Len(t.attrs) - 1 <= t.end
         /\ t.primary \in BOOLEAN /\ t.active \in BOOLEAN
<1>1. t.start \in Handles /\ t.end \in Handles /\ t.attrs \in Seq(Kinds)
      /\ t.primary \in BOOLEAN /\ t.active \in BOOLEAN /\ Len(t.attrs) \in 1..(t.end - t.start + 1)
  BY DEF Fits, DbServices
<1>2. Len(t.attrs) \in Nat
  BY <1>1, LenProperties
<1> DEFINE n == Len(t.attrs)
<1>3. n \in Nat /\ n \in 1..(t.end - t.start + 1)
  BY <1>1, <1>2
<1> HIDE DEF n
<1>4. t.start \in Nat /\ t.end \in Nat /\ 1 <= t.start /\ t.start <= t.end /\ t.end <= MaxHandle
      /\ 1 <= n /\ t.start + n - 1 <= t.end
  BY <1>1, <1>3 DEF Handles
<1> QED BY <1>1, <1>3, <1>4 DEF n

LEMMA DbIs ==
  ASSUME NEW d
  PROVE  DbOK(d) <=> /\ \A t \in d : Fits(t)
                     /\ \A s, t \in d : s.start = t.start => s = t
BY DEF DbOK, Fits

LEMMA ServiceIs ==
  ASSUME NEW d, DbOK(d), NEW t, t \in d
  PROVE  Service(d, t.start) = t /\ End(d, t.start) = t.end /\ Fits(t)
<1>1. Fits(t) /\ \A s \in d : s.start = t.start => s = t
  BY DbIs
<1>2. Service(d, t.start) = t
  BY <1>1 DEF Service
<1> QED BY <1>1, <1>2 DEF End

LEMMA ReplaceIs ==
  ASSUME NEW d, DbOK(d), NEW t, t \in d, NEW u, Fits(u), u.start = t.start
  PROVE  /\ DbOK(Replace(d, t.start, u))
         /\ \A v : v \in Replace(d, t.start, u) <=> v = u \/ (v \in d /\ v.start # t.start)
<1> DEFINE d1 == Replace(d, t.start, u)
<1>1. Service(d, t.start) = t
  BY ServiceIs
<1>2. ASSUME NEW v PROVE v \in d1 <=> v = u \/ (v \in d /\ v.start # t.start)
  <2>1. v \in d1 <=> v = u \/ (v \in d /\ v # t)
    BY <1>1 DEF Replace
  <2>2. v \in d => (v = t <=> v.start = t.start)
    BY DbIs
  <2> QED BY <2>1, <2>2
<1> HIDE DEF d1
<1>3. \A v \in d1 : Fits(v)
  BY <1>2, DbIs
<1>4. \A v, w \in d1 : v.start = w.start => v = w
  BY <1>2, DbIs
<1>5. DbOK(d1)
  BY <1>3, <1>4, DbIs
<1> QED BY <1>2, <1>5 DEF d1

\* In e the service t of d is u, which has more attributes.
ExtendedAs(d, t, kinds, u, e) ==
  /\ Fits(u) /\ u.start = t.start /\ u.end = t.end /\ u.primary = t.primary
  /\ u.active = t.active /\ u.attrs = t.attrs \o kinds /\ Len(u.attrs) = Len(t.attrs) + Len(kinds)
  /\ DbOK(e) /\ \A v : v \in e <=> v = u \/ (v \in d /\ v.start # t.start)

LEMMA ExtendedIs ==
  ASSUME NEW d, DbOK(d), NEW t, t \in d, NEW kinds, kinds \in Seq(Kinds),
         t.start + Len(t.attrs) + Len(kinds) - 1 <= t.end
  PROVE  \E u : ExtendedAs(d, t, kinds, u, Extended(d, t.start, kinds))
<1> DEFINE a == t.attrs \o kinds
<1>1. Service(d, t.start) = t /\ Fits(t)
  BY ServiceIs
<1>2. /\ t.start \in Handles /\ t.end \in Handles /\ t.start \in Nat /\ t.end \in Nat
      /\ t.attrs \in Seq(Kinds) /\ Len(t.attrs) \in Nat /\ 1 <= Len(t.attrs)
      /\ t.primary \in BOOLEAN /\ t.active \in BOOLEAN /\ Len(kinds) \in Nat
  BY <1>1, FitFacts, LenProperties
<1>3. a \in Seq(Kinds) /\ Len(a) = Len(t.attrs) + Len(kinds)
  BY <1>2, ConcatProperties
<1>a. [t EXCEPT !.attrs = @ \o kinds] = [t EXCEPT !.attrs = a]
  OBVIOUS
<1> HIDE DEF a
<1> DEFINE u == [t EXCEPT !.attrs = a]
<1>4. t \in DbServices
  BY <1>1 DEF Fits
<1>5. u \in DbServices /\ u.start = t.start /\ u.end = t.end /\ u.primary = t.primary
      /\ u.active = t.active /\ u.attrs = a
  BY <1>3, <1>4 DEF DbServices
<1>6. Len(u.attrs) = Len(t.attrs) + Len(kinds)
  BY <1>3, <1>5
<1> HIDE DEF u
<1>7. Len(u.attrs) \in 1..(u.end - u.start + 1)
  <2> DEFINE m == Len(t.attrs)
             k == Len(kinds)
             l == Len(u.attrs)
  <2>1. m \in Nat /\ k \in Nat /\ 1 <= m /\ t.start + m + k - 1 <= t.end /\ l = m + k
    BY <1>2, <1>6
  <2>2. t.start \in Nat /\ t.end \in Nat /\ u.start = t.start /\ u.end = t.end
    BY <1>2, <1>5
  <2> HIDE DEF m, k, l
  <2>3. l \in 1..(u.end - u.start + 1)
    BY <2>1, <2>2
  <2> QED BY <2>3 DEF l
<1>8. Fits(u)
  BY <1>5, <1>7 DEF Fits
<1>9. Extended(d, t.start, kinds) = Replace(d, t.start, u)
  BY <1>1, <1>a DEF Extended, u
<1>10. /\ DbOK(Replace(d, t.start, u))
       /\ \A v : v \in Replace(d, t.start, u) <=> v = u \/ (v \in d /\ v.start # t.start)
  BY <1>5, <1>8, ReplaceIs
<1>11. u.attrs = t.attrs \o kinds
  BY <1>5 DEF a
<1>12. ExtendedAs(d, t, kinds, u, Extended(d, t.start, kinds))
  BY <1>5, <1>6, <1>8, <1>9, <1>10, <1>11 DEF ExtendedAs
<1> QED BY <1>12

\* In e the service t of d is u, which is active.
ActivatedAs(d, t, u, e) ==
  /\ Fits(u) /\ u.start = t.start /\ u.end = t.end /\ u.primary = t.primary
  /\ u.active = TRUE /\ u.attrs = t.attrs /\ DbOK(e)
  /\ \A v : v \in e <=> v = u \/ (v \in d /\ v.start # t.start)

LEMMA ActivatedIs ==
  ASSUME NEW d, DbOK(d), NEW t, t \in d
  PROVE  \E u : ActivatedAs(d, t, u, gatt_db_service_set_active(d, t.start))
<1> DEFINE u == [t EXCEPT !.active = TRUE]
<1>1. Service(d, t.start) = t /\ Fits(t)
  BY ServiceIs
<1>2. gatt_db_service_set_active(d, t.start) = Replace(d, t.start, u)
  BY <1>1 DEF gatt_db_service_set_active
<1>3. u \in DbServices /\ u.start = t.start /\ u.end = t.end /\ u.primary = t.primary
      /\ u.active = TRUE /\ u.attrs = t.attrs
  BY <1>1 DEF Fits, DbServices
<1> HIDE DEF u
<1>4. Fits(u)
  BY <1>1, <1>3 DEF Fits
<1>5. ActivatedAs(d, t, u, gatt_db_service_set_active(d, t.start))
  BY <1>2, <1>3, <1>4, ReplaceIs DEF ActivatedAs
<1> QED BY <1>5

LEMMA ClearedIs ==
  ASSUME NEW d, DbOK(d), NEW lo, lo \in Nat, NEW hi, hi \in Nat
  PROVE  /\ DbOK(gatt_db_clear_range(d, lo, hi))
         /\ \A t : t \in gatt_db_clear_range(d, lo, hi) <=> t \in d /\ (t.end < lo \/ hi < t.start)
<1> DEFINE d1 == gatt_db_clear_range(d, lo, hi)
<1>1. ASSUME NEW t PROVE t \in d1 <=> t \in d /\ (t.end < lo \/ hi < t.start)
  <2>1. t \in d => t.start \in Nat /\ t.end \in Nat
    BY DbIs, FitFacts
  <2>2. t \in d1 <=> t \in d /\ ~(t.start <= hi /\ lo <= t.end)
    BY DEF gatt_db_clear_range, Overlap
  <2> QED BY <2>1, <2>2
<1>2. DbOK(d1)
  <2> HIDE DEF d1
  <2> QED BY <1>1, DbIs
<1> QED BY <1>1, <1>2

\* Services to be added: none begins where another does.
Addable(d, found) ==
  /\ found \in Seq(Items)
  /\ \A i \in 1..Len(found) :
       found[i].at <= found[i].to /\ found[i].to <= MaxHandle /\ \A t \in d : t.start # found[i].at
  /\ \A i, j \in 1..Len(found) : i < j => found[i].at < found[j].at

LEMMA InsertedIs ==
  ASSUME NEW d, DbOK(d), NEW found, Addable(d, found), NEW primary, primary \in BOOLEAN
  PROVE  /\ DbOK(InsertAll(d, found, primary))
         /\ \A t : t \in InsertAll(d, found, primary) <=>
                     t \in d \/ \E i \in 1..Len(found) : t = NewService(found[i], primary)
<1> DEFINE d1 == InsertAll(d, found, primary)
<1>0. found \in Seq(Items)
  BY DEF Addable
<1>1. Len(found) \in Nat /\ DOMAIN found = 1..Len(found) /\ \A i \in 1..Len(found) : found[i] \in Items
  BY <1>0, SeqFacts
<1>2. ASSUME NEW t PROVE t \in d1 <=> t \in d \/ \E i \in 1..Len(found) : t = NewService(found[i], primary)
  BY <1>1 DEF InsertAll, gatt_db_insert_service, NewService
<1> HIDE DEF d1
<1>3. ASSUME NEW i \in 1..Len(found) PROVE Fits(NewService(found[i], primary))
  <2> DEFINE f == found[i]
             u == NewService(f, primary)
  <2>1. f \in Items /\ f.at <= f.to /\ f.to <= MaxHandle
    BY <1>1 DEF Addable
  <2> HIDE DEF f
  <2>2. f.at \in Handles /\ f.to \in Handles
    BY <2>1 DEF Items, Handles
  <2>3. <<"svc">> \in Seq(Kinds) /\ Len(<<"svc">>) = 1
    BY DEF Kinds
  <2>4. u.start = f.at /\ u.end = f.to /\ u.attrs = <<"svc">> /\ u \in DbServices
    BY <2>2, <2>3 DEF NewService, DbServices
  <2> HIDE DEF u
  <2>5. Len(u.attrs) = 1 /\ 1 \in 1..(u.end - u.start + 1)
    BY <2>1, <2>2, <2>3, <2>4 DEF Handles
  <2>6. Fits(u)
    BY <2>4, <2>5 DEF Fits
  <2> QED BY <2>6 DEF u, f
<1>4. \A t \in d1 : Fits(t)
  BY <1>2, <1>3, DbIs
<1>5. \A i \in 1..Len(found) : NewService(found[i], primary).start = found[i].at /\ found[i].at \in Nat
  <2>1. \A f : NewService(f, primary).start = f.at
    BY DEF NewService
  <2>2. \A f \in Items : f.at \in Nat
    BY DEF Items, Handles
  <2> QED BY <1>1, <2>1, <2>2
<1>6. \A i, j \in 1..Len(found) : found[i].at = found[j].at => i = j
  <2> TAKE i, j \in 1..Len(found)
  <2>1. (i < j => found[i].at < found[j].at) /\ (j < i => found[j].at < found[i].at)
    BY DEF Addable
  <2>2. found[i].at \in Nat /\ found[j].at \in Nat /\ i \in Nat /\ j \in Nat
    BY <1>1, <1>5
  <2> QED BY <2>1, <2>2
<1>7. \A s, t \in d1 : s.start = t.start => s = t
  <2>1. \A s, t \in d : s.start = t.start => s = t
    BY DbIs
  <2>2. \A i \in 1..Len(found) : \A t \in d : t.start # found[i].at
    BY DEF Addable
  <2> QED BY <1>2, <1>5, <1>6, <2>1, <2>2
<1>8. DbOK(d1)
  BY <1>4, <1>7, DbIs
<1> QED BY <1>2, <1>8 DEF d1

---------------------------------------------------------------------------
(* The list of services to be worked on.                                   *)

\* The services of a list are as they were, as far as the list is concerned.
SameFrames(d, e, starts) ==
  /\ \A b \in e : b.start \in starts => \E a \in d : a.start = b.start /\ a.end = b.end
  /\ \A a \in d : a.start \in starts /\ ~a.active => \E b \in e : b.start = a.start /\ ~b.active

LEMMA ListedKept ==
  ASSUME NEW o, NEW d, NEW q, Listed(o, d, q), NEW n, n.start = o.start, n.end = o.end,
         NEW e, SameFrames(d, e, El(q))
  PROVE  Listed(n, e, q)
<1>1. ASSUME NEW i \in DOMAIN q
      PROVE  q[i] \in n.start..n.end /\ \E s \in e : s.start = q[i] /\ ~s.active
  <2>1. q[i] \in o.start..o.end /\ \E s \in d : s.start = q[i] /\ ~s.active
    BY DEF Listed
  <2>2. q[i] \in El(q)
    BY DEF El
  <2> QED BY <2>1, <2>2 DEF SameFrames
<1>2. ASSUME NEW i \in DOMAIN q, NEW j \in DOMAIN q, i < j, NEW a \in e, NEW b \in e,
             a.start = q[i], b.start = q[j]
      PROVE  InTurn(a, b)
  <2>1. q[i] \in El(q) /\ q[j] \in El(q)
    BY DEF El
  <2>2. PICK x \in d : x.start = a.start /\ x.end = a.end
    BY <1>2, <2>1 DEF SameFrames
  <2>3. PICK y \in d : y.start = b.start /\ y.end = b.end
    BY <1>2, <2>1 DEF SameFrames
  <2>4. InTurn(x, y)
    BY <1>2, <2>2, <2>3 DEF Listed
  <2> QED BY <2>2, <2>3, <2>4 DEF InTurn
<1> QED BY <1>1, <1>2 DEF Listed

\* The end of a list is one, and its services are none of those in front of it.
LEMMA ListedRest ==
  ASSUME NEW o, NEW d, DbOK(d), NEW q, q \in Seq(Handles), Listed(o, d, q), NEW n, n \in 0..Len(q)
  PROVE  /\ Listed(o, d, SubSeq(q, n + 1, Len(q)))
         /\ El(SubSeq(q, n + 1, Len(q))) \subseteq El(q)
         /\ \A i \in 1..n : q[i] \notin El(SubSeq(q, n + 1, Len(q)))
<1> DEFINE r == SubSeq(q, n + 1, Len(q))
<1>1. Len(q) \in Nat /\ DOMAIN q = 1..Len(q) /\ n \in Nat /\ n <= Len(q)
  BY SeqFacts
<1>2. r \in Seq(Handles) /\ Len(r) = Len(q) - n /\ \A i \in 1..Len(q) - n : r[i] = q[n + i]
  BY CutIs
<1> HIDE DEF r
<1>3. DOMAIN r = 1..Len(q) - n
  BY <1>2, SeqFacts
<1>4. \A i \in DOMAIN r : r[i] = q[n + i] /\ n + i \in DOMAIN q /\ i \in Nat
  BY <1>1, <1>2, <1>3
<1>5. \A i, j \in DOMAIN r : i < j => n + i < n + j
  BY <1>1, <1>4
<1>6. Listed(o, d, r)
  BY <1>4, <1>5 DEF Listed
<1>7. El(r) \subseteq El(q)
  BY <1>4 DEF El
<1>8. ASSUME NEW i \in 1..n, q[i] \in El(r) PROVE FALSE
  <2>1. PICK j \in DOMAIN r : r[j] = q[i]
    BY <1>8 DEF El
  <2>2. i \in DOMAIN q /\ n + j \in DOMAIN q /\ q[n + j] = q[i] /\ i < n + j
    BY <1>1, <1>3, <1>4, <2>1
  <2>3. PICK s \in d : s.start = q[i]
    BY <2>2 DEF Listed
  <2>4. InTurn(s, s)
    BY <2>2, <2>3 DEF Listed
  <2>5. s.start \in Nat /\ s.end \in Nat /\ s.start <= s.end
    BY DbIs, FitFacts
  <2> QED BY <2>4, <2>5 DEF InTurn
<1> QED BY <1>6, <1>7, <1>8 DEF r

\* Going on with the n-th service behind the current one.
LEMMA NextInList ==
  ASSUME NEW c, c \in Handles, NEW q, q \in Seq(Handles), NEW n, n \in 1..Len(q)
  PROVE  /\ <<c>> \o q \in Seq(Handles) /\ Len(<<c>> \o q) = Len(q) + 1 /\ (<<c>> \o q)[1] = c
         /\ \A i \in 1..Len(q) : (<<c>> \o q)[i + 1] = q[i]
         /\ <<q[n]>> \o SubSeq(q, n + 1, Len(q)) = SubSeq(<<c>> \o q, n + 1, Len(<<c>> \o q))
<1> DEFINE w == <<c>> \o q
           r == SubSeq(q, n + 1, Len(q))
           v == <<q[n]>> \o r
           u == SubSeq(w, n + 1, Len(w))
<1>1. Len(q) \in Nat /\ n \in 0..Len(q) /\ n \in Nat /\ n <= Len(q) /\ q[n] \in Handles
  BY SeqFacts
<1>2. <<c>> \in Seq(Handles) /\ Len(<<c>>) = 1 /\ <<c>>[1] = c
      /\ <<q[n]>> \in Seq(Handles) /\ Len(<<q[n]>>) = 1 /\ <<q[n]>>[1] = q[n]
  BY <1>1
<1>3. w \in Seq(Handles) /\ Len(w) = 1 + Len(q) /\ (\A i \in 1..1 : w[i] = <<c>>[i])
      /\ \A i \in 1..Len(q) : w[1 + i] = q[i]
  BY <1>2, ConcatIs
<1>4. r \in Seq(Handles) /\ Len(r) = Len(q) - n /\ \A i \in 1..Len(q) - n : r[i] = q[n + i]
  BY <1>1, CutIs
<1> HIDE DEF w, r
<1>5. v \in Seq(Handles) /\ Len(v) = 1 + Len(r) /\ (\A i \in 1..1 : v[i] = <<q[n]>>[i])
      /\ \A i \in 1..Len(r) : v[1 + i] = r[i]
  <2> DEFINE h == <<q[n]>>
  <2>1. h \in Seq(Handles) /\ Len(h) = 1
    BY <1>2
  <2> HIDE DEF h
  <2> DEFINE g == h \o r
  <2>0. r \in Seq(Handles)
    BY <1>4
  <2>2. g \in Seq(Handles) /\ Len(g) = Len(h) + Len(r) /\ (\A i \in 1..Len(h) : g[i] = h[i])
        /\ \A i \in 1..Len(r) : g[Len(h) + i] = r[i]
    BY ONLY <2>0, <2>1, ConcatIs
  <2> HIDE DEF g
  <2>3. g \in Seq(Handles) /\ Len(g) = 1 + Len(r) /\ (\A i \in 1..1 : g[i] = h[i])
        /\ \A i \in 1..Len(r) : g[1 + i] = r[i]
    BY <2>1, <2>2
  <2> QED BY <2>3 DEF g, h
<1>6. n \in 0..Len(w)
  BY <1>1, <1>3
<1>7. u \in Seq(Handles) /\ Len(u) = Len(w) - n /\ \A i \in 1..Len(w) - n : u[i] = w[n + i]
  BY <1>3, <1>6, CutIs
<1> HIDE DEF v, u
<1>8. ASSUME NEW i \in 1..Len(v) PROVE v[i] = u[i]
  <2>1. i \in 1..Len(w) - n /\ i \in Nat
    BY <1>1, <1>3, <1>4, <1>5
  <2>2. u[i] = w[n + i]
    BY <1>7, <2>1
  <2> DEFINE k == n + i - 1
  <2>3. k \in 1..Len(q) /\ 1 + k = n + i
    BY <1>1, <1>3, <2>1
  <2>4. w[n + i] = q[k]
    <3> HIDE DEF k
    <3> QED BY <1>3, <2>3
  <2>5. CASE i = 1
    BY <1>1, <1>2, <1>5, <2>2, <2>4, <2>5
  <2>6. CASE i # 1
    <3> DEFINE j == i - 1
    <3>1. j \in 1..Len(r) /\ 1 + j = i /\ n + j = k /\ j \in 1..Len(q) - n
      BY <1>1, <1>4, <1>5, <2>6
    <3>2. v[i] = r[j] /\ r[j] = q[n + j]
      <4> HIDE DEF j, k
      <4> QED BY <1>4, <1>5, <3>1
    <3> QED BY <2>2, <2>4, <3>1, <3>2
  <2> QED BY <2>5, <2>6
<1>9. Len(v) = Len(u)
  BY <1>1, <1>3, <1>4, <1>5, <1>7
<1>10. v = u
  BY <1>5, <1>7, <1>8, <1>9, SeqEqual
<1>11. w[1] = c /\ \A i \in 1..Len(q) : w[i + 1] = q[i]
  <2>1. w[1] = c
    BY <1>2, <1>3
  <2>2. \A i \in 1..Len(q) : 1 + i = i + 1
    BY <1>1
  <2> QED BY <1>3, <2>1, <2>2
<1>12. Len(w) = Len(q) + 1
  BY <1>1, <1>3
<1> QED BY <1>3, <1>10, <1>11, <1>12 DEF u, v, w, r

---------------------------------------------------------------------------
(* The shape of the state: how a discovery ends, and goes on.              *)

Busy == Control /\ proc # {} /\ UNCHANGED <<deviceVars, link>>

Continued(o) == o \in Ops /\ o.start = op.start /\ o.end = op.end /\ o.init = op.init

LEMMA ServiceChangedInHandles ==
  ASSUME NEW d, NEW lo, lo \in Handles, NEW hi, hi \in Handles
  PROVE  ServiceChangedIn(d, lo, hi) \subseteq Handles
BY DEF ServiceChangedIn, Handles

LEMMA NewOpIs ==
  ASSUME NEW r, r \in Ranges
  PROVE  /\ NewOp(r.start, r.end, FALSE) \in Ops
         /\ NewOp(r.start, r.end, FALSE).start = r.start /\ NewOp(r.start, r.end, FALSE).end = r.end
         /\ NewOp(r.start, r.end, FALSE).init = FALSE /\ NewOp(r.start, r.end, FALSE).missed = FALSE
         /\ NewOp(r.start, r.end, FALSE).pending = <<>> /\ NewOp(r.start, r.end, FALSE).tmp = <<>>
         /\ NewOp(r.start, r.end, FALSE).chrcs = <<>> /\ NewOp(r.start, r.end, FALSE).cur = 0
         /\ r.start \in Handles /\ r.end \in Handles /\ r.start <= r.end
<1>1. r.start \in Handles /\ r.end \in Handles /\ r.start <= r.end
  BY DEF Ranges, HandleRange
<1>2. <<>> \in Seq(Handles) /\ <<>> \in Seq(Chrcs) /\ 0 \in 0..MaxHandle
  OBVIOUS
<1> QED BY <1>1, <1>2 DEF NewOp, Ops

\* A procedure that has just been asked for.
LEMMA AskedOK ==
  ASSUME NEW o, NEW d, NEW kind, kind \in {"mtu", "inc", "chr", "dsc"} \cup Grouped,
         NEW lo, lo \in Handles, NEW hi, hi \in Handles, lo <= hi,
         kind \in Grouped => o.start <= lo, kind \in {"inc", "chr"} => o.cur <= lo,
         kind = "dsc" => \A t \in d : t.start = o.cur => t.start + Len(t.attrs) <= lo,
         NEW p, p = [kind |-> kind, from |-> lo, to |-> hi, found |-> <<>>]
  PROVE  ProcedureOK(o, d, p)
<1>1. p.kind = kind /\ p.from = lo /\ p.to = hi /\ p.found = <<>> /\ <<>> \in Seq(Items)
  OBVIOUS
<1>2. p \in Procedures
  BY <1>1 DEF Procedures
<1>3. DOMAIN p.found = {}
  BY <1>1
<1>4. FoundShape(o, p.kind, p.to, p.found) /\ Behind(p.kind, p.from, p.found)
  BY <1>3 DEF FoundShape, Behind
<1> QED BY <1>1, <1>2, <1>4 DEF ProcedureOK

\* What is expected of a step that asks for something.
Asking(o, d, kind, lo, hi) ==
  /\ Frame(o, d, kind, hi) /\ kind \in {"mtu", "inc", "chr", "dsc"} \cup Grouped
  /\ lo \in Handles /\ hi \in Handles /\ lo <= hi
  /\ kind \in Grouped => o.start <= lo
  /\ kind \in {"inc", "chr"} => o.cur <= lo
  /\ kind = "dsc" => \A t \in d : t.start = o.cur => t.start + Len(t.attrs) <= lo

LEMMA AskShape ==
  ASSUME Busy, NEW o, Continued(o), NEW d, NEW kind, NEW lo, NEW hi, Asking(o, d, kind, lo, hi),
         Ask(o, d, kind, lo, hi)
  PROVE  Shape'
<1> DEFINE p == [kind |-> kind, from |-> lo, to |-> hi, found |-> <<>>]
<1>1. op' = o /\ db' = d /\ proc' = {p} /\ UNCHANGED <<deviceVars, clientVars, link>>
  BY DEF Ask, Procedure, Busy
<1>2. p.kind = kind /\ p.to = hi
  OBVIOUS
<1>3. ProcedureOK(o, d, p)
  <2> HIDE DEF p
  <2>1. p = [kind |-> kind, from |-> lo, to |-> hi, found |-> <<>>]
    BY DEF p
  <2> QED BY <2>1, AskedOK DEF Asking
<1> HIDE DEF p
<1>4. Frame(o, d, p.kind, p.to)
  BY <1>2 DEF Asking
<1>5. o \in Ops /\ o.start <= o.end /\ DbOK(d)
  BY <1>4 DEF Frame
<1>6. Control'
  <2>1. o.init = op.init
    BY DEF Continued
  <2> QED BY <1>1, <1>5, <2>1 DEF Busy, Control, deviceVars, clientVars
<1>7. proc' = {p} /\ Frame(op', db', p.kind, p.to) /\ ProcedureOK(op', db', p)
  BY <1>1, <1>3, <1>4
<1>8. (\E x : proc = {x} /\ Frame(op, db, x.kind, x.to) /\ ProcedureOK(op, db, x))'
  BY <1>7
<1> QED BY <1>6, <1>8 DEF Shape

\* The discovery of a range that changed begins.
LEMMA ProcessShape ==
  ASSUME Control, UNCHANGED <<dev, changes, enabled, link>>, link = "up", ~inInit, ccc # "init", enabled,
         NEW d, DbOK(d), NEW r, r \in Ranges, process_service_changed(d, r),
         indications' \in Seq(Ranges), svcChngdQueue' \in Seq(Ranges),
         changes = 0 => indications' = <<>> /\ svcChngdQueue' = <<>>,
         failed' \in BOOLEAN, UNCHANGED <<inInit, ready, told, ccc>>
  PROVE  Shape'
<1> DEFINE o == NewOp(r.start, r.end, FALSE)
           e == gatt_db_clear_range(d, r.start, r.end)
           p == [kind |-> "primary", from |-> r.start, to |-> r.end, found |-> <<>>]
<1>1. /\ o \in Ops /\ o.start = r.start /\ o.end = r.end /\ o.init = FALSE
      /\ o.pending = <<>> /\ o.tmp = <<>> /\ o.chrcs = <<>>
      /\ r.start \in Handles /\ r.end \in Handles /\ r.start <= r.end
  BY NewOpIs
<1>2. listening' = listening \ (r.start..r.end) /\ db' = e /\ op' = o /\ proc' = {p} /\ inSvcChngd' = TRUE
  BY DEF process_service_changed, Procedure
<1>3. DbOK(e) /\ \A t : t \in e <=> t \in d /\ (t.end < r.start \/ r.end < t.start)
  BY <1>1, ClearedIs DEF Handles
<1>4. p.kind = "primary" /\ p.to = r.end
  OBVIOUS
<1> HIDE DEF o, e
<1>5. ProcedureOK(o, e, p)
  <2>1. "primary" \in Grouped
    BY DEF Grouped
  <2> HIDE DEF p
  <2>2. p = [kind |-> "primary", from |-> r.start, to |-> r.end, found |-> <<>>]
    BY DEF p
  <2>3. o.start <= r.start
    BY <1>1 DEF Handles
  <2> QED BY <1>1, <2>1, <2>2, <2>3, AskedOK
<1> HIDE DEF p
<1>6. Frame(o, e, p.kind, p.to)
  <2>1. WorkList(o, "primary") = <<>>
    BY DEF WorkList
  <2>2. Listed(o, e, <<>>)
    BY DEF Listed
  <2>3. \A t \in e : t.start \notin r.start..r.end
    <3>1. \A t \in e : Fits(t)
      BY <1>3, DbIs
    <3> QED BY <1>1, <1>3, <3>1, FitFacts DEF Handles
  <2> QED BY <1>1, <1>3, <1>4, <2>1, <2>2, <2>3 DEF Frame
<1>7. Control'
  BY <1>1, <1>2, <1>3 DEF Control
<1>8. proc' = {p} /\ Frame(op', db', p.kind, p.to) /\ ProcedureOK(op', db', p)
  BY <1>2, <1>5, <1>6
<1>9. (\E x : proc = {x} /\ Frame(op, db, x.kind, x.to) /\ ProcedureOK(op, db, x))'
  BY <1>8
<1> QED BY <1>7, <1>9 DEF Shape

LEMMA RemainingOK ==
  ASSUME NEW o, o \in Ops, NEW d, DbOK(d), NEW outcome
  PROVE  DbOK(Remaining(o, d, outcome))
<1>1. o.start \in Nat /\ o.end \in Nat
  BY DEF Ops, Handles
<1> QED BY <1>1, ClearedIs DEF Remaining

LEMMA CompleteShape ==
  ASSUME Busy, NEW o, Continued(o), NEW d, DbOK(d), NEW outcome, Complete(o, d, outcome)
  PROVE  Shape'
<1>1. /\ o \in Ops /\ o.start = op.start /\ o.end = op.end /\ o.init = op.init
      /\ o.start \in Handles /\ o.end \in Handles /\ o.start <= o.end /\ o.missed \in BOOLEAN
  BY DEF Continued, Ops, Busy, Control
<1>2. DbOK(Remaining(o, d, outcome))
  BY <1>1, RemainingOK
<1>3. /\ Control /\ link = "up" /\ op.init = inInit /\ inSvcChngd = ~inInit
      /\ UNCHANGED <<deviceVars, link>>
  BY DEF Busy, Control
<1>4. CASE o.init
  <2>1. init_complete(o, d, outcome)
    BY <1>4 DEF Complete
  <2>2. ServiceChangedIn(d, 1, MaxHandle) \subseteq Handles
    BY DEF ServiceChangedIn, Handles
  <2>3. /\ db' = Remaining(o, d, outcome) /\ op' = o /\ proc' = {} /\ inInit' = FALSE
        /\ inSvcChngd' = inSvcChngd /\ svcChngdQueue' = svcChngdQueue
        /\ failed' = (failed \/ o.missed \/ outcome = "failed")
        /\ told' \in {told, "ok", "failed"} /\ ready' \in {ready, TRUE} /\ ccc' \in {ccc, "init"}
    BY <2>1 DEF init_complete, MarkFailed
  <2>4. listening' \in {listening, ServiceChangedIn(d, 1, MaxHandle)}
    BY <2>1 DEF init_complete
  <2> HIDE DEF Remaining
  <2>5. Control'
    BY <1>1, <1>2, <1>3, <1>4, <2>2, <2>3, <2>4 DEF Control, deviceVars
  <2> QED BY <2>3, <2>5 DEF Shape
<1>5. CASE ~o.init
  <2>1. service_changed_complete(o, d, outcome)
    BY <1>5 DEF Complete
  <2>2. failed' \in BOOLEAN /\ UNCHANGED <<inInit, ready, told>>
    BY <1>1, <1>3, <2>1 DEF service_changed_complete, MarkFailed, Control
  <2>3. inInit = FALSE /\ inSvcChngd = TRUE /\ ccc # "init" /\ enabled
    BY <1>1, <1>3, <1>5 DEF Control
  <2>4. CASE svcChngdQueue # <<>>
    <3>1. /\ process_service_changed(Remaining(o, d, outcome), Head(svcChngdQueue))
          /\ svcChngdQueue' = Tail(svcChngdQueue) /\ ccc' = ccc
      BY <2>1, <2>4 DEF service_changed_complete
    <3>2. svcChngdQueue \in Seq(Ranges) /\ indications \in Seq(Ranges) /\ changes # 0
      BY <1>3, <2>4 DEF Control
    <3>3. Head(svcChngdQueue) \in Ranges /\ Tail(svcChngdQueue) \in Seq(Ranges)
      BY <2>4, <3>2, HeadTailProperties
    <3>4. indications' = indications /\ UNCHANGED <<dev, changes, enabled, link>>
      BY <1>3 DEF deviceVars
    <3> QED BY <1>2, <1>3, <2>2, <2>3, <3>1, <3>2, <3>3, <3>4, ProcessShape
  <2>5. CASE svcChngdQueue = <<>>
    <3>1. /\ db' = Remaining(o, d, outcome) /\ op' = o /\ proc' = {} /\ inSvcChngd' = FALSE
          /\ svcChngdQueue' = svcChngdQueue
          /\ ccc' \in {ccc, "again"}
      BY <2>1, <2>5 DEF service_changed_complete
    <3>2. listening' \in {listening, listening \cup ServiceChangedIn(db', o.start, o.end)}
      BY <2>1, <2>5 DEF service_changed_complete
    <3>3. listening' \subseteq Handles
      BY <1>1, <1>3, <3>2, ServiceChangedInHandles DEF Control
    <3>4. Control'
      BY <1>1, <1>2, <1>3, <2>2, <2>3, <2>5, <3>1, <3>3 DEF Control, deviceVars
    <3> QED BY <3>1, <3>4 DEF Shape
  <2> QED BY <2>4, <2>5
<1> QED BY <1>4, <1>5

\* A service is worked on.
Doing(o, d) == Continued(o) /\ DbOK(d) /\ Listed(o, d, <<o.cur>> \o o.pending)

LEMMA ContinuedFacts ==
  ASSUME Busy, NEW o, Continued(o)
  PROVE  /\ o \in Ops /\ o.start \in Handles /\ o.end \in Handles /\ o.start <= o.end
         /\ o.start = op.start /\ o.end = op.end /\ o.init = op.init
         /\ o.pending \in Seq(Handles) /\ o.tmp \in Seq(Handles) /\ o.chrcs \in Seq(Chrcs)
         /\ o.cur \in 0..MaxHandle /\ o.missed \in BOOLEAN
BY DEF Continued, Ops, Busy, Control

LEMMA DoingFacts ==
  ASSUME Busy, NEW o, NEW d, Doing(o, d)
  PROVE  /\ o.cur \in Handles
         /\ <<o.cur>> \o o.pending \in Seq(Handles) /\ Len(<<o.cur>> \o o.pending) = Len(o.pending) + 1
         /\ (<<o.cur>> \o o.pending)[1] = o.cur
         /\ El(<<o.cur>> \o o.pending) = El(o.pending) \cup {o.cur}
         /\ \E t \in d : t.start = o.cur /\ ~t.active /\ Service(d, o.cur) = t /\ End(d, o.cur) = t.end /\ Fits(t)
<1>1. o \in Ops /\ o.pending \in Seq(Handles) /\ o.cur \in 0..MaxHandle
      /\ o.start \in Handles /\ o.end \in Handles
  BY ContinuedFacts DEF Doing
<1> DEFINE h == <<o.cur>>
           S == 0..MaxHandle
           w == h \o o.pending
<1>2. h \in Seq(S) /\ Len(h) = 1 /\ h[1] = o.cur /\ El(h) = {o.cur}
  <2>1. h \in Seq(S) /\ Len(h) = 1 /\ h[1] = o.cur /\ DOMAIN h = {1}
    BY <1>1
  <2> QED BY <2>1 DEF El
<1>3. o.pending \in Seq(S)
  BY <1>1, SeqMonotonic DEF Handles
<1> HIDE DEF h
<1>4. /\ w \in Seq(S) /\ Len(w) = Len(h) + Len(o.pending) /\ (\A i \in 1..Len(h) : w[i] = h[i])
      /\ El(w) = El(h) \cup El(o.pending)
  BY <1>2, <1>3, ConcatIs, SMTT(30)
<1> HIDE DEF w
<1>5. w[1] = o.cur /\ DOMAIN w = 1..Len(w) /\ Len(w) = Len(o.pending) + 1 /\ Len(o.pending) \in Nat
  <2>1. Len(o.pending) \in Nat
    BY <1>3
  <2>2. DOMAIN w = 1..Len(w)
    <3> HIDE DEF S
    <3> QED BY <1>4
  <2>3. w[1] = h[1]
    <3>1. 1 \in 1..Len(h)
      BY <1>2
    <3> QED BY <1>4, <3>1
  <2>4. Len(w) = 1 + Len(o.pending)
    BY <1>2, <1>4
  <2> QED BY <1>2, <2>1, <2>2, <2>3, <2>4
<1>6. Listed(o, d, w)
  BY DEF Doing, w, h
<1>7. 1 \in DOMAIN w
  BY <1>5
<1>8. o.cur \in o.start..o.end /\ \E t \in d : t.start = o.cur /\ ~t.active
  BY <1>5, <1>6, <1>7 DEF Listed
<1>9. o.cur \in Handles
  BY <1>1, <1>8 DEF Handles
<1>10. w \in Seq(Handles)
  <2>1. h \in Seq(Handles)
    BY <1>9 DEF h
  <2> QED BY <1>1, <2>1, ConcatProperties DEF w
<1>11. PICK t \in d : t.start = o.cur /\ ~t.active
  BY <1>8
<1>12. Service(d, o.cur) = t /\ End(d, o.cur) = t.end /\ Fits(t)
  BY <1>11, ServiceIs DEF Doing
<1>13. El(w) = El(o.pending) \cup {o.cur}
  BY <1>2, <1>4
<1> QED BY <1>5, <1>9, <1>10, <1>11, <1>12, <1>13 DEF w, h

\* The current service is activated, and left out of the list.
LEMMA NextInDb ==
  ASSUME Busy, NEW o, NEW d, Doing(o, d), NEW n, n \in 1..Len(o.pending)
  PROVE  /\ DbOK(gatt_db_service_set_active(d, o.cur))
         /\ Listed(o, gatt_db_service_set_active(d, o.cur),
                   <<o.pending[n]>> \o SubSeq(o.pending, n + 1, Len(o.pending)))
         /\ o.pending[n] \in Handles
         /\ o.cur \notin El(<<o.pending[n]>> \o SubSeq(o.pending, n + 1, Len(o.pending)))
<1> DEFINE q == o.pending
           w == <<o.cur>> \o q
           v == <<q[n]>> \o SubSeq(q, n + 1, Len(q))
           e == gatt_db_service_set_active(d, o.cur)
<1>1. o.cur \in Handles /\ q \in Seq(Handles) /\ w \in Seq(Handles)
      /\ Len(w) = Len(q) + 1 /\ w[1] = o.cur /\ Len(q) \in Nat
  BY DoingFacts, ContinuedFacts, SeqFacts DEF Doing
<1>2. PICK t \in d : t.start = o.cur /\ ~t.active
  BY DoingFacts
<1>3. Listed(o, d, w) /\ DbOK(d)
  BY DEF Doing
<1>4. v = SubSeq(w, n + 1, Len(w)) /\ n \in 0..Len(w) /\ q[n] \in Handles /\ 1 \in 1..n
  <2>1. q[n] \in Handles
    BY <1>1, SeqFacts
  <2>2. v = SubSeq(w, n + 1, Len(w))
    BY <1>1, NextInList
  <2> HIDE DEF v, w
  <2>3. n \in 0..Len(w) /\ 1 \in 1..n
    BY <1>1
  <2> QED BY <2>1, <2>2, <2>3
<1> HIDE DEF v, w
<1>5. Listed(o, d, v) /\ o.cur \notin El(v)
  BY <1>1, <1>3, <1>4, ListedRest
<1>6. PICK u : u.start = t.start /\ DbOK(e) /\ \A x : x \in e <=> x = u \/ (x \in d /\ x.start # t.start)
  <2>1. DbOK(d) /\ t \in d /\ o.cur = t.start
    BY <1>2, <1>3
  <2>2. \E u : /\ u.start = t.start /\ DbOK(gatt_db_service_set_active(d, o.cur))
               /\ \A x : x \in gatt_db_service_set_active(d, o.cur) <=> x = u \/ (x \in d /\ x.start # t.start)
    <3>1. PICK u : ActivatedAs(d, t, u, gatt_db_service_set_active(d, t.start))
      BY <2>1, ActivatedIs
    <3> QED BY <2>1, <3>1 DEF ActivatedAs
  <2> QED BY <2>2
<1> HIDE DEF e
<1>7. SameFrames(d, e, El(v))
  BY <1>2, <1>5, <1>6 DEF SameFrames
<1>8. Listed(o, e, v)
  BY <1>5, <1>7, ListedKept
<1> QED BY <1>4, <1>5, <1>6, <1>8 DEF v, e

LEMMA NextServiceShape ==
  ASSUME Busy, NEW o, NEW d, Doing(o, d), NextService(o, d)
  PROVE  Shape'
<1> DEFINE i  == FirstToAsk(d, o.pending)
           s  == o.pending[i]
           e  == gatt_db_service_set_active(d, o.cur)
           o1 == [o EXCEPT !.pending = SubSeq(@, i + 1, Len(@)), !.cur = s]
<1>1. o.pending \in Seq(Handles) /\ Continued(o) /\ DbOK(d) /\ o.chrcs \in Seq(Chrcs) /\ o \in Ops
  BY ContinuedFacts DEF Doing
<1>2. i \in 0..Len(o.pending)
  BY <1>1, FirstToAskIs
<1>3. CASE i = 0
  <2>1. Complete(o, e, "found")
    BY <1>3 DEF NextService
  <2>2. DbOK(e)
    <3>1. PICK t \in d : t.start = o.cur
      BY DoingFacts
    <3>2. PICK u : ActivatedAs(d, t, u, gatt_db_service_set_active(d, o.cur))
      BY <1>1, <3>1, ActivatedIs
    <3> QED BY <3>2 DEF ActivatedAs
  <2> QED BY <1>1, <2>1, <2>2, CompleteShape
<1>4. CASE i # 0
  <2>1. Ask(o1, e, "chr", s, End(e, s)) \/ Ask(o1, e, "chr", s, End(d, s))
    BY <1>4 DEF NextService
  <2>2. i \in 1..Len(o.pending)
    BY <1>1, <1>2, <1>4, SeqFacts
  <2> HIDE DEF i
  <2> DEFINE r == SubSeq(o.pending, i + 1, Len(o.pending))
  <2>3. DbOK(e) /\ Listed(o, e, <<s>> \o r) /\ s \in Handles /\ o.cur \notin El(<<s>> \o r)
    BY <2>2, NextInDb
  <2>4. r \in Seq(Handles)
    BY <1>1, <2>2, CutIs
  <2>5. o1 = [o EXCEPT !.pending = r, !.cur = s]
    OBVIOUS
  <2> HIDE DEF r, s, o1, e
  <2>6. /\ o1 \in Ops /\ o1.start = o.start /\ o1.end = o.end /\ o1.init = o.init
        /\ o1.pending = r /\ o1.cur = s
    <3>1. s \in 0..MaxHandle
      BY <2>3 DEF Handles
    <3> QED BY <1>1, <2>4, <2>5, <3>1 DEF Ops
  <2>7. Continued(o1)
    BY <1>1, <2>6 DEF Continued
  <2>8. Listed(o1, e, <<o1.cur>> \o o1.pending)
    BY <2>3, <2>6 DEF Listed
  <2>9. Doing(o1, e)
    BY <2>3, <2>7, <2>8 DEF Doing
  <2>10. PICK t \in e : t.start = s /\ End(e, s) = t.end /\ Fits(t)
    BY <2>6, <2>9, DoingFacts
  <2>11. End(d, s) = t.end
    <3>1. s # o.cur
      <4>1. s \in El(<<s>> \o r)
        <5>1. El(<<o1.cur>> \o o1.pending) = El(o1.pending) \cup {o1.cur}
          BY <2>9, DoingFacts
        <5> QED BY <2>6, <5>1
      <4> QED BY <2>3, <4>1
    <3>2. PICK x \in d : x.start = o.cur /\ x \in d
      BY DoingFacts
    <3>3. PICK u : u.start = x.start /\ \A v : v \in e <=> v = u \/ (v \in d /\ v.start # x.start)
      <4>1. DbOK(d) /\ x \in d /\ o.cur = x.start
        BY <1>1, <3>2
      <4>2. \E u : /\ u.start = x.start
                   /\ \A v : v \in gatt_db_service_set_active(d, o.cur)
                               <=> v = u \/ (v \in d /\ v.start # x.start)
        <5>1. PICK u : ActivatedAs(d, x, u, gatt_db_service_set_active(d, x.start))
          BY <4>1, ActivatedIs
        <5> QED BY <4>1, <5>1 DEF ActivatedAs
      <4> QED BY <4>2 DEF e
    <3>4. t \in d
      BY <2>10, <3>1, <3>2, <3>3
    <3> QED BY <1>1, <2>10, <3>4, ServiceIs
  <2>12. Ask(o1, e, "chr", s, t.end)
    BY <2>1, <2>10, <2>11
  <2>13. Asking(o1, e, "chr", s, t.end)
    <3>1. t.start <= t.end /\ t.end \in Handles /\ s <= s /\ s \in Handles
      BY <2>3, <2>10, FitFacts DEF Handles
    <3>2. WorkList(o1, "chr") = <<o1.cur>> \o o1.pending
      BY DEF WorkList
    <3>3. \A x \in e : x.start = o1.cur => t.end = x.end
      BY <2>3, <2>6, <2>10, DbIs
    <3>4. Frame(o1, e, "chr", t.end)
      BY <1>1, <2>3, <2>6, <2>8, <3>2, <3>3, ContinuedFacts DEF Frame, Grouped
    <3> QED BY <2>3, <2>6, <2>10, <3>1, <3>4 DEF Asking, Grouped
  <2> QED BY <2>7, <2>12, <2>13, AskShape
<1> QED BY <1>3, <1>4

\* The attributes that the first n characteristics of a list add.
Added(q, n) == [i \in 1..2 * n |-> IF i % 2 = 1 THEN "chr" ELSE q[i \div 2].kind]

LEMMA AddedIs ==
  ASSUME NEW q, q \in Seq(Chrcs), NEW n, n \in 0..Len(q)
  PROVE  /\ Added(q, n) \in Seq(Kinds) /\ Len(Added(q, n)) = 2 * n
         /\ \A k \in 1..n : Added(q, n)[2 * k - 1] = "chr" /\ Added(q, n)[2 * k] = q[k].kind
<1>1. Len(q) \in Nat /\ n \in Nat /\ n <= Len(q) /\ \A i \in 1..Len(q) : q[i].kind \in Kinds
  <2>1. Len(q) \in Nat /\ \A i \in 1..Len(q) : q[i] \in Chrcs
    BY SeqFacts
  <2>2. \A c \in Chrcs : c.kind \in Kinds
    BY DEF Chrcs
  <2> QED BY <2>1, <2>2
<1>2. ASSUME NEW i \in 1..2 * n PROVE (IF i % 2 = 1 THEN "chr" ELSE q[i \div 2].kind) \in Kinds
  <2>1. i % 2 = 1 \/ (i \div 2 \in 1..n)
    BY <1>1
  <2>2. i % 2 = 1 \/ i \div 2 \in 1..Len(q)
    BY <1>1, <2>1
  <2>3. "chr" \in Kinds
    BY DEF Kinds
  <2> QED BY <1>1, <2>2, <2>3
<1>3. Added(q, n) \in [1..2 * n -> Kinds]
  BY <1>2 DEF Added
<1>4. 2 * n \in Nat
  BY <1>1
<1>5. Added(q, n) \in Seq(Kinds) /\ Len(Added(q, n)) = 2 * n
  BY <1>3, <1>4
<1>6. ASSUME NEW k \in 1..n PROVE Added(q, n)[2 * k - 1] = "chr" /\ Added(q, n)[2 * k] = q[k].kind
  <2>1. 2 * k - 1 \in 1..2 * n /\ 2 * k \in 1..2 * n
    BY <1>1
  <2>2. (2 * k - 1) % 2 = 1 /\ (2 * k) % 2 = 0 /\ (2 * k) \div 2 = k
    BY <1>1
  <2> QED BY <2>1, <2>2 DEF Added
<1> QED BY <1>5, <1>6

\* How many characteristics are added before descriptors are asked for.
ToAdd(q) == IF FirstWithRoom(q) = 0 THEN Len(q) ELSE FirstWithRoom(q)

LEMMA ToAddIs ==
  ASSUME NEW q, q \in Seq(Chrcs)
  PROVE  /\ ToAdd(q) \in 0..Len(q) /\ Len(q) \in Nat
         /\ \A i \in 1..Len(q) : i < ToAdd(q) \/ (i <= ToAdd(q) /\ FirstWithRoom(q) = 0) => ~HasRoom(q[i])
         /\ FirstWithRoom(q) = 0 => ToAdd(q) = Len(q)
         /\ FirstWithRoom(q) # 0 => ToAdd(q) \in 1..Len(q) /\ HasRoom(q[ToAdd(q)])
<1>1. Len(q) \in Nat
  BY SeqFacts
<1>2. /\ FirstWithRoom(q) \in 0..Len(q)
      /\ \A i \in 1..Len(q) : FirstWithRoom(q) = 0 \/ i < FirstWithRoom(q) => ~HasRoom(q[i])
      /\ FirstWithRoom(q) # 0 => HasRoom(q[FirstWithRoom(q)])
  BY FirstRoomIs
<1> QED BY <1>1, <1>2 DEF ToAdd

\* What discover_descs has before it goes on: the first n characteristics are added.
LEMMA ExtendedByChrcs ==
  ASSUME Busy, NEW o, NEW d, Doing(o, d), NEW n, n \in 0..Len(o.chrcs),
         \A i \in 1..n : Expected(Service(d, o.cur), o.chrcs[i].value, 2 * i)
  PROVE  \E t \in d : \E u :
           /\ t.start = o.cur /\ ~t.active /\ Service(d, o.cur) = t
           /\ ExtendedAs(d, t, Added(o.chrcs, n), u, Extended(d, o.cur, Added(o.chrcs, n)))
           /\ Len(Added(o.chrcs, n)) = 2 * n
           /\ n # 0 => o.chrcs[n].value = t.start + Len(t.attrs) + 2 * n - 1
<1>1. o.chrcs \in Seq(Chrcs) /\ DbOK(d)
  BY ContinuedFacts DEF Doing
<1>2. PICK t \in d : t.start = o.cur /\ ~t.active /\ Service(d, o.cur) = t /\ Fits(t)
  BY DoingFacts
<1>3. Added(o.chrcs, n) \in Seq(Kinds) /\ Len(Added(o.chrcs, n)) = 2 * n /\ n \in Nat
  BY <1>1, AddedIs
<1>4. n # 0 => o.chrcs[n].value = t.start + Len(t.attrs) + 2 * n - 1 /\ o.chrcs[n].value <= t.end
  BY <1>2, <1>3 DEF Expected
<1>5. t.start + Len(t.attrs) + Len(Added(o.chrcs, n)) - 1 <= t.end
  <2> DEFINE m == Len(t.attrs)
             k == Len(Added(o.chrcs, n))
  <2>1. m \in Nat /\ t.start \in Nat /\ t.end \in Nat /\ t.start + m - 1 <= t.end /\ k = 2 * n
        /\ (n # 0 => o.chrcs[n].value = t.start + m + 2 * n - 1 /\ o.chrcs[n].value <= t.end)
    BY <1>2, <1>3, <1>4, FitFacts
  <2> HIDE DEF m, k
  <2>2. t.start + m + k - 1 <= t.end
    BY <1>3, <2>1
  <2> QED BY <2>2 DEF m, k
<1>6. PICK u : ExtendedAs(d, t, Added(o.chrcs, n), u, Extended(d, t.start, Added(o.chrcs, n)))
  BY <1>1, <1>3, <1>5, ExtendedIs
<1> QED BY <1>2, <1>3, <1>4, <1>6

\* The list is the same after an extension.
LEMMA ExtendedListed ==
  ASSUME NEW o, NEW d, DbOK(d), NEW q, Listed(o, d, q), NEW t, t \in d, NEW kinds, NEW u, NEW e,
         ExtendedAs(d, t, kinds, u, e)
  PROVE  Listed(o, e, q)
<1>1. SameFrames(d, e, El(q))
  BY DbIs DEF SameFrames, ExtendedAs
<1> QED BY <1>1, ListedKept

LEMMA DescsShape ==
  ASSUME Busy, NEW o, NEW d, Doing(o, d), discover_descs(o, d)
  PROVE  Shape'
<1> DEFINE n  == ToAdd(o.chrcs)
           e  == Extended(d, o.cur, Added(o.chrcs, n))
           r  == SubSeq(o.chrcs, n + 1, Len(o.chrcs))
           o1 == [o EXCEPT !.chrcs = SubSeq(@, n + 1, Len(@))]
<1>1. /\ Continued(o) /\ DbOK(d) /\ Listed(o, d, <<o.cur>> \o o.pending)
      /\ o \in Ops /\ o.chrcs \in Seq(Chrcs)
  BY ContinuedFacts DEF Doing
<1>2. IF \E i \in 1..n : ~Expected(Service(d, o.cur), o.chrcs[i].value, 2 * i)
      THEN Complete(o, d, "failed")
      ELSE IF FirstWithRoom(o.chrcs) = 0 THEN NextService(o1, e)
           ELSE Ask(o1, e, "dsc", o.chrcs[n].value + 1, o.chrcs[n].end)
  BY DEF discover_descs, Added, ToAdd
<1>3. n \in 0..Len(o.chrcs) /\ Len(o.chrcs) \in Nat
      /\ (FirstWithRoom(o.chrcs) # 0 => n \in 1..Len(o.chrcs) /\ HasRoom(o.chrcs[n]))
  BY <1>1, ToAddIs
<1> HIDE DEF n
<1>4. CASE \E i \in 1..n : ~Expected(Service(d, o.cur), o.chrcs[i].value, 2 * i)
  BY <1>1, <1>2, <1>4, CompleteShape
<1>5. CASE \A i \in 1..n : Expected(Service(d, o.cur), o.chrcs[i].value, 2 * i)
  <2>t. PICK t \in d : \E u :
          /\ t.start = o.cur /\ ~t.active /\ Service(d, o.cur) = t
          /\ ExtendedAs(d, t, Added(o.chrcs, n), u, Extended(d, o.cur, Added(o.chrcs, n)))
          /\ Len(Added(o.chrcs, n)) = 2 * n
          /\ n # 0 => o.chrcs[n].value = t.start + Len(t.attrs) + 2 * n - 1
    <3>1. n \in 0..Len(o.chrcs)
      BY <1>3
    <3> QED BY ONLY <1>5, <3>1, ExtendedByChrcs, Doing(o, d), Busy, ZenonT(40)
  <2>1. PICK u :
          /\ t.start = o.cur /\ ~t.active
          /\ ExtendedAs(d, t, Added(o.chrcs, n), u, e)
          /\ n # 0 => o.chrcs[n].value = t.start + Len(t.attrs) + 2 * n - 1
          /\ Len(Added(o.chrcs, n)) = 2 * n
    BY <2>t
  <2>2. Listed(o, e, <<o.cur>> \o o.pending)
    BY <1>1, <2>1, ExtendedListed
  <2>3. DbOK(e)
    BY <2>1 DEF ExtendedAs
  <2>4. r \in Seq(Chrcs)
    BY <1>1, <1>3, CutIs
  <2>5. o1 = [o EXCEPT !.chrcs = r]
    OBVIOUS
  <2> HIDE DEF r, o1, e
  <2>6. /\ o1 \in Ops /\ o1.start = o.start /\ o1.end = o.end /\ o1.init = o.init
        /\ o1.pending = o.pending /\ o1.cur = o.cur
    BY <1>1, <2>4, <2>5 DEF Ops
  <2>7. Continued(o1)
    BY <1>1, <2>6 DEF Continued
  <2>8. Listed(o1, e, <<o1.cur>> \o o1.pending)
    BY <2>2, <2>6 DEF Listed
  <2>9. Doing(o1, e)
    BY <2>3, <2>7, <2>8 DEF Doing
  <2>10. CASE FirstWithRoom(o.chrcs) = 0
    BY <1>2, <1>5, <2>9, <2>10, NextServiceShape
  <2>11. CASE FirstWithRoom(o.chrcs) # 0
    <3> DEFINE lo == o.chrcs[n].value + 1
               hi == o.chrcs[n].end
    <3>1. Ask(o1, e, "dsc", lo, hi)
      BY <1>2, <1>5, <2>11
    <3>2. n \in 1..Len(o.chrcs) /\ HasRoom(o.chrcs[n]) /\ o.chrcs[n] \in Chrcs /\ n # 0
      BY <1>1, <1>3, <2>11, SeqFacts
    <3>3. lo \in Handles /\ hi \in Handles /\ lo <= hi
      BY <3>2 DEF Chrcs, HasRoom, Handles
    <3>4. \A x \in e : x.start = o1.cur => x.start + Len(x.attrs) <= lo
      <4>1. \A x \in e : x.start = o1.cur => x = u
        BY <2>1, <2>6 DEF ExtendedAs
      <4>2. /\ Len(u.attrs) = Len(t.attrs) + 2 * n /\ u.start = t.start
            /\ o.chrcs[n].value = t.start + Len(t.attrs) + 2 * n - 1 /\ Fits(t)
        BY <1>1, <2>1, <3>2, DbIs DEF ExtendedAs
      <4>3. u.start + Len(u.attrs) = lo
        <5>1. t.start \in Nat /\ Len(t.attrs) \in Nat /\ n \in Nat
          BY <1>3, <4>2, FitFacts
        <5> DEFINE m == Len(t.attrs)
                   k == Len(u.attrs)
        <5>2. k = m + 2 * n /\ o.chrcs[n].value = t.start + m + 2 * n - 1 /\ m \in Nat
          BY <4>2, <5>1
        <5> HIDE DEF m, k
        <5>3. t.start + k = o.chrcs[n].value + 1
          BY <5>1, <5>2
        <5> QED BY <4>2, <5>3 DEF k
      <4> QED BY <3>3, <4>1, <4>3 DEF Handles
    <3>5. WorkList(o1, "dsc") = <<o1.cur>> \o o1.pending
      BY DEF WorkList
    <3> HIDE DEF lo, hi
    <3>6. Frame(o1, e, "dsc", hi)
      BY <2>3, <2>6, <2>7, <2>8, <3>5, ContinuedFacts DEF Frame, Grouped
    <3>7. Asking(o1, e, "dsc", lo, hi)
      BY <3>3, <3>4, <3>6 DEF Asking, Grouped
    <3> QED BY <2>7, <3>1, <3>7, AskShape
  <2> QED BY <2>10, <2>11
<1> QED BY <1>4, <1>5

\* A service is extended by what was found, all of it in its place.
LEMMA ExtendedByFound ==
  ASSUME NEW d, DbOK(d), NEW t, t \in d, NEW found, found \in Seq(Items), ~Misplaced(t, found)
  PROVE  /\ FoundKinds(found) \in Seq(Kinds) /\ Len(FoundKinds(found)) = Len(found)
         /\ \A i \in 1..Len(found) : FoundKinds(found)[i] = found[i].kind
         /\ \E u : ExtendedAs(d, t, FoundKinds(found), u, Extended(d, t.start, FoundKinds(found)))
<1>1. Len(found) \in Nat /\ DOMAIN found = 1..Len(found) /\ \A i \in 1..Len(found) : found[i] \in Items
  BY SeqFacts
<1>2. \A i \in 1..Len(found) : found[i].kind \in Kinds
  BY <1>1 DEF Items
<1>3. FoundKinds(found) \in [1..Len(found) -> Kinds]
      /\ \A i \in 1..Len(found) : FoundKinds(found)[i] = found[i].kind
  BY <1>1, <1>2 DEF FoundKinds
<1>4. FoundKinds(found) \in Seq(Kinds) /\ Len(FoundKinds(found)) = Len(found)
  BY <1>1, <1>3
<1>5. t.start + Len(t.attrs) + Len(FoundKinds(found)) - 1 <= t.end
  <2> DEFINE m == Len(t.attrs)
             k == Len(FoundKinds(found))
             n == Len(found)
  <2>1. m \in Nat /\ t.start \in Nat /\ t.end \in Nat /\ t.start + m - 1 <= t.end /\ k = n /\ n \in Nat
    BY <1>1, <1>4, DbIs, FitFacts
  <2>2. n # 0 => found[n].at = t.start + m + n - 1 /\ found[n].at <= t.end
    <3>1. n # 0 => n \in DOMAIN found
      BY <1>1
    <3> HIDE DEF n
    <3> QED BY <3>1 DEF Misplaced, Expected
  <2> HIDE DEF m, k, n
  <2>3. t.start + m + k - 1 <= t.end
    BY <2>1, <2>2
  <2> QED BY <2>3 DEF m, k
<1>6. \E u : ExtendedAs(d, t, FoundKinds(found), u, Extended(d, t.start, FoundKinds(found)))
  BY <1>4, <1>5, ExtendedIs
<1> QED BY <1>3, <1>4, <1>6

LEMMA DescsCbShape ==
  ASSUME Busy, NEW o, NEW d, Doing(o, d), NEW found, found \in Seq(Items), discover_descs_cb(o, d, found)
  PROVE  Shape'
<1> DEFINE e == Extended(d, o.cur, FoundKinds(found))
<1>1. Continued(o) /\ DbOK(d) /\ Listed(o, d, <<o.cur>> \o o.pending)
  BY DEF Doing
<1>2. CASE found = <<>>
  BY <1>2, NextServiceShape DEF discover_descs_cb
<1>3. CASE found # <<>> /\ Misplaced(Service(d, o.cur), found)
  <2>1. Complete(o, d, "failed")
    BY <1>3 DEF discover_descs_cb
  <2> QED BY <1>1, <2>1, CompleteShape
<1>4. CASE found # <<>> /\ ~Misplaced(Service(d, o.cur), found)
  <2>1. discover_descs(o, e)
    BY <1>4 DEF discover_descs_cb
  <2>2. PICK t \in d : t.start = o.cur /\ Service(d, o.cur) = t
    BY DoingFacts
  <2>3. PICK u : ExtendedAs(d, t, FoundKinds(found), u, e)
    BY <1>1, <1>4, <2>2, ExtendedByFound
  <2>4. Listed(o, e, <<o.cur>> \o o.pending)
    BY <1>1, <2>3, ExtendedListed
  <2>5. Doing(o, e)
    BY <1>1, <2>3, <2>4 DEF Doing, ExtendedAs
  <2> QED BY <2>1, <2>5, DescsShape
<1> QED BY <1>2, <1>3, <1>4

\* The characteristics for what was found.
Found(found, end) == [i \in DOMAIN found |-> Characteristic(found, i, end)]

LEMMA FoundIs ==
  ASSUME NEW found, found \in Seq(Items), NEW end, end \in Handles,
         \A i \in 1..Len(found) : found[i].to \in Handles
  PROVE  /\ Found(found, end) \in Seq(Chrcs) /\ Len(Found(found, end)) = Len(found)
         /\ \A i \in 1..Len(found) :
              /\ Found(found, end)[i].value = found[i].to /\ Found(found, end)[i].kind = found[i].kind
              /\ Found(found, end)[i].end = IF i = Len(found) THEN end ELSE found[i + 1].at - 1
<1>1. Len(found) \in Nat /\ DOMAIN found = 1..Len(found) /\ \A i \in 1..Len(found) : found[i] \in Items
  BY SeqFacts
<1>2. \A i \in 1..Len(found) : found[i].kind \in Kinds /\ found[i].at \in Handles
  BY <1>1 DEF Items
<1>3. ASSUME NEW i \in 1..Len(found) PROVE Characteristic(found, i, end) \in Chrcs
  <2>1. (IF i = Len(found) THEN end ELSE found[i + 1].at - 1) \in 0..MaxHandle
    <3>1. i # Len(found) => i + 1 \in 1..Len(found)
      <4>1. Len(found) \in Nat
        BY <1>1
      <4> QED BY ONLY <4>1, i \in 1..Len(found)
    <3> QED BY <1>2, <3>1 DEF Handles
  <2> QED BY <1>2, <2>1 DEF Characteristic, Chrcs
<1>4. Found(found, end) \in [1..Len(found) -> Chrcs]
      /\ \A i \in 1..Len(found) : Found(found, end)[i] = Characteristic(found, i, end)
  BY <1>1, <1>3 DEF Found
<1>5. Found(found, end) \in Seq(Chrcs) /\ Len(Found(found, end)) = Len(found)
  BY <1>1, <1>4
<1>6. ASSUME NEW i \in 1..Len(found)
      PROVE  /\ Found(found, end)[i].value = found[i].to /\ Found(found, end)[i].kind = found[i].kind
             /\ Found(found, end)[i].end = IF i = Len(found) THEN end ELSE found[i + 1].at - 1
  <2>1. Found(found, end)[i] = Characteristic(found, i, end)
    BY <1>4
  <2> QED BY <2>1 DEF Characteristic
<1> QED BY <1>5, <1>6

LEMMA ChrcsCbShape ==
  ASSUME Busy, NEW o, NEW d, Doing(o, d), NEW found, found \in Seq(Items),
         \A i \in 1..Len(found) : found[i].to \in Handles, discover_chrcs_cb(o, d, found)
  PROVE  Shape'
<1> DEFINE q  == o.chrcs \o Found(found, End(d, o.cur))
           o1 == [o EXCEPT !.chrcs = @ \o Found(found, End(d, o.cur))]
<1>1. /\ Continued(o) /\ DbOK(d) /\ Listed(o, d, <<o.cur>> \o o.pending)
      /\ o \in Ops /\ o.chrcs \in Seq(Chrcs)
  BY ContinuedFacts DEF Doing
<1>2. CASE found = <<>>
  BY <1>2, NextServiceShape DEF discover_chrcs_cb
<1>3. CASE found # <<>>
  <2>1. discover_descs(o1, d)
    BY <1>3 DEF discover_chrcs_cb, Found
  <2>2. End(d, o.cur) \in Handles
    <3>1. PICK t \in d : End(d, o.cur) = t.end /\ Fits(t)
      BY DoingFacts
    <3> QED BY <3>1, FitFacts
  <2>3. q \in Seq(Chrcs)
    BY <1>1, <2>2, FoundIs, ConcatProperties
  <2>4. o1 = [o EXCEPT !.chrcs = q]
    OBVIOUS
  <2> HIDE DEF q, o1
  <2>5. /\ o1 \in Ops /\ o1.start = o.start /\ o1.end = o.end /\ o1.init = o.init
        /\ o1.pending = o.pending /\ o1.cur = o.cur
    BY <1>1, <2>3, <2>4 DEF Ops
  <2>6. Doing(o1, d)
    <3>1. Listed(o1, d, <<o1.cur>> \o o1.pending)
      BY <1>1, <2>5 DEF Listed
    <3> QED BY <1>1, <2>5, <3>1 DEF Doing, Continued
  <2> QED BY <2>1, <2>6, DescsShape
<1> QED BY <1>2, <1>3

\* A service is asked for the services it includes.
Including(o, d) ==
  /\ Continued(o) /\ DbOK(d) /\ Listed(o, d, o.tmp \o o.pending) /\ o.chrcs = <<>>
  /\ o.tmp # <<>> /\ o.cur = o.tmp[Len(o.tmp)]

LEMMA IncludingFacts ==
  ASSUME Busy, NEW o, NEW d, Including(o, d)
  PROVE  /\ o.tmp \o o.pending \in Seq(Handles)
         /\ \A s \in El(o.tmp \o o.pending) : s \in Handles /\ \E t \in d : t.start = s /\ ~t.active
         /\ o.cur \in El(o.tmp \o o.pending)
         /\ \A i \in 1..Len(o.pending) : o.pending[i] \in El(o.tmp \o o.pending)
<1>1. o.tmp \in Seq(Handles) /\ o.pending \in Seq(Handles)
  BY ContinuedFacts DEF Including
<1> DEFINE w == o.tmp \o o.pending
<1>2. w \in Seq(Handles) /\ El(w) = El(o.tmp) \cup El(o.pending)
  BY <1>1, ConcatIs
<1>3. Listed(o, d, w)
  BY DEF Including
<1> HIDE DEF w
<1>4. ASSUME NEW s \in El(w) PROVE s \in Handles /\ \E t \in d : t.start = s /\ ~t.active
  <2>1. PICK i \in 1..Len(w) : w[i] = s
    BY <1>2, SeqFacts
  <2>2. i \in DOMAIN w /\ w[i] \in Handles
    BY <1>2, <2>1, SeqFacts
  <2> QED BY <1>3, <2>1, <2>2 DEF Listed
<1>5. o.cur \in El(o.tmp)
  <2>1. Len(o.tmp) \in 1..Len(o.tmp)
    <3>1. Len(o.tmp) \in Nat \ {0}
      BY <1>1, EmptySeq DEF Including
    <3> QED BY <3>1
  <2> QED BY <1>1, <2>1, SeqFacts DEF Including
<1>6. \A i \in 1..Len(o.pending) : o.pending[i] \in El(o.pending)
  BY <1>1, SeqFacts
<1> QED BY <1>2, <1>4, <1>5, <1>6 DEF w

LEMMA NextIncludingShape ==
  ASSUME Busy, NEW o, NEW d, Including(o, d), NextIncluding(o, d)
  PROVE  Shape'
<1> DEFINE i   == FirstToAsk(d, o.pending)
           all == o.tmp \o o.pending
           s   == o.pending[i]
           a   == SubSeq(o.pending, 1, i)
           r   == SubSeq(o.pending, i + 1, Len(o.pending))
           oc  == [o EXCEPT !.tmp = <<>>, !.pending = Tail(all), !.cur = Head(all)]
           oi  == [o EXCEPT !.tmp = @ \o SubSeq(o.pending, 1, i), !.cur = s,
                            !.pending = SubSeq(@, i + 1, Len(@))]
<1>1. /\ o \in Ops /\ Continued(o) /\ DbOK(d) /\ Listed(o, d, all) /\ o.chrcs = <<>>
      /\ o.tmp \in Seq(Handles) /\ o.pending \in Seq(Handles) /\ o.tmp # <<>>
  BY ContinuedFacts DEF Including
<1>2. i \in 0..Len(o.pending)
  BY <1>1, FirstToAskIs
<1>3. all \in Seq(Handles) /\ \A h \in El(all) : h \in Handles /\ \E t \in d : t.start = h /\ ~t.active
  BY IncludingFacts
<1>4. CASE i = 0
  <2>1. Ask(oc, d, "chr", Head(all), End(d, Head(all)))
    BY <1>4 DEF NextIncluding
  <2>2. all # <<>>
    BY <1>1, ConcatEqualIffEmpty
  <2> HIDE DEF all, oc
  <2>3. Head(all) \in El(all) /\ Head(all) \in Handles /\ Tail(all) \in Seq(Handles)
        /\ <<Head(all)>> \o Tail(all) = all
    <3>1. Head(all) = all[1] /\ 1 \in 1..Len(all) /\ Head(all) \in Handles
          /\ Tail(all) \in Seq(Handles) /\ <<Head(all)>> \o Tail(all) = all
      BY <1>3, <2>2, HeadTailIs
    <3> QED BY <1>3, <3>1, SeqFacts
  <2>4. /\ oc \in Ops /\ oc.start = o.start /\ oc.end = o.end /\ oc.init = o.init
        /\ oc.tmp = <<>> /\ oc.pending = Tail(all) /\ oc.cur = Head(all)
    <3>1. Head(all) \in 0..MaxHandle /\ <<>> \in Seq(Handles)
      BY <2>3 DEF Handles
    <3> DEFINE h == Head(all)
               u == Tail(all)
    <3>2. oc = [o EXCEPT !.tmp = <<>>, !.pending = u, !.cur = h] /\ h \in 0..MaxHandle /\ u \in Seq(Handles)
      BY <2>3, <3>1 DEF oc
    <3> HIDE DEF h, u
    <3>3. /\ oc \in Ops /\ oc.start = o.start /\ oc.end = o.end /\ oc.init = o.init
          /\ oc.tmp = <<>> /\ oc.pending = u /\ oc.cur = h
      BY <1>1, <3>1, <3>2 DEF Ops
    <3> QED BY <3>3 DEF h, u
  <2>5. Continued(oc)
    BY <1>1, <2>4 DEF Continued
  <2>6. PICK t \in d : t.start = Head(all) /\ ~t.active
    BY <1>3, <2>3
  <2>7. End(d, Head(all)) = t.end /\ Fits(t)
    BY <1>1, <2>6, ServiceIs
  <2>8. Asking(oc, d, "chr", Head(all), t.end)
    <3>1. t.start <= t.end /\ t.end \in Handles /\ Head(all) <= Head(all)
      BY <2>3, <2>7, FitFacts DEF Handles
    <3>2. WorkList(oc, "chr") = all
      BY <2>3, <2>4 DEF WorkList
    <3>3. Listed(oc, d, all)
      BY <1>1, <2>4 DEF Listed
    <3>4. \A x \in d : x.start = oc.cur => t.end = x.end
      BY <1>1, <2>4, <2>6, DbIs
    <3>5. Frame(oc, d, "chr", t.end)
      BY <1>1, <2>4, <2>5, <3>2, <3>3, <3>4, ContinuedFacts DEF Frame, Grouped
    <3> QED BY <2>3, <2>4, <2>6, <3>1, <3>5 DEF Asking, Grouped
  <2> QED BY <2>1, <2>5, <2>7, <2>8, AskShape
<1>5. CASE i # 0
  <2>1. Ask(oi, d, "inc", s, End(d, s))
    BY <1>5 DEF NextIncluding
  <2>2. i \in 1..Len(o.pending) /\ i \in 0..Len(o.pending) /\ i \in Nat
    BY <1>1, <1>2, <1>5, SeqFacts
  <2>3. s \in El(all)
    BY <2>2, IncludingFacts
  <2> HIDE DEF i
  <2>4. a \in Seq(Handles) /\ Len(a) = i /\ a[i] = s /\ r \in Seq(Handles) /\ a \o r = o.pending
    BY <1>1, <2>2, CutIs
  <2> DEFINE b == o.tmp \o a
  <2>5. oi = [o EXCEPT !.tmp = b, !.cur = s, !.pending = r]
    OBVIOUS
  <2> HIDE DEF oi, a, r, s
  <2>6. b \in Seq(Handles) /\ Len(b) = Len(o.tmp) + i /\ b[Len(o.tmp) + i] = s
    <3>1. b \in Seq(Handles) /\ Len(b) = Len(o.tmp) + Len(a) /\ \A k \in 1..Len(a) : b[Len(o.tmp) + k] = a[k]
      <4>1. o.tmp \in Seq(Handles) /\ a \in Seq(Handles)
        BY <1>1, <2>4
      <4> QED BY ONLY <4>1, ConcatIs
    <3> HIDE DEF b
    <3> QED BY <2>2, <2>4, <3>1
  <2>7. b \o r = all
    <3>1. o.tmp \in Seq(Handles) /\ a \in Seq(Handles) /\ r \in Seq(Handles)
      BY <1>1, <2>4
    <3> DEFINE x == o.tmp
               y == a
               z == r
    <3>2. x \in Seq(Handles) /\ y \in Seq(Handles) /\ z \in Seq(Handles)
      BY <3>1
    <3> HIDE DEF x, y, z
    <3>3. (x \o y) \o z = x \o (y \o z)
      BY <3>2, ConcatThree
    <3> QED BY <2>4, <3>3 DEF x, y, z, all
  <2> HIDE DEF b, all
  <2>8. s \in Handles /\ s \in 0..MaxHandle
    BY <1>3, <2>3 DEF Handles
  <2>9. /\ oi \in Ops /\ oi.start = o.start /\ oi.end = o.end /\ oi.init = o.init
        /\ oi.tmp = b /\ oi.pending = r /\ oi.cur = s /\ oi.chrcs = <<>>
    BY <1>1, <2>4, <2>5, <2>6, <2>8 DEF Ops
  <2>10. Continued(oi)
    BY <1>1, <2>9 DEF Continued
  <2>11. PICK t \in d : t.start = s /\ ~t.active
    BY <1>3, <2>3
  <2>12. End(d, s) = t.end /\ Fits(t)
    BY <1>1, <2>11, ServiceIs
  <2>13. b # <<>> /\ s = b[Len(b)]
    <3>1. Len(o.tmp) \in Nat
      BY <1>1, LenProperties
    <3>2. Len(b) # 0
      BY <2>2, <2>6, <3>1
    <3> QED BY <2>6, <3>2, EmptySeq
  <2>14. Asking(oi, d, "inc", s, t.end)
    <3>1. t.start <= t.end /\ t.end \in Handles /\ s <= s
      BY <2>8, <2>12, FitFacts DEF Handles
    <3>2. WorkList(oi, "inc") = all
      BY <2>7, <2>9 DEF WorkList
    <3>3. Listed(oi, d, all)
      BY <1>1, <2>9 DEF Listed, all
    <3>4. \A x \in d : x.start = oi.cur => t.end = x.end
      BY <1>1, <2>9, <2>11, DbIs
    <3>5. Frame(oi, d, "inc", t.end)
      BY <1>1, <2>9, <2>10, <2>13, <3>2, <3>3, <3>4, ContinuedFacts DEF Frame, Grouped
    <3> QED BY <2>8, <2>9, <2>11, <3>1, <3>5 DEF Asking, Grouped
  <2> QED BY <2>1, <2>10, <2>12, <2>14, AskShape
<1> QED BY <1>4, <1>5

LEMMA InclCbShape ==
  ASSUME Busy, NEW o, NEW d, Including(o, d), NEW found, found \in Seq(Items), discover_incl_cb(o, d, found)
  PROVE  Shape'
<1> DEFINE e == Extended(d, o.cur, FoundKinds(found))
<1>1. Continued(o) /\ DbOK(d) /\ Listed(o, d, o.tmp \o o.pending)
  BY DEF Including
<1>2. PICK t \in d : t.start = o.cur /\ ~t.active
  BY IncludingFacts
<1>3. Service(d, o.cur) = t
  BY <1>1, <1>2, ServiceIs
<1>4. Complete(o, d, "failed") \/ (~Misplaced(t, found) /\ NextIncluding(o, e))
  BY <1>3 DEF discover_incl_cb
<1>5. CASE Complete(o, d, "failed")
  BY <1>1, <1>5, CompleteShape
<1>6. CASE ~Misplaced(t, found) /\ NextIncluding(o, e)
  <2>1. PICK u : ExtendedAs(d, t, FoundKinds(found), u, e)
    BY <1>1, <1>2, <1>6, ExtendedByFound
  <2>2. Listed(o, e, o.tmp \o o.pending)
    BY <1>1, <2>1, ExtendedListed
  <2>3. Including(o, e)
    BY <2>1, <2>2 DEF Including, ExtendedAs
  <2> QED BY <1>6, <2>3, NextIncludingShape
<1> QED BY <1>4, <1>5, <1>6

LEMMA StartsIs ==
  ASSUME NEW found, found \in Seq(Items)
  PROVE  /\ Starts(found) \in Seq(Handles) /\ Len(Starts(found)) = Len(found)
         /\ \A i \in 1..Len(found) : Starts(found)[i] = found[i].at /\ found[i].at \in Handles
<1>1. Len(found) \in Nat /\ DOMAIN found = 1..Len(found) /\ \A i \in 1..Len(found) : found[i] \in Items
  BY SeqFacts
<1>2. \A i \in 1..Len(found) : found[i].at \in Handles
  BY <1>1 DEF Items
<1>3. Starts(found) \in [1..Len(found) -> Handles]
      /\ \A i \in 1..Len(found) : Starts(found)[i] = found[i].at
  BY <1>1, <1>2 DEF Starts
<1>4. Starts(found) \in Seq(Handles) /\ Len(Starts(found)) = Len(found)
  BY <1>1, <1>3
<1> QED BY <1>2, <1>3, <1>4

\* Services that were found come behind those that are listed.
Gathering(o, d, kind, found) ==
  /\ o \in Ops /\ o.start <= o.end /\ DbOK(d) /\ Listed(o, d, o.pending)
  /\ \A t \in d : t.start \in o.start..o.end => t.start \in El(o.pending)
  /\ kind \in Grouped /\ found \in Seq(Items) /\ FoundShape(o, kind, o.end, found)
  /\ ~\E i \in DOMAIN found : Clash(d, found[i].at, found[i].to)

LEMMA GatheredIs ==
  ASSUME NEW o, NEW d, NEW kind, NEW found, Gathering(o, d, kind, found), NEW primary, primary \in BOOLEAN
  PROVE  /\ Addable(d, found) /\ DbOK(InsertAll(d, found, primary))
         /\ o.pending \o Starts(found) \in Seq(Handles)
         /\ Listed(o, InsertAll(d, found, primary), o.pending \o Starts(found))
         /\ \A t \in InsertAll(d, found, primary) :
              t.start \in o.start..o.end => t.start \in El(o.pending \o Starts(found))
<1> DEFINE q == o.pending
           z == Starts(found)
           w == q \o z
           e == InsertAll(d, found, primary)
<1>1. /\ o.start \in Nat /\ o.end \in Nat /\ q \in Seq(Handles) /\ DbOK(d) /\ Listed(o, d, q)
      /\ found \in Seq(Items)
  BY DEF Gathering, Ops, Handles
<1>2. /\ Len(found) \in Nat /\ DOMAIN found = 1..Len(found) /\ Len(q) \in Nat /\ DOMAIN q = 1..Len(q)
      /\ z \in Seq(Handles) /\ Len(z) = Len(found)
      /\ \A i \in 1..Len(found) : z[i] = found[i].at /\ found[i].at \in Handles
  BY <1>1, SeqFacts, StartsIs
<1> HIDE DEF z
<1>3. ASSUME NEW i \in 1..Len(found)
      PROVE  /\ o.start <= found[i].at /\ found[i].at <= o.end /\ found[i].at \in Nat
             /\ found[i].at <= found[i].to /\ found[i].to <= MaxHandle /\ found[i].to \in Nat
             /\ ~Clash(d, found[i].at, found[i].to)
  <2>1. found[i] \in Items /\ i \in DOMAIN found
    BY <1>1, <1>2, SeqFacts
  <2> QED BY <2>1 DEF Gathering, FoundShape, Items, Handles
<1>4. ASSUME NEW i \in 1..Len(found), NEW j \in 1..Len(found), i < j
      PROVE  found[i].at < found[j].at /\ found[i].to < found[j].at
  BY <1>2, <1>4 DEF Gathering, FoundShape
<1>5. ASSUME NEW i \in 1..Len(found), NEW t \in d PROVE t.start # found[i].at
  <2>1. t.start \in Nat /\ t.end \in Nat /\ t.start <= t.end
    BY <1>1, DbIs, FitFacts
  <2> QED BY <1>3, <2>1 DEF Clash
<1>6. Addable(d, found)
  BY <1>1, <1>3, <1>4, <1>5 DEF Addable
<1>7. DbOK(e) /\ \A t : t \in e <=> t \in d \/ \E i \in 1..Len(found) : t = NewService(found[i], primary)
  BY <1>1, <1>6, InsertedIs
<1> HIDE DEF e
<1>8. /\ w \in Seq(Handles) /\ Len(w) = Len(q) + Len(z) /\ (\A i \in 1..Len(q) : w[i] = q[i])
      /\ (\A i \in 1..Len(z) : w[Len(q) + i] = z[i]) /\ El(w) = El(q) \cup El(z)
  <2> HIDE DEF q
  <2>1. q \in Seq(Handles) /\ z \in Seq(Handles)
    BY <1>1, <1>2
  <2> QED BY ONLY <2>1, ConcatIs
<1> HIDE DEF w
<1>9. DOMAIN w = 1..Len(q) + Len(found)
  BY <1>2, <1>8, SeqFacts
<1>10. ASSUME NEW i \in 1..Len(found)
       PROVE  /\ NewService(found[i], primary) \in e /\ NewService(found[i], primary).start = found[i].at
              /\ NewService(found[i], primary).end = found[i].to /\ ~NewService(found[i], primary).active
  BY <1>7 DEF NewService
<1>11. ASSUME NEW i \in DOMAIN w
       PROVE  \/ i \in DOMAIN q /\ w[i] = q[i] /\ \E s \in d : s.start = w[i] /\ ~s.active
              \/ /\ i - Len(q) \in 1..Len(found) /\ w[i] = found[i - Len(q)].at /\ ~(i \in DOMAIN q)
  <2>1. CASE i <= Len(q)
    <3>1. i \in DOMAIN q /\ w[i] = q[i]
      BY <1>2, <1>8, <1>9, <2>1
    <3> QED BY <1>1, <3>1 DEF Listed
  <2>2. CASE ~(i <= Len(q))
    <3> DEFINE k == i - Len(q)
    <3>1. k \in 1..Len(found) /\ Len(q) + k = i /\ k \in 1..Len(z)
      BY <1>2, <1>9, <2>2
    <3>2. w[Len(q) + k] = z[k] /\ z[k] = found[k].at
      <4> HIDE DEF k
      <4> QED BY <1>2, <1>8, <3>1
    <3>3. ~(i \in DOMAIN q)
      BY <1>2, <2>2
    <3> QED BY <3>1, <3>2, <3>3
  <2> QED BY <2>1, <2>2
<1>12. ASSUME NEW i \in DOMAIN w
       PROVE  w[i] \in o.start..o.end /\ \E s \in e : s.start = w[i] /\ ~s.active
  <2>1. CASE i \in DOMAIN q /\ w[i] = q[i] /\ \E s \in d : s.start = w[i] /\ ~s.active
    BY <1>1, <1>7, <2>1 DEF Listed
  <2>2. CASE i - Len(q) \in 1..Len(found) /\ w[i] = found[i - Len(q)].at
    BY <1>1, <1>3, <1>10, <2>2
  <2> QED BY <1>11, <2>1, <2>2
<1>13. ASSUME NEW i \in DOMAIN w, NEW j \in DOMAIN w, i < j, NEW a \in e, NEW b \in e,
              a.start = w[i], b.start = w[j]
       PROVE  InTurn(a, b)
  <2>1. ASSUME NEW k \in DOMAIN q, w[k] = q[k], \E s \in d : s.start = w[k], NEW x \in e, x.start = w[k]
        PROVE  x \in d
    BY <1>7, <2>1, DbIs
  <2>2. ASSUME NEW k \in 1..Len(found), NEW x \in e, x.start = found[k].at PROVE x.end = found[k].to
    BY <1>7, <1>10, <2>2, DbIs
  <2>3. i \in Nat /\ j \in Nat
    BY <1>2, <1>9
  <2>4. CASE i \in DOMAIN q /\ j \in DOMAIN q
    <3>1. a \in d /\ b \in d /\ w[i] = q[i] /\ w[j] = q[j]
      BY <1>2, <1>11, <1>13, <2>1, <2>3, <2>4
    <3> QED BY <1>1, <1>13, <2>4, <3>1 DEF Listed
  <2>5. CASE i \in DOMAIN q /\ ~(j \in DOMAIN q)
    <3> DEFINE k == j - Len(q)
    <3>1. a \in d
      BY <1>2, <1>11, <1>13, <2>1, <2>3, <2>5
    <3>2. k \in 1..Len(found) /\ w[j] = found[k].at
      BY <1>2, <1>11, <2>5
    <3> HIDE DEF k
    <3>3. b.start = found[k].at /\ b.end = found[k].to
      BY <1>13, <2>2, <3>2
    <3>4. ~(b.start \in a.start..a.end) /\ ~(b.end \in a.start..a.end)
      BY <1>3, <3>1, <3>2, <3>3 DEF Clash
    <3>5. a.start \in Nat /\ a.end \in Nat /\ b.start \in Nat /\ b.end \in Nat /\ b.start <= b.end
          /\ a.start <= a.end
      BY <1>7, DbIs, FitFacts
    <3> QED BY <3>4, <3>5 DEF InTurn
  <2>6. CASE ~(i \in DOMAIN q)
    <3> DEFINE k == i - Len(q)
               l == j - Len(q)
    <3>1. ~(j \in DOMAIN q)
      BY <1>2, <1>9, <1>13, <2>3, <2>6
    <3>2. k \in 1..Len(found) /\ l \in 1..Len(found) /\ w[i] = found[k].at /\ w[j] = found[l].at
      BY <1>2, <1>11, <2>6, <3>1
    <3>3. k < l
      BY <1>2, <1>13, <2>3
    <3> HIDE DEF k, l
    <3>4. a.end = found[k].to /\ found[k].to < found[l].at /\ b.start = found[l].at
      BY <1>4, <1>13, <2>2, <3>2, <3>3
    <3> QED BY <3>4 DEF InTurn
  <2> QED BY <2>4, <2>5, <2>6
<1>14. Listed(o, e, w)
  BY <1>12, <1>13 DEF Listed
<1>15. ASSUME NEW t \in e, t.start \in o.start..o.end PROVE t.start \in El(w)
  <2>1. CASE t \in d
    BY <1>8, <1>15, <2>1 DEF Gathering
  <2>2. CASE \E i \in 1..Len(found) : t = NewService(found[i], primary)
    <3>1. PICK i \in 1..Len(found) : t = NewService(found[i], primary)
      BY <2>2
    <3>2. t.start = z[i] /\ i \in 1..Len(z)
      BY <1>2, <1>10, <3>1
    <3>3. z[i] \in El(z)
      BY <1>2, <3>2, SeqFacts
    <3> QED BY <1>8, <3>2, <3>3
  <2> QED BY <1>7, <2>1, <2>2
<1> QED BY <1>6, <1>7, <1>8, <1>14, <1>15 DEF w, z, e

LEMMA PrimaryShape ==
  ASSUME Busy, NEW o, Continued(o), NEW d, NEW to, Frame(o, d, "primary", to),
         NEW found, found \in Seq(Items), FoundShape(o, "primary", to, found), discover_primary_cb(o, d, found)
  PROVE  Shape'
<1> DEFINE z  == Starts(found)
           e  == InsertAll(d, found, TRUE)
           o1 == [o EXCEPT !.pending = z]
<1>1. /\ o \in Ops /\ o.start <= o.end /\ DbOK(d) /\ o.pending = <<>> /\ o.chrcs = <<>> /\ o.tmp = <<>>
      /\ to = o.end /\ \A t \in d : t.start \in o.start..o.end => t.start \in El(o.pending)
      /\ o.start \in Handles /\ o.end \in Handles
  BY DEF Frame, Grouped, Ops
<1>2. CASE \E i \in DOMAIN found : Clash(d, found[i].at, found[i].to)
  BY <1>1, <1>2, CompleteShape DEF discover_primary_cb
<1>3. CASE ~\E i \in DOMAIN found : Clash(d, found[i].at, found[i].to)
  <2>1. Ask(o1, e, "secondary", o.start, o.end)
    BY <1>3 DEF discover_primary_cb
  <2>2. Listed(o, d, o.pending)
    BY <1>1 DEF Listed
  <2>3. Gathering(o, d, "primary", found)
    BY <1>1, <1>3, <2>2 DEF Gathering, Grouped
  <2>4. z \in Seq(Handles) /\ o.pending \o z = z
    <3>1. z \in Seq(Handles)
      BY StartsIs
    <3> HIDE DEF z
    <3> QED BY <1>1, <3>1, ConcatEmptySeq
  <2>5. DbOK(e) /\ Listed(o, e, z) /\ \A t \in e : t.start \in o.start..o.end => t.start \in El(z)
    <3>1. /\ DbOK(e) /\ Listed(o, e, o.pending \o z)
          /\ \A t \in e : t.start \in o.start..o.end => t.start \in El(o.pending \o z)
      BY <2>3, GatheredIs
    <3> HIDE DEF z, e
    <3> QED BY <2>4, <3>1
  <2> HIDE DEF z, e
  <2>6. /\ o1 \in Ops /\ o1.start = o.start /\ o1.end = o.end /\ o1.init = o.init /\ o1.pending = z
        /\ o1.chrcs = <<>> /\ o1.tmp = <<>>
    BY <1>1, <2>4 DEF Ops
  <2> HIDE DEF o1
  <2>7. Continued(o1)
    BY <2>6 DEF Continued
  <2>8. Frame(o1, e, "secondary", o.end)
    <3>1. WorkList(o1, "secondary") = z
      BY <2>6 DEF WorkList
    <3>2. Listed(o1, e, z)
      BY <2>5, <2>6 DEF Listed
    <3> QED BY <1>1, <2>5, <2>6, <3>1, <3>2 DEF Frame, Grouped
  <2>9. Asking(o1, e, "secondary", o.start, o.end)
    BY <1>1, <2>6, <2>8 DEF Asking, Grouped, Handles
  <2> QED BY <2>1, <2>7, <2>9, AskShape
<1> QED BY <1>2, <1>3

LEMMA SecondaryShape ==
  ASSUME Busy, NEW o, Continued(o), NEW d, NEW to, Frame(o, d, "secondary", to),
         NEW found, found \in Seq(Items), FoundShape(o, "secondary", to, found), discover_secondary_cb(o, d, found)
  PROVE  Shape'
<1> DEFINE all == o.pending \o Starts(found)
           e   == InsertAll(d, found, FALSE)
           o1  == [o EXCEPT !.pending = Tail(all), !.tmp = <<Head(all)>>, !.cur = Head(all)]
<1>1. /\ o \in Ops /\ o.start <= o.end /\ DbOK(d) /\ o.chrcs = <<>>
      /\ to = o.end /\ \A t \in d : t.start \in o.start..o.end => t.start \in El(o.pending)
      /\ o.start \in Handles /\ o.end \in Handles
  BY DEF Frame, Grouped, Ops
<1>2. Listed(o, d, o.pending)
  <2>1. WorkList(o, "secondary") = o.pending
    BY DEF WorkList
  <2> QED BY <2>1 DEF Frame
<1>3. CASE \E i \in DOMAIN found : Clash(d, found[i].at, found[i].to)
  BY <1>1, <1>3, CompleteShape DEF discover_secondary_cb
<1>4. CASE ~\E i \in DOMAIN found : Clash(d, found[i].at, found[i].to)
  <2>1. IF all = <<>> THEN Complete(o, d, "none")
        ELSE Ask(o1, e, "inc", Head(all), End(e, Head(all)))
    BY <1>4 DEF discover_secondary_cb
  <2>2. CASE all = <<>>
    BY <1>1, <2>1, <2>2, CompleteShape
  <2>3. CASE all # <<>>
    <3>1. Gathering(o, d, "secondary", found)
      BY <1>1, <1>2, <1>4 DEF Gathering, Grouped
    <3>2. DbOK(e) /\ all \in Seq(Handles) /\ Listed(o, e, all)
      BY <3>1, GatheredIs
    <3> HIDE DEF all, e
    <3>3. /\ Head(all) = all[1] /\ Head(all) \in Handles /\ Tail(all) \in Seq(Handles)
          /\ <<Head(all)>> \o Tail(all) = all /\ 1 \in DOMAIN all
      BY <2>3, <3>2, HeadTailIs, SeqFacts
    <3> DEFINE h == Head(all)
               u == Tail(all)
    <3>4. h \in Handles /\ h \in 0..MaxHandle /\ u \in Seq(Handles) /\ <<h>> \o u = all /\ <<h>> \in Seq(Handles)
          /\ h <= h /\ all[1] = h
      BY <3>3 DEF Handles
    <3>5. Ask([o EXCEPT !.pending = u, !.tmp = <<h>>, !.cur = h], e, "inc", h, End(e, h))
      BY <2>1, <2>3
    <3> HIDE DEF h, u, o1
    <3> DEFINE oi == [o EXCEPT !.pending = u, !.tmp = <<h>>, !.cur = h]
    <3>6. /\ oi \in Ops /\ oi.start = o.start /\ oi.end = o.end /\ oi.init = o.init
          /\ oi.pending = u /\ oi.tmp = <<h>> /\ oi.cur = h /\ oi.chrcs = <<>>
      BY <1>1, <3>4 DEF Ops
    <3>7. Ask(oi, e, "inc", h, End(e, h))
      BY <3>5
    <3> HIDE DEF oi
    <3>8. Continued(oi)
      BY <3>6 DEF Continued
    <3>9. PICK t \in e : t.start = h /\ ~t.active
      BY <3>2, <3>3, <3>4 DEF Listed
    <3>10. End(e, h) = t.end /\ Fits(t)
      BY <3>2, <3>9, ServiceIs
    <3>11. Frame(oi, e, "inc", t.end)
      <4>1. WorkList(oi, "inc") = all
        BY <3>4, <3>6 DEF WorkList
      <4>2. Listed(oi, e, all)
        BY <3>2, <3>6 DEF Listed
      <4>3. \A x \in e : x.start = oi.cur => t.end = x.end
        BY <3>2, <3>6, <3>9, DbIs
      <4>4. oi.tmp # <<>> /\ oi.cur = oi.tmp[Len(oi.tmp)]
        BY <3>4, <3>6
      <4> QED BY <1>1, <3>2, <3>6, <4>1, <4>2, <4>3, <4>4 DEF Frame, Grouped
    <3>12. t.start <= t.end /\ t.end \in Handles
      BY <3>10, FitFacts
    <3>13. Asking(oi, e, "inc", h, t.end)
      BY <3>4, <3>6, <3>9, <3>11, <3>12 DEF Asking, Grouped
    <3> QED BY <3>7, <3>8, <3>10, <3>13, AskShape
  <2> QED BY <2>2, <2>3
<1> QED BY <1>3, <1>4

---------------------------------------------------------------------------
(* The shape of the state is kept by every step.                           *)

\* A discovery waits for the procedure p.
Waiting(p) ==
  /\ Control /\ proc = {p} /\ Frame(op, db, p.kind, p.to) /\ ProcedureOK(op, db, p)
  /\ UNCHANGED <<deviceVars, link>>

LEMMA WaitingFacts ==
  ASSUME NEW p, Waiting(p)
  PROVE  /\ Busy /\ Continued(op) /\ DbOK(db) /\ op \in Ops
         /\ p \in Procedures /\ p.from \in Handles /\ p.to \in Handles /\ p.from <= p.to
         /\ p.found \in Seq(Items)
         /\ p.kind \in {"chr", "dsc"} => Doing(op, db)
         /\ p.kind = "inc" => Including(op, db)
<1>1. /\ Control /\ proc = {p} /\ Frame(op, db, p.kind, p.to) /\ ProcedureOK(op, db, p)
      /\ UNCHANGED <<deviceVars, link>>
  BY DEF Waiting
<1>2. Busy
  BY <1>1 DEF Busy
<1>3. Continued(op) /\ DbOK(db) /\ op \in Ops
  BY <1>1 DEF Frame, Continued
<1>4. p \in Procedures /\ p.from \in Handles /\ p.to \in Handles /\ p.from <= p.to /\ p.found \in Seq(Items)
  BY <1>1 DEF ProcedureOK, Procedures
<1>5. p.kind \in {"chr", "dsc"} => Doing(op, db)
  <2> SUFFICES ASSUME p.kind \in {"chr", "dsc"} PROVE Doing(op, db)
    OBVIOUS
  <2>1. WorkList(op, p.kind) = <<op.cur>> \o op.pending
    BY DEF WorkList
  <2>2. Listed(op, db, WorkList(op, p.kind))
    BY <1>1 DEF Frame
  <2> QED BY <1>3, <2>1, <2>2 DEF Doing
<1>6. p.kind = "inc" => Including(op, db)
  <2> SUFFICES ASSUME p.kind = "inc" PROVE Including(op, db)
    OBVIOUS
  <2>1. WorkList(op, p.kind) = op.tmp \o op.pending
    BY DEF WorkList
  <2>2. Listed(op, db, WorkList(op, p.kind)) /\ op.chrcs = <<>> /\ op.tmp # <<>> /\ op.cur = op.tmp[Len(op.tmp)]
    BY <1>1 DEF Frame, Grouped
  <2> QED BY <1>3, <2>1, <2>2 DEF Including
<1> QED BY <1>2, <1>3, <1>4, <1>5, <1>6

LEMMA FinishedShape ==
  ASSUME NEW p, Waiting(p), NEW found, found \in Seq(Items), FoundShape(op, p.kind, p.to, found),
         Finished(p.kind, found)
  PROVE  Shape'
<1>1. /\ Busy /\ Continued(op) /\ Frame(op, db, p.kind, p.to)
      /\ p.kind \in {"chr", "dsc"} => Doing(op, db)
      /\ p.kind = "inc" => Including(op, db)
  BY WaitingFacts DEF Waiting
<1>2. CASE p.kind = "primary" /\ discover_primary_cb(op, db, found)
  BY <1>1, <1>2, PrimaryShape
<1>3. CASE p.kind = "secondary" /\ discover_secondary_cb(op, db, found)
  BY <1>1, <1>3, SecondaryShape
<1>4. CASE p.kind = "inc" /\ discover_incl_cb(op, db, found)
  BY <1>1, <1>4, InclCbShape
<1>5. CASE p.kind = "chr" /\ discover_chrcs_cb(op, db, found)
  <2>1. \A i \in 1..Len(found) : found[i].to \in Handles
    <3>1. \A i \in 1..Len(found) : i \in DOMAIN found /\ found[i] \in Items
      BY SeqFacts
    <3>2. \A i \in DOMAIN found : found[i].to = found[i].at + 1 /\ found[i].to <= MaxHandle
      BY <1>5 DEF FoundShape
    <3>3. \A f \in Items : f.at \in Handles
      BY DEF Items
    <3> QED BY <3>1, <3>2, <3>3 DEF Handles
  <2> QED BY <1>1, <1>5, <2>1, ChrcsCbShape
<1>6. CASE p.kind = "dsc" /\ discover_descs_cb(op, db, found)
  BY <1>1, <1>6, DescsCbShape
<1> QED BY <1>2, <1>3, <1>4, <1>5, <1>6 DEF Finished

\* What the device has for a request.
Matches(p) == InOrder(Matching(dev, p.kind, p.from, p.to))

LEMMA MatchesIs ==
  ASSUME NEW p, dev \in Tables, p.from \in Nat, p.to \in Nat
  PROVE  /\ Matches(p) \in Seq(Items) /\ El(Matches(p)) = Matching(dev, p.kind, p.from, p.to)
         /\ Len(Matches(p)) \in Nat /\ DOMAIN Matches(p) = 1..Len(Matches(p))
         /\ \A i, j \in 1..Len(Matches(p)) : i < j => Matches(p)[i].at < Matches(p)[j].at
         /\ \A i \in 1..Len(Matches(p)) :
              /\ Matches(p)[i] \in Items /\ Matches(p)[i].at \in Nat /\ Matches(p)[i].to \in Nat
              /\ p.from <= Matches(p)[i].at /\ Matches(p)[i].at <= p.to
              /\ p.kind \in Grouped => Matches(p)[i].at <= Matches(p)[i].to /\ Matches(p)[i].to <= MaxHandle
              /\ p.kind = "chr" => Matches(p)[i].to = Matches(p)[i].at + 1 /\ Matches(p)[i].to <= MaxHandle
         /\ p.kind \in Grouped =>
              \A i, j \in 1..Len(Matches(p)) : i < j => Matches(p)[i].to < Matches(p)[j].at
<1> DEFINE M == Matching(dev, p.kind, p.from, p.to)
           m == Matches(p)
<1>1. AnswerOK(M, p.kind, p.from, p.to)
  BY MatchingOK
<1>2. m = InOrder(M)
  BY DEF Matches
<1> HIDE DEF M, m
<1>3. m \in Seq(M) /\ El(m) = M /\ \A i, j \in DOMAIN m : i < j => m[i].at < m[j].at
  BY <1>1, <1>2, InOrderIs DEF AnswerOK
<1>4. Len(m) \in Nat /\ DOMAIN m = 1..Len(m) /\ \A i \in 1..Len(m) : m[i] \in M
  BY <1>3, SeqFacts
<1>5. M \subseteq Items
  BY <1>1 DEF AnswerOK
<1>6. m \in Seq(Items)
  BY <1>3, <1>5, SeqMonotonic
<1>7. \A f \in Items : f.at \in Nat /\ f.to \in Nat
  BY DEF Items, Handles
<1>8. \A i \in 1..Len(m) :
        /\ m[i] \in Items /\ m[i].at \in Nat /\ m[i].to \in Nat
        /\ p.from <= m[i].at /\ m[i].at <= p.to
        /\ p.kind \in Grouped => m[i].at <= m[i].to /\ m[i].to <= MaxHandle
        /\ p.kind = "chr" => m[i].to = m[i].at + 1 /\ m[i].to <= MaxHandle
  BY <1>1, <1>4, <1>5, <1>7 DEF AnswerOK
<1>9. p.kind \in Grouped => \A i, j \in 1..Len(m) : i < j => m[i].to < m[j].at
  BY <1>1, <1>3, <1>4 DEF AnswerOK
<1> QED BY <1>3, <1>4, <1>6, <1>8, <1>9 DEF m, M

LEMMA PageFound ==
  ASSUME NEW p, Waiting(p), NEW n, n \in 1..Len(Matches(p)),
         NEW found, found = p.found \o SubSeq(Matches(p), 1, n), NEW last, last = LastHandle(p, Matches(p)[n])
  PROVE  /\ found \in Seq(Items) /\ FoundShape(op, p.kind, p.to, found) /\ Behind(p.kind, last + 1, found)
         /\ last \in Nat /\ p.from <= last
<1> DEFINE m == Matches(p)
           k == Len(p.found)
<1>1. /\ dev \in Tables /\ p.from \in Nat /\ p.to \in Nat /\ p.found \in Seq(Items)
      /\ op.start \in Nat /\ op.cur \in Nat
      /\ FoundShape(op, p.kind, p.to, p.found) /\ Behind(p.kind, p.from, p.found)
      /\ p.kind \in Grouped => op.start <= p.from
      /\ p.kind \in {"inc", "chr"} => op.cur <= p.from
  <2>1. dev \in Tables /\ ProcedureOK(op, db, p) /\ op \in Ops
    BY WaitingFacts DEF Waiting, Control
  <2> QED BY <2>1, WaitingFacts, SMTT(30) DEF ProcedureOK, Ops, Handles
<1>2. /\ m \in Seq(Items) /\ Len(m) \in Nat /\ DOMAIN m = 1..Len(m)
      /\ \A i, j \in 1..Len(m) : i < j => m[i].at < m[j].at
      /\ \A i \in 1..Len(m) :
           /\ m[i] \in Items /\ m[i].at \in Nat /\ m[i].to \in Nat
           /\ p.from <= m[i].at /\ m[i].at <= p.to
           /\ p.kind \in Grouped => m[i].at <= m[i].to /\ m[i].to <= MaxHandle
           /\ p.kind = "chr" => m[i].to = m[i].at + 1 /\ m[i].to <= MaxHandle
      /\ p.kind \in Grouped => \A i, j \in 1..Len(m) : i < j => m[i].to < m[j].at
  BY <1>1, MatchesIs
<1>3. found = p.found \o SubSeq(m, 1, n) /\ last = LastHandle(p, m[n]) /\ n \in 1..Len(m)
  OBVIOUS
<1> HIDE DEF m
<1>4. /\ found \in Seq(Items) /\ Len(found) = k + n
      /\ (\A i \in 1..k : found[i] = p.found[i]) /\ \A i \in 1..n : found[k + i] = m[i]
  <2>1. \A i, j \in DOMAIN m : i < j => m[i].at < m[j].at
    BY <1>2
  <2> QED BY <1>1, <1>2, <1>3, <2>1, PageOf, SMTT(30)
<1>5. k \in Nat /\ DOMAIN p.found = 1..k /\ \A i \in 1..k : p.found[i] \in Items
  BY <1>1, SeqFacts
<1>6. \A i \in 1..k : p.found[i].at \in Nat /\ p.found[i].to \in Nat
  BY <1>5 DEF Items, Handles
<1>7. DOMAIN found = 1..k + n
  BY <1>4, SeqFacts
<1> HIDE DEF k
<1>8. ASSUME NEW i \in DOMAIN found
      PROVE  \/ i \in 1..k /\ found[i] = p.found[i]
             \/ \E h \in 1..n : i = k + h /\ found[i] = m[h]
  <2>1. CASE i <= k
    BY <1>4, <1>5, <1>7, <2>1
  <2>2. CASE ~(i <= k)
    <3> DEFINE h == i - k
    <3>1. h \in 1..n /\ i = k + h
      BY <1>2, <1>3, <1>5, <1>7, <2>2
    <3> HIDE DEF h
    <3>2. found[k + h] = m[h]
      BY <1>4, <3>1
    <3> QED BY <3>1, <3>2
  <2> QED BY <2>1, <2>2
<1>9. 1..n \subseteq 1..Len(m) /\ n \in Nat
  BY <1>2, <1>3
<1>10. ASSUME NEW i \in DOMAIN found
       PROVE  /\ found[i].at <= p.to
              /\ p.kind \in Grouped => /\ op.start <= found[i].at /\ found[i].at <= found[i].to
                                       /\ found[i].to <= MaxHandle
              /\ p.kind = "chr" => op.cur <= found[i].at /\ found[i].to = found[i].at + 1 /\ found[i].to <= MaxHandle
  <2>1. CASE i \in 1..k /\ found[i] = p.found[i]
    BY <1>1, <1>5, <2>1 DEF FoundShape
  <2>2. CASE \E h \in 1..n : i = k + h /\ found[i] = m[h]
    <3>1. PICK h \in 1..n : found[i] = m[h]
      BY <2>2
    <3>2. h \in 1..Len(m)
      BY <1>9
    <3> DEFINE f == m[h]
    <3>3. /\ f.at \in Nat /\ f.to \in Nat /\ p.from <= f.at /\ f.at <= p.to
          /\ p.kind \in Grouped => f.at <= f.to /\ f.to <= MaxHandle
          /\ p.kind = "chr" => f.to = f.at + 1 /\ f.to <= MaxHandle
      BY <1>2, <3>2
    <3>4. found[i] = f
      BY <3>1
    <3> HIDE DEF f
    <3>5. p.kind \in Grouped => op.start <= f.at
      BY <1>1, <3>3
    <3>6. p.kind = "chr" => op.cur <= f.at
      BY <1>1, <3>3
    <3> QED BY <3>3, <3>4, <3>5, <3>6
  <2> QED BY <1>8, <2>1, <2>2
<1>11. ASSUME NEW i \in DOMAIN found, NEW j \in DOMAIN found, i < j
       PROVE  found[i].at < found[j].at /\ (p.kind \in Grouped => found[i].to < found[j].at)
  <2>1. CASE i \in 1..k /\ found[i] = p.found[i] /\ j \in 1..k /\ found[j] = p.found[j]
    BY <1>1, <1>5, <1>11, <2>1 DEF FoundShape
  <2>2. CASE i \in 1..k /\ found[i] = p.found[i] /\ \E h \in 1..n : j = k + h /\ found[j] = m[h]
    <3>1. found[i].at < p.from /\ (p.kind \in Grouped => found[i].to < p.from)
      BY <1>1, <1>5, <2>2 DEF Behind
    <3>2. p.from <= found[j].at /\ found[j].at \in Nat
      BY <1>2, <1>9, <2>2
    <3>3. found[i].at \in Nat /\ found[i].to \in Nat
      BY <1>6, <2>2
    <3> DEFINE a == found[i].at
               b == found[i].to
               c == found[j].at
    <3>4. /\ a \in Nat /\ b \in Nat /\ c \in Nat /\ p.from \in Nat /\ p.from <= c
          /\ a < p.from /\ (p.kind \in Grouped => b < p.from)
      BY <1>1, <3>1, <3>2, <3>3
    <3> HIDE DEF a, b, c
    <3>5. a < c /\ (p.kind \in Grouped => b < c)
      BY <3>4
    <3> QED BY <3>5 DEF a, b, c
  <2>3. CASE (\E h \in 1..n : i = k + h /\ found[i] = m[h]) /\ j \in 1..k
    BY <1>5, <1>9, <1>11, <2>3
  <2>4. CASE (\E h \in 1..n : i = k + h /\ found[i] = m[h]) /\ \E h \in 1..n : j = k + h /\ found[j] = m[h]
    <3>1. PICK g \in 1..n : i = k + g /\ found[i] = m[g]
      BY <2>4
    <3>2. PICK h \in 1..n : j = k + h /\ found[j] = m[h]
      BY <2>4
    <3>3. g < h /\ g \in 1..Len(m) /\ h \in 1..Len(m)
      BY <1>5, <1>9, <1>11, <3>1, <3>2
    <3> QED BY <1>2, <3>1, <3>2, <3>3
  <2> QED BY <1>8, <2>1, <2>2, <2>3, <2>4
<1>12. FoundShape(op, p.kind, p.to, found)
  BY <1>10, <1>11 DEF FoundShape
<1>13. /\ last \in Nat /\ m[n].at \in Nat /\ m[n].to \in Nat /\ p.from <= m[n].at /\ m[n].at <= last
       /\ p.kind \in Grouped => last = m[n].to
       /\ p.from <= last
  BY <1>1, <1>2, <1>3, SMTT(30) DEF LastHandle, Grouped
<1>14. ASSUME NEW i \in DOMAIN found PROVE found[i].at < last + 1 /\ (p.kind \in Grouped => found[i].to < last + 1)
  <2>1. CASE i \in 1..k /\ found[i] = p.found[i]
    <3>1. found[i].at < p.from /\ (p.kind \in Grouped => found[i].to < p.from)
      BY <1>1, <1>5, <2>1 DEF Behind
    <3>2. found[i].at \in Nat /\ found[i].to \in Nat
      BY <1>6, <2>1
    <3> DEFINE a == found[i].at
               b == found[i].to
    <3>3. a \in Nat /\ b \in Nat /\ a < p.from /\ (p.kind \in Grouped => b < p.from)
          /\ p.from \in Nat /\ last \in Nat /\ p.from <= last
      BY <1>1, <1>13, <3>1, <3>2
    <3> HIDE DEF a, b
    <3>4. a < last + 1 /\ (p.kind \in Grouped => b < last + 1)
      BY <3>3
    <3> QED BY <3>4 DEF a, b
  <2>2. CASE \E h \in 1..n : i = k + h /\ found[i] = m[h]
    <3>1. PICK h \in 1..n : found[i] = m[h]
      BY <2>2
    <3>2. h \in 1..Len(m) /\ h \in Nat /\ h <= n /\ n \in 1..Len(m)
      BY <1>3, <1>9
    <3> DEFINE a == m[h].at
               b == m[h].to
               c == m[n].at
               e == m[n].to
    <3>3. a \in Nat /\ b \in Nat
      BY <1>2, <3>2
    <3>4. h < n => a < c /\ (p.kind \in Grouped => b < c)
      BY <1>2, <3>2
    <3>5. h = n => a = c /\ b = e
      OBVIOUS
    <3>6. c \in Nat /\ e \in Nat /\ c <= last /\ last \in Nat /\ (p.kind \in Grouped => last = e)
      BY <1>13
    <3>7. h < n \/ h = n
      BY <1>9, <3>2
    <3> HIDE DEF a, b, c, e
    <3>8. a < last + 1 /\ (p.kind \in Grouped => b < last + 1)
      BY <3>3, <3>4, <3>5, <3>6, <3>7
    <3> QED BY <3>1, <3>8 DEF a, b
  <2> QED BY <1>8, <2>1, <2>2
<1>15. Behind(p.kind, last + 1, found)
  BY <1>14 DEF Behind
<1> QED BY <1>4, <1>12, <1>13, <1>15

LEMMA PageShape ==
  ASSUME NEW p, Waiting(p), Page(p)
  PROVE  Shape'
<1>1. /\ Busy /\ op \in Ops /\ DbOK(db) /\ p \in Procedures /\ p.found \in Seq(Items)
      /\ p.from \in Handles /\ p.to \in Handles
  BY WaitingFacts
<1>2. /\ Control /\ Frame(op, db, p.kind, p.to) /\ ProcedureOK(op, db, p)
      /\ FoundShape(op, p.kind, p.to, p.found)
  BY DEF Waiting, ProcedureOK
<1>3. \/ Finished(p.kind, p.found)
      \/ \E n \in 1..Len(Matches(p)) :
           LET found == p.found \o SubSeq(Matches(p), 1, n)
               last  == LastHandle(p, Matches(p)[n])
           IN \/ /\ last < p.to
                 /\ proc' = {[p EXCEPT !.from = last + 1, !.found = found]}
                 /\ UNCHANGED <<op, db, clientVars>>
              \/ Finished(p.kind, found)
  BY DEF Page, Matches
<1>4. CASE Finished(p.kind, p.found)
  BY <1>1, <1>2, <1>4, FinishedShape
<1>5. CASE \E n \in 1..Len(Matches(p)) :
             LET found == p.found \o SubSeq(Matches(p), 1, n)
                 last  == LastHandle(p, Matches(p)[n])
             IN \/ /\ last < p.to
                   /\ proc' = {[p EXCEPT !.from = last + 1, !.found = found]}
                   /\ UNCHANGED <<op, db, clientVars>>
                \/ Finished(p.kind, found)
  <2> DEFINE found(n) == p.found \o SubSeq(Matches(p), 1, n)
             last(n)  == LastHandle(p, Matches(p)[n])
  <2>1. PICK n \in 1..Len(Matches(p)) :
          \/ /\ last(n) < p.to
             /\ proc' = {[p EXCEPT !.from = last(n) + 1, !.found = found(n)]}
             /\ UNCHANGED <<op, db, clientVars>>
          \/ Finished(p.kind, found(n))
    BY <1>5
  <2> DEFINE f == found(n)
             l == last(n)
  <2>2. f \in Seq(Items) /\ FoundShape(op, p.kind, p.to, f) /\ Behind(p.kind, l + 1, f)
        /\ l \in Nat /\ p.from <= l
    BY PageFound
  <2>3. CASE Finished(p.kind, f)
    <3> HIDE DEF f
    <3> QED BY <2>2, <2>3, FinishedShape
  <2>4. CASE /\ l < p.to
             /\ proc' = {[p EXCEPT !.from = l + 1, !.found = f]}
             /\ UNCHANGED <<op, db, clientVars>>
    <3> DEFINE q == [p EXCEPT !.from = l + 1, !.found = f]
    <3> HIDE DEF f, l
    <3>1. l + 1 \in Handles /\ l + 1 <= p.to
      BY <1>1, <2>2, <2>4 DEF Handles
    <3>2. q \in Procedures /\ q.kind = p.kind /\ q.to = p.to /\ q.from = l + 1 /\ q.found = f
      BY <1>1, <2>2, <3>1 DEF Procedures
    <3>3. proc' = {q} /\ UNCHANGED <<op, db, clientVars>>
      BY <2>4
    <3> HIDE DEF q
    <3>n. op.start \in Nat /\ op.cur \in Nat /\ p.from \in Nat
      BY <1>1 DEF Ops, Handles
    <3>m. /\ p.kind \in Grouped => op.start <= p.from
          /\ p.kind \in {"inc", "chr"} => op.cur <= p.from
      BY <1>2 DEF ProcedureOK
    <3>4. p.kind \in Grouped => op.start <= q.from
      BY <2>2, <3>2, <3>m, <3>n
    <3>5. p.kind \in {"inc", "chr"} => op.cur <= q.from
      BY <2>2, <3>2, <3>m, <3>n
    <3>6. p.kind = "dsc" => \A t \in db : t.start = op.cur => t.start + Len(t.attrs) <= q.from
      <4> SUFFICES ASSUME p.kind = "dsc", NEW t \in db, t.start = op.cur PROVE t.start + Len(t.attrs) <= q.from
        OBVIOUS
      <4>1. t.start \in Nat /\ Len(t.attrs) \in Nat /\ t.start + Len(t.attrs) <= p.from
        BY <1>1, <1>2, DbIs, FitFacts DEF ProcedureOK
      <4> DEFINE m == Len(t.attrs)
      <4>2. t.start \in Nat /\ m \in Nat /\ t.start + m <= p.from /\ p.from \in Nat /\ q.from = l + 1 /\ p.from <= l
        BY <1>1, <2>2, <3>2, <4>1 DEF Handles
      <4> HIDE DEF m
      <4>3. t.start + m <= q.from
        BY <2>2, <4>2
      <4> QED BY <4>3 DEF m
    <3>7. ProcedureOK(op, db, q)
      BY <2>2, <3>1, <3>2, <3>4, <3>5, <3>6 DEF ProcedureOK
    <3>8. Control'
      BY <1>1, <1>2, <3>3 DEF Control, Busy, deviceVars, clientVars
    <3>9. proc' = {q} /\ Frame(op', db', q.kind, q.to) /\ ProcedureOK(op', db', q)
      BY <1>2, <3>2, <3>3, <3>7
    <3>10. (\E x : proc = {x} /\ Frame(op, db, x.kind, x.to) /\ ProcedureOK(op, db, x))'
      BY <3>9
    <3> QED BY <3>8, <3>10 DEF Shape
  <2> QED BY <2>1, <2>3, <2>4
<1> QED BY <1>3, <1>4, <1>5

\* The procedure that a discovery waits for.
LEMMA ShapeWaiting ==
  ASSUME Shape, UNCHANGED <<deviceVars, link>>, NEW p \in proc
  PROVE  Waiting(p)
<1>1. PICK x : proc = {x} /\ Frame(op, db, x.kind, x.to) /\ ProcedureOK(op, db, x)
  BY DEF Shape
<1>2. x = p
  BY <1>1
<1> QED BY <1>1, <1>2 DEF Waiting, Shape

LEMMA AnsweredShape == ASSUME Shape, Answered PROVE Shape'
<1>1. PICK p \in proc :
        read_by_grp_type_cb(p) \/ discover_included_cb(p) \/ read_chrcs_cb(p) \/ find_info_cb(p)
  BY DEF Answered
<1>2. Page(p)
  BY <1>1 DEF read_by_grp_type_cb, discover_included_cb, read_chrcs_cb, find_info_cb
<1>3. Waiting(p)
  BY ShapeWaiting DEF Answered
<1> QED BY <1>2, <1>3, PageShape

LEMMA RefusedShape == ASSUME Shape, Refused PROVE Shape'
<1> DEFINE o1 == [op EXCEPT !.missed = TRUE]
<1>1. PICK p \in proc :
        \/ p.kind = "primary" /\ Ask(o1, db, "secondary", op.start, op.end)
        \/ p.kind # "primary" /\ Complete(op, db, "failed")
  BY DEF Refused
<1>2. Waiting(p)
  BY ShapeWaiting DEF Refused
<1>3. Busy /\ Continued(op) /\ DbOK(db) /\ op \in Ops /\ Frame(op, db, p.kind, p.to)
  BY <1>2, WaitingFacts DEF Waiting
<1>4. CASE p.kind = "primary" /\ Ask(o1, db, "secondary", op.start, op.end)
  <2>1. /\ o1 \in Ops /\ o1.start = op.start /\ o1.end = op.end /\ o1.init = op.init /\ o1.pending = op.pending
        /\ o1.chrcs = op.chrcs /\ o1.tmp = op.tmp
    BY <1>3 DEF Ops
  <2> HIDE DEF o1
  <2>2. Continued(o1)
    BY <2>1 DEF Continued
  <2>3. /\ op.start \in Handles /\ op.end \in Handles /\ op.start <= op.end /\ op.pending = <<>>
        /\ op.chrcs = <<>> /\ op.tmp = <<>>
        /\ \A t \in db : t.start \in op.start..op.end => t.start \in El(op.pending)
    BY <1>3, <1>4 DEF Frame, Grouped, Ops
  <2>4. WorkList(o1, "secondary") = <<>>
    BY <2>1, <2>3 DEF WorkList
  <2>5. Frame(o1, db, "secondary", op.end)
    BY <1>3, <2>1, <2>3, <2>4 DEF Frame, Grouped, Listed
  <2>6. Asking(o1, db, "secondary", op.start, op.end)
    BY <2>1, <2>3, <2>5 DEF Asking, Grouped, Handles
  <2> QED BY <1>3, <1>4, <2>2, <2>6, AskShape
<1>5. CASE Complete(op, db, "failed")
  BY <1>3, <1>5, CompleteShape
<1> QED BY <1>1, <1>4, <1>5

LEMMA MtuShape == ASSUME Shape, exchange_mtu_cb PROVE Shape'
<1>1. PICK p \in proc : p.kind = "mtu"
  BY DEF exchange_mtu_cb
<1>2. Ask(op, db, "primary", 1, MaxHandle) /\ UNCHANGED <<deviceVars, link>>
  BY DEF exchange_mtu_cb
<1>3. Waiting(p)
  BY <1>2, ShapeWaiting
<1>4. Busy /\ Continued(op) /\ DbOK(db) /\ op \in Ops /\ Frame(op, db, p.kind, p.to)
  BY <1>3, WaitingFacts DEF Waiting
<1>5. /\ op.start = 1 /\ op.end = MaxHandle /\ db = {} /\ op.pending = <<>> /\ op.chrcs = <<>> /\ op.tmp = <<>>
  BY <1>1, <1>4 DEF Frame, Grouped
<1>6. WorkList(op, "primary") = <<>> /\ 1 \in Handles /\ MaxHandle \in Handles /\ 1 <= MaxHandle
  BY DEF WorkList, Handles
<1>7. Frame(op, db, "primary", MaxHandle)
  BY <1>4, <1>5, <1>6 DEF Frame, Grouped, Listed
<1>8. Asking(op, db, "primary", 1, MaxHandle)
  BY <1>5, <1>6, <1>7 DEF Asking, Grouped
<1> QED BY <1>2, <1>4, <1>8, AskShape

\* Where nothing but the client's flags changes.
LEMMA SameShape ==
  ASSUME Shape, Control', UNCHANGED <<op, db, proc>>
  PROVE  Shape'
<1>1. CASE proc = {}
  BY <1>1 DEF Shape
<1>2. CASE proc # {}
  <2>1. PICK x : proc = {x} /\ Frame(op, db, x.kind, x.to) /\ ProcedureOK(op, db, x)
    BY <1>2 DEF Shape
  <2>2. proc' = {x} /\ Frame(op', db', x.kind, x.to) /\ ProcedureOK(op', db', x)
    BY <2>1
  <2>3. (\E y : proc = {y} /\ Frame(op, db, y.kind, y.to) /\ ProcedureOK(op, db, y))'
    BY <2>2
  <2> QED BY <2>3 DEF Shape
<1> QED BY <1>1, <1>2

LEMMA CccShape == ASSUME Shape, CccWritten PROVE Shape'
<1>1. PICK ok \in BOOLEAN :
        /\ service_changed_register_cb(ok) \/ service_changed_reregister_cb
        /\ enabled' = (enabled \/ ok) /\ failed' = (failed \/ ~ok)
        /\ listening' = (IF ok THEN listening ELSE {})
  BY DEF CccWritten
<1>2. /\ link = "up" /\ ccc' = "no"
      /\ UNCHANGED <<dev, changes, indications, link, db, op, proc, inInit, inSvcChngd, svcChngdQueue>>
  BY DEF CccWritten
<1>3. Control
  BY DEF Shape
<1>4. told' \in {told, "ok", "failed"} /\ ready' \in {ready, ok} /\ ccc # "no"
  BY <1>1 DEF service_changed_register_cb, service_changed_reregister_cb
<1>5. Control'
  BY <1>1, <1>2, <1>3, <1>4 DEF Control
<1> QED BY <1>2, <1>5, SameShape

LEMMA NotifyShape == ASSUME Shape, notify_cb PROVE Shape'
<1> DEFINE r == Head(indications)
<1>1. /\ link = "up" /\ indications # <<>> /\ indications' = Tail(indications)
      /\ IF listening # {} THEN service_changed_cb(r)
         ELSE UNCHANGED <<db, op, proc, listening, inSvcChngd, svcChngdQueue>>
      /\ UNCHANGED <<dev, changes, enabled, link, inInit, ready, ccc, told, failed>>
  BY DEF notify_cb
<1>2. Control
  BY DEF Shape
<1>3. indications \in Seq(Ranges) /\ svcChngdQueue \in Seq(Ranges) /\ changes # 0 /\ enabled /\ ~inInit /\ ccc # "init"
  BY <1>1, <1>2 DEF Control
<1>4. r \in Ranges /\ Tail(indications) \in Seq(Ranges)
  BY <1>1, <1>3, HeadTailProperties
<1> HIDE DEF r
<1>5. CASE listening = {}
  <2>1. Control'
    BY <1>1, <1>2, <1>3, <1>4, <1>5 DEF Control
  <2> QED BY <1>1, <1>5, <2>1, SameShape
<1>6. CASE listening # {} /\ inSvcChngd
  <2>1. svcChngdQueue' = Append(svcChngdQueue, r) /\ UNCHANGED <<db, op, proc, listening, inSvcChngd>>
    BY <1>1, <1>6 DEF service_changed_cb
  <2>2. Append(svcChngdQueue, r) \in Seq(Ranges)
    BY <1>3, <1>4, AppendProperties
  <2>3. Control'
    BY <1>1, <1>2, <1>3, <1>4, <1>6, <2>1, <2>2 DEF Control
  <2> QED BY <2>1, <2>3, SameShape
<1>7. CASE listening # {} /\ ~inSvcChngd
  <2>1. process_service_changed(db, r) /\ svcChngdQueue' = svcChngdQueue
    BY <1>1, <1>7 DEF service_changed_cb
  <2>2. DbOK(db) /\ failed \in BOOLEAN
    BY <1>2 DEF Control
  <2> QED BY <1>1, <1>2, <1>3, <1>4, <2>1, <2>2, ProcessShape
<1> QED BY <1>5, <1>6, <1>7

LEMMA Greatest ==
  ASSUME NEW N, N \in Nat, NEW T, T \subseteq 0..N, T # {}
  PROVE  \E n \in T : \A m \in T : m <= n
<1> DEFINE U == {N - n : n \in T}
<1>1. U \subseteq Nat /\ U # {}
  OBVIOUS
<1>2. PICK u \in U : \A v \in U : u <= v
  <2> HIDE DEF U
  <2> QED BY <1>1, Least
<1>3. PICK n \in T : u = N - n
  BY <1>2
<1>4. ASSUME NEW m \in T PROVE m <= n
  <2>1. N - m \in U
    OBVIOUS
  <2>2. u <= N - m
    BY <1>2, <2>1
  <2>3. m \in Nat /\ n \in Nat
    OBVIOUS
  <2> QED BY <1>3, <2>2, <2>3
<1> QED BY <1>4

\* The hull of a change is about all that changed, and ends with it.
LEMMA HullIs ==
  ASSUME NEW T, T \in Tables, NEW U, U \in Tables, T # U
  PROVE  /\ Hull(T, U) \in Ranges
         /\ \A s \in (T \ U) \cup (U \ T) : Hull(T, U).start <= s.start /\ s.end <= Hull(T, U).end
         /\ \E s \in (T \ U) \cup (U \ T) : s.start = Hull(T, U).start
         /\ \E s \in (T \ U) \cup (U \ T) : s.end = Hull(T, U).end
<1> DEFINE diff == (T \ U) \cup (U \ T)
           A == {s.start : s \in diff}
           B == {s.end : s \in diff}
           a == CHOOSE h \in Handles : (\E s \in diff : s.start = h) /\ \A s \in diff : h <= s.start
           b == CHOOSE h \in Handles : (\E s \in diff : s.end = h) /\ \A s \in diff : h >= s.end
<1>1. diff # {} /\ \A s \in diff : s.start \in Handles /\ s.end \in Handles /\ s.start <= s.end
  BY ServiceFacts
<1>2. A \subseteq Nat /\ A # {} /\ B \subseteq 0..MaxHandle /\ B # {}
  <2> HIDE DEF diff
  <2> QED BY <1>1 DEF Handles
<1>3. \E h \in Handles : (\E s \in diff : s.start = h) /\ \A s \in diff : h <= s.start
  <2>1. PICK n \in A : \A m \in A : n <= m
    <3> HIDE DEF A
    <3> QED BY <1>2, Least
  <2> HIDE DEF diff
  <2> QED BY <1>1, <2>1
<1>4. \E h \in Handles : (\E s \in diff : s.end = h) /\ \A s \in diff : h >= s.end
  <2>1. PICK n \in B : \A m \in B : m <= n
    <3> HIDE DEF B
    <3> QED BY <1>2, Greatest
  <2> HIDE DEF diff
  <2>2. n \in Handles /\ \E s \in diff : s.end = n
    BY <1>1, <2>1
  <2>3. \A s \in diff : s.end <= n /\ s.end \in Int
    BY <1>1, <2>1 DEF Handles
  <2> QED BY <2>2, <2>3 DEF Handles
<1>5. Hull(T, U) = [start |-> a, end |-> b]
  BY DEF Hull
<1>6. a \in Handles /\ (\E s \in diff : s.start = a) /\ \A s \in diff : a <= s.start
  <2> HIDE DEF diff
  <2> QED BY <1>3
<1>7. b \in Handles /\ (\E s \in diff : s.end = b) /\ \A s \in diff : b >= s.end
  <2> HIDE DEF diff
  <2> QED BY <1>4
<1> HIDE DEF a, b, diff
<1>8. a <= b
  BY <1>1, <1>6, <1>7 DEF Handles
<1>9. \A s \in diff : s.end <= b
  BY <1>1, <1>7 DEF Handles
<1>10. Hull(T, U).start = a /\ Hull(T, U).end = b /\ Hull(T, U) \in Ranges
  BY <1>5, <1>6, <1>7, <1>8 DEF Ranges, HandleRange
<1> QED BY <1>6, <1>7, <1>9, <1>10 DEF diff

\* A change of the device, and the range it is announced with.
Changed(table, r) ==
  /\ link = "up" /\ enabled /\ changes < MaxChanges /\ changes' = changes + 1
  /\ table \in Tables /\ table # dev /\ dev' = table /\ r \in Ranges
  /\ \A s \in dev \cup table : HasServiceChanged(s) => s \in dev \cap table
  /\ \A s \in (dev \ table) \cup (table \ dev) : r.start <= s.start /\ s.end <= r.end
  /\ Wide \/ Beside(dev, r)
  /\ indications' = Append(indications, r)
  /\ UNCHANGED <<enabled, link, db, op, proc, clientVars>>

LEMMA ChangeIs ==
  ASSUME Shape, DeviceChanges
  PROVE  \E table, r : Changed(table, r) /\ (r = Hull(dev, table) \/ r = [start |-> 1, end |-> MaxHandle])
<1>1. PICK table \in Tables \ {dev} :
        /\ \A s \in dev \cup table : HasServiceChanged(s) => s \in dev \cap table
        /\ dev' = table
        /\ \E r \in {Hull(dev, table), [start |-> 1, end |-> MaxHandle]} :
             /\ Wide \/ \A s \in dev : HasServiceChanged(s) => ~Overlap(s, r)
             /\ indications' = Append(indications, r)
  BY DEF DeviceChanges
<1>2. PICK r \in {Hull(dev, table), [start |-> 1, end |-> MaxHandle]} :
             /\ Wide \/ Beside(dev, r)
             /\ indications' = Append(indications, r)
  BY <1>1 DEF Beside
<1>3. dev \in Tables
  BY DEF Shape, Control
<1>4. r \in Ranges /\ \A s \in (dev \ table) \cup (table \ dev) : r.start <= s.start /\ s.end <= r.end
  <2>1. CASE r = Hull(dev, table)
    BY <1>1, <1>3, <2>1, HullIs
  <2>2. CASE r = [start |-> 1, end |-> MaxHandle]
    <3>1. 1 \in Handles /\ MaxHandle \in Handles /\ 1 <= MaxHandle
      BY DEF Handles
    <3>2. r \in Ranges
      BY <2>2, <3>1 DEF Ranges, HandleRange
    <3>3. \A s \in dev \cup table : 1 <= s.start /\ s.end <= MaxHandle
      BY <1>1, <1>3, ServiceFacts DEF Handles
    <3> QED BY <2>2, <3>2, <3>3
  <2> QED BY <1>2, <2>1, <2>2
<1>5. Changed(table, r)
  BY <1>1, <1>2, <1>4 DEF Changed, DeviceChanges
<1> QED BY <1>2, <1>5

LEMMA ChangesShape == ASSUME Shape, DeviceChanges PROVE Shape'
<1>t. PICK table : \E r : Changed(table, r)
  BY ChangeIs
<1>1. PICK r : Changed(table, r)
  BY <1>t
<1>2. Control
  BY DEF Shape
<1>3. indications' \in Seq(Ranges) /\ indications' # <<>>
  BY <1>1, <1>2, AppendProperties DEF Changed, Control
<1>4. changes' \in 0..MaxChanges /\ changes' # 0
  BY <1>1, <1>2 DEF Changed, Control
<1>5. Control'
  BY <1>1, <1>2, <1>3, <1>4 DEF Changed, Control, clientVars
<1> QED BY <1>1, <1>5, SameShape DEF Changed

LEMMA DisconnectShape == ASSUME Shape, att_disconnect_cb PROVE Shape'
<1>1. Control
  BY DEF Shape
<1>2. op.start \in Nat /\ op.end \in Nat /\ DbOK(db)
  BY <1>1 DEF Control, Ops, Handles
<1>3. DbOK(gatt_db_clear_range(db, op.start, op.end))
  BY <1>2, ClearedIs
<1>4. DbOK(db')
  BY <1>2, <1>3 DEF att_disconnect_cb
<1>5. Control'
  BY <1>1, <1>4 DEF att_disconnect_cb, Control, deviceVars
<1> QED BY <1>5 DEF att_disconnect_cb, Shape

LEMMA InitShape == Init => Shape
<1> SUFFICES ASSUME Init PROVE Shape
  OBVIOUS
<1> DEFINE p == [kind |-> "mtu", from |-> 1, to |-> MaxHandle, found |-> <<>>]
<1>1. /\ op = NewOp(1, MaxHandle, TRUE) /\ proc = {p} /\ db = {}
      /\ indications = <<>> /\ svcChngdQueue = <<>>
  BY DEF Init, Procedure
<1>2. /\ op \in Ops /\ op.start = 1 /\ op.end = MaxHandle /\ op.init = TRUE
      /\ op.pending = <<>> /\ op.tmp = <<>> /\ op.chrcs = <<>> /\ op.cur = 0
      /\ 1 \in Handles /\ MaxHandle \in Handles /\ 1 <= MaxHandle
  <2>1. 1 \in Handles /\ MaxHandle \in Handles /\ 1 <= MaxHandle
    BY DEF Handles
  <2>2. <<>> \in Seq(Handles) /\ <<>> \in Seq(Chrcs) /\ 0 \in 0..MaxHandle
    OBVIOUS
  <2> QED BY <1>1, <2>1, <2>2 DEF NewOp, Ops
<1>3. ProcedureOK(op, db, p)
  <2>1. "mtu" \notin Grouped
    BY DEF Grouped
  <2> HIDE DEF p
  <2>2. p = [kind |-> "mtu", from |-> 1, to |-> MaxHandle, found |-> <<>>]
    BY DEF p
  <2> QED BY <1>2, <2>1, <2>2, AskedOK
<1>4. DbOK(db)
  BY <1>1 DEF DbOK
<1>5. Frame(op, db, p.kind, p.to)
  <2>1. p.kind = "mtu" /\ p.to = MaxHandle
    OBVIOUS
  <2>2. WorkList(op, "mtu") = <<>>
    BY DEF WorkList
  <2>3. Frame(op, db, "mtu", MaxHandle)
    <3>1. Listed(op, db, <<>>)
      BY DEF Listed
    <3>2. "mtu" \notin {"primary"} /\ op.start <= op.end /\ op.end = MaxHandle
      BY <1>2
    <3>3. \A t \in db : FALSE
      BY <1>1
    <3> QED BY <1>1, <1>2, <1>4, <2>2, <3>1, <3>2, <3>3 DEF Frame, Grouped
  <2> QED BY <2>1, <2>3
<1>6. Control
  <2>1. <<>> \in Seq(Ranges)
    OBVIOUS
  <2> HIDE DEF p
  <2>2. /\ dev \in Tables /\ changes = 0 /\ enabled = FALSE /\ link = "up" /\ inInit = TRUE /\ ready = FALSE
        /\ inSvcChngd = FALSE /\ listening = {} /\ ccc = "no" /\ told = "no" /\ failed = FALSE
    BY DEF Init
  <2>3. op.start <= op.end /\ 0 \in 0..MaxChanges
    BY <1>2
  <2> QED BY <1>1, <1>2, <1>4, <2>1, <2>2, <2>3 DEF Control
<1> QED BY <1>1, <1>3, <1>5, <1>6 DEF Shape

LEMMA NextShape == Shape /\ [Next]_vars => Shape'
<1> SUFFICES ASSUME Shape, [Next]_vars PROVE Shape'
  OBVIOUS
<1>1. CASE DeviceAnswers
  BY <1>1, MtuShape, AnsweredShape, RefusedShape, CccShape DEF DeviceAnswers
<1>2. CASE notify_cb
  BY <1>2, NotifyShape
<1>3. CASE DeviceChanges
  BY <1>3, ChangesShape
<1>4. CASE att_disconnect_cb
  BY <1>4, DisconnectShape
<1>5. CASE UNCHANGED vars
  <2>1. UNCHANGED <<op, db, proc>> /\ Control
    BY <1>5 DEF Shape, vars
  <2>2. Control'
    BY <1>5, <2>1 DEF Control, vars, deviceVars, clientVars
  <2> QED BY <2>1, <2>2, SameShape
<1> QED BY <1>1, <1>2, <1>3, <1>4, <1>5 DEF Next

LEMMA ShapeAlways == Spec => []Shape
BY InitShape, NextShape, PTL DEF Spec

\* Discovery.TypeOK: the queues, the database, the operation and the requests are what the
\* code takes them for; a service never has more attributes than handles (gatt-db.c 596-640),
\* one request is under way, and none is for an empty range.
THEOREM TypeCorrect == Spec => []TypeOK
<1>1. Shape => TypeOK
  <2> SUFFICES ASSUME Shape PROVE TypeOK
    OBVIOUS
  <2>1. Control
    BY DEF Shape
  <2>2. indications \in Seq(HandleRange) /\ svcChngdQueue \in Seq(HandleRange)
    <3>1. Ranges \subseteq HandleRange
      BY DEF Ranges
    <3> QED BY <2>1, <3>1, SeqMonotonic DEF Control
  <2>3. ASSUME NEW s \in db
        PROVE  /\ s.start \in Handles /\ s.end \in s.start..MaxHandle
               /\ s.primary \in BOOLEAN /\ s.active \in BOOLEAN
               /\ s.attrs \in Seq(Kinds) /\ Len(s.attrs) \in 1..(s.end - s.start + 1)
    <3>1. Fits(s)
      BY <2>1, DbIs DEF Control
    <3>2. Len(s.attrs) \in 1..(s.end - s.start + 1)
      BY <3>1 DEF Fits
    <3> QED BY <3>1, <3>2, FitFacts
  <2>4. op.start \in Handles /\ op.end \in Handles /\ op.cur \in 0..MaxHandle
        /\ op.pending \in Seq(Handles) /\ op.tmp \in Seq(Handles)
    BY <2>1 DEF Control, Ops
  <2>5. (\A p \in proc : p.from \in Handles /\ p.to \in p.from..MaxHandle) /\ Cardinality(proc) <= 1
    <3>1. CASE proc = {}
      BY <3>1, FS_EmptySet
    <3>2. CASE proc # {}
      <4>1. PICK p : proc = {p} /\ ProcedureOK(op, db, p)
        BY <3>2 DEF Shape
      <4>2. p.from \in Handles /\ p.to \in Handles /\ p.from <= p.to
        BY <4>1 DEF ProcedureOK, Procedures
      <4>3. p.to \in p.from..MaxHandle
        BY <4>2 DEF Handles
      <4>4. Cardinality(proc) = 1
        BY <4>1, FS_Singleton
      <4> QED BY <4>1, <4>2, <4>3, <4>4
    <3> QED BY <3>1, <3>2
  <2> QED BY <2>1, <2>2, <2>3, <2>4, <2>5 DEF TypeOK, Control
<1> QED BY <1>1, ShapeAlways, PTL

---------------------------------------------------------------------------
(* Service Changed stays where it is, and the client listens to it.        *)

Heard == Busy /\ Listening /\ ~Wide

HeardPlaces(o, d) == DbPlaced(dev, d) /\ ChrcsPlaced(dev, o)

\* No handle of a range beside Service Changed is one of its own.
LEMMA BesideArea ==
  ASSUME NEW T, T \in Tables, NEW r, r.start \in Nat, r.end \in Nat, Beside(T, r), NEW h,
         h \in ServiceChangedArea(T)
  PROVE  h \notin r.start..r.end
<1>1. PICK s \in T : HasServiceChanged(s) /\ s.start <= h /\ h <= s.end /\ h \in Handles
  BY DEF ServiceChangedArea
<1>2. s.start \in Nat /\ s.end \in Nat /\ h \in Nat
  BY <1>1, ServiceFacts DEF Handles
<1>3. ~(s.start <= r.end /\ r.start <= s.end)
  BY <1>1 DEF Beside, Overlap
<1> QED BY <1>1, <1>2, <1>3

LEMMA ServiceChangedPlaced ==
  ASSUME NEW T, NEW d, DbOK(d), DbPlaced(T, d), NEW lo, lo \in Nat, NEW hi, hi \in Nat
  PROVE  ServiceChangedIn(d, lo, hi) \subseteq ServiceChangedArea(T)
<1>1. ASSUME NEW h \in ServiceChangedIn(d, lo, hi) PROVE h \in ServiceChangedArea(T)
  <2>1. PICK s \in d : h - s.start + 1 \in DOMAIN s.attrs /\ s.attrs[h - s.start + 1] = "scv"
    BY DEF ServiceChangedIn
  <2>2. s.start + (h - s.start + 1) - 1 \in ServiceChangedArea(T)
    BY <2>1 DEF DbPlaced
  <2>3. h \in Int /\ s.start \in Int
    BY <2>1, DbIs, FitFacts DEF ServiceChangedIn
  <2>4. s.start + (h - s.start + 1) - 1 = h
    BY <2>3
  <2> QED BY <2>2, <2>4
<1> QED BY <1>1

LEMMA AskHeard ==
  ASSUME Heard, NEW o, Continued(o), NEW d, HeardPlaces(o, d), NEW kind, NEW lo, NEW hi, Ask(o, d, kind, lo, hi)
  PROVE  Listening'
<1> DEFINE p == [kind |-> kind, from |-> lo, to |-> hi, found |-> <<>>]
<1>1. op' = o /\ db' = d /\ proc' = {p} /\ UNCHANGED <<deviceVars, clientVars, link>>
  BY DEF Ask, Procedure, Heard, Busy
<1>2. FoundPlaced(dev, p.kind, p.found)
  BY DEF FoundPlaced
<1> HIDE DEF p
<1>3. Listening /\ proc # {} /\ o.init = op.init /\ o.start = op.start /\ o.end = op.end
  BY DEF Heard, Busy, Continued
<1>4. UNCHANGED <<dev, enabled, listening, ccc, svcChngdQueue, indications>>
  BY <1>1 DEF deviceVars, clientVars
<1>5. Due' = Due
  BY <1>4 DEF Due
<1>6. ~o.init => Beside(dev, o)
  BY <1>3 DEF Listening, Beside, Overlap
<1>7. \A x \in proc' : ChrcsPlaced(dev', op') /\ FoundPlaced(dev', x.kind, x.found)
  BY <1>1, <1>2, <1>4 DEF HeardPlaces
<1>8. DbPlaced(dev', db') /\ (proc' # {} /\ ~op'.init => Beside(dev', op'))
  BY <1>1, <1>4, <1>6 DEF HeardPlaces
<1> QED BY <1>3, <1>4, <1>5, <1>7, <1>8 DEF Listening

LEMMA ProcessHeard ==
  ASSUME Control, Listening, ~Wide, UNCHANGED <<dev, enabled, ccc>>, ccc # "init",
         NEW d, DbOK(d), DbPlaced(dev, d), NEW r, r \in Ranges, Beside(dev, r), process_service_changed(d, r),
         \A q \in El(Due') : q \in El(Due)
  PROVE  Listening'
<1> DEFINE o == NewOp(r.start, r.end, FALSE)
           e == gatt_db_clear_range(d, r.start, r.end)
           p == [kind |-> "primary", from |-> r.start, to |-> r.end, found |-> <<>>]
<1>1. o.start = r.start /\ o.end = r.end /\ o.chrcs = <<>> /\ r.start \in Nat /\ r.end \in Nat
  <2>1. /\ o \in Ops /\ o.start = r.start /\ o.end = r.end /\ o.start <= o.end /\ o.init = FALSE
        /\ o.pending = <<>> /\ o.tmp = <<>> /\ o.chrcs = <<>>
    BY NewOpIs
  <2>2. r.start \in Handles /\ r.end \in Handles
    BY DEF Ranges, HandleRange
  <2> HIDE DEF o
  <2> QED BY <2>1, <2>2 DEF Handles
<1>2. listening' = listening \ (r.start..r.end) /\ db' = e /\ op' = o /\ proc' = {p}
  BY DEF process_service_changed, Procedure
<1>3. FoundPlaced(dev, p.kind, p.found) /\ ChrcsPlaced(dev, o)
  <2>1. p.found = <<>>
    OBVIOUS
  <2> HIDE DEF p, o
  <2> QED BY <1>1, <2>1 DEF FoundPlaced, ChrcsPlaced
<1>4. e \subseteq d
  BY DEF gatt_db_clear_range
<1> HIDE DEF p, o, e
<1>5. dev \in Tables
  BY DEF Control
<1>6. \A h \in ServiceChangedArea(dev) : h \notin r.start..r.end
  BY <1>1, <1>5, BesideArea
<1>7. listening' = listening
  BY <1>2, <1>6 DEF Listening
<1>8. Beside(dev, o)
  BY <1>1 DEF Beside, Overlap
<1>9. DbPlaced(dev, e)
  BY <1>4 DEF DbPlaced
<1>10. /\ \A x \in proc' : ChrcsPlaced(dev', op') /\ FoundPlaced(dev', x.kind, x.found)
       /\ DbPlaced(dev', db') /\ Beside(dev', op')
  BY <1>2, <1>3, <1>8, <1>9
<1>11. \A q \in El(Due') : Beside(dev', q)
  BY DEF Listening
<1>12. listening' \subseteq ServiceChangedArea(dev')
  BY <1>7 DEF Listening
<1> QED BY <1>7, <1>10, <1>11, <1>12 DEF Listening

LEMMA CompleteHeard ==
  ASSUME Heard, NEW o, Continued(o), NEW d, DbOK(d), DbPlaced(dev, d), NEW outcome, Complete(o, d, outcome)
  PROVE  Listening'
<1>1. /\ o \in Ops /\ o.start = op.start /\ o.end = op.end /\ o.init = op.init
      /\ o.start \in Nat /\ o.end \in Nat
  BY DEF Continued, Ops, Handles
<1>2. /\ Control /\ Listening /\ ~Wide /\ proc # {} /\ dev \in Tables /\ op.init = inInit /\ inSvcChngd = ~inInit
      /\ UNCHANGED <<deviceVars, link>> /\ UNCHANGED <<dev, enabled, indications>>
  BY DEF Heard, Busy, Control, deviceVars
<1> DEFINE e == Remaining(o, d, outcome)
<1>3. DbOK(e)
  BY <1>1, RemainingOK
<1>4. DbPlaced(dev, e)
  BY DEF Remaining, gatt_db_clear_range, DbPlaced
<1> HIDE DEF e
<1>5. CASE o.init
  <2>1. init_complete(o, d, outcome)
    BY <1>5 DEF Complete
  <2> DEFINE sc == ServiceChangedIn(d, 1, MaxHandle)
  <2>2. sc \subseteq ServiceChangedArea(dev)
    BY ServiceChangedPlaced
  <2>3. /\ db' = e /\ proc' = {} /\ svcChngdQueue' = svcChngdQueue
        /\ \/ listening' = listening /\ ccc' = ccc
           \/ sc # {} /\ ccc' = "init" /\ listening' = sc
    BY <2>1 DEF init_complete, e
  <2> HIDE DEF sc
  <2>4. ~enabled /\ ccc = "no"
    BY <1>1, <1>2, <1>5 DEF Control
  <2>5. Due' = Due
    BY <1>2, <2>3 DEF Due
  <2> QED BY <1>2, <1>4, <2>2, <2>3, <2>4, <2>5 DEF Listening
<1>6. CASE ~o.init
  <2>1. service_changed_complete(o, d, outcome)
    BY <1>6 DEF Complete
  <2>2. ccc # "init" /\ enabled
    BY <1>1, <1>2, <1>6 DEF Control
  <2>3. CASE svcChngdQueue # <<>>
    <3> DEFINE r == Head(svcChngdQueue)
    <3>1. process_service_changed(e, r) /\ svcChngdQueue' = Tail(svcChngdQueue) /\ ccc' = ccc
      BY <2>1, <2>3 DEF service_changed_complete, e
    <3>2. svcChngdQueue \in Seq(Ranges) /\ indications \in Seq(Ranges)
      BY <1>2 DEF Control
    <3>3. r \in Ranges /\ Tail(svcChngdQueue) \in Seq(Ranges) /\ r \in El(svcChngdQueue)
          /\ El(Tail(svcChngdQueue)) \subseteq El(svcChngdQueue)
      <4> DEFINE q == svcChngdQueue
      <4>1. q \in Seq(Ranges) /\ q # <<>>
        BY <2>3, <3>2
      <4> HIDE DEF q
      <4>2. /\ Head(q) = q[1] /\ Head(q) \in Ranges /\ Len(q) \in Nat /\ 1 <= Len(q)
            /\ Tail(q) \in Seq(Ranges) /\ Len(Tail(q)) = Len(q) - 1
            /\ \A i \in 1..Len(Tail(q)) : Tail(q)[i] = q[i + 1]
        BY <4>1, HeadTailIs, HeadTailProperties
      <4>3. DOMAIN q = 1..Len(q) /\ DOMAIN Tail(q) = 1..Len(q) - 1
        BY <4>1, <4>2, SeqFacts
      <4>4. \A i \in 1..Len(q) - 1 : i + 1 \in 1..Len(q)
        BY <4>2
      <4>5. Head(q) \in El(q) /\ El(Tail(q)) \subseteq El(q)
        BY <4>2, <4>3, <4>4 DEF El
      <4> QED BY <4>2, <4>5 DEF q
    <3> HIDE DEF r
    <3>4. El(Due) = El(svcChngdQueue) \cup El(indications)
      BY <3>2, ConcatIs DEF Due
    <3>5. El(Due') = El(Tail(svcChngdQueue)) \cup El(indications)
      <4>1. Due' = Tail(svcChngdQueue) \o indications
        BY <1>2, <3>1 DEF Due
      <4> DEFINE t == Tail(svcChngdQueue)
      <4>2. t \in Seq(Ranges) /\ indications \in Seq(Ranges)
        BY <3>2, <3>3
      <4> HIDE DEF t
      <4>3. El(t \o indications) = El(t) \cup El(indications)
        BY <4>2, ConcatIs
      <4> QED BY <4>1, <4>3 DEF t
    <3>6. Beside(dev, r)
      BY <1>2, <3>3, <3>4 DEF Listening
    <3>7. \A q \in El(Due') : q \in El(Due)
      BY <3>3, <3>4, <3>5
    <3> QED BY <1>2, <1>3, <1>4, <2>2, <3>1, <3>3, <3>6, <3>7, ProcessHeard
  <2>4. CASE svcChngdQueue = <<>>
    <3> DEFINE sc == ServiceChangedIn(db', o.start, o.end)
    <3>1. /\ db' = e /\ proc' = {} /\ svcChngdQueue' = svcChngdQueue
          /\ sc = {} => listening' = listening /\ ccc' = ccc
      BY <2>1, <2>4 DEF service_changed_complete, e
    <3>2. sc \subseteq ServiceChangedArea(dev)
      BY <1>1, <1>3, <1>4, <3>1, ServiceChangedPlaced
    <3>3. Beside(dev, o)
      BY <1>1, <1>2, <1>6 DEF Listening, Beside, Overlap
    <3>4. sc = {}
      <4>1. \A h \in sc : h \in o.start..o.end
        BY DEF ServiceChangedIn
      <4> HIDE DEF sc
      <4> QED BY <1>1, <1>2, <3>2, <3>3, <4>1, BesideArea
    <3>5. Due' = Due
      BY <1>2, <3>1 DEF Due
    <3> QED BY <1>2, <1>4, <3>1, <3>4, <3>5 DEF Listening
  <2> QED BY <2>3, <2>4
<1> QED BY <1>5, <1>6

LEMMA ExtendedPlaced ==
  ASSUME NEW T, NEW d, DbOK(d), DbPlaced(T, d), NEW t, t \in d, NEW kinds, kinds \in Seq(Kinds), NEW u, NEW e,
         ExtendedAs(d, t, kinds, u, e),
         \A i \in 1..Len(kinds) : kinds[i] = "scv" => t.start + Len(t.attrs) + i - 1 \in ServiceChangedArea(T)
  PROVE  DbPlaced(T, e)
<1>1. /\ u.start = t.start /\ u.attrs = t.attrs \o kinds /\ Len(u.attrs) = Len(t.attrs) + Len(kinds) /\ Fits(u)
      /\ \A v : v \in e <=> v = u \/ (v \in d /\ v.start # t.start)
  BY DEF ExtendedAs
<1>2. t.attrs \in Seq(Kinds) /\ t.start \in Nat /\ u.attrs \in Seq(Kinds)
  BY <1>1, DbIs, FitFacts
<1> DEFINE a == t.attrs
           w == a \o kinds
           m == Len(a)
           k == Len(kinds)
<1>3. a \in Seq(Kinds) /\ kinds \in Seq(Kinds)
  BY <1>2
<1> HIDE DEF a
<1>4. /\ w \in Seq(Kinds) /\ Len(w) = m + k /\ (\A i \in 1..m : w[i] = a[i]) /\ \A i \in 1..k : w[m + i] = kinds[i]
  BY <1>3, ConcatIs
<1>5. m \in Nat /\ k \in Nat /\ DOMAIN w = 1..m + k /\ DOMAIN a = 1..m
  BY <1>3, <1>4, SeqFacts
<1>6. u.attrs = w /\ \A i \in 1..k : kinds[i] = "scv" => t.start + m + i - 1 \in ServiceChangedArea(T)
  BY <1>1 DEF a
<1> HIDE DEF w, m, k
<1>7. ASSUME NEW i \in DOMAIN w, w[i] = "scv" PROVE t.start + i - 1 \in ServiceChangedArea(T)
  <2>1. CASE i <= m
    <3>1. i \in DOMAIN a /\ a[i] = "scv"
      BY <1>4, <1>5, <1>7, <2>1
    <3> QED BY <3>1 DEF DbPlaced, a
  <2>2. CASE ~(i <= m)
    <3> DEFINE j == i - m
    <3>1. j \in 1..k /\ m + j = i
      BY <1>5, <2>2
    <3> HIDE DEF j
    <3>2. kinds[j] = "scv" /\ t.start + m + j - 1 = t.start + i - 1
      BY <1>2, <1>4, <1>5, <1>7, <3>1
    <3> QED BY <1>6, <3>1, <3>2
  <2> QED BY <2>1, <2>2
<1> QED BY <1>1, <1>6, <1>7 DEF DbPlaced

LEMMA ActivatedPlaced ==
  ASSUME NEW T, Busy, NEW o, NEW d, Doing(o, d), DbPlaced(T, d)
  PROVE  DbPlaced(T, gatt_db_service_set_active(d, o.cur)) /\ DbOK(gatt_db_service_set_active(d, o.cur))
<1>1. PICK t \in d : t.start = o.cur
  BY DoingFacts
<1>2. PICK u : ActivatedAs(d, t, u, gatt_db_service_set_active(d, o.cur))
  BY <1>1, ActivatedIs DEF Doing
<1> QED BY <1>1, <1>2 DEF ActivatedAs, DbPlaced

LEMMA NextServiceHeard ==
  ASSUME Heard, NEW o, NEW d, Doing(o, d), HeardPlaces(o, d), NextService(o, d)
  PROVE  Listening'
<1> DEFINE i  == FirstToAsk(d, o.pending)
           s  == o.pending[i]
           e  == gatt_db_service_set_active(d, o.cur)
           o1 == [o EXCEPT !.pending = SubSeq(@, i + 1, Len(@)), !.cur = s]
<1>1. /\ Busy /\ o.pending \in Seq(Handles) /\ Continued(o) /\ DbOK(d) /\ o \in Ops
  BY ContinuedFacts DEF Doing, Heard
<1>2. i \in 0..Len(o.pending)
  BY <1>1, FirstToAskIs
<1>3. DbPlaced(dev, e) /\ DbOK(e)
  BY <1>1, ActivatedPlaced DEF HeardPlaces
<1>4. CASE i = 0
  <2>1. Complete(o, e, "found")
    BY <1>4 DEF NextService
  <2> QED BY <1>1, <1>3, <2>1, CompleteHeard
<1>5. CASE i # 0
  <2>1. Ask(o1, e, "chr", s, End(e, s)) \/ Ask(o1, e, "chr", s, End(d, s))
    BY <1>5 DEF NextService
  <2>2. i \in 1..Len(o.pending) /\ i \in 0..Len(o.pending)
    BY <1>1, <1>2, <1>5, SeqFacts
  <2> HIDE DEF i, e
  <2> DEFINE r == SubSeq(o.pending, i + 1, Len(o.pending))
  <2>3. s \in 0..MaxHandle
    <3>1. s \in Handles
      BY <1>1, <2>2, SeqFacts
    <3> QED BY <3>1 DEF Handles
  <2>4. r \in Seq(Handles)
    BY <1>1, <2>2, CutIs
  <2>5. o1 = [o EXCEPT !.pending = r, !.cur = s]
    OBVIOUS
  <2> HIDE DEF r, s, o1
  <2>6. o1 \in Ops /\ o1.start = o.start /\ o1.end = o.end /\ o1.init = o.init /\ o1.chrcs = o.chrcs
    BY <1>1, <2>3, <2>4, <2>5 DEF Ops
  <2>7. Continued(o1)
    BY <1>1, <2>6 DEF Continued
  <2>8. HeardPlaces(o1, e)
    BY <1>3, <2>6 DEF HeardPlaces, ChrcsPlaced
  <2> QED BY <2>1, <2>7, <2>8, AskHeard
<1> QED BY <1>4, <1>5

LEMMA DescsHeard ==
  ASSUME Heard, NEW o, NEW d, Doing(o, d), HeardPlaces(o, d), discover_descs(o, d)
  PROVE  Listening'
<1> DEFINE n  == ToAdd(o.chrcs)
           a  == Added(o.chrcs, n)
           e  == Extended(d, o.cur, a)
           r  == SubSeq(o.chrcs, n + 1, Len(o.chrcs))
           o1 == [o EXCEPT !.chrcs = SubSeq(@, n + 1, Len(@))]
<1>b. Busy
  BY DEF Heard
<1>1. /\ Busy /\ Continued(o) /\ DbOK(d) /\ o \in Ops /\ o.chrcs \in Seq(Chrcs)
      /\ Listed(o, d, <<o.cur>> \o o.pending)
  BY ContinuedFacts DEF Doing, Heard
<1>2. IF \E i \in 1..n : ~Expected(Service(d, o.cur), o.chrcs[i].value, 2 * i)
      THEN Complete(o, d, "failed")
      ELSE IF FirstWithRoom(o.chrcs) = 0 THEN NextService(o1, e)
           ELSE Ask(o1, e, "dsc", o.chrcs[n].value + 1, o.chrcs[n].end)
  BY DEF discover_descs, Added, ToAdd
<1>3. n \in 0..Len(o.chrcs) /\ Len(o.chrcs) \in Nat
  BY <1>1, ToAddIs
<1> HIDE DEF n
<1>4. CASE \E i \in 1..n : ~Expected(Service(d, o.cur), o.chrcs[i].value, 2 * i)
  BY <1>1, <1>2, <1>4, CompleteHeard DEF HeardPlaces
<1>5. CASE \A i \in 1..n : Expected(Service(d, o.cur), o.chrcs[i].value, 2 * i)
  <2>t. PICK t \in d : \E u :
          /\ t.start = o.cur /\ ~t.active /\ Service(d, o.cur) = t
          /\ ExtendedAs(d, t, Added(o.chrcs, n), u, Extended(d, o.cur, Added(o.chrcs, n)))
          /\ Len(Added(o.chrcs, n)) = 2 * n
          /\ n # 0 => o.chrcs[n].value = t.start + Len(t.attrs) + 2 * n - 1
    BY <1>b, <1>3, <1>5, ExtendedByChrcs
  <2>1. PICK u : t.start = o.cur /\ Service(d, o.cur) = t /\ ExtendedAs(d, t, a, u, e)
    BY <2>t
  <2>2. /\ a \in Seq(Kinds) /\ Len(a) = 2 * n
        /\ \A k \in 1..n : a[2 * k - 1] = "chr" /\ a[2 * k] = o.chrcs[k].kind
    BY <1>1, <1>3, AddedIs
  <2> HIDE DEF a
  <2>3. ASSUME NEW i \in 1..Len(a), a[i] = "scv" PROVE t.start + Len(t.attrs) + i - 1 \in ServiceChangedArea(dev)
    <3>1. \E k \in 1..n : i = 2 * k - 1 \/ i = 2 * k
      <4>1. i \in 1..2 * n /\ n \in Nat
        BY <1>3, <2>2
      <4>2. CASE i % 2 = 1
        <5>1. (i + 1) \div 2 \in 1..n /\ i = 2 * ((i + 1) \div 2) - 1
          BY <4>1, <4>2
        <5> QED BY <5>1
      <4>3. CASE i % 2 # 1
        <5>1. i \div 2 \in 1..n /\ i = 2 * (i \div 2)
          BY <4>1, <4>3
        <5> QED BY <5>1
      <4> QED BY <4>2, <4>3
    <3>2. PICK k \in 1..n : i = 2 * k - 1 \/ i = 2 * k
      BY <3>1
    <3>3. i = 2 * k /\ o.chrcs[k].kind = "scv"
      BY <2>2, <2>3, <3>2
    <3>4. o.chrcs[k].value = t.start + Len(t.attrs) + i - 1
      BY <1>5, <2>1, <3>3 DEF Expected
    <3>5. k \in DOMAIN o.chrcs
      BY <1>1, <1>3, SeqFacts
    <3> QED BY <3>3, <3>4, <3>5 DEF HeardPlaces, ChrcsPlaced
  <2>4. DbPlaced(dev, e) /\ DbOK(e) /\ Listed(o, e, <<o.cur>> \o o.pending)
    <3>1. DbPlaced(dev, e)
      BY <1>1, <2>1, <2>2, <2>3, ExtendedPlaced DEF HeardPlaces
    <3>2. Listed(o, e, <<o.cur>> \o o.pending)
      BY <1>1, <2>1, ExtendedListed
    <3>3. DbOK(e)
      BY <2>1 DEF ExtendedAs
    <3> QED BY <3>1, <3>2, <3>3
  <2>5. r \in Seq(Chrcs) /\ Len(r) = Len(o.chrcs) - n /\ \A i \in 1..Len(o.chrcs) - n : r[i] = o.chrcs[n + i]
    BY <1>1, <1>3, CutIs
  <2>6. o1 = [o EXCEPT !.chrcs = r]
    OBVIOUS
  <2> HIDE DEF r, o1, e
  <2>7. /\ o1 \in Ops /\ o1.start = o.start /\ o1.end = o.end /\ o1.init = o.init
        /\ o1.pending = o.pending /\ o1.cur = o.cur /\ o1.chrcs = r
    BY <1>1, <2>5, <2>6 DEF Ops
  <2>8. ChrcsPlaced(dev, o1)
    <3> SUFFICES ASSUME NEW i \in DOMAIN r, r[i].kind = "scv" PROVE r[i].value \in ServiceChangedArea(dev)
      BY <2>7 DEF ChrcsPlaced
    <3>1. DOMAIN r = 1..Len(r) /\ DOMAIN o.chrcs = 1..Len(o.chrcs)
      BY <1>1, <2>5, SeqFacts
    <3>2. r[i] = o.chrcs[n + i] /\ n + i \in DOMAIN o.chrcs
      BY <1>3, <2>5, <3>1
    <3> QED BY <3>2 DEF HeardPlaces, ChrcsPlaced
  <2>9. Continued(o1) /\ HeardPlaces(o1, e)
    BY <1>1, <2>4, <2>7, <2>8 DEF Continued, HeardPlaces
  <2>10. Doing(o1, e)
    <3>1. Listed(o1, e, <<o1.cur>> \o o1.pending)
      BY <2>4, <2>7 DEF Listed
    <3> QED BY <2>4, <2>9, <3>1 DEF Doing
  <2> QED BY <1>2, <1>5, <2>9, <2>10, NextServiceHeard, AskHeard
<1> QED BY <1>4, <1>5

\* A service is extended by what was found, each at its handle.
LEMMA FoundExtendedPlaced ==
  ASSUME NEW T, NEW d, DbOK(d), DbPlaced(T, d), NEW t, t \in d, NEW found, found \in Seq(Items), ~Misplaced(t, found),
         NEW kind, kind # "chr", FoundPlaced(T, kind, found)
  PROVE  /\ \E u : ExtendedAs(d, t, FoundKinds(found), u, Extended(d, t.start, FoundKinds(found)))
         /\ DbPlaced(T, Extended(d, t.start, FoundKinds(found)))
<1>1. /\ FoundKinds(found) \in Seq(Kinds) /\ Len(FoundKinds(found)) = Len(found)
      /\ \A i \in 1..Len(found) : FoundKinds(found)[i] = found[i].kind
      /\ \E u : ExtendedAs(d, t, FoundKinds(found), u, Extended(d, t.start, FoundKinds(found)))
  BY ExtendedByFound
<1>2. PICK u : ExtendedAs(d, t, FoundKinds(found), u, Extended(d, t.start, FoundKinds(found)))
  BY <1>1
<1>3. ASSUME NEW i \in 1..Len(FoundKinds(found)), FoundKinds(found)[i] = "scv"
      PROVE  t.start + Len(t.attrs) + i - 1 \in ServiceChangedArea(T)
  <2>1. i \in 1..Len(found) /\ found[i].kind = "scv" /\ i \in DOMAIN found
    BY <1>1, <1>3, SeqFacts
  <2>2. found[i].at = t.start + Len(t.attrs) + i - 1
    BY <2>1 DEF Misplaced, Expected
  <2> QED BY <2>1, <2>2 DEF FoundPlaced
<1> QED BY <1>1, <1>2, <1>3, ExtendedPlaced

LEMMA DescsCbHeard ==
  ASSUME Heard, NEW o, NEW d, Doing(o, d), HeardPlaces(o, d), NEW found, found \in Seq(Items),
         FoundPlaced(dev, "dsc", found), discover_descs_cb(o, d, found)
  PROVE  Listening'
<1> DEFINE e == Extended(d, o.cur, FoundKinds(found))
<1>b. Busy
  BY DEF Heard
<1>1. Continued(o) /\ DbOK(d) /\ Listed(o, d, <<o.cur>> \o o.pending) /\ DbPlaced(dev, d) /\ ChrcsPlaced(dev, o)
  BY DEF Doing, HeardPlaces
<1>2. CASE found = <<>>
  BY <1>2, NextServiceHeard DEF discover_descs_cb
<1>3. CASE found # <<>> /\ Misplaced(Service(d, o.cur), found)
  <2>1. Complete(o, d, "failed")
    BY <1>3 DEF discover_descs_cb
  <2> QED BY <1>1, <2>1, CompleteHeard
<1>4. CASE found # <<>> /\ ~Misplaced(Service(d, o.cur), found)
  <2>1. discover_descs(o, e)
    BY <1>4 DEF discover_descs_cb
  <2>2. PICK t \in d : t.start = o.cur /\ Service(d, o.cur) = t
    BY <1>b, DoingFacts
  <2>3. (\E u : ExtendedAs(d, t, FoundKinds(found), u, e)) /\ DbPlaced(dev, e)
    BY <1>1, <1>4, <2>2, FoundExtendedPlaced
  <2>4. PICK u : ExtendedAs(d, t, FoundKinds(found), u, e)
    BY <2>3
  <2>5. Listed(o, e, <<o.cur>> \o o.pending)
    BY <1>1, <2>4, ExtendedListed
  <2>6. Doing(o, e) /\ HeardPlaces(o, e)
    BY <1>1, <2>3, <2>4, <2>5 DEF Doing, ExtendedAs, HeardPlaces
  <2> QED BY <2>1, <2>6, DescsHeard
<1> QED BY <1>2, <1>3, <1>4

LEMMA ChrcsCbHeard ==
  ASSUME Heard, NEW o, NEW d, Doing(o, d), HeardPlaces(o, d), NEW found, found \in Seq(Items),
         \A i \in 1..Len(found) : found[i].to \in Handles, FoundPlaced(dev, "chr", found),
         discover_chrcs_cb(o, d, found)
  PROVE  Listening'
<1> DEFINE c  == Found(found, End(d, o.cur))
           q  == o.chrcs \o c
           o1 == [o EXCEPT !.chrcs = @ \o Found(found, End(d, o.cur))]
<1>b. Busy
  BY DEF Heard
<1>1. /\ Continued(o) /\ DbOK(d) /\ Listed(o, d, <<o.cur>> \o o.pending)
      /\ o \in Ops /\ o.chrcs \in Seq(Chrcs) /\ DbPlaced(dev, d) /\ ChrcsPlaced(dev, o)
  BY <1>b, ContinuedFacts DEF Doing, HeardPlaces
<1>2. CASE found = <<>>
  BY <1>2, NextServiceHeard DEF discover_chrcs_cb
<1>3. CASE found # <<>>
  <2>1. discover_descs(o1, d)
    BY <1>3 DEF discover_chrcs_cb, Found
  <2>2. End(d, o.cur) \in Handles
    <3>1. PICK t \in d : End(d, o.cur) = t.end /\ Fits(t)
      BY <1>b, DoingFacts
    <3> QED BY <3>1, FitFacts
  <2>3. /\ c \in Seq(Chrcs) /\ Len(c) = Len(found)
        /\ \A i \in 1..Len(found) : c[i].value = found[i].to /\ c[i].kind = found[i].kind
    BY <2>2, FoundIs
  <2> HIDE DEF c
  <2>4. q \in Seq(Chrcs) /\ El(q) = El(o.chrcs) \cup El(c)
    BY <1>1, <2>3, ConcatIs
  <2>5. o1 = [o EXCEPT !.chrcs = q]
    BY DEF c
  <2> HIDE DEF q, o1
  <2>6. /\ o1 \in Ops /\ o1.start = o.start /\ o1.end = o.end /\ o1.init = o.init
        /\ o1.pending = o.pending /\ o1.cur = o.cur /\ o1.chrcs = q
    BY <1>1, <2>4, <2>5 DEF Ops
  <2>7. Doing(o1, d)
    <3>1. Listed(o1, d, <<o1.cur>> \o o1.pending)
      BY <1>1, <2>6 DEF Listed
    <3> QED BY <1>1, <2>6, <3>1 DEF Doing, Continued
  <2>8. \A x \in El(c) : x.kind = "scv" => x.value \in ServiceChangedArea(dev)
    <3>1. DOMAIN found = 1..Len(found) /\ DOMAIN c = 1..Len(found)
      BY <2>3, SeqFacts
    <3> QED BY <2>3, <3>1 DEF El, FoundPlaced
  <2>9. \A x \in El(o.chrcs) : x.kind = "scv" => x.value \in ServiceChangedArea(dev)
    BY <1>1 DEF El, ChrcsPlaced
  <2>10. ChrcsPlaced(dev, o1)
    <3>1. \A i \in DOMAIN q : q[i] \in El(q)
      BY DEF El
    <3> QED BY <2>4, <2>6, <2>8, <2>9, <3>1 DEF ChrcsPlaced
  <2> QED BY <1>1, <2>1, <2>7, <2>10, DescsHeard DEF HeardPlaces
<1> QED BY <1>2, <1>3

LEMMA NextIncludingHeard ==
  ASSUME Heard, NEW o, NEW d, Including(o, d), DbPlaced(dev, d), NextIncluding(o, d)
  PROVE  Listening'
<1> DEFINE i   == FirstToAsk(d, o.pending)
           all == o.tmp \o o.pending
           s   == o.pending[i]
           a   == SubSeq(o.pending, 1, i)
           r   == SubSeq(o.pending, i + 1, Len(o.pending))
           oc  == [o EXCEPT !.tmp = <<>>, !.pending = Tail(all), !.cur = Head(all)]
           oi  == [o EXCEPT !.tmp = @ \o SubSeq(o.pending, 1, i), !.cur = s,
                            !.pending = SubSeq(@, i + 1, Len(@))]
<1>b. Busy
  BY DEF Heard
<1>1. /\ o \in Ops /\ Continued(o) /\ DbOK(d) /\ o.chrcs = <<>>
      /\ o.tmp \in Seq(Handles) /\ o.pending \in Seq(Handles) /\ o.tmp # <<>>
  BY <1>b, ContinuedFacts DEF Including
<1>2. i \in 0..Len(o.pending)
  BY <1>1, FirstToAskIs
<1>3. \A n : n \in Ops /\ n.start = o.start /\ n.end = o.end /\ n.init = o.init /\ n.chrcs = o.chrcs
             => Continued(n) /\ HeardPlaces(n, d)
  BY <1>1 DEF Continued, HeardPlaces, ChrcsPlaced
<1>4. CASE i = 0
  <2>1. Ask(oc, d, "chr", Head(all), End(d, Head(all)))
    BY <1>4 DEF NextIncluding
  <2>2. all \in Seq(Handles) /\ all # <<>>
    BY <1>1, ConcatEqualIffEmpty, ConcatProperties
  <2> HIDE DEF all
  <2> DEFINE h == Head(all)
             u == Tail(all)
  <2>3. h \in 0..MaxHandle /\ u \in Seq(Handles)
    BY <2>2, HeadTailIs DEF Handles
  <2>4. oc = [o EXCEPT !.tmp = <<>>, !.pending = u, !.cur = h] /\ <<>> \in Seq(Handles)
    OBVIOUS
  <2> HIDE DEF oc, h, u
  <2>5. oc \in Ops /\ oc.start = o.start /\ oc.end = o.end /\ oc.init = o.init /\ oc.chrcs = o.chrcs
    BY <1>1, <2>3, <2>4 DEF Ops
  <2> QED BY <1>3, <2>1, <2>5, AskHeard
<1>5. CASE i # 0
  <2>1. Ask(oi, d, "inc", s, End(d, s))
    BY <1>5 DEF NextIncluding
  <2>2. i \in 1..Len(o.pending) /\ i \in 0..Len(o.pending)
    BY <1>1, <1>2, <1>5, SeqFacts
  <2> HIDE DEF i
  <2>3. a \in Seq(Handles) /\ r \in Seq(Handles) /\ s \in 0..MaxHandle
    <3>1. s \in Handles
      BY <1>1, <2>2, SeqFacts
    <3>2. s \in 0..MaxHandle
      BY <3>1 DEF Handles
    <3>3. a \in Seq(Handles) /\ r \in Seq(Handles)
      BY <1>1, <2>2, CutIs
    <3> QED BY <3>2, <3>3
  <2> DEFINE b == o.tmp \o a
  <2>4. oi = [o EXCEPT !.tmp = b, !.cur = s, !.pending = r]
    OBVIOUS
  <2> HIDE DEF oi, a, r, s
  <2>5. b \in Seq(Handles)
    BY <1>1, <2>3, ConcatProperties
  <2> HIDE DEF b
  <2>6. oi \in Ops /\ oi.start = o.start /\ oi.end = o.end /\ oi.init = o.init /\ oi.chrcs = o.chrcs
    BY <1>1, <2>3, <2>4, <2>5 DEF Ops
  <2> QED BY <1>3, <2>1, <2>6, AskHeard
<1> QED BY <1>4, <1>5

LEMMA InclCbHeard ==
  ASSUME Heard, NEW o, NEW d, Including(o, d), DbPlaced(dev, d), NEW found, found \in Seq(Items),
         FoundPlaced(dev, "inc", found), discover_incl_cb(o, d, found)
  PROVE  Listening'
<1> DEFINE e == Extended(d, o.cur, FoundKinds(found))
<1>b. Busy
  BY DEF Heard
<1>1. Continued(o) /\ DbOK(d) /\ Listed(o, d, o.tmp \o o.pending)
  BY DEF Including
<1>2. PICK t \in d : t.start = o.cur /\ ~t.active
  BY <1>b, IncludingFacts
<1>3. Service(d, o.cur) = t
  BY <1>1, <1>2, ServiceIs
<1>4. Complete(o, d, "failed") \/ (~Misplaced(t, found) /\ NextIncluding(o, e))
  BY <1>3 DEF discover_incl_cb
<1>5. CASE Complete(o, d, "failed")
  BY <1>1, <1>5, CompleteHeard
<1>6. CASE ~Misplaced(t, found) /\ NextIncluding(o, e)
  <2>1. (\E u : ExtendedAs(d, t, FoundKinds(found), u, e)) /\ DbPlaced(dev, e)
    BY <1>1, <1>2, <1>6, FoundExtendedPlaced
  <2>2. PICK u : ExtendedAs(d, t, FoundKinds(found), u, e)
    BY <2>1
  <2>3. Listed(o, e, o.tmp \o o.pending)
    BY <1>1, <2>2, ExtendedListed
  <2>4. Including(o, e)
    BY <2>2, <2>3 DEF Including, ExtendedAs
  <2> QED BY <1>6, <2>1, <2>4, NextIncludingHeard
<1> QED BY <1>4, <1>5, <1>6

\* Services that were found are put into the database.
LEMMA InsertedPlaced ==
  ASSUME NEW T, NEW d, DbOK(d), DbPlaced(T, d), NEW found, Addable(d, found),
         NEW primary, primary \in BOOLEAN
  PROVE  DbPlaced(T, InsertAll(d, found, primary))
<1>1. ASSUME NEW t \in InsertAll(d, found, primary), NEW i \in DOMAIN t.attrs, t.attrs[i] = "scv"
      PROVE  t.start + i - 1 \in ServiceChangedArea(T)
  <2>1. t \in d \/ \E j \in 1..Len(found) : t = NewService(found[j], primary)
    BY InsertedIs
  <2>2. (\E j \in 1..Len(found) : t = NewService(found[j], primary)) => t.attrs = <<"svc">>
    BY DEF NewService
  <2>3. t.attrs # <<"svc">>
    <3>1. t.attrs = <<"svc">> => i = 1 /\ t.attrs[i] = "svc"
      OBVIOUS
    <3> QED BY <1>1, <3>1
  <2>4. t \in d
    BY <2>1, <2>2, <2>3
  <2> QED BY <1>1, <2>4 DEF DbPlaced
<1> HIDE DEF InsertAll
<1> QED BY <1>1 DEF DbPlaced

LEMMA PrimaryHeard ==
  ASSUME Heard, NEW o, Continued(o), NEW d, NEW to, Frame(o, d, "primary", to), DbPlaced(dev, d),
         NEW found, found \in Seq(Items), FoundShape(o, "primary", to, found), discover_primary_cb(o, d, found)
  PROVE  Listening'
<1> DEFINE z  == Starts(found)
           e  == InsertAll(d, found, TRUE)
           o1 == [o EXCEPT !.pending = z]
<1>1. /\ o \in Ops /\ o.start <= o.end /\ DbOK(d) /\ o.pending = <<>> /\ o.chrcs = <<>>
      /\ to = o.end /\ \A t \in d : t.start \in o.start..o.end => t.start \in El(o.pending)
  BY DEF Frame, Grouped
<1>2. CASE \E i \in DOMAIN found : Clash(d, found[i].at, found[i].to)
  BY <1>1, <1>2, CompleteHeard DEF discover_primary_cb
<1>3. CASE ~\E i \in DOMAIN found : Clash(d, found[i].at, found[i].to)
  <2>1. Ask(o1, e, "secondary", o.start, o.end)
    BY <1>3 DEF discover_primary_cb
  <2>2. Listed(o, d, o.pending)
    BY <1>1 DEF Listed
  <2>3. Gathering(o, d, "primary", found)
    BY <1>1, <1>3, <2>2 DEF Gathering, Grouped
  <2>4. DbPlaced(dev, e)
    <3>1. Addable(d, found)
      BY <2>3, GatheredIs
    <3> QED BY <1>1, <3>1, InsertedPlaced
  <2>5. z \in Seq(Handles)
    BY StartsIs
  <2> HIDE DEF z, e
  <2>6. o1 \in Ops /\ o1.start = o.start /\ o1.end = o.end /\ o1.init = o.init /\ o1.chrcs = <<>>
    BY <1>1, <2>5 DEF Ops
  <2> HIDE DEF o1
  <2>7. Continued(o1) /\ HeardPlaces(o1, e)
    BY <2>4, <2>6 DEF Continued, HeardPlaces, ChrcsPlaced
  <2> QED BY <2>1, <2>7, AskHeard
<1> QED BY <1>2, <1>3

LEMMA SecondaryHeard ==
  ASSUME Heard, NEW o, Continued(o), NEW d, NEW to, Frame(o, d, "secondary", to), DbPlaced(dev, d),
         NEW found, found \in Seq(Items), FoundShape(o, "secondary", to, found), discover_secondary_cb(o, d, found)
  PROVE  Listening'
<1> DEFINE all == o.pending \o Starts(found)
           e   == InsertAll(d, found, FALSE)
<1>1. /\ o \in Ops /\ o.start <= o.end /\ DbOK(d) /\ o.chrcs = <<>>
      /\ to = o.end /\ \A t \in d : t.start \in o.start..o.end => t.start \in El(o.pending)
  BY DEF Frame, Grouped
<1>2. Listed(o, d, o.pending)
  <2>1. WorkList(o, "secondary") = o.pending
    BY DEF WorkList
  <2> QED BY <2>1 DEF Frame
<1>3. CASE \E i \in DOMAIN found : Clash(d, found[i].at, found[i].to)
  BY <1>1, <1>3, CompleteHeard DEF discover_secondary_cb
<1>4. CASE ~\E i \in DOMAIN found : Clash(d, found[i].at, found[i].to)
  <2> DEFINE o1 == [o EXCEPT !.pending = Tail(all), !.tmp = <<Head(all)>>, !.cur = Head(all)]
  <2>1. IF all = <<>> THEN Complete(o, d, "none")
        ELSE Ask(o1, e, "inc", Head(all), End(e, Head(all)))
    BY <1>4 DEF discover_secondary_cb
  <2>2. CASE all = <<>>
    BY <1>1, <2>1, <2>2, CompleteHeard
  <2>3. CASE all # <<>>
    <3>1. Gathering(o, d, "secondary", found)
      BY <1>1, <1>2, <1>4 DEF Gathering, Grouped
    <3>2. all \in Seq(Handles) /\ Addable(d, found)
      BY <3>1, GatheredIs
    <3>3. DbPlaced(dev, e)
      BY <1>1, <3>2, InsertedPlaced
    <3> HIDE DEF all, e
    <3> DEFINE h == Head(all)
               u == Tail(all)
    <3>4. h \in Handles /\ u \in Seq(Handles)
      BY <2>3, <3>2, HeadTailIs
    <3>5. o1 = [o EXCEPT !.pending = u, !.tmp = <<h>>, !.cur = h]
      OBVIOUS
    <3> HIDE DEF h, u, o1
    <3>6. h \in 0..MaxHandle /\ <<h>> \in Seq(Handles)
      <4>1. h \in 0..MaxHandle
        BY <3>4 DEF Handles
      <4> QED BY <3>4, <4>1
    <3>7. o1 \in Ops /\ o1.start = o.start /\ o1.end = o.end /\ o1.init = o.init /\ o1.chrcs = <<>>
      BY <1>1, <3>4, <3>5, <3>6 DEF Ops
    <3>8. Continued(o1) /\ HeardPlaces(o1, e)
      BY <3>3, <3>7 DEF Continued, HeardPlaces, ChrcsPlaced
    <3> QED BY <2>1, <2>3, <3>8, AskHeard
  <2> QED BY <2>2, <2>3
<1> QED BY <1>3, <1>4

LEMMA FinishedHeard ==
  ASSUME NEW p, Waiting(p), Listening, ~Wide, NEW found, found \in Seq(Items), FoundShape(op, p.kind, p.to, found),
         FoundPlaced(dev, p.kind, found), Finished(p.kind, found)
  PROVE  Listening'
<1>1. /\ Busy /\ Continued(op) /\ Frame(op, db, p.kind, p.to)
      /\ p.kind \in {"chr", "dsc"} => Doing(op, db)
      /\ p.kind = "inc" => Including(op, db)
  BY WaitingFacts DEF Waiting
<1>2. HeardPlaces(op, db) /\ DbPlaced(dev, db)
  BY DEF Waiting, Listening, HeardPlaces
<1>3. Heard
  BY <1>1 DEF Heard
<1>4. CASE p.kind = "primary" /\ discover_primary_cb(op, db, found)
  BY <1>1, <1>2, <1>3, <1>4, PrimaryHeard
<1>5. CASE p.kind = "secondary" /\ discover_secondary_cb(op, db, found)
  BY <1>1, <1>2, <1>3, <1>5, SecondaryHeard
<1>6. CASE p.kind = "inc" /\ discover_incl_cb(op, db, found)
  BY <1>1, <1>2, <1>3, <1>6, InclCbHeard
<1>7. CASE p.kind = "chr" /\ discover_chrcs_cb(op, db, found)
  <2>1. \A i \in 1..Len(found) : found[i].to \in Handles
    <3>1. \A i \in 1..Len(found) : i \in DOMAIN found /\ found[i] \in Items
      BY SeqFacts
    <3>2. \A i \in DOMAIN found : found[i].to = found[i].at + 1 /\ found[i].to <= MaxHandle
      BY <1>7 DEF FoundShape
    <3>3. \A f \in Items : f.at \in Handles
      BY DEF Items
    <3> QED BY <3>1, <3>2, <3>3 DEF Handles
  <2> QED BY <1>1, <1>2, <1>3, <1>7, <2>1, ChrcsCbHeard
<1>8. CASE p.kind = "dsc" /\ discover_descs_cb(op, db, found)
  BY <1>1, <1>2, <1>3, <1>8, DescsCbHeard
<1> QED BY <1>4, <1>5, <1>6, <1>7, <1>8 DEF Finished

\* What the device answers is Service Changed only where Service Changed is.
LEMMA MatchingPlaced ==
  ASSUME NEW T, T \in Tables, NEW kind, NEW lo, lo \in Nat, NEW hi, hi \in Nat,
         NEW f, f \in Matching(T, kind, lo, hi), f.kind = "scv"
  PROVE  (IF kind = "chr" THEN f.to ELSE f.at) \in ServiceChangedArea(T)
<1>1. kind \notin Grouped
  BY MatchingIs
<1>s. PICK s \in T : \E i \in Wanted(s, kind, lo, hi) : f = Item(kind, s, i)
  BY <1>1, MatchingIs
<1>2. PICK i \in Wanted(s, kind, lo, hi) : f = Item(kind, s, i)
  BY <1>s
<1>3. /\ i \in Nat /\ 1 <= i /\ i <= Len(s.layout)
      /\ s.start + i - 1 \in Handles /\ s.start + i - 1 <= s.end
      /\ kind = "chr" => i + 1 <= Len(s.layout) /\ s.start + i \in Handles
  BY WantedFacts
<1>4. /\ f.at = s.start + i - 1
      /\ kind = "chr" => f.to = s.start + i /\ f.kind = s.layout[i + 1]
      /\ kind # "chr" => f.kind = s.layout[i]
  BY <1>2, ItemFacts
<1>5. s.start \in Nat /\ s.end \in Nat /\ Len(s.layout) \in Nat /\ s.start + Len(s.layout) - 1 <= s.end
      /\ DOMAIN s.layout = 1..Len(s.layout)
  BY ServiceFacts DEF Handles
<1>6. HasServiceChanged(s)
  <2>1. CASE kind = "chr"
    <3>1. i + 1 \in DOMAIN s.layout
      BY <1>3, <1>5, <2>1
    <3> QED BY <1>4, <2>1, <3>1 DEF HasServiceChanged
  <2>2. CASE kind # "chr"
    <3>1. i \in DOMAIN s.layout
      BY <1>3, <1>5
    <3> QED BY <1>4, <2>2, <3>1 DEF HasServiceChanged
  <2> QED BY <2>1, <2>2
<1>7. \A h \in Handles : s.start <= h /\ h <= s.end => h \in ServiceChangedArea(T)
  BY <1>6 DEF ServiceChangedArea
<1>8. s.start <= s.start + i - 1 /\ (kind = "chr" => s.start <= s.start + i /\ s.start + i <= s.end)
  BY <1>3, <1>5
<1> QED BY <1>3, <1>4, <1>7, <1>8

LEMMA PageFoundPlaced ==
  ASSUME NEW p, Waiting(p), FoundPlaced(dev, p.kind, p.found), NEW n, n \in 1..Len(Matches(p)),
         NEW found, found = p.found \o SubSeq(Matches(p), 1, n)
  PROVE  FoundPlaced(dev, p.kind, found)
<1> DEFINE m == Matches(p)
           At(f) == IF p.kind = "chr" THEN f.to ELSE f.at
<1>1. dev \in Tables /\ p.from \in Nat /\ p.to \in Nat /\ p.found \in Seq(Items)
  BY WaitingFacts DEF Waiting, Control, Handles
<1>2. m \in Seq(Items) /\ Len(m) \in Nat /\ El(m) = Matching(dev, p.kind, p.from, p.to)
      /\ DOMAIN m = 1..Len(m) /\ \A i, j \in 1..Len(m) : i < j => m[i].at < m[j].at
  BY <1>1, MatchesIs
<1>3. \A f \in El(m) : f.kind = "scv" => At(f) \in ServiceChangedArea(dev)
  BY <1>1, <1>2, MatchingPlaced
<1>4. n \in 1..Len(m) /\ found = p.found \o SubSeq(m, 1, n)
  OBVIOUS
<1> HIDE DEF m
<1>5. \A f : f \in El(found) => f \in El(p.found) \/ f \in El(m)
  <2>1. \A i, j \in DOMAIN m : i < j => m[i].at < m[j].at
    BY <1>2
  <2> QED BY <1>1, <1>2, <1>4, <2>1, PageOf
<1>6. \A f \in El(p.found) : f.kind = "scv" => At(f) \in ServiceChangedArea(dev)
  BY DEF FoundPlaced, El
<1>7. \A i \in DOMAIN found : found[i] \in El(found)
  BY DEF El
<1>8. \A i \in DOMAIN found : found[i].kind = "scv" => At(found[i]) \in ServiceChangedArea(dev)
  BY <1>3, <1>5, <1>6, <1>7
<1> QED BY <1>8 DEF FoundPlaced

LEMMA PageHeard ==
  ASSUME NEW p, Waiting(p), Listening, ~Wide, Page(p)
  PROVE  Listening'
<1>1. p.found \in Seq(Items) /\ FoundShape(op, p.kind, p.to, p.found) /\ FoundPlaced(dev, p.kind, p.found)
      /\ proc = {p} /\ UNCHANGED <<dev, enabled, indications>>
  BY WaitingFacts DEF Waiting, ProcedureOK, Listening, deviceVars
<1>2. \/ Finished(p.kind, p.found)
      \/ \E n \in 1..Len(Matches(p)) :
           LET found == p.found \o SubSeq(Matches(p), 1, n)
               last  == LastHandle(p, Matches(p)[n])
           IN \/ /\ last < p.to
                 /\ proc' = {[p EXCEPT !.from = last + 1, !.found = found]}
                 /\ UNCHANGED <<op, db, clientVars>>
              \/ Finished(p.kind, found)
  BY DEF Page, Matches
<1>3. CASE Finished(p.kind, p.found)
  BY <1>1, <1>3, FinishedHeard
<1>4. CASE ~Finished(p.kind, p.found)
  <2> DEFINE found(n) == p.found \o SubSeq(Matches(p), 1, n)
             last(n)  == LastHandle(p, Matches(p)[n])
  <2>1. PICK n \in 1..Len(Matches(p)) :
          \/ /\ proc' = {[p EXCEPT !.from = last(n) + 1, !.found = found(n)]}
             /\ UNCHANGED <<op, db, clientVars>>
          \/ Finished(p.kind, found(n))
    BY <1>2, <1>4
  <2> DEFINE f == found(n)
             q == [p EXCEPT !.from = last(n) + 1, !.found = f]
  <2>2. f \in Seq(Items) /\ FoundShape(op, p.kind, p.to, f)
    BY PageFound
  <2>3. FoundPlaced(dev, p.kind, f)
    BY <1>1, PageFoundPlaced
  <2>4. CASE Finished(p.kind, f)
    <3> HIDE DEF f
    <3> QED BY <2>2, <2>3, <2>4, FinishedHeard
  <2>5. CASE proc' = {q} /\ UNCHANGED <<op, db, clientVars>>
    <3>1. p \in Procedures
      BY WaitingFacts
    <3>2. q.kind = p.kind /\ q.found = f
      BY <3>1 DEF Procedures
    <3> HIDE DEF q, f
    <3>3. FoundPlaced(dev, q.kind, q.found)
      BY <2>3, <3>2
    <3>4. UNCHANGED <<ccc, listening, svcChngdQueue>> /\ Due' = Due
      BY <1>1, <2>5 DEF clientVars, Due
    <3>5. \A x \in proc' : ChrcsPlaced(dev', op') /\ FoundPlaced(dev', x.kind, x.found)
      BY <1>1, <2>5, <3>3 DEF Listening
    <3> QED BY <1>1, <2>5, <3>4, <3>5 DEF Listening
  <2> QED BY <2>1, <2>4, <2>5
<1> QED BY <1>3, <1>4

LEMMA AnsweredHeard == ASSUME Shape, Listening, ~Wide, Answered PROVE Listening'
<1>1. PICK p \in proc :
        read_by_grp_type_cb(p) \/ discover_included_cb(p) \/ read_chrcs_cb(p) \/ find_info_cb(p)
  BY DEF Answered
<1>2. Page(p)
  BY <1>1 DEF read_by_grp_type_cb, discover_included_cb, read_chrcs_cb, find_info_cb
<1>3. Waiting(p)
  BY ShapeWaiting DEF Answered
<1> QED BY <1>2, <1>3, PageHeard

LEMMA RefusedHeard == ASSUME Shape, Listening, ~Wide, Refused PROVE Listening'
<1> DEFINE o1 == [op EXCEPT !.missed = TRUE]
<1>1. PICK p \in proc :
        \/ p.kind = "primary" /\ Ask(o1, db, "secondary", op.start, op.end)
        \/ p.kind # "primary" /\ Complete(op, db, "failed")
  BY DEF Refused
<1>2. Waiting(p)
  BY ShapeWaiting DEF Refused
<1>3. Heard /\ Continued(op) /\ DbOK(db) /\ op \in Ops /\ DbPlaced(dev, db) /\ ChrcsPlaced(dev, op)
  BY <1>2, WaitingFacts DEF Heard, Listening
<1>4. o1 \in Ops /\ o1.start = op.start /\ o1.end = op.end /\ o1.init = op.init /\ o1.chrcs = op.chrcs
  BY <1>3 DEF Ops
<1> HIDE DEF o1
<1>5. Continued(o1) /\ HeardPlaces(o1, db)
  BY <1>3, <1>4 DEF Continued, HeardPlaces, ChrcsPlaced
<1> QED BY <1>1, <1>3, <1>5, AskHeard, CompleteHeard

LEMMA MtuHeard == ASSUME Shape, Listening, ~Wide, exchange_mtu_cb PROVE Listening'
<1>1. PICK p \in proc : p.kind = "mtu"
  BY DEF exchange_mtu_cb
<1>2. Ask(op, db, "primary", 1, MaxHandle) /\ UNCHANGED <<deviceVars, link>>
  BY DEF exchange_mtu_cb
<1>3. Waiting(p)
  BY <1>2, ShapeWaiting
<1>4. Heard /\ Continued(op) /\ HeardPlaces(op, db)
  BY <1>3, WaitingFacts DEF Heard, HeardPlaces, Listening
<1> QED BY <1>2, <1>4, AskHeard

LEMMA CccHeard == ASSUME Shape, Listening, ~Wide, CccWritten PROVE Listening'
<1>1. PICK ok \in BOOLEAN :
        /\ service_changed_register_cb(ok) \/ service_changed_reregister_cb
        /\ enabled' = (enabled \/ ok)
        /\ listening' = (IF ok THEN listening ELSE {})
  BY DEF CccWritten
<1>2. ccc' = "no" /\ UNCHANGED <<dev, indications, db, op, proc, svcChngdQueue>> /\ ccc # "no"
  BY <1>1 DEF CccWritten, service_changed_register_cb, service_changed_reregister_cb
<1>3. ~enabled /\ listening # {}
  BY <1>2 DEF Listening, Shape, Control
<1>4. Due' = Due
  BY <1>2 DEF Due
<1> QED BY <1>1, <1>2, <1>3, <1>4 DEF Listening

\* An indication moves from the one queue to the other, or out of the first.
LEMMA IndicationRead ==
  ASSUME Control, indications # <<>>, indications' = Tail(indications)
  PROVE  /\ Head(indications) \in Ranges /\ Tail(indications) \in Seq(Ranges)
         /\ Due = svcChngdQueue \o indications
         /\ svcChngdQueue' = Append(svcChngdQueue, Head(indications)) => Due' = Due
         /\ svcChngdQueue' = svcChngdQueue /\ svcChngdQueue = <<>> => Due' = Tail(Due) /\ Due = indications
         /\ Due \in Seq(Ranges) /\ Head(indications) \in El(Due)
         /\ El(svcChngdQueue \o Tail(indications)) \subseteq El(Due)
<1> DEFINE q == svcChngdQueue
           m == indications
           h == Head(m)
           u == Tail(m)
<1>1. q \in Seq(Ranges) /\ m \in Seq(Ranges) /\ m # <<>>
  BY DEF Control
<1>2. Due = q \o m
  BY DEF Due
<1>3. Due' = svcChngdQueue' \o u
  BY DEF Due
<1> HIDE DEF q, m
<1>4. h \in Ranges /\ u \in Seq(Ranges) /\ <<h>> \o u = m /\ h = m[1] /\ Len(m) \in Nat /\ 1 <= Len(m)
  BY <1>1, HeadTailIs
<1>5. <<h>> \in Seq(Ranges) /\ h \in El(m)
  <2>1. 1 \in 1..Len(m)
    BY <1>4
  <2> QED BY <1>1, <1>4, <2>1, SeqFacts
<1> HIDE DEF h, u
<1>6. q \o m \in Seq(Ranges) /\ El(q \o m) = El(q) \cup El(m) /\ El(q \o u) = El(q) \cup El(u)
      /\ El(<<h>> \o u) = El(<<h>>) \cup El(u)
  <2>1. q \o m \in Seq(Ranges) /\ El(q \o m) = El(q) \cup El(m)
    BY <1>1, ConcatIs
  <2>2. El(q \o u) = El(q) \cup El(u)
    BY <1>1, <1>4, ConcatIs
  <2> DEFINE x == <<h>>
  <2>3. x \in Seq(Ranges)
    BY <1>5
  <2> HIDE DEF x
  <2>4. El(x \o u) = El(x) \cup El(u)
    BY <1>4, <2>3, ConcatIs
  <2> QED BY <2>1, <2>2, <2>4 DEF x
<1>7. Append(q, h) \o u = q \o m
  <2>1. Append(q, h) = q \o <<h>>
    BY <1>1, <1>4, AppendIsConcat
  <2>2. (q \o <<h>>) \o u = q \o (<<h>> \o u)
    BY <1>1, <1>4, <1>5, ConcatThree, SMTT(30)
  <2> QED BY <1>4, <2>1, <2>2
<1>8. q = <<>> => q \o m = m /\ q \o u = u
  BY <1>1, <1>4, ConcatEmptySeq
<1> QED BY <1>1, <1>2, <1>3, <1>4, <1>5, <1>6, <1>7, <1>8 DEF q, m, h, u

LEMMA NotifyHeard == ASSUME Shape, Listening, ~Wide, notify_cb PROVE Listening'
<1> DEFINE r == Head(indications)
<1>1. /\ link = "up" /\ indications # <<>> /\ indications' = Tail(indications)
      /\ IF listening # {} THEN service_changed_cb(r)
         ELSE UNCHANGED <<db, op, proc, listening, inSvcChngd, svcChngdQueue>>
      /\ UNCHANGED <<dev, enabled, ccc>>
  BY DEF notify_cb
<1>2. Control
  BY DEF Shape
<1>3. changes # 0 /\ enabled /\ ccc # "init" /\ DbOK(db) /\ listening # {}
  BY <1>1, <1>2 DEF Control, Listening
<1>4. /\ r \in Ranges /\ r \in El(Due)
      /\ svcChngdQueue' = Append(svcChngdQueue, r) => Due' = Due
      /\ El(svcChngdQueue \o Tail(indications)) \subseteq El(Due)
  BY <1>1, <1>2, IndicationRead
<1>5. service_changed_cb(r)
  BY <1>1, <1>3
<1> HIDE DEF r
<1>6. CASE inSvcChngd
  <2>1. svcChngdQueue' = Append(svcChngdQueue, r) /\ UNCHANGED <<db, op, proc, listening>>
    BY <1>5, <1>6 DEF service_changed_cb
  <2> QED BY <1>1, <1>4, <2>1 DEF Listening
<1>7. CASE ~inSvcChngd
  <2>1. process_service_changed(db, r) /\ svcChngdQueue' = svcChngdQueue
    BY <1>5, <1>7 DEF service_changed_cb
  <2>2. Beside(dev, r) /\ DbPlaced(dev, db)
    BY <1>4 DEF Listening
  <2>3. \A q \in El(Due') : q \in El(Due)
    <3>1. Due' = svcChngdQueue \o Tail(indications)
      BY <1>1, <2>1 DEF Due
    <3> QED BY <1>4, <3>1
  <2> QED BY <1>1, <1>2, <1>3, <1>4, <2>1, <2>2, <2>3, ProcessHeard
<1> QED BY <1>6, <1>7

\* The service with Service Changed stays.
LEMMA AreaKept ==
  ASSUME NEW T, NEW U, \A s \in T \cup U : HasServiceChanged(s) => s \in T \cap U
  PROVE  ServiceChangedArea(T) = ServiceChangedArea(U) /\ \A r : Beside(T, r) => Beside(U, r)
BY DEF ServiceChangedArea, Beside

LEMMA ChangesHeard == ASSUME Shape, Listening, ~Wide, DeviceChanges PROVE Listening'
<1>t. PICK table : \E r : Changed(table, r)
  BY ChangeIs
<1>1. PICK r : Changed(table, r)
  BY <1>t
<1>2. /\ dev' = table /\ Beside(dev, r) /\ indications' = Append(indications, r) /\ r \in Ranges
      /\ \A s \in dev \cup table : HasServiceChanged(s) => s \in dev \cap table
      /\ UNCHANGED <<enabled, db, op, proc, ccc, listening, svcChngdQueue>>
  BY <1>1 DEF Changed, clientVars
<1>3. ServiceChangedArea(dev') = ServiceChangedArea(dev) /\ \A x : Beside(dev, x) => Beside(dev', x)
  BY <1>2, AreaKept
<1>4. El(Due') = El(Due) \cup {r}
  <2> DEFINE q == svcChngdQueue
             m == indications
  <2>1. q \in Seq(Ranges) /\ m \in Seq(Ranges) /\ <<r>> \in Seq(Ranges)
    BY <1>2 DEF Shape, Control
  <2>2. Due' = q \o Append(m, r) /\ Due = q \o m
    BY <1>2 DEF Due
  <2>3. El(<<r>>) = {r}
    BY DEF El
  <2> HIDE DEF q, m
  <2>4. Append(m, r) = m \o <<r>>
    BY <1>2, <2>1, AppendIsConcat
  <2> DEFINE x == <<r>>
  <2>5. m \o x \in Seq(Ranges) /\ El(m \o x) = El(m) \cup El(x)
    <3>1. m \in Seq(Ranges) /\ x \in Seq(Ranges)
      BY <2>1
    <3> HIDE DEF x
    <3> QED BY <3>1, ConcatIs
  <2> DEFINE y == m \o <<r>>
  <2>6. El(q \o y) = El(q) \cup El(y) /\ El(q \o m) = El(q) \cup El(m)
    <3>1. y \in Seq(Ranges)
      BY <2>5
    <3> HIDE DEF y
    <3> QED BY <2>1, <3>1, ConcatIs
  <2> QED BY <2>2, <2>3, <2>4, <2>5, <2>6
<1>5. \A x \in El(Due') : Beside(dev', x)
  BY <1>2, <1>3, <1>4 DEF Listening
<1>6. DbPlaced(dev', db') /\ (proc' # {} /\ ~op'.init => Beside(dev', op'))
  <2>1. DbPlaced(dev, db) /\ (proc # {} /\ ~op.init => Beside(dev, op))
    BY DEF Listening
  <2> QED BY <1>2, <1>3, <2>1 DEF DbPlaced
<1>7. \A p \in proc' : ChrcsPlaced(dev', op') /\ FoundPlaced(dev', p.kind, p.found)
  <2>1. \A p \in proc : ChrcsPlaced(dev, op) /\ FoundPlaced(dev, p.kind, p.found)
    BY DEF Listening
  <2> QED BY <1>2, <1>3, <2>1 DEF ChrcsPlaced, FoundPlaced
<1> QED BY <1>2, <1>3, <1>5, <1>6, <1>7 DEF Listening

LEMMA DisconnectHeard == ASSUME Listening, att_disconnect_cb PROVE Listening'
<1>1. proc' = {} /\ ccc' = "no" /\ UNCHANGED <<dev, enabled, indications, op, svcChngdQueue, listening>>
      /\ db' \subseteq db
  BY DEF att_disconnect_cb, deviceVars, gatt_db_clear_range
<1>2. Due' = Due
  BY <1>1 DEF Due
<1> QED BY <1>1, <1>2 DEF Listening, DbPlaced

LEMMA InitHeard == Init => Listening
<1> SUFFICES ASSUME Init PROVE Listening
  OBVIOUS
<1>1. /\ enabled = FALSE /\ ccc = "no" /\ listening = {} /\ indications = <<>> /\ svcChngdQueue = <<>> /\ db = {}
      /\ op.init = TRUE /\ op.chrcs = <<>>
  BY DEF Init, NewOp
<1>2. Due = <<>>
  BY <1>1 DEF Due
<1>3. \A p \in proc : p.found = <<>>
  BY DEF Init, Procedure
<1> QED BY <1>1, <1>2, <1>3 DEF Listening, El, DbPlaced, ChrcsPlaced, FoundPlaced

LEMMA NextListening == Shape /\ Listening /\ ~Wide /\ [Next]_vars => Listening'
<1> SUFFICES ASSUME Shape, Listening, ~Wide, [Next]_vars PROVE Listening'
  OBVIOUS
<1>1. CASE DeviceAnswers
  BY <1>1, MtuHeard, AnsweredHeard, RefusedHeard, CccHeard DEF DeviceAnswers
<1>2. CASE notify_cb
  BY <1>2, NotifyHeard
<1>3. CASE DeviceChanges
  BY <1>3, ChangesHeard
<1>4. CASE att_disconnect_cb
  BY <1>4, DisconnectHeard
<1>5. CASE UNCHANGED vars
  <2>1. Due' = Due /\ UNCHANGED <<dev, enabled, ccc, listening, db, op, proc>>
    BY <1>5 DEF vars, deviceVars, clientVars, Due
  <2> QED BY <2>1 DEF Listening
<1> QED BY <1>1, <1>2, <1>3, <1>4, <1>5 DEF Next

LEMMA ListeningAlways ==
  ASSUME ~Wide
  PROVE  Spec => [](Shape /\ Listening)
<1>1. Init => Shape /\ Listening
  BY InitShape, InitHeard
<1> QED BY <1>1, NextListening, NextShape, PTL DEF Spec

\* Discovery.ListensAgain where no change has Service Changed itself in its range: once
\* indications are enabled the client has a handler for them, however often services are
\* removed and discovered again (gatt-client.c 1096-1127, 1142-1167).
THEOREM ListensForChanges ==
  ASSUME ~Wide
  PROVE  Spec => []ListensAgain
<1>1. Listening => ListensAgain
  BY DEF Listening, ListensAgain
<1> QED BY <1>1, ListeningAlways, PTL

---------------------------------------------------------------------------
(* What the database says of the device.                                   *)

LEMMA RangesFacts ==
  ASSUME NEW Q, Q \in Seq(Ranges)
  PROVE  /\ Len(Q) \in Nat /\ DOMAIN Q = 1..Len(Q)
         /\ \A i \in 1..Len(Q) : /\ Q[i] \in Ranges /\ Q[i].start \in Nat /\ Q[i].end \in Nat
                                 /\ 1 <= Q[i].start /\ Q[i].start <= Q[i].end /\ Q[i].end <= MaxHandle
<1>1. Len(Q) \in Nat /\ DOMAIN Q = 1..Len(Q) /\ \A i \in 1..Len(Q) : Q[i] \in Ranges
  OBVIOUS
<1>2. \A r \in Ranges : /\ r.start \in Nat /\ r.end \in Nat
                        /\ 1 <= r.start /\ r.start <= r.end /\ r.end <= MaxHandle
  BY DEF Ranges, HandleRange, Handles
<1> QED BY <1>1, <1>2

LEMMA DueIs ==
  ASSUME Control
  PROVE  Due \in Seq(Ranges) /\ dev \in Tables
<1>1. svcChngdQueue \in Seq(Ranges) /\ indications \in Seq(Ranges) /\ dev \in Tables
  BY DEF Control
<1> QED BY <1>1, ConcatProperties DEF Due

\* The services of e are those of d, as far as it is about their handles.
SameHandles(d, e) ==
  /\ \A u \in e : \E t \in d : t.start = u.start /\ t.end = u.end
  /\ \A t \in d : \E u \in e : u.start = t.start /\ u.end = t.end

LEMMA ClearSame ==
  ASSUME NEW Q, NEW s, NEW t, s.start = t.start, s.end = t.end
  PROVE  Clear(Q, s) <=> Clear(Q, t)
BY DEF Clear, Overlap

LEMMA HandlesKept ==
  ASSUME NEW d, NEW e, SameHandles(d, e), NEW T, NEW Q
  PROVE  /\ Known(T, Q, d) => Known(T, Q, e)
         /\ \A o, kind : KnownOrAhead(T, Q, o, d, kind) => KnownOrAhead(T, Q, o, e, kind)
         /\ \A chrcs, starts : NotOf(Q, d, chrcs, starts) => NotOf(Q, e, chrcs, starts)
<1>1. \A s : InDb(d, s) => InDb(e, s)
  <2> SUFFICES ASSUME NEW s, InDb(d, s) PROVE InDb(e, s)
    OBVIOUS
  <2>1. PICK t \in d : t.start = s.start /\ t.end = s.end
    BY DEF InDb
  <2>2. PICK u \in e : u.start = t.start /\ u.end = t.end
    BY DEF SameHandles
  <2> QED BY <2>1, <2>2 DEF InDb
<1>2. ASSUME NEW chrcs, NEW starts, NotOf(Q, d, chrcs, starts) PROVE NotOf(Q, e, chrcs, starts)
  <2> SUFFICES ASSUME NEW i \in DOMAIN chrcs, NEW u \in e, u.start \in starts, Clear(Q, u)
               PROVE  ~(u.start <= chrcs[i].value - 1 /\ chrcs[i].value - 1 <= u.end)
    BY DEF NotOf
  <2>1. PICK t \in d : t.start = u.start /\ t.end = u.end
    BY DEF SameHandles
  <2>2. Clear(Q, t)
    BY <2>1, ClearSame
  <2> QED BY <1>2, <2>1, <2>2 DEF NotOf
<1> QED BY <1>1, <1>2 DEF Known, KnownOrAhead

LEMMA ExtendedHandles ==
  ASSUME NEW d, DbOK(d), NEW t, t \in d, NEW kinds, NEW u, NEW e, ExtendedAs(d, t, kinds, u, e)
  PROVE  SameHandles(d, e)
<1>1. \A v, w \in d : v.start = w.start => v = w
  BY DEF DbOK
<1> QED BY <1>1 DEF ExtendedAs, SameHandles

LEMMA ActivatedMeans ==
  ASSUME NEW d, DbOK(d), NEW t, t \in d, NEW e, e = gatt_db_service_set_active(d, t.start)
  PROVE  /\ SameHandles(d, e)
         /\ \A T, Q, new, begun, open : Agree(T, Q, d, new, begun, open) => Agree(T, Q, e, new, begun, open)
<1>1. PICK u : ActivatedAs(d, t, u, gatt_db_service_set_active(d, t.start))
  BY ActivatedIs
<1>2. /\ u.start = t.start /\ u.end = t.end /\ u.primary = t.primary /\ u.attrs = t.attrs
      /\ \A v : v \in e <=> v = u \/ (v \in d /\ v.start # t.start)
  BY <1>1 DEF ActivatedAs
<1>3. \A v, w \in d : v.start = w.start => v = w
  BY DEF DbOK
<1>4. \A v \in e : \E w \in d : /\ w.start = v.start /\ w.end = v.end
                                /\ w.primary = v.primary /\ w.attrs = v.attrs
  BY <1>2
<1>5. ASSUME NEW T, NEW Q, NEW new, NEW begun, NEW open, Agree(T, Q, d, new, begun, open)
      PROVE  Agree(T, Q, e, new, begun, open)
  <2> SUFFICES ASSUME NEW v \in e, Clear(Q, v) PROVE AgreeAt(T, v, new, begun, open)
    BY DEF Agree
  <2>1. PICK w \in d : w.start = v.start /\ w.end = v.end /\ w.primary = v.primary /\ w.attrs = v.attrs
    BY <1>4
  <2>2. AgreeAt(T, w, new, begun, open)
    BY <1>5, <2>1, ClearSame DEF Agree
  <2> QED BY <2>1, <2>2 DEF AgreeAt, Same
<1>6. SameHandles(d, e)
  BY <1>2, <1>3 DEF SameHandles
<1> QED BY <1>5, <1>6

LEMMA FitsIn ==
  ASSUME NEW d, DbOK(d), NEW t, t \in d
  PROVE  /\ t.start \in Nat /\ t.end \in Nat /\ 1 <= t.start /\ t.start <= t.end /\ t.end <= MaxHandle
         /\ t.start \in Handles /\ t.end \in Handles
         /\ t.attrs \in Seq(Kinds) /\ Len(t.attrs) \in Nat /\ 1 <= Len(t.attrs)
         /\ t.start + Len(t.attrs) - 1 <= t.end
BY DbIs, FitFacts

\* A service of one handle has no attribute but the first.
LEMMA SingleHandle ==
  ASSUME NEW T, T \in Tables, NEW d, DbOK(d), NEW t, t \in d, t.end = t.start, NEW s, s \in T, Same(s, t)
  PROVE  /\ t.attrs = <<"svc">> => Begun(t.attrs, s.layout)
         /\ Begun(t.attrs, s.layout) => t.attrs = s.layout
<1>1. /\ s.start = t.start /\ s.end = t.end /\ s.start \in Nat /\ s.end \in Nat
      /\ s.layout \in Seq(Kinds \cup {"gap"}) /\ WellFormed(s.layout) /\ Len(s.layout) \in Nat
      /\ 1 <= Len(s.layout) /\ s.start + Len(s.layout) - 1 <= s.end
  BY ServiceFacts DEF Same, Handles
<1>2. /\ t.start \in Nat /\ t.end \in Nat /\ t.attrs \in Seq(Kinds) /\ Len(t.attrs) \in Nat /\ 1 <= Len(t.attrs)
      /\ t.start + Len(t.attrs) - 1 <= t.end
  BY FitsIn
<1> DEFINE a == t.attrs
           l == s.layout
<1>3. Len(l) = 1 /\ Len(a) = 1 /\ l[1] = "svc" /\ a \in Seq(Kinds) /\ l \in Seq(Kinds \cup {"gap"})
  <2>1. Len(l) = 1 /\ Len(a) = 1
    <3> DEFINE m == Len(l)
               k == Len(a)
    <3>1. m \in Nat /\ 1 <= m /\ s.start + m - 1 <= s.end /\ k \in Nat /\ 1 <= k /\ t.start + k - 1 <= t.end
      BY <1>1, <1>2
    <3>2. t.start \in Nat /\ t.end = t.start /\ s.start = t.start /\ s.end = t.end
      BY <1>1, <1>2
    <3> HIDE DEF m, k
    <3>3. m = 1 /\ k = 1
      BY <3>1, <3>2
    <3> QED BY <3>3 DEF m, k
  <2>2. 1 \in DOMAIN l
    BY <1>1, <2>1
  <2> QED BY <1>1, <1>2, <2>1, <2>2 DEF WellFormed
<1> HIDE DEF a, l
<1>4. a = <<"svc">> => Begun(a, l)
  BY <1>3 DEF Begun, Begins, Boundary
<1>5. Begun(a, l) => a = l
  <2> SUFFICES ASSUME Begun(a, l) PROVE a = l
    OBVIOUS
  <2>1. a[1] = l[1]
    BY <1>3 DEF Begun, Begins
  <2> QED BY <1>3, <2>1
<1> QED BY <1>4, <1>5 DEF a, l

\* Of services of one handle, all is known when they have begun.
LEMMA SinglesAgree ==
  ASSUME NEW T, T \in Tables, NEW Q, NEW d, DbOK(d), NEW B, NEW C, Agree(T, Q, d, {}, B, 0),
         \A t \in d : t.start \in B /\ t.start \notin C => t.end = t.start, C \subseteq B
  PROVE  Agree(T, Q, d, {}, C, 0)
<1> SUFFICES ASSUME NEW t \in d, Clear(Q, t) PROVE AgreeAt(T, t, {}, C, 0)
  BY DEF Agree
<1>1. PICK s \in T : /\ Same(s, t)
                     /\ t.start \in B => Begun(t.attrs, s.layout)
                     /\ t.start \notin B /\ t.start # 0 => t.attrs = s.layout
  BY DEF Agree, AgreeAt
<1>2. t.start # 0
  BY FitsIn
<1>3. t.start \in B /\ t.start \notin C => t.attrs = s.layout
  BY <1>1, SingleHandle
<1> QED BY <1>1, <1>2, <1>3 DEF AgreeAt

---------------------------------------------------------------------------
(* A discovery ends, or goes on.                                           *)

LEMMA NoneBehind ==
  ASSUME NEW T, T \in Tables, NEW kind, NEW lo, lo \in Handles
  PROVE  Matching(T, kind, lo, lo - 1) = {}
<1>1. lo \in Nat /\ lo - 1 \in Nat
  BY DEF Handles
<1>2. AnswerOK(Matching(T, kind, lo, lo - 1), kind, lo, lo - 1)
  BY <1>1, MatchingOK
<1>3. \A f \in Matching(T, kind, lo, lo - 1) : f.at \in Nat /\ lo <= f.at /\ f.at <= lo - 1
  BY <1>2 DEF AnswerOK, Orderable
<1> QED BY <1>1, <1>3

\* The first request of a procedure.
Starting(o, d, kind, lo) ==
  /\ lo \in Handles
  /\ kind \in Grouped => lo = o.start
  /\ kind \in {"inc", "chr"} => lo = o.cur
  /\ kind = "dsc" => \A t \in d : t.start = o.cur => lo = t.start + Len(t.attrs)

LEMMA FoundNothingYet ==
  ASSUME NEW T, T \in Tables, NEW Q, NEW o, NEW d, NEW kind, NEW lo, Starting(o, d, kind, lo)
  PROVE  FoundAll(T, Q, o, d, kind, lo - 1, <<>>)
<1>1. El(<<>>) = {}
  BY DEF El
<1>2. lo \in Handles /\ Matching(T, kind, lo, lo - 1) = {}
  BY NoneBehind DEF Starting
<1>3. kind \in Grouped => Matching(T, kind, o.start, lo - 1) = {}
  BY <1>2 DEF Starting
<1>4. ASSUME kind \in {"inc", "chr", "dsc"}, NEW t \in d, t.start = o.cur
      PROVE  Matching(T, kind, IF kind = "dsc" THEN t.start + Len(t.attrs) ELSE t.start, lo - 1) = {}
  BY <1>2, <1>4 DEF Starting
<1> QED BY <1>1, <1>3, <1>4 DEF FoundAll

\* The client makes a step in a discovery.
Mindful == Busy /\ AllAligned(dev, Due)

LEMMA MindfulFacts ==
  ASSUME Mindful
  PROVE  /\ Busy /\ Control /\ dev \in Tables /\ Due \in Seq(Ranges) /\ AllAligned(dev, Due)
         /\ dev' = dev /\ indications' = indications /\ failed \in BOOLEAN
BY DueIs DEF Mindful, Busy, Control, deviceVars

LEMMA AskKeeps ==
  ASSUME Mindful, NEW o, NEW d, NEW kind, NEW lo, NEW hi, Ask(o, d, kind, lo, hi), Starting(o, d, kind, lo),
         Sense(dev, Due, o, d, kind, hi, failed)
  PROVE  Meaning'
<1> DEFINE p == [kind |-> kind, from |-> lo, to |-> hi, found |-> <<>>]
<1>1. /\ op' = o /\ db' = d /\ proc' = {p} /\ failed' = failed /\ svcChngdQueue' = svcChngdQueue
      /\ dev' = dev /\ indications' = indications /\ dev \in Tables /\ AllAligned(dev, Due)
  BY MindfulFacts DEF Ask, Procedure, clientVars
<1>2. p.kind = kind /\ p.from = lo /\ p.to = hi /\ p.found = <<>>
  OBVIOUS
<1> HIDE DEF p
<1>3. Due' = Due
  BY <1>1 DEF Due
<1>4. FoundAll(dev, Due, o, d, kind, lo - 1, <<>>)
  BY <1>1, FoundNothingYet
<1>5. AllAligned(dev', Due') /\ proc' # {}
  BY <1>1, <1>3
<1>6. \A x \in proc' : /\ Sense(dev', Due', op', db', x.kind, x.to, failed')
                       /\ FoundAll(dev', Due', op', db', x.kind, x.from - 1, x.found)
  BY <1>1, <1>2, <1>3, <1>4
<1> QED BY <1>5, <1>6 DEF Meaning

\* What a failed discovery was about is removed, the rest is known.
LEMMA ClearedAgree ==
  ASSUME NEW T, NEW Q, NEW d, DbOK(d), NEW o, o.start \in Nat, o.end \in Nat, NEW new, NEW begun, NEW open,
         Agree(T, Q, d, new, begun, open),
         \A h \in new \cup begun \cup {open} : h = 0 \/ (o.start <= h /\ h <= o.end)
  PROVE  Agree(T, Q, gatt_db_clear_range(d, o.start, o.end), {}, {}, 0)
<1> SUFFICES ASSUME NEW t \in gatt_db_clear_range(d, o.start, o.end), Clear(Q, t)
             PROVE  AgreeAt(T, t, {}, {}, 0)
  BY DEF Agree
<1>1. t \in d /\ (t.end < o.start \/ o.end < t.start)
  BY ClearedIs
<1>2. t.start \in Nat /\ t.end \in Nat /\ 1 <= t.start /\ t.start <= t.end
  BY <1>1, FitsIn
<1>3. t.start \notin new \cup begun \cup {open}
  BY <1>1, <1>2
<1>4. AgreeAt(T, t, new, begun, open)
  BY <1>1 DEF Agree
<1> QED BY <1>3, <1>4 DEF AgreeAt

\* The next range to be discovered.
LEMMA RangeTaken ==
  ASSUME NEW T, T \in Tables, NEW Q, Q \in Seq(Ranges), Q # <<>>, AllAligned(T, Q)
  PROVE  /\ Head(Q) \in Ranges /\ Head(Q).start \in Nat /\ Head(Q).end \in Nat
         /\ \A t : Clear(Q, t) <=> Clear(Tail(Q), t) /\ ~Overlap(t, Head(Q))
         /\ AllAligned(T, Tail(Q))
         /\ \A s \in T : Clear(Tail(Q), s) /\ Overlap(s, Head(Q)) => Within(s, Head(Q))
<1> DEFINE r == Head(Q)
           z == Tail(Q)
<1>1. /\ Len(Q) \in Nat /\ 1 <= Len(Q) /\ r = Q[1] /\ z \in Seq(Ranges) /\ Len(z) = Len(Q) - 1
      /\ \A i \in 1..Len(z) : z[i] = Q[i + 1]
  BY HeadTailIs, HeadTailProperties
<1>2. /\ DOMAIN Q = 1..Len(Q)
      /\ \A i \in 1..Len(Q) : Q[i] \in Ranges /\ Q[i].start \in Nat /\ Q[i].end \in Nat
  BY RangesFacts
<1>3. DOMAIN z = 1..Len(Q) - 1
  BY <1>1
<1> HIDE DEF r, z
<1>4. ASSUME NEW j \in 1..Len(Q) PROVE j = 1 \/ (j - 1 \in DOMAIN z /\ z[j - 1] = Q[j])
  BY <1>1, <1>3, <1>4
<1>5. ASSUME NEW t PROVE Clear(Q, t) <=> Clear(z, t) /\ ~Overlap(t, r)
  <2>1. ASSUME Clear(Q, t), NEW i \in DOMAIN z PROVE ~Overlap(t, z[i])
    <3>1. i + 1 \in DOMAIN Q /\ z[i] = Q[i + 1]
      BY <1>1, <1>2, <1>3
    <3> QED BY <2>1, <3>1 DEF Clear
  <2>2. Clear(Q, t) => ~Overlap(t, r)
    BY <1>1, <1>2 DEF Clear
  <2>3. ASSUME Clear(z, t), ~Overlap(t, r), NEW i \in DOMAIN Q PROVE ~Overlap(t, Q[i])
    <3>1. i = 1 \/ (i - 1 \in DOMAIN z /\ z[i - 1] = Q[i])
      BY <1>2, <1>4
    <3> QED BY <1>1, <2>3, <3>1 DEF Clear
  <2> QED BY <2>1, <2>2, <2>3 DEF Clear
<1>6. AllAligned(T, z)
  <2> SUFFICES ASSUME NEW s \in T, NEW i \in DOMAIN z, Overlap(s, z[i])
               PROVE  \E j \in i..Len(z) : Within(s, z[j])
    BY DEF AllAligned
  <2>1. i + 1 \in DOMAIN Q /\ z[i] = Q[i + 1] /\ i \in Nat /\ 1 <= i
    BY <1>1, <1>2, <1>3
  <2>2. PICK j \in (i + 1)..Len(Q) : Within(s, Q[j])
    BY <2>1 DEF AllAligned
  <2>3. j - 1 \in i..Len(z) /\ j \in 1..Len(Q) /\ j # 1
    BY <1>1, <2>1, <2>2
  <2>4. z[j - 1] = Q[j]
    BY <1>4, <2>3
  <2> QED BY <2>2, <2>3, <2>4
<1>7. ASSUME NEW s \in T, Clear(z, s), Overlap(s, r) PROVE Within(s, r)
  <2>1. PICK j \in 1..Len(Q) : Within(s, Q[j])
    BY <1>1, <1>2, <1>7 DEF AllAligned
  <2>2. Q[j].start \in Nat /\ Q[j].end \in Nat /\ s.start \in Nat /\ s.end \in Nat /\ s.start <= s.end
    BY <1>2, ServiceFacts DEF Handles
  <2>3. Overlap(s, Q[j])
    BY <2>1, <2>2 DEF Within, Overlap
  <2>4. j = 1
    BY <1>4, <1>7, <2>3 DEF Clear
  <2> QED BY <1>1, <2>1, <2>4
<1> QED BY <1>1, <1>2, <1>5, <1>6, <1>7 DEF r, z

LEMMA ProcessKeeps ==
  ASSUME dev \in Tables, Due \in Seq(Ranges), Due # <<>>, AllAligned(dev, Due), NEW d, DbOK(d), NEW f, f \in BOOLEAN,
         Settled(dev, Due, d, f), process_service_changed(d, Head(Due)),
         dev' = dev, Due' = Tail(Due), failed' \in BOOLEAN, f => failed'
  PROVE  Meaning'
<1> DEFINE r == Head(Due)
           z == Tail(Due)
           o == NewOp(r.start, r.end, FALSE)
           e == gatt_db_clear_range(d, r.start, r.end)
           p == [kind |-> "primary", from |-> r.start, to |-> r.end, found |-> <<>>]
<1>1. /\ r \in Ranges /\ r.start \in Nat /\ r.end \in Nat /\ AllAligned(dev, z)
      /\ \A t : Clear(Due, t) <=> Clear(z, t) /\ ~Overlap(t, r)
      /\ \A s \in dev : Clear(z, s) /\ Overlap(s, r) => Within(s, r)
  BY RangeTaken
<1>2. /\ o.start = r.start /\ o.end = r.end /\ r.start \in Handles
  BY <1>1, NewOpIs
<1>3. db' = e /\ op' = o /\ proc' = {p}
  BY DEF process_service_changed, Procedure
<1>4. p.kind = "primary" /\ p.from = r.start /\ p.to = r.end /\ p.found = <<>>
  OBVIOUS
<1>5. \A t : t \in e <=> t \in d /\ (t.end < r.start \/ r.end < t.start)
  BY <1>1, ClearedIs
<1>z. Due' = z
  OBVIOUS
<1> HIDE DEF r, z, o, e, p
<1>6. ASSUME NEW t \in d PROVE t \in e <=> ~Overlap(t, r)
  <2>1. t.start \in Nat /\ t.end \in Nat
    BY FitsIn
  <2> QED BY <1>1, <1>5, <2>1 DEF Overlap
<1>7. Aligned(dev, z, o)
  BY <1>1, <1>2 DEF Aligned, Within, Overlap
<1>8. Agree(dev, z, e, {}, {}, 0)
  BY <1>1, <1>5, <1>6 DEF Settled, Agree
<1>9. f \/ KnownOrAhead(dev, z, o, e, "primary")
  <2> SUFFICES ASSUME ~f, NEW s \in dev, Clear(z, s), ~Within(s, o) PROVE InDb(e, s)
    BY DEF KnownOrAhead
  <2>1. ~Overlap(s, r)
    BY <1>1, <1>2 DEF Within
  <2>2. PICK t \in d : t.start = s.start /\ t.end = s.end
    BY <1>1, <2>1 DEF Settled, Known, InDb
  <2>3. ~Overlap(t, r)
    BY <2>1, <2>2 DEF Overlap
  <2> QED BY <1>6, <2>2, <2>3 DEF InDb
<1>10. Sense(dev, z, o, e, "primary", r.end, failed')
  BY <1>7, <1>8, <1>9 DEF Sense, New, BegunOnes, Open
<1>11. FoundAll(dev, z, o, e, "primary", r.start - 1, <<>>)
  BY <1>2, FoundNothingYet DEF Starting, Grouped
<1>12. AllAligned(dev', Due') /\ proc' # {}
  BY <1>1, <1>3, <1>z
<1>13. \A x \in proc' : /\ Sense(dev', Due', op', db', x.kind, x.to, failed')
                        /\ FoundAll(dev', Due', op', db', x.kind, x.from - 1, x.found)
  BY <1>3, <1>4, <1>10, <1>11, <1>z
<1> QED BY <1>12, <1>13 DEF Meaning

LEMMA CompleteKeeps ==
  ASSUME Mindful, NEW o, Continued(o), NEW d, DbOK(d), NEW outcome, Complete(o, d, outcome),
         Settled(dev, Due, Remaining(o, d, outcome), failed \/ o.missed \/ outcome = "failed")
  PROVE  Meaning'
<1> DEFINE e == Remaining(o, d, outcome)
           f == failed \/ o.missed \/ outcome = "failed"
<1>1. /\ Control /\ dev \in Tables /\ Due \in Seq(Ranges) /\ AllAligned(dev, Due)
      /\ dev' = dev /\ indications' = indications /\ failed \in BOOLEAN
  BY MindfulFacts
<1>2. o \in Ops /\ o.missed \in BOOLEAN /\ f \in BOOLEAN
  BY <1>1 DEF Continued, Ops
<1>3. DbOK(e)
  BY <1>2, RemainingOK
<1>4. Settled(dev, Due, e, f)
  OBVIOUS
<1> HIDE DEF e, f
<1>5. ASSUME db' = e, proc' = {}, failed' = f, svcChngdQueue' = svcChngdQueue PROVE Meaning'
  <2>1. Due' = Due
    BY <1>1, <1>5 DEF Due
  <2> QED BY <1>1, <1>4, <1>5, <2>1 DEF Meaning
<1>6. CASE o.init
  <2>1. init_complete(o, d, outcome)
    BY <1>6 DEF Complete
  <2> QED BY <1>5, <2>1 DEF init_complete, MarkFailed, e, f
<1>7. CASE ~o.init
  <2>1. service_changed_complete(o, d, outcome)
    BY <1>7 DEF Complete
  <2>2. failed' = f
    BY <2>1 DEF service_changed_complete, MarkFailed, f
  <2>3. CASE svcChngdQueue = <<>>
    <3>1. db' = e /\ proc' = {} /\ svcChngdQueue' = svcChngdQueue
      BY <2>1, <2>3 DEF service_changed_complete, e
    <3> QED BY <1>5, <2>2, <3>1
  <2>4. CASE svcChngdQueue # <<>>
    <3>1. process_service_changed(e, Head(svcChngdQueue)) /\ svcChngdQueue' = Tail(svcChngdQueue)
      BY <2>1, <2>4 DEF service_changed_complete, e
    <3>2. svcChngdQueue \in Seq(Ranges) /\ indications \in Seq(Ranges)
      BY <1>1 DEF Control
    <3>3. Due # <<>> /\ Head(Due) = Head(svcChngdQueue) /\ Due' = Tail(Due)
      BY <1>1, <2>4, <3>1, <3>2 DEF Due
    <3> QED BY <1>1, <1>2, <1>3, <1>4, <2>2, <3>1, <3>3, ProcessKeeps
  <2> QED BY <2>3, <2>4
<1> QED BY <1>6, <1>7

LEMMA FailedKeeps ==
  ASSUME Mindful, NEW o, Continued(o), NEW d, DbOK(d), Complete(o, d, "failed"),
         NEW new, NEW begun, NEW open, Agree(dev, Due, d, new, begun, open),
         \A h \in new \cup begun \cup {open} : h = 0 \/ (o.start <= h /\ h <= o.end)
  PROVE  Meaning'
<1>1. o.start \in Nat /\ o.end \in Nat
  BY DEF Continued, Ops, Handles
<1>2. Agree(dev, Due, Remaining(o, d, "failed"), {}, {}, 0)
  BY <1>1, ClearedAgree DEF Remaining
<1>3. Settled(dev, Due, Remaining(o, d, "failed"), failed \/ o.missed \/ "failed" = "failed")
  BY <1>2 DEF Settled
<1> QED BY <1>3, CompleteKeeps

LEMMA FoundKeeps ==
  ASSUME Mindful, NEW o, Continued(o), NEW d, DbOK(d), Complete(o, d, "found"),
         Agree(dev, Due, d, {}, {}, 0), o.missed \/ failed \/ Known(dev, Due, d)
  PROVE  Meaning'
<1>1. Remaining(o, d, "found") = d
  BY DEF Remaining
<1>2. Settled(dev, Due, Remaining(o, d, "found"), failed \/ o.missed \/ "found" = "failed")
  BY <1>1 DEF Settled
<1> QED BY <1>2, CompleteKeeps

---------------------------------------------------------------------------
(* From one service to the next.                                           *)

\* What a discovery knows when it is about services, not about finding them.
Knowing(o, d) == Aligned(dev, Due, o) /\ (o.missed \/ failed \/ Known(dev, Due, d))

LEMMA DoingRange ==
  ASSUME Busy, NEW o, NEW d, Doing(o, d)
  PROVE  /\ \A h \in El(o.pending) \cup {o.cur} : h \in Handles /\ o.start <= h /\ h <= o.end
         /\ o.cur \notin El(o.pending)
<1>1. /\ o.pending \in Seq(Handles) /\ o.start \in Nat /\ o.end \in Nat
  BY ContinuedFacts DEF Doing, Handles
<1> DEFINE q == <<o.cur>> \o o.pending
<1>2. q \in Seq(Handles) /\ q[1] = o.cur /\ El(q) = El(o.pending) \cup {o.cur} /\ Len(q) = Len(o.pending) + 1
  BY DoingFacts
<1>3. \A i \in 1..Len(o.pending) : q[i + 1] = o.pending[i]
  BY <1>1, DoingFacts, NextInList
<1>4. Listed(o, d, q) /\ DbOK(d)
  BY DEF Doing
<1> HIDE DEF q
<1>5. Len(q) \in Nat /\ DOMAIN q = 1..Len(q) /\ El(q) \subseteq Handles
  BY <1>2, SeqFacts
<1>6. ASSUME NEW h \in El(q) PROVE h \in Handles /\ o.start <= h /\ h <= o.end
  <2>1. PICK i \in 1..Len(q) : q[i] = h
    BY <1>2, SeqFacts
  <2> QED BY <1>1, <1>4, <1>5, <2>1 DEF Listed, Handles
<1>7. ASSUME o.cur \in El(o.pending) PROVE FALSE
  <2>1. PICK i \in 1..Len(o.pending) : o.pending[i] = o.cur
    BY <1>1, <1>7, SeqFacts
  <2>2. i + 1 \in DOMAIN q /\ 1 \in DOMAIN q /\ 1 < i + 1 /\ q[i + 1] = q[1]
    BY <1>1, <1>2, <1>3, <1>5, <2>1, SeqFacts
  <2>3. PICK t \in d : t.start = q[1]
    BY <1>4, <2>2 DEF Listed
  <2>4. InTurn(t, t)
    BY <1>4, <2>2, <2>3 DEF Listed
  <2>5. t.start \in Nat /\ t.end \in Nat /\ t.start <= t.end
    BY <1>4, <2>3, FitsIn
  <2> QED BY <2>4, <2>5 DEF InTurn
<1> QED BY <1>2, <1>6, <1>7

LEMMA NextServiceKeeps ==
  ASSUME Mindful, NEW o, NEW d, Doing(o, d), NextService(o, d), Knowing(o, d),
         Agree(dev, Due, d, {}, El(o.pending), 0), NotOf(Due, d, o.chrcs, El(o.pending))
  PROVE  Meaning'
<1>b. Busy
  BY DEF Mindful
<1> DEFINE i == FirstToAsk(d, o.pending)
           s == o.pending[i]
           d1 == gatt_db_service_set_active(d, o.cur)
           o1 == [o EXCEPT !.pending = SubSeq(@, i + 1, Len(@)), !.cur = s]
<1>1. /\ o \in Ops /\ o.pending \in Seq(Handles) /\ o.chrcs \in Seq(Chrcs) /\ DbOK(d) /\ Continued(o)
      /\ dev \in Tables
  BY <1>b, ContinuedFacts, MindfulFacts DEF Doing
<1>2. PICK t \in d : t.start = o.cur
  BY <1>b, DoingFacts
<1>3. /\ SameHandles(d, d1) /\ DbOK(d1)
      /\ \A new, begun, open : Agree(dev, Due, d, new, begun, open) => Agree(dev, Due, d1, new, begun, open)
  <2>1. PICK u : ActivatedAs(d, t, u, d1)
    BY <1>1, <1>2, ActivatedIs
  <2>2. DbOK(d1)
    BY <2>1 DEF ActivatedAs
  <2> QED BY <1>1, <1>2, <2>2, ActivatedMeans
<1>4. /\ i \in 0..Len(o.pending) /\ Len(o.pending) \in Nat
      /\ \A k \in 1..Len(o.pending) : i = 0 \/ k < i => ~(End(d, o.pending[k]) > o.pending[k])
  BY <1>1, FirstToAskIs, SeqFacts
<1>5. ASSUME NEW k \in 1..Len(o.pending), i = 0 \/ k < i, NEW v \in d, v.start = o.pending[k]
      PROVE  v.end = v.start
  <2>1. ~(v.end > v.start)
    BY <1>1, <1>4, <1>5, ServiceIs
  <2>2. v.start \in Nat /\ v.end \in Nat /\ v.start <= v.end
    BY <1>1, FitsIn
  <2> QED BY <2>1, <2>2
<1>6. /\ o.missed \/ failed \/ Known(dev, Due, d1)
      /\ \A chrcs, starts : NotOf(Due, d, chrcs, starts) => NotOf(Due, d1, chrcs, starts)
  BY <1>3, HandlesKept DEF Knowing
<1>7. /\ i = 0 => Complete(o, d1, "found")
      /\ i # 0 => Ask(o1, d1, "chr", s, End(d, s))
  BY DEF NextService
<1>8. El(o.pending) = {o.pending[k] : k \in 1..Len(o.pending)}
  BY <1>1 DEF El
<1> HIDE DEF d1, i
<1>9. CASE i = 0
  <2>1. \A v \in d : v.start \in El(o.pending) /\ v.start \notin {} => v.end = v.start
    BY <1>5, <1>8, <1>9
  <2>2. Agree(dev, Due, d, {}, {}, 0)
    <3> DEFINE B == El(o.pending)
    <3> HIDE DEF B
    <3>1. Agree(dev, Due, d, {}, B, 0) /\ \A v \in d : v.start \in B /\ v.start \notin {} => v.end = v.start
      BY <2>1 DEF B
    <3> QED BY <1>1, <3>1, SinglesAgree
  <2> QED BY <1>1, <1>3, <1>6, <1>7, <1>9, <2>2, FoundKeeps
<1>10. CASE i # 0
  <2> DEFINE z == SubSeq(o.pending, i + 1, Len(o.pending))
             C == El(z) \cup {s}
  <2>1. i \in 1..Len(o.pending)
    BY <1>4, <1>10
  <2>2. /\ z \in Seq(Handles) /\ Len(z) = Len(o.pending) - i
        /\ \A k \in 1..Len(o.pending) - i : z[k] = o.pending[i + k]
    BY <1>1, <1>4, CutIs
  <2>3. /\ o1.pending = z /\ o1.cur = s /\ o1.start = o.start /\ o1.end = o.end /\ o1.missed = o.missed
        /\ o1.chrcs = o.chrcs
    BY <1>1 DEF Ops
  <2>4. El(z) = {z[k] : k \in 1..Len(z)}
    BY <2>2, SMTT(30) DEF El
  <2>s. s = o.pending[i]
    OBVIOUS
  <2> HIDE DEF z, o1, s
  <2>5. C \subseteq El(o.pending) /\ \A k \in 1..Len(o.pending) : k < i \/ o.pending[k] \in C
    <3>1. ASSUME NEW k \in 1..Len(z) PROVE i + k \in 1..Len(o.pending) /\ z[k] \in El(o.pending)
      <4>1. i \in Nat /\ Len(o.pending) \in Nat /\ 1 <= i /\ i <= Len(o.pending) /\ Len(z) = Len(o.pending) - i
        BY <1>1, <2>1, <2>2
      <4>2. k \in 1..Len(o.pending) - i /\ i + k \in 1..Len(o.pending)
        BY ONLY <4>1, k \in 1..Len(z)
      <4>3. z[k] = o.pending[i + k]
        BY <2>2, <4>2
      <4> QED BY <1>8, <4>2, <4>3
    <3>2. s \in El(o.pending)
      BY <1>8, <2>1, <2>s
    <3>3. ASSUME NEW k \in 1..Len(o.pending), ~(k < i) PROVE o.pending[k] \in C
      <4>1. k = i \/ (k - i \in 1..Len(z) /\ z[k - i] = o.pending[k])
        BY <1>4, <2>1, <2>2, <3>3
      <4> QED BY <2>4, <2>s, <4>1
    <3> QED BY <2>4, <3>1, <3>2, <3>3
  <2> HIDE DEF C
  <2>6. \A v \in d : v.start \in El(o.pending) /\ v.start \notin C => v.end = v.start
    BY <1>5, <1>8, <2>5
  <2>7. Agree(dev, Due, d1, {}, C, 0)
    <3> DEFINE B == El(o.pending)
    <3> HIDE DEF B
    <3>1. /\ Agree(dev, Due, d, {}, B, 0) /\ C \subseteq B
          /\ \A v \in d : v.start \in B /\ v.start \notin C => v.end = v.start
      BY <2>5, <2>6 DEF B
    <3>2. Agree(dev, Due, d, {}, C, 0)
      BY <1>1, <3>1, SinglesAgree
    <3> QED BY <1>3, <3>2
  <2>8. NotOf(Due, d1, o.chrcs, C)
    <3>1. NotOf(Due, d, o.chrcs, C)
      BY <2>5 DEF NotOf
    <3> QED BY <1>6, <3>1
  <2>9. El(o1.pending) \cup {o1.cur} = C
    BY <2>3 DEF C
  <2>10. Sense(dev, Due, o1, d1, "chr", End(d, s), failed)
    <3>1. Aligned(dev, Due, o1)
      BY <2>3 DEF Knowing, Aligned, Within, Overlap
    <3>2. Agree(dev, Due, d1, New(o1, "chr"), BegunOnes(o1, "chr"), Open(o1, "chr"))
      BY <2>7, <2>9 DEF New, BegunOnes, Open
    <3>3. o1.missed \/ failed \/ KnownOrAhead(dev, Due, o1, d1, "chr")
      BY <1>6, <2>3 DEF Known, KnownOrAhead
    <3> QED BY <2>3, <2>8, <2>9, <3>1, <3>2, <3>3 DEF Sense
  <2>11. Starting(o1, d1, "chr", s)
    BY <1>1, <2>1, <2>3, <2>s DEF Starting, Grouped
  <2> QED BY <1>7, <1>10, <2>10, <2>11, AskKeeps
<1> QED BY <1>9, <1>10

---------------------------------------------------------------------------
(* The characteristics of a service and their descriptors.                 *)

LEMMA BeginsAll ==
  ASSUME NEW S, NEW a, a \in Seq(S), NEW R, NEW l, l \in Seq(R), Begins(a, l), ~(Len(a) < Len(l))
  PROVE  a = l
<1>1. Len(a) \in Nat /\ Len(l) \in Nat /\ DOMAIN a = 1..Len(a) /\ DOMAIN l = 1..Len(l)
  OBVIOUS
<1>2. Len(a) <= Len(l) /\ \A i \in 1..Len(a) : a[i] = l[i]
  BY DEF Begins
<1>3. Len(a) = Len(l)
  <2> DEFINE m == Len(a)
             k == Len(l)
  <2>1. m \in Nat /\ k \in Nat /\ m <= k /\ ~(m < k)
    BY <1>1, <1>2
  <2> HIDE DEF m, k
  <2>2. m = k
    BY <2>1
  <2> QED BY <2>2 DEF m, k
<1> QED BY <1>1, <1>2, <1>3

LEMMA ChrcFacts ==
  ASSUME NEW q, q \in Seq(Chrcs)
  PROVE  /\ Len(q) \in Nat /\ DOMAIN q = 1..Len(q)
         /\ \A i \in 1..Len(q) : /\ q[i].value \in Nat /\ q[i].end \in Nat /\ q[i].kind \in Kinds
                                 /\ 1 <= q[i].value
<1>1. Len(q) \in Nat /\ DOMAIN q = 1..Len(q) /\ \A i \in 1..Len(q) : q[i] \in Chrcs
  OBVIOUS
<1>2. \A c \in Chrcs : c.value \in Nat /\ c.end \in Nat /\ c.kind \in Kinds /\ 1 <= c.value
  BY DEF Chrcs, Handles
<1> QED BY <1>1, <1>2

\* The first n characteristics are added to the attributes a, and b is what comes of it.
AddedTo(s, a, chrcs, n, b) ==
  /\ a \in Seq(Kinds) /\ chrcs \in Seq(Chrcs) /\ n \in 1..Len(chrcs)
  /\ Lacks(s, a, chrcs)
  /\ \A i \in 1..n : chrcs[i].value = s.start + Len(a) + 2 * i - 1
  /\ b = a \o Added(chrcs, n)

LEMMA AddedBegins ==
  ASSUME NEW T, T \in Tables, NEW s, s \in T, NEW a, NEW chrcs, NEW n, NEW b, AddedTo(s, a, chrcs, n, b)
  PROVE  /\ b \in Seq(Kinds) /\ Len(b) = Len(a) + 2 * n /\ Begins(b, s.layout)
         /\ chrcs[n].value = s.start + Len(b) - 1
         /\ Len(b) <= Len(s.layout) /\ s.layout[Len(b)] # "chr"
<1> DEFINE k == Added(chrcs, n)
           l == s.layout
           m == Len(a)
<1>1. /\ s.start \in Nat /\ s.end \in Nat /\ l \in Seq(Kinds \cup {"gap"}) /\ WellFormed(l) /\ Len(l) \in Nat
  BY ServiceFacts DEF Handles
<1>2. /\ a \in Seq(Kinds) /\ chrcs \in Seq(Chrcs) /\ n \in 1..Len(chrcs) /\ Lacks(s, a, chrcs)
      /\ \A i \in 1..n : chrcs[i].value = s.start + m + 2 * i - 1
      /\ b = a \o k
  BY DEF AddedTo
<1>3. /\ k \in Seq(Kinds) /\ Len(k) = 2 * n /\ n \in Nat
      /\ \A i \in 1..n : k[2 * i - 1] = "chr" /\ k[2 * i] = chrcs[i].kind
  BY <1>2, AddedIs
<1>4. m \in Nat /\ b \in Seq(Kinds) /\ Len(b) = m + 2 * n
  <2>1. a \in Seq(Kinds) /\ k \in Seq(Kinds) /\ b = a \o k /\ Len(k) = 2 * n
    BY <1>2, <1>3
  <2> HIDE DEF k
  <2>2. b \in Seq(Kinds) /\ Len(b) = Len(a) + Len(k) /\ Len(a) \in Nat
    BY <2>1, ConcatProperties, LenProperties
  <2> QED BY <2>1, <2>2
<1>5. \A i \in 1..Len(b) : b[i] = IF i <= m THEN a[i] ELSE k[i - m]
  BY <1>2, <1>3, <1>4, ConcatProperties
<1>6. Begins(a, l)
  BY <1>2 DEF Lacks
<1>7. ASSUME NEW i \in 1..n
      PROVE  m + 2 * i <= Len(l) /\ l[m + 2 * i - 1] = "chr" /\ l[m + 2 * i] = chrcs[i].kind
  <2>1. i \in DOMAIN chrcs /\ chrcs[i].value = s.start + m + 2 * i - 1 /\ i \in Nat
    BY <1>2, <1>3, ChrcFacts
  <2>2. chrcs[i].value - s.start + 1 = m + 2 * i /\ m + 2 * i - 1 = (m + 2 * i) - 1
    BY <1>1, <1>4, <2>1
  <2> HIDE DEF l, m, k
  <2>3. LET w == chrcs[i].value - s.start + 1 IN
        w <= Len(s.layout) /\ s.layout[w - 1] = "chr" /\ s.layout[w] = chrcs[i].kind
    BY <1>2, <2>1 DEF Lacks
  <2> QED BY <2>2, <2>3 DEF l
<1> HIDE DEF k, l, m
<1>8. Len(b) <= Len(l)
  <2>1. m + 2 * n <= Len(l)
    BY <1>2, <1>3, <1>7
  <2> QED BY <1>4, <2>1
<1>9. ASSUME NEW j \in 1..Len(b) PROVE b[j] = l[j]
  <2>1. CASE j <= m
    <3>1. a[j] = l[j]
      BY <1>4, <1>6, <2>1 DEF Begins, m
    <3> QED BY <1>5, <2>1, <3>1
  <2>2. CASE j > m
    <3>n. n \in Nat /\ m \in Nat /\ j \in Nat /\ j <= m + 2 * n
      BY <1>3, <1>4
    <3>1. PICK i \in 1..n : j = m + 2 * i - 1 \/ j = m + 2 * i
      <4>1. j - m \in 1..2 * n
        BY <2>2, <3>n
      <4>2. \A x \in 1..2 * n : \E i \in 1..n : x = 2 * i - 1 \/ x = 2 * i
        <5> SUFFICES ASSUME NEW x \in 1..2 * n PROVE \E i \in 1..n : x = 2 * i - 1 \/ x = 2 * i
          OBVIOUS
        <5>1. (x + 1) \div 2 \in 1..n /\ (x = 2 * ((x + 1) \div 2) - 1 \/ x = 2 * ((x + 1) \div 2))
          BY <1>3
        <5> QED BY <5>1
      <4>3. PICK i \in 1..n : j - m = 2 * i - 1 \/ j - m = 2 * i
        BY <4>1, <4>2
      <4> QED BY <3>n, <4>3
    <3>2. i \in Nat /\ b[j] = k[j - m]
      <4>1. ~(j <= m) /\ i \in Nat
        BY <2>2, <3>n
      <4> QED BY <1>5, <4>1
    <3>3. CASE j = m + 2 * i - 1
      <4>1. j - m = 2 * i - 1
        BY <1>4, <3>2, <3>3
      <4> QED BY <1>3, <1>7, <3>2, <3>3, <4>1
    <3>4. CASE j = m + 2 * i
      <4>1. j - m = 2 * i
        BY <1>4, <3>2, <3>4
      <4> QED BY <1>3, <1>7, <3>2, <3>4, <4>1
    <3> QED BY <3>1, <3>3, <3>4
  <2> QED BY <1>4, <2>1, <2>2
<1>10. Begins(b, l)
  BY <1>8, <1>9 DEF Begins
<1>11. n \in 1..n /\ Len(chrcs) \in Nat
  BY <1>2, ChrcFacts
<1>12. chrcs[n].value = s.start + Len(b) - 1
  BY <1>1, <1>2, <1>3, <1>4, <1>11
<1>13. l[Len(b)] # "chr"
  <2>1. m + 2 * n - 1 \in DOMAIN l /\ l[m + 2 * n - 1] = "chr" /\ (m + 2 * n - 1) + 1 = Len(b)
    BY <1>1, <1>3, <1>4, <1>7, <1>11
  <2>2. l[(m + 2 * n - 1) + 1] \in {"val", "scv"}
    BY <1>1, <2>1 DEF WellFormed
  <2> QED BY <2>1, <2>2
<1> QED BY <1>4, <1>8, <1>10, <1>12, <1>13 DEF l, m

\* When none of them has room for a descriptor, the service has all its attributes.
LEMMA AddedAll ==
  ASSUME NEW T, T \in Tables, NEW s, s \in T, NEW a, NEW chrcs, NEW n, NEW b, AddedTo(s, a, chrcs, n, b),
         n = Len(chrcs), ~HasRoom(chrcs[n])
  PROVE  b = s.layout
<1>1. /\ s.start \in Nat /\ s.end \in Nat /\ s.layout \in Seq(Kinds \cup {"gap"}) /\ Len(s.layout) \in Nat
      /\ s.start + Len(s.layout) - 1 <= s.end
  BY ServiceFacts DEF Handles
<1>2. /\ b \in Seq(Kinds) /\ Begins(b, s.layout) /\ chrcs[n].value = s.start + Len(b) - 1
      /\ Len(b) <= Len(s.layout)
  BY AddedBegins
<1>3. chrcs \in Seq(Chrcs) /\ Lacks(s, a, chrcs) /\ n \in DOMAIN chrcs
  BY DEF AddedTo
<1>4. chrcs[n].end = s.end /\ chrcs[n].value \in Nat
  BY <1>3, ChrcFacts DEF Lacks
<1>5. ~(Len(b) < Len(s.layout))
  <2> DEFINE m == Len(b)
             k == Len(s.layout)
  <2>1. /\ m \in Nat /\ k \in Nat /\ s.start + k - 1 <= s.end
        /\ chrcs[n].value = s.start + m - 1 /\ ~(chrcs[n].value < s.end)
    BY <1>1, <1>2, <1>4 DEF HasRoom
  <2> HIDE DEF m, k
  <2>2. ~(m < k)
    BY <1>1, <2>1
  <2> QED BY <2>2 DEF m, k
<1> QED BY <1>1, <1>2, <1>5, BeginsAll

\* Otherwise it lacks the characteristics that follow.
LEMMA AddedLacks ==
  ASSUME NEW T, T \in Tables, NEW s, s \in T, NEW a, NEW chrcs, NEW n, NEW b, AddedTo(s, a, chrcs, n, b),
         NEW rest, rest = SubSeq(chrcs, n + 1, Len(chrcs))
  PROVE  Lacks(s, b, rest)
<1> DEFINE l == s.layout
           m == Len(b)
           N == Len(chrcs)
<1>1. /\ s.start \in Nat /\ s.end \in Nat /\ Len(l) \in Nat
  BY ServiceFacts DEF Handles
<1>2. /\ b \in Seq(Kinds) /\ m = Len(a) + 2 * n /\ Begins(b, l) /\ chrcs[n].value = s.start + m - 1
      /\ m <= Len(l) /\ l[m] # "chr"
  BY AddedBegins
<1>3. /\ chrcs \in Seq(Chrcs) /\ Lacks(s, a, chrcs) /\ n \in 1..Len(chrcs) /\ a \in Seq(Kinds)
      /\ \A i \in 1..n : chrcs[i].value = s.start + Len(a) + 2 * i - 1
  BY DEF AddedTo
<1>4. /\ Len(chrcs) \in Nat /\ DOMAIN chrcs = 1..Len(chrcs)
      /\ \A i \in 1..Len(chrcs) : chrcs[i].value \in Nat /\ chrcs[i].end \in Nat
  BY <1>3, ChrcFacts
<1>n. N \in Nat
  BY <1>4
<1>5. n \in Nat /\ 1 <= n /\ n <= Len(chrcs) /\ n \in 0..Len(chrcs) /\ m \in Nat /\ Len(a) \in Nat
  BY <1>2, <1>3, <1>4
<1>6. /\ rest \in Seq(Chrcs) /\ Len(rest) = Len(chrcs) - n
      /\ \A i \in 1..Len(chrcs) - n : rest[i] = chrcs[n + i]
  BY <1>3, <1>5, CutIs
<1>7. DOMAIN rest = 1..Len(chrcs) - n
  BY <1>6
<1>c. /\ n <= N /\ DOMAIN chrcs = 1..N /\ DOMAIN rest = 1..N - n /\ Len(rest) = N - n
      /\ \A i \in 1..N : chrcs[i].value \in Nat /\ chrcs[i].end \in Nat
      /\ \A i \in 1..N - n : rest[i] = chrcs[n + i]
  BY <1>4, <1>5, <1>6, <1>7
<1> HIDE DEF m, l, N
<1>8. \A i, j \in 1..N : i < j => chrcs[i].value < chrcs[j].value
  BY <1>3, <1>c DEF Lacks
<1>9. ASSUME NEW i \in 1..N
      PROVE  /\ chrcs[i].value - s.start + 1 <= Len(l)
             /\ l[(chrcs[i].value - s.start + 1) - 1] = "chr" /\ l[chrcs[i].value - s.start + 1] = chrcs[i].kind
             /\ chrcs[i].end = (IF i = N THEN s.end ELSE chrcs[i + 1].value - 2)
  BY <1>3, <1>c DEF Lacks, l, N
<1>10. ASSUME NEW i \in 1..N - n
       PROVE  /\ n + i \in 1..N /\ rest[i] = chrcs[n + i]
              /\ m < (rest[i].value - s.start + 1) - 1
              /\ rest[i].end = (IF i = N - n THEN s.end ELSE rest[i + 1].value - 2)
  <2>0. n \in Nat /\ N \in Nat /\ rest[i] = chrcs[n + i]
    BY <1>n, <1>c, <1>5
  <2>1. n + i \in 1..N /\ rest[i] = chrcs[n + i] /\ n < n + i /\ i \in Nat
    BY ONLY <2>0, i \in 1..N - n
  <2>2. chrcs[n].value < chrcs[n + i].value
    <3>1. n \in 1..N
      BY <1>n, <1>c, <1>5
    <3> QED BY <1>8, <2>1, <3>1
  <2>3. l[(chrcs[n + i].value - s.start + 1) - 1] = "chr"
    BY <1>9, <2>1
  <2>4. (chrcs[n + i].value - s.start + 1) - 1 # m
    BY <1>2, <2>3
  <2>5. m < (chrcs[n + i].value - s.start + 1) - 1
    <3>1. chrcs[n + i].value \in Nat /\ chrcs[n].value = s.start + m - 1 /\ m \in Nat /\ s.start \in Nat
      BY <1>1, <1>2, <1>5, <1>c, <2>1
    <3> QED BY <2>2, <2>4, <3>1
  <2>6. i # N - n => n + i # N /\ i + 1 \in 1..N - n /\ n + (i + 1) = (n + i) + 1
    BY <1>n, <1>c, <1>5
  <2>7. i = N - n => n + i = N
    BY <1>n, <1>c, <1>5
  <2>8. i # N - n => rest[i + 1] = chrcs[(n + i) + 1]
    BY <1>c, <2>6
  <2> QED BY <1>9, <2>1, <2>5, <2>6, <2>7, <2>8
<1>11. ASSUME NEW k \in (m + 1)..Len(l), l[k] = "chr"
       PROVE  \E i \in DOMAIN rest : rest[i].value = s.start + k
  <2>1. k \in (Len(a) + 1)..Len(l)
    BY <1>1, <1>2, <1>5, <1>11
  <2>2. PICK i \in 1..N : chrcs[i].value = s.start + k
    BY <1>3, <1>c, <1>11, <2>1 DEF Lacks, l
  <2>3. ~(i <= n)
    <3> SUFFICES ASSUME i <= n PROVE FALSE
      OBVIOUS
    <3>1. i \in 1..n /\ i \in Nat
      BY <1>n, <1>5, <2>2
    <3>2. chrcs[i].value = s.start + Len(a) + 2 * i - 1
      BY <1>3, <3>1
    <3> QED BY <1>1, <1>2, <1>5, <1>11, <2>2, <3>1, <3>2, SMTT(30)
  <2>4. i - n \in 1..N - n /\ n + (i - n) = i
    BY <1>n, <1>c, <1>5, <2>2, <2>3
  <2>5. rest[i - n] = chrcs[i]
    BY <1>c, <2>4
  <2> QED BY <1>c, <2>2, <2>4, <2>5
<1>12. \A i, j \in DOMAIN rest : i < j => rest[i].value < rest[j].value
  <2> SUFFICES ASSUME NEW i \in DOMAIN rest, NEW j \in DOMAIN rest, i < j
               PROVE  rest[i].value < rest[j].value
    OBVIOUS
  <2>1. /\ n + i \in 1..N /\ n + j \in 1..N
        /\ rest[i] = chrcs[n + i] /\ rest[j] = chrcs[n + j]
    BY <1>c, <1>10
  <2>2. n + i < n + j
    BY <1>n, <1>c, <1>5
  <2> QED BY <1>8, <2>1, <2>2
<1>13. Lacks(s, b, rest)
  <2>1. ASSUME NEW i \in DOMAIN rest
        PROVE  /\ rest[i].value - s.start + 1 <= Len(l) /\ m < (rest[i].value - s.start + 1) - 1
               /\ l[(rest[i].value - s.start + 1) - 1] = "chr" /\ l[rest[i].value - s.start + 1] = rest[i].kind
               /\ rest[i].end = (IF i = Len(rest) THEN s.end ELSE rest[i + 1].value - 2)
    <3>1. i \in 1..N - n
      BY <1>c
    <3>2. /\ n + i \in 1..N /\ rest[i] = chrcs[n + i] /\ m < (rest[i].value - s.start + 1) - 1
          /\ rest[i].end = (IF i = N - n THEN s.end ELSE rest[i + 1].value - 2)
      BY <1>10, <3>1
    <3>3. /\ chrcs[n + i].value - s.start + 1 <= Len(l)
          /\ l[(chrcs[n + i].value - s.start + 1) - 1] = "chr"
          /\ l[chrcs[n + i].value - s.start + 1] = chrcs[n + i].kind
      BY <1>9, <3>2
    <3> QED BY <1>c, <3>2, <3>3
  <2> QED BY <1>2, <1>11, <1>12, <2>1 DEF Lacks, l, m
<1> QED BY <1>13

\* The service t of d is u in e, with more attributes; the others agree as they did.
LEMMA ExtendedAgree ==
  ASSUME NEW T, NEW Q, NEW d, DbOK(d), NEW t, t \in d, NEW kinds, NEW u, NEW e, ExtendedAs(d, t, kinds, u, e),
         NEW new, NEW begun, NEW open, Agree(T, Q, d, new, begun, open),
         NEW n2, NEW b2, NEW o2, Clear(Q, t) => AgreeAt(T, u, n2, b2, o2),
         \A h : h # t.start =>
           /\ h \in n2 => h \in new
           /\ h \in b2 => h \in begun
           /\ h \in new \cup begun \cup {open} => h \in n2 \cup b2 \cup {o2}
  PROVE  Agree(T, Q, e, n2, b2, o2)
<1> SUFFICES ASSUME NEW v \in e, Clear(Q, v) PROVE AgreeAt(T, v, n2, b2, o2)
  BY DEF Agree
<1>1. u.start = t.start /\ u.end = t.end /\ (v = u \/ (v \in d /\ v.start # t.start))
  BY DEF ExtendedAs
<1>2. CASE v = u
  BY <1>1, <1>2, ClearSame
<1>3. CASE v \in d /\ v.start # t.start
  <2>1. AgreeAt(T, v, new, begun, open)
    BY <1>3 DEF Agree
  <2>2. PICK s \in T :
          /\ Same(s, v)
          /\ v.start \in new => v.attrs = <<"svc">>
          /\ v.start \in begun => Begun(v.attrs, s.layout)
          /\ v.start \notin (new \cup begun \cup {open}) => v.attrs = s.layout
    BY <2>1 DEF AgreeAt
  <2>3. /\ v.start \in n2 => v.start \in new
        /\ v.start \in b2 => v.start \in begun
        /\ v.start \in new \cup begun \cup {open} => v.start \in n2 \cup b2 \cup {o2}
    BY <1>3
  <2> QED BY <2>2, <2>3 DEF AgreeAt
<1> QED BY <1>1, <1>2, <1>3

\* The service worked on, with the characteristics to be added to it.
Adding(o, t) ==
  \E s \in dev :
    /\ Same(s, t)
    /\ o.chrcs = <<>> => t.attrs = s.layout
    /\ o.chrcs # <<>> /\ Expected(t, o.chrcs[1].value, 2) => Lacks(s, t.attrs, o.chrcs)

LEMMA DescsKeeps ==
  ASSUME Mindful, NEW o, NEW d, Doing(o, d), discover_descs(o, d), Knowing(o, d),
         Agree(dev, Due, d, {}, El(o.pending), o.cur), NotOf(Due, d, o.chrcs, El(o.pending)),
         \A t \in d : t.start = o.cur /\ Clear(Due, t) => Adding(o, t)
  PROVE  Meaning'
<1>b. Busy
  BY DEF Mindful
<1> DEFINE n  == ToAdd(o.chrcs)
           e  == Extended(d, o.cur, Added(o.chrcs, n))
           r  == SubSeq(o.chrcs, n + 1, Len(o.chrcs))
           o1 == [o EXCEPT !.chrcs = SubSeq(@, n + 1, Len(@))]
<1>1. /\ Continued(o) /\ DbOK(d) /\ Listed(o, d, <<o.cur>> \o o.pending)
      /\ o \in Ops /\ o.chrcs \in Seq(Chrcs) /\ o.pending \in Seq(Handles) /\ dev \in Tables
  BY <1>b, ContinuedFacts, MindfulFacts DEF Doing
<1>2. IF \E i \in 1..n : ~Expected(Service(d, o.cur), o.chrcs[i].value, 2 * i)
      THEN Complete(o, d, "failed")
      ELSE IF FirstWithRoom(o.chrcs) = 0 THEN NextService(o1, e)
           ELSE Ask(o1, e, "dsc", o.chrcs[n].value + 1, o.chrcs[n].end)
  BY DEF discover_descs, Added, ToAdd
<1>3. /\ n \in 0..Len(o.chrcs) /\ Len(o.chrcs) \in Nat /\ n \in Nat
      /\ FirstWithRoom(o.chrcs) # 0 => n \in 1..Len(o.chrcs) /\ HasRoom(o.chrcs[n])
      /\ FirstWithRoom(o.chrcs) = 0 =>
           n = Len(o.chrcs) /\ \A i \in 1..Len(o.chrcs) : i <= n => ~HasRoom(o.chrcs[i])
  BY <1>1, ToAddIs
<1>r. \A h \in El(o.pending) \cup {o.cur} : h \in Handles /\ o.start <= h /\ h <= o.end
  BY <1>b, DoingRange
<1> HIDE DEF n
<1>4. CASE \E i \in 1..n : ~Expected(Service(d, o.cur), o.chrcs[i].value, 2 * i)
  <2>1. Complete(o, d, "failed")
    BY <1>2, <1>4
  <2>2. \A h \in {} \cup El(o.pending) \cup {o.cur} : h = 0 \/ (o.start <= h /\ h <= o.end)
    BY <1>r
  <2> QED BY <1>1, <2>1, <2>2, FailedKeeps
<1>5. CASE \A i \in 1..n : Expected(Service(d, o.cur), o.chrcs[i].value, 2 * i)
  <2>t. PICK t \in d : \E u :
          /\ t.start = o.cur /\ ~t.active /\ Service(d, o.cur) = t
          /\ ExtendedAs(d, t, Added(o.chrcs, n), u, Extended(d, o.cur, Added(o.chrcs, n)))
          /\ Len(Added(o.chrcs, n)) = 2 * n
          /\ n # 0 => o.chrcs[n].value = t.start + Len(t.attrs) + 2 * n - 1
    <3>1. n \in 0..Len(o.chrcs)
      BY <1>3
    <3> QED BY ONLY <1>b, <1>5, <3>1, ExtendedByChrcs, Doing(o, d), ZenonT(40)
  <2>1. PICK u :
          /\ t.start = o.cur /\ Service(d, o.cur) = t
          /\ ExtendedAs(d, t, Added(o.chrcs, n), u, e)
          /\ n # 0 => o.chrcs[n].value = t.start + Len(t.attrs) + 2 * n - 1
          /\ Len(Added(o.chrcs, n)) = 2 * n
    BY <2>t
  <2>2. Listed(o, e, <<o.cur>> \o o.pending)
    BY <1>1, <2>1, ExtendedListed
  <2>3. DbOK(e) /\ SameHandles(d, e)
    <3>1. DbOK(d) /\ ExtendedAs(d, t, Added(o.chrcs, n), u, e)
      BY <1>1, <2>1
    <3> HIDE DEF e
    <3>2. SameHandles(d, e)
      BY <3>1, ExtendedHandles
    <3> QED BY <3>1, <3>2 DEF ExtendedAs
  <2>4. r \in Seq(Chrcs) /\ Len(r) = Len(o.chrcs) - n /\ \A i \in 1..Len(o.chrcs) - n : r[i] = o.chrcs[n + i]
    BY <1>1, <1>3, CutIs
  <2>5. o1 = [o EXCEPT !.chrcs = r]
    OBVIOUS
  <2>r. r = SubSeq(o.chrcs, n + 1, Len(o.chrcs))
    OBVIOUS
  <2> HIDE DEF r, o1, e
  <2>6. /\ o1 \in Ops /\ o1.start = o.start /\ o1.end = o.end /\ o1.init = o.init /\ o1.missed = o.missed
        /\ o1.pending = o.pending /\ o1.cur = o.cur /\ o1.chrcs = r
    BY <1>1, <2>4, <2>5 DEF Ops
  <2>7. Doing(o1, e)
    <3>1. Continued(o1) /\ Listed(o1, e, <<o1.cur>> \o o1.pending)
      BY <1>1, <2>2, <2>6 DEF Continued, Listed
    <3> QED BY <2>3, <3>1 DEF Doing
  <2>8. Knowing(o1, e)
    <3>1. Known(dev, Due, d) => Known(dev, Due, e)
      BY <2>3, HandlesKept
    <3> QED BY <2>6, <3>1 DEF Knowing, Aligned, Within, Overlap
  <2>9. NotOf(Due, e, o1.chrcs, El(o1.pending))
    <3>1. NotOf(Due, e, o.chrcs, El(o.pending))
      BY <2>3, HandlesKept
    <3>2. \A i \in DOMAIN r : \E j \in DOMAIN o.chrcs : r[i] = o.chrcs[j]
      <4>1. ASSUME NEW i \in DOMAIN r PROVE n + i \in DOMAIN o.chrcs /\ r[i] = o.chrcs[n + i]
        <5> DEFINE N == Len(o.chrcs)
        <5>1. DOMAIN r = 1..N - n /\ DOMAIN o.chrcs = 1..N /\ N \in Nat /\ n \in Nat /\ n <= N
          BY <1>1, <1>3, <2>4
        <5>2. \A k \in 1..N - n : r[k] = o.chrcs[n + k]
          BY <2>4
        <5> HIDE DEF N
        <5> QED BY <5>1, <5>2
      <4> QED BY <4>1
    <3> QED BY <2>6, <3>1, <3>2 DEF NotOf
  \* All of what is added is what a clear service has.
  <2>10. ASSUME Clear(Due, t)
         PROVE  \E s \in dev :
                  /\ Same(s, t)
                  /\ n = 0 => u.attrs = s.layout
                  /\ n # 0 => AddedTo(s, t.attrs, o.chrcs, n, u.attrs)
    <3>1. Adding(o, t)
      BY <2>1, <2>10
    <3>2. PICK s \in dev :
            /\ Same(s, t)
            /\ o.chrcs = <<>> => t.attrs = s.layout
            /\ o.chrcs # <<>> /\ Expected(t, o.chrcs[1].value, 2) => Lacks(s, t.attrs, o.chrcs)
      BY <3>1 DEF Adding
    <3>3. u.attrs = t.attrs \o Added(o.chrcs, n) /\ t.attrs \in Seq(Kinds)
      BY <1>1, <2>1, FitsIn DEF ExtendedAs
    <3>4. CASE n = 0
      <4>1. o.chrcs = <<>>
        BY <1>1, <1>3, <3>4
      <4>2. Added(o.chrcs, n) = <<>>
        BY <1>1, <1>3, <2>1, <3>4, AddedIs
      <4> QED BY <3>2, <3>3, <3>4, <4>1, <4>2
    <3>5. CASE n # 0
      <4>1. n \in 1..Len(o.chrcs) /\ 1 \in 1..n /\ 2 * 1 = 2 /\ o.chrcs # <<>>
        BY <1>1, <1>3, <3>5
      <4>2. Lacks(s, t.attrs, o.chrcs)
        BY <1>5, <2>1, <3>2, <4>1
      <4>3. \A i \in 1..n : o.chrcs[i].value = s.start + Len(t.attrs) + 2 * i - 1
        BY <1>5, <2>1, <3>2 DEF Expected, Same
      <4>4. AddedTo(s, t.attrs, o.chrcs, n, u.attrs)
        BY <1>1, <3>3, <4>1, <4>2, <4>3 DEF AddedTo
      <4> QED BY <3>2, <3>5, <4>4
    <3> QED BY <3>4, <3>5
  <2>11. u.start = t.start /\ u.end = t.end /\ u.primary = t.primary /\ u \in e
         /\ \A v \in e : v.start = u.start => v = u
    BY <2>1 DEF ExtendedAs, DbOK
  <2>12. CASE FirstWithRoom(o.chrcs) = 0
    <3>1. Clear(Due, t) => AgreeAt(dev, u, {}, El(o.pending), 0)
      <4> SUFFICES ASSUME Clear(Due, t) PROVE AgreeAt(dev, u, {}, El(o.pending), 0)
        OBVIOUS
      <4>1. PICK s \in dev :
              /\ Same(s, t)
              /\ n = 0 => u.attrs = s.layout
              /\ n # 0 => AddedTo(s, t.attrs, o.chrcs, n, u.attrs)
        BY <2>10
      <4>2. n # 0 => n = Len(o.chrcs) /\ ~HasRoom(o.chrcs[n])
        BY <1>3, <2>12
      <4>3. u.attrs = s.layout
        BY <1>1, <4>1, <4>2, AddedAll
      <4>4. u.start \notin El(o.pending)
        BY <1>b, <2>1, <2>11, DoingRange
      <4> QED BY <2>11, <4>1, <4>3, <4>4 DEF AgreeAt, Same
    <3>2. Agree(dev, Due, e, {}, El(o.pending), 0)
      <4> DEFINE B == El(o.pending)
      <4>1. /\ Agree(dev, Due, d, {}, B, o.cur) /\ (Clear(Due, t) => AgreeAt(dev, u, {}, B, 0))
            /\ ExtendedAs(d, t, Added(o.chrcs, n), u, e) /\ o.cur = t.start
        BY <2>1, <3>1
      <4> HIDE DEF B
      <4>2. \A h : h # t.start => /\ h \in {} => h \in {}
                                  /\ h \in B => h \in B
                                  /\ h \in {} \cup B \cup {o.cur} => h \in {} \cup B \cup {0}
        BY <4>1
      <4>3. Agree(dev, Due, e, {}, B, 0)
        BY <1>1, <4>1, <4>2, ExtendedAgree
      <4> QED BY <4>3 DEF B
    <3>3. NextService(o1, e)
      BY <1>2, <1>5, <2>1, <2>12
    <3> QED BY <2>6, <2>7, <2>8, <2>9, <3>2, <3>3, NextServiceKeeps
  <2>13. CASE FirstWithRoom(o.chrcs) # 0
    <3> DEFINE lo == o.chrcs[n].value + 1
               hi == o.chrcs[n].end
    <3>n. n # 0 /\ n \in 1..Len(o.chrcs)
      BY <1>3, <2>13
    <3>1. Ask(o1, e, "dsc", lo, hi)
      BY <1>2, <1>5, <2>1, <2>13
    <3>2. Clear(Due, t) => \E s \in dev : Same(s, u) /\ Lacks(s, u.attrs, o1.chrcs)
                                         /\ hi = (IF o1.chrcs = <<>> THEN s.end ELSE o1.chrcs[1].value - 2)
      <4> SUFFICES ASSUME Clear(Due, t)
                   PROVE  \E s \in dev : Same(s, u) /\ Lacks(s, u.attrs, o1.chrcs)
                                         /\ hi = (IF o1.chrcs = <<>> THEN s.end ELSE o1.chrcs[1].value - 2)
        OBVIOUS
      <4>1. PICK s \in dev : Same(s, t) /\ AddedTo(s, t.attrs, o.chrcs, n, u.attrs)
        BY <2>10, <3>n
      <4>2. Lacks(s, u.attrs, r) /\ hi = (IF r = <<>> THEN s.end ELSE r[1].value - 2)
        <5>1. dev \in Tables
          BY <1>1
        <5> DEFINE w == u.attrs
                   a == t.attrs
                   c == o.chrcs
        <5>2. AddedTo(s, a, c, n, w) /\ r = SubSeq(c, n + 1, Len(c))
          BY <2>r, <4>1
        <5> HIDE DEF w, a, c
        <5>3. Lacks(s, w, r)
          BY ONLY <5>1, <5>2, AddedLacks, s \in dev
        <5> DEFINE N == Len(c)
        <5>4. /\ N \in Nat /\ DOMAIN c = 1..N /\ r \in Seq(Chrcs) /\ Len(r) = N - n /\ n \in 1..N
              /\ \A i \in 1..N - n : r[i] = c[n + i]
          BY <1>1, <2>4, <3>n DEF c
        <5>5. c[n].end = (IF n = N THEN s.end ELSE c[n + 1].value - 2)
          <6>1. Lacks(s, a, c)
            BY <5>2 DEF AddedTo
          <6> QED BY <5>4, <6>1 DEF Lacks
        <5> HIDE DEF N
        <5>6. c[n].end = (IF r = <<>> THEN s.end ELSE r[1].value - 2)
          <6>1. CASE n = N
            <7>1. r = <<>>
              BY <5>4, <6>1
            <7> QED BY <5>5, <6>1, <7>1
          <6>2. CASE n # N
            <7>1. 1 \in 1..N - n /\ Len(r) # 0
              BY <5>4, <6>2
            <7>2. r # <<>> /\ r[1] = c[n + 1]
              BY <5>4, <7>1
            <7> QED BY <5>5, <6>2, <7>2
          <6> QED BY <6>1, <6>2
        <5> QED BY <5>3, <5>6 DEF w, c
      <4>3. Same(s, u)
        BY <2>11, <4>1 DEF Same
      <4> QED BY <2>6, <4>2, <4>3
    <3>3. Agree(dev, Due, e, {}, El(o.pending), o.cur)
      <4> DEFINE B == El(o.pending)
      <4>1. Clear(Due, t) => AgreeAt(dev, u, {}, B, o.cur)
        <5>1. u.start \notin B /\ u.start = o.cur
          BY <1>b, <2>1, <2>11, DoingRange
        <5> QED BY <3>2, <5>1 DEF AgreeAt
      <4>2. Agree(dev, Due, d, {}, B, o.cur) /\ ExtendedAs(d, t, Added(o.chrcs, n), u, e)
        BY <2>1
      <4> HIDE DEF B
      <4>3. \A h : h # t.start => /\ h \in {} => h \in {}
                                  /\ h \in B => h \in B
                                  /\ h \in {} \cup B \cup {o.cur} => h \in {} \cup B \cup {o.cur}
        OBVIOUS
      <4>4. Agree(dev, Due, e, {}, B, o.cur)
        BY <1>1, <4>1, <4>2, <4>3, ExtendedAgree
      <4> QED BY <4>4 DEF B
    <3>4. Sense(dev, Due, o1, e, "dsc", hi, failed)
      <4>1. Agree(dev, Due, e, New(o1, "dsc"), BegunOnes(o1, "dsc"), Open(o1, "dsc"))
        BY <2>6, <3>3 DEF New, BegunOnes, Open
      <4>2. /\ Aligned(dev, Due, o1)
            /\ o1.missed \/ failed \/ KnownOrAhead(dev, Due, o1, e, "dsc")
        BY <2>8 DEF Knowing, Known, KnownOrAhead
      <4>3. \A v \in e : v.start = o1.cur /\ Clear(Due, v) =>
              \E s \in dev : Same(s, v) /\ Lacks(s, v.attrs, o1.chrcs)
                             /\ hi = (IF o1.chrcs = <<>> THEN s.end ELSE o1.chrcs[1].value - 2)
        BY <2>1, <2>6, <2>11, <3>2, ClearSame
      <4> HIDE DEF hi
      <4> QED BY <2>9, <4>1, <4>2, <4>3 DEF Sense
    <3>5. Starting(o1, e, "dsc", lo)
      <4>1. u.start + Len(u.attrs) = lo
        <5> DEFINE a == Len(t.attrs)
                   c == Len(u.attrs)
                   k == Len(Added(o.chrcs, n))
        <5>1. /\ t.start \in Nat /\ a \in Nat /\ k = 2 * n /\ c = a + k /\ u.start = t.start
              /\ o.chrcs[n].value = t.start + a + 2 * n - 1
          BY <1>1, <2>1, <2>11, <3>n, FitsIn DEF ExtendedAs
        <5> HIDE DEF a, c, k
        <5>2. u.start + c = lo
          BY <1>3, <5>1
        <5> QED BY <5>2 DEF c
      <4>2. lo \in Handles
        <5>1. HasRoom(o.chrcs[n]) /\ o.chrcs[n] \in Chrcs
          BY <1>1, <1>3, <2>13
        <5> QED BY <5>1 DEF HasRoom, Chrcs, Handles
      <4>3. \A v \in e : v.start = o1.cur => lo = v.start + Len(v.attrs)
        BY <2>1, <2>6, <2>11, <4>1
      <4> HIDE DEF lo
      <4> QED BY <4>2, <4>3 DEF Starting, Grouped
    <3> QED BY <3>1, <3>4, <3>5, AskKeeps
  <2> QED BY <2>12, <2>13
<1> QED BY <1>4, <1>5

\* What was found at a handle of a service is an attribute of it.
LEMMA FoundInService ==
  ASSUME NEW T, T \in Tables, NEW s, s \in T, NEW kind, kind \in {"inc", "chr", "dsc"}, NEW lo, lo \in Nat,
         NEW hi, hi \in Nat, NEW f, f \in Matching(T, kind, lo, hi), s.start <= f.at, f.at <= s.end
  PROVE  \E i \in Wanted(s, kind, lo, hi) : f = Item(kind, s, i) /\ f.at = s.start + i - 1
<1>1. kind \notin Grouped
  BY DEF Grouped
<1>s. PICK v \in T : \E i \in Wanted(v, kind, lo, hi) : f = Item(kind, v, i)
  BY <1>1, MatchingIs
<1>2. PICK i \in Wanted(v, kind, lo, hi) : f = Item(kind, v, i)
  BY <1>s
<1>3. f.at = v.start + i - 1 /\ f.at \in Int /\ i \in Nat /\ 1 <= i /\ f.at <= v.end
  BY <1>2, ItemFacts, WantedFacts DEF Handles
<1>4. v.start \in Int
  BY ServiceFacts DEF Handles
<1>5. v = s
  BY <1>3, <1>4, OneAtHandle
<1> QED BY <1>2, <1>3, <1>5

LEMMA WantedFound ==
  ASSUME NEW T, T \in Tables, NEW s, s \in T, NEW kind, kind \in {"inc", "chr", "dsc"}, NEW lo, lo \in Nat,
         NEW hi, hi \in Nat, NEW i, i \in Wanted(s, kind, lo, hi)
  PROVE  Item(kind, s, i) \in Matching(T, kind, lo, hi) /\ Item(kind, s, i).at = s.start + i - 1
<1>1. kind \notin Grouped
  BY DEF Grouped
<1>2. Item(kind, s, i) \in Matching(T, kind, lo, hi)
  BY <1>1, MatchingIs
<1> QED BY <1>2, ItemFacts

\* The services of the device without handles that have no attribute.
LEMMA NoGap ==
  ASSUME NoGaps, NEW T, T \in Tables, NEW s, s \in T, NEW i, i \in 1..Len(s.layout)
  PROVE  s.layout[i] # "gap" /\ i \in DOMAIN s.layout
<1>1. i \in DOMAIN s.layout
  BY ServiceFacts
<1> QED BY <1>1 DEF NoGaps

\* Descriptors have been asked for up to the handle to, for a service with the attributes a.
AskedDescs(T, s, a, chrcs, to) ==
  /\ T \in Tables /\ s \in T /\ a \in Seq(Kinds) /\ chrcs \in Seq(Chrcs) /\ Lacks(s, a, chrcs) /\ to \in Nat
  /\ to = (IF chrcs = <<>> THEN s.end ELSE chrcs[1].value - 2)

LEMMA AskedFacts ==
  ASSUME NEW T, NEW s, NEW a, NEW chrcs, NEW to, AskedDescs(T, s, a, chrcs, to)
  PROVE  /\ s.start \in Nat /\ s.end \in Nat /\ s.layout \in Seq(Kinds \cup {"gap"})
         /\ Len(a) \in Nat /\ Len(s.layout) \in Nat /\ Len(a) <= Len(s.layout) /\ Begins(a, s.layout)
         /\ s.start + Len(s.layout) - 1 <= s.end /\ to <= s.end
         /\ chrcs = <<>> => to = s.end
         /\ chrcs # <<>> =>
              /\ 1 \in DOMAIN chrcs /\ chrcs[1].value \in Nat /\ to = chrcs[1].value - 2
              /\ Len(a) < (chrcs[1].value - s.start + 1) - 1
              /\ chrcs[1].value - s.start + 1 <= Len(s.layout)
              /\ s.layout[(chrcs[1].value - s.start + 1) - 1] = "chr"
<1>1. /\ s.start \in Nat /\ s.end \in Nat /\ s.layout \in Seq(Kinds \cup {"gap"}) /\ Len(s.layout) \in Nat
      /\ s.start + Len(s.layout) - 1 <= s.end
  BY ServiceFacts DEF Handles, AskedDescs
<1>2. /\ Lacks(s, a, chrcs) /\ a \in Seq(Kinds) /\ chrcs \in Seq(Chrcs) /\ to \in Nat
      /\ to = (IF chrcs = <<>> THEN s.end ELSE chrcs[1].value - 2)
  BY DEF AskedDescs
<1>3. Begins(a, s.layout) /\ Len(a) <= Len(s.layout) /\ Len(a) \in Nat
  BY <1>2 DEF Lacks, Begins
<1>4. chrcs # <<>> =>
        /\ 1 \in DOMAIN chrcs /\ chrcs[1].value \in Nat /\ to = chrcs[1].value - 2
        /\ Len(a) < (chrcs[1].value - s.start + 1) - 1
        /\ chrcs[1].value - s.start + 1 <= Len(s.layout)
        /\ s.layout[(chrcs[1].value - s.start + 1) - 1] = "chr"
  <2> SUFFICES ASSUME chrcs # <<>>
               PROVE  /\ 1 \in DOMAIN chrcs /\ chrcs[1].value \in Nat /\ to = chrcs[1].value - 2
                      /\ Len(a) < (chrcs[1].value - s.start + 1) - 1
                      /\ chrcs[1].value - s.start + 1 <= Len(s.layout)
                      /\ s.layout[(chrcs[1].value - s.start + 1) - 1] = "chr"
    OBVIOUS
  <2>1. 1 \in DOMAIN chrcs /\ chrcs[1].value \in Nat
    <3>1. Len(chrcs) # 0
      BY <1>2
    <3> QED BY <1>2, <3>1, ChrcFacts
  <2>2. /\ Len(a) < (chrcs[1].value - s.start + 1) - 1
        /\ chrcs[1].value - s.start + 1 <= Len(s.layout)
        /\ s.layout[(chrcs[1].value - s.start + 1) - 1] = "chr"
    BY <1>2, <2>1 DEF Lacks
  <2> QED BY <1>2, <2>1, <2>2
<1>5. to <= s.end
  <2>1. CASE chrcs = <<>>
    BY <1>1, <1>2, <2>1
  <2>2. CASE chrcs # <<>>
    <3> DEFINE m == Len(s.layout)
               w == chrcs[1].value
    <3>1. m \in Nat /\ w \in Nat /\ to = w - 2 /\ w - s.start + 1 <= m /\ s.start + m - 1 <= s.end
      BY <1>1, <1>4, <2>2
    <3> HIDE DEF m, w
    <3> QED BY <1>1, <3>1
  <2> QED BY <2>1, <2>2
<1> QED BY <1>1, <1>2, <1>3, <1>4, <1>5

\* If there are none, the service has all its attributes.
LEMMA NoDescs ==
  ASSUME NoGaps, NEW T, NEW s, NEW a, NEW chrcs, NEW to, AskedDescs(T, s, a, chrcs, to),
         s.start + Len(a) <= to, Matching(T, "dsc", s.start + Len(a), to) = {}
  PROVE  a = s.layout
<1> DEFINE m == Len(a)
           k == Len(s.layout)
<1>1. /\ s.start \in Nat /\ s.end \in Nat /\ m \in Nat /\ k \in Nat /\ m <= k /\ Begins(a, s.layout)
      /\ s.start + k - 1 <= s.end
      /\ chrcs = <<>> => to = s.end
      /\ chrcs # <<>> => /\ chrcs[1].value \in Nat /\ to = chrcs[1].value - 2
                         /\ m < (chrcs[1].value - s.start + 1) - 1
                         /\ chrcs[1].value - s.start + 1 <= k
  BY AskedFacts
<1>2. T \in Tables /\ s \in T /\ to \in Nat /\ a \in Seq(Kinds) /\ s.layout \in Seq(Kinds \cup {"gap"})
  BY AskedFacts DEF AskedDescs
<1>3. s.start + m <= to
  OBVIOUS
<1> HIDE DEF m, k
<1>4. ASSUME m < k PROVE FALSE
  <2>1. m + 1 \in 1..k
    BY <1>1, <1>4
  <2>2. s.layout[m + 1] # "gap" /\ m + 1 \in DOMAIN s.layout
    BY <1>2, <2>1, NoGap DEF k
  <2>3. s.start + (m + 1) - 1 \in (s.start + m)..to
    BY <1>1, <1>2, <1>3
  <2>4. m + 1 \in Wanted(s, "dsc", s.start + m, to)
    BY <2>2, <2>3 DEF Wanted
  <2>5. Item("dsc", s, m + 1) \in Matching(T, "dsc", s.start + m, to)
    BY <1>1, <1>2, <2>4, WantedFound
  <2> QED BY <2>5 DEF m
<1> QED BY <1>2, <1>1, <1>4, BeginsAll DEF m, k

\* Those found are added to the service.
LEMMA DescsAdded ==
  ASSUME NoGaps, NEW T, NEW s, NEW a, NEW chrcs, NEW to, AskedDescs(T, s, a, chrcs, to),
         NEW found, found \in Seq(Items), El(found) = Matching(T, "dsc", s.start + Len(a), to),
         \A i \in 1..Len(found) : found[i].at = s.start + Len(a) + i - 1,
         NEW b, b = a \o FoundKinds(found)
  PROVE  /\ Begins(b, s.layout)
         /\ chrcs = <<>> => b = s.layout
         /\ chrcs # <<>> /\ chrcs[1].value = s.start + Len(b) + 1 => Lacks(s, b, chrcs)
<1> DEFINE m == Len(a)
           k == Len(s.layout)
           n == Len(found)
           z == FoundKinds(found)
           lo == s.start + m
<1>1. /\ s.start \in Nat /\ s.end \in Nat /\ m \in Nat /\ k \in Nat /\ m <= k /\ Begins(a, s.layout)
      /\ s.start + k - 1 <= s.end /\ to <= s.end
      /\ chrcs = <<>> => to = s.end
      /\ chrcs # <<>> => /\ 1 \in DOMAIN chrcs /\ chrcs[1].value \in Nat /\ to = chrcs[1].value - 2
                         /\ m < (chrcs[1].value - s.start + 1) - 1
                         /\ chrcs[1].value - s.start + 1 <= k
                         /\ s.layout[(chrcs[1].value - s.start + 1) - 1] = "chr"
  BY AskedFacts
<1>2. /\ T \in Tables /\ s \in T /\ to \in Nat /\ a \in Seq(Kinds) /\ s.layout \in Seq(Kinds \cup {"gap"})
      /\ chrcs \in Seq(Chrcs) /\ Lacks(s, a, chrcs)
  BY AskedFacts DEF AskedDescs
<1>3. /\ n \in Nat /\ DOMAIN found = 1..n /\ \A i \in 1..n : found[i].kind \in Kinds /\ found[i] \in El(found)
  <2>1. \A f \in Items : f.kind \in Kinds
    BY DEF Items
  <2> QED BY <2>1, SeqFacts
<1>4. z \in Seq(Kinds) /\ Len(z) = n /\ \A i \in 1..n : z[i] = found[i].kind
  <2>1. z = [i \in 1..n |-> found[i].kind]
    BY <1>3 DEF FoundKinds
  <2> HIDE DEF z, n
  <2> QED BY <1>3, <2>1
<1>5. b = a \o z /\ El(found) = Matching(T, "dsc", lo, to)
  OBVIOUS
<1>p. \A i \in 1..n : found[i].at = s.start + m + i - 1
  OBVIOUS
<1>l. lo = s.start + m /\ lo \in Nat
  BY <1>1
<1> HIDE DEF m, k, n, z, lo
<1>6. b \in Seq(Kinds) /\ Len(b) = m + n
  <2>1. a \in Seq(Kinds) /\ z \in Seq(Kinds) /\ b = a \o z /\ m = Len(a) /\ n = Len(z)
    BY <1>2, <1>4, <1>5 DEF m
  <2> QED BY <2>1, ConcatProperties
<1>7. \A i \in 1..m + n : b[i] = IF i <= m THEN a[i] ELSE z[i - m]
  <2>1. a \in Seq(Kinds) /\ z \in Seq(Kinds) /\ b = a \o z /\ m = Len(a) /\ n = Len(z)
    BY <1>2, <1>4, <1>5 DEF m
  <2> QED BY <2>1, ConcatProperties
<1>8. ASSUME NEW i \in 1..n PROVE m + i <= k /\ s.layout[m + i] = found[i].kind
  <2>1. found[i] \in Matching(T, "dsc", lo, to) /\ found[i].at = s.start + m + i - 1 /\ i \in Nat /\ 1 <= i
    BY <1>3, <1>5, <1>p
  <2>2. lo <= found[i].at /\ found[i].at <= to
    BY <1>l, <1>2, <2>1, MatchingRange
  <2>3. PICK j \in Wanted(s, "dsc", lo, to) : found[i] = Item("dsc", s, j) /\ found[i].at = s.start + j - 1
    <3>1. s.start <= found[i].at /\ found[i].at <= s.end
      <4>1. s.start \in Nat /\ s.end \in Nat /\ m \in Nat /\ i \in Nat /\ 1 <= i /\ to <= s.end /\ to \in Nat
        BY <1>1, <1>2, <2>1
      <4>2. found[i].at = s.start + m + i - 1 /\ found[i].at <= to
        BY <2>1, <2>2
      <4> QED BY <4>1, <4>2
    <3> DEFINE f == found[i]
    <3>2. s.start <= f.at /\ f.at <= s.end /\ f \in Matching(T, "dsc", lo, to)
      BY <2>1, <3>1
    <3> HIDE DEF f
    <3>3. \E j \in Wanted(s, "dsc", lo, to) : f = Item("dsc", s, j) /\ f.at = s.start + j - 1
      BY <1>2, <1>l, <3>2, FoundInService
    <3> QED BY <3>3 DEF f
  <2>4. j \in Nat /\ j <= Len(s.layout) /\ found[i].kind = s.layout[j]
    <3>1. "dsc" # "chr"
      OBVIOUS
    <3> QED BY <1>2, <1>l, <2>3, <3>1, WantedFacts, ItemFacts
  <2>5. j = m + i
    <3>1. s.start \in Nat /\ m \in Nat /\ i \in Nat /\ j \in Nat
      BY <1>1, <2>1, <2>4
    <3>2. s.start + m + i - 1 = s.start + j - 1
      BY <2>1, <2>3
    <3> QED BY ONLY <3>1, <3>2
  <2> QED BY <2>4, <2>5 DEF k
<1>9. m + n <= k
  <2>1. n # 0 => n \in 1..n
    BY <1>3
  <2>2. n # 0 => m + n <= k
    BY <1>8, <2>1
  <2> QED BY <1>1, <2>2
<1>10. Begins(b, s.layout)
  <2>1. ASSUME NEW i \in 1..m + n PROVE b[i] = s.layout[i]
    <3>1. CASE i <= m
      <4>1. a[i] = s.layout[i]
        BY <1>1, <3>1 DEF Begins, m
      <4> QED BY <1>7, <3>1, <4>1
    <3>2. CASE ~(i <= m)
      <4>1. i - m \in 1..n /\ m + (i - m) = i
        BY <1>1, <1>3, <3>2
      <4>2. s.layout[m + (i - m)] = found[i - m].kind /\ z[i - m] = found[i - m].kind
        BY <1>4, <1>8, <4>1
      <4> QED BY <1>7, <3>2, <4>1, <4>2
    <3> QED BY <3>1, <3>2
  <2> QED BY <1>6, <1>9, <2>1 DEF Begins, k
<1>11. ASSUME chrcs = <<>> PROVE b = s.layout
  <2>1. ASSUME m + n < k PROVE FALSE
    <3> DEFINE j == m + n + 1
    <3>1. j \in 1..k /\ j \in Nat
      BY <1>1, <1>3, <2>1
    <3>2. s.start + j - 1 \in lo..to
      <4>1. /\ s.start \in Nat /\ m \in Nat /\ n \in Nat /\ k \in Nat /\ m + n < k
            /\ s.end \in Nat /\ s.start + k - 1 <= s.end /\ lo = s.start + m
        BY <1>l, <1>1, <1>3, <2>1
      <4>2. to = s.end
        BY <1>1, <1>11
      <4> QED BY <4>1, <4>2
    <3>3. s.layout[j] # "gap" /\ j \in DOMAIN s.layout
      BY <1>2, <3>1, NoGap DEF k
    <3> HIDE DEF j
    <3>4. j \in Wanted(s, "dsc", lo, to)
      BY <3>2, <3>3 DEF Wanted
    <3> DEFINE f == Item("dsc", s, j)
    <3>5. f \in El(found) /\ f.at = s.start + j - 1
      BY <1>2, <1>5, <1>l, <3>4, WantedFound, SMTT(30)
    <3> HIDE DEF f
    <3>6. PICK i \in 1..n : found[i] = f
      BY <1>3, <3>5 DEF El
    <3>7. found[i].at = s.start + m + i - 1 /\ i \in Nat /\ i <= n
      BY <1>3, <1>p, <3>6
    <3> QED BY <1>1, <1>3, <3>1, <3>5, <3>6, <3>7 DEF j
  <2>2. ~(Len(b) < Len(s.layout))
    BY <1>6, <2>1 DEF k
  <2> QED BY <1>2, <1>6, <1>10, <2>2, BeginsAll
<1>12. ASSUME chrcs # <<>>, chrcs[1].value = s.start + Len(b) + 1 PROVE Lacks(s, b, chrcs)
  <2> DEFINE w == Len(b)
  <2>1. w = m + n /\ w \in Nat /\ chrcs[1].value = s.start + w + 1 /\ m <= w
    BY <1>1, <1>3, <1>6, <1>12
  <2>2. ASSUME NEW i \in DOMAIN chrcs PROVE w < (chrcs[i].value - s.start + 1) - 1
    <3>1. i \in Nat /\ 1 <= i /\ chrcs[i].value \in Nat /\ (i # 1 => 1 < i)
      BY <1>2, <2>2, ChrcFacts
    <3>2. \A x, y \in DOMAIN chrcs : x < y => chrcs[x].value < chrcs[y].value
      BY <1>2 DEF Lacks
    <3>3. i # 1 => chrcs[1].value < chrcs[i].value
      BY <1>1, <1>12, <2>2, <3>1, <3>2
    <3> DEFINE v == chrcs[i].value
               x == chrcs[1].value
    <3>4. v \in Nat /\ x \in Nat /\ x <= v /\ x = s.start + w + 1
      BY <1>1, <1>12, <2>1, <3>1, <3>3
    <3>s. s.start \in Nat /\ w \in Nat
      BY <1>1, <2>1
    <3> HIDE DEF v, x, w
    <3>5. w < (v - s.start + 1) - 1
      BY <3>s, <3>4
    <3> QED BY <3>5 DEF v
  <2>3. \A j \in (w + 1)..Len(s.layout) : j \in (Len(a) + 1)..Len(s.layout)
    <3>1. \A j \in (w + 1)..k : j \in (m + 1)..k
      <4> HIDE DEF w
      <4> QED BY <1>1, <2>1
    <3> QED BY <3>1 DEF m, k
  <2> QED BY <1>2, <1>10, <2>2, <2>3 DEF Lacks
<1> QED BY <1>10, <1>11, <1>12

LEMMA KnowingSensed ==
  ASSUME NEW o, NEW d, NEW kind, kind \in {"inc", "chr", "dsc"}, NEW to, Sense(dev, Due, o, d, kind, to, failed)
  PROVE  Knowing(o, d)
BY DEF Sense, Knowing, KnownOrAhead, Known

\* What a found attribute adds to the service worked on.
LEMMA FoundExtended ==
  ASSUME Busy, NEW o, NEW d, Doing(o, d) \/ Including(o, d), NEW t, t \in d, t.start = o.cur,
         NEW found, found \in Seq(Items), ~Misplaced(t, found)
  PROVE  \E u :
           /\ ExtendedAs(d, t, FoundKinds(found), u, Extended(d, o.cur, FoundKinds(found)))
           /\ SameHandles(d, Extended(d, o.cur, FoundKinds(found)))
           /\ \A i \in 1..Len(found) : found[i].at = t.start + Len(t.attrs) + i - 1
<1>1. DbOK(d)
  BY DEF Doing, Including
<1>2. PICK u : ExtendedAs(d, t, FoundKinds(found), u, Extended(d, t.start, FoundKinds(found)))
  BY <1>1, ExtendedByFound
<1>3. SameHandles(d, Extended(d, t.start, FoundKinds(found)))
  <2> DEFINE e == Extended(d, t.start, FoundKinds(found))
  <2>1. ExtendedAs(d, t, FoundKinds(found), u, e)
    BY <1>2
  <2> HIDE DEF e
  <2>2. SameHandles(d, e)
    BY <1>1, <2>1, ExtendedHandles
  <2> QED BY <2>2 DEF e
<1>4. \A i \in DOMAIN found : found[i].at = t.start + Len(t.attrs) + i - 1
  BY DEF Misplaced, Expected
<1>5. DOMAIN found = 1..Len(found)
  OBVIOUS
<1> QED BY <1>2, <1>3, <1>4, <1>5

LEMMA DescsCbKeeps ==
  ASSUME Mindful, NoGaps, NEW o, NEW d, NEW to, to \in Nat, Doing(o, d), Sense(dev, Due, o, d, "dsc", to, failed),
         \A t \in d : t.start = o.cur => t.start + Len(t.attrs) <= to,
         NEW found, found \in Seq(Items), FoundAll(dev, Due, o, d, "dsc", to, found), discover_descs_cb(o, d, found)
  PROVE  Meaning'
<1>b. Busy /\ dev \in Tables /\ DbOK(d) /\ Continued(o) /\ o.chrcs \in Seq(Chrcs)
  BY MindfulFacts, ContinuedFacts DEF Doing
<1>1. PICK t \in d : t.start = o.cur /\ Service(d, o.cur) = t
  BY <1>b, DoingFacts
<1>2. /\ Knowing(o, d) /\ NotOf(Due, d, o.chrcs, El(o.pending))
      /\ Agree(dev, Due, d, {}, El(o.pending), o.cur)
  BY KnowingSensed DEF Sense, New, BegunOnes, Open
<1>3. /\ \A h \in {} \cup El(o.pending) \cup {o.cur} : h = 0 \/ (o.start <= h /\ h <= o.end)
      /\ o.cur \notin El(o.pending)
  BY <1>b, DoingRange
<1>4. \A v \in d : v.start = o.cur => v = t
  BY <1>b, <1>1 DEF DbOK
<1>5. ASSUME Clear(Due, t)
      PROVE  \E s \in dev : Same(s, t) /\ AskedDescs(dev, s, t.attrs, o.chrcs, to)
  <2>1. PICK s \in dev : Same(s, t) /\ Lacks(s, t.attrs, o.chrcs)
                         /\ to = (IF o.chrcs = <<>> THEN s.end ELSE o.chrcs[1].value - 2)
    BY <1>1, <1>5 DEF Sense
  <2>2. t.attrs \in Seq(Kinds)
    BY <1>b, FitsIn
  <2> QED BY <1>b, <2>1, <2>2 DEF AskedDescs
<1>6. Clear(Due, t) => El(found) = Matching(dev, "dsc", t.start + Len(t.attrs), to)
  BY <1>1 DEF FoundAll
<1>7. CASE found = <<>>
  <2>1. NextService(o, d)
    BY <1>7 DEF discover_descs_cb
  <2>2. Clear(Due, t) => AgreeAt(dev, t, {}, El(o.pending), 0)
    <3> SUFFICES ASSUME Clear(Due, t) PROVE AgreeAt(dev, t, {}, El(o.pending), 0)
      OBVIOUS
    <3>1. PICK s \in dev : Same(s, t) /\ AskedDescs(dev, s, t.attrs, o.chrcs, to)
      BY <1>5
    <3>2. s.start = t.start
      BY <3>1 DEF Same
    <3>3. El(found) = {}
      BY <1>7 DEF El
    <3>4. Matching(dev, "dsc", s.start + Len(t.attrs), to) = {} /\ s.start + Len(t.attrs) <= to
      BY <1>1, <1>6, <3>2, <3>3
    <3>5. t.attrs = s.layout
      BY <3>1, <3>4, NoDescs
    <3> QED BY <1>1, <1>3, <3>1, <3>5 DEF AgreeAt
  <2>3. Agree(dev, Due, d, {}, El(o.pending), 0)
    <3> SUFFICES ASSUME NEW v \in d, Clear(Due, v) PROVE AgreeAt(dev, v, {}, El(o.pending), 0)
      BY DEF Agree
    <3>1. CASE v = t
      BY <2>2, <3>1
    <3>2. CASE v # t
      <4>1. AgreeAt(dev, v, {}, El(o.pending), o.cur) /\ v.start # o.cur
        BY <1>2, <1>4, <3>2 DEF Agree
      <4> QED BY <4>1 DEF AgreeAt
    <3> QED BY <3>1, <3>2
  <2> QED BY <1>2, <2>1, <2>3, NextServiceKeeps
<1>8. CASE Misplaced(t, found) /\ found # <<>>
  <2>1. Complete(o, d, "failed")
    BY <1>1, <1>8 DEF discover_descs_cb
  <2> QED BY <1>b, <1>2, <1>3, <2>1, FailedKeeps
<1>9. CASE ~Misplaced(t, found) /\ found # <<>>
  <2> DEFINE e == Extended(d, o.cur, FoundKinds(found))
  <2>1. discover_descs(o, e)
    BY <1>1, <1>9 DEF discover_descs_cb
  <2>2. PICK u :
          /\ ExtendedAs(d, t, FoundKinds(found), u, e) /\ SameHandles(d, e)
          /\ \A i \in 1..Len(found) : found[i].at = t.start + Len(t.attrs) + i - 1
    BY <1>b, <1>1, <1>9, FoundExtended
  <2> HIDE DEF e
  <2>3. /\ DbOK(e) /\ u.start = t.start /\ u.end = t.end /\ u.primary = t.primary
        /\ u.attrs = t.attrs \o FoundKinds(found)
        /\ \A v \in e : v.start = u.start => v = u
    BY <2>2 DEF ExtendedAs, DbOK
  <2>4. Doing(o, e)
    <3>1. Listed(o, e, <<o.cur>> \o o.pending)
      BY <1>b, <2>2, ExtendedListed DEF Doing
    <3> QED BY <2>3, <3>1 DEF Doing
  <2>5. Knowing(o, e) /\ NotOf(Due, e, o.chrcs, El(o.pending))
    BY <1>2, <2>2, HandlesKept DEF Knowing
  <2>6. Clear(Due, t) => Adding(o, u)
    <3> SUFFICES ASSUME Clear(Due, t) PROVE Adding(o, u)
      OBVIOUS
    <3>1. PICK s \in dev : Same(s, t) /\ AskedDescs(dev, s, t.attrs, o.chrcs, to)
      BY <1>5
    <3>2. s.start = t.start /\ Same(s, u)
      BY <2>3, <3>1 DEF Same
    <3> DEFINE a == t.attrs
               b == u.attrs
    <3>3. /\ AskedDescs(dev, s, a, o.chrcs, to) /\ El(found) = Matching(dev, "dsc", s.start + Len(a), to)
          /\ \A i \in 1..Len(found) : found[i].at = s.start + Len(a) + i - 1
          /\ b = a \o FoundKinds(found)
      BY <1>6, <2>2, <2>3, <3>1, <3>2
    <3> HIDE DEF a, b
    <3>4. /\ o.chrcs = <<>> => b = s.layout
          /\ o.chrcs # <<>> /\ o.chrcs[1].value = s.start + Len(b) + 1 => Lacks(s, b, o.chrcs)
      BY <3>3, DescsAdded
    <3>5. Expected(u, o.chrcs[1].value, 2) => o.chrcs[1].value = s.start + Len(b) + 1
      <4>1. u.start = s.start /\ s.start \in Nat /\ Len(b) \in Nat
        <5>1. u \in e
          BY <2>2 DEF ExtendedAs
        <5> QED BY <2>3, <3>2, <5>1, FitsIn DEF b
      <4> QED BY <4>1 DEF Expected, b
    <3> QED BY <3>2, <3>4, <3>5 DEF Adding, b
  <2>7. Agree(dev, Due, e, {}, El(o.pending), o.cur)
    <3> DEFINE B == El(o.pending)
    <3>1. Clear(Due, t) => AgreeAt(dev, u, {}, B, o.cur)
      BY <1>1, <1>3, <2>3, <2>6 DEF Adding, AgreeAt
    <3>2. Agree(dev, Due, d, {}, B, o.cur) /\ DbOK(d) /\ ExtendedAs(d, t, FoundKinds(found), u, e)
      BY <1>b, <1>2, <2>2
    <3> HIDE DEF B
    <3>3. \A h : h # t.start => /\ h \in {} => h \in {}
                                /\ h \in B => h \in B
                                /\ h \in {} \cup B \cup {o.cur} => h \in {} \cup B \cup {o.cur}
      OBVIOUS
    <3>4. Agree(dev, Due, e, {}, B, o.cur)
      BY <3>1, <3>2, <3>3, ExtendedAgree
    <3> QED BY <3>4 DEF B
  <2>8. \A v \in e : v.start = o.cur /\ Clear(Due, v) => Adding(o, v)
    BY <1>1, <2>3, <2>6, ClearSame
  <2> QED BY <2>1, <2>4, <2>5, <2>7, <2>8, DescsKeeps
<1> QED BY <1>7, <1>8, <1>9

\* A service without characteristics has all its attributes when it has begun.
LEMMA NoChrcs ==
  ASSUME NEW T, T \in Tables, NEW s, s \in T, NEW a, a \in Seq(Kinds), Begun(a, s.layout),
         Matching(T, "chr", s.start, s.end) = {}
  PROVE  a = s.layout
<1>1. /\ s.start \in Nat /\ s.end \in Nat /\ s.layout \in Seq(Kinds \cup {"gap"}) /\ Len(s.layout) \in Nat
      /\ s.start + Len(s.layout) - 1 <= s.end
  BY ServiceFacts DEF Handles
<1>2. Begins(a, s.layout) /\ Boundary(s.layout, Len(a)) /\ Len(a) \in Nat
  BY DEF Begun
<1>3. ASSUME Len(a) < Len(s.layout) PROVE FALSE
  <2> DEFINE m == Len(a)
             k == Len(s.layout)
  <2>1. m \in Nat /\ k \in Nat /\ m < k /\ s.start + k - 1 <= s.end
    BY <1>1, <1>2, <1>3
  <2>2. s.layout[m + 1] = "chr"
    BY <1>2, <2>1 DEF Boundary
  <2>3. DOMAIN s.layout = 1..k
    BY <1>1
  <2> HIDE DEF m, k
  <2>4. m + 1 \in DOMAIN s.layout /\ s.start + (m + 1) - 1 \in s.start..s.end
    BY <1>1, <2>1, <2>3, SMTT(30)
  <2>5. m + 1 \in Wanted(s, "chr", s.start, s.end)
    BY <2>2, <2>4 DEF Wanted
  <2> QED BY <1>1, <2>5, WantedFound
<1> QED BY <1>1, <1>2, <1>3, BeginsAll

\* What it lacks are the characteristics that were found.
LEMMA ChrcsLack ==
  ASSUME NEW T, T \in Tables, NEW s, s \in T, NEW a, a \in Seq(Kinds), Begun(a, s.layout),
         NEW found, found \in Seq(Items), El(found) = Matching(T, "chr", s.start, s.end),
         \A i, j \in 1..Len(found) : i < j => found[i].at < found[j].at,
         NEW chrcs, chrcs = Found(found, s.end)
  PROVE  Lacks(s, a, chrcs)
<1> DEFINE l == s.layout
           m == Len(a)
           k == Len(l)
           n == Len(found)
<1>1. /\ s.start \in Nat /\ s.end \in Nat /\ s.end \in Handles /\ k \in Nat /\ s.start + k - 1 <= s.end
      /\ DOMAIN l = 1..k
  BY ServiceFacts DEF Handles
<1>2. Begins(a, l) /\ m \in Nat /\ \A i \in 1..m : a[i] # "chr" /\ a[i] = l[i]
  BY DEF Begun, Begins
<1>3. n \in Nat /\ DOMAIN found = 1..n /\ \A i \in 1..n : found[i] \in El(found)
  BY SeqFacts
<1> HIDE DEF l, m, k, n
<1>4. ASSUME NEW i \in 1..n
      PROVE  \E j \in 1..k : /\ j + 1 <= k /\ l[j] = "chr" /\ found[i].at = s.start + j - 1
                             /\ found[i].to = s.start + j /\ found[i].kind = l[j + 1]
                             /\ found[i].to \in Handles
  <2> DEFINE f == found[i]
  <2>1. f \in Matching(T, "chr", s.start, s.end)
    BY <1>3
  <2> HIDE DEF f
  <2>2. s.start <= f.at /\ f.at <= s.end
    BY <1>1, <2>1, MatchingRange
  <2>3. PICK j \in Wanted(s, "chr", s.start, s.end) : f = Item("chr", s, j) /\ f.at = s.start + j - 1
    BY <1>1, <2>1, <2>2, FoundInService
  <2>4. /\ j \in Nat /\ 1 <= j /\ j + 1 <= Len(s.layout) /\ s.layout[j] = "chr" /\ s.start + j \in Handles
    BY <1>1, <2>3, WantedFacts
  <2>5. f.to = s.start + j /\ f.kind = s.layout[j + 1]
    BY <1>1, <2>3, ItemFacts
  <2>6. j \in 1..k
    BY <1>1, <2>4 DEF k, l
  <2> QED BY <2>3, <2>4, <2>5, <2>6 DEF f, k, l
<1>5. \A i \in 1..n : found[i].to \in Handles
  BY <1>4
<1>6. /\ chrcs \in Seq(Chrcs) /\ Len(chrcs) = n
      /\ \A i \in 1..n :
           /\ chrcs[i].value = found[i].to /\ chrcs[i].kind = found[i].kind
           /\ chrcs[i].end = IF i = n THEN s.end ELSE found[i + 1].at - 1
  BY <1>1, <1>5, FoundIs DEF n
<1>7. DOMAIN chrcs = 1..n
  BY <1>6
<1>8. ASSUME NEW i \in 1..n
      PROVE  /\ chrcs[i].value - s.start + 1 <= k /\ m < (chrcs[i].value - s.start + 1) - 1
             /\ l[(chrcs[i].value - s.start + 1) - 1] = "chr" /\ l[chrcs[i].value - s.start + 1] = chrcs[i].kind
             /\ chrcs[i].value = found[i].at + 1
  <2>1. PICK j \in 1..k : /\ j + 1 <= k /\ l[j] = "chr" /\ found[i].at = s.start + j - 1
                          /\ found[i].to = s.start + j /\ found[i].kind = l[j + 1]
    BY <1>4
  <2>2. chrcs[i].value = s.start + j /\ chrcs[i].kind = l[j + 1] /\ j \in Nat /\ 1 <= j
    BY <1>1, <1>6, <2>1
  <2>3. chrcs[i].value - s.start + 1 = j + 1 /\ (chrcs[i].value - s.start + 1) - 1 = j
    <3>1. s.start \in Nat
      BY <1>1
    <3>2. chrcs[i].value = s.start + j /\ j \in Nat
      BY <2>2
    <3> QED BY ONLY <3>1, <3>2
  <2>4. ~(j <= m)
    BY <1>2, <2>1, <2>2
  <2>5. m < j
    BY <1>2, <2>2, <2>4
  <2>6. chrcs[i].value = found[i].at + 1
    BY <1>1, <2>1, <2>2
  <2> QED BY <2>1, <2>2, <2>3, <2>5, <2>6
<1>9. ASSUME NEW i \in 1..n
      PROVE  chrcs[i].end = (IF i = n THEN s.end ELSE chrcs[i + 1].value - 2)
  <2>1. CASE i = n
    BY <1>6, <2>1
  <2>2. CASE i # n
    <3>1. i + 1 \in 1..n
      BY <1>3, <2>2
    <3>2. chrcs[i + 1].value = found[i + 1].at + 1 /\ chrcs[i].end = found[i + 1].at - 1
      BY <1>6, <1>8, <2>2, <3>1
    <3>3. found[i + 1].at \in Nat
      <4>1. PICK j \in 1..k : found[i + 1].at = s.start + j - 1
        BY <1>4, <3>1
      <4> QED BY <1>1, <4>1
    <3> QED BY <2>2, <3>2, <3>3
  <2> QED BY <2>1, <2>2
<1>10. ASSUME NEW i \in 1..n, NEW j \in 1..n, i < j PROVE chrcs[i].value < chrcs[j].value
  <2>1. found[i].at < found[j].at
    BY <1>10 DEF n
  <2>2. PICK x \in 1..k : found[i].at = s.start + x - 1
    BY <1>4
  <2>3. PICK y \in 1..k : found[j].at = s.start + y - 1
    BY <1>4
  <2>4. chrcs[i].value = found[i].at + 1 /\ chrcs[j].value = found[j].at + 1
    BY <1>8
  <2> QED BY <1>1, <2>1, <2>2, <2>3, <2>4
<1>11. ASSUME NEW x \in (m + 1)..k, l[x] = "chr" PROVE \E i \in DOMAIN chrcs : chrcs[i].value = s.start + x
  <2>1. x \in DOMAIN l /\ s.start + x - 1 \in s.start..s.end /\ x \in Nat
    BY <1>1, <1>2
  <2>2. x \in Wanted(s, "chr", s.start, s.end)
    BY <1>11, <2>1 DEF Wanted, l
  <2> DEFINE f == Item("chr", s, x)
  <2>3. f \in El(found) /\ f.at = s.start + x - 1
    BY <1>1, <2>2, WantedFound
  <2> HIDE DEF f
  <2>4. PICK i \in 1..n : found[i] = f
    BY <1>3, <2>3 DEF El
  <2>5. chrcs[i].value = s.start + x
    BY <1>1, <1>8, <2>1, <2>3, <2>4
  <2> QED BY <1>7, <2>5
<1>12. \A i \in DOMAIN chrcs :
         LET x == chrcs[i].value - s.start + 1 IN
         /\ x <= Len(s.layout) /\ Len(a) < x - 1
         /\ s.layout[x - 1] = "chr" /\ s.layout[x] = chrcs[i].kind
         /\ chrcs[i].end = (IF i = Len(chrcs) THEN s.end ELSE chrcs[i + 1].value - 2)
  BY <1>6, <1>7, <1>8, <1>9 DEF k, l, m
<1>13. \A x \in (Len(a) + 1)..Len(s.layout) :
         s.layout[x] = "chr" => \E i \in DOMAIN chrcs : chrcs[i].value = s.start + x
  BY <1>11 DEF k, l, m
<1>14. \A i, j \in DOMAIN chrcs : i < j => chrcs[i].value < chrcs[j].value
  BY <1>7, <1>10
<1>15. Begins(a, s.layout)
  BY <1>2 DEF l
<1> HIDE DEF Begins
<1> QED BY <1>12, <1>13, <1>14, <1>15 DEF Lacks

\* Where the characteristics of a service were found, there is no service to come.
LEMMA NotOfLater ==
  ASSUME Mindful, NEW o, NEW d, Doing(o, d), NEW t, t \in d, t.start = o.cur,
         Agree(dev, Due, d, {}, El(o.pending) \cup {o.cur}, 0),
         NEW v, v \in d, v.start \in El(o.pending), Clear(Due, v), NEW h, h \in Nat, t.start <= h, h <= t.end
  PROVE  ~(v.start <= h /\ h <= v.end)
<1>b. Busy /\ dev \in Tables /\ DbOK(d) /\ Due \in Seq(Ranges) /\ o.pending \in Seq(Handles)
  BY MindfulFacts, ContinuedFacts DEF Doing
<1> DEFINE q == <<o.cur>> \o o.pending
<1>1. q \in Seq(Handles) /\ q[1] = o.cur /\ Len(q) = Len(o.pending) + 1 /\ Listed(o, d, q)
      /\ \A i \in 1..Len(o.pending) : q[i + 1] = o.pending[i]
  <2>1. q \in Seq(Handles) /\ q[1] = o.cur /\ Len(q) = Len(o.pending) + 1 /\ o.cur \in Handles
    BY <1>b, DoingFacts
  <2>2. \A i \in 1..Len(o.pending) : q[i + 1] = o.pending[i]
    BY <1>b, <2>1, NextInList
  <2> QED BY <2>1, <2>2 DEF Doing
<1> HIDE DEF q
<1>2. PICK i \in 1..Len(o.pending) : o.pending[i] = v.start
  BY <1>b, SeqFacts
<1>3. InTurn(t, v)
  <2>1. i + 1 \in DOMAIN q /\ 1 \in DOMAIN q /\ 1 < i + 1 /\ q[i + 1] = v.start
    BY <1>b, <1>1, <1>2, SeqFacts
  <2> QED BY <1>1, <2>1 DEF Listed
<1>4. /\ t.start \in Nat /\ t.end \in Nat /\ t.start <= t.end /\ v.start \in Nat /\ v.end \in Nat /\ v.start <= v.end
  BY <1>b, FitsIn
<1>5. ASSUME v.start < t.start, t.end < v.end PROVE FALSE
  <2>1. ASSUME NEW i0 \in DOMAIN Due PROVE ~Overlap(t, Due[i0])
    <3>1. Due[i0].start \in Nat /\ Due[i0].end \in Nat /\ ~Overlap(v, Due[i0])
      BY <1>b, RangesFacts DEF Clear
    <3> QED BY <1>4, <1>5, <3>1 DEF Overlap
  <2>2. AgreeAt(dev, t, {}, El(o.pending) \cup {o.cur}, 0) /\ AgreeAt(dev, v, {}, El(o.pending) \cup {o.cur}, 0)
    BY <2>1 DEF Agree, Clear
  <2>3. PICK s \in dev : Same(s, t)
    BY <2>2 DEF AgreeAt
  <2>4. PICK r \in dev : Same(r, v)
    BY <2>2 DEF AgreeAt
  <2>5. s.start = t.start /\ s.end = t.end /\ r.start = v.start /\ r.end = v.end
    BY <2>3, <2>4 DEF Same
  <2>6. s = r
    BY <1>b, <1>4, <1>5, <2>5, OneAtHandle
  <2> QED BY <1>4, <1>5, <2>5, <2>6
<1> QED BY <1>3, <1>4, <1>5 DEF InTurn

LEMMA ChrcsCbKeeps ==
  ASSUME Mindful, NEW o, NEW d, NEW to, Doing(o, d), Sense(dev, Due, o, d, "chr", to, failed),
         \A t \in d : t.start = o.cur => to = t.end,
         NEW found, found \in Seq(Items), FoundShape(o, "chr", to, found), FoundAll(dev, Due, o, d, "chr", to, found),
         \A i \in 1..Len(found) : found[i].to \in Handles, discover_chrcs_cb(o, d, found)
  PROVE  Meaning'
<1>b. Busy /\ dev \in Tables /\ DbOK(d) /\ Continued(o) /\ o \in Ops /\ o.chrcs \in Seq(Chrcs)
  BY MindfulFacts, ContinuedFacts DEF Doing
<1>1. PICK t \in d : t.start = o.cur /\ End(d, o.cur) = t.end
  BY <1>b, DoingFacts
<1>2. /\ Knowing(o, d) /\ NotOf(Due, d, o.chrcs, El(o.pending) \cup {o.cur})
      /\ Agree(dev, Due, d, {}, El(o.pending) \cup {o.cur}, 0)
  BY KnowingSensed DEF Sense, New, BegunOnes, Open
<1>3. o.cur \notin El(o.pending)
  BY <1>b, DoingRange
<1>4. \A v \in d : v.start = o.cur => v = t
  BY <1>b, <1>1 DEF DbOK
<1>5. /\ t.start \in Nat /\ t.end \in Nat /\ t.start <= t.end /\ t.end \in Handles /\ t.attrs \in Seq(Kinds)
      /\ 1 <= t.start /\ Len(t.attrs) \in Nat
  BY <1>b, FitsIn
<1>6. ASSUME Clear(Due, t)
      PROVE  \E s \in dev : /\ Same(s, t) /\ s.start = t.start /\ s.end = t.end /\ Begun(t.attrs, s.layout)
                            /\ El(found) = Matching(dev, "chr", s.start, s.end)
  <2>1. AgreeAt(dev, t, {}, El(o.pending) \cup {o.cur}, 0)
    BY <1>2, <1>6 DEF Agree
  <2>2. PICK s \in dev : Same(s, t) /\ Begun(t.attrs, s.layout)
    BY <1>1, <2>1 DEF AgreeAt
  <2>3. El(found) = Matching(dev, "chr", t.start, to) /\ to = t.end
    BY <1>1, <1>6 DEF FoundAll
  <2> QED BY <2>2, <2>3 DEF Same
<1>7. /\ Len(found) \in Nat /\ DOMAIN found = 1..Len(found)
      /\ \A i \in 1..Len(found) : found[i].at \in Nat /\ t.start <= found[i].at /\ found[i].at <= t.end
                                  /\ found[i].to = found[i].at + 1
      /\ \A i, j \in 1..Len(found) : i < j => found[i].at < found[j].at
  <2>1. \A f \in Items : f.at \in Nat
    BY DEF Items, Handles
  <2>2. \A i \in 1..Len(found) : found[i] \in Items
    OBVIOUS
  <2>3. DOMAIN found = 1..Len(found) /\ Len(found) \in Nat
    OBVIOUS
  <2>4. to = t.end
    BY <1>1
  <2>5. \A i \in DOMAIN found : found[i].at <= to /\ o.cur <= found[i].at /\ found[i].to = found[i].at + 1
    BY DEF FoundShape
  <2>6. \A i, j \in DOMAIN found : i < j => found[i].at < found[j].at
    BY DEF FoundShape
  <2> QED BY <1>1, <2>1, <2>2, <2>3, <2>4, <2>5, <2>6
<1>8. CASE found = <<>>
  <2>1. NextService(o, d)
    BY <1>8 DEF discover_chrcs_cb
  <2>2. Clear(Due, t) => AgreeAt(dev, t, {}, El(o.pending), 0)
    <3> SUFFICES ASSUME Clear(Due, t) PROVE AgreeAt(dev, t, {}, El(o.pending), 0)
      OBVIOUS
    <3>1. PICK s \in dev : /\ Same(s, t) /\ Begun(t.attrs, s.layout)
                           /\ El(found) = Matching(dev, "chr", s.start, s.end)
      BY <1>6
    <3>2. El(found) = {}
      BY <1>8 DEF El
    <3>3. t.attrs = s.layout
      BY <1>b, <1>5, <3>1, <3>2, NoChrcs
    <3> QED BY <1>1, <1>3, <3>1, <3>3 DEF AgreeAt
  <2>3. Agree(dev, Due, d, {}, El(o.pending), 0)
    <3> SUFFICES ASSUME NEW v \in d, Clear(Due, v) PROVE AgreeAt(dev, v, {}, El(o.pending), 0)
      BY DEF Agree
    <3>1. CASE v = t
      BY <2>2, <3>1
    <3>2. CASE v # t
      <4>1. AgreeAt(dev, v, {}, El(o.pending) \cup {o.cur}, 0) /\ v.start # o.cur
        BY <1>2, <1>4, <3>2 DEF Agree
      <4> QED BY <4>1 DEF AgreeAt
    <3> QED BY <3>1, <3>2
  <2>4. NotOf(Due, d, o.chrcs, El(o.pending))
    BY <1>2 DEF NotOf
  <2> QED BY <1>2, <2>1, <2>3, <2>4, NextServiceKeeps
<1>9. CASE found # <<>>
  <2> DEFINE c == Found(found, End(d, o.cur))
             c1 == o.chrcs \o c
             o1 == [o EXCEPT !.chrcs = @ \o c]
  <2>1. discover_descs(o1, d)
    BY <1>9 DEF discover_chrcs_cb, Found
  <2>2. /\ c \in Seq(Chrcs) /\ Len(c) = Len(found)
        /\ \A i \in 1..Len(found) : c[i].value = found[i].to
    <3>1. End(d, o.cur) \in Handles
      BY <1>1, <1>5
    <3> QED BY <3>1, FoundIs
  <2>3. c = Found(found, t.end)
    BY <1>1
  <2>4. o1 = [o EXCEPT !.chrcs = c1]
    OBVIOUS
  <2> HIDE DEF c
  <2>5. /\ c1 \in Seq(Chrcs) /\ Len(c1) = Len(o.chrcs) + Len(c) /\ Len(o.chrcs) \in Nat
        /\ \A i \in 1..Len(o.chrcs) : c1[i] = o.chrcs[i]
        /\ \A i \in 1..Len(c) : c1[Len(o.chrcs) + i] = c[i]
    <3> DEFINE x == o.chrcs
    <3>1. x \in Seq(Chrcs) /\ c \in Seq(Chrcs) /\ c1 = x \o c
      BY <1>b, <2>2
    <3> HIDE DEF x, c1
    <3>2. /\ c1 \in Seq(Chrcs) /\ Len(c1) = Len(x) + Len(c) /\ Len(x) \in Nat
          /\ \A i \in 1..Len(x) : c1[i] = x[i]
          /\ \A i \in 1..Len(c) : c1[Len(x) + i] = c[i]
      BY <3>1, ConcatIs, SeqFacts
    <3> QED BY <3>2 DEF x
  <2>c. o.chrcs = <<>> => c1 = c
    BY <2>2
  <2> HIDE DEF c1, o1
  <2>6. /\ o1 \in Ops /\ o1.start = o.start /\ o1.end = o.end /\ o1.init = o.init /\ o1.missed = o.missed
        /\ o1.pending = o.pending /\ o1.cur = o.cur /\ o1.chrcs = c1
    BY <1>b, <2>4, <2>5 DEF Ops
  <2>7. Doing(o1, d)
    <3>1. Continued(o) /\ DbOK(d) /\ Listed(o, d, <<o.cur>> \o o.pending)
      BY <1>b DEF Doing
    <3>2. Continued(o1)
      BY ONLY <2>6, <3>1 DEF Continued
    <3>3. Listed(o1, d, <<o1.cur>> \o o1.pending)
      BY ONLY <2>6, <3>1 DEF Listed
    <3> QED BY <3>1, <3>2, <3>3 DEF Doing
  <2>8. Knowing(o1, d)
    BY <1>2, <2>6 DEF Knowing, Aligned, Within, Overlap
  <2>9. Agree(dev, Due, d, {}, El(o.pending), o.cur)
    <3> SUFFICES ASSUME NEW v \in d, Clear(Due, v) PROVE AgreeAt(dev, v, {}, El(o.pending), o.cur)
      BY DEF Agree
    <3>1. v.start # 0
      BY <1>b, FitsIn
    <3>2. AgreeAt(dev, v, {}, El(o.pending) \cup {o.cur}, 0)
      BY <1>2 DEF Agree
    <3> QED BY <3>1, <3>2 DEF AgreeAt
  <2>10. NotOf(Due, d, c1, El(o.pending))
    <3> SUFFICES ASSUME NEW i \in DOMAIN c1, NEW v \in d, v.start \in El(o.pending), Clear(Due, v)
                 PROVE  ~(v.start <= c1[i].value - 1 /\ c1[i].value - 1 <= v.end)
      BY DEF NotOf
    <3> DEFINE N == Len(o.chrcs)
               M == Len(found)
    <3>1. /\ N \in Nat /\ M \in Nat /\ DOMAIN c1 = 1..N + M /\ DOMAIN o.chrcs = 1..N
          /\ \A j \in 1..N : c1[j] = o.chrcs[j]
          /\ \A j \in 1..M : c1[N + j] = c[j]
      BY <1>b, <1>7, <2>2, <2>5
    <3> HIDE DEF N, M
    <3>2. CASE i <= N
      <4>1. i \in DOMAIN o.chrcs /\ c1[i] = o.chrcs[i]
        BY <3>1, <3>2
      <4> QED BY <1>2, <4>1 DEF NotOf
    <3>3. CASE ~(i <= N)
      <4>1. i - N \in 1..M /\ N + (i - N) = i
        BY <3>1, <3>3
      <4>2. c1[i] = c[i - N]
        BY <3>1, <4>1
      <4> DEFINE h == found[i - N].at
      <4>3. c1[i].value = h + 1 /\ h \in Nat /\ t.start <= h /\ h <= t.end
        BY <1>7, <2>2, <4>1, <4>2 DEF M
      <4> HIDE DEF h
      <4>4. ~(v.start <= h /\ h <= v.end)
        BY <1>1, <1>2, <4>3, NotOfLater
      <4> QED BY <4>3, <4>4
    <3> QED BY <3>2, <3>3
  <2>11. ASSUME Clear(Due, t) PROVE Adding(o1, t)
    <3>1. PICK s \in dev : /\ Same(s, t) /\ s.start = t.start /\ s.end = t.end /\ Begun(t.attrs, s.layout)
                           /\ El(found) = Matching(dev, "chr", s.start, s.end)
      BY <1>6, <2>11
    <3>2. c1 # <<>>
      <4>1. Len(found) # 0
        BY <1>9
      <4>2. Len(c1) # 0
        BY <1>7, <2>2, <2>5, <4>1
      <4> QED BY <4>2
    <3>3. Expected(t, c1[1].value, 2) => Lacks(s, t.attrs, c1)
      <4>1. CASE o.chrcs = <<>>
        <5>1. c1 = Found(found, s.end)
          BY <2>3, <2>c, <3>1, <4>1
        <5> DEFINE a == t.attrs
        <5>2. /\ a \in Seq(Kinds) /\ Begun(a, s.layout) /\ El(found) = Matching(dev, "chr", s.start, s.end)
              /\ \A i, j \in 1..Len(found) : i < j => found[i].at < found[j].at
          BY <1>5, <1>7, <3>1
        <5> HIDE DEF a
        <5>3. Lacks(s, a, c1)
          BY <1>b, <5>1, <5>2, ChrcsLack
        <5> QED BY <5>3 DEF a
      <4>2. CASE o.chrcs # <<>>
        <5>1. 1 \in DOMAIN o.chrcs /\ 1 \in 1..Len(o.chrcs)
          <6>1. Len(o.chrcs) # 0
            BY <1>b, <4>2
          <6> QED BY <1>b, <6>1, ChrcFacts
        <5>2. c1[1] = o.chrcs[1] /\ o.chrcs[1].value \in Nat
          BY <1>b, <2>5, <5>1, ChrcFacts
        <5>3. ~(t.start <= o.chrcs[1].value - 1 /\ o.chrcs[1].value - 1 <= t.end)
          BY <1>1, <1>2, <2>11, <5>1 DEF NotOf
        <5> DEFINE w == o.chrcs[1].value
                   m == Len(t.attrs)
        <5>4. /\ w \in Nat /\ m \in Nat /\ t.start \in Nat /\ t.end \in Nat
              /\ ~(t.start <= w - 1 /\ w - 1 <= t.end)
          BY <1>5, <5>2, <5>3
        <5>5. Expected(t, c1[1].value, 2) => w = t.start + m + 2 - 1 /\ w <= t.end
          BY <5>2 DEF Expected
        <5> HIDE DEF w, m
        <5> QED BY <5>4, <5>5
      <4> QED BY <4>1, <4>2
    <3> QED BY <2>6, <3>1, <3>2, <3>3 DEF Adding
  <2>12. \A v \in d : v.start = o1.cur /\ Clear(Due, v) => Adding(o1, v)
    BY <1>4, <2>6, <2>11
  <2> QED BY <2>1, <2>6, <2>7, <2>8, <2>9, <2>10, <2>12, DescsKeeps
<1> QED BY <1>8, <1>9

---------------------------------------------------------------------------
(* Included services, service by service.                                  *)

\* New services of one handle may be passed over.
LEMMA SinglesBegun ==
  ASSUME NEW T, T \in Tables, NEW Q, NEW d, DbOK(d), NEW N, NEW B, Agree(T, Q, d, N, B, 0),
         NEW N2, N2 \subseteq N, NEW B2, N \cup B \subseteq N2 \cup B2,
         \A t \in d : t.start \in B2 /\ t.start \notin B => t.start \in N /\ t.end = t.start
  PROVE  Agree(T, Q, d, N2, B2, 0)
<1> SUFFICES ASSUME NEW t \in d, Clear(Q, t) PROVE AgreeAt(T, t, N2, B2, 0)
  BY DEF Agree
<1>1. PICK s \in T : /\ Same(s, t)
                     /\ t.start \in N => t.attrs = <<"svc">>
                     /\ t.start \in B => Begun(t.attrs, s.layout)
                     /\ t.start \notin N \cup B \cup {0} => t.attrs = s.layout
  BY DEF Agree, AgreeAt
<1>2. t.start # 0
  BY FitsIn
<1>3. t.start \in B2 => Begun(t.attrs, s.layout)
  BY <1>1, SingleHandle
<1> QED BY <1>1, <1>2, <1>3 DEF AgreeAt

LEMMA IncludingRange ==
  ASSUME Busy, NEW o, NEW d, Including(o, d)
  PROVE  /\ \A h \in El(o.pending) \cup El(o.tmp) : h \in Handles /\ o.start <= h /\ h <= o.end
         /\ o.cur \in El(o.tmp) /\ o.cur \notin El(o.pending)
         /\ \E t \in d : t.start = o.cur /\ ~t.active
<1> DEFINE p == o.pending
           m == o.tmp
           q == m \o p
           k == Len(m)
<1>1. /\ p \in Seq(Handles) /\ m \in Seq(Handles) /\ o.start \in Nat /\ o.end \in Nat
      /\ m # <<>> /\ o.cur = m[k] /\ Listed(o, d, q) /\ DbOK(d)
  BY ContinuedFacts DEF Including, Handles
<1> HIDE DEF p, m
<1>2. /\ q \in Seq(Handles) /\ Len(q) = k + Len(p) /\ El(q) = El(m) \cup El(p)
      /\ \A i \in 1..k : q[i] = m[i]
      /\ \A i \in 1..Len(p) : q[k + i] = p[i]
  BY <1>1, ConcatIs
<1>3. k \in Nat /\ k # 0 /\ Len(p) \in Nat
  BY <1>1, SeqFacts, EmptySeq
<1> HIDE DEF q, k
<1>4. DOMAIN q = 1..k + Len(p)
  BY <1>2, SeqFacts
<1>5. ASSUME NEW h \in El(q) PROVE h \in Handles /\ o.start <= h /\ h <= o.end
  <2>1. PICK i \in DOMAIN q : q[i] = h
    BY DEF El
  <2>2. q[i] \in o.start..o.end /\ h \in Handles
    BY <1>1, <1>2, <2>1, SeqFacts DEF Listed
  <2> QED BY <1>1, <2>1, <2>2
<1>6. k \in DOMAIN q /\ q[k] = o.cur
  BY <1>1, <1>2, <1>3, <1>4
<1>7. o.cur \in El(m)
  <2>1. DOMAIN m = 1..k
    BY <1>1, SeqFacts DEF k
  <2> QED BY <1>1, <1>3, <2>1 DEF El
<1>8. PICK t \in d : t.start = o.cur /\ ~t.active
  BY <1>1, <1>6 DEF Listed
<1>9. ASSUME o.cur \in El(p) PROVE FALSE
  <2>1. PICK i \in 1..Len(p) : p[i] = o.cur
    BY <1>1, <1>9, SeqFacts
  <2>2. k + i \in DOMAIN q /\ k < k + i /\ q[k + i] = o.cur
    BY <1>2, <1>3, <1>4, <2>1
  <2>3. InTurn(t, t)
    BY <1>1, <1>6, <1>8, <2>2 DEF Listed
  <2>4. t.start \in Nat /\ t.end \in Nat /\ t.start <= t.end
    BY <1>1, FitsIn
  <2> QED BY <2>3, <2>4 DEF InTurn
<1> QED BY <1>2, <1>5, <1>7, <1>8, <1>9 DEF p, m

LEMMA NextIncludingKeeps ==
  ASSUME Mindful, NEW o, NEW d, Including(o, d), NextIncluding(o, d), Knowing(o, d),
         Agree(dev, Due, d, El(o.pending), El(o.tmp), 0)
  PROVE  Meaning'
<1>b. Busy
  BY DEF Mindful
<1> DEFINE i   == FirstToAsk(d, o.pending)
           all == o.tmp \o o.pending
           s   == o.pending[i]
           a   == SubSeq(o.pending, 1, i)
           r   == SubSeq(o.pending, i + 1, Len(o.pending))
           oc  == [o EXCEPT !.tmp = <<>>, !.pending = Tail(all), !.cur = Head(all)]
           oi  == [o EXCEPT !.tmp = @ \o SubSeq(o.pending, 1, i), !.cur = s,
                            !.pending = SubSeq(@, i + 1, Len(@))]
<1>1. /\ o \in Ops /\ Continued(o) /\ DbOK(d) /\ o.chrcs = <<>> /\ dev \in Tables
      /\ o.tmp \in Seq(Handles) /\ o.pending \in Seq(Handles) /\ o.tmp # <<>>
  BY <1>b, ContinuedFacts, MindfulFacts DEF Including
<1>2. i \in 0..Len(o.pending) /\ Len(o.pending) \in Nat
      /\ \A k \in 1..Len(o.pending) : i = 0 \/ k < i => ~(End(d, o.pending[k]) > o.pending[k])
  BY <1>1, FirstToAskIs, SeqFacts
<1>3. all \in Seq(Handles) /\ El(all) = El(o.tmp) \cup El(o.pending)
  BY <1>1, ConcatIs
<1>4. ASSUME NEW k \in 1..Len(o.pending), i = 0 \/ k < i, NEW v \in d, v.start = o.pending[k]
      PROVE  v.end = v.start
  <2>1. ~(v.end > v.start)
    BY <1>1, <1>2, <1>4, ServiceIs
  <2>2. v.start \in Nat /\ v.end \in Nat /\ v.start <= v.end
    BY <1>1, FitsIn
  <2> QED BY <2>1, <2>2
<1>5. /\ i = 0 => Ask(oc, d, "chr", Head(all), End(d, Head(all)))
      /\ i # 0 => Ask(oi, d, "inc", s, End(d, s))
  BY DEF NextIncluding
<1>6. El(o.pending) = {o.pending[k] : k \in 1..Len(o.pending)}
  BY <1>1 DEF El
<1>7. \A h \in El(all) : h \in Handles
  BY <1>b, <1>3, IncludingRange
<1>n. all # <<>>
  BY <1>1, ConcatEqualIffEmpty
<1> HIDE DEF i
<1>8. CASE i = 0
  <2> DEFINE h == Head(all)
             u == Tail(all)
  <2>1. h \in Handles /\ u \in Seq(Handles) /\ El(all) = El(u) \cup {h}
    <3> HIDE DEF all
    <3>1. h = all[1] /\ h \in Handles /\ u \in Seq(Handles) /\ <<h>> \o u = all
      BY <1>3, <1>n, HeadTailIs
    <3> HIDE DEF h, u
    <3>2. <<h>> \in Seq(Handles) /\ El(<<h>>) = {h}
      <4>1. DOMAIN <<h>> = {1} /\ <<h>>[1] = h
        OBVIOUS
      <4> QED BY <3>1, <4>1 DEF El
    <3> DEFINE x == <<h>>
    <3>3. x \in Seq(Handles) /\ u \in Seq(Handles) /\ El(x) = {h} /\ x \o u = all
      BY <3>1, <3>2
    <3> HIDE DEF x
    <3>4. El(x \o u) = El(x) \cup El(u)
      BY <3>3, ConcatIs
    <3> QED BY <3>1, <3>3, <3>4
  <2>2. oc = [o EXCEPT !.tmp = <<>>, !.pending = u, !.cur = h]
    OBVIOUS
  <2>3. Ask(oc, d, "chr", h, End(d, h))
    BY <1>5, <1>8
  <2> HIDE DEF all, h, u, oc
  <2>4. /\ oc.start = o.start /\ oc.end = o.end /\ oc.missed = o.missed
        /\ oc.pending = u /\ oc.cur = h /\ oc.chrcs = <<>>
    BY <1>1, <2>2 DEF Ops
  <2>5. Agree(dev, Due, d, {}, El(all), 0)
    <3> DEFINE N == El(o.pending)
               B == El(o.tmp)
               B2 == El(all)
    <3>1. \A v \in d : v.start \in N => v.end = v.start
      BY <1>4, <1>6, <1>8
    <3>2. B2 = B \cup N /\ Agree(dev, Due, d, N, B, 0)
      BY <1>3
    <3> HIDE DEF N, B, B2
    <3>3. Agree(dev, Due, d, {}, B2, 0)
      BY <1>1, <3>1, <3>2, SinglesBegun
    <3> QED BY <3>3 DEF B2
  <2>6. Sense(dev, Due, oc, d, "chr", End(d, h), failed)
    <3>1. Aligned(dev, Due, oc)
      BY <2>4 DEF Knowing, Aligned, Within, Overlap
    <3>2. Agree(dev, Due, d, New(oc, "chr"), BegunOnes(oc, "chr"), Open(oc, "chr"))
      BY <2>1, <2>4, <2>5 DEF New, BegunOnes, Open
    <3>3. oc.missed \/ failed \/ KnownOrAhead(dev, Due, oc, d, "chr")
      BY <2>4 DEF Knowing, Known, KnownOrAhead
    <3>4. NotOf(Due, d, oc.chrcs, El(oc.pending) \cup {oc.cur})
      BY <2>4 DEF NotOf
    <3> QED BY <3>1, <3>2, <3>3, <3>4 DEF Sense
  <2>7. Starting(oc, d, "chr", h)
    BY <2>1, <2>4 DEF Starting, Grouped
  <2> QED BY <2>3, <2>6, <2>7, AskKeeps
<1>9. CASE i # 0
  <2> DEFINE b == o.tmp \o a
             z == End(d, s)
  <2>1. i \in 1..Len(o.pending) /\ i \in Nat
    BY <1>2, <1>9
  <2>2. /\ a \in Seq(Handles) /\ Len(a) = i /\ \A k \in 1..i : a[k] = o.pending[k]
    BY <1>1, <1>2, CutIs
  <2>3. /\ r \in Seq(Handles) /\ Len(r) = Len(o.pending) - i
        /\ \A k \in 1..Len(o.pending) - i : r[k] = o.pending[i + k]
    BY <1>1, <1>2, CutIs
  <2>4. oi = [o EXCEPT !.tmp = b, !.cur = s, !.pending = r] /\ s = o.pending[i]
    OBVIOUS
  <2>5. Ask(oi, d, "inc", s, z)
    BY <1>5, <1>9
  <2>6. b \in Seq(Handles) /\ El(b) = El(o.tmp) \cup El(a)
    <3> HIDE DEF a
    <3> QED BY <1>1, <2>2, ConcatIs
  <2> HIDE DEF a, r, s, oi, b, z
  <2>7. /\ oi.start = o.start /\ oi.end = o.end /\ oi.missed = o.missed
        /\ oi.tmp = b /\ oi.pending = r /\ oi.cur = s /\ oi.chrcs = <<>>
    BY <1>1, <2>4 DEF Ops
  <2>8. El(a) = {o.pending[k] : k \in 1..i} /\ El(r) = {o.pending[i + k] : k \in 1..Len(o.pending) - i}
    <3> DEFINE p == o.pending
               n == Len(p) - i
    <3>1. DOMAIN a = 1..i /\ DOMAIN r = 1..n /\ (\A k \in 1..i : a[k] = p[k]) /\ \A k \in 1..n : r[k] = p[i + k]
      BY <1>2, <2>1, <2>2, <2>3
    <3> HIDE DEF p, n
    <3>2. El(a) = {p[k] : k \in 1..i}
      BY <3>1 DEF El
    <3>3. El(r) = {p[i + k] : k \in 1..n}
      BY <3>1 DEF El
    <3> QED BY <3>2, <3>3 DEF p, n
  <2>9. /\ El(r) \cup {s} \subseteq El(o.pending)
        /\ \A h \in El(o.pending) : h \in El(r) \/ h = s \/ h \in El(a)
        /\ \A h \in El(a) : h # s => \E k \in 1..Len(o.pending) : k < i /\ h = o.pending[k]
    <3> DEFINE n == Len(o.pending)
    <3>1. i \in 1..n /\ n \in Nat
      BY <1>2, <2>1
    <3>2. /\ El(a) = {o.pending[k] : k \in 1..i} /\ El(r) = {o.pending[i + k] : k \in 1..n - i}
          /\ El(o.pending) = {o.pending[k] : k \in 1..n} /\ s = o.pending[i]
      BY <1>6, <2>4, <2>8
    <3> HIDE DEF n
    <3>3. \A k \in 1..n - i : i + k \in 1..n
      BY <3>1
    <3>4. El(r) \cup {s} \subseteq El(o.pending)
      BY <3>1, <3>2, <3>3
    <3>5. ASSUME NEW k \in 1..n PROVE o.pending[k] \in El(r) \/ o.pending[k] \in El(a)
      <4>1. CASE k <= i
        <5>1. k \in 1..i
          BY <4>1
        <5> QED BY <3>2, <5>1
      <4>2. CASE ~(k <= i)
        <5>1. k - i \in 1..n - i /\ i + (k - i) = k
          BY <3>1, <4>2
        <5> QED BY <3>2, <5>1
      <4> QED BY <4>1, <4>2
    <3>6. ASSUME NEW h \in El(a), h # s PROVE \E k \in 1..n : k < i /\ h = o.pending[k]
      <4>1. PICK k \in 1..i : h = o.pending[k]
        BY <3>2
      <4>2. k # i
        BY <3>2, <3>6, <4>1
      <4>3. k \in 1..n /\ k < i
        BY <3>1, <4>2
      <4> QED BY <4>1, <4>3
    <3> QED BY <3>2, <3>4, <3>5, <3>6 DEF n
  <2>10. Agree(dev, Due, d, El(r) \cup {s}, El(b) \ {s}, 0)
    <3> DEFINE N == El(o.pending)
               B == El(o.tmp)
               N2 == El(r) \cup {s}
               B2 == El(b) \ {s}
    <3>1. ASSUME NEW v \in d, v.start \in B2, v.start \notin B PROVE v.start \in N /\ v.end = v.start
      <4>1. v.start \in El(a) /\ v.start # s
        BY <2>6, <3>1
      <4>2. PICK k \in 1..Len(o.pending) : k < i /\ v.start = o.pending[k]
        BY <2>9, <4>1
      <4> QED BY <1>4, <1>6, <4>2
    <3>2. N2 \subseteq N /\ N \cup B \subseteq N2 \cup B2 /\ Agree(dev, Due, d, N, B, 0)
      BY <2>6, <2>9
    <3> HIDE DEF N, B, N2, B2
    <3>3. Agree(dev, Due, d, N2, B2, 0)
      BY <1>1, <3>1, <3>2, SinglesBegun
    <3> QED BY <3>3 DEF N2, B2
  <2>11. Sense(dev, Due, oi, d, "inc", z, failed)
    <3>1. Aligned(dev, Due, oi)
      BY <2>7 DEF Knowing, Aligned, Within, Overlap
    <3>2. Agree(dev, Due, d, New(oi, "inc"), BegunOnes(oi, "inc"), Open(oi, "inc"))
      BY <2>7, <2>10 DEF New, BegunOnes, Open
    <3>3. oi.missed \/ failed \/ KnownOrAhead(dev, Due, oi, d, "inc")
      BY <2>7 DEF Knowing, Known, KnownOrAhead
    <3> QED BY <3>1, <3>2, <3>3 DEF Sense
  <2>12. Starting(oi, d, "inc", s)
    <3>1. s \in Handles
      BY <1>1, <2>1, <2>4, SeqFacts
    <3> QED BY <2>7, <3>1 DEF Starting, Grouped
  <2> QED BY <2>5, <2>11, <2>12, AskKeeps
<1> QED BY <1>8, <1>9

\* Behind its included services a service has characteristics.
LEMMA InclBegun ==
  ASSUME NoGaps, NEW T, T \in Tables, NEW s, s \in T, NEW found, found \in Seq(Items),
         El(found) = Matching(T, "inc", s.start, s.end),
         \A i \in 1..Len(found) : found[i].at = s.start + i,
         NEW b, b \in Seq(Kinds), Len(b) = Len(found) + 1, b[1] = "svc",
         \A i \in 1..Len(found) : b[i + 1] = found[i].kind
  PROVE  Begun(b, s.layout)
<1> DEFINE l == s.layout
           k == Len(l)
           n == Len(found)
<1>1. /\ s.start \in Nat /\ s.end \in Nat /\ k \in Nat /\ 1 <= k /\ s.start + k - 1 <= s.end
      /\ l \in Seq(Kinds \cup {"gap"}) /\ WellFormed(l)
  BY ServiceFacts DEF Handles
<1>2. n \in Nat /\ DOMAIN found = 1..n /\ \A i \in 1..n : found[i] \in El(found)
  BY SeqFacts
<1>3. /\ DOMAIN l = 1..k /\ \A j \in 1..k : l[j] # "gap"
  <2>1. \A j \in 1..Len(s.layout) : s.layout[j] # "gap"
    BY NoGap
  <2>2. DOMAIN l = 1..k
    BY <1>1
  <2> QED BY <2>1, <2>2
<1>4. /\ n = Len(found) /\ Len(b) = n + 1 /\ \A i \in 1..n : b[i + 1] = found[i].kind /\ found[i].at = s.start + i
  OBVIOUS
<1> HIDE DEF l, k, n
<1>5. ASSUME NEW i \in 1..n PROVE i + 1 <= k /\ l[i + 1] = "inc" /\ b[i + 1] = "inc"
  <2> DEFINE f == found[i]
  <2>1. f \in Matching(T, "inc", s.start, s.end) /\ f.at = s.start + i /\ b[i + 1] = f.kind
    BY <1>2, <1>4
  <2> HIDE DEF f
  <2>2. s.start <= f.at /\ f.at <= s.end
    BY <1>1, <2>1, MatchingRange
  <2>3. PICK j \in Wanted(s, "inc", s.start, s.end) : f = Item("inc", s, j) /\ f.at = s.start + j - 1
    BY <1>1, <2>1, <2>2, FoundInService
  <2>4. j \in Nat /\ j <= Len(s.layout) /\ s.layout[j] = "inc"
    BY <1>1, <2>3, WantedFacts
  <2>5. f.kind = s.layout[j]
    BY <1>1, <2>3, ItemFacts, SMTT(30)
  <2>6. j = i + 1
    BY <1>1, <2>1, <2>3, <2>4
  <2> QED BY <2>1, <2>4, <2>5, <2>6 DEF k, l
<1>6. l[1] = "svc"
  <2>1. 1 \in 1..k
    BY <1>1
  <2> QED BY <1>1, <1>3, <2>1 DEF WellFormed
<1>7. n + 1 <= k
  <2>1. n # 0 => n \in 1..n
    BY <1>2
  <2> QED BY <1>1, <1>2, <1>5, <2>1
<1>8. ASSUME NEW i \in 1..(n + 1) PROVE b[i] = l[i] /\ b[i] # "chr"
  <2>1. CASE i = 1
    BY <1>6, <2>1
  <2>2. CASE i # 1
    <3>1. i - 1 \in 1..n /\ (i - 1) + 1 = i
      BY <1>2, <2>2
    <3>2. l[(i - 1) + 1] = "inc" /\ b[(i - 1) + 1] = "inc"
      BY <1>5, <3>1
    <3> QED BY <3>1, <3>2
  <2> QED BY <2>1, <2>2
<1>9. ASSUME n + 1 # k PROVE l[n + 2] = "chr"
  <2>1. n + 2 \in 1..k /\ n + 1 \in 1..k /\ n + 1 \in 1..(n + 1) /\ n + 2 # 1 /\ (n + 2) - 1 = n + 1
    BY <1>1, <1>2, <1>7, <1>9
  <2>2. l[n + 2] \in Kinds /\ l[n + 2] # "gap" /\ l[n + 2] # "svc"
    <3>1. l[n + 2] \in Kinds \cup {"gap"}
      BY <1>1, <1>3, <2>1
    <3>2. (l[n + 2] = "svc") = (n + 2 = 1)
      BY <1>1, <1>3, <2>1 DEF WellFormed
    <3> QED BY <1>3, <2>1, <3>1, <3>2
  <2>3. l[n + 1] \in {"svc", "inc"}
    <3>1. CASE n = 0
      BY <1>6, <3>1
    <3>2. CASE n # 0
      <4>1. n \in 1..n
        BY <1>2, <3>2
      <4> QED BY <1>5, <4>1
    <3> QED BY <3>1, <3>2
  <2>4. l[n + 2] \notin {"val", "scv", "dsc"}
    <3>1. l[n + 2] \in {"val", "scv"} => l[(n + 2) - 1] = "chr"
      BY <1>1, <1>3, <2>1 DEF WellFormed
    <3>2. l[n + 2] = "dsc" => l[(n + 2) - 1] \in {"val", "scv", "dsc", "gap"}
      BY <1>1, <1>3, <2>1 DEF WellFormed
    <3> QED BY <2>1, <2>3, <3>1, <3>2
  <2>5. ASSUME l[n + 2] = "inc" PROVE FALSE
    <3>1. n + 2 \in DOMAIN s.layout /\ s.start + (n + 2) - 1 \in s.start..s.end
      BY <1>1, <1>2, <1>3, <2>1 DEF l
    <3>2. n + 2 \in Wanted(s, "inc", s.start, s.end)
      BY <2>5, <3>1 DEF Wanted, l
    <3> DEFINE f == Item("inc", s, n + 2)
    <3>3. f \in El(found) /\ f.at = s.start + (n + 2) - 1
      BY <1>1, <3>2, WantedFound
    <3> HIDE DEF f
    <3>4. PICK i \in 1..n : found[i] = f
      BY <1>2, <3>3 DEF El
    <3>5. s.start + i = s.start + (n + 2) - 1
      BY <1>4, <3>3, <3>4
    <3> QED BY <1>1, <1>2, <3>5
  <2> QED BY <2>2, <2>4, <2>5 DEF Kinds
<1>10. Begins(b, l)
  BY <1>4, <1>7, <1>8 DEF Begins, k
<1>11. Boundary(l, Len(b))
  <2>1. (n + 1) + 1 = n + 2
    BY <1>2
  <2> QED BY <1>4, <1>9, <2>1 DEF Boundary, k
<1> QED BY <1>4, <1>8, <1>10, <1>11 DEF Begun, l

LEMMA InclCbKeeps ==
  ASSUME Mindful, NoGaps, NEW o, NEW d, NEW to, Including(o, d), Sense(dev, Due, o, d, "inc", to, failed),
         \A t \in d : t.start = o.cur => to = t.end,
         NEW found, found \in Seq(Items), FoundAll(dev, Due, o, d, "inc", to, found), discover_incl_cb(o, d, found)
  PROVE  Meaning'
<1>b. Busy /\ dev \in Tables /\ DbOK(d) /\ Continued(o)
  BY MindfulFacts DEF Including
<1> DEFINE e == Extended(d, o.cur, FoundKinds(found))
           P == El(o.pending)
           W == El(o.tmp)
<1>1. /\ \A h \in P \cup W : h \in Handles /\ o.start <= h /\ h <= o.end
      /\ o.cur \in W /\ o.cur \notin P
      /\ \E t \in d : t.start = o.cur /\ ~t.active
  BY <1>b, IncludingRange
<1>2. PICK t \in d : t.start = o.cur
  BY <1>1
<1>3. Service(d, o.cur) = t
  BY <1>b, <1>2, ServiceIs
<1>4. Complete(o, d, "failed") \/ (~Misplaced(t, found) /\ NextIncluding(o, e))
  BY <1>3 DEF discover_incl_cb
<1>5. Agree(dev, Due, d, P \cup {o.cur}, W \ {o.cur}, 0) /\ Knowing(o, d)
  BY KnowingSensed DEF Sense, New, BegunOnes, Open
<1>6. Clear(Due, t) => El(found) = Matching(dev, "inc", t.start, t.end)
  BY <1>2 DEF FoundAll
<1>i. Including(o, d)
  OBVIOUS
<1>f. found \in Seq(Items)
  OBVIOUS
<1> HIDE DEF P, W
<1>7. CASE Complete(o, d, "failed")
  <2>1. \A h \in (P \cup {o.cur}) \cup (W \ {o.cur}) \cup {0} : h = 0 \/ (o.start <= h /\ h <= o.end)
    BY <1>1
  <2> QED BY <1>b, <1>5, <1>7, <2>1, FailedKeeps
<1>8. CASE ~Misplaced(t, found) /\ NextIncluding(o, e)
  <2>1. PICK u :
          /\ ExtendedAs(d, t, FoundKinds(found), u, e) /\ SameHandles(d, e)
          /\ \A i \in 1..Len(found) : found[i].at = t.start + Len(t.attrs) + i - 1
    BY <1>b, <1>2, <1>8, FoundExtended
  <2>k. /\ FoundKinds(found) \in Seq(Kinds) /\ Len(FoundKinds(found)) = Len(found)
        /\ \A i \in 1..Len(found) : FoundKinds(found)[i] = found[i].kind
    BY <1>b, <1>8, ExtendedByFound
  <2>n. NextIncluding(o, e)
    BY <1>8
  <2> HIDE DEF e
  <2>2. /\ DbOK(e) /\ u.start = t.start /\ u.end = t.end /\ u.primary = t.primary /\ u \in e
        /\ u.attrs = t.attrs \o FoundKinds(found)
    BY <2>1 DEF ExtendedAs
  <2>3. Including(o, e)
    <3>1. Listed(o, e, o.tmp \o o.pending)
      BY <1>b, <2>1, ExtendedListed DEF Including
    <3> QED BY <2>2, <3>1 DEF Including
  <2>4. Knowing(o, e)
    BY <1>5, <2>1, HandlesKept DEF Knowing
  <2>5. ASSUME Clear(Due, t) PROVE AgreeAt(dev, u, P, W, 0)
    <3>1. AgreeAt(dev, t, P \cup {o.cur}, W \ {o.cur}, 0)
      BY <1>5, <2>5 DEF Agree
    <3>2. PICK s \in dev : Same(s, t) /\ t.attrs = <<"svc">>
      BY <1>2, <3>1 DEF AgreeAt
    <3>3. s.start = t.start /\ s.end = t.end /\ Same(s, u)
      BY <2>2, <3>2 DEF Same
    <3> DEFINE x == <<"svc">>
               z == FoundKinds(found)
               b == x \o z
    <3>4. x \in Seq(Kinds) /\ Len(x) = 1 /\ x[1] = "svc"
      BY DEF Kinds
    <3>5. /\ z \in Seq(Kinds) /\ Len(z) = Len(found)
          /\ \A i \in 1..Len(found) : z[i] = found[i].kind
      BY <2>k
    <3>6. u.attrs = b /\ t.attrs = x
      BY <2>2, <3>2
    <3> HIDE DEF x, z
    <3>q. x \in Seq(Kinds) /\ z \in Seq(Kinds)
      BY <3>4, <3>5
    <3>7. /\ b \in Seq(Kinds) /\ Len(b) = Len(x) + Len(z)
          /\ \A i \in 1..Len(x) : b[i] = x[i]
          /\ \A i \in 1..Len(z) : b[Len(x) + i] = z[i]
      BY ONLY <3>q, ConcatIs
    <3>8. Len(found) \in Nat /\ t.start \in Nat
      BY <1>b, <1>f, SeqFacts, FitsIn
    <3>9. /\ Len(b) = Len(found) + 1 /\ b[1] = "svc"
          /\ \A i \in 1..Len(found) : b[i + 1] = found[i].kind
      <4>1. \A i \in 1..Len(found) : 1 + i = i + 1
        BY <3>8
      <4>2. 1 \in 1..1
        OBVIOUS
      <4> HIDE DEF b
      <4> QED BY <3>4, <3>5, <3>7, <3>8, <4>1, <4>2
    <3>10. \A i \in 1..Len(found) : found[i].at = s.start + i
      <4>1. \A i \in 1..Len(found) : found[i].at = t.start + 1 + i - 1
        BY <2>1, <3>4, <3>6
      <4> QED BY <3>3, <3>8, <4>1
    <3>11. El(found) = Matching(dev, "inc", s.start, s.end)
      BY <1>6, <2>5, <3>3
    <3> HIDE DEF b
    <3>12. Begun(b, s.layout)
      BY <1>b, <1>f, <3>7, <3>9, <3>10, <3>11, InclBegun
    <3>13. u.start \in W /\ u.start \notin P
      BY <1>1, <1>2, <2>2
    <3> QED BY <3>3, <3>6, <3>12, <3>13 DEF AgreeAt
  <2>6. Agree(dev, Due, e, P, W, 0)
    <3> DEFINE N == P \cup {o.cur}
               B == W \ {o.cur}
    <3>1. \A h : h # t.start => /\ h \in P => h \in N
                                /\ h \in W => h \in B
                                /\ h \in N \cup B \cup {0} => h \in P \cup W \cup {0}
      BY <1>2
    <3>2. Agree(dev, Due, d, N, B, 0) /\ (Clear(Due, t) => AgreeAt(dev, u, P, W, 0))
      BY <1>5, <2>5
    <3> HIDE DEF N, B
    <3> QED BY <1>b, <2>1, <3>1, <3>2, ExtendedAgree
  <2>7. Agree(dev, Due, e, El(o.pending), El(o.tmp), 0)
    BY <2>6 DEF P, W
  <2> QED BY <2>3, <2>4, <2>7, <2>n, NextIncludingKeeps
<1> QED BY <1>4, <1>7, <1>8

---------------------------------------------------------------------------
(* Services that were found.                                               *)

\* The services found are new in e.
InsertedAs(d, found, primary, e) ==
  /\ Addable(d, found) /\ primary \in BOOLEAN
  /\ \A t : t \in e <=> t \in d \/ \E i \in 1..Len(found) : t = NewService(found[i], primary)

LEMMA InsertedAllAs ==
  ASSUME NEW d, DbOK(d), NEW found, Addable(d, found), NEW primary, primary \in BOOLEAN,
         NEW e, e = InsertAll(d, found, primary)
  PROVE  InsertedAs(d, found, primary, e)
BY InsertedIs DEF InsertedAs

ServiceKind(primary) == IF primary THEN "primary" ELSE "secondary"

\* They are services of the device.
LEMMA InsertedAgree ==
  ASSUME NEW T, NEW Q, NEW o, NEW d, NEW primary, NEW found, NEW e, InsertedAs(d, found, primary, e),
         NEW kind, kind = ServiceKind(primary), FoundAll(T, Q, o, d, kind, o.end, found),
         NEW new, Agree(T, Q, d, new, {}, 0)
  PROVE  Agree(T, Q, e, new \cup El(Starts(found)), {}, 0)
<1> DEFINE z == Starts(found)
<1>0. Addable(d, found) /\ found \in Seq(Items)
  BY DEF Addable, InsertedAs
<1>k. kind \in Grouped /\ (kind = "primary" <=> primary) /\ primary \in BOOLEAN
  BY DEF Grouped, InsertedAs, ServiceKind
<1>e. \A t : t \in e <=> t \in d \/ \E i \in 1..Len(found) : t = NewService(found[i], primary)
  BY DEF InsertedAs
<1>1. /\ DOMAIN found = 1..Len(found) /\ z \in Seq(Handles) /\ Len(z) = Len(found)
      /\ \A i \in 1..Len(found) : z[i] = found[i].at /\ found[i] \in El(found)
  BY <1>0, SeqFacts, StartsIs
<1>2. \A i \in 1..Len(found) : \A t \in d : t.start # found[i].at
  BY <1>0 DEF Addable
<1> HIDE DEF z
<1>3. \A h \in El(z) : \E i \in 1..Len(found) : h = found[i].at
  BY <1>1, SeqFacts
<1>4. \A i \in 1..Len(found) : found[i].at \in El(z)
  <2>1. \A i \in 1..Len(z) : z[i] \in El(z)
    BY <1>1, SeqFacts
  <2> QED BY <1>1, <2>1
<1> SUFFICES ASSUME NEW t \in e, Clear(Q, t) PROVE AgreeAt(T, t, new \cup El(z), {}, 0)
  BY DEF Agree, z
<1>5. CASE t \in d
  <2>1. AgreeAt(T, t, new, {}, 0) /\ t.start \notin El(z)
    BY <1>2, <1>3, <1>5 DEF Agree
  <2> QED BY <2>1 DEF AgreeAt
<1>6. CASE \E i \in 1..Len(found) : t = NewService(found[i], primary)
  <2>1. PICK i \in 1..Len(found) : t = NewService(found[i], primary)
    BY <1>6
  <2> DEFINE f == found[i]
  <2>2. f \in El(found) /\ f.at \in El(z)
    BY <1>1, <1>4
  <2> HIDE DEF f
  <2>3. t.start = f.at /\ t.end = f.to /\ t.primary = primary /\ t.attrs = <<"svc">>
    BY <2>1 DEF NewService, f
  <2>4. Clear(Q, Span(f))
    <3>1. t.start = Span(f).start /\ t.end = Span(f).end
      BY <2>3 DEF Span
    <3> QED BY <3>1, ClearSame
  <2>5. f \in Matching(T, kind, o.start, o.end)
    BY <1>k, <2>2, <2>4 DEF FoundAll
  <2>6. PICK s \in T : /\ s.primary = (kind = "primary")
                       /\ f = [at |-> s.start, to |-> s.end, kind |-> "svc"]
    BY <1>k, <2>5, MatchingIs
  <2>p. (kind = "primary") = primary
    BY <1>k
  <2>7. Same(s, t)
    BY <2>3, <2>6, <2>p DEF Same
  <2> QED BY <2>2, <2>3, <2>7 DEF AgreeAt
<1> QED BY <1>5, <1>6, <1>e

OfKind(kind, s) == s.primary <=> kind = "primary"
FoundOne(found, s) == \E f \in El(found) : f.at = s.start /\ f.to = s.end

\* All of them were found that the discovery asks for.
LEMMA FoundService ==
  ASSUME NEW T, T \in Tables, NEW Q, NEW o, o.start \in Nat, o.end \in Nat, NEW d,
         NEW kind, kind \in Grouped, NEW found, FoundAll(T, Q, o, d, kind, o.end, found),
         NEW s, s \in T, Clear(Q, s), Within(s, o), OfKind(kind, s)
  PROVE  FoundOne(found, s)
<1> DEFINE f == [at |-> s.start, to |-> s.end, kind |-> "svc"]
<1>1. f.at = s.start /\ f.to = s.end
  OBVIOUS
<1>2. s.start \in o.start..o.end
  BY ServiceFacts DEF Within, Handles
<1>k. s.primary = (kind = "primary")
  <2>1. s.primary \in BOOLEAN /\ (s.primary <=> kind = "primary")
    BY ServiceFacts DEF OfKind
  <2>2. CASE kind = "primary"
    <3>1. s.primary = TRUE
      BY <2>1, <2>2
    <3>2. (kind = "primary") = TRUE
      BY <2>2, Zenon
    <3> QED BY <3>1, <3>2, Zenon
  <2>3. CASE kind # "primary"
    <3>1. s.primary = FALSE
      BY <2>1, <2>3
    <3>2. (kind = "primary") = FALSE
      BY <2>3, Zenon
    <3> QED BY <3>1, <3>2, Zenon
  <2> QED BY <2>2, <2>3
<1>3. f \in Matching(T, kind, o.start, o.end)
  <2> HIDE DEF f
  <2>1. /\ s.primary = (kind = "primary") /\ s.start \in o.start..o.end
        /\ f = [at |-> s.start, to |-> s.end, kind |-> "svc"]
    BY <1>2, <1>k DEF f
  <2>2. f \in Matching(T, kind, o.start, o.end) <=>
                 \E t \in T : /\ t.primary = (kind = "primary") /\ t.start \in o.start..o.end
                              /\ f = [at |-> t.start, to |-> t.end, kind |-> "svc"]
    BY MatchingIs
  <2> QED BY ONLY <2>1, <2>2, s \in T, Zenon
<1>4. Clear(Q, Span(f))
  <2>1. s.start = Span(f).start /\ s.end = Span(f).end
    BY DEF Span
  <2> QED BY <2>1, ClearSame
<1> HIDE DEF f
<1>5. f \in El(found)
  BY <1>3, <1>4 DEF FoundAll
<1> QED BY <1>1, <1>5 DEF FoundOne

LEMMA InsertedKnown ==
  ASSUME NEW T, T \in Tables, NEW Q, NEW o, o.start \in Nat, o.end \in Nat,
         NEW d, NEW primary, NEW found, NEW e, InsertedAs(d, found, primary, e),
         NEW kind, kind = ServiceKind(primary), FoundAll(T, Q, o, d, kind, o.end, found)
  PROVE  /\ \A s : InDb(d, s) => InDb(e, s)
         /\ \A s \in T : Clear(Q, s) /\ Within(s, o) /\ s.primary = primary => InDb(e, s)
<1>0. found \in Seq(Items) /\ primary \in BOOLEAN
  BY DEF InsertedAs, Addable
<1>1. \A s : InDb(d, s) => InDb(e, s)
  BY DEF InDb, InsertedAs
<1>2. ASSUME NEW s \in T, Clear(Q, s), Within(s, o), s.primary = primary PROVE InDb(e, s)
  <2>0. kind \in Grouped /\ OfKind(kind, s)
    BY <1>0, <1>2 DEF Grouped, ServiceKind, OfKind
  <2>f. FoundOne(found, s)
    BY <1>2, <2>0, FoundService
  <2>1. PICK f \in El(found) : f.at = s.start /\ f.to = s.end
    BY <2>f DEF FoundOne
  <2>2. PICK i \in 1..Len(found) : found[i] = f
    BY <1>0, SeqFacts
  <2> DEFINE t == NewService(found[i], primary)
  <2>3. t \in e
    BY DEF InsertedAs
  <2>4. t.start = s.start /\ t.end = s.end
    BY <2>1, <2>2 DEF NewService
  <2> HIDE DEF t
  <2> QED BY <2>3, <2>4 DEF InDb
<1> QED BY <1>1, <1>2

LEMMA PrimaryKeeps ==
  ASSUME Mindful, NEW o, Continued(o), NEW d, NEW to, Frame(o, d, "primary", to),
         Sense(dev, Due, o, d, "primary", to, failed),
         NEW found, found \in Seq(Items), FoundShape(o, "primary", to, found),
         FoundAll(dev, Due, o, d, "primary", to, found), discover_primary_cb(o, d, found)
  PROVE  Meaning'
<1> DEFINE z  == Starts(found)
           e  == InsertAll(d, found, TRUE)
           o1 == [o EXCEPT !.pending = z]
<1>1. /\ o \in Ops /\ o.start <= o.end /\ DbOK(d) /\ o.pending = <<>> /\ o.chrcs = <<>> /\ o.tmp = <<>>
      /\ to = o.end /\ \A t \in d : t.start \in o.start..o.end => t.start \in El(o.pending)
      /\ o.start \in Handles /\ o.end \in Handles
  BY DEF Frame, Grouped, Ops
<1>2. /\ Busy /\ dev \in Tables /\ Aligned(dev, Due, o) /\ Agree(dev, Due, d, {}, {}, 0)
      /\ o.missed \/ failed \/ KnownOrAhead(dev, Due, o, d, "primary")
      /\ FoundAll(dev, Due, o, d, "primary", o.end, found)
  BY <1>1, MindfulFacts DEF Sense, New, BegunOnes, Open
<1>3. CASE \E i \in DOMAIN found : Clash(d, found[i].at, found[i].to)
  <2>1. Complete(o, d, "failed")
    BY <1>3 DEF discover_primary_cb
  <2> QED BY <1>1, <1>2, <2>1, FailedKeeps
<1>4. CASE ~\E i \in DOMAIN found : Clash(d, found[i].at, found[i].to)
  <2>1. Ask(o1, e, "secondary", o.start, o.end)
    BY <1>4 DEF discover_primary_cb
  <2>2. Listed(o, d, o.pending)
    BY <1>1 DEF Listed
  <2>3. Gathering(o, d, "primary", found)
    BY <1>1, <1>4, <2>2 DEF Gathering, Grouped
  <2>4. InsertedAs(d, found, TRUE, e)
    <3>1. Addable(d, found)
      BY <2>3, GatheredIs
    <3> HIDE DEF e
    <3>2. e = InsertAll(d, found, TRUE)
      BY DEF e
    <3> QED BY <1>1, <3>1, <3>2, InsertedAllAs
  <2>p. "primary" = ServiceKind(TRUE)
    BY DEF ServiceKind
  <2>5. z \in Seq(Handles)
    BY StartsIs
  <2> HIDE DEF z, e
  <2>6. /\ o1.start = o.start /\ o1.end = o.end /\ o1.missed = o.missed /\ o1.pending = z
    BY <1>1 DEF Ops
  <2> HIDE DEF o1
  <2>7. Agree(dev, Due, e, El(z), {}, 0)
    <3>2. Agree(dev, Due, e, {} \cup El(Starts(found)), {}, 0)
      BY <1>2, <2>4, <2>p, InsertedAgree
    <3>3. {} \cup El(Starts(found)) = El(z)
      BY DEF z
    <3> QED BY <3>2, <3>3
  <2>8. o.missed \/ failed \/ KnownOrAhead(dev, Due, o1, e, "secondary")
    <3>2. o.start \in Nat /\ o.end \in Nat
      BY <1>1 DEF Handles
    <3>3. /\ \A s : InDb(d, s) => InDb(e, s)
          /\ \A s \in dev : Clear(Due, s) /\ Within(s, o) /\ s.primary = TRUE => InDb(e, s)
      BY <1>2, <2>4, <2>p, <3>2, InsertedKnown
    <3>4. \A s \in dev : s.primary \in BOOLEAN
      BY <1>2, ServiceFacts
    <3> QED BY <1>2, <2>6, <3>3, <3>4 DEF KnownOrAhead, Within
  <2>9. Sense(dev, Due, o1, e, "secondary", o.end, failed)
    <3>1. Aligned(dev, Due, o1)
      BY <1>2, <2>6 DEF Aligned, Within, Overlap
    <3>2. Agree(dev, Due, e, New(o1, "secondary"), BegunOnes(o1, "secondary"), Open(o1, "secondary"))
      BY <2>6, <2>7 DEF New, BegunOnes, Open
    <3> QED BY <2>6, <2>8, <3>1, <3>2 DEF Sense
  <2>10. Starting(o1, e, "secondary", o.start)
    BY <1>1, <2>6 DEF Starting, Grouped
  <2> QED BY <2>1, <2>9, <2>10, AskKeeps
<1> QED BY <1>3, <1>4

LEMMA SecondaryKeeps ==
  ASSUME Mindful, NEW o, Continued(o), NEW d, NEW to, Frame(o, d, "secondary", to),
         Sense(dev, Due, o, d, "secondary", to, failed),
         NEW found, found \in Seq(Items), FoundShape(o, "secondary", to, found),
         FoundAll(dev, Due, o, d, "secondary", to, found), discover_secondary_cb(o, d, found)
  PROVE  Meaning'
<1> DEFINE all == o.pending \o Starts(found)
           e   == InsertAll(d, found, FALSE)
           o1  == [o EXCEPT !.pending = Tail(all), !.tmp = <<Head(all)>>, !.cur = Head(all)]
<1>1. /\ o \in Ops /\ o.start <= o.end /\ DbOK(d) /\ o.chrcs = <<>> /\ o.pending \in Seq(Handles)
      /\ to = o.end /\ \A t \in d : t.start \in o.start..o.end => t.start \in El(o.pending)
      /\ o.start \in Handles /\ o.end \in Handles /\ o.start \in Nat /\ o.end \in Nat
  BY DEF Frame, Grouped, Ops, Handles
<1>2. Listed(o, d, o.pending)
  <2>1. WorkList(o, "secondary") = o.pending
    BY DEF WorkList
  <2> QED BY <2>1 DEF Frame
<1>3. /\ Busy /\ dev \in Tables /\ Aligned(dev, Due, o) /\ Agree(dev, Due, d, El(o.pending), {}, 0)
      /\ o.missed \/ failed \/ KnownOrAhead(dev, Due, o, d, "secondary")
      /\ FoundAll(dev, Due, o, d, "secondary", o.end, found) /\ "secondary" \in Grouped
  BY <1>1, MindfulFacts DEF Sense, New, BegunOnes, Open, Grouped
<1>4. \A s \in dev : s.primary \in BOOLEAN /\ s.start \in Nat /\ s.end \in Nat /\ s.start <= s.end
  BY <1>3, ServiceFacts DEF Handles
<1>5. CASE \E i \in DOMAIN found : Clash(d, found[i].at, found[i].to)
  <2>1. Complete(o, d, "failed")
    BY <1>5 DEF discover_secondary_cb
  <2>2. ASSUME NEW h \in El(o.pending) PROVE o.start <= h /\ h <= o.end
    <3>1. PICK i \in DOMAIN o.pending : o.pending[i] = h
      BY DEF El
    <3>2. o.pending[i] \in o.start..o.end
      BY <1>2, <3>1 DEF Listed
    <3> QED BY <1>1, <3>1, <3>2
  <2>3. \A h \in El(o.pending) \cup {} \cup {0} : h = 0 \/ (o.start <= h /\ h <= o.end)
    BY <2>2
  <2> QED BY <1>1, <1>3, <2>1, <2>3, FailedKeeps
<1>6. CASE ~\E i \in DOMAIN found : Clash(d, found[i].at, found[i].to)
  <2>1. IF all = <<>> THEN Complete(o, d, "none")
        ELSE Ask(o1, e, "inc", Head(all), End(e, Head(all)))
    BY <1>6 DEF discover_secondary_cb
  <2>2. CASE all = <<>>
    <3>1. Starts(found) \in Seq(Handles) /\ Len(Starts(found)) = Len(found) /\ DOMAIN found = 1..Len(found)
      BY StartsIs, SeqFacts
    <3>2. o.pending = <<>> /\ Starts(found) = <<>>
      BY <1>1, <2>2, <3>1, ConcatEqualIffEmpty
    <3>3. El(found) = {} /\ El(o.pending) = {}
      <4>1. DOMAIN found = {}
        BY <3>1, <3>2
      <4> QED BY <3>2, <4>1 DEF El
    <3> DEFINE g == gatt_db_clear_range(d, o.start, o.end)
    <3>4. Remaining(o, d, "none") = g
      BY DEF Remaining
    <3>5. \A t : t \in g <=> t \in d /\ (t.end < o.start \/ o.end < t.start)
      BY <1>1, ClearedIs
    <3>6. Agree(dev, Due, g, {}, {}, 0)
      <4>1. Agree(dev, Due, d, {}, {}, 0)
        BY <1>3, <3>3
      <4> QED BY <3>5, <4>1 DEF Agree
    <3> HIDE DEF g
    <3>7. ASSUME KnownOrAhead(dev, Due, o, d, "secondary") PROVE Known(dev, Due, g)
      <4> SUFFICES ASSUME NEW s \in dev, Clear(Due, s) PROVE InDb(g, s)
        BY DEF Known
      <4>1. ~(Within(s, o) /\ ~s.primary)
        <5> SUFFICES ASSUME Within(s, o), ~s.primary PROVE FALSE
          OBVIOUS
        <5>1. OfKind("secondary", s)
          BY DEF OfKind
        <5>2. FoundOne(found, s)
          BY <1>1, <1>3, <5>1, FoundService
        <5> QED BY <3>3, <5>2 DEF FoundOne
      <4>2. PICK t \in d : t.start = s.start /\ t.end = s.end
        BY <3>7, <4>1 DEF KnownOrAhead, InDb
      <4>3. t.end < o.start \/ o.end < t.start
        <5> SUFFICES ASSUME ~(t.end < o.start \/ o.end < t.start) PROVE FALSE
          OBVIOUS
        <5>1. Overlap(s, o)
          BY <1>1, <1>4, <4>2 DEF Overlap
        <5>2. Within(s, o)
          BY <1>3, <5>1 DEF Aligned
        <5>3. t.start \in o.start..o.end
          BY <1>1, <1>4, <4>2, <5>2 DEF Within
        <5> QED BY <1>1, <3>3, <5>3
      <4> QED BY <3>5, <4>2, <4>3 DEF InDb
    <3>8. Settled(dev, Due, Remaining(o, d, "none"), failed \/ o.missed \/ "none" = "failed")
      BY <1>3, <3>4, <3>6, <3>7 DEF Settled
    <3> QED BY <1>1, <2>1, <2>2, <3>8, CompleteKeeps
  <2>3. CASE all # <<>>
    <3> DEFINE z == Starts(found)
    <3>1. Gathering(o, d, "secondary", found)
      BY <1>1, <1>2, <1>6 DEF Gathering, Grouped
    <3>2. DbOK(e) /\ all \in Seq(Handles) /\ Addable(d, found)
      BY <3>1, GatheredIs
    <3>3. InsertedAs(d, found, FALSE, e)
      <4> HIDE DEF e
      <4>1. e = InsertAll(d, found, FALSE)
        BY DEF e
      <4> QED BY <1>1, <3>2, <4>1, InsertedAllAs
    <3>4. El(all) = El(o.pending) \cup El(z)
      <4>1. z \in Seq(Handles)
        BY StartsIs
      <4> HIDE DEF z
      <4> QED BY <1>1, <4>1, ConcatIs DEF z
    <3> DEFINE h == Head(all)
               u == Tail(all)
    <3>5. Ask([o EXCEPT !.pending = u, !.tmp = <<h>>, !.cur = h], e, "inc", h, End(e, h))
      BY <2>1, <2>3
    <3> HIDE DEF all, e, z
    <3>6. h = all[1] /\ h \in Handles /\ u \in Seq(Handles) /\ <<h>> \o u = all
      BY <2>3, <3>2, HeadTailIs
    <3> HIDE DEF h, u, o1
    <3>7. El(all) = El(u) \cup {h} /\ El(<<h>>) = {h}
      <4> DEFINE x == <<h>>
      <4>1. x \in Seq(Handles) /\ El(x) = {h}
        <5>1. DOMAIN x = {1} /\ x[1] = h
          OBVIOUS
        <5> QED BY <3>6, <5>1 DEF El
      <4>2. x \o u = all
        BY <3>6
      <4> HIDE DEF x
      <4>3. El(x \o u) = El(x) \cup El(u)
        BY <3>6, <4>1, ConcatIs
      <4>4. El(all) = El(u) \cup {h} /\ El(x) = {h}
        BY <4>1, <4>2, <4>3
      <4> QED BY <4>4 DEF x
    <3> DEFINE oi == [o EXCEPT !.pending = u, !.tmp = <<h>>, !.cur = h]
    <3>8. /\ oi.start = o.start /\ oi.end = o.end /\ oi.missed = o.missed
          /\ oi.pending = u /\ oi.tmp = <<h>> /\ oi.cur = h
      BY <1>1 DEF Ops
    <3>9. Ask(oi, e, "inc", h, End(e, h))
      BY <3>5
    <3> HIDE DEF oi
    <3>10. "secondary" = ServiceKind(FALSE)
      BY DEF ServiceKind
    <3>11. Agree(dev, Due, e, El(all), {}, 0)
      <4>1. Agree(dev, Due, e, El(o.pending) \cup El(Starts(found)), {}, 0)
        BY <1>3, <3>3, <3>10, InsertedAgree
      <4> QED BY <3>4, <4>1 DEF z
    <3>12. o.missed \/ failed \/ KnownOrAhead(dev, Due, oi, e, "inc")
      <4>1. /\ \A s : InDb(d, s) => InDb(e, s)
            /\ \A s \in dev : Clear(Due, s) /\ Within(s, o) /\ s.primary = FALSE => InDb(e, s)
        BY <1>1, <1>3, <3>3, <3>10, InsertedKnown
      <4> QED BY <1>3, <1>4, <4>1 DEF KnownOrAhead
    <3>13. Sense(dev, Due, oi, e, "inc", End(e, h), failed)
      <4>1. Aligned(dev, Due, oi)
        BY <1>3, <3>8 DEF Aligned, Within, Overlap
      <4>2. New(oi, "inc") = El(all) /\ BegunOnes(oi, "inc") = {} /\ Open(oi, "inc") = 0
        BY <3>7, <3>8 DEF New, BegunOnes, Open
      <4> QED BY <3>8, <3>11, <3>12, <4>1, <4>2 DEF Sense
    <3>14. Starting(oi, e, "inc", h)
      BY <3>6, <3>8 DEF Starting, Grouped
    <3> QED BY <3>9, <3>13, <3>14, AskKeeps
  <2> QED BY <2>2, <2>3
<1> QED BY <1>5, <1>6

---------------------------------------------------------------------------
(* The answers of the device.                                              *)

LEMMA RangeSplits ==
  ASSUME NEW T, T \in Tables, NEW kind, NEW lo, lo \in Nat, NEW from, from \in Nat, 1 <= from, lo <= from,
         NEW upto, upto \in Nat, from - 1 <= upto, NEW f
  PROVE  f \in Matching(T, kind, lo, upto) <=>
           f \in Matching(T, kind, lo, from - 1) \/ f \in Matching(T, kind, from, upto)
<1> DEFINE M == Matching(T, kind, 0, MaxHandle)
           b == from - 1
<1>1. b \in Nat
  OBVIOUS
<1> HIDE DEF b
<1>2. /\ f \in Matching(T, kind, lo, upto) <=> f \in M /\ lo <= f.at /\ f.at <= upto
      /\ f \in Matching(T, kind, lo, b)    <=> f \in M /\ lo <= f.at /\ f.at <= b
      /\ f \in Matching(T, kind, from, upto) <=> f \in M /\ from <= f.at /\ f.at <= upto
  BY <1>1, MatchingRange
<1>3. f \in M => f.at \in Nat
  <2>1. AnswerOK(Matching(T, kind, 0, MaxHandle), kind, 0, MaxHandle)
    BY MatchingOK
  <2> QED BY <2>1 DEF AnswerOK, Orderable
<1> HIDE DEF M
<1>4. b = from - 1
  BY DEF b
<1>5. f \in Matching(T, kind, lo, upto) <=> f \in Matching(T, kind, lo, b) \/ f \in Matching(T, kind, from, upto)
  BY <1>1, <1>2, <1>3, <1>4
<1> QED BY <1>5 DEF b

\* What is found behind what was found.
LEMMA FoundAdvances ==
  ASSUME NEW T, T \in Tables, NEW Q, NEW o, o.start \in Nat, o.cur \in Nat, NEW d, DbOK(d), NEW kind,
         NEW from, from \in Nat, 1 <= from, NEW upto, upto \in Nat, from - 1 <= upto,
         kind \in Grouped => o.start <= from, kind \in {"inc", "chr"} => o.cur <= from,
         kind = "dsc" => \A t \in d : t.start = o.cur => t.start + Len(t.attrs) <= from,
         NEW found, FoundAll(T, Q, o, d, kind, from - 1, found),
         NEW more, \A f : f \in El(more) <=> f \in El(found) \/ f \in Matching(T, kind, from, upto)
  PROVE  FoundAll(T, Q, o, d, kind, upto, more)
<1>1. CASE kind \in Grouped
  <2>1. \A f : f \in Matching(T, kind, o.start, upto) <=>
                 f \in Matching(T, kind, o.start, from - 1) \/ f \in Matching(T, kind, from, upto)
    BY <1>1, RangeSplits
  <2> DEFINE A == Matching(T, kind, o.start, from - 1)
             B == Matching(T, kind, from, upto)
             C == Matching(T, kind, o.start, upto)
  <2>2. /\ \A f \in El(found) : Clear(Q, Span(f)) => f \in A
        /\ \A f \in A : Clear(Q, Span(f)) => f \in El(found)
    BY <1>1 DEF FoundAll
  <2>3. kind \notin {"inc", "chr", "dsc"}
    BY <1>1 DEF Grouped
  <2>4. (\A f : f \in C <=> f \in A \/ f \in B) /\ \A f : f \in El(more) <=> f \in El(found) \/ f \in B
    BY <2>1
  <2> HIDE DEF A, B, C
  <2>5. /\ \A f \in El(more) : Clear(Q, Span(f)) => f \in C
        /\ \A f \in C : Clear(Q, Span(f)) => f \in El(more)
    BY <2>2, <2>4
  <2> QED BY <2>3, <2>5 DEF FoundAll, C
<1>2. CASE kind \in {"inc", "chr", "dsc"}
  <2> SUFFICES ASSUME NEW t \in d, t.start = o.cur, Clear(Q, t)
               PROVE  El(more) = Matching(T, kind, IF kind = "dsc" THEN t.start + Len(t.attrs) ELSE t.start, upto)
    BY <1>2 DEF FoundAll, Grouped
  <2> DEFINE lo == IF kind = "dsc" THEN t.start + Len(t.attrs) ELSE t.start
  <2>1. El(found) = Matching(T, kind, lo, from - 1)
    BY <1>2 DEF FoundAll
  <2>2. lo \in Nat /\ lo <= from
    <3>1. t.start \in Nat /\ Len(t.attrs) \in Nat
      BY DbIs, FitFacts
    <3>2. kind = "dsc" => t.start + Len(t.attrs) <= from /\ t.start + Len(t.attrs) \in Nat
      BY <3>1
    <3>3. kind # "dsc" => t.start <= from
      BY <1>2
    <3> QED BY <3>1, <3>2, <3>3
  <2> HIDE DEF lo
  <2>3. \A f : f \in Matching(T, kind, lo, upto) <=>
                 f \in Matching(T, kind, lo, from - 1) \/ f \in Matching(T, kind, from, upto)
    BY <2>2, RangeSplits
  <2>4. \A f : f \in El(more) <=> f \in Matching(T, kind, lo, upto)
    BY <2>1, <2>3
  <2>5. El(more) = Matching(T, kind, lo, upto)
    BY <2>4
  <2> QED BY <2>5 DEF lo
<1> QED BY <1>1, <1>2 DEF FoundAll

\* The place a procedure has come to.
LEMMA WaitingPlace ==
  ASSUME NEW p, Waiting(p)
  PROVE  /\ op.start \in Nat /\ op.cur \in Nat /\ p.from \in Nat /\ 1 <= p.from /\ p.to \in Nat /\ p.from <= p.to
         /\ dev \in Tables
         /\ p.kind \in Grouped => op.start <= p.from
         /\ p.kind \in {"inc", "chr"} => op.cur <= p.from
         /\ p.kind = "dsc" => \A t \in db : t.start = op.cur => t.start + Len(t.attrs) <= p.from
<1>1. ProcedureOK(op, db, p) /\ dev \in Tables /\ op \in Ops
  BY WaitingFacts DEF Waiting, Control
<1>2. p.from \in Handles /\ p.to \in Handles /\ op.start \in Nat /\ op.cur \in Nat /\ p.from <= p.to
  BY <1>1, WaitingFacts DEF Ops, Handles
<1> QED BY <1>1, <1>2 DEF ProcedureOK, Handles

LEMMA PageMeans ==
  ASSUME NEW p, Waiting(p), FoundAll(dev, Due, op, db, p.kind, p.from - 1, p.found),
         NEW n, n \in 1..Len(Matches(p)), NEW found, found = p.found \o SubSeq(Matches(p), 1, n),
         NEW upto, upto \in Nat, Matches(p)[n].at <= upto, upto <= p.to,
         upto <= LastHandle(p, Matches(p)[n])
  PROVE  FoundAll(dev, Due, op, db, p.kind, upto, found)
<1> DEFINE m == Matches(p)
           M == Matching(dev, p.kind, p.from, p.to)
<1>1. /\ op.start \in Nat /\ op.cur \in Nat /\ p.from \in Nat /\ 1 <= p.from /\ p.to \in Nat /\ p.from <= p.to
      /\ dev \in Tables /\ DbOK(db) /\ p.found \in Seq(Items)
      /\ p.kind \in Grouped => op.start <= p.from
      /\ p.kind \in {"inc", "chr"} => op.cur <= p.from
      /\ p.kind = "dsc" => \A t \in db : t.start = op.cur => t.start + Len(t.attrs) <= p.from
  BY WaitingFacts, WaitingPlace
<1>2. /\ m \in Seq(Items) /\ Len(m) \in Nat /\ El(m) = M /\ DOMAIN m = 1..Len(m)
      /\ \A i, j \in 1..Len(m) : i < j => m[i].at < m[j].at
      /\ m[n].at \in Nat /\ m[n].to \in Nat /\ p.from <= m[n].at /\ m[n] \in M
  <2>1. /\ m \in Seq(Items) /\ Len(m) \in Nat /\ El(m) = M /\ DOMAIN m = 1..Len(m)
        /\ \A i, j \in 1..Len(m) : i < j => m[i].at < m[j].at
        /\ m[n].at \in Nat /\ m[n].to \in Nat /\ p.from <= m[n].at
    BY <1>1, MatchesIs
  <2>2. m[n] \in El(m)
    BY <2>1 DEF El
  <2> QED BY <2>1, <2>2
<1>3. n \in 1..Len(m) /\ found = p.found \o SubSeq(m, 1, n) /\ m[n].at <= upto
      /\ (p.kind \in Grouped => upto <= m[n].to) /\ (p.kind \notin Grouped => upto <= m[n].at)
  BY DEF LastHandle, Grouped
<1> HIDE DEF m
<1>4. \A f : f \in El(found) <=> f \in El(p.found) \/ (f \in El(m) /\ f.at <= m[n].at)
  <2>1. \A i, j \in DOMAIN m : i < j => m[i].at < m[j].at
    BY <1>2
  <2> QED BY <1>1, <1>2, <1>3, <2>1, PageOf
<1> DEFINE g == m[n]
<1>5. AnswerOK(M, p.kind, p.from, p.to)
  BY <1>1, MatchingOK
<1>6. \A f : f \in Matching(dev, p.kind, p.from, upto) <=> f \in M /\ f.at <= upto
  <2>1. ASSUME NEW f PROVE f \in Matching(dev, p.kind, p.from, upto) <=> f \in M /\ f.at <= upto
    <3> DEFINE A == Matching(dev, p.kind, 0, MaxHandle)
    <3>1. /\ f \in Matching(dev, p.kind, p.from, upto) <=> f \in A /\ p.from <= f.at /\ f.at <= upto
          /\ f \in M <=> f \in A /\ p.from <= f.at /\ f.at <= p.to
      BY <1>1, MatchingRange
    <3>2. f \in A => f.at \in Nat
      <4>1. AnswerOK(Matching(dev, p.kind, 0, MaxHandle), p.kind, 0, MaxHandle)
        BY <1>1, MatchingOK
      <4> QED BY <4>1 DEF AnswerOK, Orderable
    <3> HIDE DEF A, M
    <3> QED BY <1>1, <3>1, <3>2
  <2> QED BY <2>1
<1>7. \A f \in M : f.at \in Nat /\ (p.kind \in Grouped /\ g.at < f.at => g.to < f.at)
  BY <1>2, <1>5 DEF AnswerOK, Orderable
<1> HIDE DEF M, g
<1>8. ASSUME NEW f \in M PROVE f.at <= g.at <=> f.at <= upto
  <2>1. /\ f.at \in Nat /\ g.at \in Nat /\ g.to \in Nat /\ g.at <= upto
        /\ p.kind \in Grouped => upto <= g.to /\ (g.at < f.at => g.to < f.at)
        /\ p.kind \notin Grouped => upto <= g.at
    BY <1>2, <1>3, <1>7 DEF g
  <2> QED BY <2>1
<1>9. \A f : f \in El(found) <=> f \in El(p.found) \/ f \in Matching(dev, p.kind, p.from, upto)
  BY <1>2, <1>4, <1>6, <1>8 DEF g
<1>10. p.from - 1 <= upto
  BY <1>1, <1>2, <1>3
<1> QED BY <1>1, <1>9, <1>10, FoundAdvances

LEMMA FinishedKeeps ==
  ASSUME NEW p, Waiting(p), Mindful, NoGaps, Sense(dev, Due, op, db, p.kind, p.to, failed),
         NEW found, found \in Seq(Items), FoundShape(op, p.kind, p.to, found),
         FoundAll(dev, Due, op, db, p.kind, p.to, found), Finished(p.kind, found)
  PROVE  Meaning'
<1>1. /\ Busy /\ Continued(op) /\ Frame(op, db, p.kind, p.to)
      /\ p.kind \in {"chr", "dsc"} => Doing(op, db)
      /\ p.kind = "inc" => Including(op, db)
  BY WaitingFacts DEF Waiting
<1>2. p.kind \in {"inc", "chr"} => \A t \in db : t.start = op.cur => p.to = t.end
  BY <1>1 DEF Frame
<1>3. CASE p.kind = "primary" /\ discover_primary_cb(op, db, found)
  BY <1>1, <1>3, PrimaryKeeps
<1>4. CASE p.kind = "secondary" /\ discover_secondary_cb(op, db, found)
  BY <1>1, <1>4, SecondaryKeeps
<1>5. CASE p.kind = "inc" /\ discover_incl_cb(op, db, found)
  BY <1>1, <1>2, <1>5, InclCbKeeps
<1>6. CASE p.kind = "chr" /\ discover_chrcs_cb(op, db, found)
  <2>1. \A i \in 1..Len(found) : found[i].to \in Handles
    <3>1. \A i \in 1..Len(found) : i \in DOMAIN found /\ found[i] \in Items
      BY SeqFacts
    <3>2. \A i \in DOMAIN found : found[i].to = found[i].at + 1 /\ found[i].to <= MaxHandle
      BY <1>6 DEF FoundShape
    <3>3. \A f \in Items : f.at \in Handles
      BY DEF Items
    <3> QED BY <3>1, <3>2, <3>3 DEF Handles
  <2> QED BY <1>1, <1>2, <1>6, <2>1, ChrcsCbKeeps
<1>7. CASE p.kind = "dsc" /\ discover_descs_cb(op, db, found)
  <2>1. p.to \in Nat /\ \A t \in db : t.start = op.cur => t.start + Len(t.attrs) <= p.to
    <3>1. p.from \in Nat /\ p.to \in Nat /\ p.from <= p.to
          /\ \A t \in db : t.start = op.cur => t.start + Len(t.attrs) <= p.from
      BY <1>7, WaitingPlace
    <3>2. ASSUME NEW t \in db, t.start = op.cur PROVE t.start + Len(t.attrs) <= p.to
      <4>1. t.start \in Nat /\ Len(t.attrs) \in Nat
        BY <1>1, DbIs, FitFacts DEF Frame
      <4> DEFINE m == Len(t.attrs)
      <4>2. t.start \in Nat /\ m \in Nat /\ t.start + m <= p.from
        BY <3>1, <3>2, <4>1
      <4> HIDE DEF m
      <4>3. t.start + m <= p.to
        BY <3>1, <4>2
      <4> QED BY <4>3 DEF m
    <3> QED BY <3>1, <3>2
  <2> QED BY <1>1, <1>7, <2>1, DescsCbKeeps
<1> QED BY <1>3, <1>4, <1>5, <1>6, <1>7 DEF Finished

LEMMA PageKeeps ==
  ASSUME NEW p, Waiting(p), Mindful, NoGaps, Sense(dev, Due, op, db, p.kind, p.to, failed),
         FoundAll(dev, Due, op, db, p.kind, p.from - 1, p.found), Page(p)
  PROVE  Meaning'
<1>1. /\ op.start \in Nat /\ op.cur \in Nat /\ p.from \in Nat /\ 1 <= p.from /\ p.to \in Nat /\ p.from <= p.to
      /\ dev \in Tables /\ DbOK(db) /\ p.found \in Seq(Items) /\ p \in Procedures
      /\ p.kind \in Grouped => op.start <= p.from
      /\ p.kind \in {"inc", "chr"} => op.cur <= p.from
      /\ p.kind = "dsc" => \A t \in db : t.start = op.cur => t.start + Len(t.attrs) <= p.from
      /\ FoundShape(op, p.kind, p.to, p.found)
  BY WaitingFacts, WaitingPlace DEF Waiting, ProcedureOK
<1>2. \/ Matches(p) = <<>> /\ Finished(p.kind, p.found)
      \/ \E n \in 1..Len(Matches(p)) :
           LET found == p.found \o SubSeq(Matches(p), 1, n)
               last  == LastHandle(p, Matches(p)[n])
           IN \/ /\ last < p.to
                 /\ proc' = {[p EXCEPT !.from = last + 1, !.found = found]}
                 /\ UNCHANGED <<op, db, clientVars>>
              \/ last >= p.to /\ Finished(p.kind, found)
  BY DEF Page, Matches
<1>3. CASE Matches(p) = <<>> /\ Finished(p.kind, p.found)
  <2>1. Matching(dev, p.kind, p.from, p.to) = {}
    <3>1. El(Matches(p)) = Matching(dev, p.kind, p.from, p.to) /\ DOMAIN Matches(p) = 1..Len(Matches(p))
      BY <1>1, MatchesIs
    <3>2. El(<<>>) = {}
      BY DEF El
    <3> QED BY <1>3, <3>1, <3>2
  <2>2. \A f : f \in El(p.found) <=> f \in El(p.found) \/ f \in Matching(dev, p.kind, p.from, p.to)
    BY <2>1
  <2>3. p.from - 1 <= p.to
    BY <1>1
  <2>4. FoundAll(dev, Due, op, db, p.kind, p.to, p.found)
    BY <1>1, <2>2, <2>3, FoundAdvances
  <2> QED BY <1>1, <1>3, <2>4, FinishedKeeps
<1>4. CASE ~(Matches(p) = <<>> /\ Finished(p.kind, p.found))
  <2> DEFINE found(n) == p.found \o SubSeq(Matches(p), 1, n)
             last(n)  == LastHandle(p, Matches(p)[n])
  <2>1. PICK n \in 1..Len(Matches(p)) :
          \/ /\ last(n) < p.to
             /\ proc' = {[p EXCEPT !.from = last(n) + 1, !.found = found(n)]}
             /\ UNCHANGED <<op, db, clientVars>>
          \/ last(n) >= p.to /\ Finished(p.kind, found(n))
    BY <1>2, <1>4
  <2> DEFINE f == found(n)
             l == last(n)
             a == Matches(p)[n].at
  <2>2. f \in Seq(Items) /\ FoundShape(op, p.kind, p.to, f) /\ l \in Nat /\ p.from <= l
    BY PageFound
  <2>3. a \in Nat /\ a <= p.to /\ a <= l
    <3>1. /\ Matches(p)[n].at \in Nat /\ Matches(p)[n].at <= p.to
          /\ p.kind \in Grouped => Matches(p)[n].at <= Matches(p)[n].to
      BY <1>1, MatchesIs
    <3> QED BY <3>1 DEF LastHandle, Grouped
  <2>4. ASSUME NEW upto, upto \in Nat, a <= upto, upto <= p.to, upto <= l
        PROVE  FoundAll(dev, Due, op, db, p.kind, upto, f)
    BY <2>4, PageMeans
  <2>5. CASE l >= p.to /\ Finished(p.kind, f)
    <3>1. FoundAll(dev, Due, op, db, p.kind, p.to, f)
      <4> HIDE DEF f, l, a
      <4> QED BY <1>1, <2>2, <2>3, <2>4, <2>5
    <3> HIDE DEF f, l, a
    <3> QED BY <2>2, <2>5, <3>1, FinishedKeeps
  <2>6. CASE /\ l < p.to
             /\ proc' = {[p EXCEPT !.from = l + 1, !.found = f]}
             /\ UNCHANGED <<op, db, clientVars>>
    <3> DEFINE q == [p EXCEPT !.from = l + 1, !.found = f]
    <3> HIDE DEF f, l, a
    <3>1. FoundAll(dev, Due, op, db, p.kind, l, f)
      BY <1>1, <2>2, <2>3, <2>4, <2>6
    <3>2. q.kind = p.kind /\ q.to = p.to /\ q.from = l + 1 /\ q.found = f
      BY <1>1 DEF Procedures
    <3>3. proc' = {q} /\ UNCHANGED <<op, db, clientVars>>
      BY <2>6
    <3> HIDE DEF q
    <3>4. q.from - 1 = l
      BY <2>2, <3>2
    <3>5. /\ Due' = Due /\ dev' = dev /\ failed' = failed /\ op' = op /\ db' = db /\ AllAligned(dev, Due)
      BY <3>3, MindfulFacts DEF clientVars, Due
    <3>6. \A x \in proc' : /\ Sense(dev', Due', op', db', x.kind, x.to, failed')
                           /\ FoundAll(dev', Due', op', db', x.kind, x.from - 1, x.found)
      BY <3>1, <3>2, <3>3, <3>4, <3>5
    <3>7. AllAligned(dev', Due') /\ proc' # {}
      BY <3>3, <3>5
    <3> QED BY <3>6, <3>7 DEF Meaning
  <2> QED BY <2>1, <2>5, <2>6
<1> QED BY <1>3, <1>4

LEMMA AnsweredKeeps == ASSUME Shape, Meaning, NoGaps, Answered PROVE Meaning'
<1>1. PICK p \in proc :
        read_by_grp_type_cb(p) \/ discover_included_cb(p) \/ read_chrcs_cb(p) \/ find_info_cb(p)
  BY DEF Answered
<1>2. Page(p)
  BY <1>1 DEF read_by_grp_type_cb, discover_included_cb, read_chrcs_cb, find_info_cb
<1>3. Waiting(p)
  BY ShapeWaiting DEF Answered
<1>4. Mindful
  BY <1>3, WaitingFacts DEF Mindful, Meaning
<1>5. Sense(dev, Due, op, db, p.kind, p.to, failed) /\ FoundAll(dev, Due, op, db, p.kind, p.from - 1, p.found)
  BY DEF Meaning
<1> QED BY <1>2, <1>3, <1>4, <1>5, PageKeeps

\* What a discovery works on is in its range.
LEMMA WorkInRange ==
  ASSUME NEW p, Waiting(p)
  PROVE  \A h \in New(op, p.kind) \cup BegunOnes(op, p.kind) \cup {Open(op, p.kind)} :
           h = 0 \/ (op.start <= h /\ h <= op.end)
<1>1. Busy /\ op.start \in Nat /\ op.end \in Nat /\ Frame(op, db, p.kind, p.to) /\ op.pending \in Seq(Handles)
  BY WaitingFacts DEF Waiting, Ops, Handles
<1>2. CASE p.kind \in {"chr", "dsc"}
  <2>1. \A h \in El(op.pending) \cup {op.cur} : op.start <= h /\ h <= op.end
    BY <1>1, <1>2, WaitingFacts, DoingRange
  <2>2. New(op, p.kind) = {} /\ BegunOnes(op, p.kind) \subseteq El(op.pending) \cup {op.cur}
        /\ Open(op, p.kind) \in {0, op.cur}
    BY <1>2 DEF New, BegunOnes, Open
  <2> QED BY <2>1, <2>2
<1>3. CASE p.kind = "inc"
  <2>1. (\A h \in El(op.pending) \cup El(op.tmp) : op.start <= h /\ h <= op.end) /\ op.cur \in El(op.tmp)
    BY <1>1, <1>3, WaitingFacts, IncludingRange
  <2>2. New(op, p.kind) = El(op.pending) \cup {op.cur} /\ BegunOnes(op, p.kind) \subseteq El(op.tmp)
        /\ Open(op, p.kind) = 0
    BY <1>3 DEF New, BegunOnes, Open
  <2> QED BY <2>1, <2>2
<1>4. CASE p.kind = "secondary"
  <2>1. Listed(op, db, op.pending)
    BY <1>1, <1>4 DEF Frame, WorkList
  <2>2. ASSUME NEW h \in El(op.pending) PROVE op.start <= h /\ h <= op.end
    <3>1. PICK i \in DOMAIN op.pending : op.pending[i] = h
      BY DEF El
    <3>2. op.pending[i] \in op.start..op.end
      BY <2>1, <3>1 DEF Listed
    <3> QED BY <1>1, <3>1, <3>2
  <2>3. New(op, p.kind) = El(op.pending) /\ BegunOnes(op, p.kind) = {} /\ Open(op, p.kind) = 0
    BY <1>4 DEF New, BegunOnes, Open
  <2> QED BY <2>2, <2>3
<1>5. CASE p.kind \notin {"chr", "dsc", "inc", "secondary"}
  BY <1>5 DEF New, BegunOnes, Open
<1> QED BY <1>2, <1>3, <1>4, <1>5

LEMMA RefusedKeeps == ASSUME Shape, Meaning, Refused PROVE Meaning'
<1> DEFINE o1 == [op EXCEPT !.missed = TRUE]
<1>1. PICK p \in proc :
        \/ p.kind = "primary" /\ Ask(o1, db, "secondary", op.start, op.end)
        \/ p.kind # "primary" /\ Complete(op, db, "failed")
  BY DEF Refused
<1>2. Waiting(p)
  BY ShapeWaiting DEF Refused
<1>3. Busy /\ Continued(op) /\ DbOK(db) /\ op \in Ops /\ Frame(op, db, p.kind, p.to)
  BY <1>2, WaitingFacts DEF Waiting
<1>4. Mindful /\ Sense(dev, Due, op, db, p.kind, p.to, failed)
  BY <1>3 DEF Mindful, Meaning
<1>5. CASE p.kind = "primary" /\ Ask(o1, db, "secondary", op.start, op.end)
  <2>1. /\ o1.start = op.start /\ o1.end = op.end /\ o1.pending = op.pending /\ o1.missed
        /\ op.start \in Handles /\ op.pending = <<>>
    BY <1>3, <1>5 DEF Ops, Frame
  <2>2. Ask(o1, db, "secondary", op.start, op.end)
    BY <1>5
  <2> HIDE DEF o1
  <2>3. Aligned(dev, Due, op) /\ Agree(dev, Due, db, {}, {}, 0)
    BY <1>4, <1>5 DEF Sense, New, BegunOnes, Open
  <2>4. Aligned(dev, Due, o1)
    BY <2>1, <2>3 DEF Aligned, Within, Overlap
  <2>5. New(o1, "secondary") = {} /\ BegunOnes(o1, "secondary") = {} /\ Open(o1, "secondary") = 0
    <3>1. El(<<>>) = {}
      BY DEF El
    <3> QED BY <2>1, <3>1 DEF New, BegunOnes, Open
  <2>6. Sense(dev, Due, o1, db, "secondary", op.end, failed)
    BY <2>1, <2>3, <2>4, <2>5 DEF Sense
  <2>7. Starting(o1, db, "secondary", op.start)
    BY <2>1 DEF Starting, Grouped
  <2> QED BY <1>4, <2>2, <2>6, <2>7, AskKeeps
<1>6. CASE Complete(op, db, "failed")
  <2>1. Agree(dev, Due, db, New(op, p.kind), BegunOnes(op, p.kind), Open(op, p.kind))
    BY <1>4 DEF Sense
  <2> QED BY <1>2, <1>3, <1>4, <1>6, <2>1, WorkInRange, FailedKeeps
<1> QED BY <1>1, <1>5, <1>6

LEMMA MtuKeeps == ASSUME Shape, Meaning, exchange_mtu_cb PROVE Meaning'
<1>1. PICK p \in proc : p.kind = "mtu"
  BY DEF exchange_mtu_cb
<1>2. Ask(op, db, "primary", 1, MaxHandle) /\ UNCHANGED <<deviceVars, link>>
  BY DEF exchange_mtu_cb
<1>3. Waiting(p)
  BY <1>2, ShapeWaiting
<1>4. Busy /\ Frame(op, db, p.kind, p.to)
  BY <1>3, WaitingFacts DEF Waiting
<1>5. op.start = 1 /\ 1 \in Handles
  BY <1>1, <1>4 DEF Frame, Handles
<1>6. Mindful /\ Sense(dev, Due, op, db, "mtu", p.to, failed)
  BY <1>1, <1>4 DEF Mindful, Meaning
<1>7. Sense(dev, Due, op, db, "primary", MaxHandle, failed)
  BY <1>6 DEF Sense, New, BegunOnes, Open, KnownOrAhead
<1>8. Starting(op, db, "primary", 1)
  BY <1>5 DEF Starting, Grouped
<1> QED BY <1>2, <1>6, <1>7, <1>8, AskKeeps

---------------------------------------------------------------------------
(* Service Changed, and the other steps.                                   *)

\* Nothing changes but that something may have failed.
LEMMA SameMeaning ==
  ASSUME Meaning, UNCHANGED <<dev, db, op, proc>>, Due' = Due, failed \in BOOLEAN, failed' \in BOOLEAN,
         failed => failed'
  PROVE  Meaning'
<1>1. AllAligned(dev', Due')
  BY DEF Meaning
<1>2. proc' = {} => Settled(dev', Due', db', failed')
  BY DEF Meaning, Settled
<1>3. ASSUME NEW p \in proc'
      PROVE  /\ Sense(dev', Due', op', db', p.kind, p.to, failed')
             /\ FoundAll(dev', Due', op', db', p.kind, p.from - 1, p.found)
  <2>1. Sense(dev, Due, op, db, p.kind, p.to, failed) /\ FoundAll(dev, Due, op, db, p.kind, p.from - 1, p.found)
    BY <1>3 DEF Meaning
  <2>2. Sense(dev, Due, op, db, p.kind, p.to, failed')
    BY <2>1 DEF Sense
  <2> QED BY <2>1, <2>2
<1> QED BY <1>1, <1>2, <1>3 DEF Meaning

LEMMA CccKeeps == ASSUME Shape, Meaning, CccWritten PROVE Meaning'
<1>1. failed \in BOOLEAN /\ UNCHANGED <<dev, indications, db, op, proc, svcChngdQueue>>
  BY DEF Shape, Control, CccWritten
<1>2. Due' = Due
  BY <1>1 DEF Due
<1>3. failed' \in BOOLEAN /\ (failed => failed')
  BY <1>1 DEF CccWritten
<1> QED BY <1>1, <1>2, <1>3, SameMeaning

LEMMA NotifyKeeps == ASSUME Shape, Meaning, Listening, ~Wide, notify_cb PROVE Meaning'
<1> DEFINE r == Head(indications)
<1>1. /\ link = "up" /\ indications # <<>> /\ indications' = Tail(indications)
      /\ IF listening # {} THEN service_changed_cb(r)
         ELSE UNCHANGED <<db, op, proc, listening, inSvcChngd, svcChngdQueue>>
      /\ UNCHANGED <<dev, enabled, ccc, failed>>
  BY DEF notify_cb
<1>2. Control
  BY DEF Shape
<1>3. /\ enabled /\ DbOK(db) /\ listening # {} /\ failed \in BOOLEAN /\ dev \in Tables
      /\ ~inSvcChngd => proc = {} /\ svcChngdQueue = <<>>
  BY <1>1, <1>2 DEF Control, Listening
<1>4. /\ svcChngdQueue' = Append(svcChngdQueue, r) => Due' = Due
      /\ svcChngdQueue' = svcChngdQueue /\ svcChngdQueue = <<>> => Due' = Tail(Due) /\ Due = indications
      /\ Due \in Seq(Ranges)
  BY <1>1, <1>2, IndicationRead
<1>5. service_changed_cb(r)
  BY <1>1, <1>3
<1>6. CASE inSvcChngd
  <2>1. svcChngdQueue' = Append(svcChngdQueue, r) /\ UNCHANGED <<db, op, proc>>
    BY <1>5, <1>6 DEF service_changed_cb
  <2> QED BY <1>1, <1>3, <1>4, <2>1, SameMeaning
<1>7. CASE ~inSvcChngd
  <2>1. process_service_changed(db, r) /\ svcChngdQueue' = svcChngdQueue
    BY <1>5, <1>7 DEF service_changed_cb
  <2>2. Due = indications /\ Due' = Tail(Due) /\ proc = {}
    BY <1>3, <1>4, <1>7, <2>1
  <2>3. Settled(dev, Due, db, failed) /\ AllAligned(dev, Due) /\ Due # <<>>
    BY <1>1, <2>2 DEF Meaning
  <2>4. process_service_changed(db, Head(Due))
    BY <2>1, <2>2
  <2> QED BY <1>1, <1>3, <1>4, <2>2, <2>3, <2>4, ProcessKeeps
<1> QED BY <1>6, <1>7

\* The range of a change cuts through no service.
LEMMA ChangeWithin ==
  ASSUME NEW T, T \in Tables, NEW U, U \in Tables, T # U,
         NEW r, r = Hull(T, U) \/ r = [start |-> 1, end |-> MaxHandle],
         NEW s, s \in T \cup U, Overlap(s, r)
  PROVE  Within(s, r)
<1>1. \A x \in T \cup U : x.start \in Nat /\ x.end \in Nat /\ x.start <= x.end /\ 1 <= x.start /\ x.end <= MaxHandle
  BY ServiceFacts DEF Handles
<1>2. CASE r = [start |-> 1, end |-> MaxHandle]
  BY <1>1, <1>2 DEF Within
<1>3. CASE r = Hull(T, U)
  <2> DEFINE diff == (T \ U) \cup (U \ T)
  <2>1. \A x \in diff : r.start <= x.start /\ x.end <= r.end
    BY <1>3, HullIs
  <2>2. PICK a \in diff : a.start = r.start
    BY <1>3, HullIs
  <2>3. PICK b \in diff : b.end = r.end
    BY <1>3, HullIs
  <2>4. s \in diff \/ (s \in T /\ s \in U)
    OBVIOUS
  <2>5. (s \in T /\ s \in U) => \A x \in diff : ~Overlap(s, x)
    BY OneService
  <2>6. a \in T \cup U /\ b \in T \cup U
    OBVIOUS
  <2> HIDE DEF diff
  <2>7. /\ a.start \in Nat /\ a.end \in Nat /\ b.start \in Nat /\ b.end \in Nat /\ s.start \in Nat /\ s.end \in Nat
        /\ a.start <= a.end /\ b.start <= b.end /\ s.start <= s.end
    BY <1>1, <2>6
  <2>8. CASE s \in diff
    BY <2>1, <2>8 DEF Within
  <2>9. CASE s \in T /\ s \in U
    <3>1. ~Overlap(s, a) /\ ~Overlap(s, b)
      BY <2>5, <2>9
    <3> QED BY <2>2, <2>3, <2>7, <3>1 DEF Within, Overlap
  <2> QED BY <2>4, <2>8, <2>9
<1> QED BY <1>2, <1>3

\* T becomes U, the ranges Q become R, by one change of the range r.
Altered(T, U, Q, R, r) ==
  /\ T \in Tables /\ U \in Tables
  /\ \A s \in U : Overlap(s, r) => Within(s, r)
  /\ \A s \in T \cup U : ~Overlap(s, r) => s \in T /\ s \in U
  /\ \A t : Clear(R, t) <=> Clear(Q, t) /\ ~Overlap(t, r)

LEMMA AgreeAltered ==
  ASSUME NEW T, NEW U, NEW Q, NEW R, NEW r, Altered(T, U, Q, R, r), NEW d
  PROVE  /\ \A new, begun, open : Agree(T, Q, d, new, begun, open) => Agree(U, R, d, new, begun, open)
         /\ Known(T, Q, d) => Known(U, R, d)
         /\ \A o, kind : KnownOrAhead(T, Q, o, d, kind) => KnownOrAhead(U, R, o, d, kind)
         /\ \A chrcs, starts : NotOf(Q, d, chrcs, starts) => NotOf(R, d, chrcs, starts)
         /\ \A o : Aligned(T, Q, o) => Aligned(U, R, o)
<1>1. \A t : Clear(R, t) <=> Clear(Q, t) /\ ~Overlap(t, r)
  BY DEF Altered
<1>2. \A s \in T \cup U : ~Overlap(s, r) => s \in T /\ s \in U
  BY DEF Altered
<1>3. ASSUME NEW new, NEW begun, NEW open, Agree(T, Q, d, new, begun, open) PROVE Agree(U, R, d, new, begun, open)
  <2> SUFFICES ASSUME NEW t \in d, Clear(R, t) PROVE AgreeAt(U, t, new, begun, open)
    BY DEF Agree
  <2>1. AgreeAt(T, t, new, begun, open) /\ ~Overlap(t, r)
    BY <1>1, <1>3 DEF Agree
  <2>2. \A s \in T : Same(s, t) => s \in U
    BY <1>2, <2>1 DEF Same, Overlap
  <2> QED BY <2>1, <2>2 DEF AgreeAt
<1>4. \A s \in U : Clear(R, s) => s \in T /\ Clear(Q, s)
  BY <1>1, <1>2
<1>5. Known(T, Q, d) => Known(U, R, d)
  BY <1>4 DEF Known
<1>6. \A o, kind : KnownOrAhead(T, Q, o, d, kind) => KnownOrAhead(U, R, o, d, kind)
  BY <1>4 DEF KnownOrAhead
<1>7. \A chrcs, starts : NotOf(Q, d, chrcs, starts) => NotOf(R, d, chrcs, starts)
  BY <1>1 DEF NotOf
<1>8. \A o : Aligned(T, Q, o) => Aligned(U, R, o)
  BY <1>4 DEF Aligned
<1> QED BY <1>3, <1>5, <1>6, <1>7, <1>8

LEMMA SenseAltered ==
  ASSUME NEW T, NEW U, NEW Q, NEW R, NEW r, Altered(T, U, Q, R, r),
         NEW o, NEW d, NEW kind, NEW to, NEW f, Sense(T, Q, o, d, kind, to, f)
  PROVE  Sense(U, R, o, d, kind, to, f)
<1>1. /\ Aligned(U, R, o) /\ Agree(U, R, d, New(o, kind), BegunOnes(o, kind), Open(o, kind))
      /\ o.missed \/ f \/ KnownOrAhead(U, R, o, d, kind)
      /\ kind = "chr" => NotOf(R, d, o.chrcs, El(o.pending) \cup {o.cur})
      /\ kind = "dsc" => NotOf(R, d, o.chrcs, El(o.pending))
  BY AgreeAltered, SMTT(30) DEF Sense
<1>2. ASSUME kind = "dsc", NEW t \in d, t.start = o.cur, Clear(R, t)
      PROVE  \E s \in U : Same(s, t) /\ Lacks(s, t.attrs, o.chrcs)
                         /\ to = (IF o.chrcs = <<>> THEN s.end ELSE o.chrcs[1].value - 2)
  <2>1. Clear(Q, t) /\ ~Overlap(t, r)
    BY <1>2 DEF Altered
  <2>2. PICK s \in T : Same(s, t) /\ Lacks(s, t.attrs, o.chrcs)
                       /\ to = (IF o.chrcs = <<>> THEN s.end ELSE o.chrcs[1].value - 2)
    BY <1>2, <2>1 DEF Sense
  <2>3. s \in U
    BY <2>1, <2>2 DEF Altered, Same, Overlap
  <2> QED BY <2>2, <2>3
<1> QED BY <1>1, <1>2 DEF Sense

\* What two tables have in common is found in both.
LEMMA SharedService ==
  ASSUME NEW T, NEW U, NEW r, NEW kind, kind \in Grouped, NEW lo, NEW hi,
         \A s \in T : ~Overlap(s, r) => s \in U,
         NEW f, f \in Matching(T, kind, lo, hi), ~Overlap(Span(f), r)
  PROVE  f \in Matching(U, kind, lo, hi)
<1>1. PICK s \in T : /\ s.primary = (kind = "primary") /\ s.start \in lo..hi
                     /\ f = [at |-> s.start, to |-> s.end, kind |-> "svc"]
  BY MatchingIs
<1>2. ~Overlap(s, r)
  BY <1>1 DEF Span, Overlap
<1>3. s \in U
  BY <1>2
<1>4. f \in Matching(U, kind, lo, hi) <=>
        \E t \in U : /\ t.primary = (kind = "primary") /\ t.start \in lo..hi
                     /\ f = [at |-> t.start, to |-> t.end, kind |-> "svc"]
  BY MatchingIs
<1> QED BY ONLY <1>1, <1>3, <1>4, Zenon

LEMMA SharedItems ==
  ASSUME NEW T, T \in Tables, NEW U, NEW s, s \in T, s \in U, NEW kind, kind \in {"inc", "chr", "dsc"},
         NEW lo, lo \in Nat, NEW hi, hi \in Nat, s.start <= lo, hi <= s.end
  PROVE  Matching(T, kind, lo, hi) \subseteq Matching(U, kind, lo, hi)
<1> SUFFICES ASSUME NEW f \in Matching(T, kind, lo, hi) PROVE f \in Matching(U, kind, lo, hi)
  OBVIOUS
<1>1. AnswerOK(Matching(T, kind, lo, hi), kind, lo, hi)
  BY MatchingOK
<1>2. f.at \in Nat /\ lo <= f.at /\ f.at <= hi
  BY <1>1 DEF AnswerOK, Orderable
<1>3. s.start \in Nat /\ s.end \in Nat
  BY ServiceFacts DEF Handles
<1>4. s.start <= f.at /\ f.at <= s.end
  BY <1>2, <1>3
<1>5. PICK i \in Wanted(s, kind, lo, hi) : f = Item(kind, s, i)
  BY <1>4, FoundInService
<1>6. kind \notin Grouped
  BY DEF Grouped
<1> QED BY <1>5, <1>6, MatchingIs

LEMMA FoundAltered ==
  ASSUME NEW T, NEW U, NEW Q, NEW R, NEW r, Altered(T, U, Q, R, r),
         NEW o, NEW d, DbOK(d), NEW kind, NEW upto, upto \in Nat, NEW found, FoundAll(T, Q, o, d, kind, upto, found),
         kind \in {"inc", "chr", "dsc"} =>
           \A t \in d : t.start = o.cur /\ Clear(Q, t) => upto <= t.end /\ \E s \in T : Same(s, t)
  PROVE  FoundAll(U, R, o, d, kind, upto, found)
<1>0. T \in Tables /\ U \in Tables
  BY DEF Altered
<1>1. CASE kind \in Grouped
  <2>1. kind \notin {"inc", "chr", "dsc"}
    BY <1>1 DEF Grouped
  <2>2. (\A s \in T : ~Overlap(s, r) => s \in U) /\ (\A s \in U : ~Overlap(s, r) => s \in T)
        /\ \A t : Clear(R, t) <=> Clear(Q, t) /\ ~Overlap(t, r)
    BY DEF Altered
  <2>3. ASSUME NEW f \in El(found), Clear(R, Span(f)) PROVE f \in Matching(U, kind, o.start, upto)
    <3>1. Clear(Q, Span(f)) /\ ~Overlap(Span(f), r)
      BY <2>2, <2>3
    <3>2. f \in Matching(T, kind, o.start, upto)
      BY <1>1, <3>1 DEF FoundAll
    <3> QED BY <1>1, <2>2, <3>1, <3>2, SharedService
  <2>4. ASSUME NEW f \in Matching(U, kind, o.start, upto), Clear(R, Span(f)) PROVE f \in El(found)
    <3>1. Clear(Q, Span(f)) /\ ~Overlap(Span(f), r)
      BY <2>2, <2>4
    <3>2. f \in Matching(T, kind, o.start, upto)
      BY <1>1, <2>2, <3>1, SharedService
    <3> QED BY <1>1, <3>1, <3>2 DEF FoundAll
  <2> QED BY <2>1, <2>3, <2>4 DEF FoundAll
<1>2. CASE kind \in {"inc", "chr", "dsc"}
  <2> SUFFICES ASSUME NEW t \in d, t.start = o.cur, Clear(R, t)
               PROVE  El(found) = Matching(U, kind, IF kind = "dsc" THEN t.start + Len(t.attrs) ELSE t.start, upto)
    BY <1>2 DEF FoundAll, Grouped
  <2> DEFINE lo == IF kind = "dsc" THEN t.start + Len(t.attrs) ELSE t.start
  <2>1. Clear(Q, t) /\ ~Overlap(t, r)
    BY DEF Altered
  <2>2. El(found) = Matching(T, kind, lo, upto)
    BY <1>2, <2>1 DEF FoundAll
  <2>3. PICK s \in T : Same(s, t)
    BY <1>2, <2>1
  <2>4. s.start = t.start /\ s.end = t.end /\ s \in U
    BY <2>1, <2>3 DEF Same, Altered, Overlap
  <2>5. lo \in Nat /\ s.start <= lo
    <3>1. t.start \in Nat /\ Len(t.attrs) \in Nat
      BY DbIs, FitFacts
    <3> QED BY <2>4, <3>1
  <2>6. upto <= s.end
    BY <1>2, <2>1, <2>4
  <2> HIDE DEF lo
  <2>7. Matching(T, kind, lo, upto) \subseteq Matching(U, kind, lo, upto)
    BY <1>0, <1>2, <2>4, <2>5, <2>6, SharedItems
  <2>8. Matching(U, kind, lo, upto) \subseteq Matching(T, kind, lo, upto)
    BY <1>0, <1>2, <2>4, <2>5, <2>6, SharedItems
  <2>9. El(found) = Matching(U, kind, lo, upto)
    BY <2>2, <2>7, <2>8
  <2> QED BY <2>9 DEF lo
<1> QED BY <1>1, <1>2 DEF FoundAll

\* One more range is due.
OneMore(Q, r, R) ==
  /\ R \in Seq(Ranges) /\ Len(R) = Len(Q) + 1 /\ R[Len(R)] = r
  /\ \A i \in 1..Len(Q) : R[i] = Q[i]
  /\ \A t : Clear(R, t) <=> Clear(Q, t) /\ ~Overlap(t, r)

LEMMA OneMoreRange ==
  ASSUME NEW Q, Q \in Seq(Ranges), NEW r, r \in Ranges, NEW R, R = Append(Q, r)
  PROVE  OneMore(Q, r, R)
<1>1. /\ R \in Seq(Ranges) /\ Len(R) = Len(Q) + 1 /\ R[Len(R)] = r /\ \A i \in 1..Len(Q) : R[i] = Q[i]
      /\ Len(Q) \in Nat /\ DOMAIN Q = 1..Len(Q)
  BY AppendProperties
<1>2. DOMAIN R = 1..Len(R) /\ \A i \in 1..Len(R) : i = Len(R) \/ i \in 1..Len(Q)
  BY <1>1
<1> HIDE DEF Clear
<1>3. ASSUME NEW t PROVE Clear(R, t) <=> Clear(Q, t) /\ ~Overlap(t, r)
  <2>1. Len(R) \in DOMAIN R /\ \A i \in 1..Len(Q) : i \in DOMAIN R
    BY <1>1, <1>2
  <2>2. Clear(R, t) => Clear(Q, t) /\ ~Overlap(t, r)
    BY <1>1, <2>1 DEF Clear
  <2>3. Clear(Q, t) /\ ~Overlap(t, r) => Clear(R, t)
    BY <1>1, <1>2 DEF Clear
  <2> QED BY <2>2, <2>3
<1> QED BY <1>1, <1>3 DEF OneMore

LEMMA ChangedTable ==
  ASSUME NEW T, T \in Tables, NEW U, U \in Tables, T # U, NEW Q, Q \in Seq(Ranges), NEW r, r \in Ranges,
         NEW R, R = Append(Q, r), r = Hull(T, U) \/ r = [start |-> 1, end |-> MaxHandle],
         \A s \in (T \ U) \cup (U \ T) : r.start <= s.start /\ s.end <= r.end, AllAligned(T, Q)
  PROVE  Altered(T, U, Q, R, r) /\ AllAligned(U, R)
<1>1. /\ R \in Seq(Ranges) /\ Len(R) = Len(Q) + 1 /\ R[Len(R)] = r
      /\ \A i \in 1..Len(Q) : R[i] = Q[i]
      /\ \A t : Clear(R, t) <=> Clear(Q, t) /\ ~Overlap(t, r)
  <2>1. OneMore(Q, r, R)
    BY OneMoreRange
  <2> QED BY <2>1 DEF OneMore
<1>2. \A s \in T \cup U : Overlap(s, r) => Within(s, r)
  BY ChangeWithin
<1>3. ASSUME NEW s \in T \cup U, ~Overlap(s, r) PROVE s \in T /\ s \in U
  <2>1. s.start \in Nat /\ s.end \in Nat /\ s.start <= s.end /\ r.start \in Nat /\ r.end \in Nat
    BY ServiceFacts DEF Handles, Ranges, HandleRange
  <2>2. ~(r.start <= s.start /\ s.end <= r.end)
    BY <1>3, <2>1 DEF Overlap
  <2> QED BY <2>2
<1>4. Altered(T, U, Q, R, r)
  BY <1>1, <1>2, <1>3 DEF Altered
<1>5. Len(Q) \in Nat /\ DOMAIN Q = 1..Len(Q) /\ DOMAIN R = 1..Len(R)
  BY <1>1
<1>6. AllAligned(U, R)
  <2> SUFFICES ASSUME NEW s \in U, NEW i \in DOMAIN R, Overlap(s, R[i])
               PROVE  \E j \in i..Len(R) : Within(s, R[j])
    BY DEF AllAligned
  <2>1. Len(R) \in i..Len(R)
    BY <1>1, <1>5
  <2>2. CASE Overlap(s, r)
    BY <1>1, <1>2, <2>1, <2>2
  <2>3. CASE ~Overlap(s, r)
    <3>1. i # Len(R) /\ i \in 1..Len(Q)
      BY <1>1, <1>5, <2>3
    <3>2. s \in T /\ Overlap(s, Q[i])
      BY <1>1, <1>3, <2>3, <3>1
    <3>3. PICK j \in i..Len(Q) : Within(s, Q[j])
      BY <1>5, <3>1, <3>2 DEF AllAligned
    <3>4. j \in i..Len(R) /\ R[j] = Q[j]
      BY <1>1, <1>5, <3>1, <3>3
    <3> QED BY <3>3, <3>4
  <2> QED BY <2>2, <2>3
<1> QED BY <1>4, <1>6

LEMMA ChangeAlters ==
  ASSUME Shape, NEW table, NEW r, Changed(table, r), r = Hull(dev, table) \/ r = [start |-> 1, end |-> MaxHandle],
         AllAligned(dev, Due)
  PROVE  Altered(dev, dev', Due, Due', r) /\ AllAligned(dev', Due')
<1>1. /\ dev' = table /\ table \in Tables /\ table # dev /\ dev \in Tables /\ r \in Ranges
      /\ indications' = Append(indications, r) /\ svcChngdQueue' = svcChngdQueue
      /\ \A s \in (dev \ table) \cup (table \ dev) : r.start <= s.start /\ s.end <= r.end
      /\ svcChngdQueue \in Seq(Ranges) /\ indications \in Seq(Ranges) /\ Due \in Seq(Ranges)
  BY DueIs DEF Shape, Control, Changed, clientVars
<1>2. Due' = Append(Due, r)
  <2> DEFINE q == svcChngdQueue
             m == indications
  <2>1. q \in Seq(Ranges) /\ m \in Seq(Ranges) /\ <<r>> \in Seq(Ranges)
    BY <1>1
  <2>2. Due' = q \o Append(m, r) /\ Due = q \o m
    BY <1>1 DEF Due
  <2>3. q \o m \in Seq(Ranges)
    BY <1>1, <2>2
  <2> HIDE DEF q, m
  <2>4. Append(m, r) = m \o <<r>> /\ Append(q \o m, r) = (q \o m) \o <<r>>
    BY <1>1, <2>1, <2>3, AppendIsConcat
  <2>5. (q \o m) \o <<r>> = q \o (m \o <<r>>)
    BY <2>1, ConcatThree
  <2> QED BY <2>2, <2>4, <2>5
<1>3. \A R : R = Append(Due, r) => Altered(dev, table, Due, R, r) /\ AllAligned(table, R)
  BY <1>1, ChangedTable
<1> QED BY <1>1, <1>2, <1>3

\* A procedure about one service does not go past it.
LEMMA NotPast ==
  ASSUME NEW p, Frame(op, db, p.kind, p.to), ProcedureOK(op, db, p), Control,
         Sense(dev, Due, op, db, p.kind, p.to, failed), p.kind \in {"inc", "chr", "dsc"},
         NEW t, t \in db, t.start = op.cur, Clear(Due, t)
  PROVE  p.from - 1 <= t.end /\ \E s \in dev : Same(s, t)
<1>p. p.from \in Nat /\ p.to \in Nat /\ p.from <= p.to
  BY DEF ProcedureOK, Procedures, Handles
<1>f. DbOK(db) /\ op \in Ops
  BY DEF Frame
<1>1. p.from \in Nat /\ p.to \in Nat /\ p.from <= p.to /\ t.end \in Nat /\ dev \in Tables /\ op.chrcs \in Seq(Chrcs)
  BY <1>p, <1>f, FitsIn DEF Control, Ops
<1>2. \E s \in dev : Same(s, t)
  BY DEF Sense, Agree, AgreeAt
<1>3. p.kind \in {"inc", "chr"} => p.to = t.end
  BY DEF Frame
<1>4. CASE p.kind = "dsc"
  <2>1. PICK s \in dev : Same(s, t) /\ Lacks(s, t.attrs, op.chrcs)
                         /\ p.to = (IF op.chrcs = <<>> THEN s.end ELSE op.chrcs[1].value - 2)
    BY <1>4 DEF Sense
  <2>2. s.end = t.end
    BY <2>1 DEF Same
  <2>3. CASE op.chrcs = <<>>
    BY <1>1, <1>2, <2>1, <2>2, <2>3
  <2>4. CASE op.chrcs # <<>>
    <3> DEFINE v == op.chrcs[1].value
               n == Len(s.layout)
    <3>1. 1 \in DOMAIN op.chrcs
      BY <1>1, <2>4
    <3>2. v - s.start + 1 <= n
      BY <2>1, <3>1 DEF Lacks
    <3>3. s.start \in Nat /\ s.end \in Nat /\ n \in Nat /\ s.start + n - 1 <= s.end
      BY <1>1, ServiceFacts DEF Handles
    <3>4. v \in Nat
      <4>1. op.chrcs[1] \in Chrcs
        BY <1>1, <3>1
      <4> QED BY <4>1 DEF Chrcs, Handles
    <3>5. p.to = v - 2
      BY <2>1, <2>4
    <3> HIDE DEF v, n
    <3> QED BY <1>1, <1>2, <2>2, <3>2, <3>3, <3>4, <3>5
  <2> QED BY <2>3, <2>4
<1>5. CASE p.kind # "dsc"
  BY <1>1, <1>2, <1>3, <1>5
<1> QED BY <1>4, <1>5

LEMMA ChangesKeeps == ASSUME Shape, Meaning, DeviceChanges PROVE Meaning'
<1>t. PICK table : \E r : Changed(table, r) /\ (r = Hull(dev, table) \/ r = [start |-> 1, end |-> MaxHandle])
  BY ChangeIs
<1>1. PICK r : Changed(table, r) /\ (r = Hull(dev, table) \/ r = [start |-> 1, end |-> MaxHandle])
  BY <1>t
<1>2. UNCHANGED <<db, op, proc, failed>> /\ Control
  BY <1>1 DEF Changed, clientVars, Shape
<1>3. Altered(dev, dev', Due, Due', r) /\ AllAligned(dev', Due')
  BY <1>1, ChangeAlters DEF Meaning
<1>4. proc' = {} => Settled(dev', Due', db', failed')
  <2> SUFFICES ASSUME proc = {} PROVE Settled(dev', Due', db, failed)
    BY <1>2
  <2>1. Settled(dev, Due, db, failed)
    BY DEF Meaning
  <2> QED BY <1>3, <2>1, AgreeAltered DEF Settled
<1>5. ASSUME NEW p \in proc
      PROVE  /\ Sense(dev', Due', op, db, p.kind, p.to, failed)
             /\ FoundAll(dev', Due', op, db, p.kind, p.from - 1, p.found)
  <2>1. Sense(dev, Due, op, db, p.kind, p.to, failed) /\ FoundAll(dev, Due, op, db, p.kind, p.from - 1, p.found)
    BY DEF Meaning
  <2>2. Frame(op, db, p.kind, p.to) /\ ProcedureOK(op, db, p)
    BY DEF Shape
  <2>3. DbOK(db) /\ p.from - 1 \in Nat
    BY <2>2 DEF Frame, ProcedureOK, Procedures, Handles
  <2>4. p.kind \in {"inc", "chr", "dsc"} =>
          \A t \in db : t.start = op.cur /\ Clear(Due, t) => p.from - 1 <= t.end /\ \E s \in dev : Same(s, t)
    BY <1>2, <2>1, <2>2, NotPast
  <2>5. Sense(dev', Due', op, db, p.kind, p.to, failed)
    BY <1>3, <2>1, SenseAltered
  <2>6. FoundAll(dev', Due', op, db, p.kind, p.from - 1, p.found)
    <3> DEFINE upto == p.from - 1
    <3>1. /\ upto \in Nat /\ FoundAll(dev, Due, op, db, p.kind, upto, p.found)
          /\ p.kind \in {"inc", "chr", "dsc"} =>
               \A t \in db : t.start = op.cur /\ Clear(Due, t) => upto <= t.end /\ \E s \in dev : Same(s, t)
      BY <2>1, <2>3, <2>4
    <3> HIDE DEF upto
    <3>2. FoundAll(dev', Due', op, db, p.kind, upto, p.found)
      BY <1>3, <2>3, <3>1, FoundAltered
    <3> QED BY <3>2 DEF upto
  <2> QED BY <2>5, <2>6
<1> QED BY <1>2, <1>3, <1>4, <1>5 DEF Meaning

\* The services a discovery is still about are not active yet.
LEMMA NotActiveYet ==
  ASSUME NEW o, NEW d, NEW kind, NEW to, Frame(o, d, kind, to), NEW t, t \in d,
         t.start \in New(o, kind) \cup BegunOnes(o, kind) \cup {Open(o, kind)}
  PROVE  ~t.active
<1>1. /\ o \in Ops /\ DbOK(d) /\ Listed(o, d, WorkList(o, kind))
      /\ kind = "inc" => o.tmp # <<>> /\ o.cur = o.tmp[Len(o.tmp)]
  BY DEF Frame
<1> DEFINE S == 0..MaxHandle
<1>2. o.pending \in Seq(S) /\ o.tmp \in Seq(S) /\ o.cur \in S /\ t.start \in Nat /\ 1 <= t.start
  <2>1. o.pending \in Seq(Handles) /\ o.tmp \in Seq(Handles) /\ o.cur \in S
    BY <1>1 DEF Ops
  <2>2. o.pending \in Seq(S) /\ o.tmp \in Seq(S)
    BY <2>1, SeqMonotonic DEF Handles
  <2> QED BY <1>1, <2>1, <2>2, FitsIn
<1>3. ASSUME t.start \in El(WorkList(o, kind)) PROVE ~t.active
  <2>1. PICK i \in DOMAIN WorkList(o, kind) : WorkList(o, kind)[i] = t.start
    BY <1>3 DEF El
  <2>2. PICK u \in d : u.start = t.start /\ ~u.active
    BY <1>1, <2>1 DEF Listed
  <2> QED BY <1>1, <2>2 DEF DbOK
<1> HIDE DEF S
<1>4. CASE kind = "secondary"
  BY <1>2, <1>3, <1>4 DEF New, BegunOnes, Open, WorkList
<1>5. CASE kind = "inc"
  <2>1. El(o.tmp \o o.pending) = El(o.tmp) \cup El(o.pending)
    BY <1>2, ConcatIs
  <2>2. o.cur \in El(o.tmp)
    <3>1. Len(o.tmp) \in 1..Len(o.tmp)
      BY <1>1, <1>2, <1>5, EmptySeq
    <3> QED BY <1>1, <1>2, <1>5, <3>1, SeqFacts
  <2>3. WorkList(o, kind) = o.tmp \o o.pending
    BY <1>5 DEF WorkList
  <2>4. /\ New(o, kind) = El(o.pending) \cup {o.cur} /\ BegunOnes(o, kind) \subseteq El(o.tmp)
        /\ Open(o, kind) = 0
    BY <1>5 DEF New, BegunOnes, Open
  <2>5. t.start \in El(WorkList(o, kind))
    BY <1>2, <2>1, <2>2, <2>3, <2>4
  <2> QED BY <1>3, <2>5
<1>6. CASE kind \in {"chr", "dsc"}
  <2> DEFINE x == <<o.cur>>
  <2>1. x \in Seq(S) /\ El(x) = {o.cur}
    <3>1. DOMAIN x = {1} /\ x[1] = o.cur
      OBVIOUS
    <3> QED BY <1>2, <3>1 DEF El
  <2>2. WorkList(o, kind) = x \o o.pending
    BY <1>6 DEF WorkList
  <2> HIDE DEF x
  <2>3. El(x \o o.pending) = El(x) \cup El(o.pending)
    BY <1>2, <2>1, ConcatIs
  <2>4. /\ New(o, kind) = {} /\ BegunOnes(o, kind) \subseteq El(o.pending) \cup {o.cur}
        /\ Open(o, kind) \in {0, o.cur}
    BY <1>6 DEF New, BegunOnes, Open
  <2>5. t.start \in El(WorkList(o, kind))
    BY <1>2, <2>1, <2>2, <2>3, <2>4
  <2> QED BY <1>3, <2>5
<1>7. CASE kind \notin {"secondary", "inc", "chr", "dsc"}
  BY <1>2, <1>7 DEF New, BegunOnes, Open
<1> QED BY <1>4, <1>5, <1>6, <1>7

LEMMA ActiveOnes == ASSUME Shape, changes = 0 => Meaning PROVE ActiveIsComplete
<1> SUFFICES ASSUME changes = 0, NEW t \in db, t.active PROVE Whole(t)
  BY DEF ActiveIsComplete
<1>1. Due = <<>> /\ Meaning
  <2>1. svcChngdQueue = <<>> /\ indications = <<>>
    BY DEF Shape, Control
  <2> QED BY <2>1 DEF Due
<1>2. Clear(Due, t)
  BY <1>1 DEF Clear
<1>3. CASE proc = {}
  <2>1. AgreeAt(dev, t, {}, {}, 0)
    BY <1>1, <1>2, <1>3 DEF Meaning, Settled, Agree
  <2>2. t.start # 0
    BY FitsIn DEF Shape, Control
  <2> QED BY <2>1, <2>2 DEF AgreeAt, Same, Whole
<1>4. CASE proc # {}
  <2>1. PICK p : proc = {p} /\ Frame(op, db, p.kind, p.to)
    BY <1>4 DEF Shape
  <2> DEFINE new == New(op, p.kind)
             begun == BegunOnes(op, p.kind)
             open == Open(op, p.kind)
  <2>2. Agree(dev, Due, db, new, begun, open)
    BY <1>1, <2>1 DEF Meaning, Sense
  <2>3. t.start \notin new \cup begun \cup {open}
    BY <2>1, NotActiveYet
  <2> HIDE DEF new, begun, open
  <2>4. AgreeAt(dev, t, new, begun, open)
    BY <1>2, <2>2 DEF Agree
  <2> QED BY <2>3, <2>4 DEF AgreeAt, Same, Whole
<1> QED BY <1>3, <1>4

LEMMA DisconnectComplete == ASSUME ActiveIsComplete, att_disconnect_cb PROVE ActiveIsComplete'
<1>1. changes' = changes /\ dev' = dev /\ db' \subseteq db
  BY DEF att_disconnect_cb, deviceVars, gatt_db_clear_range
<1> QED BY <1>1 DEF ActiveIsComplete, Whole

LEMMA InitMeaning == Init => Meaning
<1> SUFFICES ASSUME Init PROVE Meaning
  OBVIOUS
<1> DEFINE p == [kind |-> "mtu", from |-> 1, to |-> MaxHandle, found |-> <<>>]
<1>1. /\ op = NewOp(1, MaxHandle, TRUE) /\ proc = {p} /\ db = {} /\ Due = <<>> /\ dev \in Tables
  BY DEF Init, Procedure, Due
<1>2. op.start = 1 /\ op.end = MaxHandle /\ op.missed = FALSE /\ p.kind = "mtu"
  BY <1>1 DEF NewOp
<1> HIDE DEF p
<1>3. \A s \in dev : Within(s, op)
  <2>1. \A s \in dev : s.start \in 1..MaxHandle /\ s.end \in 1..MaxHandle
    BY <1>1, ServiceFacts DEF Handles
  <2> QED BY <1>2, <2>1 DEF Within
<1>4. AllAligned(dev, Due)
  BY <1>1 DEF AllAligned
<1>5. Sense(dev, Due, op, db, p.kind, p.to, failed)
  <2>1. Aligned(dev, Due, op)
    BY <1>3 DEF Aligned
  <2>2. Agree(dev, Due, db, New(op, "mtu"), BegunOnes(op, "mtu"), Open(op, "mtu"))
    BY <1>1 DEF Agree
  <2>3. KnownOrAhead(dev, Due, op, db, "mtu")
    BY <1>3 DEF KnownOrAhead
  <2> QED BY <1>2, <2>1, <2>2, <2>3 DEF Sense
<1>6. FoundAll(dev, Due, op, db, p.kind, p.from - 1, p.found)
  BY <1>2 DEF FoundAll, Grouped
<1> QED BY <1>1, <1>4, <1>5, <1>6 DEF Meaning

LEMMA NextMeaning ==
  ASSUME Shape, ~Wide => Listening, Sound /\ link = "up" => Meaning, NoGaps /\ link = "gone" => ActiveIsComplete,
         [Next]_vars
  PROVE  (Sound' /\ link' = "up" => Meaning') /\ (NoGaps /\ link' = "gone" => ActiveIsComplete')
<1>1. CASE DeviceAnswers
  <2>1. link' = "up" /\ link = "up" /\ changes' = changes
    BY <1>1 DEF DeviceAnswers, exchange_mtu_cb, Answered, Refused, CccWritten, deviceVars
  <2>2. Sound' => Sound
    BY <2>1 DEF Sound, NoGaps
  <2>3. ASSUME Sound PROVE Meaning'
    <3>1. Meaning /\ NoGaps
      BY <2>1, <2>3 DEF Sound
    <3> QED BY <1>1, <3>1, MtuKeeps, AnsweredKeeps, RefusedKeeps, CccKeeps DEF DeviceAnswers
  <2> QED BY <2>1, <2>2, <2>3
<1>2. CASE notify_cb
  <2>1. link' = "up" /\ link = "up" /\ changes' = changes /\ indications # <<>>
    BY <1>2 DEF notify_cb
  <2>2. Sound' => Sound /\ ~Wide
    <3>1. changes # 0
      BY <2>1 DEF Shape, Control
    <3> QED BY <2>1, <3>1 DEF Sound, NoGaps
  <2> QED BY <1>2, <2>1, <2>2, NotifyKeeps
<1>3. CASE DeviceChanges
  <2>1. link' = "up" /\ link = "up" /\ changes' # 0
    BY <1>3 DEF DeviceChanges, Shape, Control
  <2>2. Sound' => Sound
    BY <2>1 DEF Sound, NoGaps
  <2> QED BY <1>3, <2>1, <2>2, ChangesKeeps
<1>4. CASE att_disconnect_cb
  <2>1. link' = "gone" /\ link = "up"
    BY <1>4 DEF att_disconnect_cb
  <2>2. ASSUME NoGaps PROVE ActiveIsComplete'
    <3>1. changes = 0 => Meaning
      BY <2>1, <2>2 DEF Sound
    <3>2. ActiveIsComplete
      BY <3>1, ActiveOnes
    <3> QED BY <1>4, <3>2, DisconnectComplete
  <2> QED BY <2>1, <2>2
<1>5. CASE UNCHANGED vars
  <2>1. /\ Due' = Due /\ UNCHANGED <<dev, db, op, proc, failed, link, changes>> /\ failed \in BOOLEAN
    BY <1>5 DEF vars, deviceVars, clientVars, Due, Shape, Control
  <2>2. Sound' => Sound
    BY <2>1 DEF Sound, NoGaps
  <2>3. Meaning => Meaning'
    BY <2>1, SameMeaning
  <2>4. ActiveIsComplete => ActiveIsComplete'
    BY <2>1 DEF ActiveIsComplete, Whole
  <2> QED BY <2>1, <2>2, <2>3, <2>4
<1> QED BY <1>1, <1>2, <1>3, <1>4, <1>5 DEF Next

\* The invariant of the discovery, in every state.
LEMMA InvariantAlways == Spec => []IInv
<1>1. Init => IInv
  <2> SUFFICES ASSUME Init PROVE IInv
    OBVIOUS
  <2>1. link = "up"
    BY DEF Init
  <2> QED BY <2>1, InitShape, InitHeard, InitMeaning DEF IInv
<1>2. IInv /\ [Next]_vars => IInv'
  <2> SUFFICES ASSUME IInv, [Next]_vars PROVE IInv'
    OBVIOUS
  <2>1. /\ Shape /\ (~Wide => Listening) /\ (Sound /\ link = "up" => Meaning)
        /\ (NoGaps /\ link = "gone" => ActiveIsComplete)
    BY DEF IInv
  <2>2. Shape'
    BY <2>1, NextShape
  <2>3. ~Wide => Listening'
    BY <2>1, NextListening
  <2>4. (Sound' /\ link' = "up" => Meaning') /\ (NoGaps /\ link' = "gone" => ActiveIsComplete')
    BY <2>1, NextMeaning
  <2> QED BY <2>2, <2>3, <2>4 DEF IInv, NoGaps
<1> QED BY <1>1, <1>2, PTL DEF Spec

\* Discovery.MirrorsDevice where services have no gaps in their attributes and no change has
\* Service Changed itself in its range: whenever the client is ready and at rest its database is
\* the device's table, however often that changed, and in the midst of whatever discovery
\* (gatt-client.c 1108-1249).
THEOREM DatabaseMirrorsDevice ==
  ASSUME NoGaps, ~Wide
  PROVE  Spec => []MirrorsDevice
<1>1. IInv => MirrorsDevice
  <2> SUFFICES ASSUME IInv, Quiet PROVE (\A t \in db : Whole(t)) /\ (failed \/ NoneMissing(db))
    BY DEF MirrorsDevice
  <2>1. Due = <<>> /\ proc = {} /\ Meaning /\ DbOK(db)
    BY DEF Quiet, Due, IInv, Sound, Shape, Control
  <2>2. Settled(dev, Due, db, failed)
    BY <2>1 DEF Meaning
  <2>3. \A t : Clear(Due, t)
    BY <2>1 DEF Clear
  <2>4. ASSUME NEW t \in db PROVE Whole(t)
    <3>1. AgreeAt(dev, t, {}, {}, 0) /\ t.start # 0
      BY <2>1, <2>2, <2>3, FitsIn DEF Settled, Agree
    <3> QED BY <3>1 DEF AgreeAt, Same, Whole
  <2>5. failed \/ NoneMissing(db)
    BY <2>2, <2>3 DEF Settled, Known, InDb, NoneMissing
  <2> QED BY <2>4, <2>5
<1> QED BY <1>1, InvariantAlways, PTL

\* Discovery.ActiveIsComplete where services have no gaps: as long as the device has not changed
\* its table, a service that others are told about has all its attributes, in every state
\* (gatt-client.c 698-700, 797, 807).  NoGaps leaves nothing of CutAtGap, by which the property
\* lets a service lack what lies behind a gap.
THEOREM ActiveServicesComplete ==
  ASSUME NoGaps
  PROVE  Spec => []ActiveIsComplete
<1>1. IInv => ActiveIsComplete
  <2> SUFFICES ASSUME IInv PROVE ActiveIsComplete
    OBVIOUS
  <2>1. Shape /\ link \in {"up", "gone"}
    BY DEF IInv, Shape, Control
  <2>2. CASE link = "gone"
    BY <2>2 DEF IInv
  <2>3. CASE link = "up"
    BY <2>1, <2>3, ActiveOnes DEF IInv, Sound
  <2> QED BY <2>1, <2>2, <2>3
<1> QED BY <1>1, InvariantAlways, PTL
=============================================================================
