-------------------------- MODULE MetricsServerProof --------------------------
(***************************************************************************)
(* Proofs about MetricsServer, for every finite cluster: any nodes, pods   *)
(* and kubelets short of stats, and any number of incarnations.            *)
(***************************************************************************)
EXTENDS MetricsServer, FiniteSetTheorems, SequenceTheorems, WellFoundedInduction, TLAPS

-----------------------------------------------------------------------------
(* Sequences of points: the first of each name, one after another, and the *)
(* orders of a set.                                                        *)

Smaller == {ss \in Nat \X Nat : ss[1] < ss[2]}

LEMMA SmallerWellFounded == IsWellFoundedOn(Smaller, Nat)
BY NatLessThanWellFounded, Zenon DEF Smaller, OpToRel

LEMMA Smallest ==
    ASSUME NEW T, T \subseteq Nat, T # {}
    PROVE  \E x \in T : \A y \in T : x <= y
<1>1. PICK x \in T : \A y \in T : ~(<<y, x>> \in Smaller)
    BY SmallerWellFounded, WFMin, Zenon
<1>2. ASSUME NEW y \in T, y < x
      PROVE  FALSE
    <2>1. <<y, x>> \in Nat \X Nat
        OBVIOUS
    <2>2. <<y, x>>[1] < <<y, x>>[2]
        BY <1>2
    <2>3. <<y, x>> \in Smaller
        BY <2>1, <2>2, Zenon DEF Smaller
    <2> QED
        BY <2>3, <1>1
<1> QED
    BY <1>2

LEMMA MinIsLeast ==
    ASSUME NEW T, T \subseteq Nat, T # {}
    PROVE  Store!Min(T) \in T /\ \A y \in T : Store!Min(T) <= y
<1>1. \E x \in T : \A y \in T : x <= y
    BY Smallest, Zenon
<1> QED
    BY <1>1, Zenon DEF Store!Min

LEMMA FirstOfIs ==
    ASSUME NEW S, NEW points \in Seq(S)
    PROVE  /\ DOMAIN Store!FirstOf(points) = {points[i].name : i \in 1..Len(points)}
           /\ \A x \in DOMAIN Store!FirstOf(points) :
                 \E i \in 1..Len(points) :
                    points[i].name = x /\ Store!FirstOf(points)[x] = points[i]
<1> DEFINE n == Len(points)
           first(x) == Store!SelectInSeq(points, LAMBDA p : p.name = x)
<1>1. n \in Nat /\ DOMAIN points = 1..n
    OBVIOUS
<1>2. Store!PointNames(points) = {points[i].name : i \in 1..n}
    BY <1>1 DEF Store!PointNames, Store!ToSet
<1>3. Store!FirstOf(points) = [x \in {points[i].name : i \in 1..n} |-> points[first(x)]]
    BY <1>2 DEF Store!FirstOf
<1>4. ASSUME NEW x \in {points[i].name : i \in 1..n}
      PROVE  first(x) \in 1..n /\ points[first(x)].name = x
    <2> DEFINE I == {i \in 1..n : points[i].name = x}
    <2>1. I \subseteq Nat /\ I # {}
        BY <1>1
    <2>2. first(x) = Store!Min(I)
        BY <2>1 DEF Store!SelectInSeq
    <2>3. Store!Min(I) \in I
        BY <2>1, MinIsLeast, Zenon
    <2> QED
        BY <2>2, <2>3
<1> HIDE DEF n, first
<1> QED
    BY <1>3, <1>4 DEF n

\* The sequences that FlattenSeq's loop goes through exist.
Flattening(f, seqs, n) ==
    f = [i \in 1..n |-> IF i = 1 THEN seqs[i] ELSE f[i - 1] \o seqs[i]]

LEMMA FlatteningExists ==
    ASSUME NEW seqs, NEW n \in Nat
    PROVE  \E f : Flattening(f, seqs, n)
<1> DEFINE T == {k \in Nat : ~\E f : Flattening(f, seqs, k)}
<1> SUFFICES ASSUME T # {} PROVE FALSE
    OBVIOUS
<1>1. PICK k \in T : \A j \in T : k <= j
    BY Smallest
<1>2. CASE k = 0
    <2> DEFINE f == [j \in 1..0 |-> <<>>]
    <2>1. Flattening(f, seqs, 0)
        BY DEF Flattening
    <2> QED
        BY <1>2, <2>1
<1>3. CASE k # 0
    <2>1. k \in Nat /\ k - 1 \in Nat /\ k - 1 \notin T
        BY <1>1, <1>3
    <2>2. PICK f : Flattening(f, seqs, k - 1)
        BY <2>1
    <2> DEFINE g == [j \in 1..k |-> IF j = k
                                    THEN IF k = 1 THEN seqs[k] ELSE f[k - 1] \o seqs[k]
                                    ELSE f[j]]
    <2>3. \A j \in 1..(k - 1) : g[j] = f[j]
        BY <2>1
    <2>4. \A j \in 1..(k - 1) :
             f[j] = IF j = 1 THEN seqs[j] ELSE f[j - 1] \o seqs[j]
        BY <2>2, Zenon DEF Flattening
    <2>5. g[k] = IF k = 1 THEN seqs[k] ELSE f[k - 1] \o seqs[k]
        BY <1>3, <2>1
    <2>6. g = [j \in 1..k |-> g[j]]
        OBVIOUS
    <2> HIDE DEF g
    <2>7. \A j \in 1..k :
             g[j] = IF j = 1 THEN seqs[j] ELSE g[j - 1] \o seqs[j]
        <3> TAKE j \in 1..k
        <3>1. CASE j = k
            <4>1. k # 1 => g[k - 1] = f[k - 1]
                BY <1>3, <2>1, <2>3
            <4> QED
                BY <2>5, <3>1, <4>1
        <3>2. CASE j # k
            <4>1. j \in 1..(k - 1)
                BY <2>1, <3>2
            <4>2. j # 1 => j - 1 \in 1..(k - 1)
                BY <2>1, <4>1
            <4> QED
                BY <2>3, <2>4, <4>1, <4>2
        <3> QED
            BY <3>1, <3>2
    <2>8. Flattening(g, seqs, k)
        BY <2>6, <2>7 DEF Flattening
    <2> QED
        BY <2>8
<1> QED
    BY <1>2, <1>3

\* The elements of a flattened sequence are those of its sequences.
Flat(q, seqs, n) ==
    /\ \A k \in 1..Len(q) : \E i \in 1..n : \E j \in 1..Len(seqs[i]) : q[k] = seqs[i][j]
    /\ \A i \in 1..n : \A j \in 1..Len(seqs[i]) : \E k \in 1..Len(q) : q[k] = seqs[i][j]

\* The elements of c are those of a and b.
Joined(c, a, b) ==
    /\ \A i \in 1..Len(c) : \/ \E m \in 1..Len(a) : c[i] = a[m]
                            \/ \E m \in 1..Len(b) : c[i] = b[m]
    /\ \A m \in 1..Len(a) : \E i \in 1..Len(c) : c[i] = a[m]
    /\ \A m \in 1..Len(b) : \E i \in 1..Len(c) : c[i] = b[m]

LEMMA ConcatElements ==
    ASSUME NEW T, NEW a \in Seq(T), NEW b \in Seq(T)
    PROVE  a \o b \in Seq(T) /\ Joined(a \o b, a, b)
<1>1. /\ a \o b \in Seq(T) /\ Len(a \o b) = Len(a) + Len(b)
      /\ \A i \in 1..(Len(a) + Len(b)) :
            (a \o b)[i] = IF i <= Len(a) THEN a[i] ELSE b[i - Len(a)]
    BY ConcatProperties, Zenon
<1>2. Len(a) \in Nat /\ Len(b) \in Nat
    OBVIOUS
<1>3. ASSUME NEW k \in 1..Len(a) PROVE k \in 1..(Len(a) + Len(b)) /\ (a \o b)[k] = a[k]
    BY <1>1, <1>2
<1>4. ASSUME NEW k \in 1..Len(b)
      PROVE  Len(a) + k \in 1..(Len(a) + Len(b)) /\ (a \o b)[Len(a) + k] = b[k]
    <2>1. Len(a) + k \in 1..(Len(a) + Len(b)) /\ ~(Len(a) + k <= Len(a))
          /\ (Len(a) + k) - Len(a) = k
        BY <1>2
    <2> QED
        BY <1>1, <2>1
<1>5. ASSUME NEW i \in 1..(Len(a) + Len(b))
      PROVE  \/ i \in 1..Len(a) /\ (a \o b)[i] = a[i]
             \/ i - Len(a) \in 1..Len(b) /\ (a \o b)[i] = b[i - Len(a)]
    BY <1>1, <1>2
<1> QED
    BY <1>1, <1>3, <1>4, <1>5 DEF Joined

LEMMA FlatMore ==
    ASSUME NEW T, NEW seqs, NEW k \in Nat \ {0}, NEW a \in Seq(T), NEW b \in Seq(T),
           b = seqs[k], Flat(a, seqs, k - 1)
    PROVE  a \o b \in Seq(T) /\ Flat(a \o b, seqs, k)
<1> DEFINE c == a \o b
<1>1. c \in Seq(T) /\ Joined(c, a, b)
    BY ConcatElements, Zenon
<1> HIDE DEF c
<1>2. 1..k = 1..(k - 1) \cup {k}
    OBVIOUS
<1>3. /\ \A m \in 1..Len(a) : \E i \in 1..(k - 1) : \E j \in 1..Len(seqs[i]) : a[m] = seqs[i][j]
      /\ \A i \in 1..(k - 1) : \A j \in 1..Len(seqs[i]) : \E m \in 1..Len(a) : a[m] = seqs[i][j]
    BY DEF Flat
<1>4. ASSUME NEW i \in 1..Len(c)
      PROVE  \E l \in 1..k : \E j \in 1..Len(seqs[l]) : c[i] = seqs[l][j]
    <2>1. ASSUME NEW m \in 1..Len(a), c[i] = a[m]
          PROVE  \E l \in 1..k : \E j \in 1..Len(seqs[l]) : c[i] = seqs[l][j]
        <3>1. PICK l \in 1..(k - 1) : \E j \in 1..Len(seqs[l]) : a[m] = seqs[l][j]
            BY <1>3
        <3> QED
            BY <1>2, <2>1, <3>1
    <2>2. CASE \E m \in 1..Len(b) : c[i] = b[m]
        BY <1>2, <2>2
    <2> QED
        BY <1>1, <2>1, <2>2 DEF Joined
<1>5. ASSUME NEW l \in 1..k, NEW j \in 1..Len(seqs[l])
      PROVE  \E i \in 1..Len(c) : c[i] = seqs[l][j]
    <2>1. CASE l = k
        BY <1>1, <2>1 DEF Joined
    <2>2. CASE l \in 1..(k - 1)
        <3>1. PICK m \in 1..Len(a) : a[m] = seqs[l][j]
            BY <1>3, <2>2
        <3>2. PICK i \in 1..Len(c) : c[i] = a[m]
            BY <1>1 DEF Joined
        <3> QED
            BY <3>1, <3>2
    <2> QED
        BY <1>2, <2>1, <2>2
<1>6. c \in Seq(T) /\ Flat(c, seqs, k)
    BY <1>1, <1>4, <1>5 DEF Flat
<1> QED
    BY <1>6 DEF c

LEMMA FlattenIs ==
    ASSUME NEW T, NEW seqs \in Seq(Seq(T))
    PROVE  FlattenSeq(seqs) \in Seq(T) /\ Flat(FlattenSeq(seqs), seqs, Len(seqs))
<1> DEFINE n == Len(seqs)
           f == CHOOSE f : Flattening(f, seqs, n)
<1>1. n \in Nat /\ \A i \in 1..n : seqs[i] \in Seq(T)
    OBVIOUS
<1>2. CASE n = 0
    <2>1. seqs = <<>> /\ FlattenSeq(seqs) = seqs
        BY <1>2 DEF FlattenSeq
    <2>2. Flat(<<>>, seqs, 0) /\ <<>> \in Seq(T)
        BY DEF Flat
    <2> HIDE DEF f
    <2> QED
        BY <1>2, <2>1, <2>2
<1>3. CASE n # 0
    <2>1. Flattening(f, seqs, n)
        BY <1>1, FlatteningExists, Zenon
    <2>2. FlattenSeq(seqs) = f[n]
        BY <1>3 DEF FlattenSeq, Flattening
    <2> HIDE DEF n, f
    <2>3. \A i \in 1..n : f[i] = IF i = 1 THEN seqs[i] ELSE f[i - 1] \o seqs[i]
        BY <2>1 DEF Flattening
    <2> DEFINE Right(i) == f[i] \in Seq(T) /\ Flat(f[i], seqs, i)
               Wrong == {i \in 1..n : ~Right(i)}
    <2>4. Wrong = {}
        <3> SUFFICES ASSUME Wrong # {} PROVE FALSE
            OBVIOUS
        <3>1. PICK k \in Wrong : \A j \in Wrong : k <= j
            <4>1. Wrong \subseteq Nat
                BY <1>1
            <4> QED
                BY <4>1, Smallest, Zenon
        <3>2. k \in 1..n /\ ~Right(k)
            OBVIOUS
        <3>3. CASE k = 1
            <4>1. f[1] = seqs[1] /\ 1..1 = {1}
                BY <2>3, <3>2, <3>3
            <4>2. Flat(seqs[1], seqs, 1)
                BY <4>1 DEF Flat
            <4> QED
                BY <1>1, <3>2, <3>3, <4>1, <4>2
        <3>4. CASE k # 1
            <4>1. k - 1 \in 1..n /\ 1..k = 1..(k - 1) \cup {k} /\ ~(k <= k - 1)
                BY <1>1, <3>2, <3>4
            <4>2. k - 1 \notin Wrong
                BY <3>1, <4>1, Zenon
            <4>3. Right(k - 1)
                BY <4>1, <4>2, Zenon
            <4>4. f[k] = f[k - 1] \o seqs[k] /\ seqs[k] \in Seq(T)
                BY <1>1, <2>3, <3>2, <3>4
            <4>5. f[k] \in Seq(T) /\ Flat(f[k], seqs, k)
                <5>1. k \in Nat \ {0}
                    BY <1>1, <3>2
                <5>2. f[k - 1] \in Seq(T) /\ Flat(f[k - 1], seqs, k - 1)
                    BY <4>3
                <5>3. /\ f[k - 1] \o seqs[k] \in Seq(T)
                      /\ Flat(f[k - 1] \o seqs[k], seqs, k)
                    BY <4>4, <5>1, <5>2, FlatMore
                <5> QED
                    BY <4>4, <5>3, Zenon
            <4> QED
                BY <3>2, <4>5
        <3> QED
            BY <3>3, <3>4
    <2>5. n \in 1..n
        BY <1>1, <1>3
    <2> QED
        BY <2>2, <2>4, <2>5 DEF n
<1> QED
    BY <1>2, <1>3

\* Every element of a finite set has a place in every order of it.
LEMMA OrderIsOnto ==
    ASSUME NEW S, IsFiniteSet(S), NEW order \in SetToSeqs(S)
    PROVE  /\ order \in Seq(S)
           /\ \A x \in S : \E k \in DOMAIN order : order[k] = x
<1> DEFINE n == Cardinality(S)
<1>1. n \in Nat /\ IsFiniteSet(1..n) /\ Cardinality(1..n) = n
    BY FS_CardinalityType, FS_Interval
<1>2. order \in [1..n -> S] /\ \A i, j \in 1..n : i # j => order[i] # order[j]
    BY DEF SetToSeqs
<1>3. order \in Injection(1..n, S)
    BY <1>2 DEF Injection, IsInjective
<1>4. order \in Surjection(1..n, S)
    BY <1>1, <1>3, FS_Injection
<1> QED
    BY <1>1, <1>2, <1>4 DEF Surjection

LEMMA SetToSeqIs ==
    ASSUME NEW S, IsFiniteSet(S)
    PROVE  /\ SetToSeq(S) \in Seq(S)
           /\ \A x \in S : \E k \in DOMAIN SetToSeq(S) : SetToSeq(S)[k] = x
<1> DEFINE n == Cardinality(S)
           f == SetToSeq(S)
<1>1. n \in Nat /\ IsFiniteSet(1..n) /\ Cardinality(1..n) = n /\ ExistsBijection(1..n, S)
    BY FS_CardinalityType, FS_Interval
<1>2. \E g \in [1..n -> S] : IsInjective(g)
    BY <1>1 DEF ExistsBijection, Bijection, Injection
<1>3. f \in [1..n -> S] /\ IsInjective(f)
    BY <1>2 DEF SetToSeq
<1>4. f \in Injection(1..n, S)
    BY <1>3 DEF Injection
<1>5. f \in Surjection(1..n, S)
    BY <1>1, <1>4, FS_Injection
<1> HIDE DEF f
<1>6. f \in Seq(S) /\ \A x \in S : \E k \in DOMAIN f : f[k] = x
    BY <1>1, <1>3, <1>5 DEF Surjection
<1> QED
    BY <1>6 DEF f

-----------------------------------------------------------------------------
(* The inductive invariant.                                                *)

\* A node whose object is gone exists for as long as its kubelet goes on.
Exists(x) == Alive(x) \/ (x \in NodeNames /\ status[x] # Gone)

\* What exists has been created, and no incarnation that this cycle may see is
\* older than the oldest of the cycle; the nodes that it has listed were cached
\* when it began.
ClusterInv ==
    /\ status \in [NodeNames -> {Gone, "up", "down", "young", "lacking", "leaving"}]
    /\ place \in [PodNames -> NodeNames \cup {Gone}]
    /\ shape \in [PodNames -> Shapes]
    /\ born \in [Names -> Nat]
    /\ \A x \in Names : Exists(x) => born[x] > 0
    /\ oldest \in [Asked -> Nat]
    /\ \A x \in Asked : oldest[x] <= IF Alive(x) THEN born[x] ELSE born[x] + 1
    /\ \A x \in pending \cap Asked : oldest[x] <= born[x]

\* Is t a time a measurement of x in the cycle that is described by from could
\* have: of an incarnation there was, and not of one from before the cycle?
TimeOf(x, t, from) ==
    /\ t \in Nat \ {0} /\ t <= born[x]
    /\ x \in Asked => from[x] <= t

PodPointType == [name : PodNames, of : Nat, times : Seq(Nat)]
PodPointOf(p, point, from) ==
    /\ point.name = p
    /\ TimeOf(p, point.of, from)

\* The points that are stored are of the cycle whose batch is stored.
StoreInv ==
    /\ DOMAIN nodes \subseteq NodeNames \cup {NoName}
    /\ \A n \in DOMAIN nodes \ {NoName} : TimeOf(n, nodes[n].time, since)
    /\ DOMAIN pods \subseteq PodNames
    /\ \A p \in DOMAIN pods : PodPointOf(p, pods[p], since)

\* The points that have been reported are of this cycle, and not older than
\* those they are to replace.
NodeReported(n, point) ==
    \/ point.name = NoName
    \/ /\ point.name = n
       /\ TimeOf(n, point.time, oldest)
       /\ n \in DOMAIN nodes => nodes[n].time <= point.time
PodReported(point) ==
    \E p \in PodNames :
        /\ PodPointOf(p, point, oldest)
        /\ p \in DOMAIN pods => pods[p].of <= point.of
ReportsInv ==
    /\ \A n \in DOMAIN reports :
          /\ NodeReported(n, reports[n].node)
          /\ reports[n].pods \in Seq(PodPointType)
          /\ \A k \in DOMAIN reports[n].pods : PodReported(reports[n].pods[k])
    /\ pending \subseteq NodeNames
    /\ DOMAIN reports \subseteq NodeNames \ pending
    /\ nodeCache \subseteq NodeNames
    /\ cycle \in {"idle", "collecting"}
    /\ cycle = "idle" => reports = <<>> /\ steady = {}

\* What could have been measured all the time is still to be scraped, or has
\* been reported.
HasReported(x, n) ==
    /\ n \in DOMAIN reports
    /\ IF x \in NodeNames THEN reports[n].node.name = x /\ reports[n].node.measured
       ELSE \E k \in DOMAIN reports[n].pods : reports[n].pods[k].name = x
SteadyInv ==
    \A x \in steady :
        /\ x \in Names /\ Measurable(x)
        /\ LET n == IF x \in NodeNames THEN x ELSE place[x]
           IN  n \in pending \/ HasReported(x, n)

IInv == ClusterInv /\ StoreInv /\ ReportsInv /\ SteadyInv

-----------------------------------------------------------------------------
(* The cluster.                                                            *)

LEMMA NamesAre ==
    /\ \A x \in NodeNames : x \in Names /\ x \notin PodNames /\ x # NoName /\ x # Gone
    /\ \A x \in PodNames : x \in Names /\ x \notin NodeNames /\ x # NoName /\ x # Gone
    /\ \A x \in Names : x \in NodeNames \/ x \in PodNames
    /\ \A x \in Asked : x \in Names
BY NamesAssumption, RequestsAssumption DEF Names

LEMMA InitIsRight == Init => IInv
<1> SUFFICES ASSUME Init PROVE IInv
    OBVIOUS
<1>1. ClusterInv
    <2>1. /\ status \in [NodeNames -> {Gone, "up"}]
          /\ place = [p \in PodNames |-> Gone]
          /\ shape = [p \in PodNames |-> "bare"]
          /\ pending = {}
          /\ born = [x \in Names |-> IF x \in NodeNames /\ status[x] = "up" THEN 1 ELSE 0]
          /\ oldest = [x \in Asked |-> 0]
        BY DEF Init
    <2>2. \A x \in Names : Exists(x) => born[x] = 1
        BY <2>1, NamesAre DEF Exists, Alive
    <2>3. born \in [Names -> Nat]
        BY <2>1
    <2>4. \A x \in Asked : oldest[x] <= IF Alive(x) THEN born[x] ELSE born[x] + 1
        BY <2>1, <2>3, NamesAre
    <2> QED
        BY <2>1, <2>2, <2>3, <2>4 DEF ClusterInv, Shapes
<1>2. StoreInv
    BY DEF Init, StoreInv
<1>3. ReportsInv
    BY DEF Init, ReportsInv
<1>4. SteadyInv
    BY DEF Init, SteadyInv
<1> QED
    BY <1>1, <1>2, <1>3, <1>4 DEF IInv

\* Start-up and the informers.
LEMMA QuietStep ==
    ASSUME IInv, nodeCache' \subseteq NodeNames,
           UNCHANGED <<clusterVars, storeVars, cycleVars, steady, since>>
    PROVE  IInv'
<1> USE DEF clusterVars, storeVars, cycleVars, IInv
<1>1. ClusterInv'
    BY DEF ClusterInv, Exists, Alive
<1>2. StoreInv'
    BY DEF StoreInv, TimeOf, PodPointOf
<1>3. ReportsInv'
    <2>1. UNCHANGED <<cycle, pending, reports, steady>>
        OBVIOUS
    <2>2. \A n, point : /\ NodeReported(n, point)' <=> NodeReported(n, point)
                        /\ PodReported(point)' <=> PodReported(point)
        BY DEF NodeReported, PodReported, PodPointOf, TimeOf
    <2> QED
        BY <2>1, <2>2 DEF ReportsInv
<1>4. SteadyInv'
    <2>1. UNCHANGED <<steady, place, pending, reports>>
        OBVIOUS
    <2>2. \A x, n : /\ Measurable(x)' <=> Measurable(x)
                    /\ HasReported(x, n)' <=> HasReported(x, n)
        BY DEF Measurable, Listens, HasReported
    <2> QED
        BY <2>1, <2>2, Zenon DEF SteadyInv
<1> QED
    BY <1>1, <1>2, <1>3, <1>4

\* A time that could be measured stays one when names are created anew.
LEMMA TimeStays ==
    ASSUME ClusterInv, NEW x \in Names, NEW t, NEW from,
           born'[x] \in Nat, born[x] <= born'[x]
    PROVE  TimeOf(x, t, from) => TimeOf(x, t, from)'
BY DEF TimeOf, ClusterInv

\* The cluster changes: what that leaves of the invariant.
Grown ==
    /\ born' \in [Names -> Nat]
    /\ \A x \in Names : born[x] <= born'[x]

LEMMA PointsStay ==
    ASSUME IInv, Grown, UNCHANGED <<nodeCache, storeVars, cycleVars, since>>,
           steady' \subseteq steady
    PROVE  StoreInv' /\ ReportsInv'
<1> USE DEF storeVars, cycleVars, IInv
<1>1. \A x \in Names : \A t, from : TimeOf(x, t, from) => TimeOf(x, t, from)'
    BY TimeStays DEF Grown
<1>2. \A p \in PodNames : \A point, from : PodPointOf(p, point, from) => PodPointOf(p, point, from)'
    BY <1>1, NamesAre DEF PodPointOf
<1>3. StoreInv'
    <2>1. DOMAIN nodes' \subseteq NodeNames \cup {NoName} /\ DOMAIN pods' \subseteq PodNames
        BY DEF StoreInv
    <2>2. \A n \in DOMAIN nodes \ {NoName} : TimeOf(n, nodes[n].time, since)'
        BY <1>1, NamesAre DEF StoreInv
    <2>3. \A p \in DOMAIN pods : PodPointOf(p, pods[p], since)'
        BY <1>2 DEF StoreInv
    <2> QED
        BY <2>1, <2>2, <2>3 DEF StoreInv
<1>4. ReportsInv'
    <2>1. \A n \in DOMAIN reports : NodeReported(n, reports[n].node)'
        BY <1>1, NamesAre DEF ReportsInv, NodeReported
    <2>2. \A n \in DOMAIN reports : \A k \in DOMAIN reports[n].pods :
             PodReported(reports[n].pods[k])'
        BY <1>2 DEF ReportsInv, PodReported
    <2> QED
        BY <2>1, <2>2 DEF ReportsInv
<1> QED
    BY <1>3, <1>4

LEMMA NodeChangesKeeps ==
    ASSUME IInv, NEW n \in NodeNames, NodeChanges(n)
    PROVE  IInv'
<1>1. /\ UNCHANGED <<place, shape, nodeCache, storeVars, cycleVars, since>>
      /\ steady' = {x \in steady : born'[x] = born[x] /\ Measurable(x)'}
    BY DEF NodeChanges, ClusterChanged
<1>2. PICK s \in Statuses(n) \ {status[n]} :
         /\ status[n] = Gone => s # "leaving"
         /\ status' = [status EXCEPT ![n] = s]
         /\ IF ~Alive(n) /\ s # Gone THEN Create(n) ELSE UNCHANGED born
    BY DEF NodeChanges
<1>3. born' = born \/ (~Alive(n) /\ s # Gone /\ born' = [born EXCEPT ![n] = @ + 1])
    BY <1>2 DEF Create
<1>4. n \in Names /\ s \in {Gone, "up", "down", "young", "lacking", "leaving"}
    BY <1>2, NamesAre DEF Statuses
<1>5. Grown
    BY <1>3, <1>4 DEF Grown, IInv, ClusterInv
<1>6. StoreInv' /\ ReportsInv'
    BY <1>1, <1>5, PointsStay
<1>7. ClusterInv'
    <2>1. /\ status' \in [NodeNames -> {Gone, "up", "down", "young", "lacking", "leaving"}]
          /\ place' \in [PodNames -> NodeNames \cup {Gone}]
          /\ shape' \in [PodNames -> Shapes]
          /\ oldest' \in [Asked -> Nat] /\ oldest' = oldest /\ pending' = pending
        BY <1>1, <1>2, <1>4 DEF IInv, ClusterInv, cycleVars
    <2>2. \A x \in Names \ {n} :
             Alive(x)' = Alive(x) /\ Exists(x)' = Exists(x) /\ born'[x] = born[x]
        BY <1>1, <1>2, <1>3 DEF Alive, Exists, IInv, ClusterInv
    <2>3. /\ born[n] \in Nat
          /\ \/ ~Alive(n) /\ born'[n] = born[n] + 1
             \/ ~Alive(n) /\ ~Exists(n)' /\ ~Alive(n)' /\ born'[n] = born[n]
             \/ Alive(n) /\ Exists(n) /\ born[n] > 0 /\ born'[n] = born[n]
        <3>1. /\ born[n] \in Nat
              /\ status \in [NodeNames -> {Gone, "up", "down", "young", "lacking", "leaving"}]
              /\ Exists(n) => born[n] > 0
            BY <1>4 DEF IInv, ClusterInv
        <3>2. CASE ~Alive(n) /\ s # Gone
            <4>1. Create(n)
                BY <1>2, <3>2
            <4>2. born'[n] = born[n] + 1
                BY <1>4, <4>1 DEF Create, IInv, ClusterInv
            <4> QED
                BY <3>1, <3>2, <4>2
        <3>3. CASE ~Alive(n) /\ s = Gone
            <4>1. born' = born /\ status'[n] = Gone
                BY <1>2, <3>1, <3>3
            <4>2. ~Exists(n)' /\ ~Alive(n)'
                BY <4>1 DEF Exists, Alive
            <4> QED
                BY <3>1, <3>3, <4>1, <4>2
        <3>4. CASE Alive(n)
            <4>1. born' = born /\ Exists(n)
                BY <1>2, <3>4 DEF Exists
            <4> QED
                BY <3>1, <3>4, <4>1
        <3> QED
            BY <3>2, <3>3, <3>4
    <2>4. \A x \in Names : Exists(x)' => born'[x] > 0
        BY <2>2, <2>3 DEF IInv, ClusterInv
    <2>5. ASSUME NEW x \in Asked
          PROVE  /\ oldest'[x] <= IF Alive(x)' THEN born'[x] ELSE born'[x] + 1
                 /\ x \in pending => oldest'[x] <= born'[x]
        <3>1. x \in Names /\ oldest[x] \in Nat /\ oldest'[x] = oldest[x]
              /\ oldest[x] <= (IF Alive(x) THEN born[x] ELSE born[x] + 1)
              /\ (x \in pending => oldest[x] <= born[x])
            BY <2>1, NamesAre DEF IInv, ClusterInv
        <3>2. CASE x = n
            BY <2>3, <3>1, <3>2
        <3>3. CASE x # n
            BY <2>2, <3>1, <3>3
        <3> QED
            BY <3>2, <3>3
    <2> QED
        BY <1>5, <2>1, <2>4, <2>5 DEF ClusterInv, Grown
<1>8. SteadyInv'
    BY <1>1 DEF IInv, SteadyInv, HasReported, cycleVars
<1> QED
    BY <1>6, <1>7, <1>8 DEF IInv

LEMMA PodStepKeeps ==
    ASSUME IInv, NEW p \in PodNames, PodStarts(p) \/ PodChanges(p) \/ PodEnds(p)
    PROVE  IInv'
<1>1. /\ UNCHANGED <<status, nodeCache, storeVars, cycleVars, since>>
      /\ steady' = {x \in steady : born'[x] = born[x] /\ Measurable(x)'}
    BY DEF PodStarts, PodChanges, PodEnds, ClusterChanged
<1>2. PICK to \in NodeNames \cup {Gone}, s \in Shapes :
         /\ place' = [place EXCEPT ![p] = to]
         /\ shape' = [shape EXCEPT ![p] = s]
         /\ \/ place[p] = Gone /\ to # Gone /\ born' = [born EXCEPT ![p] = @ + 1]
            \/ place[p] # Gone /\ to \in {Gone, place[p]} /\ born' = born
    <2>1. CASE PodStarts(p)
        <3>1. shape[p] \in Shapes /\ shape' = [shape EXCEPT ![p] = shape[p]]
            BY <2>1 DEF PodStarts, IInv, ClusterInv
        <3> QED
            BY <2>1, <3>1, NamesAre DEF PodStarts, Create
    <2>2. CASE PodChanges(p)
        <3>1. place[p] \in NodeNames \cup {Gone} /\ place' = [place EXCEPT ![p] = place[p]]
            BY <2>2 DEF PodChanges, IInv, ClusterInv
        <3> QED
            BY <2>2, <3>1 DEF PodChanges
    <2>3. CASE PodEnds(p)
        BY <2>3 DEF PodEnds, Shapes
    <2> QED
        BY <2>1, <2>2, <2>3
<1>3. p \in Names /\ p \notin NodeNames
    BY NamesAre
<1>4. Grown
    BY <1>2, <1>3 DEF Grown, IInv, ClusterInv
<1>5. StoreInv' /\ ReportsInv'
    BY <1>1, <1>4, PointsStay
<1>6. ClusterInv'
    <2>1. /\ status' \in [NodeNames -> {Gone, "up", "down", "young", "lacking", "leaving"}]
          /\ place' \in [PodNames -> NodeNames \cup {Gone}]
          /\ shape' \in [PodNames -> Shapes]
          /\ oldest' \in [Asked -> Nat] /\ oldest' = oldest /\ pending' = pending
        BY <1>1, <1>2 DEF IInv, ClusterInv, cycleVars
    <2>2. \A x \in Names \ {p} :
             Alive(x)' = Alive(x) /\ Exists(x)' = Exists(x) /\ born'[x] = born[x]
        BY <1>1, <1>2, NamesAre DEF Alive, Exists, IInv, ClusterInv
    <2>3. /\ born[p] \in Nat /\ p \notin pending
          /\ Exists(p)' = Alive(p)'
          /\ \/ ~Alive(p) /\ Alive(p)' /\ born'[p] = born[p] + 1
             \/ Alive(p) /\ born[p] > 0 /\ born'[p] = born[p]
        BY <1>2, <1>3 DEF Alive, Exists, IInv, ClusterInv, ReportsInv
    <2>4. \A x \in Names : Exists(x)' => born'[x] > 0
        BY <2>2, <2>3 DEF IInv, ClusterInv
    <2>5. ASSUME NEW x \in Asked
          PROVE  /\ oldest'[x] <= IF Alive(x)' THEN born'[x] ELSE born'[x] + 1
                 /\ x \in pending => oldest'[x] <= born'[x]
        <3>1. x \in Names /\ oldest[x] \in Nat /\ oldest'[x] = oldest[x]
              /\ oldest[x] <= (IF Alive(x) THEN born[x] ELSE born[x] + 1)
              /\ (x \in pending => oldest[x] <= born[x])
            BY <2>1, NamesAre DEF IInv, ClusterInv
        <3>2. CASE x = p
            BY <2>3, <3>1, <3>2
        <3>3. CASE x # p
            BY <2>2, <3>1, <3>3
        <3> QED
            BY <3>2, <3>3
    <2> QED
        BY <1>4, <2>1, <2>4, <2>5 DEF ClusterInv, Grown
<1>7. SteadyInv'
    <2>1. ASSUME NEW x \in steady'
          PROVE  x \in NodeNames \/ place'[x] = place[x]
        <3>1. x \in steady /\ x \in Names /\ Measurable(x) /\ Measurable(x)'
            BY <1>1 DEF IInv, SteadyInv
        <3>2. x = p => place'[p] = place[p]
            BY <1>2, <1>3, <3>1 DEF Measurable, IInv, ClusterInv
        <3> QED
            BY <1>2, <3>1, <3>2, NamesAre DEF IInv, ClusterInv
    <2> QED
        BY <1>1, <2>1 DEF IInv, SteadyInv, HasReported, cycleVars
<1> QED
    BY <1>5, <1>6, <1>7 DEF IInv

-----------------------------------------------------------------------------
(* The scrape loop.                                                        *)

LEMMA NoReports == DOMAIN <<>> = {}
OBVIOUS

LEMMA BeginCycleKeeps ==
    ASSUME IInv, BeginCycle
    PROVE  IInv'
<1>1. /\ UNCHANGED <<status, place, shape, born, nodeCache, nodes, pods, reports, since>>
      /\ cycle = "idle" /\ cycle' = "collecting" /\ pending' = nodeCache
      /\ oldest' = [x \in Asked |-> IF Alive(x) \/ x \in nodeCache THEN born[x]
                                                                 ELSE born[x] + 1]
      /\ steady' = {x \in Names : /\ Measurable(x)
                                  /\ IF x \in NodeNames THEN x \in nodeCache
                                                        ELSE place[x] \in nodeCache}
    BY DEF BeginCycle, clusterVars, storeVars
<1>2. reports' = <<>> /\ nodeCache \subseteq NodeNames
    BY <1>1 DEF IInv, ReportsInv
<1>3. ClusterInv'
    <2>1. oldest' \in [Asked -> Nat]
        BY <1>1, NamesAre DEF IInv, ClusterInv
    <2>2. ASSUME NEW x \in Asked
          PROVE  /\ oldest'[x] <= IF Alive(x) THEN born[x] ELSE born[x] + 1
                 /\ x \in pending' => oldest'[x] <= born[x]
        <3>1. born[x] \in Nat
            BY NamesAre DEF IInv, ClusterInv
        <3> QED
            BY <1>1, <3>1
    <2>3. \A x : Alive(x)' = Alive(x) /\ Exists(x)' = Exists(x)
        BY <1>1 DEF Alive, Exists
    <2> QED
        BY <1>1, <2>1, <2>2, <2>3 DEF IInv, ClusterInv
<1>4. StoreInv'
    BY <1>1 DEF IInv, StoreInv, TimeOf, PodPointOf
<1>5. ReportsInv'
    BY <1>1, <1>2, NoReports DEF ReportsInv
<1>6. SteadyInv'
    <2>1. \A x : Measurable(x)' = Measurable(x)
        BY <1>1 DEF Measurable, Listens
    <2> QED
        BY <1>1, <2>1 DEF SteadyInv
<1> QED
    BY <1>3, <1>4, <1>5, <1>6 DEF IInv

\* A kubelet reports the pods on its node, each of its incarnation, and leaves out
\* only those of which something is missing.
LEMMA PodPointsAre ==
    ASSUME ClusterInv, NEW n
    PROVE  /\ PodPoints(n) \in Seq(PodPointType)
           /\ \A k \in DOMAIN PodPoints(n) :
                 \E p \in PodNames : place[p] = n /\ PodPoints(n)[k] = PodPoint(p)
           /\ \A p \in PodNames : place[p] = n /\ shape[p] # "partial" =>
                 \E k \in DOMAIN PodPoints(n) : PodPoints(n)[k].name = p
<1> DEFINE S == {p \in PodNames : place[p] = n /\ shape[p] # "partial"}
           kept == SetToSeq(S)
<1>1. IsFiniteSet(S)
    BY ClusterAssumption, FS_Subset
<1>2. kept \in Seq(S) /\ \A x \in S : \E k \in DOMAIN kept : kept[k] = x
    BY <1>1, SetToSeqIs
<1>3. PodPoints(n) = [k \in DOMAIN kept |-> PodPoint(kept[k])]
    BY DEF PodPoints
<1> HIDE DEF kept
<1>4. \A k \in DOMAIN kept : kept[k] \in S
    BY <1>2
<1>5. ASSUME NEW p \in PodNames
      PROVE  PodPoint(p) \in PodPointType /\ PodPoint(p).name = p
    <2>1. born[p] \in Nat
        BY NamesAre DEF ClusterInv
    <2>2. (IF shape[p] = "bare" THEN <<>> ELSE <<born[p]>>) \in Seq(Nat)
        BY <2>1
    <2> QED
        BY <2>1, <2>2 DEF PodPoint, PodPointType
<1>6. PodPoints(n) \in Seq(PodPointType)
    <2>1. \E m \in Nat : DOMAIN kept = 1..m
        BY <1>2
    <2>2. \A k \in DOMAIN kept : PodPoint(kept[k]) \in PodPointType
        BY <1>4, <1>5
    <2> QED
        BY <1>3, <2>1, <2>2
<1>7. \A k \in DOMAIN PodPoints(n) :
         \E p \in PodNames : place[p] = n /\ PodPoints(n)[k] = PodPoint(p)
    BY <1>3, <1>4
<1>8. \A p \in PodNames : place[p] = n /\ shape[p] # "partial" =>
         \E k \in DOMAIN PodPoints(n) : PodPoints(n)[k].name = p
    BY <1>2, <1>3, <1>5
<1> QED
    BY <1>6, <1>7, <1>8

LEMMA ReportIs ==
    ASSUME IInv, NEW n \in NodeNames, Listens(n), n \in pending
    PROVE  /\ NodeReported(n, Report(n).node)
           /\ Report(n).pods \in Seq(PodPointType)
           /\ \A k \in DOMAIN Report(n).pods : PodReported(Report(n).pods[k])
<1>1. Report(n).node = NodePoint(n) /\ Report(n).pods = PodPoints(n)
    BY DEF Report
<1>2. ClusterInv /\ StoreInv /\ n # Gone /\ n # NoName /\ n \in Names
    BY NamesAre DEF IInv
<1>3. NodeReported(n, NodePoint(n))
    <2>1. CASE status[n] = "young"
        BY <2>1 DEF NodePoint, NodeReported
    <2>2. CASE status[n] # "young"
        <3>1. NodePoint(n).name = n /\ NodePoint(n).time = born[n]
            BY <2>2 DEF NodePoint
        <3>2. Exists(n)
            BY DEF Listens, Exists
        <3>3. TimeOf(n, born[n], oldest)
            BY <1>2, <3>2 DEF TimeOf, ClusterInv
        <3>4. n \in DOMAIN nodes => nodes[n].time <= born[n]
            BY <1>2 DEF StoreInv, TimeOf
        <3> QED
            BY <3>1, <3>3, <3>4 DEF NodeReported
    <2> QED
        BY <2>1, <2>2
<1>4. ASSUME NEW k \in DOMAIN PodPoints(n)
      PROVE  PodReported(PodPoints(n)[k])
    <2>1. PICK p \in PodNames : place[p] = n /\ PodPoints(n)[k] = PodPoint(p)
        BY <1>2, PodPointsAre
    <2>2. p \in Names /\ Alive(p) /\ Exists(p)
        BY <1>2, <2>1, NamesAre DEF Alive, Exists
    <2>3. TimeOf(p, born[p], oldest)
        BY <1>2, <2>2 DEF TimeOf, ClusterInv
    <2>4. PodPoint(p).name = p /\ PodPoint(p).of = born[p]
        BY DEF PodPoint
    <2>5. p \in DOMAIN pods => pods[p].of <= born[p]
        BY <1>2 DEF StoreInv, PodPointOf, TimeOf
    <2> QED
        BY <2>1, <2>3, <2>4, <2>5 DEF PodReported, PodPointOf
<1>5. PodPoints(n) \in Seq(PodPointType)
    BY <1>2, PodPointsAre
<1> QED
    BY <1>1, <1>3, <1>4, <1>5

\* A node that could be measured, or a pod on it, is in what the node reports.
LEMMA ReportHas ==
    ASSUME IInv, NEW x \in Names, Measurable(x), NEW n \in NodeNames,
           n = IF x \in NodeNames THEN x ELSE place[x]
    PROVE  /\ Listens(n)
           /\ IF x \in NodeNames THEN Report(n).node.name = x /\ Report(n).node.measured
              ELSE \E k \in DOMAIN Report(n).pods : Report(n).pods[k].name = x
<1>1. Report(n).node = NodePoint(n) /\ Report(n).pods = PodPoints(n)
    BY DEF Report
<1>2. CASE x \in NodeNames
    <2>1. n = x /\ status[n] = "up"
        BY <1>2 DEF Measurable
    <2>2. Listens(n) /\ NodePoint(n) = [name |-> n, time |-> born[n], measured |-> TRUE]
        BY <2>1 DEF Listens, NodePoint, Gone
    <2> QED
        BY <1>1, <1>2, <2>1, <2>2
<1>3. CASE x \notin NodeNames
    <2>1. x \in PodNames /\ place[x] = n /\ shape[x] # "partial" /\ Listens(n) /\ ClusterInv
        BY <1>3, NamesAre DEF Measurable, IInv
    <2>2. \E k \in DOMAIN PodPoints(n) : PodPoints(n)[k].name = x
        BY <2>1, PodPointsAre
    <2> QED
        BY <1>1, <1>3, <2>1, <2>2
<1> QED
    BY <1>2, <1>3

LEMMA ScrapeKeeps ==
    ASSUME IInv, NEW n \in NodeNames, Scrape(n)
    PROVE  IInv'
<1>1. /\ UNCHANGED <<status, place, shape, born, nodeCache, nodes, pods, cycle, oldest,
                     steady, since>>
      /\ cycle = "collecting" /\ n \in pending
      /\ pending' = pending \ {n}
      /\ reports' = IF Listens(n) THEN Put(reports, n, Report(n)) ELSE reports
    BY DEF Scrape, clusterVars, storeVars
<1>2. ClusterInv' /\ StoreInv'
    <2>1. \A x : Alive(x)' = Alive(x) /\ Exists(x)' = Exists(x)
        BY <1>1 DEF Alive, Exists
    <2>2. ClusterInv'
        BY <1>1, <2>1 DEF IInv, ClusterInv
    <2>3. StoreInv'
        BY <1>1 DEF IInv, StoreInv, TimeOf, PodPointOf
    <2> QED
        BY <2>2, <2>3
<1>3. /\ \A m \in DOMAIN reports : m # n
      /\ DOMAIN reports' = IF Listens(n) THEN DOMAIN reports \cup {n} ELSE DOMAIN reports
      /\ \A m \in DOMAIN reports : reports'[m] = reports[m]
      /\ Listens(n) => reports'[n] = Report(n)
    BY <1>1 DEF Put, IInv, ReportsInv
<1>4. /\ \A m, point : NodeReported(m, point)' = NodeReported(m, point)
      /\ \A point : PodReported(point)' = PodReported(point)
    BY <1>1 DEF NodeReported, PodReported, PodPointOf, TimeOf
<1>5. ReportsInv'
    <2>1. ASSUME NEW m \in DOMAIN reports'
          PROVE  /\ NodeReported(m, reports'[m].node)
                 /\ reports'[m].pods \in Seq(PodPointType)
                 /\ \A k \in DOMAIN reports'[m].pods : PodReported(reports'[m].pods[k])
        <3>1. CASE m \in DOMAIN reports
            BY <1>3, <3>1 DEF IInv, ReportsInv
        <3>2. CASE m \notin DOMAIN reports
            <4>1. m = n /\ Listens(n) /\ reports'[m] = Report(n)
                BY <1>3, <3>2
            <4> QED
                BY <1>1, <4>1, ReportIs
        <3> QED
            BY <3>1, <3>2
    <2>2. DOMAIN reports' \subseteq NodeNames \ pending'
        BY <1>1, <1>3 DEF IInv, ReportsInv
    <2> QED
        BY <1>1, <1>4, <2>1, <2>2 DEF IInv, ReportsInv
<1>6. SteadyInv'
    <2> SUFFICES ASSUME NEW x \in steady
                 PROVE  /\ x \in Names /\ Measurable(x)
                        /\ LET m == IF x \in NodeNames THEN x ELSE place[x]
                           IN  m \in pending' \/ HasReported(x, m)'
        BY <1>1 DEF SteadyInv, Measurable, Listens
    <2> DEFINE m == IF x \in NodeNames THEN x ELSE place[x]
    <2>1. x \in Names /\ Measurable(x) /\ (m \in pending \/ HasReported(x, m))
        BY DEF IInv, SteadyInv
    <2>2. CASE m = n
        <3>1. /\ Listens(n)
              /\ IF x \in NodeNames THEN Report(n).node.name = x /\ Report(n).node.measured
                 ELSE \E k \in DOMAIN Report(n).pods : Report(n).pods[k].name = x
            BY <2>1, <2>2, ReportHas
        <3>2. HasReported(x, n)'
            BY <1>3, <3>1 DEF HasReported
        <3> QED
            BY <1>1, <2>1, <2>2, <3>2
    <2>3. CASE m # n
        <3>1. HasReported(x, m) => HasReported(x, m)'
            BY <1>1, <1>3 DEF HasReported
        <3> QED
            BY <1>1, <2>1, <2>3, <3>1
    <2> QED
        BY <2>2, <2>3
<1> QED
    BY <1>2, <1>5, <1>6 DEF IInv

\* What a cycle stores is what was reported in it, in whatever order it came.
StoredNodes(ns) ==
    /\ \A n \in DOMAIN reports : reports[n].node.name \in DOMAIN ns
    /\ \A x \in DOMAIN ns : \E n \in DOMAIN reports :
          reports[n].node.name = x /\ ns[x] = reports[n].node
StoredPods(ps) ==
    /\ \A n \in DOMAIN reports : \A k \in 1..Len(reports[n].pods) :
          reports[n].pods[k].name \in DOMAIN ps
    /\ \A p \in DOMAIN ps : \E n \in DOMAIN reports : \E k \in 1..Len(reports[n].pods) :
          reports[n].pods[k].name = p /\ ps[p] = reports[n].pods[k]

LEMMA NodesOfBatch ==
    ASSUME ReportsInv, NEW order \in SetToSeqs(DOMAIN reports)
    PROVE  StoredNodes(Store!FirstOf(BatchOf(order).nodes))
<1> DEFINE S == {reports[n].node : n \in DOMAIN reports}
           points == BatchOf(order).nodes
<1>1. IsFiniteSet(DOMAIN reports)
    BY ClusterAssumption, FS_Subset DEF ReportsInv
<1>2. /\ order \in Seq(DOMAIN reports)
      /\ \A n \in DOMAIN reports : \E k \in DOMAIN order : order[k] = n
    BY <1>1, OrderIsOnto
<1>3. points = [k \in DOMAIN order |-> reports[order[k]].node]
    BY DEF BatchOf
<1>4. PICK m \in Nat : DOMAIN order = 1..m
    BY <1>2
<1>5. \A k \in 1..m : order[k] \in DOMAIN reports
    BY <1>2, <1>4
<1> HIDE DEF points
<1>6. points \in Seq(S) /\ Len(points) = m
    BY <1>3, <1>4, <1>5
<1>7. /\ DOMAIN Store!FirstOf(points) = {points[i].name : i \in 1..Len(points)}
      /\ \A x \in DOMAIN Store!FirstOf(points) : \E i \in 1..Len(points) :
            points[i].name = x /\ Store!FirstOf(points)[x] = points[i]
    BY <1>6, FirstOfIs, Zenon
<1>8. \A k \in 1..m : points[k] = reports[order[k]].node
    BY <1>3, <1>4
<1>9. ASSUME NEW n \in DOMAIN reports
      PROVE  reports[n].node.name \in DOMAIN Store!FirstOf(points)
    <2>1. PICK k \in 1..m : order[k] = n
        BY <1>2, <1>4
    <2>2. points[k].name \in DOMAIN Store!FirstOf(points)
        BY <1>6, <1>7
    <2> QED
        BY <1>8, <2>1, <2>2
<1>10. ASSUME NEW x \in DOMAIN Store!FirstOf(points)
       PROVE  \E n \in DOMAIN reports :
                 reports[n].node.name = x /\ Store!FirstOf(points)[x] = reports[n].node
    <2>1. PICK i \in 1..m : points[i].name = x /\ Store!FirstOf(points)[x] = points[i]
        BY <1>6, <1>7
    <2> QED
        BY <1>5, <1>8, <2>1
<1>11. StoredNodes(Store!FirstOf(points))
    BY <1>9, <1>10, Zenon DEF StoredNodes
<1> QED
    BY <1>11 DEF points

LEMMA PodsOfBatch ==
    ASSUME ReportsInv, NEW order \in SetToSeqs(DOMAIN reports)
    PROVE  StoredPods(Store!FirstOf(BatchOf(order).pods))
<1> DEFINE seqs == [k \in DOMAIN order |-> reports[order[k]].pods]
           points == FlattenSeq(seqs)
<1>1. IsFiniteSet(DOMAIN reports)
    BY ClusterAssumption, FS_Subset DEF ReportsInv
<1>2. /\ order \in Seq(DOMAIN reports)
      /\ \A n \in DOMAIN reports : \E k \in DOMAIN order : order[k] = n
    BY <1>1, OrderIsOnto
<1>3. BatchOf(order).pods = points
    BY DEF BatchOf
<1>4. PICK m \in Nat : DOMAIN order = 1..m
    BY <1>2
<1>5. \A k \in 1..m : order[k] \in DOMAIN reports
    BY <1>2, <1>4
<1>6. \A k \in 1..m : seqs[k] = reports[order[k]].pods /\ seqs[k] \in Seq(PodPointType)
    BY <1>4, <1>5 DEF ReportsInv
<1>7. seqs \in Seq(Seq(PodPointType)) /\ Len(seqs) = m
    BY <1>4, <1>6
<1> HIDE DEF seqs
<1>8. points \in Seq(PodPointType) /\ Flat(points, seqs, m)
    BY <1>7, FlattenIs
<1> HIDE DEF points
<1>9. /\ DOMAIN Store!FirstOf(points) = {points[i].name : i \in 1..Len(points)}
      /\ \A x \in DOMAIN Store!FirstOf(points) : \E i \in 1..Len(points) :
            points[i].name = x /\ Store!FirstOf(points)[x] = points[i]
    BY <1>8, FirstOfIs, Zenon
<1>10. /\ \A i \in 1..Len(points) : \E j \in 1..m : \E k \in 1..Len(seqs[j]) :
             points[i] = seqs[j][k]
       /\ \A j \in 1..m : \A k \in 1..Len(seqs[j]) : \E i \in 1..Len(points) :
             points[i] = seqs[j][k]
    BY <1>8, Zenon DEF Flat
<1>11. ASSUME NEW n \in DOMAIN reports, NEW k \in 1..Len(reports[n].pods)
       PROVE  reports[n].pods[k].name \in DOMAIN Store!FirstOf(points)
    <2>1. PICK j \in 1..m : order[j] = n
        BY <1>2, <1>4
    <2>2. seqs[j] = reports[n].pods
        BY <1>6, <2>1
    <2>3. PICK i \in 1..Len(points) : points[i] = reports[n].pods[k]
        BY <1>10, <2>2
    <2>4. points[i].name \in DOMAIN Store!FirstOf(points)
        BY <1>9
    <2> QED
        BY <2>3, <2>4
<1>12. ASSUME NEW p \in DOMAIN Store!FirstOf(points)
       PROVE  \E n \in DOMAIN reports : \E k \in 1..Len(reports[n].pods) :
                 /\ reports[n].pods[k].name = p
                 /\ Store!FirstOf(points)[p] = reports[n].pods[k]
    <2>1. PICK i \in 1..Len(points) :
             points[i].name = p /\ Store!FirstOf(points)[p] = points[i]
        BY <1>9
    <2>2. PICK j \in 1..m : \E k \in 1..Len(seqs[j]) : points[i] = seqs[j][k]
        BY <1>10
    <2>3. order[j] \in DOMAIN reports /\ seqs[j] = reports[order[j]].pods
        BY <1>5, <1>6
    <2> QED
        BY <2>1, <2>2, <2>3
<1>13. StoredPods(Store!FirstOf(points))
    BY <1>11, <1>12, Zenon DEF StoredPods
<1> QED
    BY <1>3, <1>13

LEMMA PublishStores ==
    ASSUME IInv, Publish
    PROVE  StoredNodes(nodes') /\ StoredPods(pods')
<1>1. PICK order \in SetToSeqs(DOMAIN reports) : Store!Publish(BatchOf(order))
    BY DEF Publish
<1>2. /\ nodes' = Store!FirstOf(BatchOf(order).nodes)
      /\ pods' = Store!FirstOf(BatchOf(order).pods)
    BY <1>1 DEF Store!Publish
<1> QED
    BY <1>2, NodesOfBatch, PodsOfBatch DEF IInv

LEMMA PublishKeeps ==
    ASSUME IInv, Publish
    PROVE  IInv'
<1>1. /\ UNCHANGED <<status, place, shape, born, nodeCache>>
      /\ pending = {} /\ pending' = {}
      /\ since' = oldest /\ steady' = {} /\ cycle' = "idle" /\ reports' = <<>>
      /\ oldest' = [x \in Asked |-> 0]
    BY DEF Publish, CycleEnds, clusterVars
<1>2. StoredNodes(nodes') /\ StoredPods(pods')
    BY PublishStores
<1>3. ClusterInv'
    <2>1. \A x : Alive(x)' = Alive(x) /\ Exists(x)' = Exists(x)
        BY <1>1 DEF Alive, Exists
    <2>2. \A x \in Asked : oldest'[x] <= IF Alive(x) THEN born[x] ELSE born[x] + 1
        BY <1>1, NamesAre DEF IInv, ClusterInv
    <2>3. oldest' \in [Asked -> Nat]
        BY <1>1
    <2> QED
        BY <1>1, <2>1, <2>2, <2>3 DEF IInv, ClusterInv
<1>4. StoreInv'
    <2>0. \A n \in DOMAIN reports : n \in NodeNames /\ NodeReported(n, reports[n].node)
        BY DEF IInv, ReportsInv
    <2>1. ASSUME NEW x \in DOMAIN nodes'
          PROVE  /\ x \in NodeNames \cup {NoName}
                 /\ x # NoName => TimeOf(x, nodes[x].time, since)'
        <3>1. PICK n \in DOMAIN reports :
                 reports[n].node.name = x /\ nodes'[x] = reports[n].node
            BY <1>2 DEF StoredNodes
        <3>2. x # NoName => n = x /\ TimeOf(x, nodes'[x].time, oldest)
            BY <2>0, <3>1 DEF NodeReported
        <3> QED
            BY <1>1, <2>0, <3>1, <3>2 DEF TimeOf, NodeReported
    <2>2. ASSUME NEW x \in DOMAIN pods'
          PROVE  x \in PodNames /\ PodPointOf(x, pods[x], since)'
        <3>1. PICK n \in DOMAIN reports : \E k \in 1..Len(reports[n].pods) :
                 reports[n].pods[k].name = x /\ pods'[x] = reports[n].pods[k]
            BY <1>2 DEF StoredPods
        <3>2. PICK k \in 1..Len(reports[n].pods) :
                 reports[n].pods[k].name = x /\ pods'[x] = reports[n].pods[k]
            BY <3>1
        <3>3. PodReported(reports[n].pods[k])
            BY DEF IInv, ReportsInv
        <3>4. PICK p \in PodNames : PodPointOf(p, pods'[x], oldest)
            BY <3>2, <3>3 DEF PodReported
        <3>5. p = x
            BY <3>2, <3>4 DEF PodPointOf
        <3> QED
            BY <1>1, <3>4, <3>5 DEF PodPointOf, TimeOf
    <2> QED
        BY <2>1, <2>2 DEF StoreInv
<1>5. ReportsInv'
    BY <1>1, NoReports DEF IInv, ReportsInv
<1>6. SteadyInv'
    BY <1>1 DEF SteadyInv
<1> QED
    BY <1>3, <1>4, <1>5, <1>6 DEF IInv

LEMMA StepKeeps == IInv /\ [Next]_vars => IInv'
<1> SUFFICES ASSUME IInv, [Next]_vars PROVE IInv'
    OBVIOUS
<1>1. nodeCache \subseteq NodeNames
    BY DEF IInv, ReportsInv
<1>2. CASE Main
    BY <1>1, <1>2, QuietStep
       DEF Main, RunUntil, Serve, StartInformers, Reach
<1>3. CASE Loop
    BY <1>3, BeginCycleKeeps, PublishKeeps, ScrapeKeeps DEF Loop
<1>4. CASE Cluster
    BY <1>4, NodeChangesKeeps, PodStepKeeps DEF Cluster
<1>5. CASE Informer
    <2>1. nodeCache' \subseteq NodeNames
        BY <1>1, <1>5 DEF Informer, NodeWatch
    <2>2. UNCHANGED <<clusterVars, storeVars, cycleVars, steady, since>>
        BY <1>5 DEF Informer, NodeWatch
    <2> QED
        BY <2>1, <2>2, QuietStep
<1>6. CASE UNCHANGED vars
    BY <1>1, <1>6, QuietStep DEF vars
<1> QED
    BY <1>2, <1>3, <1>4, <1>5, <1>6 DEF Next

LEMMA Inductive == Spec => []IInv
BY InitIsRight, StepKeeps, PTL DEF Spec

-----------------------------------------------------------------------------
(* The properties.                                                         *)

\* The parts of TypeOK that IInv has no need of.
BoundsInv ==
    /\ main \in {"wired", "looping", "serving", "informed"}
    /\ \A n \in NodeNames : status[n] \in Statuses(n)
    /\ \A x \in Names : born[x] <= MaxBorn[x]

LEMMA BoundsAlways == Spec => []BoundsInv
<1>1. Init => BoundsInv
    <2> SUFFICES ASSUME Init PROVE BoundsInv
        OBVIOUS
    <2>1. \A x \in Names : MaxBorn[x] \in Nat \ {0}
        BY BoundAssumption
    <2>2. \A x \in Names : born[x] <= MaxBorn[x]
        BY <2>1 DEF Init
    <2> QED
        BY <2>2, NoReports DEF Init, BoundsInv, Statuses
<1>2. IInv /\ BoundsInv /\ [Next]_vars => BoundsInv'
    <2> SUFFICES ASSUME IInv, BoundsInv, [Next]_vars PROVE BoundsInv'
        OBVIOUS
    <2>1. \A x \in Names : MaxBorn[x] \in Nat /\ born[x] \in Nat /\ born[x] <= MaxBorn[x]
        BY BoundAssumption DEF IInv, ClusterInv, BoundsInv
    <2>2. ASSUME NEW x \in Names, Create(x)
          PROVE  \A y \in Names : born'[y] <= MaxBorn[y]
        BY <2>1, <2>2 DEF Create, IInv, ClusterInv
    <2>3. CASE Main
        BY <2>3 DEF Main, RunUntil, Serve, StartInformers, Reach, BoundsInv, Statuses,
                    clusterVars
    <2>4. CASE Loop
        BY <2>4 DEF Loop, BeginCycle, Publish, CycleEnds, Scrape, BoundsInv, Statuses,
                    clusterVars
    <2>5. ASSUME NEW n \in NodeNames, NodeChanges(n)
          PROVE  BoundsInv'
        <3>1. UNCHANGED main
            BY <2>5 DEF NodeChanges, ClusterChanged
        <3>2. \A m \in NodeNames : status'[m] \in Statuses(m)
            BY <2>5 DEF NodeChanges, BoundsInv, IInv, ClusterInv
        <3>3. \A y \in Names : born'[y] <= MaxBorn[y]
            BY <2>1, <2>2, <2>5, NamesAre DEF NodeChanges
        <3> QED
            BY <3>1, <3>2, <3>3 DEF BoundsInv, Statuses
    <2>6. ASSUME NEW p \in PodNames, PodStarts(p) \/ PodChanges(p) \/ PodEnds(p)
          PROVE  BoundsInv'
        <3>1. UNCHANGED <<main, status>>
            BY <2>6 DEF PodStarts, PodChanges, PodEnds, ClusterChanged
        <3>2. \A y \in Names : born'[y] <= MaxBorn[y]
            BY <2>1, <2>2, <2>6, NamesAre DEF PodStarts, PodChanges, PodEnds
        <3> QED
            BY <3>1, <3>2 DEF BoundsInv, Statuses
    <2>7. CASE Informer
        BY <2>7 DEF Informer, NodeWatch, BoundsInv, Statuses, clusterVars
    <2>8. CASE UNCHANGED vars
        BY <2>8 DEF vars, clusterVars, BoundsInv, Statuses
    <2> QED
        BY <2>3, <2>4, <2>5, <2>6, <2>7, <2>8 DEF Next, Cluster
<1> QED
    BY <1>1, <1>2, Inductive, PTL DEF Spec

\* The types of the server's state in its cluster: what is cached, pending,
\* reported and stored is of the cluster, and a cycle leaves nothing behind.
THEOREM TypeCorrect == Spec => []TypeOK
<1>1. IInv /\ BoundsInv => TypeOK
    BY DEF IInv, BoundsInv, ClusterInv, StoreInv, ReportsInv, TypeOK
<1> QED
    BY <1>1, Inductive, BoundsAlways, PTL

LEMMA OnlyPublishStores ==
    ASSUME [Next]_vars, ~Publish
    PROVE  UNCHANGED storeVars /\ ~Stored
<1>1. CASE Main
    BY <1>1 DEF Main, RunUntil, Serve, StartInformers, Reach, cycleVars, Stored
<1>2. CASE BeginCycle \/ \E n \in NodeNames : Scrape(n)
    BY <1>2 DEF BeginCycle, Scrape, Stored
<1>3. CASE Cluster
    BY <1>3 DEF Cluster, NodeChanges, PodStarts, PodChanges, PodEnds, ClusterChanged, cycleVars,
                   Stored
<1>4. CASE Informer
    BY <1>4 DEF Informer, NodeWatch, cycleVars, Stored
<1>5. CASE UNCHANGED vars
    BY <1>5 DEF vars, cycleVars, Stored
<1> QED
    BY <1>1, <1>2, <1>3, <1>4, <1>5 DEF Next, Loop

\* No cycle puts back what an earlier one replaced: what the next store knows of a
\* node or a pod is never of an earlier incarnation, although it may be less, as of
\* a pod without containers (sources/manager.go line 144, sinkprov.go lines
\* 122-147).
THEOREM ServedNeverBackwards == Spec => NeverBackwards
<1>1. ASSUME IInv, [Next]_vars
      PROVE  /\ \A n \in DOMAIN nodes \cap DOMAIN nodes' :
                   n # NoName => nodes[n].time <= nodes'[n].time
             /\ \A p \in DOMAIN pods \cap DOMAIN pods' : pods[p].of <= pods'[p].of
    <2>1. CASE ~Publish
        <3>1. nodes' = nodes /\ pods' = pods
            BY <1>1, <2>1, OnlyPublishStores DEF storeVars
        <3>2. \A n \in DOMAIN nodes : n # NoName => nodes[n].time \in Nat
            BY <1>1 DEF IInv, StoreInv, TimeOf
        <3>3. \A p \in DOMAIN pods : pods[p].of \in Nat
            BY <1>1 DEF IInv, StoreInv, PodPointOf, TimeOf
        <3> QED
            BY <3>1, <3>2, <3>3
    <2>2. CASE Publish
        <3>1. StoredNodes(nodes') /\ StoredPods(pods')
            BY <1>1, <2>2, PublishStores
        <3>2. ASSUME NEW n \in DOMAIN nodes \cap DOMAIN nodes', n # NoName
              PROVE  nodes[n].time <= nodes'[n].time
            <4>1. PICK m \in DOMAIN reports :
                     reports[m].node.name = n /\ nodes'[n] = reports[m].node
                BY <3>1 DEF StoredNodes
            <4>2. NodeReported(m, reports[m].node)
                BY <1>1 DEF IInv, ReportsInv
            <4> QED
                BY <3>2, <4>1, <4>2 DEF NodeReported
        <3>3. ASSUME NEW p \in DOMAIN pods \cap DOMAIN pods'
              PROVE  pods[p].of <= pods'[p].of
            <4>1. PICK m \in DOMAIN reports : \E k \in 1..Len(reports[m].pods) :
                     reports[m].pods[k].name = p /\ pods'[p] = reports[m].pods[k]
                BY <3>1 DEF StoredPods
            <4>2. PICK k \in 1..Len(reports[m].pods) :
                     reports[m].pods[k].name = p /\ pods'[p] = reports[m].pods[k]
                BY <4>1
            <4>3. PodReported(reports[m].pods[k])
                BY <1>1 DEF IInv, ReportsInv
            <4>4. PICK q \in PodNames :
                     /\ PodPointOf(q, pods'[p], oldest)
                     /\ q \in DOMAIN pods => pods[q].of <= pods'[p].of
                BY <4>2, <4>3 DEF PodReported
            <4>5. q = p
                BY <4>2, <4>4 DEF PodPointOf
            <4> QED
                BY <4>4, <4>5
        <3> QED
            BY <3>2, <3>3
    <2> QED
        BY <2>1, <2>2
<1> QED
    BY <1>1, Inductive, PTL DEF Spec, NeverBackwards

\* No node and no pod costs another its metrics: a node that was listed and could
\* have answered in full during all of a cycle is stored as measured when the cycle
\* ends, and a pod that could have been reported is stored, whatever the other
\* kubelets do (summary.go lines 111-132, sources/manager.go lines 132-149).
THEOREM OthersAlwaysServed == Spec => OthersServed
<1> DEFINE Served(x) == IF x \in NodeNames THEN x \in DOMAIN nodes' /\ nodes'[x].measured
                        ELSE x \in DOMAIN pods'
<1>1. ASSUME IInv, [Next]_vars, Stored
      PROVE  \A x \in steady : Served(x)
    <2>1. Publish
        BY <1>1, OnlyPublishStores
    <2>2. StoredNodes(nodes') /\ StoredPods(pods') /\ pending = {}
        BY <1>1, <2>1, PublishStores DEF Publish, CycleEnds
    <2>3. ASSUME NEW x \in steady
          PROVE  Served(x)
        <3> DEFINE n == IF x \in NodeNames THEN x ELSE place[x]
        <3>1. HasReported(x, n)
            BY <1>1, <2>2 DEF IInv, SteadyInv
        <3> HIDE DEF n
        <3>2. n \in DOMAIN reports /\ reports[n].pods \in Seq(PodPointType)
            BY <1>1, <3>1 DEF HasReported, IInv, ReportsInv
        <3>3. CASE x \in NodeNames
            <4>1. reports[x].node.name = x /\ reports[x].node.measured /\ x \in DOMAIN reports
                BY <3>1, <3>3 DEF HasReported, n
            <4>2. x \in DOMAIN nodes'
                BY <2>2, <4>1 DEF StoredNodes
            <4>3. PICK m \in DOMAIN reports :
                     reports[m].node.name = x /\ nodes'[x] = reports[m].node
                BY <2>2, <4>2 DEF StoredNodes
            <4>4. m = x
                BY <1>1, <3>3, <4>3, NamesAre DEF NodeReported, IInv, ReportsInv
            <4> QED
                BY <3>3, <4>1, <4>2, <4>3, <4>4
        <3>4. CASE x \notin NodeNames
            <4>1. PICK k \in DOMAIN reports[n].pods : reports[n].pods[k].name = x
                BY <3>1, <3>4 DEF HasReported
            <4>2. k \in 1..Len(reports[n].pods)
                BY <3>2
            <4> QED
                BY <2>2, <3>2, <3>4, <4>1, <4>2 DEF StoredPods
        <3> QED
            BY <3>3, <3>4
    <2> QED
        BY <2>3
<1> QED
    BY <1>1, Inductive, PTL DEF Spec, OthersServed

\* No reply describes a node that had left the cache, a pod that was gone, or a
\* predecessor of either, before the cycle began whose batch is stored, in a
\* cluster of any size and with any history (nodemetrics/reststorage.go line 113,
\* podmetrics/reststorage.go line 172).
THEOREM NoGhostsEver == Spec => []NoGhosts
<1>1. IInv => NoGhosts
    <2> SUFFICES ASSUME IInv, NEW q \in Requests, NEW item \in Reply(q)
                 PROVE  Incarnation(item.name) >= since[item.name]
        BY DEF NoGhosts
    <2>1. StoreInv /\ \A x \in q.labels : x \in Asked /\ x \in Names /\ x # NoName
        BY NamesAre DEF IInv, Asked
    <2>2. \A c : Rest!Selected(q, c) \subseteq q.labels
        BY Zenon DEF Rest!Selected
    <2>3. CASE q.kind = "nodes"
        <3>1. PICK n \in Rest!Selected(q, nodeCache) \cap DOMAIN nodes :
                 item = [name |-> n, info |-> Rest!Store!NodeInfo(nodes[n])]
            BY <2>3 DEF Reply, Rest!Answers
        <3>2. item.name = n /\ n \in NodeNames /\ Incarnation(n) = nodes[n].time
            BY <2>1, <2>2, <3>1 DEF StoreInv, Incarnation
        <3>3. TimeOf(n, nodes[n].time, since) /\ n \in Asked
            BY <2>1, <2>2, <3>1 DEF StoreInv
        <3> QED
            BY <3>2, <3>3 DEF TimeOf
    <2>4. CASE q.kind # "nodes"
        <3>1. PICK p \in Rest!Selected(q, [x \in PodNames |-> "Running"]) \cap DOMAIN pods :
                 item = [name |-> p, info |-> Rest!Store!PodInfo(pods[p])]
            BY <2>4 DEF Reply, Rest!Answers
        <3>2. item.name = p /\ p \in PodNames /\ Incarnation(p) = pods[p].of
            BY <2>1, <3>1, NamesAre DEF StoreInv, Incarnation
        <3>3. TimeOf(p, pods[p].of, since) /\ p \in Asked
            BY <2>1, <2>2, <3>1 DEF StoreInv, PodPointOf
        <3> QED
            BY <3>2, <3>3 DEF TimeOf
    <2> QED
        BY <2>3, <2>4
<1> QED
    BY <1>1, Inductive, PTL
=============================================================================
