-------------------------- MODULE SinkProviderProof --------------------------
(***************************************************************************)
(* Proofs about SinkProvider, for any number of readers and all requests   *)
(* and batches.                                                            *)
(***************************************************************************)
EXTENDS SinkProvider, WellFoundedInduction, TLAPS

-----------------------------------------------------------------------------
(* The least of a set of numbers: how the loops' results are found to exist. *)

Smaller == {ss \in Nat \X Nat : ss[1] < ss[2]}

LEMMA SmallerWellFounded == IsWellFoundedOn(Smaller, Nat)
BY NatLessThanWellFounded, Zenon DEF Smaller, OpToRel

LEMMA Smallest ==
    ASSUME NEW T, T \subseteq Nat, T # {}
    PROVE  \E x \in T : \A y \in T : x <= y
<1>1. PICK x \in T : \A y \in T : ~(<<y, x>> \in Smaller)
    BY SmallerWellFounded, WFMin, Zenon
<1>2. ASSUME NEW y \in T, y < x
      PROVE  FALSE
    <2>1. <<y, x>> \in Nat \X Nat
        OBVIOUS
    <2>2. <<y, x>>[1] < <<y, x>>[2]
        BY <1>2
    <2>3. <<y, x>> \in Smaller
        BY <2>1, <2>2, Zenon DEF Smaller
    <2> QED
        BY <2>3, <1>1
<1> QED
    BY <1>2

LEMMA MinIsLeast ==
    ASSUME NEW T, T \subseteq Nat, T # {}
    PROVE  Store!Min(T) \in T /\ \A y \in T : Store!Min(T) <= y
<1>1. \E x \in T : \A y \in T : x <= y
    BY Smallest, Zenon
<1> QED
    BY <1>1, Zenon DEF Store!Min

-----------------------------------------------------------------------------
(* The maps Receive builds: the first point of each name.                  *)

\* Is m the map of the first k points: to each of their names the first point
\* that has it?
FirstPoints(m, points, k) ==
    /\ m = [n \in DOMAIN m |-> m[n]]
    /\ DOMAIN m = {points[i].name : i \in 1..k}
    /\ \A i \in 1..k :
          (\A j \in 1..(i - 1) : points[j].name # points[i].name)
              => m[points[i].name] = points[i]

LEMMA OnePointMore ==
    ASSUME NEW points, NEW k \in Nat \ {0}, NEW m, FirstPoints(m, points, k - 1)
    PROVE  FirstPoints(AddPoint(m, points[k]), points, k)
<1> DEFINE p == points[k]
           new == AddPoint(m, p)
<1>1. 1..k = 1..(k - 1) \cup {k} /\ k \notin 1..(k - 1)
    OBVIOUS
<1>2. /\ m = [n \in DOMAIN m |-> m[n]]
      /\ DOMAIN m = {points[i].name : i \in 1..(k - 1)}
      /\ \A i \in 1..(k - 1) :
            (\A j \in 1..(i - 1) : points[j].name # points[i].name)
                => m[points[i].name] = points[i]
    BY DEF FirstPoints
<1>3. DOMAIN m \cup {p.name} = {points[i].name : i \in 1..k}
    BY <1>1, <1>2
<1>4. CASE p.name \in DOMAIN m
    <2>1. new = m
        BY <1>4 DEF AddPoint
    <2>2. \E j \in 1..(k - 1) : points[j].name = p.name
        BY <1>2, <1>4
    <2>3. DOMAIN m = {points[i].name : i \in 1..k}
        BY <1>3, <1>4
    <2> QED
        BY <1>1, <1>2, <2>1, <2>2, <2>3 DEF FirstPoints
<1>5. CASE p.name \notin DOMAIN m
    <2>1. new = [n \in DOMAIN m \cup {p.name} |-> IF n = p.name THEN p ELSE m[n]]
        BY <1>5 DEF AddPoint
    <2>2. \A i \in 1..(k - 1) : points[i].name # p.name /\ points[i].name \in DOMAIN m
        BY <1>2, <1>5
    <2>3. \A i \in 1..(k - 1) : new[points[i].name] = m[points[i].name]
        BY <2>1, <2>2
    <2>4. new[p.name] = p
        BY <2>1
    <2>5. DOMAIN new = {points[i].name : i \in 1..k}
        BY <1>3, <2>1
    <2>6. new = [n \in DOMAIN new |-> new[n]]
        BY <2>1
    <2>7. ASSUME NEW i \in 1..k, \A j \in 1..(i - 1) : points[j].name # points[i].name
          PROVE  new[points[i].name] = points[i]
        BY <1>1, <1>2, <2>3, <2>4, <2>7
    <2> HIDE DEF new, p
    <2> QED
        BY <2>5, <2>6, <2>7 DEF FirstPoints, p, new
<1> QED
    BY <1>4, <1>5

\* The maps that BuildMap's loop goes through exist.
Building(f, list, n) ==
    f = [k \in 0..n |-> IF k = 0 THEN <<>> ELSE AddPoint(f[k - 1], list[k])]

LEMMA BuildingExists ==
    ASSUME NEW list, NEW n \in Nat
    PROVE  \E f : Building(f, list, n)
<1> DEFINE T == {k \in Nat : ~\E f : Building(f, list, k)}
<1> SUFFICES ASSUME T # {} PROVE FALSE
    OBVIOUS
<1>1. PICK k \in T : \A j \in T : k <= j
    BY Smallest
<1>2. CASE k = 0
    <2> DEFINE f == [j \in 0..0 |-> <<>>]
    <2>1. Building(f, list, 0)
        BY DEF Building
    <2> QED
        BY <1>2, <2>1
<1>3. CASE k # 0
    <2>1. k \in Nat /\ k - 1 \in Nat /\ k - 1 \notin T
        BY <1>1, <1>3
    <2>2. PICK f : Building(f, list, k - 1)
        BY <2>1
    <2> DEFINE g == [j \in 0..k |-> IF j = k THEN AddPoint(f[k - 1], list[k]) ELSE f[j]]
    <2>3. DOMAIN f = 0..(k - 1)
        BY <2>2 DEF Building
    <2>4. g[k - 1] = f[k - 1] /\ \A j \in 0..(k - 1) : g[j] = f[j]
        BY <2>1
    <2>5. \A j \in 0..(k - 1) :
             f[j] = IF j = 0 THEN <<>> ELSE AddPoint(f[j - 1], list[j])
        BY <2>2, Zenon DEF Building
    <2>6. \A j \in 0..k :
             g[j] = IF j = 0 THEN <<>> ELSE AddPoint(g[j - 1], list[j])
        <3> TAKE j \in 0..k
        <3>1. CASE j = k
            BY <1>3, <2>1, <2>4, <3>1
        <3>2. CASE j # k
            <4>1. j \in 0..(k - 1)
                BY <2>1, <3>2
            <4>2. j # 0 => j - 1 \in 0..(k - 1)
                BY <2>1, <4>1
            <4> HIDE DEF g
            <4> QED
                BY <2>4, <2>5, <4>1, <4>2
        <3> QED
            BY <3>1, <3>2
    <2>7. Building(g, list, k)
        <3>1. g = [j \in 0..k |-> g[j]]
            OBVIOUS
        <3> HIDE DEF g
        <3> QED
            BY <2>6, <3>1 DEF Building
    <2> QED
        BY <2>7
<1> QED
    BY <1>2, <1>3

LEMMA BuildMapIsFirst ==
    ASSUME NEW list, Len(list) \in Nat
    PROVE  FirstPoints(BuildMap(list), list, Len(list))
<1> DEFINE n == Len(list)
           f == CHOOSE f : Building(f, list, n)
<1>1. Building(f, list, n)
    BY BuildingExists, Zenon
<1>2. BuildMap(list) = f[n]
    BY DEF BuildMap, Building
<1> HIDE DEF n, f
<1>3. n \in Nat
    BY DEF n
<1>4. f[0] = <<>> /\ \A k \in 1..n : f[k] = AddPoint(f[k - 1], list[k])
    BY <1>1, <1>3 DEF Building
<1> DEFINE T == {k \in 0..n : ~FirstPoints(f[k], list, k)}
<1>5. T = {}
    <2> SUFFICES ASSUME T # {} PROVE FALSE
        OBVIOUS
    <2>1. PICK k \in T : \A j \in T : k <= j
        <3>1. T \subseteq Nat
            BY <1>3
        <3> QED
            BY <3>1, Smallest, Zenon
    <2>2. k # 0
        <3>1. FirstPoints(<<>>, list, 0)
            BY DEF FirstPoints
        <3> QED
            BY <1>4, <2>1, <3>1
    <2>3. k \in 1..n /\ k - 1 \in 0..n /\ k - 1 \notin T
        BY <1>3, <2>1, <2>2
    <2>4. FirstPoints(AddPoint(f[k - 1], list[k]), list, k)
        BY <2>3, OnePointMore
    <2> QED
        BY <1>4, <2>1, <2>3, <2>4
<1>6. FirstPoints(f[n], list, n)
    BY <1>3, <1>5
<1> QED
    BY <1>2, <1>6 DEF n

\* The map that Receive builds is the one that SnapshotStore promises.
LEMMA BuildMapIsFirstOf ==
    ASSUME NEW S, NEW list \in Seq(S)
    PROVE  BuildMap(list) = Store!FirstOf(list) /\ IsPointMap(BuildMap(list))
<1> DEFINE n == Len(list)
           m == BuildMap(list)
           first(x) == Store!SelectInSeq(list, LAMBDA p : p.name = x)
<1>1. /\ n \in Nat /\ FirstPoints(m, list, n)
      /\ DOMAIN list = 1..n
    BY BuildMapIsFirst
<1>2. Store!PointNames(list) = {list[i].name : i \in 1..n}
    BY <1>1 DEF Store!PointNames, Store!ToSet
<1>3. Store!FirstOf(list) = [x \in {list[i].name : i \in 1..n} |-> list[first(x)]]
    BY <1>2 DEF Store!FirstOf
<1>4. ASSUME NEW x \in {list[i].name : i \in 1..n}
      PROVE  m[x] = list[first(x)] /\ list[first(x)].name = x
    <2> DEFINE I == {i \in 1..n : list[i].name = x}
    <2>1. I \subseteq Nat /\ I # {}
        BY <1>1
    <2>2. first(x) = Store!Min(I)
        BY <2>1 DEF Store!SelectInSeq
    <2>3. Store!Min(I) \in I /\ \A i \in I : Store!Min(I) <= i
        BY <2>1, MinIsLeast, Zenon
    <2> HIDE DEF first
    <2>4. first(x) \in 1..n /\ list[first(x)].name = x
        BY <2>2, <2>3
    <2>5. \A j \in 1..(first(x) - 1) : list[j].name # x
        BY <1>1, <2>2, <2>3
    <2> QED
        BY <1>1, <2>4, <2>5 DEF FirstPoints
<1> HIDE DEF n, m, first
<1>5. m = [x \in {list[i].name : i \in 1..n} |-> m[x]]
    BY <1>1 DEF FirstPoints
<1>6. [x \in {list[i].name : i \in 1..n} |-> m[x]]
      = [x \in {list[i].name : i \in 1..n} |-> list[first(x)]]
    BY <1>4
<1>7. IsPointMap(m)
    BY <1>4, <1>5 DEF IsPointMap
<1> QED
    BY <1>3, <1>5, <1>6, <1>7 DEF m

-----------------------------------------------------------------------------
(* The time a pod is answered with: the earliest of its containers.        *)

TimesLoop(f, times, n) ==
    f = [k \in 0..n |-> IF k = 0 THEN NoTime ELSE EarlierTime(f[k - 1], times[k])]

LEMMA TimesLoopExists ==
    ASSUME NEW times, NEW n \in Nat
    PROVE  \E f : TimesLoop(f, times, n)
<1> DEFINE T == {k \in Nat : ~\E f : TimesLoop(f, times, k)}
<1> SUFFICES ASSUME T # {} PROVE FALSE
    OBVIOUS
<1>1. PICK k \in T : \A j \in T : k <= j
    BY Smallest
<1>2. CASE k = 0
    <2> DEFINE f == [j \in 0..0 |-> NoTime]
    <2>1. TimesLoop(f, times, 0)
        BY DEF TimesLoop
    <2> QED
        BY <1>2, <2>1
<1>3. CASE k # 0
    <2>1. k \in Nat /\ k - 1 \in Nat /\ k - 1 \notin T
        BY <1>1, <1>3
    <2>2. PICK f : TimesLoop(f, times, k - 1)
        BY <2>1
    <2> DEFINE g == [j \in 0..k |-> IF j = k THEN EarlierTime(f[k - 1], times[k]) ELSE f[j]]
    <2>3. g[k - 1] = f[k - 1] /\ \A j \in 0..(k - 1) : g[j] = f[j]
        BY <2>1
    <2>4. \A j \in 0..(k - 1) :
             f[j] = IF j = 0 THEN NoTime ELSE EarlierTime(f[j - 1], times[j])
        BY <2>2, Zenon DEF TimesLoop
    <2>5. \A j \in 0..k :
             g[j] = IF j = 0 THEN NoTime ELSE EarlierTime(g[j - 1], times[j])
        <3> TAKE j \in 0..k
        <3>1. CASE j = k
            BY <1>3, <2>1, <2>3, <3>1
        <3>2. CASE j # k
            <4>1. j \in 0..(k - 1)
                BY <2>1, <3>2
            <4>2. j # 0 => j - 1 \in 0..(k - 1)
                BY <2>1, <4>1
            <4> HIDE DEF g
            <4> QED
                BY <2>3, <2>4, <4>1, <4>2
        <3> QED
            BY <3>1, <3>2
    <2>6. TimesLoop(g, times, k)
        <3>1. g = [j \in 0..k |-> g[j]]
            OBVIOUS
        <3> HIDE DEF g
        <3> QED
            BY <2>5, <3>1 DEF TimesLoop
    <2> QED
        BY <2>6
<1> QED
    BY <1>2, <1>3

LEMMA EarliestTimeIsMin ==
    ASSUME NEW times \in Seq(Nat)
    PROVE  EarliestTime(times)
           = IF times = <<>> THEN ZeroTime ELSE Store!Min(Store!ToSet(times))
<1> DEFINE n == Len(times)
           f == CHOOSE f : TimesLoop(f, times, n)
<1>1. /\ n \in Nat /\ DOMAIN times = 1..n
      /\ \A k \in 1..n : times[k] \in Nat
      /\ times = <<>> <=> n = 0
    OBVIOUS
<1>2. TimesLoop(f, times, n)
    BY <1>1, TimesLoopExists, Zenon
<1>3. EarliestTime(times) = IF f[n] = NoTime THEN ZeroTime ELSE f[n]
    BY DEF EarliestTime, TimesLoop
<1> HIDE DEF n, f
<1>4. f[0] = NoTime /\ \A k \in 1..n : f[k] = EarlierTime(f[k - 1], times[k])
    BY <1>1, <1>2 DEF TimesLoop
<1> DEFINE Least(k) ==
        /\ f[k] \in {times[j] : j \in 1..k}
        /\ \A j \in 1..k : f[k] <= times[j]
<1> DEFINE T == {k \in 1..n : ~Least(k)}
<1>5. T = {}
    <2> SUFFICES ASSUME T # {} PROVE FALSE
        OBVIOUS
    <2>1. PICK k \in T : \A j \in T : k <= j
        <3>1. T \subseteq Nat
            BY <1>1
        <3> QED
            BY <3>1, Smallest, Zenon
    <2>2. k \in 1..n /\ ~Least(k)
        OBVIOUS
    <2>3. CASE k = 1
        BY <1>1, <1>4, <2>2, <2>3 DEF EarlierTime, NoTime
    <2>4. CASE k # 1
        <3>1. k - 1 \in 1..n /\ Least(k - 1) /\ 1..k = 1..(k - 1) \cup {k}
            <4>1. k - 1 \in 1..n /\ 1..k = 1..(k - 1) \cup {k} /\ ~(k <= k - 1)
                BY <1>1, <2>2, <2>4
            <4>2. k - 1 \notin T
                BY <2>1, <4>1, Zenon
            <4> QED
                BY <4>1, <4>2, Zenon
        <3>2. f[k - 1] \in Nat /\ times[k] \in Nat
            BY <1>1, <2>2, <3>1
        <3>3. f[k] = IF f[k - 1] > times[k] THEN times[k] ELSE f[k - 1]
            <4>1. f[k] = EarlierTime(f[k - 1], times[k])
                BY <1>4, <2>2, Zenon
            <4>2. f[k - 1] # NoTime
                BY <3>2 DEF NoTime
            <4> QED
                BY <4>1, <4>2, Zenon DEF EarlierTime
        <3>4. \A j \in 1..(k - 1) : times[j] \in Nat /\ f[k - 1] <= times[j]
            BY <1>1, <3>1
        <3>5. f[k] \in {times[j] : j \in 1..k}
            BY <3>1, <3>3
        <3>6. f[k] <= times[k] /\ \A j \in 1..(k - 1) : f[k] <= times[j]
            <4>1. f[k] \in Nat /\ f[k] <= times[k] /\ f[k] <= f[k - 1]
                BY <3>2, <3>3
            <4> HIDE DEF Least, T
            <4>2. ASSUME NEW j \in 1..(k - 1) PROVE f[k] <= times[j]
                <5>1. times[j] \in Nat /\ f[k - 1] <= times[j]
                    BY <3>4
                <5> QED
                    BY <3>2, <4>1, <5>1
            <4> QED
                BY <4>1, <4>2
        <3>7. \A j \in 1..k : f[k] <= times[j]
            BY <3>1, <3>6, Zenon
        <3> QED
            BY <2>2, <3>5, <3>7
    <2> QED
        BY <2>3, <2>4
<1>6. CASE n = 0
    BY <1>1, <1>3, <1>4, <1>6
<1>7. CASE n # 0
    <2> DEFINE S == Store!ToSet(times)
    <2>1. S = {times[j] : j \in 1..n}
        BY <1>1 DEF Store!ToSet
    <2>2. n \in 1..n /\ Least(n)
        BY <1>1, <1>5, <1>7
    <2>3. f[n] \in S /\ \A t \in S : f[n] <= t
        BY <2>1, <2>2
    <2>4. S \subseteq Nat /\ S # {}
        BY <1>1, <2>1, <2>3
    <2>5. Store!Min(S) \in S /\ \A t \in S : Store!Min(S) <= t
        BY <2>4, MinIsLeast, Zenon
    <2> HIDE DEF S
    <2>6. f[n] = Store!Min(S) /\ f[n] # NoTime
        <3>1. f[n] \in Nat /\ Store!Min(S) \in Nat
            BY <2>3, <2>4, <2>5
        <3>2. f[n] <= Store!Min(S) /\ Store!Min(S) <= f[n]
            BY <2>3, <2>5
        <3> QED
            BY <3>1, <3>2 DEF NoTime
    <2> QED
        BY <1>1, <1>3, <1>7, <2>6 DEF S
<1> QED
    BY <1>6, <1>7

-----------------------------------------------------------------------------
(* What a reader has looked up.                                            *)

\* Whatever its elements are, q is a sequence.
IsSequence(q) == \E n \in Nat : DOMAIN q = 1..n /\ q = [k \in 1..n |-> q[k]]

LEMMA AppendToSequence ==
    ASSUME NEW q, IsSequence(q), NEW x
    PROVE  /\ Len(q) \in Nat
           /\ IsSequence(Append(q, x))
           /\ Len(Append(q, x)) = Len(q) + 1
           /\ Append(q, x)[Len(q) + 1] = x
           /\ \A k \in 1..Len(q) : Append(q, x)[k] = q[k]
<1> DEFINE S == {q[k] : k \in DOMAIN q} \cup {x}
<1>1. q \in Seq(S)
    BY DEF IsSequence
<1>2. Append(q, x) \in Seq(S)
    BY <1>1
<1>3. /\ Len(q) \in Nat
      /\ Len(Append(q, x)) = Len(q) + 1
      /\ Append(q, x)[Len(q) + 1] = x
      /\ \A k \in 1..Len(q) : Append(q, x)[k] = q[k]
    BY <1>1
<1>4. \A s \in Seq(S) : Len(s) \in Nat /\ s \in [1..Len(s) -> S]
    OBVIOUS
<1>5. IsSequence(Append(q, x))
    BY <1>2, <1>4 DEF IsSequence
<1> QED
    BY <1>3, <1>5

\* A reader starts with nothing looked up, and inside the lock what it looked
\* up is what the store still holds, because nobody is storing.
ReaderInv ==
    /\ reader \in [Readers -> {"idle", "rlock", "blocked", "reading", "answered"}]
    /\ request \in [Readers -> Requests]
    /\ DOMAIN result = Readers
    /\ \A r \in Readers :
          /\ IsSequence(result[r])
          /\ reader[r] \in {"rlock", "blocked"} => result[r] = <<>>
    /\ NoTornRead

LEMMA EmptyIsSequence == IsSequence(<<>>) /\ Len(<<>>) = 0
BY DEF IsSequence

LEMMA ReaderAlways == Spec => []ReaderInv
<1>1. Init => ReaderInv
    <2> SUFFICES ASSUME Init PROVE ReaderInv
        OBVIOUS
    <2>1. \A r \in Readers : result[r] = <<>> /\ reader[r] = "idle"
        BY DEF Init
    <2> QED
        BY <2>1, EmptyIsSequence DEF Init, ReaderInv, NoTornRead
<1>2. ReaderInv /\ [Next]_vars => ReaderInv'
    <2> SUFFICES ASSUME ReaderInv, [Next]_vars PROVE ReaderInv'
        OBVIOUS
    <2> USE DEF ReaderInv
    <2>1. ASSUME NEW batch \in Batches, Receive(batch) PROVE ReaderInv'
        BY <2>1 DEF Receive, NoTornRead, Lookup, LookupNode, LookupPod
    <2>2. CASE LockAsk
        BY <2>2 DEF LockAsk, NoTornRead, Lookup, LookupNode, LookupPod
    <2>3. CASE LockGet
        BY <2>3 DEF LockGet, ReadersInside, NoTornRead
    <2>4. CASE StoreNodes \/ StorePods
        <3>1. \A r \in Readers : reader[r] # "reading"
            BY <2>4 DEF StoreNodes, StorePods, NoTornRead
        <3>2. UNCHANGED <<reader, request, result>>
            BY <2>4 DEF StoreNodes, StorePods
        <3> QED
            BY <3>1, <3>2 DEF NoTornRead
    <2>5. CASE Unlock
        <3>1. UNCHANGED <<request, result>> /\ writer' = "idle"
            BY <2>5 DEF Unlock
        <3>2. \A r \in Readers :
                  /\ reader[r] # "reading"
                  /\ reader'[r] = "reading" => reader[r] = "blocked"
                  /\ reader'[r] # "blocked"
                  /\ reader'[r] = "rlock" => reader[r] = "rlock"
            BY <2>5 DEF Unlock, NoTornRead
        <3>3. reader' \in
                  [Readers -> {"idle", "rlock", "blocked", "reading", "answered"}]
            BY <2>5 DEF Unlock
        <3>4. \A r \in Readers : reader'[r] = "reading" => Len(result'[r]) = 0
            BY <3>1, <3>2, EmptyIsSequence
        <3>5. NoTornRead'
            BY <3>1, <3>4 DEF NoTornRead
        <3> QED
            BY <3>1, <3>2, <3>3, <3>5
    <2>6. ASSUME NEW r \in Readers, NEW req \in Requests, Call(r, req)
          PROVE  ReaderInv'
        BY <2>6, EmptyIsSequence
        DEF Call, NoTornRead, Lookup, LookupNode, LookupPod
    <2>7. ASSUME NEW r \in Readers, RLock(r) PROVE ReaderInv'
        BY <2>7, EmptyIsSequence
        DEF RLock, WriterPending, NoTornRead, Lookup, LookupNode, LookupPod
    <2>8. ASSUME NEW r \in Readers, ReadNext(r) PROVE ReaderInv'
        <3> DEFINE n == request[r].names[Len(result[r]) + 1]
                   found == Lookup(request[r].kind, n)
        <3>1. /\ result' = [result EXCEPT ![r] = Append(@, found)]
              /\ UNCHANGED <<nodes, pods, writer, reader, request>>
              /\ reader[r] = "reading"
            BY <2>8 DEF ReadNext
        <3>2. /\ result'[r] = Append(result[r], found)
              /\ \A t \in Readers \ {r} : result'[t] = result[t]
              /\ DOMAIN result' = Readers
            BY <3>1
        <3>3. /\ Len(result[r]) \in Nat
              /\ IsSequence(result'[r])
              /\ Len(result'[r]) = Len(result[r]) + 1
              /\ result'[r][Len(result[r]) + 1] = found
              /\ \A k \in 1..Len(result[r]) : result'[r][k] = result[r][k]
            BY <3>2, AppendToSequence
        <3>4. \A kind, name : Lookup(kind, name)' = Lookup(kind, name)
            BY <3>1 DEF Lookup, LookupNode, LookupPod
        <3>5. \A k \in 1..Len(result'[r]) :
                  result'[r][k] = Lookup(request[r].kind, request[r].names[k])
            BY <3>1, <3>3 DEF NoTornRead
        <3>6. NoTornRead'
            BY <3>1, <3>2, <3>4, <3>5 DEF NoTornRead
        <3>7. \A t \in Readers : IsSequence(result'[t])
            BY <3>2, <3>3
        <3>8. \A t \in Readers : reader'[t] \in {"rlock", "blocked"} => result'[t] = <<>>
            BY <3>1, <3>2
        <3> QED
            BY <3>1, <3>2, <3>6, <3>7, <3>8
    <2>9. ASSUME NEW r \in Readers, Answer(r) \/ Taken(r) PROVE ReaderInv'
        <3>1. /\ UNCHANGED <<nodes, pods, writer, request, result>>
              /\ \E to \in {"answered", "idle"} :
                    reader' = [reader EXCEPT ![r] = to]
            BY <2>9 DEF Answer, Taken
        <3>2. \A t \in Readers : reader'[t] = reader[t] \/ reader'[t] \in {"answered", "idle"}
            BY <3>1
        <3>3. NoTornRead'
            BY <3>1, <3>2 DEF NoTornRead, Lookup, LookupNode, LookupPod
        <3> QED
            BY <3>1, <3>2, <3>3
    <2>10. CASE UNCHANGED vars
        BY <2>10 DEF vars, NoTornRead, Lookup, LookupNode, LookupPod
    <2> QED
        BY <2>1, <2>2, <2>3, <2>4, <2>5, <2>6, <2>7, <2>8, <2>9, <2>10
        DEF Next, ReceiveStep, ReaderStep
<1> QED
    BY <1>1, <1>2, PTL DEF Spec

\* No answer mixes two cycles, however requests and Receive interleave
\* (pkg/provider/sink/sinkprov.go, lines 55-75, 81-117, 141-145).
THEOREM NoReadIsTorn == Spec => []NoTornRead
<1>1. ReaderInv => NoTornRead
    BY DEF ReaderInv
<1> QED
    BY <1>1, ReaderAlways, PTL

-----------------------------------------------------------------------------
(* What Receive has built and stored.                                      *)

PodsTyped(m) == \A p \in DOMAIN m : m[p].times \in Seq(Nat)

\* Receive's locals are the maps of one batch, and every pod's times are times.
WriterInv ==
    /\ IsPointMap(nodes) /\ IsPointMap(pods)
    /\ IsPointMap(newNodes) /\ IsPointMap(newPods)
    /\ PodsTyped(pods) /\ PodsTyped(newPods)
    /\ writer \in {"idle", "built", "locking", "storeNodes", "storePods", "unlock"}
    /\ writer # "idle" =>
          \E batch \in Batches : /\ newNodes = Store!FirstOf(batch.nodes)
                                 /\ newPods = Store!FirstOf(batch.pods)
    /\ writer = "unlock" => pods = newPods

LEMMA NothingIsMap == IsPointMap(<<>>) /\ PodsTyped(<<>>)
BY DEF IsPointMap, PodsTyped

PodPointType == [name : Names, times : Seq(Nat)]

LEMMA PodsOfBatch ==
    ASSUME NEW list \in Seq(PodPointType)
    PROVE  PodsTyped(BuildMap(list))
<1> DEFINE n == Len(list)
           m == BuildMap(list)
<1>1. /\ n \in Nat
      /\ \A i \in 1..n : list[i] \in PodPointType
    OBVIOUS
<1>2. FirstPoints(m, list, n)
    BY <1>1, BuildMapIsFirst
<1> HIDE DEF n, m
<1> SUFFICES ASSUME NEW x \in DOMAIN m PROVE m[x].times \in Seq(Nat)
    BY DEF PodsTyped, m
<1> DEFINE I == {i \in 1..n : list[i].name = x}
<1>3. I \subseteq Nat /\ I # {}
    BY <1>1, <1>2 DEF FirstPoints
<1>4. PICK i \in I : \A j \in I : i <= j
    BY <1>3, Smallest
<1>5. i \in 1..n /\ list[i].name = x /\ \A j \in 1..(i - 1) : list[j].name # x
    BY <1>1, <1>4
<1>6. m[x] = list[i]
    BY <1>2, <1>5 DEF FirstPoints
<1> QED
    BY <1>1, <1>5, <1>6 DEF PodPointType

LEMMA WriterAlways == Spec => []WriterInv
<1>1. Init => WriterInv
    BY NothingIsMap DEF Init, WriterInv
<1>2. WriterInv /\ [Next]_vars => WriterInv'
    <2> SUFFICES ASSUME WriterInv, [Next]_vars PROVE WriterInv'
        OBVIOUS
    <2> USE DEF WriterInv
    <2>1. ASSUME NEW batch \in Batches, Receive(batch) PROVE WriterInv'
        <3>1. /\ newNodes' = BuildMap(batch.nodes) /\ newPods' = BuildMap(batch.pods)
              /\ UNCHANGED <<nodes, pods>> /\ writer' = "built"
            BY <2>1 DEF Receive
        <3>2. /\ batch.nodes \in Seq([name : Names, time : Nat])
              /\ batch.pods \in Seq([name : Names, times : Seq(Nat)])
            BY BatchesAssumption
        <3>3. /\ newNodes' = Store!FirstOf(batch.nodes) /\ IsPointMap(newNodes')
              /\ newPods' = Store!FirstOf(batch.pods) /\ IsPointMap(newPods')
            BY <3>1, <3>2, BuildMapIsFirstOf
        <3>4. PodsTyped(newPods')
            BY <3>1, <3>2, PodsOfBatch DEF PodPointType
        <3> QED
            BY <3>1, <3>3, <3>4 DEF IsPointMap, PodsTyped
    <2>2. CASE LockAsk \/ LockGet
        BY <2>2 DEF LockAsk, LockGet, IsPointMap, PodsTyped
    <2>3. CASE StoreNodes
        BY <2>3 DEF StoreNodes, IsPointMap, PodsTyped
    <2>4. CASE StorePods
        BY <2>4 DEF StorePods, IsPointMap, PodsTyped
    <2>5. CASE Unlock
        BY <2>5, NothingIsMap DEF Unlock, IsPointMap, PodsTyped
    <2>6. ASSUME NEW r \in Readers, ReaderStep(r) \/ \E req \in Requests : Call(r, req)
          PROVE  WriterInv'
        <3>1. UNCHANGED <<nodes, pods, writer, newNodes, newPods>>
            BY <2>6 DEF ReaderStep, Call, RLock, ReadNext, Answer, Taken
        <3> QED
            BY <3>1 DEF IsPointMap, PodsTyped
    <2>7. CASE UNCHANGED vars
        BY <2>7 DEF vars, IsPointMap, PodsTyped
    <2> QED
        BY <2>1, <2>2, <2>3, <2>4, <2>5, <2>6, <2>7 DEF Next, ReceiveStep
<1> QED
    BY <1>1, <1>2, PTL DEF Spec

\* No reader looks up more names than it was asked for.
LookupsBounded == \A r \in Readers : Len(result[r]) <= Len(request[r].names)

LEMMA LookupsAlwaysBounded == Spec => []LookupsBounded
<1>1. Init => LookupsBounded
    <2> SUFFICES ASSUME Init, NEW r \in Readers
                 PROVE  Len(result[r]) <= Len(request[r].names)
        BY DEF LookupsBounded
    <2>1. request[r].names \in Seq(Names) /\ result[r] = <<>>
        BY RequestsAssumption DEF Init
    <2> QED
        BY <2>1
<1>2. ReaderInv /\ LookupsBounded /\ [Next]_vars => LookupsBounded'
    <2> SUFFICES ASSUME ReaderInv, LookupsBounded, [Next]_vars PROVE LookupsBounded'
        OBVIOUS
    <2>1. ASSUME NEW r \in Readers, NEW req \in Requests, Call(r, req)
          PROVE  LookupsBounded'
        <3>1. req.names \in Seq(Names)
            BY RequestsAssumption
        <3>2. /\ result' = [result EXCEPT ![r] = <<>>]
              /\ request' = [request EXCEPT ![r] = req]
            BY <2>1 DEF Call
        <3>3. Len(<<>>) <= Len(req.names)
            BY <3>1
        <3> QED
            BY <3>2, <3>3 DEF LookupsBounded, ReaderInv
    <2>2. ASSUME NEW r \in Readers, ReadNext(r) PROVE LookupsBounded'
        <3>1. PICK found : result' = [result EXCEPT ![r] = Append(@, found)]
            BY <2>2 DEF ReadNext
        <3>2. request' = request /\ Len(result[r]) < Len(request[r].names)
            BY <2>2 DEF ReadNext
        <3>3. /\ result'[r] = Append(result[r], found)
              /\ \A t \in Readers \ {r} : result'[t] = result[t]
            BY <3>1 DEF ReaderInv
        <3>4. Len(result'[r]) = Len(result[r]) + 1 /\ Len(result[r]) \in Nat
            BY <3>3, AppendToSequence DEF ReaderInv
        <3>5. request[r].names \in Seq(Names)
            BY RequestsAssumption DEF ReaderInv
        <3>6. Len(result'[r]) <= Len(request[r].names)
            BY <3>2, <3>4, <3>5
        <3> QED
            BY <3>2, <3>3, <3>6 DEF LookupsBounded
    <2>3. CASE UNCHANGED <<request, result>>
        BY <2>3 DEF LookupsBounded
    <2>4. ASSUME NEW r \in Readers, RLock(r) \/ Answer(r) \/ Taken(r)
          PROVE  UNCHANGED <<request, result>>
        BY <2>4 DEF RLock, Answer, Taken
    <2>5. ASSUME NEW batch \in Batches, Receive(batch) PROVE UNCHANGED <<request, result>>
        BY <2>5 DEF Receive
    <2>6. CASE ReceiveStep
        BY <2>3, <2>6 DEF ReceiveStep, LockAsk, LockGet, StoreNodes, StorePods, Unlock
    <2>7. CASE UNCHANGED vars
        BY <2>3, <2>7 DEF vars
    <2> QED
        BY <2>1, <2>2, <2>3, <2>4, <2>5, <2>6, <2>7 DEF Next, ReaderStep
<1> QED
    BY <1>1, <1>2, ReaderAlways, PTL DEF Spec

\* What is stored under a name is a point of that name, and no reader looks up
\* more than it was asked for (pkg/provider/sink/sinkprov.go).
THEOREM TypeCorrect == Spec => []TypeOK
<1>1. WriterInv /\ ReaderInv /\ LookupsBounded => TypeOK
    BY DEF WriterInv, ReaderInv, LookupsBounded, TypeOK
<1> QED
    BY <1>1, WriterAlways, ReaderAlways, LookupsAlwaysBounded, PTL

-----------------------------------------------------------------------------
(* The store implements SnapshotStore.                                     *)

\* One lookup is what SnapshotStore says of one name.
LEMMA LookupIsAnswer ==
    ASSUME WriterInv, ReaderInv, writer # "storePods",
           NEW req \in Requests, NEW k \in DOMAIN req.names
    PROVE  Store!AnswerTo(req)[k] = Lookup(req.kind, req.names[k])
<1> DEFINE n == req.names[k]
<1>1. req.kind \in {"nodes", "pods"}
    BY RequestsAssumption
<1>2. ASSUME n \in DOMAIN pods
      PROVE  EarliestTime(pods[n].times) = Store!PodInfo(pods[n]).time
    BY <1>2, EarliestTimeIsMin DEF WriterInv, PodsTyped, Store!PodInfo, ZeroTime, Store!ZeroTime
<1>3. CASE req.kind = "nodes"
    BY <1>3 DEF Store!AnswerTo, Store!NodeInfo, Store!NoMetrics, Lookup, LookupNode, NoMetrics
<1>4. CASE req.kind = "pods"
    BY <1>2, <1>4 DEF Store!AnswerTo, Store!PodInfo, Store!NoMetrics, Lookup, LookupPod, NoMetrics
<1> QED
    BY <1>1, <1>3, <1>4

LEMMA AnswerIsSnapshot ==
    ASSUME WriterInv, ReaderInv, LookupsBounded,
           NEW r \in Readers, reader[r] = "reading",
           Len(result[r]) = Len(request[r].names)
    PROVE  result[r] = Store!AnswerTo(request[r])
<1> DEFINE q == result[r]
           req == request[r]
<1>1. req \in Requests /\ req.names \in Seq(Names)
    BY RequestsAssumption DEF ReaderInv
<1>2. IsSequence(q) /\ Len(q) = Len(req.names)
    BY DEF ReaderInv
<1>3. DOMAIN q = DOMAIN req.names /\ q = [k \in DOMAIN req.names |-> q[k]]
      /\ DOMAIN req.names = 1..Len(q)
    <2>1. PICK n \in Nat : DOMAIN q = 1..n /\ q = [k \in 1..n |-> q[k]]
        BY <1>2, Zenon DEF IsSequence
    <2>2. Len(q) = n
        <3>1. q \in Seq({q[k] : k \in 1..n})
            BY <2>1
        <3> QED
            BY <2>1, <3>1
    <2>3. DOMAIN req.names = 1..Len(req.names)
        BY <1>1
    <2> QED
        BY <1>2, <2>1, <2>2, <2>3
<1>4. /\ writer # "storePods"
      /\ \A k \in 1..Len(q) : q[k] = Lookup(req.kind, req.names[k])
    BY DEF ReaderInv, NoTornRead
<1>5. \A k \in DOMAIN req.names : q[k] = Store!AnswerTo(req)[k]
    BY <1>1, <1>3, <1>4, LookupIsAnswer
<1>6. Store!AnswerTo(req) = [k \in DOMAIN req.names |-> Store!AnswerTo(req)[k]]
    BY DEF Store!AnswerTo
<1> HIDE DEF q, req
<1>7. q = Store!AnswerTo(req)
    BY <1>3, <1>5, <1>6
<1> QED
    BY <1>7 DEF q, req

\* The answers as SnapshotStore sees them.
AnswerOf(t) ==
    IF reader[t] = "answered" THEN {[request |-> request[t], told |-> result[t]]}
    ELSE {}
StoredPods == IF writer = "storePods" THEN newPods ELSE pods

\* A step that changes neither what is stored nor what is answered.
Unseen == UNCHANGED <<nodes, StoredPods, [t \in Readers |-> AnswerOf(t)]>>

LEMMA UnseenIsStutter == Unseen => UNCHANGED Store!vars
BY DEF Unseen, StoredPods, AnswerOf, Store!vars

\* sinkMetricsProvider keeps the promise its readers rely on: a batch is
\* published, and a request answered, as if in one step each (pkg/provider/
\* sink/sinkprov.go).
THEOREM Implements == Spec => ImplementsSnapshotStore
<1>1. Init => Store!Init
    BY DEF Init, Store!Init
<1>2. WriterInv /\ ReaderInv /\ LookupsBounded /\ [Next]_vars
        => [Store!Next]_(Store!vars)
    <2> SUFFICES ASSUME WriterInv, ReaderInv, LookupsBounded, [Next]_vars
                 PROVE  Store!Next \/ Unseen
        BY UnseenIsStutter, Zenon
    <2>1. ASSUME NEW batch \in Batches, Receive(batch) PROVE Unseen
        BY <2>1 DEF Receive, Unseen, StoredPods, AnswerOf
    <2>2. CASE LockAsk \/ LockGet
        BY <2>2 DEF LockAsk, LockGet, Unseen, StoredPods, AnswerOf
    <2>3. CASE StoreNodes
        <3>1. PICK batch \in Batches : /\ newNodes = Store!FirstOf(batch.nodes)
                                       /\ newPods = Store!FirstOf(batch.pods)
            BY <2>3 DEF StoreNodes, WriterInv
        <3>2. /\ nodes' = newNodes /\ StoredPods' = newPods
              /\ UNCHANGED <<reader, request, result>>
            BY <2>3 DEF StoreNodes, StoredPods
        <3>3. Store!Publish(batch)
            BY <3>1, <3>2 DEF Store!Publish, StoredPods, Store!FirstOf, Store!PointNames
        <3> QED
            BY <3>3 DEF Store!Next
    <2>4. CASE StorePods
        BY <2>4 DEF StorePods, Unseen, StoredPods, AnswerOf
    <2>5. CASE Unlock
        <3>1. \A t \in Readers : reader'[t] = "answered" <=> reader[t] = "answered"
            BY <2>5 DEF Unlock
        <3> QED
            BY <2>5, <3>1 DEF Unlock, Unseen, StoredPods, AnswerOf
    <2>6. ASSUME NEW r \in Readers, NEW req \in Requests, Call(r, req) PROVE Unseen
        <3>1. \A t \in Readers : AnswerOf(t)' = AnswerOf(t)
            BY <2>6 DEF Call, AnswerOf, ReaderInv
        <3> QED
            BY <2>6, <3>1 DEF Call, Unseen, StoredPods
    <2>7. ASSUME NEW r \in Readers, RLock(r) \/ ReadNext(r) PROVE Unseen
        <3>1. \A t \in Readers : AnswerOf(t)' = AnswerOf(t)
            BY <2>7 DEF RLock, ReadNext, AnswerOf, ReaderInv
        <3> QED
            BY <2>7, <3>1 DEF RLock, ReadNext, Unseen, StoredPods
    <2>8. ASSUME NEW r \in Readers, Answer(r) PROVE Store!Respond(r)
        <3> DEFINE told == [request |-> request[r], told |-> result[r]]
                   before == [t \in Readers |-> AnswerOf(t)]
        <3>1. /\ reader[r] = "reading" /\ Len(result[r]) = Len(request[r].names)
              /\ reader' = [reader EXCEPT ![r] = "answered"]
              /\ UNCHANGED <<nodes, pods, writer, newPods, request, result>>
            BY <2>8 DEF Answer
        <3>2. result[r] = Store!AnswerTo(request[r]) /\ request[r] \in Requests
            BY <3>1, AnswerIsSnapshot DEF ReaderInv
        <3>3. AnswerOf(r) = {} /\ AnswerOf(r)' = {told}
            BY <3>1 DEF AnswerOf, ReaderInv
        <3>4. \A t \in Readers \ {r} : AnswerOf(t)' = AnswerOf(t)
            BY <3>1 DEF AnswerOf, ReaderInv
        <3>5. before' = [before EXCEPT ![r] = {told}]
            BY <3>3, <3>4
        <3>6. before[r] = {} /\ UNCHANGED <<nodes, StoredPods>>
            BY <3>1, <3>3 DEF StoredPods
        <3>7. /\ before[r] = {}
              /\ \E req \in Requests :
                    before' = [before EXCEPT ![r] =
                                  {[request |-> req, told |-> Store!AnswerTo(req)]}]
              /\ UNCHANGED <<nodes, StoredPods>>
            BY <3>2, <3>5, <3>6
        <3> QED
            BY <3>7, Zenon DEF Store!Respond, AnswerOf, StoredPods
    <2>9. ASSUME NEW r \in Readers, Taken(r) PROVE Store!Forget(r)
        <3> DEFINE before == [t \in Readers |-> AnswerOf(t)]
        <3>1. /\ reader[r] = "answered" /\ reader' = [reader EXCEPT ![r] = "idle"]
              /\ UNCHANGED <<nodes, pods, writer, newPods, request, result>>
            BY <2>9 DEF Taken
        <3>2. AnswerOf(r) # {} /\ AnswerOf(r)' = {}
            BY <3>1 DEF AnswerOf, ReaderInv
        <3>3. \A t \in Readers \ {r} : AnswerOf(t)' = AnswerOf(t)
            BY <3>1 DEF AnswerOf, ReaderInv
        <3>4. before' = [before EXCEPT ![r] = {}]
            BY <3>2, <3>3
        <3>5. before[r] # {} /\ UNCHANGED <<nodes, StoredPods>>
            BY <3>1, <3>2 DEF StoredPods
        <3>6. /\ before[r] # {}
              /\ before' = [before EXCEPT ![r] = {}]
              /\ UNCHANGED <<nodes, StoredPods>>
            BY <3>4, <3>5
        <3> QED
            BY <3>6, Zenon DEF Store!Forget, AnswerOf, StoredPods
    <2>10. CASE UNCHANGED vars
        BY <2>10 DEF vars, Unseen, StoredPods, AnswerOf
    <2> QED
        BY <2>1, <2>2, <2>3, <2>4, <2>5, <2>6, <2>7, <2>8, <2>9, <2>10
        DEF Next, ReceiveStep, ReaderStep, Store!Next
<1> QED
    BY <1>1, <1>2, WriterAlways, ReaderAlways, LookupsAlwaysBounded, PTL
    DEF Spec, ImplementsSnapshotStore, Store!Spec

-----------------------------------------------------------------------------
(* Progress: what ReceiveCompletes and ReadCompletes rest on besides the   *)
(* fairness.                                                               *)

\* Whoever is blocked waits for a writer that will wake it.
BlockedBehindWriter == \A r \in Readers : reader[r] = "blocked" => WriterPending

\* No reader is left waiting for a lock that nobody holds or asks for: every
\* one that queued behind Receive is let in when it unlocks (lines 56, 82, 141).
THEOREM NobodyForgotten == Spec => []BlockedBehindWriter
<1>1. Init => BlockedBehindWriter
    BY DEF Init, BlockedBehindWriter
<1>2. ReaderInv /\ WriterInv /\ BlockedBehindWriter /\ [Next]_vars => BlockedBehindWriter'
    <2> SUFFICES ASSUME ReaderInv, WriterInv, BlockedBehindWriter, [Next]_vars,
                        NEW t \in Readers, reader'[t] = "blocked"
                 PROVE  WriterPending'
        BY DEF BlockedBehindWriter
    <2> USE DEF WriterPending
    <2>1. ASSUME NEW batch \in Batches, Receive(batch) PROVE WriterPending'
        BY <2>1 DEF Receive, BlockedBehindWriter
    <2>2. CASE LockAsk \/ LockGet \/ StoreNodes \/ StorePods
        BY <2>2 DEF LockAsk, LockGet, StoreNodes, StorePods
    <2>3. CASE Unlock
        BY <2>3 DEF Unlock
    <2>4. ASSUME NEW r \in Readers, RLock(r) PROVE WriterPending'
        <3>1. /\ reader' = [reader EXCEPT ![r] = IF WriterPending THEN "blocked" ELSE "reading"]
              /\ writer' = writer
            BY <2>4 DEF RLock
        <3>2. CASE t = r
            BY <3>1, <3>2 DEF ReaderInv
        <3>3. CASE t # r
            BY <3>1, <3>3 DEF ReaderInv, BlockedBehindWriter
        <3> QED
            BY <3>2, <3>3
    <2>5. ASSUME NEW r \in Readers,
                 ReadNext(r) \/ Answer(r) \/ Taken(r) \/ \E req \in Requests : Call(r, req)
          PROVE  WriterPending'
        <3>1. writer' = writer
            BY <2>5 DEF ReadNext, Answer, Taken, Call
        <3>2. reader' = reader \/ \E to \in {"answered", "idle", "rlock"} :
                                     reader' = [reader EXCEPT ![r] = to]
            BY <2>5 DEF ReadNext, Answer, Taken, Call
        <3>3. reader[t] = "blocked"
            BY <3>2 DEF ReaderInv
        <3> QED
            BY <3>1, <3>3 DEF BlockedBehindWriter
    <2>6. CASE UNCHANGED vars
        BY <2>6 DEF vars, BlockedBehindWriter
    <2> QED
        BY <2>1, <2>2, <2>3, <2>4, <2>5, <2>6 DEF Next, ReceiveStep, ReaderStep
<1> QED
    BY <1>1, <1>2, ReaderAlways, WriterAlways, PTL DEF Spec

\* The guards of Receive's steps and of a reader's.
WriterCan ==
    \/ writer \in {"built", "storeNodes", "storePods", "unlock"}
    \/ writer = "locking" /\ ReadersInside = {}
ReaderCan(r) ==
    \/ reader[r] \in {"rlock", "answered"}
    \/ reader[r] = "reading" /\ Len(result[r]) <= Len(request[r].names)
NeverStuck ==
    \/ writer = "idle" /\ \A r \in Readers : reader[r] = "idle"
    \/ WriterCan
    \/ \E r \in Readers : ReaderCan(r)

\* While a call is under way one of those under way can go on, without a new
\* call: Receive and the readers never all wait for each other.
THEOREM StoreNeverStuck == Spec => []NeverStuck
<1>1. ReaderInv /\ WriterInv /\ LookupsBounded /\ BlockedBehindWriter => NeverStuck
    <2> SUFFICES ASSUME ReaderInv, WriterInv, LookupsBounded, BlockedBehindWriter,
                        ~WriterCan, \A r \in Readers : ~ReaderCan(r)
                 PROVE  writer = "idle" /\ \A r \in Readers : reader[r] = "idle"
        BY DEF NeverStuck
    <2>1. \A r \in Readers : reader[r] \in {"idle", "blocked"}
        BY DEF ReaderInv, ReaderCan, LookupsBounded
    <2>2. ReadersInside = {}
        BY <2>1 DEF ReadersInside
    <2>3. writer = "idle"
        BY <2>2 DEF WriterInv, WriterCan
    <2>4. \A r \in Readers : reader[r] # "blocked"
        BY <2>3 DEF BlockedBehindWriter, WriterPending
    <2> QED
        BY <2>1, <2>3, <2>4
<1> QED
    BY <1>1, ReaderAlways, WriterAlways, LookupsAlwaysBounded, NobodyForgotten, PTL

\* The steps that a reader inside the lock has left in it: the names it still
\* has to look up, and its leaving.
StepsInside(r) ==
    IF reader[r] = "reading" THEN Len(request[r].names) + 1 - Len(result[r]) ELSE 0
WriterNotOvertaken ==
    [][writer = "locking" =>
          \A r \in Readers :
              /\ StepsInside(r)' <= StepsInside(r)
              /\ reader[r] = "reading" /\ ReaderStep(r) =>
                     StepsInside(r)' < StepsInside(r)]_vars

LEMMA StepsInsideType ==
    ASSUME ReaderInv, LookupsBounded, NEW r \in Readers
    PROVE  /\ Len(result[r]) \in Nat /\ Len(request[r].names) \in Nat
           /\ StepsInside(r) \in Nat
           /\ reader[r] = "reading" => StepsInside(r) > 0
<1>1. request[r].names \in Seq(Names) /\ IsSequence(result[r])
    BY RequestsAssumption DEF ReaderInv
<1>2. Len(result[r]) \in Nat /\ Len(request[r].names) \in Nat
    BY <1>1, AppendToSequence
<1>3. Len(result[r]) <= Len(request[r].names)
    BY DEF LookupsBounded
<1> DEFINE a == Len(result[r])
           b == Len(request[r].names)
<1>4. a \in Nat /\ b \in Nat /\ a <= b
    BY <1>2, <1>3
<1>5. StepsInside(r) = IF reader[r] = "reading" THEN b + 1 - a ELSE 0
    BY DEF StepsInside
<1> HIDE DEF a, b
<1>6. StepsInside(r) \in Nat /\ (reader[r] = "reading" => StepsInside(r) > 0)
    BY <1>4, <1>5
<1> QED
    BY <1>2, <1>6

LEMMA StepTowardsLeaving ==
    ASSUME ReaderInv, LookupsBounded, NEW r \in Readers,
           reader[r] = "reading", ReaderStep(r)
    PROVE  StepsInside(r)' < StepsInside(r)
<1>1. CASE ReadNext(r)
    <2>1. PICK found : result' = [result EXCEPT ![r] = Append(@, found)]
        BY <1>1 DEF ReadNext
    <2>2. result'[r] = Append(result[r], found) /\ UNCHANGED <<reader, request>>
        BY <1>1, <2>1 DEF ReadNext, ReaderInv
    <2>3. Len(result'[r]) = Len(result[r]) + 1
        BY <2>2, AppendToSequence DEF ReaderInv
    <2> DEFINE a == Len(result[r])
               b == Len(request[r].names)
    <2>4. StepsInside(r) = b + 1 - a
        BY DEF StepsInside
    <2>5. StepsInside(r)' = b + 1 - (a + 1)
        BY <2>2, <2>3 DEF StepsInside
    <2>6. a \in Nat /\ b \in Nat
        BY StepsInsideType
    <2> HIDE DEF a, b
    <2>7. b + 1 - (a + 1) < b + 1 - a
        BY <2>6
    <2> QED
        BY <2>4, <2>5, <2>7
<1>2. CASE Answer(r)
    <2>1. reader'[r] = "answered"
        BY <1>2 DEF Answer, ReaderInv
    <2>2. StepsInside(r)' = 0
        BY <2>1 DEF StepsInside
    <2> QED
        BY <2>2, StepsInsideType
<1> QED
    BY <1>1, <1>2 DEF ReaderStep, RLock, Taken

\* While Receive waits for the lock no reader gets in before it, and every step
\* of one that is inside brings it nearer to leaving: Receive waits for at most
\* the lookups that were under way when it asked (lines 56-72, 82-114, 141).
THEOREM NobodyOvertakesReceive == Spec => WriterNotOvertaken
<1>1. ReaderInv /\ LookupsBounded /\ [Next]_vars =>
          [writer = "locking" =>
              \A r \in Readers :
                  /\ StepsInside(r)' <= StepsInside(r)
                  /\ reader[r] = "reading" /\ ReaderStep(r) =>
                         StepsInside(r)' < StepsInside(r)]_vars
    <2> SUFFICES ASSUME ReaderInv, LookupsBounded, Next, writer = "locking",
                        NEW t \in Readers
                 PROVE  StepsInside(t)' <= StepsInside(t)
        BY StepTowardsLeaving
    <2>1. StepsInside(t) \in Nat
        BY StepsInsideType
    <2>2. CASE ReceiveStep \/ \E batch \in Batches : Receive(batch)
        <3>1. UNCHANGED <<reader, request, result>>
            BY <2>2 DEF ReceiveStep, Receive, LockAsk, LockGet, StoreNodes, StorePods, Unlock
        <3>2. StepsInside(t)' = StepsInside(t)
            BY <3>1 DEF StepsInside
        <3> QED
            BY <2>1, <3>2
    <2>3. CASE reader[t] = "reading" /\ ReaderStep(t)
        <3>1. StepsInside(t)' < StepsInside(t)
            BY <2>3, StepTowardsLeaving
        <3>2. StepsInside(t)' \in Int
            <4>1. CASE ReadNext(t)
                <5>1. UNCHANGED <<reader, request>>
                    BY <4>1 DEF ReadNext
                <5>2. Len(result'[t]) \in Nat
                    BY <4>1, AppendToSequence DEF ReadNext, ReaderInv
                <5> QED
                    BY <5>1, <5>2, StepsInsideType DEF StepsInside
            <4>2. CASE Answer(t)
                BY <4>2 DEF Answer, ReaderInv, StepsInside
            <4> QED
                BY <2>3, <4>1, <4>2 DEF ReaderStep, RLock, Taken
        <3> QED
            BY <2>1, <3>1, <3>2
    <2>4. ASSUME NEW r \in Readers,
                 ReaderStep(r) \/ \E req \in Requests : Call(r, req),
                 r # t \/ reader[t] # "reading"
          PROVE  StepsInside(t)' <= StepsInside(t)
        <3>1. CASE r = t
            <4>1. reader'[t] # "reading"
                BY <2>4, <3>1
                DEF ReaderStep, RLock, ReadNext, Answer, Taken, Call, WriterPending, ReaderInv
            <4> QED
                BY <2>1, <4>1 DEF StepsInside
        <3>2. CASE r # t
            <4>1. /\ reader'[t] = reader[t] /\ request'[t] = request[t]
                  /\ result'[t] = result[t]
                BY <2>4, <3>2
                DEF ReaderStep, RLock, ReadNext, Answer, Taken, Call, ReaderInv
            <4>2. StepsInside(t)' = StepsInside(t)
                BY <4>1 DEF StepsInside
            <4> QED
                BY <2>1, <4>2
        <3> QED
            BY <3>1, <3>2
    <2>5. CASE reader[t] = "reading" /\ \E req \in Requests : Call(t, req)
        BY <2>5 DEF Call
    <2> QED
        BY <2>2, <2>3, <2>4, <2>5 DEF Next
<1> QED
    BY <1>1, ReaderAlways, LookupsAlwaysBounded, PTL DEF Spec, WriterNotOvertaken
=============================================================================
