--------------------------- MODULE RestStorageProof ---------------------------
(***************************************************************************)
(* Proofs about RestStorage, for any number of requests at a time, any     *)
(* nodes, pods and batches, and calls of any length.                       *)
(***************************************************************************)
EXTENDS RestStorage, FiniteSetTheorems, SequenceTheorems, WellFoundedInduction, TLAPS

-----------------------------------------------------------------------------
(* The inductive invariant.                                                *)

ObjectType == [name : NodeNames \cup PodNames, phase : Phases \cup {"none"}]

\* What q is to find in the cache c, the pods that do not run included.
Found(q, c) ==
    (IF q.kind = "pods" THEN DOMAIN c
     ELSE IF q.verb = "list" THEN c ELSE q.labels) \cap q.labels \cap q.fields

\* The objects are those that q finds in c, each once.
ListingOf(q, objects, c) ==
    /\ objects \in Seq(ObjectType)
    /\ \A i, j \in 1..Len(objects) : objects[i].name = objects[j].name => i = j
    /\ \A n : n \in Found(q, c) <=> \E i \in 1..Len(objects) : objects[i].name = n
    /\ \A i \in 1..Len(objects) :
          objects[i].phase = IF q.kind = "pods" THEN c[objects[i].name] ELSE "none"
    /\ q.kind = "pods" => \A i \in 1..Len(objects) : objects[i].phase \in Phases

\* What the store s tells of the names, at the index of each.
ToldOf(kind, names, s, told) ==
    /\ DOMAIN told = DOMAIN names
    /\ \A k \in DOMAIN names :
          told[k] = IF names[k] \notin DOMAIN s THEN Store!NoMetrics
                    ELSE IF kind = "nodes" THEN Store!NodeInfo(s[names[k]])
                    ELSE Store!PodInfo(s[names[k]])

ReplyIsOf(q, a, c, s) == IsInjective(a.items) /\ ToSet(a.items) = Answers(q, c, s)

ReplyShape(q, a) ==
    /\ a.status \in {"ok", "not found", "error"}
    /\ a.status # "ok" => a.items = <<>>
    /\ a.status = "ok" /\ q.verb = "get" => Len(a.items) = 1

\* Of each call: its moments include this one; what it has listed is a listing
\* of a cache, what it was told is from a store, and what it replies is of a
\* cache and a store, of its moments.
CallInv(r) ==
    /\ pc[r] # "idle" =>
          /\ CacheOf(request[r]) \in moments[r].caches
          /\ StoreOf(request[r]) \in moments[r].stores
    /\ pc[r] # "replied" => reply[r] = {}
    /\ pc[r] \in {"listed", "fetched"} =>
          \E c \in moments[r].caches : ListingOf(request[r], listed[r], c)
    /\ pc[r] = "fetched" =>
          \E s \in moments[r].stores : \A a \in answer[r] :
              ToldOf(request[r].kind, Names(listed[r]), s, a.told)
    /\ \A a \in reply[r] :
          /\ ReplyShape(request[r], a)
          /\ a.status # "error" =>
                \E c \in moments[r].caches : \E s \in moments[r].stores :
                    ReplyIsOf(request[r], a, c, s)

StateInv ==
    /\ nodeCache \subseteq NodeNames
    /\ DOMAIN podCache \subseteq PodNames
    /\ \A p \in DOMAIN podCache : podCache[p] \in Phases
    /\ pc \in [Clients -> {"idle", "called", "listed", "fetched", "replied"}]
    /\ request \in [Clients -> Requests]
    /\ DOMAIN answer = Clients /\ DOMAIN listed = Clients /\ DOMAIN reply = Clients

IInv == StateInv /\ \A r \in Clients : CallInv(r)

-----------------------------------------------------------------------------
(* The loops that skip elements.                                           *)

Smaller == {ss \in Nat \X Nat : ss[1] < ss[2]}

LEMMA SmallerWellFounded == IsWellFoundedOn(Smaller, Nat)
BY NatLessThanWellFounded, Zenon DEF Smaller, OpToRel

LEMMA Smallest ==
    ASSUME NEW T, T \subseteq Nat, T # {}
    PROVE  \E x \in T : \A y \in T : x <= y
<1>1. PICK x \in T : \A y \in T : ~(<<y, x>> \in Smaller)
    BY SmallerWellFounded, WFMin, Zenon
<1>2. ASSUME NEW y \in T, y < x
      PROVE  FALSE
    <2>1. <<y, x>> \in Nat \X Nat
        OBVIOUS
    <2>2. <<y, x>>[1] < <<y, x>>[2]
        BY <1>2
    <2>3. <<y, x>> \in Smaller
        BY <2>1, <2>2, Zenon DEF Smaller
    <2> QED
        BY <2>3, <1>1
<1> QED
    BY <1>2

\* What is left when the loop has gone through the first k elements.
LeftStep(before, seq, kept, k) == IF k \in kept THEN Append(before, seq[k]) ELSE before
Leaving(f, seq, kept, n) ==
    f = [k \in 0..n |-> IF k = 0 THEN <<>>
                        ELSE IF k \in kept THEN Append(f[k - 1], seq[k])
                        ELSE f[k - 1]]

LEMMA LeavingExists ==
    ASSUME NEW seq, NEW kept, NEW n \in Nat
    PROVE  \E f : Leaving(f, seq, kept, n)
<1> DEFINE T == {k \in Nat : ~\E f : Leaving(f, seq, kept, k)}
<1> SUFFICES ASSUME T # {} PROVE FALSE
    OBVIOUS
<1>1. PICK k \in T : \A j \in T : k <= j
    BY Smallest
<1>2. CASE k = 0
    <2> DEFINE f == [j \in 0..0 |-> <<>>]
    <2>1. f = [j \in 0..0 |-> IF j = 0 THEN <<>>
                              ELSE IF j \in kept THEN Append(f[j - 1], seq[j])
                              ELSE f[j - 1]]
        OBVIOUS
    <2>2. Leaving(f, seq, kept, 0)
        BY <2>1 DEF Leaving
    <2> QED
        BY <1>2, <2>2
<1>3. CASE k # 0
    <2>1. k \in Nat /\ k - 1 \in Nat /\ k - 1 \notin T
        BY <1>1, <1>3
    <2>2. PICK f : Leaving(f, seq, kept, k - 1)
        BY <2>1
    <2> DEFINE g == [j \in 0..k |-> IF j = k THEN LeftStep(f[k - 1], seq, kept, k) ELSE f[j]]
    <2>3. \A j \in 0..(k - 1) : g[j] = f[j]
        BY <2>1
    <2>4. \A j \in 0..(k - 1) :
             f[j] = IF j = 0 THEN <<>> ELSE LeftStep(f[j - 1], seq, kept, j)
        BY <2>2, Zenon DEF Leaving, LeftStep
    <2>5. g[k] = LeftStep(g[k - 1], seq, kept, k)
        BY <1>3, <2>1, <2>3
    <2>6. g = [j \in 0..k |-> g[j]]
        OBVIOUS
    <2> HIDE DEF g
    <2>7. \A j \in 0..k : g[j] = IF j = 0 THEN <<>> ELSE LeftStep(g[j - 1], seq, kept, j)
        <3> TAKE j \in 0..k
        <3>1. CASE j = k
            BY <1>3, <2>5, <3>1
        <3>2. CASE j # k
            <4>1. j \in 0..(k - 1) /\ (j # 0 => j - 1 \in 0..(k - 1))
                BY <2>1, <3>2
            <4> QED
                BY <2>3, <2>4, <4>1
        <3> QED
            BY <3>1, <3>2
    <2>8. g = [j \in 0..k |-> IF j = 0 THEN <<>> ELSE LeftStep(g[j - 1], seq, kept, j)]
        BY <2>6, <2>7
    <2>9. Leaving(g, seq, kept, k)
        BY <2>8, Zenon DEF Leaving, LeftStep
    <2> QED
        BY <2>9
<1> QED
    BY <1>2, <1>3

\* left has the elements of seq at those of the first m indices that are kept, in
\* their order.
LeftOf(left, seq, kept, m) ==
    /\ \A i \in 1..Len(left) : \E k \in 1..m : k \in kept /\ left[i] = seq[k]
    /\ \A k \in 1..m : k \in kept => \E i \in 1..Len(left) : left[i] = seq[k]
    /\ \A i, j \in 1..Len(left) : i < j =>
          \E k, l \in 1..m : k < l /\ left[i] = seq[k] /\ left[j] = seq[l]

LEMMA LeftMore ==
    ASSUME NEW T, NEW seq \in Seq(T), NEW kept, NEW m \in 1..Len(seq),
           NEW left \in Seq(T), LeftOf(left, seq, kept, m - 1)
    PROVE  /\ LeftStep(left, seq, kept, m) \in Seq(T)
           /\ LeftOf(LeftStep(left, seq, kept, m), seq, kept, m)
<1> DEFINE n == Len(left)
           more == LeftStep(left, seq, kept, m)
<1>1. /\ m \in Nat \ {0} /\ n \in Nat /\ 1..m = 1..(m - 1) \cup {m} /\ m \in 1..m
      /\ \A k \in 1..(m - 1) : k \in 1..m /\ k < m
      /\ 1..(n + 1) = 1..n \cup {n + 1}
    OBVIOUS
<1>2. /\ \A i \in 1..n : \E k \in 1..(m - 1) : k \in kept /\ left[i] = seq[k]
      /\ \A k \in 1..(m - 1) : k \in kept => \E i \in 1..n : left[i] = seq[k]
      /\ \A i, j \in 1..n : i < j =>
            \E k, l \in 1..(m - 1) : k < l /\ left[i] = seq[k] /\ left[j] = seq[l]
    BY DEF LeftOf
<1>3. CASE m \notin kept
    <2>1. more = left
        BY <1>3 DEF LeftStep
    <2>2. LeftOf(left, seq, kept, m)
        BY <1>1, <1>2, <1>3 DEF LeftOf
    <2> QED
        BY <2>1, <2>2
<1>4. CASE m \in kept
    <2>1. /\ more \in Seq(T) /\ Len(more) = n + 1 /\ more[n + 1] = seq[m]
          /\ \A i \in 1..n : more[i] = left[i]
        BY <1>4 DEF LeftStep
    <2> HIDE DEF more, n
    <2>2. ASSUME NEW i \in 1..(n + 1)
          PROVE  \E k \in 1..m : k \in kept /\ more[i] = seq[k]
        <3>1. CASE i \in 1..n
            <4>1. PICK k \in 1..(m - 1) : k \in kept /\ left[i] = seq[k]
                BY <1>2, <3>1
            <4> QED
                BY <1>1, <2>1, <3>1, <4>1
        <3>2. CASE i = n + 1
            BY <1>1, <1>4, <2>1, <3>2
        <3> QED
            BY <1>1, <3>1, <3>2
    <2>3. ASSUME NEW k \in 1..m, k \in kept
          PROVE  \E i \in 1..(n + 1) : more[i] = seq[k]
        <3>1. CASE k = m
            BY <1>1, <2>1, <3>1
        <3>2. CASE k \in 1..(m - 1)
            <4>1. PICK i \in 1..n : left[i] = seq[k]
                BY <1>2, <2>3, <3>2
            <4>2. i \in 1..(n + 1) /\ more[i] = seq[k]
                BY <1>1, <2>1, <4>1
            <4> QED
                BY <4>2
        <3> QED
            BY <1>1, <3>1, <3>2
    <2>4. ASSUME NEW i \in 1..(n + 1), NEW j \in 1..(n + 1), i < j
          PROVE  \E k, l \in 1..m : k < l /\ more[i] = seq[k] /\ more[j] = seq[l]
        <3>1. i \in 1..n
            BY <1>1, <2>4
        <3>2. CASE j \in 1..n
            <4>1. PICK k \in 1..(m - 1) :
                     \E l \in 1..(m - 1) : k < l /\ left[i] = seq[k] /\ left[j] = seq[l]
                BY <1>2, <2>4, <3>1, <3>2
            <4>2. PICK l \in 1..(m - 1) : k < l /\ left[i] = seq[k] /\ left[j] = seq[l]
                BY <4>1
            <4> QED
                BY <1>1, <2>1, <3>1, <3>2, <4>2
        <3>3. CASE j = n + 1
            <4>1. PICK k \in 1..(m - 1) : left[i] = seq[k]
                BY <1>2, <3>1
            <4> QED
                BY <1>1, <2>1, <3>1, <3>3, <4>1
        <3> QED
            BY <1>1, <3>2, <3>3
    <2>5. LeftOf(more, seq, kept, m)
        BY <2>1, <2>2, <2>3, <2>4 DEF LeftOf
    <2> QED
        BY <2>1, <2>5 DEF more
<1> QED
    BY <1>3, <1>4

LEMMA KeptIs ==
    ASSUME NEW T, NEW seq \in Seq(T), NEW kept
    PROVE  Kept(seq, kept) \in Seq(T) /\ LeftOf(Kept(seq, kept), seq, kept, Len(seq))
<1> DEFINE n == Len(seq)
           f == CHOOSE f : Leaving(f, seq, kept, n)
<1>1. n \in Nat
    OBVIOUS
<1>2. Leaving(f, seq, kept, n)
    BY <1>1, LeavingExists, Zenon
<1>3. Kept(seq, kept) = f[n]
    BY DEF Kept, Leaving
<1> HIDE DEF n, f
<1>4. \A k \in 0..n : f[k] = IF k = 0 THEN <<>> ELSE LeftStep(f[k - 1], seq, kept, k)
    BY <1>2, Zenon DEF Leaving, LeftStep
<1> DEFINE Right(k) == f[k] \in Seq(T) /\ LeftOf(f[k], seq, kept, k)
           Wrong == {k \in 0..n : ~Right(k)}
<1>5. Wrong = {}
    <2> SUFFICES ASSUME Wrong # {} PROVE FALSE
        OBVIOUS
    <2>1. Wrong \subseteq Nat
        BY <1>1
    <2>2. PICK k \in Wrong : \A j \in Wrong : k <= j
        BY <2>1, Smallest, Zenon
    <2>3. k \in 0..n /\ ~Right(k)
        OBVIOUS
    <2>4. CASE k = 0
        <3>1. f[0] = <<>>
            BY <1>1, <1>4
        <3>2. LeftOf(<<>>, seq, kept, 0) /\ <<>> \in Seq(T)
            BY DEF LeftOf
        <3> QED
            BY <2>3, <2>4, <3>1, <3>2
    <2>5. CASE k # 0
        <3>1. k - 1 \in 0..n /\ k \in 1..n /\ ~(k <= k - 1)
            BY <1>1, <2>3, <2>5
        <3>2. k - 1 \notin Wrong
            BY <2>2, <3>1, Zenon
        <3>3. f[k - 1] \in Seq(T) /\ LeftOf(f[k - 1], seq, kept, k - 1)
            BY <3>1, <3>2, Zenon
        <3>4. f[k] = LeftStep(f[k - 1], seq, kept, k)
            BY <1>4, <2>3, <2>5
        <3>5. k \in 1..Len(seq)
            BY <3>1 DEF n
        <3>6. f[k] \in Seq(T) /\ LeftOf(f[k], seq, kept, k)
            BY <3>3, <3>4, <3>5, LeftMore
        <3> QED
            BY <2>3, <3>6
    <2> QED
        BY <2>4, <2>5
<1>6. Right(n)
    <2>1. n \in 0..n
        BY <1>1
    <2> QED
        BY <1>5, <2>1, Zenon
<1> QED
    BY <1>3, <1>6 DEF n

\* The elements of a sequence made of a finite set, each once.
LEMMA OrderIs ==
    ASSUME NEW S, IsFiniteSet(S), NEW order \in SetToSeqs(S)
    PROVE  /\ order \in Seq(S)
           /\ \A x \in S : \E k \in 1..Len(order) : order[k] = x
           /\ \A k, l \in 1..Len(order) : order[k] = order[l] => k = l
<1> DEFINE n == Cardinality(S)
<1>1. n \in Nat /\ IsFiniteSet(1..n) /\ Cardinality(1..n) = n
    BY FS_CardinalityType, FS_Interval
<1>2. order \in [1..n -> S] /\ \A i, j \in 1..n : i # j => order[i] # order[j]
    BY DEF SetToSeqs
<1>3. order \in Injection(1..n, S)
    BY <1>2 DEF Injection, IsInjective
<1>4. order \in Surjection(1..n, S)
    BY <1>1, <1>3, FS_Injection
<1> HIDE DEF n
<1>5. order \in Seq(S) /\ Len(order) = n
    BY <1>1, <1>2
<1> QED
    BY <1>2, <1>4, <1>5 DEF Surjection

-----------------------------------------------------------------------------
(* What the handlers list, are told and reply.                             *)

LEMMA RequestIs ==
    ASSUME NEW q \in Requests
    PROVE  /\ q.kind \in {"nodes", "pods"} /\ q.verb \in {"list", "get"}
           /\ q.labels \subseteq NodeNames \cup PodNames
           /\ q.verb = "get" => \E n \in NodeNames \cup PodNames : q.labels = {n} /\ q.fields = {n}
<1>1. q \in RequestType
    BY RequestsAssumption
<1> QED
    BY <1>1, RequestsAssumption DEF RequestType

\* Found, of the cache there is.
LEMMA FoundNow ==
    ASSUME NEW q \in Requests, q.verb = "list"
    PROVE  Found(q, CacheOf(q)) = Cached(q.kind) \cap q.labels \cap q.fields
BY RequestIs DEF Found, CacheOf, Cached

LEMMA ListIs ==
    ASSUME StateInv, NEW q \in Requests, q.verb = "list", NEW objects \in Listings(q)
    PROVE  ListingOf(q, MatchingFields(q, objects), CacheOf(q))
<1> DEFINE N == Cached(q.kind) \cap q.labels
           S == {Object(q.kind, n) : n \in N}
           kept == {k \in DOMAIN objects : objects[k].name \in q.fields}
           left == MatchingFields(q, objects)
           m == Len(objects)
<1>1. q.kind \in {"nodes", "pods"} /\ N \subseteq NodeNames \cup PodNames
    BY RequestIs
<1>2. IsFiniteSet(N)
    BY <1>1, NamesAssumption, FS_Union, FS_Subset
<1>3. IsFiniteSet(S)
    <2> DEFINE f == [n \in N |-> Object(q.kind, n)]
    <2>1. f \in Surjection(N, S)
        BY DEF Surjection
    <2> QED
        BY <1>2, <2>1, FS_Surjection
<1>4. /\ objects \in Seq(S)
      /\ \A x \in S : \E k \in 1..m : objects[k] = x
      /\ \A k, l \in 1..m : objects[k] = objects[l] => k = l
    <2>1. objects \in SetToSeqs(S)
        BY Zenon DEF Listings
    <2> HIDE DEF S
    <2> QED
        BY <1>3, <2>1, OrderIs, Zenon
<1>5. left \in Seq(S) /\ LeftOf(left, objects, kept, m)
    BY <1>4, KeptIs DEF MatchingFields
<1> HIDE DEF left
<1>6. \A n \in N : /\ Object(q.kind, n).name = n
                   /\ Object(q.kind, n).phase = IF q.kind = "pods" THEN podCache[n] ELSE "none"
                   /\ q.kind = "pods" => podCache[n] \in Phases
                   /\ Object(q.kind, n) \in ObjectType
    BY <1>1 DEF Object, Cached, ObjectType, StateInv
<1>7. \A x \in S : /\ x \in ObjectType /\ x.name \in N /\ x = Object(q.kind, x.name)
                   /\ x.phase = IF q.kind = "pods" THEN podCache[x.name] ELSE "none"
                   /\ q.kind = "pods" => x.phase \in Phases
    BY <1>6
<1> HIDE DEF S
<1>8. m \in Nat /\ DOMAIN objects = 1..m /\ \A k \in 1..m : objects[k] \in S
    BY <1>4
<1>9. Len(left) \in Nat /\ \A i \in 1..Len(left) : left[i] \in S
    BY <1>5
<1>10. left \in Seq(ObjectType)
    BY <1>5, <1>7
<1>11. ASSUME NEW i \in 1..Len(left), NEW j \in 1..Len(left), i < j
       PROVE  left[i].name # left[j].name
    <2>1. PICK k \in 1..m : \E l \in 1..m : k < l /\ left[i] = objects[k] /\ left[j] = objects[l]
        BY <1>5, <1>11 DEF LeftOf
    <2>2. PICK l \in 1..m : k < l /\ left[i] = objects[k] /\ left[j] = objects[l]
        BY <2>1
    <2>3. objects[k] # objects[l]
        BY <1>4, <1>8, <2>2
    <2> QED
        BY <1>7, <1>8, <2>2, <2>3
<1>12. \A i, j \in 1..Len(left) : left[i].name = left[j].name => i = j
    BY <1>9, <1>11
<1>13. Found(q, CacheOf(q)) = N \cap q.fields
    BY FoundNow
<1>14. ASSUME NEW n \in N \cap q.fields
       PROVE  \E i \in 1..Len(left) : left[i].name = n
    <2>1. PICK k \in 1..m : objects[k] = Object(q.kind, n)
        BY <1>4 DEF S
    <2>2. objects[k].name = n /\ k \in kept
        BY <1>6, <1>8, <2>1
    <2>3. PICK i \in 1..Len(left) : left[i] = objects[k]
        BY <1>5, <2>2 DEF LeftOf
    <2> QED
        BY <2>2, <2>3
<1>15. ASSUME NEW i \in 1..Len(left)
       PROVE  left[i].name \in N \cap q.fields
    <2>1. PICK k \in 1..m : k \in kept /\ left[i] = objects[k]
        BY <1>5 DEF LeftOf
    <2> QED
        BY <1>7, <1>8, <2>1
<1>16. \A i \in 1..Len(left) :
          /\ left[i].phase = IF q.kind = "pods" THEN CacheOf(q)[left[i].name] ELSE "none"
          /\ q.kind = "pods" => left[i].phase \in Phases
    BY <1>7, <1>9 DEF CacheOf
<1> HIDE DEF N
<1>17. ListingOf(q, left, CacheOf(q))
    BY <1>10, <1>12, <1>13, <1>14, <1>15, <1>16 DEF ListingOf
<1> QED
    BY <1>17 DEF left

LEMMA GetIs ==
    ASSUME StateInv, NEW q \in Requests, q.verb = "get", NEW n \in q.labels
    PROVE  /\ q.kind = "nodes" =>
                 ListingOf(q, <<[name |-> n, phase |-> "none"]>>, CacheOf(q))
           /\ q.kind = "pods" /\ n \in DOMAIN podCache =>
                 ListingOf(q, <<Object("pods", n)>>, CacheOf(q))
           /\ q.kind = "pods" /\ n \notin DOMAIN podCache => Found(q, CacheOf(q)) = {}
<1>1. n \in NodeNames \cup PodNames /\ q.labels = {n} /\ q.fields = {n}
    BY RequestIs
<1>2. ASSUME NEW object \in ObjectType, object.name = n, Found(q, CacheOf(q)) = {n},
             object.phase = IF q.kind = "pods" THEN CacheOf(q)[n] ELSE "none",
             q.kind = "pods" => object.phase \in Phases
      PROVE  ListingOf(q, <<object>>, CacheOf(q))
    <2>1. /\ <<object>> \in Seq(ObjectType) /\ Len(<<object>>) = 1 /\ <<object>>[1] = object
          /\ 1..1 = {1}
        OBVIOUS
    <2> QED
        BY <1>2, <2>1 DEF ListingOf
<1>3. CASE q.kind = "nodes"
    <2> DEFINE object == [name |-> n, phase |-> "none"]
    <2>1. object \in ObjectType /\ object.name = n /\ object.phase = "none"
        BY <1>1 DEF ObjectType
    <2>2. Found(q, CacheOf(q)) = {n}
        BY <1>1, <1>3 DEF Found
    <2> QED
        BY <1>2, <1>3, <2>1, <2>2
<1>4. CASE q.kind = "pods"
    <2>1. Found(q, CacheOf(q)) = DOMAIN podCache \cap {n}
        BY <1>1, <1>4 DEF Found, CacheOf
    <2>2. n \in DOMAIN podCache =>
             /\ Object("pods", n) \in ObjectType /\ Object("pods", n).name = n
             /\ Object("pods", n).phase = podCache[n] /\ podCache[n] \in Phases
        BY <1>1 DEF Object, ObjectType, StateInv
    <2> QED
        BY <1>2, <1>4, <2>1, <2>2 DEF CacheOf
<1> QED
    BY <1>3, <1>4, RequestIs

LEMMA SelectedIs ==
    ASSUME NEW q \in Requests, NEW c
    PROVE  Selected(q, c) = {n \in Found(q, c) : q.kind = "pods" => c[n] = "Running"}
<1>1. CASE q.kind = "pods"
    <2>1. Selected(q, c) = {p \in DOMAIN c : c[p] = "Running"} \cap q.labels \cap q.fields
        BY <1>1, Zenon DEF Selected
    <2> QED
        BY <1>1, <2>1 DEF Found
<1>2. CASE q.kind # "pods"
    <2>1. q.kind = "nodes"
        BY <1>2, RequestIs
    <2>2. CASE q.verb = "list"
        <3>1. Selected(q, c) = c \cap q.labels \cap q.fields
            BY <1>2, <2>1, <2>2, Zenon DEF Selected
        <3> QED
            BY <1>2, <2>2, <3>1 DEF Found
    <2>3. CASE q.verb # "list"
        <3>1. Selected(q, c) = q.labels \cap q.labels \cap q.fields
            BY <1>2, <2>3, Zenon DEF Selected
        <3> QED
            BY <1>2, <2>3, <3>1 DEF Found
    <2> QED
        BY <2>2, <2>3
<1> QED
    BY <1>1, <1>2

Info(q, s, n) == IF q.kind = "nodes" THEN Store!NodeInfo(s[n]) ELSE Store!PodInfo(s[n])

LEMMA AnswersAre ==
    ASSUME NEW q \in Requests, NEW c, NEW s
    PROVE  Answers(q, c, s) = {[name |-> n, info |-> Info(q, s, n)] :
                                  n \in Selected(q, c) \cap DOMAIN s}
BY DEF Answers, Info

\* The items made of a listing of c and what s tells of it are the answer from c
\* and s, each once, and at most one to a Get.
LEMMA ItemsAre ==
    ASSUME NEW q \in Requests, NEW objects, NEW told, NEW c, NEW s,
           ListingOf(q, objects, c), ToldOf(q.kind, Names(objects), s, told)
    PROVE  /\ IsInjective(Items(objects, told))
           /\ ToSet(Items(objects, told)) = Answers(q, c, s)
           /\ q.verb = "get" /\ Items(objects, told) # <<>> => Len(Items(objects, told)) = 1
<1> DEFINE m == Len(objects)
           T == {Item(objects, told, k) : k \in 1..m}
           seq == [k \in DOMAIN objects |-> Item(objects, told, k)]
           kept == {k \in DOMAIN objects : Included(objects, told, k)}
           items == Items(objects, told)
<1>1. objects \in Seq(ObjectType) /\ m \in Nat /\ DOMAIN objects = 1..m
    BY DEF ListingOf
<1>2. seq \in Seq(T) /\ Len(seq) = m /\ \A k \in 1..m : seq[k] = Item(objects, told, k)
    BY <1>1
<1>3. items \in Seq(T) /\ LeftOf(items, seq, kept, m)
    BY <1>2, KeptIs DEF Items
<1> HIDE DEF seq, items, T
<1>4. Len(items) \in Nat /\ DOMAIN items = 1..Len(items)
    BY <1>3
<1>5. /\ \A i \in 1..Len(items) :
            \E k \in 1..m : Included(objects, told, k) /\ items[i] = Item(objects, told, k)
      /\ \A k \in 1..m : Included(objects, told, k) =>
            \E i \in 1..Len(items) : items[i] = Item(objects, told, k)
    <2>1. ASSUME NEW i \in 1..Len(items)
          PROVE  \E k \in 1..m : Included(objects, told, k) /\ items[i] = Item(objects, told, k)
        <3>1. PICK k \in 1..m : k \in kept /\ items[i] = seq[k]
            BY <1>3, Zenon DEF LeftOf
        <3> QED
            BY <1>2, <3>1
    <2>2. ASSUME NEW k \in 1..m, Included(objects, told, k)
          PROVE  \E i \in 1..Len(items) : items[i] = Item(objects, told, k)
        <3>1. k \in kept
            BY <1>1, <2>2
        <3>2. PICK i \in 1..Len(items) : items[i] = seq[k]
            BY <1>3, <3>1, Zenon DEF LeftOf
        <3> QED
            BY <1>2, <3>2
    <2> QED
        BY <2>1, <2>2
<1>6. ASSUME NEW i \in 1..Len(items), NEW j \in 1..Len(items), i < j
      PROVE  \E k, l \in 1..m : /\ k < l /\ items[i] = Item(objects, told, k)
                                /\ items[j] = Item(objects, told, l)
    <2>1. \E k, l \in 1..m : k < l /\ items[i] = seq[k] /\ items[j] = seq[l]
        BY <1>3, <1>6, Zenon DEF LeftOf
    <2>2. PICK k \in 1..m : \E l \in 1..m : k < l /\ items[i] = seq[k] /\ items[j] = seq[l]
        BY <2>1, Zenon
    <2> QED
        BY <1>2, <2>2
<1>7. \A k \in 1..m : Item(objects, told, k).name = objects[k].name
    BY DEF Item
<1>8. \A k, l \in 1..m : objects[k].name = objects[l].name => k = l
    BY DEF ListingOf
<1>9. ASSUME NEW i \in 1..Len(items), NEW j \in 1..Len(items), i < j
      PROVE  items[i].name # items[j].name
    <2>1. PICK k \in 1..m : \E l \in 1..m : /\ k < l /\ items[i] = Item(objects, told, k)
                                            /\ items[j] = Item(objects, told, l)
        BY <1>6, <1>9
    <2>2. PICK l \in 1..m : /\ k < l /\ items[i] = Item(objects, told, k)
                            /\ items[j] = Item(objects, told, l)
        BY <2>1
    <2>3. objects[k].name # objects[l].name
        BY <1>1, <1>8, <2>2
    <2> QED
        BY <1>7, <2>2, <2>3
<1>10. IsInjective(items)
    <2>1. ASSUME NEW i \in 1..Len(items), NEW j \in 1..Len(items), items[i] = items[j]
          PROVE  i = j
        BY <1>4, <1>9, <2>1
    <2> QED
        BY <1>4, <2>1 DEF IsInjective
<1>11. /\ \A k \in 1..m : /\ objects[k].name \in Found(q, c)
                          /\ objects[k].phase = IF q.kind = "pods" THEN c[objects[k].name]
                                                ELSE "none"
                          /\ q.kind = "pods" => objects[k].phase \in Phases
       /\ \A n \in Found(q, c) : \E k \in 1..m : objects[k].name = n
    BY DEF ListingOf
<1>12. ASSUME NEW k \in 1..m
       PROVE  /\ Included(objects, told, k) <=> objects[k].name \in Selected(q, c) \cap DOMAIN s
              /\ Included(objects, told, k) =>
                    Item(objects, told, k) = [name |-> objects[k].name,
                                              info |-> Info(q, s, objects[k].name)]
    <2> DEFINE n == objects[k].name
    <2>1. told[k] = IF n \notin DOMAIN s THEN Store!NoMetrics ELSE Info(q, s, n)
        BY <1>1 DEF ToldOf, Names, Info
    <2>2. told[k].present <=> n \in DOMAIN s
        BY <2>1 DEF Store!NoMetrics, Info, Store!NodeInfo, Store!PodInfo
    <2>3. objects[k].phase \in {"none", "Running"} <=> n \in Selected(q, c)
        <3>1. n \in Selected(q, c) <=> (q.kind = "pods" => c[n] = "Running")
            BY <1>11, SelectedIs
        <3> QED
            BY <1>11, <3>1 DEF Phases
    <2> QED
        BY <2>1, <2>2, <2>3 DEF Included, Item
<1>13. ToSet(items) = Answers(q, c, s)
    <2>1. ToSet(items) = {items[i] : i \in 1..Len(items)}
        BY <1>4 DEF ToSet
    <2>2. ASSUME NEW i \in 1..Len(items)
          PROVE  items[i] \in Answers(q, c, s)
        <3>1. PICK k \in 1..m : Included(objects, told, k) /\ items[i] = Item(objects, told, k)
            BY <1>5
        <3> QED
            BY <1>12, <3>1, AnswersAre
    <2>3. ASSUME NEW n \in Selected(q, c) \cap DOMAIN s
          PROVE  \E i \in 1..Len(items) : items[i] = [name |-> n, info |-> Info(q, s, n)]
        <3>1. PICK k \in 1..m : objects[k].name = n
            BY <1>11, SelectedIs
        <3> QED
            BY <1>5, <1>12, <3>1
    <2> QED
        BY <2>1, <2>2, <2>3, AnswersAre
<1>14. ASSUME q.verb = "get", items # <<>>
       PROVE  Len(items) = 1
    <2>1. PICK n : q.labels = {n}
        BY <1>14, RequestIs
    <2>2. Found(q, c) \subseteq {n}
        BY <2>1 DEF Found
    <2>3. \A i \in 1..Len(items) : items[i].name = n
        BY <1>5, <1>7, <1>11, <2>2
    <2>4. ~(2 <= Len(items))
        <3> SUFFICES ASSUME 2 <= Len(items) PROVE FALSE
            OBVIOUS
        <3>1. 1 \in 1..Len(items) /\ 2 \in 1..Len(items)
            BY <1>4
        <3> QED
            BY <1>9, <2>3, <3>1
    <2>5. Len(items) # 0
        BY <1>3, <1>14
    <2> QED
        BY <1>4, <2>4, <2>5
<1> QED
    BY <1>10, <1>13, <1>14 DEF items

-----------------------------------------------------------------------------
(* The calls.                                                              *)

LEMMA InitIsRight == Init => IInv
<1> SUFFICES ASSUME Init PROVE IInv
    OBVIOUS
<1>1. StateInv
    BY DEF Init, StateInv
<1>2. ASSUME NEW r \in Clients PROVE CallInv(r)
    <2>1. pc[r] = "idle" /\ reply[r] = {}
        BY DEF Init
    <2> QED
        BY <2>1 DEF CallInv
<1> QED
    BY <1>1, <1>2 DEF IInv

\* The moments of a call that is under way are kept, and this one is added.
LEMMA MomentsGrow ==
    ASSUME Witness, NEW r \in Clients, pc'[r] # "idle"
    PROVE  /\ CacheOf(request[r])' \in moments'[r].caches
           /\ StoreOf(request[r])' \in moments'[r].stores
           /\ pc[r] # "idle" => /\ moments[r].caches \subseteq moments'[r].caches
                                /\ moments[r].stores \subseteq moments'[r].stores
<1> DEFINE before == IF pc[r] = "idle" THEN NoMoments ELSE moments[r]
<1>1. moments'[r] = [caches |-> before.caches \cup {CacheOf(request[r])'},
                     stores |-> before.stores \cup {StoreOf(request[r])'}]
    BY Zenon DEF Witness
<1> QED
    BY <1>1

\* A call that is at the same point goes on as it is.
Unaffected(r) ==
    /\ pc'[r] = pc[r] /\ request'[r] = request[r] /\ listed'[r] = listed[r]
    /\ answer'[r] = answer[r] /\ reply'[r] = reply[r]

LEMMA UnaffectedStays ==
    ASSUME Witness, NEW r \in Clients, CallInv(r), Unaffected(r)
    PROVE  CallInv(r)'
<1>1. CASE pc[r] = "idle"
    BY <1>1 DEF Unaffected, CallInv
<1>2. CASE pc[r] # "idle"
    <2>1. /\ CacheOf(request[r])' \in moments'[r].caches
          /\ StoreOf(request[r])' \in moments'[r].stores
          /\ moments[r].caches \subseteq moments'[r].caches
          /\ moments[r].stores \subseteq moments'[r].stores
        BY <1>2, MomentsGrow DEF Unaffected
    <2>2. pc'[r] \in {"listed", "fetched"} =>
             \E c \in moments'[r].caches : ListingOf(request'[r], listed'[r], c)
        BY <2>1 DEF Unaffected, CallInv
    <2>3. pc'[r] = "fetched" =>
             \E s \in moments'[r].stores : \A a \in answer'[r] :
                 ToldOf(request'[r].kind, Names(listed'[r]), s, a.told)
        BY <2>1 DEF Unaffected, CallInv
    <2>4. ASSUME NEW a \in reply'[r]
          PROVE  /\ ReplyShape(request'[r], a)
                 /\ a.status # "error" =>
                       \E c \in moments'[r].caches : \E s \in moments'[r].stores :
                           ReplyIsOf(request'[r], a, c, s)
        <3>1. /\ ReplyShape(request[r], a)
              /\ a.status # "error" =>
                    \E c \in moments[r].caches : \E s \in moments[r].stores :
                        ReplyIsOf(request[r], a, c, s)
            BY DEF Unaffected, CallInv
        <3> QED
            BY <2>1, <3>1 DEF Unaffected
    <2>5. pc'[r] # "replied" => reply'[r] = {}
        BY DEF Unaffected, CallInv
    <2> QED
        BY <2>1, <2>2, <2>3, <2>4, <2>5 DEF CallInv
<1> QED
    BY <1>1, <1>2

\* The caches and the store change, and no call goes on.
LEMMA EventKeeps ==
    ASSUME IInv, Witness, UNCHANGED <<pc, request, listed, answer, reply>>,
           nodeCache' \subseteq NodeNames, DOMAIN podCache' \subseteq PodNames,
           \A p \in DOMAIN podCache' : podCache'[p] \in Phases
    PROVE  IInv'
<1>1. StateInv'
    BY DEF IInv, StateInv
<1>2. \A r \in Clients : CallInv(r)'
    BY UnaffectedStays DEF IInv, Unaffected
<1> QED
    BY <1>1, <1>2 DEF IInv

\* What the other calls are is left alone by a step of the call r.
LEMMA OthersKeep ==
    ASSUME IInv, Witness, UNCHANGED cacheVars, NEW r \in Clients, NEW to, NEW q \in Requests,
           pc' = [pc EXCEPT ![r] = to],
           to \in {"idle", "called", "listed", "fetched", "replied"},
           request' = [request EXCEPT ![r] = q],
           listed' = listed \/ \E x : listed' = [listed EXCEPT ![r] = x],
           answer' = answer \/ \E x : answer' = [answer EXCEPT ![r] = x],
           reply' = reply \/ \E x : reply' = [reply EXCEPT ![r] = x],
           CallInv(r)'
    PROVE  IInv'
<1>1. DOMAIN listed = Clients /\ DOMAIN answer = Clients /\ DOMAIN reply = Clients
    BY DEF IInv, StateInv
<1>2. /\ DOMAIN listed' = Clients /\ \A s \in Clients \ {r} : listed'[s] = listed[s]
      /\ DOMAIN answer' = Clients /\ \A s \in Clients \ {r} : answer'[s] = answer[s]
      /\ DOMAIN reply' = Clients /\ \A s \in Clients \ {r} : reply'[s] = reply[s]
    BY <1>1
<1>3. /\ pc' \in [Clients -> {"idle", "called", "listed", "fetched", "replied"}]
      /\ request' \in [Clients -> Requests]
      /\ \A s \in Clients \ {r} : pc'[s] = pc[s] /\ request'[s] = request[s]
    BY DEF IInv, StateInv
<1>4. StateInv'
    BY <1>2, <1>3 DEF IInv, StateInv, cacheVars
<1>5. ASSUME NEW s \in Clients PROVE CallInv(s)'
    <2>1. CASE s # r
        BY <1>2, <1>3, <2>1, UnaffectedStays DEF IInv, Unaffected
    <2> QED
        BY <2>1
<1> QED
    BY <1>4, <1>5 DEF IInv

LEMMA SameRequest ==
    ASSUME StateInv, NEW r \in Clients
    PROVE  /\ request[r] \in Requests
           /\ request = [request EXCEPT ![r] = request[r]]
BY DEF StateInv

LEMMA CallKeeps ==
    ASSUME IInv, Witness, NEW r \in Clients, NEW q \in Requests, Call(r, q)
    PROVE  IInv'
<1>1. /\ pc[r] = "idle" /\ request' = [request EXCEPT ![r] = q]
      /\ pc' = [pc EXCEPT ![r] = "called"]
      /\ UNCHANGED <<cacheVars, answer, listed, reply>>
    BY DEF Call
<1>2. pc'[r] = "called" /\ reply'[r] = {}
    BY <1>1 DEF IInv, StateInv, CallInv
<1>3. CallInv(r)'
    BY <1>2, MomentsGrow DEF CallInv
<1> QED
    BY <1>1, <1>3, OthersKeep

LEMMA ListedKeeps ==
    ASSUME IInv, Witness, NEW r \in Clients, pc[r] = "called", NEW objects,
           ListingOf(request[r], objects, CacheOf(request[r])), Listed(r, objects)
    PROVE  IInv'
<1>1. /\ listed' = [listed EXCEPT ![r] = objects] /\ pc' = [pc EXCEPT ![r] = "listed"]
      /\ UNCHANGED <<cacheVars, answer, request, reply>>
    BY DEF Listed
<1>2. pc'[r] = "listed" /\ listed'[r] = objects /\ reply'[r] = {} /\ request'[r] = request[r]
    BY <1>1 DEF IInv, StateInv, CallInv
<1>3. CacheOf(request[r])' = CacheOf(request[r])
    BY <1>1 DEF CacheOf, cacheVars
<1>4. CallInv(r)'
    <2>1. /\ CacheOf(request[r])' \in moments'[r].caches
          /\ StoreOf(request[r])' \in moments'[r].stores
        BY <1>2, MomentsGrow
    <2>2. \E c \in moments'[r].caches : ListingOf(request'[r], listed'[r], c)
        BY <1>2, <1>3, <2>1
    <2> QED
        BY <1>2, <2>1, <2>2 DEF CallInv
<1> QED
    BY <1>1, <1>4, SameRequest, OthersKeep DEF IInv

LEMMA RepliesKeeps ==
    ASSUME IInv, Witness, NEW r \in Clients, pc[r] \in {"called", "fetched"},
           NEW status, NEW items, Replies(r, status, items),
           ReplyShape(request[r], [status |-> status, items |-> items]),
           status # "error" =>
              \E c \in moments[r].caches : \E s \in moments[r].stores :
                 ReplyIsOf(request[r], [status |-> status, items |-> items], c, s)
    PROVE  IInv'
<1> DEFINE a == [status |-> status, items |-> items]
<1>1. /\ reply' = [reply EXCEPT ![r] = {a}] /\ pc' = [pc EXCEPT ![r] = "replied"]
      /\ UNCHANGED <<cacheVars, answer, request, listed>>
    BY DEF Replies
<1>2. pc'[r] = "replied" /\ reply'[r] = {a} /\ request'[r] = request[r] /\ pc[r] # "idle"
    BY <1>1 DEF IInv, StateInv
<1>3. CallInv(r)'
    <2>1. /\ CacheOf(request[r])' \in moments'[r].caches
          /\ StoreOf(request[r])' \in moments'[r].stores
          /\ moments[r].caches \subseteq moments'[r].caches
          /\ moments[r].stores \subseteq moments'[r].stores
        BY <1>2, MomentsGrow
    <2>2. a.status # "error" =>
             \E c \in moments'[r].caches : \E s \in moments'[r].stores :
                 ReplyIsOf(request'[r], a, c, s)
        BY <1>2, <2>1
    <2> HIDE DEF a
    <2>3. ReplyShape(request'[r], a)
        BY <1>2 DEF a
    <2> QED
        BY <1>2, <2>1, <2>2, <2>3 DEF CallInv
<1> QED
    BY <1>1, <1>3, SameRequest, OthersKeep DEF IInv

LEMMA NothingFound ==
    ASSUME NEW q \in Requests, NEW c, NEW s, NEW status, status # "ok", Found(q, c) = {}
    PROVE  ReplyIsOf(q, [status |-> status, items |-> <<>>], c, s)
<1>1. Answers(q, c, s) = {}
    BY SelectedIs, AnswersAre
<1>2. IsInjective(<<>>) /\ ToSet(<<>>) = {}
    BY DEF IsInjective, ToSet
<1> QED
    BY <1>1, <1>2 DEF ReplyIsOf

LEMMA HandlerLists ==
    ASSUME IInv, Witness, NEW r \in Clients,
           List(r) \/ GetNode(r) \/ GetPod(r) \/ ListerFails(r)
    PROVE  IInv'
<1>1. pc[r] = "called" /\ StateInv /\ CallInv(r) /\ request[r] \in Requests
    BY SameRequest DEF List, GetNode, GetPod, ListerFails, IInv
<1>2. CASE List(r)
    <2>1. PICK objects \in Listings(request[r]) :
             Listed(r, MatchingFields(request[r], objects))
        BY <1>2 DEF List
    <2>2. ListingOf(request[r], MatchingFields(request[r], objects), CacheOf(request[r]))
        BY <1>1, <1>2, ListIs DEF List
    <2> QED
        BY <1>1, <2>1, <2>2, ListedKeeps
<1>3. CASE GetNode(r)
    <2>1. PICK n \in request[r].labels : Listed(r, <<[name |-> n, phase |-> "none"]>>)
        BY <1>3 DEF GetNode
    <2>2. ListingOf(request[r], <<[name |-> n, phase |-> "none"]>>, CacheOf(request[r]))
        BY <1>1, <1>3, GetIs DEF GetNode
    <2> QED
        BY <1>1, <2>1, <2>2, ListedKeeps
<1>4. CASE GetPod(r)
    <2>1. PICK n \in request[r].labels :
             IF n \in DOMAIN podCache THEN Listed(r, <<Object("pods", n)>>)
             ELSE Replies(r, "not found", <<>>)
        BY <1>4 DEF GetPod
    <2>2. CASE n \in DOMAIN podCache
        <3>1. ListingOf(request[r], <<Object("pods", n)>>, CacheOf(request[r]))
            BY <1>1, <1>4, <2>2, GetIs DEF GetPod
        <3> QED
            BY <1>1, <2>1, <2>2, <3>1, ListedKeeps
    <2>3. CASE n \notin DOMAIN podCache
        <3> DEFINE a == [status |-> "not found", items |-> <<>>]
        <3>1. Found(request[r], CacheOf(request[r])) = {}
            BY <1>1, <1>4, <2>3, GetIs DEF GetPod
        <3>2. ReplyIsOf(request[r], a, CacheOf(request[r]), StoreOf(request[r]))
            BY <1>1, <3>1, NothingFound
        <3>3. /\ CacheOf(request[r]) \in moments[r].caches
              /\ StoreOf(request[r]) \in moments[r].stores
            BY <1>1 DEF CallInv
        <3>4. ReplyShape(request[r], a)
            BY DEF ReplyShape
        <3>5. \E c \in moments[r].caches : \E s \in moments[r].stores :
                 ReplyIsOf(request[r], a, c, s)
            BY <3>2, <3>3
        <3> QED
            BY <1>1, <2>1, <2>3, <3>4, <3>5, RepliesKeeps
    <2> QED
        BY <2>2, <2>3
<1>5. CASE ListerFails(r)
    <2>1. ReplyShape(request[r], [status |-> "error", items |-> <<>>])
        BY DEF ReplyShape
    <2> QED
        BY <1>1, <1>5, <2>1, RepliesKeeps DEF ListerFails
<1> QED
    BY <1>2, <1>3, <1>4, <1>5

LEMMA AnswerToIs ==
    ASSUME NEW names, NEW q \in Requests
    PROVE  ToldOf(q.kind, names, StoreOf(q), Store!AnswerTo([kind |-> q.kind, names |-> names]))
<1> DEFINE req == [kind |-> q.kind, names |-> names]
           told == Store!AnswerTo(req)
<1>1. req.kind = q.kind /\ req.names = names
    OBVIOUS
<1>2. told = [k \in DOMAIN names |->
                CASE q.kind = "nodes" /\ names[k] \in DOMAIN nodes -> Store!NodeInfo(nodes[names[k]])
                  [] q.kind = "pods" /\ names[k] \in DOMAIN pods -> Store!PodInfo(pods[names[k]])
                  [] OTHER -> Store!NoMetrics]
    BY <1>1, Zenon DEF Store!AnswerTo
<1> HIDE DEF told
<1>3. CASE q.kind = "nodes"
    <2>1. StoreOf(q) = nodes
        BY <1>3 DEF StoreOf
    <2>2. ASSUME NEW k \in DOMAIN names
          PROVE  told[k] = IF names[k] \notin DOMAIN nodes THEN Store!NoMetrics
                           ELSE Store!NodeInfo(nodes[names[k]])
        <3>1. CASE names[k] \in DOMAIN nodes
            BY <1>2, <1>3, <3>1, Zenon
        <3>2. CASE names[k] \notin DOMAIN nodes
            BY <1>2, <1>3, <3>2, Zenon
        <3> QED
            BY <3>1, <3>2
    <2> QED
        BY <1>2, <1>3, <2>1, <2>2, Zenon DEF ToldOf, told
<1>4. CASE q.kind = "pods"
    <2>1. StoreOf(q) = pods
        BY <1>4 DEF StoreOf
    <2>2. ASSUME NEW k \in DOMAIN names
          PROVE  told[k] = IF names[k] \notin DOMAIN pods THEN Store!NoMetrics
                           ELSE Store!PodInfo(pods[names[k]])
        <3>1. CASE names[k] \in DOMAIN pods
            BY <1>2, <1>4, <3>1, Zenon
        <3>2. CASE names[k] \notin DOMAIN pods
            BY <1>2, <1>4, <3>2, Zenon
        <3> QED
            BY <3>1, <3>2
    <2> QED
        BY <1>2, <1>4, <2>1, <2>2, Zenon DEF ToldOf, told
<1> QED
    BY <1>3, <1>4, RequestIs

LEMMA FetchKeeps ==
    ASSUME IInv, Witness, NEW r \in Clients, Fetch(r)
    PROVE  IInv'
<1> DEFINE names == Names(listed[r])
           q == [kind |-> request[r].kind, names |-> names]
           a == [request |-> q, told |-> Store!AnswerTo(q)]
<1>1. /\ pc[r] = "listed" /\ answer' = [answer EXCEPT ![r] = {a}]
      /\ pc' = [pc EXCEPT ![r] = "fetched"]
      /\ UNCHANGED <<cacheVars, storeVars, request, listed, reply>>
    BY DEF Fetch
<1>2. pc'[r] = "fetched" /\ answer'[r] = {a} /\ request'[r] = request[r]
      /\ listed'[r] = listed[r] /\ reply'[r] = {} /\ request[r] \in Requests
    BY <1>1 DEF IInv, StateInv, CallInv
<1>3. ToldOf(request[r].kind, names, StoreOf(request[r]), a.told)
    BY <1>2, AnswerToIs
<1>4. StoreOf(request[r])' = StoreOf(request[r])
    BY <1>1 DEF StoreOf, storeVars
<1>5. CallInv(r)'
    <2>1. /\ CacheOf(request[r])' \in moments'[r].caches
          /\ StoreOf(request[r])' \in moments'[r].stores
          /\ moments[r].caches \subseteq moments'[r].caches
        BY <1>1, <1>2, MomentsGrow
    <2>2. \E c \in moments'[r].caches : ListingOf(request'[r], listed'[r], c)
        BY <1>1, <1>2, <2>1 DEF IInv, CallInv
    <2> HIDE DEF a
    <2>3. \E s \in moments'[r].stores : \A b \in answer'[r] :
             ToldOf(request'[r].kind, Names(listed'[r]), s, b.told)
        BY <1>2, <1>3, <1>4, <2>1
    <2> QED
        BY <1>2, <2>1, <2>2, <2>3 DEF CallInv
<1> QED
    BY <1>1, <1>5, SameRequest, OthersKeep DEF IInv

LEMMA ReplyKeeps ==
    ASSUME IInv, Witness, NEW r \in Clients, Reply(r)
    PROVE  IInv'
<1>1. pc[r] = "fetched" /\ CallInv(r) /\ request[r] \in Requests
    BY SameRequest DEF Reply, IInv
<1>2. PICK a \in answer[r] :
         LET items == Items(listed[r], a.told)
         IN  IF request[r].verb = "get" /\ items = <<>>
             THEN Replies(r, "not found", <<>>)
             ELSE Replies(r, "ok", items)
    BY DEF Reply
<1> DEFINE items == Items(listed[r], a.told)
<1>3. PICK c \in moments[r].caches : ListingOf(request[r], listed[r], c)
    BY <1>1 DEF CallInv
<1>4. PICK s \in moments[r].stores : ToldOf(request[r].kind, Names(listed[r]), s, a.told)
    BY <1>1 DEF CallInv
<1>5. /\ IsInjective(items) /\ ToSet(items) = Answers(request[r], c, s)
      /\ request[r].verb = "get" /\ items # <<>> => Len(items) = 1
    BY <1>1, <1>3, <1>4, ItemsAre
<1> HIDE DEF items
<1>6. ASSUME NEW status \in {"ok", "not found"}, Replies(r, status, items),
             status = "not found" => items = <<>>,
             status = "ok" /\ request[r].verb = "get" => items # <<>>
      PROVE  IInv'
    <2> DEFINE b == [status |-> status, items |-> items]
    <2>1. ReplyShape(request[r], b)
        BY <1>5, <1>6 DEF ReplyShape
    <2>2. ReplyIsOf(request[r], b, c, s)
        BY <1>5 DEF ReplyIsOf
    <2>3. \E k \in moments[r].caches : \E l \in moments[r].stores :
             ReplyIsOf(request[r], b, k, l)
        BY <2>2
    <2> QED
        BY <1>1, <1>6, <2>1, <2>3, RepliesKeeps
<1>7. CASE request[r].verb = "get" /\ items = <<>>
    <2>1. Replies(r, "not found", items)
        BY <1>2, <1>7 DEF items
    <2> QED
        BY <1>6, <1>7, <2>1
<1>8. CASE ~(request[r].verb = "get" /\ items = <<>>)
    <2>1. Replies(r, "ok", items)
        BY <1>2, <1>8 DEF items
    <2> QED
        BY <1>6, <1>8, <2>1
<1> QED
    BY <1>7, <1>8

LEMMA DoneKeeps ==
    ASSUME IInv, Witness, NEW r \in Clients, Done(r)
    PROVE  IInv'
<1>1. /\ pc' = [pc EXCEPT ![r] = "idle"] /\ answer' = [answer EXCEPT ![r] = {}]
      /\ listed' = [listed EXCEPT ![r] = <<>>] /\ reply' = [reply EXCEPT ![r] = {}]
      /\ UNCHANGED <<cacheVars, request>>
    BY DEF Done
<1>2. pc'[r] = "idle" /\ reply'[r] = {}
    BY <1>1 DEF IInv, StateInv
<1>3. CallInv(r)'
    BY <1>2 DEF CallInv
<1> QED
    BY <1>1, <1>3, SameRequest, OthersKeep DEF IInv

LEMMA StepKeeps == IInv /\ [Next]_vars => IInv'
<1> SUFFICES ASSUME IInv, [Next]_vars PROVE IInv'
    OBVIOUS
<1>1. CASE UNCHANGED vars
    <2>1. StateInv'
        BY <1>1 DEF vars, cacheVars, callVars, IInv, StateInv
    <2>2. \A r \in Clients : CallInv(r)'
        BY <1>1 DEF vars, cacheVars, storeVars, callVars, IInv, CallInv, CacheOf, StoreOf
    <2> QED
        BY <2>1, <2>2 DEF IInv
<1>2. CASE Next
    <2>1. Witness /\ Step
        BY <1>2 DEF Next
    <2>2. ASSUME NEW n \in NodeNames, NodeEvent(n) PROVE IInv'
        <3>1. /\ UNCHANGED <<pc, request, listed, answer, reply, podCache>>
              /\ nodeCache' \subseteq NodeNames
            BY <2>2 DEF NodeEvent, callVars, IInv, StateInv
        <3> QED
            BY <2>1, <3>1, EventKeeps DEF IInv, StateInv
    <2>3. ASSUME NEW p \in PodNames, PodEvent(p) PROVE IInv'
        <3>1. /\ UNCHANGED <<pc, request, listed, answer, reply, nodeCache>>
              /\ DOMAIN podCache' \subseteq PodNames
              /\ \A x \in DOMAIN podCache' : podCache'[x] \in Phases
            BY <2>3 DEF PodEvent, callVars, IInv, StateInv
        <3> QED
            BY <2>1, <3>1, EventKeeps DEF IInv, StateInv
    <2>4. ASSUME NEW batch \in Batches, Receive(batch) PROVE IInv'
        <3>1. UNCHANGED <<pc, request, listed, answer, reply, nodeCache, podCache>>
            BY <2>4 DEF Receive, cacheVars, Store!Publish
        <3> QED
            BY <2>1, <3>1, EventKeeps DEF IInv, StateInv
    <2>5. ASSUME NEW r \in Clients, Handler(r) PROVE IInv'
        BY <2>1, <2>5, HandlerLists, FetchKeeps, ReplyKeeps DEF Handler
    <2>6. ASSUME NEW r \in Clients, Done(r) \/ \E q \in Requests : Call(r, q) PROVE IInv'
        BY <2>1, <2>6, DoneKeeps, CallKeeps
    <2> QED
        BY <2>1, <2>2, <2>3, <2>4, <2>5, <2>6 DEF Step
<1> QED
    BY <1>1, <1>2

LEMMA Inductive == Spec => []IInv
BY InitIsRight, StepKeeps, PTL DEF Spec

-----------------------------------------------------------------------------
(* The properties.                                                         *)

\* The types of the caches and of the calls' state; a reply that is not "ok" has
\* no items and a Get that is has exactly one (nodes lines 104-109, pods lines
\* 98-107).
THEOREM TypeCorrect == Spec => []TypeOK
<1>1. IInv => TypeOK
    BY DEF IInv, StateInv, CallInv, ReplyShape, TypeOK
<1> QED
    BY <1>1, Inductive, PTL

\* However the caches and the store change while any number of requests run, a
\* reply is what one cache and one store of its own duration would have given:
\* the listing and the lookup are of one moment each, and matching them by index
\* gives no name the metrics of another (nodes lines 97-109 and 131-150, pods
\* lines 91-107 and 139-176).
THEOREM EveryReplyExplained == Spec => []Explained
<1>1. IInv => Explained
    BY DEF IInv, CallInv, ReplyIsOf, Explained
<1> QED
    BY <1>1, Inductive, PTL
=============================================================================
