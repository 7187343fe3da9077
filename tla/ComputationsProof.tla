--------------------------- MODULE ComputationsProof ---------------------------
(***************************************************************************)
(* Proofs about the sequential computations: the histogram buckets         *)
(* (Buckets), for every increasing sequence of default buckets and every   *)
(* timeout; the kubelet client (KubeletConfig), for every configuration    *)
(* and all flags; the Python exercises (Exercises), for every input.       *)
(***************************************************************************)
EXTENDS Computations, FiniteSetTheorems, SequenceTheorems, WellFoundedInduction, TLAPS

-----------------------------------------------------------------------------
(* Least elements.                                                         *)

Smaller == {ss \in Nat \X Nat : ss[1] < ss[2]}

LEMMA SmallerWellFounded == IsWellFoundedOn(Smaller, Nat)
BY NatLessThanWellFounded, Zenon DEF Smaller, OpToRel

LEMMA Smallest ==
    ASSUME NEW T, T \subseteq Nat, T # {}
    PROVE  \E x \in T : \A y \in T : x <= y
<1>1. PICK x \in T : \A y \in T : ~(<<y, x>> \in Smaller)
    BY SmallerWellFounded, WFMin, Zenon
<1>2. ASSUME NEW y \in T, y < x
      PROVE  FALSE
    <2>1. <<y, x>> \in Nat \X Nat
        OBVIOUS
    <2>2. <<y, x>>[1] < <<y, x>>[2]
        BY <1>2
    <2>3. <<y, x>> \in Smaller
        BY <2>1, <2>2, Zenon DEF Smaller
    <2> QED
        BY <2>3, <1>1
<1> QED
    BY <1>2

-----------------------------------------------------------------------------
(* Recursive functions.  What such a definition chooses exists when the    *)
(* body looks only at arguments of a smaller measure.                      *)

\* Where it looks, the body of a recursive function on D finds smaller measures.
Wellfounded(D, A, measure, body) ==
    /\ body \in [[D -> A] -> [D -> A]]
    /\ measure \in [D -> Nat]
    /\ \A g, h \in [D -> A] : \A x \in D :
          (\A y \in D : measure[y] < measure[x] => g[y] = h[y]) => body[g][x] = body[h][x]

\* g is what the body makes of it for measures below n.
FixedBelow(n, g, D, A, measure, body) ==
    /\ g \in [D -> A]
    /\ \A x \in D : measure[x] < n => g[x] = body[g][x]

LEMMA FixedBelowExists ==
    ASSUME NEW D, NEW A, A # {}, NEW measure, NEW body,
           Wellfounded(D, A, measure, body), NEW n \in Nat
    PROVE  \E g : FixedBelow(n, g, D, A, measure, body)
<1> DEFINE T == {k \in Nat : ~\E g : FixedBelow(k, g, D, A, measure, body)}
<1> SUFFICES ASSUME T # {} PROVE FALSE
    OBVIOUS
<1>1. PICK k \in T : \A j \in T : k <= j
    BY Smallest
<1>2. /\ body \in [[D -> A] -> [D -> A]]
      /\ measure \in [D -> Nat]
    BY DEF Wellfounded
<1>3. CASE k = 0
    <2>1. PICK a \in A : TRUE
        OBVIOUS
    <2> DEFINE f == [x \in D |-> a]
    <2>2. \A x \in D : ~(measure[x] < 0)
        BY <1>2
    <2>3. FixedBelow(0, f, D, A, measure, body)
        BY <2>2 DEF FixedBelow
    <2> QED
        BY <1>3, <2>3
<1>4. CASE k # 0
    <2>1. k \in Nat /\ k - 1 \in Nat /\ k - 1 \notin T
        BY <1>1, <1>4
    <2>2. PICK g : FixedBelow(k - 1, g, D, A, measure, body)
        BY <2>1
    <2>3. g \in [D -> A] /\ body[g] \in [D -> A]
        BY <1>2, <2>2 DEF FixedBelow
    <2>4. ASSUME NEW x \in D, measure[x] < k
          PROVE  body[g][x] = body[body[g]][x]
        <3>1. ASSUME NEW y \in D, measure[y] < measure[x]
              PROVE  g[y] = body[g][y]
            <4>1. measure[x] \in Nat /\ measure[y] \in Nat
                BY <1>2
            <4>2. measure[y] < k - 1
                BY <2>1, <2>4, <3>1, <4>1
            <4> QED
                BY <2>2, <4>2 DEF FixedBelow
        <3> QED
            BY <2>3, <3>1 DEF Wellfounded
    <2>5. FixedBelow(k, body[g], D, A, measure, body)
        BY <2>3, <2>4 DEF FixedBelow
    <2> QED
        BY <2>5
<1> QED
    BY <1>3, <1>4

LEMMA FixedBelowUnique ==
    ASSUME NEW D, NEW A, NEW measure, NEW body, Wellfounded(D, A, measure, body),
           NEW n \in Nat, NEW g, FixedBelow(n, g, D, A, measure, body),
           NEW m \in Nat, NEW h, FixedBelow(m, h, D, A, measure, body)
    PROVE  \A x \in D : measure[x] < n /\ measure[x] < m => g[x] = h[x]
<1> DEFINE T == {k \in Nat : \E x \in D : /\ measure[x] = k /\ k < n /\ k < m
                                          /\ g[x] # h[x]}
<1>1. measure \in [D -> Nat] /\ g \in [D -> A] /\ h \in [D -> A]
    BY DEF Wellfounded, FixedBelow
<1>2. SUFFICES T = {}
    <2>1. \A x \in D : measure[x] \in Nat /\ measure[x] \notin T
        BY <1>1, <1>2
    <2> QED
        BY <2>1
<1> SUFFICES ASSUME T # {} PROVE FALSE
    OBVIOUS
<1>3. PICK k \in T : \A j \in T : k <= j
    BY Smallest
<1>4. PICK x \in D : measure[x] = k /\ k < n /\ k < m /\ g[x] # h[x]
    BY <1>3
<1>5. ASSUME NEW y \in D, measure[y] < measure[x]
      PROVE  g[y] = h[y]
    <2>1. measure[y] \in Nat /\ k \in Nat
        BY <1>1
    <2>2. measure[y] < n /\ measure[y] < m /\ ~(k <= measure[y])
        BY <1>4, <1>5, <2>1
    <2>3. measure[y] \notin T
        BY <1>3, <2>2
    <2> QED
        BY <2>1, <2>2, <2>3
<1>6. body[g][x] = body[h][x]
    BY <1>1, <1>5 DEF Wellfounded
<1>7. g[x] = body[g][x] /\ h[x] = body[h][x]
    BY <1>4 DEF FixedBelow
<1> QED
    BY <1>4, <1>6, <1>7

LEMMA FixpointExists ==
    ASSUME NEW D, NEW A, A # {}, NEW measure, NEW body, Wellfounded(D, A, measure, body)
    PROVE  \E g \in [D -> A] : g = body[g]
<1> DEFINE Fix(n) == CHOOSE g : FixedBelow(n, g, D, A, measure, body)
           g == [x \in D |-> Fix(measure[x] + 1)[x]]
<1>1. ASSUME NEW n \in Nat
      PROVE  FixedBelow(n, Fix(n), D, A, measure, body)
    <2>1. \E f : FixedBelow(n, f, D, A, measure, body)
        BY FixedBelowExists
    <2> QED
        BY <2>1, Zenon
<1> HIDE DEF Fix
<1>2. /\ body \in [[D -> A] -> [D -> A]]
      /\ measure \in [D -> Nat]
    BY DEF Wellfounded
<1>3. ASSUME NEW x \in D
      PROVE  /\ measure[x] + 1 \in Nat /\ measure[x] < measure[x] + 1
             /\ FixedBelow(measure[x] + 1, Fix(measure[x] + 1), D, A, measure, body)
    BY <1>1, <1>2
<1>4. g \in [D -> A]
    <2>1. ASSUME NEW x \in D PROVE Fix(measure[x] + 1)[x] \in A
        BY <1>3 DEF FixedBelow
    <2> QED
        BY <2>1
<1>5. ASSUME NEW x \in D
      PROVE  g[x] = body[g][x]
    <2> DEFINE f == Fix(measure[x] + 1)
    <2>1. f \in [D -> A] /\ f[x] = body[f][x]
        BY <1>3 DEF FixedBelow
    <2>2. ASSUME NEW y \in D, measure[y] < measure[x]
          PROVE  g[y] = f[y]
        <3>1. measure[y] < measure[y] + 1 /\ measure[y] < measure[x] + 1
            BY <1>2, <2>2
        <3>2. Fix(measure[y] + 1)[y] = f[y]
            BY <1>3, <3>1, FixedBelowUnique
        <3> QED
            BY <3>2
    <2> HIDE DEF g
    <2>3. body[g][x] = body[f][x]
        BY <1>4, <2>1, <2>2 DEF Wellfounded
    <2>4. g[x] = f[x]
        BY DEF g
    <2> QED
        BY <2>1, <2>3, <2>4
<1> HIDE DEF g
<1>6. g = body[g]
    <2>1. body[g] \in [D -> A]
        BY <1>2, <1>4
    <2> QED
        BY <1>4, <1>5, <2>1
<1> QED
    BY <1>4, <1>6

-----------------------------------------------------------------------------
(* Sequences, and lists put in another order.                              *)

LEMMA CountedUp ==
    ASSUME NEW n \in Nat, NEW S, 0 \in S, \A k \in 0..(n - 1) : k \in S => k + 1 \in S
    PROVE  \A k \in 0..n : k \in S
<1> DEFINE T == {k \in 0..n : k \notin S}
<1> SUFFICES ASSUME T # {} PROVE FALSE
    OBVIOUS
<1>1. PICK k \in T : \A j \in T : k <= j
    <2>1. T \subseteq Nat
        OBVIOUS
    <2> QED
        BY <2>1, Smallest
<1>2. k # 0 /\ k - 1 \in 0..(n - 1) /\ ~(k <= k - 1) /\ (k - 1) + 1 = k
    BY <1>1
<1>3. k - 1 \in S
    BY <1>1, <1>2
<1> QED
    BY <1>1, <1>2, <1>3

LEMMA MaxIs ==
    ASSUME NEW n \in Nat, NEW T, T \subseteq 0..n, T # {}
    PROVE  Max(T) \in T /\ \A y \in T : y <= Max(T)
<1> DEFINE U == {u \in 0..n : n - u \in T}
<1>1. PICK u \in U : \A v \in U : u <= v
    <2>1. PICK y \in T : TRUE
        OBVIOUS
    <2>2. n - y \in U
        <3>1. n - (n - y) = y /\ n - y \in 0..n
            OBVIOUS
        <3> QED
            BY <3>1
    <2>3. U \subseteq Nat
        OBVIOUS
    <2> HIDE DEF U
    <2> QED
        BY <2>2, <2>3, Smallest
<1>2. n - u \in T /\ u \in 0..n
    OBVIOUS
<1>3. ASSUME NEW y \in T
      PROVE  n - u >= y
    <2>1. n - (n - y) = y /\ n - y \in 0..n
        OBVIOUS
    <2>2. u <= n - y
        BY <1>1, <2>1
    <2> QED
        BY <1>2, <2>2
<1>4. Max(T) \in T /\ \A y \in T : Max(T) >= y
    BY <1>2, <1>3 DEF Max
<1> QED
    BY <1>4

LEMMA SubSeqIs ==
    ASSUME NEW s \in Seq(Int), NEW a \in 1..(Len(s) + 1), NEW b \in (a - 1)..Len(s)
    PROVE  /\ SubSeq(s, a, b) \in Seq(Int)
           /\ Len(SubSeq(s, a, b)) = b - a + 1
           /\ \A k \in 1..(b - a + 1) : SubSeq(s, a, b)[k] = s[a + k - 1]
<1>1. \A k \in a..b : s[k] \in Int
    OBVIOUS
<1>2. a \in Int /\ b \in Int
    OBVIOUS
<1> QED
    BY <1>1, <1>2, SubSeqProperties

LEMMA ConcatIs ==
    ASSUME NEW s \in Seq(Int), NEW r \in Seq(Int)
    PROVE  /\ s \o r \in Seq(Int)
           /\ Len(s \o r) = Len(s) + Len(r)
           /\ \A k \in 1..Len(s) : (s \o r)[k] = s[k]
           /\ \A k \in 1..Len(r) : (s \o r)[Len(s) + k] = r[k]
<1>1. /\ s \o r \in Seq(Int)
      /\ Len(s \o r) = Len(s) + Len(r)
      /\ \A k \in 1..(Len(s) + Len(r)) :
            (s \o r)[k] = IF k <= Len(s) THEN s[k] ELSE r[k - Len(s)]
    BY ConcatProperties, Zenon
<1>2. Len(s) \in Nat /\ Len(r) \in Nat
    OBVIOUS
<1>3. ASSUME NEW k \in 1..Len(s)
      PROVE  (s \o r)[k] = s[k]
    <2>1. k \in 1..(Len(s) + Len(r)) /\ k <= Len(s)
        BY <1>2
    <2> QED
        BY <1>1, <2>1
<1>4. ASSUME NEW k \in 1..Len(r)
      PROVE  (s \o r)[Len(s) + k] = r[k]
    <2>1. /\ Len(s) + k \in 1..(Len(s) + Len(r))
          /\ ~(Len(s) + k <= Len(s))
          /\ (Len(s) + k) - Len(s) = k
        BY <1>2
    <2> QED
        BY <1>1, <2>1
<1> QED
    BY <1>1, <1>3, <1>4

\* s is a with its elements at l..r in some order.
Ordering(p, s, a, l, r) ==
    /\ p \in [1..Len(a) -> 1..Len(a)]
    /\ \A j, k \in 1..Len(a) : p[j] = p[k] => j = k
    /\ \A k \in 1..Len(a) : s[k] = a[p[k]] /\ (k \notin l..r => p[k] = k)
Rearranged(s, a, l, r) == Len(s) = Len(a) /\ \E p : Ordering(p, s, a, l, r)

LEMMA NotRearranged ==
    ASSUME NEW a \in Seq(Int), NEW l, NEW r
    PROVE  Rearranged(a, a, l, r)
<1>1. Ordering([k \in 1..Len(a) |-> k], a, a, l, r)
    BY DEF Ordering
<1> QED
    BY <1>1 DEF Rearranged

LEMMA RearrangedAgain ==
    ASSUME NEW a \in Seq(Int), NEW s, NEW t, NEW i \in Int, NEW j \in Int,
           NEW l \in Int, NEW r \in Int,
           Rearranged(s, a, l, r), Rearranged(t, s, i, j), i >= l, j <= r
    PROVE  Rearranged(t, a, l, r)
<1>1. Len(s) = Len(a) /\ Len(t) = Len(a) /\ Len(a) \in Nat
    BY DEF Rearranged
<1>2. PICK p : Ordering(p, s, a, l, r)
    BY DEF Rearranged
<1>3. PICK q : Ordering(q, t, s, i, j)
    BY DEF Rearranged
<1> DEFINE N == 1..Len(a)
           c == [k \in N |-> p[q[k]]]
<1>4. /\ p \in [N -> N] /\ q \in [N -> N]
      /\ \A m, k \in N : (p[m] = p[k] => m = k) /\ (q[m] = q[k] => m = k)
      /\ \A k \in N : s[k] = a[p[k]] /\ (k \notin l..r => p[k] = k)
      /\ \A k \in N : t[k] = s[q[k]] /\ (k \notin i..j => q[k] = k)
    BY <1>1, <1>2, <1>3 DEF Ordering
<1>5. \A k \in N : k \notin l..r => k \notin i..j
    OBVIOUS
<1> HIDE DEF N
<1>6. c \in [N -> N]
    BY <1>4
<1>7. \A m, k \in N : c[m] = c[k] => m = k
    BY <1>4
<1>8. \A k \in N : t[k] = a[c[k]] /\ (k \notin l..r => c[k] = k)
    BY <1>4, <1>5
<1> HIDE DEF c
<1>9. Ordering(c, t, a, l, r)
    BY <1>6, <1>7, <1>8 DEF Ordering, N
<1> QED
    BY <1>1, <1>9 DEF Rearranged

\* Nothing is lost or invented.
Places(s, l, r, v) == {k \in l..r : s[k] = v}

LEMMA RearrangedCounts ==
    ASSUME NEW a \in Seq(Int), NEW s \in Seq(Int), NEW l \in 1..(Len(a) + 1), NEW r \in 0..Len(a),
           Rearranged(s, a, l, r), NEW v
    PROVE  Cardinality(Places(s, l, r, v)) = Cardinality(Places(a, l, r, v))
<1> DEFINE N == 1..Len(a)
           S == {k \in l..r : s[k] = v}
           A == {k \in l..r : a[k] = v}
<1>1. PICK p : Ordering(p, s, a, l, r)
    BY DEF Rearranged
<1>2. /\ p \in [N -> N]
      /\ \A j, k \in N : p[j] = p[k] => j = k
      /\ \A k \in N : s[k] = a[p[k]] /\ (k \notin l..r => p[k] = k)
    BY <1>1 DEF Ordering
<1>3. l..r \subseteq N
    OBVIOUS
<1>4. \A i \in N : \E k \in N : p[k] = i
    <2>1. p \in Injection(N, N)
        BY <1>2 DEF Injection, IsInjective
    <2>2. IsFiniteSet(N)
        BY FS_Interval
    <2>3. p \in Surjection(N, N)
        BY <2>1, <2>2, FS_Injection
    <2> QED
        BY <2>3 DEF Surjection
<1> HIDE DEF N
<1>5. \A k \in l..r : p[k] \in l..r
    <2> SUFFICES ASSUME NEW k \in l..r, p[k] \notin l..r PROVE FALSE
        OBVIOUS
    <2>1. p[k] \in N /\ p[p[k]] = p[k]
        BY <1>2, <1>3
    <2> QED
        BY <1>2, <1>3, <2>1
<1>6. ASSUME NEW i \in l..r
      PROVE  \E k \in l..r : p[k] = i
    <2>1. PICK k \in N : p[k] = i
        BY <1>3, <1>4
    <2>2. k \in l..r
        BY <1>2, <2>1
    <2> QED
        BY <2>1, <2>2
<1> DEFINE b == [k \in S |-> p[k]]
<1>7. b \in [S -> A]
    BY <1>2, <1>3, <1>5
<1>8. \A j, k \in S : b[j] = b[k] => j = k
    BY <1>2, <1>3
<1>9. ASSUME NEW i \in A
      PROVE  \E k \in S : b[k] = i
    <2>1. PICK k \in l..r : p[k] = i
        BY <1>6
    <2>2. s[k] = v
        BY <1>2, <1>3, <2>1
    <2> QED
        BY <2>1, <2>2
<1>10. IsFiniteSet(S)
    <2>1. IsFiniteSet(l..r)
        BY FS_Interval
    <2> QED
        BY <2>1, FS_Subset
<1> HIDE DEF S, A, b
<1>11. b \in Bijection(S, A)
    BY <1>7, <1>8, <1>9 DEF Bijection, Injection, Surjection, IsInjective
<1>12. Cardinality(A) = Cardinality(S)
    BY <1>10, <1>11, FS_Bijection DEF ExistsBijection
<1> QED
    BY <1>12 DEF S, A, Places

-----------------------------------------------------------------------------
(* insertionSort.                                                          *)

\* Where the inner loop stops: what lies behind is greater than the key.
LEMMA StopIs ==
    ASSUME NEW a \in Seq(Int), NEW i \in 1..Len(a)
    PROVE  /\ Stop(a, i) \in 0..(i - 1)
           /\ Stop(a, i) > 0 => a[Stop(a, i)] <= a[i]
           /\ \A k \in (Stop(a, i) + 1)..(i - 1) : a[k] > a[i]
<1> DEFINE T == {0} \cup {j \in 1..(i - 1) : a[j] <= a[i]}
<1>1. T \subseteq 0..(i - 1) /\ T # {} /\ i - 1 \in Nat
    OBVIOUS
<1>2. Stop(a, i) \in T /\ \A y \in T : y <= Stop(a, i)
    <2> HIDE DEF T
    <2>1. Max(T) \in T /\ \A y \in T : y <= Max(T)
        BY <1>1, MaxIs
    <2> QED
        BY <2>1 DEF Stop, T
<1>3. \A k \in 1..(i - 1) : a[k] \in Int /\ a[i] \in Int
    OBVIOUS
<1>4. ASSUME NEW k \in (Stop(a, i) + 1)..(i - 1)
      PROVE  a[k] > a[i]
    <2>1. k \in 1..(i - 1) /\ ~(k <= Stop(a, i))
        BY <1>1, <1>2
    <2>2. k \notin T
        BY <1>2, <2>1
    <2> QED
        BY <1>3, <2>1, <2>2
<1>5. Stop(a, i) > 0 => a[Stop(a, i)] <= a[i]
    BY <1>2
<1>6. Stop(a, i) \in 0..(i - 1)
    BY <1>1, <1>2
<1> QED
    BY <1>4, <1>5, <1>6

\* The first i elements are in order.
AscendingUpTo(s, l, r) == \A k \in l..(r - 1) : s[k] <= s[k + 1]

LEMMA MoveKeyIs ==
    ASSUME NEW n \in Nat, NEW a \in [1..n -> Int], NEW i \in 1..n
    PROVE  \E p \in 1..i :
              /\ p > 1 => a[p - 1] <= a[i]
              /\ \A k \in p..(i - 1) : a[k] > a[i]
              /\ MoveKey(a, i) = [k \in 1..n |-> IF k \notin p..i THEN a[k]
                                                 ELSE IF k = p THEN a[i] ELSE a[k - 1]]
<1> DEFINE p == Stop(a, i) + 1
<1>1. a \in Seq(Int) /\ Len(a) = n /\ DOMAIN a = 1..n
    OBVIOUS
<1>2. /\ Stop(a, i) \in 0..(i - 1)
      /\ Stop(a, i) > 0 => a[Stop(a, i)] <= a[i]
      /\ \A k \in (Stop(a, i) + 1)..(i - 1) : a[k] > a[i]
    BY <1>1, StopIs
<1>3. p \in 1..i /\ (p > 1 => Stop(a, i) > 0) /\ p - 1 = Stop(a, i)
    BY <1>2
<1>4. MoveKey(a, i) = [k \in 1..n |-> IF k \notin p..i THEN a[k]
                                      ELSE IF k = p THEN a[i] ELSE a[k - 1]]
    BY <1>1 DEF MoveKey
<1> HIDE DEF p
<1> QED
    BY <1>2, <1>3, <1>4 DEF p

LEMMA MoveKeyType ==
    ASSUME NEW n \in Nat, NEW a \in [1..n -> Int], NEW i \in 1..n
    PROVE  MoveKey(a, i) \in [1..n -> Int]
<1>1. PICK p \in 1..i :
          /\ p > 1 => a[p - 1] <= a[i]
          /\ \A k \in p..(i - 1) : a[k] > a[i]
          /\ MoveKey(a, i) = [k \in 1..n |-> IF k \notin p..i THEN a[k]
                                             ELSE IF k = p THEN a[i] ELSE a[k - 1]]
    BY MoveKeyIs, Zenon
<1> QED
    BY <1>1

LEMMA MoveKeySorts ==
    ASSUME NEW n \in Nat, NEW a \in [1..n -> Int], NEW i \in 1..n, AscendingUpTo(a, 1, i - 1)
    PROVE  /\ MoveKey(a, i) \in [1..n -> Int]
           /\ AscendingUpTo(MoveKey(a, i), 1, i)
           /\ Rearranged(MoveKey(a, i), a, 1, n)
<1> DEFINE s == MoveKey(a, i)
<1>1. PICK p \in 1..i : /\ p > 1 => a[p - 1] <= a[i]
                        /\ \A k \in p..(i - 1) : a[k] > a[i]
                        /\ s = [k \in 1..n |-> IF k \notin p..i THEN a[k]
                                               ELSE IF k = p THEN a[i] ELSE a[k - 1]]
    BY MoveKeyIs
<1> HIDE DEF s
<1>2. s \in [1..n -> Int]
    BY <1>1
<1>3. ASSUME NEW k \in 1..(i - 1)
      PROVE  s[k] <= s[k + 1]
    <2>1. CASE k + 1 < p
        <3>1. s[k] = a[k] /\ s[k + 1] = a[k + 1]
            BY <1>1, <2>1
        <3> QED
            BY <2>1, <3>1 DEF AscendingUpTo
    <2>2. CASE k + 1 = p
        BY <1>1, <2>2
    <2>3. CASE k = p
        BY <1>1, <2>3
    <2>4. CASE k > p
        <3>1. s[k] = a[k - 1] /\ s[k + 1] = a[(k - 1) + 1]
            BY <1>1, <2>4
        <3>2. k - 1 \in 1..((i - 1) - 1)
            BY <2>4
        <3> QED
            BY <3>1, <3>2 DEF AscendingUpTo
    <2> QED
        BY <2>1, <2>2, <2>3, <2>4
<1> DEFINE q == [k \in 1..n |-> IF k \notin p..i THEN k ELSE IF k = p THEN i ELSE k - 1]
<1>4. q \in [1..n -> 1..n]
    OBVIOUS
<1>5. \A j, k \in 1..n : q[j] = q[k] => j = k
    OBVIOUS
<1>6. \A k \in 1..n : s[k] = a[q[k]] /\ (k \notin 1..n => q[k] = k)
    BY <1>1
<1>7. Len(a) = n /\ Len(s) = n
    BY <1>2
<1> HIDE DEF q
<1>8. Ordering(q, s, a, 1, n)
    BY <1>4, <1>5, <1>6, <1>7 DEF Ordering
<1> QED
    BY <1>2, <1>3, <1>7, <1>8 DEF AscendingUpTo, Rearranged, s

LEMMA insertionSortIs ==
    ASSUME NEW n \in Nat, NEW a \in [1..n -> Int]
    PROVE  /\ insertionSort(a) \in [1..n -> Int]
           /\ AscendingUpTo(insertionSort(a), 1, n)
           /\ Rearranged(insertionSort(a), a, 1, n)
<1> DEFINE A == [1..n -> Int]
           D == 0..n
           measure == [i \in D |-> i]
           body == [g \in [D -> A] |->
                       [i \in D |-> IF i <= 1 THEN a ELSE MoveKey(g[i - 1], i)]]
           moved == CHOOSE moved :
                       moved = [i \in D |-> IF i <= 1 THEN a ELSE MoveKey(moved[i - 1], i)]
<1>1. a \in Seq(Int) /\ Len(a) = n /\ DOMAIN a = 1..n
    OBVIOUS
<1>2. \A b \in A : \A i \in 1..n : MoveKey(b, i) \in A
    BY MoveKeyType
<1>3. Wellfounded(D, A, measure, body)
    <2>1. measure \in [D -> Nat]
        OBVIOUS
    <2>2. body \in [[D -> A] -> [D -> A]]
        <3>1. ASSUME NEW g \in [D -> A], NEW i \in D, ~(i <= 1)
              PROVE  MoveKey(g[i - 1], i) \in A
            <4>1. i - 1 \in D /\ i \in 1..n
                BY <3>1
            <4> QED
                BY <1>2, <4>1
        <3> HIDE DEF A, D
        <3> QED
            BY <3>1 DEF A
    <2>3. ASSUME NEW g \in [D -> A], NEW h \in [D -> A], NEW i \in D,
                 \A j \in D : measure[j] < measure[i] => g[j] = h[j]
          PROVE  body[g][i] = body[h][i]
        <3>1. CASE i <= 1
            BY <3>1
        <3>2. CASE ~(i <= 1)
            <4>1. i - 1 \in D /\ measure[i - 1] < measure[i]
                BY <3>2
            <4> QED
                BY <2>3, <4>1
        <3> QED
            BY <3>1, <3>2
    <2> HIDE DEF D, A, measure, body
    <2> QED
        BY <2>1, <2>2, <2>3 DEF Wellfounded
<1>4. \E g \in [D -> A] : g = body[g]
    <2>1. A # {}
        OBVIOUS
    <2> HIDE DEF A, D, measure, body
    <2> QED
        BY <1>3, <2>1, FixpointExists
<1>5. moved = [i \in D |-> IF i <= 1 THEN a ELSE MoveKey(moved[i - 1], i)]
    <2>1. PICK g \in [D -> A] : g = body[g]
        BY <1>4
    <2>2. g = [i \in D |-> IF i <= 1 THEN a ELSE MoveKey(g[i - 1], i)]
        BY <2>1
    <2> QED
        BY <2>2
<1>6. insertionSort(a) = moved[n]
    BY <1>1 DEF insertionSort
<1> HIDE DEF moved
<1> DEFINE S == {i \in D : /\ moved[i] \in A
                           /\ AscendingUpTo(moved[i], 1, i)
                           /\ Rearranged(moved[i], a, 1, n)}
<1>7. ASSUME NEW i \in D, i <= 1
      PROVE  i \in S
    <2>1. moved[i] = a
        BY <1>5, <1>7
    <2> QED
        BY <1>1, <1>7, <2>1, NotRearranged DEF AscendingUpTo
<1>8. ASSUME NEW i \in 0..(n - 1), i \in S
      PROVE  i + 1 \in S
    <2>1. CASE i + 1 <= 1
        BY <1>7, <2>1
    <2>2. CASE ~(i + 1 <= 1)
        <3>1. i + 1 \in D /\ i + 1 \in 1..n /\ (i + 1) - 1 = i
            OBVIOUS
        <3>2. moved[i + 1] = MoveKey(moved[i], i + 1)
            BY <1>5, <2>2, <3>1
        <3>3. /\ AscendingUpTo(moved[i], 1, (i + 1) - 1)
              /\ moved[i] \in [1..n -> Int] /\ Rearranged(moved[i], a, 1, n)
            BY <1>8, <3>1
        <3>4. /\ moved[i + 1] \in A
              /\ AscendingUpTo(moved[i + 1], 1, i + 1)
              /\ Rearranged(moved[i + 1], moved[i], 1, n)
            BY <3>1, <3>2, <3>3, MoveKeySorts, SMTT(30)
        <3>5. Rearranged(moved[i + 1], a, 1, n)
            BY <1>1, <3>3, <3>4, RearrangedAgain
        <3> QED
            BY <3>1, <3>4, <3>5
    <2> QED
        BY <2>1, <2>2
<1>9. 0 \in S
    BY <1>7
<1> HIDE DEF S
<1>10. \A i \in 0..n : i \in S
    BY <1>8, <1>9, CountedUp
<1>11. n \in S
    BY <1>10
<1> QED
    BY <1>6, <1>11 DEF S

-----------------------------------------------------------------------------
(* The histogram buckets.  The first one beyond a timeout exists.          *)

LEMMA DefBucketsType ==
    /\ DefBuckets \in Seq(Nat)
    /\ Len(DefBuckets) \in Nat \ {0}
    /\ DOMAIN DefBuckets = 1..Len(DefBuckets)
    /\ \A k \in 1..Len(DefBuckets) : DefBuckets[k] \in Nat /\ DefBuckets[k] > 0
BY BucketsAssumption

LEMMA FirstBeyondFound ==
    ASSUME NEW t \in Nat, t < MaxBucket
    PROVE  /\ FirstBeyond(t) \in 1..Len(DefBuckets)
           /\ DefBuckets[FirstBeyond(t)] > t
           /\ \A j \in 1..(FirstBeyond(t) - 1) : DefBuckets[j] <= t
<1> DEFINE T == {i \in DOMAIN DefBuckets : DefBuckets[i] > t}
<1>1. T \subseteq Nat /\ T # {}
    BY DefBucketsType DEF MaxBucket
<1>2. PICK i \in T : \A j \in T : i <= j
    BY <1>1, Smallest, Zenon
<1>3. i \in 1..Len(DefBuckets) /\ DefBuckets[i] > t
    BY <1>2, DefBucketsType
<1>4. ASSUME NEW j \in 1..(i - 1)
      PROVE  DefBuckets[j] <= t
    <2>1. j \in 1..Len(DefBuckets) /\ ~(i <= j)
        BY <1>3, DefBucketsType
    <2>2. j \notin T
        BY <1>2, <2>1
    <2> QED
        BY <2>1, <2>2, DefBucketsType
<1> QED
    BY <1>3, <1>4, DefBucketsType, Zenon DEF FirstBeyond

-----------------------------------------------------------------------------
(* The two results that add buckets, by index.                             *)

LEMMA InsertedIs ==
    ASSUME NEW t \in Nat, t < MaxBucket
    PROVE  LET i == FirstBeyond(t)
           IN  /\ Inserted(t) \in Seq(Int)
               /\ Len(Inserted(t)) = Len(DefBuckets) + 1
               /\ \A k \in 1..(i - 1) : Inserted(t)[k] = DefBuckets[k]
               /\ Inserted(t)[i] = t
               /\ \A k \in i..Len(DefBuckets) : Inserted(t)[k + 1] = DefBuckets[k]
<1> DEFINE i == FirstBeyond(t)
           L == Len(DefBuckets)
           a == SubSeq(DefBuckets, 1, i - 1)
           b == <<t>>
           c == SubSeq(DefBuckets, i, L)
<1>1. i \in 1..L /\ L \in Nat
    BY FirstBeyondFound, DefBucketsType
<1> HIDE DEF i, L
<1>2. /\ a \in Seq(Nat) /\ Len(a) = i - 1
      /\ \A k \in 1..(i - 1) : a[k] = DefBuckets[k]
    <2>1. \A k \in 1..(i - 1) : DefBuckets[k] \in Nat
        BY <1>1, DefBucketsType DEF L
    <2>2. DefBuckets \in Seq(Nat) /\ 1 \in 1..(Len(DefBuckets) + 1) /\ i - 1 \in 0..Len(DefBuckets)
        BY <1>1, DefBucketsType DEF L
    <2> QED
        BY <1>1, <2>1, <2>2 DEF a
<1>3. /\ c \in Seq(Nat) /\ Len(c) = L - i + 1
      /\ \A k \in 1..(L - i + 1) : c[k] = DefBuckets[i + k - 1]
    <2>1. \A k \in i..L : DefBuckets[k] \in Nat
        BY <1>1, DefBucketsType DEF L
    <2>2. DefBuckets \in Seq(Nat) /\ i \in 1..(Len(DefBuckets) + 1) /\ L \in 0..Len(DefBuckets)
        BY <1>1, DefBucketsType DEF L
    <2> QED
        BY <1>1, <2>1, <2>2 DEF c
<1>4. b \in Seq(Nat) /\ Len(b) = 1 /\ b[1] = t
    OBVIOUS
<1>5. Inserted(t) = (a \o b) \o c
    BY DEF Inserted, InsertAt, i, L
<1> HIDE DEF a, b, c
<1>6. /\ a \in Seq(Int) /\ b \in Seq(Int) /\ c \in Seq(Int)
      /\ i - 1 \in Nat /\ L - i + 1 \in Nat
    BY <1>1, <1>2, <1>3, <1>4
<1>7. /\ a \o b \in Seq(Int)
      /\ Len(a \o b) = (i - 1) + 1
      /\ \A k \in 1..(i - 1) : (a \o b)[k] = a[k]
      /\ \A k \in 1..1 : (a \o b)[(i - 1) + k] = b[k]
    <2>1. /\ a \o b \in Seq(Int)
          /\ Len(a \o b) = Len(a) + Len(b)
          /\ \A k \in 1..Len(a) : (a \o b)[k] = a[k]
          /\ \A k \in 1..Len(b) : (a \o b)[Len(a) + k] = b[k]
        BY <1>6, ConcatIs, Zenon
    <2> QED
        BY <1>2, <1>4, <1>6, <2>1
<1>8. Len(a \o b) = i /\ (a \o b)[i] = t
    BY <1>1, <1>4, <1>7
<1>9. /\ (a \o b) \o c \in Seq(Int)
      /\ Len((a \o b) \o c) = i + (L - i + 1)
      /\ \A k \in 1..i : ((a \o b) \o c)[k] = (a \o b)[k]
      /\ \A k \in 1..(L - i + 1) : ((a \o b) \o c)[i + k] = c[k]
    <2>1. /\ (a \o b) \o c \in Seq(Int)
          /\ Len((a \o b) \o c) = Len((a \o b)) + Len(c)
          /\ \A k \in 1..Len((a \o b)) : ((a \o b) \o c)[k] = (a \o b)[k]
          /\ \A k \in 1..Len(c) : ((a \o b) \o c)[Len((a \o b)) + k] = c[k]
        BY <1>6, <1>7, ConcatIs, Zenon
    <2> QED
        BY <1>3, <1>6, <1>8, <2>1
<1>10. ASSUME NEW k \in 1..(i - 1)
       PROVE  Inserted(t)[k] = DefBuckets[k]
    <2>1. k \in 1..i
        BY <1>1
    <2> QED
        BY <2>1, <1>2, <1>5, <1>7, <1>9
<1>11. Inserted(t)[i] = t
    BY <1>1, <1>5, <1>8, <1>9
<1>12. ASSUME NEW k \in i..L
       PROVE  Inserted(t)[k + 1] = DefBuckets[k]
    <2>1. k - i + 1 \in 1..(L - i + 1)
        BY <1>1
    <2>2. /\ ((a \o b) \o c)[i + (k - i + 1)] = c[k - i + 1]
          /\ c[k - i + 1] = DefBuckets[i + (k - i + 1) - 1]
        BY <2>1, <1>3, <1>9
    <2>3. i + (k - i + 1) = k + 1 /\ i + (k - i + 1) - 1 = k
        BY <1>1
    <2> QED
        BY <2>2, <2>3, <1>5
<1>13. Len(Inserted(t)) = L + 1
    BY <1>1, <1>5, <1>9
<1>14. Inserted(t) \in Seq(Int)
    BY <1>5, <1>9
<1> QED
    BY <1>10, <1>11, <1>12, <1>13, <1>14 DEF i, L

LEMMA ExtendedIs ==
    ASSUME NEW t \in Nat
    PROVE  LET L == Len(DefBuckets)
           IN  /\ Len(Extended(t)) = L + 4
               /\ \A k \in 1..L : Extended(t)[k] = DefBuckets[k]
               /\ Extended(t)[L + 1] = MaxBucket + (t - MaxBucket) \div 2
               /\ Extended(t)[L + 2] = t
               /\ Extended(t)[L + 3] = (t * 3) \div 2
               /\ Extended(t)[L + 4] = t * 2
<1> DEFINE b == <<MaxBucket + (t - MaxBucket) \div 2, t, (t * 3) \div 2, t * 2>>
<1>1. MaxBucket \in Nat
    BY DefBucketsType DEF MaxBucket
<1>2. /\ b \in Seq(Int) /\ Len(b) = 4
      /\ b[1] = MaxBucket + (t - MaxBucket) \div 2
      /\ b[2] = t /\ b[3] = (t * 3) \div 2 /\ b[4] = t * 2
    BY <1>1
<1>3. Extended(t) = DefBuckets \o b
    BY DEF Extended
<1>4. DefBuckets \in Seq(Int)
    BY DefBucketsType
<1> HIDE DEF b
<1>5. Len(DefBuckets) \in Nat
    BY DefBucketsType
<1>6. /\ Len(DefBuckets \o b) = Len(DefBuckets) + 4
      /\ \A k \in 1..Len(DefBuckets) : (DefBuckets \o b)[k] = DefBuckets[k]
      /\ \A k \in 1..4 : (DefBuckets \o b)[Len(DefBuckets) + k] = b[k]
    <2>1. /\ DefBuckets \o b \in Seq(Int)
          /\ Len(DefBuckets \o b) = Len(DefBuckets) + Len(b)
          /\ \A k \in 1..Len(DefBuckets) : (DefBuckets \o b)[k] = DefBuckets[k]
          /\ \A k \in 1..Len(b) : (DefBuckets \o b)[Len(DefBuckets) + k] = b[k]
        BY <1>2, <1>4, ConcatIs, Zenon
    <2> QED
        BY <1>2, <2>1
<1> QED
    BY <1>2, <1>3, <1>6

-----------------------------------------------------------------------------

LEMMA InsertedIncreases ==
    ASSUME NEW t \in Timeouts, t < MaxBucket, ~CloseToBucket(t)
    PROVE  Increasing(Inserted(t))
<1> DEFINE i == FirstBeyond(t)
           L == Len(DefBuckets)
           r == Inserted(t)
<1>0. t \in Nat
    BY BucketsAssumption
<1>1. /\ i \in 1..L /\ L \in Nat
      /\ DefBuckets[i] > t
      /\ i > 1 => DefBuckets[i - 1] \in Nat /\ DefBuckets[i - 1] < t
    <2>1. i > 1 => ~(t - DefBuckets[i - 1] < DefBuckets[1])
        BY DEF CloseToBucket
    <2> QED
        BY <1>0, <2>1, FirstBeyondFound, DefBucketsType
<1>2. /\ Len(r) = L + 1
      /\ \A k \in 1..(i - 1) : r[k] = DefBuckets[k]
      /\ r[i] = t
      /\ \A k \in i..L : r[k + 1] = DefBuckets[k]
    BY <1>0, InsertedIs
<1>3. \A k \in 1..(L - 1) : DefBuckets[k] < DefBuckets[k + 1]
    BY BucketsAssumption DEF Increasing
<1> HIDE DEF i, L, r
<1>4. ASSUME NEW k \in 1..L
      PROVE  r[k] < r[k + 1]
    <2>1. CASE k < i - 1
        <3>1. k \in 1..(i - 1) /\ k + 1 \in 1..(i - 1) /\ k \in 1..(L - 1)
            BY <1>1, <2>1
        <3> QED
            BY <3>1, <1>2, <1>3
    <2>2. CASE k = i - 1
        BY <1>1, <1>2, <2>2
    <2>3. CASE k = i
        BY <1>1, <1>2, <2>3
    <2>4. CASE k > i
        <3>1. k \in i..L /\ k - 1 \in i..L /\ k - 1 \in 1..(L - 1)
            BY <1>1, <2>4
        <3>2. r[(k - 1) + 1] = DefBuckets[k - 1] /\ r[k + 1] = DefBuckets[k]
            BY <3>1, <1>2
        <3>3. DefBuckets[k - 1] < DefBuckets[(k - 1) + 1]
            BY <3>1, <1>3
        <3>4. (k - 1) + 1 = k
            BY <1>1
        <3> QED
            BY <3>2, <3>3, <3>4
    <2> QED
        BY <1>1, <2>1, <2>2, <2>3, <2>4
<1> QED
    BY <1>1, <1>2, <1>4 DEF Increasing, r

LEMMA ExtendedIncreases ==
    ASSUME NEW t \in Timeouts, t > MaxBucket
    PROVE  Increasing(Extended(t))
<1> DEFINE L == Len(DefBuckets)
           r == Extended(t)
<1>1. t \in Nat /\ t % 2 = 0 /\ MaxBucket \in Nat /\ MaxBucket % 2 = 0 /\ L \in Nat
    BY BucketsAssumption, DefBucketsType DEF MaxBucket
<1>2. /\ Len(r) = L + 4
      /\ \A k \in 1..L : r[k] = DefBuckets[k]
      /\ r[L + 1] = MaxBucket + (t - MaxBucket) \div 2
      /\ r[L + 2] = t
      /\ r[L + 3] = (t * 3) \div 2
      /\ r[L + 4] = t * 2
    BY <1>1, ExtendedIs
<1>3. \A k \in 1..(L - 1) : DefBuckets[k] < DefBuckets[k + 1]
    BY BucketsAssumption DEF Increasing
<1>4. r[L] = MaxBucket
    BY <1>2, DefBucketsType DEF MaxBucket
<1> HIDE DEF r, L
<1>5. r[L] < r[L + 1] /\ r[L + 1] < r[L + 2]
    BY <1>1, <1>2, <1>4
<1>6. r[L + 2] < r[L + 3] /\ r[L + 3] < r[L + 4]
    BY <1>1, <1>2
<1>7. ASSUME NEW k \in 1..(L + 3)
      PROVE  r[k] < r[k + 1]
    <2>1. CASE k < L
        BY <1>1, <1>2, <1>3, <2>1
    <2>2. CASE k = L
        BY <1>5, <2>2
    <2>3. CASE k = L + 1
        BY <1>1, <1>5, <2>3
    <2>4. CASE k = L + 2
        BY <1>1, <1>6, <2>4
    <2>5. CASE k = L + 3
        BY <1>1, <1>6, <2>5
    <2> QED
        BY <1>1, <2>1, <2>2, <2>3, <2>4, <2>5
<1> QED
    BY <1>1, <1>2, <1>7 DEF Increasing, r

LEMMA DefaultsKept ==
    ASSUME NEW t \in Timeouts
    PROVE  ToSet(DefBuckets) \subseteq ToSet(BucketsForScrapeDuration(t))
<1> DEFINE L == Len(DefBuckets)
           r == BucketsForScrapeDuration(t)
<1>1. t \in Nat /\ MaxBucket \in Nat /\ L \in Nat
    BY BucketsAssumption, DefBucketsType DEF MaxBucket
<1>2. ASSUME NEW k \in 1..L
      PROVE  \E j \in DOMAIN r : r[j] = DefBuckets[k]
    <2>1. CASE t > MaxBucket
        <3>1. r = Extended(t)
            BY <2>1 DEF BucketsForScrapeDuration
        <3>2. /\ Len(Extended(t)) = L + 4
              /\ \A m \in 1..L : Extended(t)[m] = DefBuckets[m]
            BY <1>1, ExtendedIs, Zenon
        <3>3. r \in Seq(Int)
            BY <1>1, <3>1, DefBucketsType DEF Extended
        <3>4. DOMAIN r = 1..(L + 4)
            BY <3>1, <3>2, <3>3
        <3>5. k \in DOMAIN r
            BY <1>1, <3>4
        <3> QED
            BY <3>1, <3>2, <3>5, Zenon
    <2>2. CASE t < MaxBucket /\ ~CloseToBucket(t)
        <3>1. r = Inserted(t)
            BY <1>1, <2>2 DEF BucketsForScrapeDuration
        <3>2. /\ Len(r) = L + 1
              /\ \A m \in 1..(FirstBeyond(t) - 1) : r[m] = DefBuckets[m]
              /\ \A m \in FirstBeyond(t)..L : r[m + 1] = DefBuckets[m]
              /\ r \in Seq(Int)
            BY <1>1, <2>2, <3>1, InsertedIs
        <3>3. FirstBeyond(t) \in 1..L
            BY <1>1, <2>2, FirstBeyondFound
        <3>5. DOMAIN r = 1..(L + 1)
            BY <3>2
        <3>6. CASE k < FirstBeyond(t)
            <4>1. k \in 1..(FirstBeyond(t) - 1) /\ k \in DOMAIN r
                BY <1>1, <3>3, <3>5, <3>6
            <4> QED
                BY <4>1, <3>2, Zenon
        <3>7. CASE ~(k < FirstBeyond(t))
            <4>1. k \in FirstBeyond(t)..L /\ k + 1 \in DOMAIN r
                BY <1>1, <3>3, <3>5, <3>7
            <4> QED
                BY <4>1, <3>2
        <3> QED
            BY <3>6, <3>7
    <2>3. CASE ~(t > MaxBucket) /\ ~(t < MaxBucket /\ ~CloseToBucket(t))
        <3>1. r = DefBuckets
            BY <2>3 DEF BucketsForScrapeDuration
        <3> QED
            BY <3>1, DefBucketsType
    <2> QED
        BY <2>1, <2>2, <2>3
<1> QED
    BY <1>2, DefBucketsType DEF ToSet

LEMMA DefaultsIn ==
    ASSUME NEW t \in Timeouts, NEW k \in 1..Len(DefBuckets)
    PROVE  DefBuckets[k] \in ToSet(BucketsForScrapeDuration(t))
<1>1. DefBuckets[k] \in ToSet(DefBuckets)
    BY DefBucketsType DEF ToSet
<1> QED
    BY <1>1, DefaultsKept

\* The timeout is a bucket, or less than the smallest bucket away from one.
Near(t, r) ==
    \E b \in ToSet(r) : {b - t, t - b} \subseteq -DefBuckets[1]..DefBuckets[1]

LEMMA TimeoutPinpointed ==
    ASSUME NEW t \in Timeouts
    PROVE  Near(t, BucketsForScrapeDuration(t))
<1> DEFINE L == Len(DefBuckets)
           r == BucketsForScrapeDuration(t)
<1>1. t \in Nat /\ MaxBucket \in Nat /\ L \in Nat \ {0}
      /\ DefBuckets[1] \in Nat /\ DefBuckets[1] > 0
    BY BucketsAssumption, DefBucketsType DEF MaxBucket
<1> HIDE DEF r
<1> SUFFICES Near(t, r)
    BY DEF r
<1>2. ASSUME t \in ToSet(r)
      PROVE  Near(t, r)
    <2>1. {t - t, t - t} \subseteq -DefBuckets[1]..DefBuckets[1]
        BY <1>1
    <2> QED
        BY <1>2, <2>1 DEF Near
<1>3. ASSUME NEW k \in 1..L,
             DefBuckets[k] - t < DefBuckets[1] /\ t - DefBuckets[k] < DefBuckets[1]
      PROVE  Near(t, r)
    <2>1. {DefBuckets[k] - t, t - DefBuckets[k]} \subseteq -DefBuckets[1]..DefBuckets[1]
        BY <1>1, <1>3, DefBucketsType
    <2>2. DefBuckets[k] \in ToSet(r)
        BY DefaultsIn DEF r
    <2> QED
        BY <2>1, <2>2 DEF Near
<1>4. CASE t > MaxBucket
    <2>1. r = Extended(t)
        BY <1>4 DEF r, BucketsForScrapeDuration
    <2>2. Extended(t)[L + 2] = t /\ Len(Extended(t)) = L + 4
        BY <1>1, ExtendedIs, Zenon
    <2>3. r \in Seq(Int)
        BY <1>1, <2>1, DefBucketsType DEF Extended
    <2>4. L + 2 \in DOMAIN r
        BY <1>1, <2>1, <2>2, <2>3
    <2>5. t \in ToSet(r)
        BY <2>1, <2>2, <2>4 DEF ToSet
    <2> QED
        BY <1>2, <2>5
<1>5. CASE t < MaxBucket /\ ~CloseToBucket(t)
    <2>1. r = Inserted(t)
        BY <1>1, <1>5 DEF r, BucketsForScrapeDuration
    <2>2. FirstBeyond(t) \in 1..L
        BY <1>1, <1>5, FirstBeyondFound
    <2>3. r[FirstBeyond(t)] = t /\ Len(r) = L + 1 /\ r \in Seq(Int)
        BY <1>1, <1>5, <2>1, InsertedIs
    <2>5. FirstBeyond(t) \in DOMAIN r
        BY <1>1, <2>2, <2>3
    <2>6. t \in ToSet(r)
        BY <2>3, <2>5 DEF ToSet
    <2> QED
        BY <1>2, <2>6
<1>6. CASE t < MaxBucket /\ CloseToBucket(t)
    <2> DEFINE i == FirstBeyond(t)
    <2>1. /\ i \in 1..L /\ DefBuckets[i] > t
          /\ \A j \in 1..(i - 1) : DefBuckets[j] <= t
        BY <1>1, <1>6, FirstBeyondFound
    <2>2. \/ DefBuckets[i] - t < DefBuckets[1]
          \/ i > 1 /\ t - DefBuckets[i - 1] < DefBuckets[1]
        BY <1>6 DEF CloseToBucket
    <2> HIDE DEF i
    <2>3. CASE DefBuckets[i] - t < DefBuckets[1]
        BY <1>1, <1>3, <2>1, <2>3, DefBucketsType
    <2>4. CASE i > 1 /\ t - DefBuckets[i - 1] < DefBuckets[1]
        <3>1. i - 1 \in 1..L /\ i - 1 \in 1..(i - 1)
            BY <1>1, <2>1, <2>4
        <3>2. DefBuckets[i - 1] - t < DefBuckets[1]
            BY <1>1, <2>1, <3>1, DefBucketsType
        <3> QED
            BY <1>3, <2>4, <3>1, <3>2
    <2> QED
        BY <2>2, <2>3, <2>4
<1>7. CASE t = MaxBucket
    <2>1. L \in 1..L /\ DefBuckets[L] = t
        BY <1>1, <1>7 DEF MaxBucket
    <2> QED
        BY <1>1, <1>3, <2>1
<1> QED
    BY <1>1, <1>4, <1>5, <1>6, <1>7

-----------------------------------------------------------------------------

\* Whatever the default buckets and the timeout are, the Prometheus client
\* accepts the result, and no default bucket is lost (pkg/metrics/util.go).
THEOREM AlwaysAcceptable == Spec => []Acceptable
<1> DEFINE Inv == Acceptable /\ scrapeTimeout \in Timeouts
<1>1. Init => Inv
    BY DEF Init, Acceptable
<1>2. Inv /\ [Next]_vars => Inv'
    <2> SUFFICES ASSUME Inv, [Next]_vars
                 PROVE  Inv'
        OBVIOUS
    <2>1. CASE Register
        <3> DEFINE t == scrapeTimeout
        <3>1. buckets' = BucketsForScrapeDuration(t) /\ t \in Timeouts /\ t' = t
            BY <2>1 DEF Register
        <3>2. t \in Nat /\ MaxBucket \in Nat
            BY <3>1, BucketsAssumption, DefBucketsType DEF MaxBucket
        <3> HIDE DEF t
        <3>3. Increasing(BucketsForScrapeDuration(t))
            <4>1. CASE t > MaxBucket
                BY <3>1, <4>1, ExtendedIncreases DEF BucketsForScrapeDuration
            <4>2. CASE t < MaxBucket /\ ~CloseToBucket(t)
                BY <3>1, <3>2, <4>2, InsertedIncreases DEF BucketsForScrapeDuration
            <4>3. CASE ~(t > MaxBucket) /\ ~(t < MaxBucket /\ ~CloseToBucket(t))
                BY <4>3, BucketsAssumption DEF BucketsForScrapeDuration
            <4> QED
                BY <4>1, <4>2, <4>3
        <3>4. ToSet(DefBuckets) \subseteq ToSet(BucketsForScrapeDuration(t))
            BY <3>1, DefaultsKept
        <3> QED
            BY <3>1, <3>3, <3>4 DEF Acceptable, t
    <2>2. CASE UNCHANGED vars
        BY <2>2 DEF vars, Acceptable
    <2> QED
        BY <2>1, <2>2 DEF Next
<1>3. Inv => Acceptable
    OBVIOUS
<1> QED
    BY <1>1, <1>2, <1>3, PTL DEF Spec

\* The scrape timeout can be read off the histogram, whatever it and the default
\* buckets are: some bucket ends less than the smallest bucket from it, where the
\* loop adds none (pkg/metrics/util.go lines 26-29) as well as where it does.
THEOREM AlwaysPinpointed == Spec => []Pinpointed
<1> DEFINE Inv == Pinpointed /\ scrapeTimeout \in Timeouts
<1>1. Init => Inv
    BY DEF Init, Pinpointed
<1>2. Inv /\ [Next]_vars => Inv'
    BY TimeoutPinpointed DEF Next, Register, vars, Pinpointed, Near
<1>3. Inv => Pinpointed
    OBVIOUS
<1> QED
    BY <1>1, <1>2, <1>3, PTL DEF Spec

-----------------------------------------------------------------------------
(* The kubelet client.                                                     *)

\* What the property says of one configuration, the flags and the client made
\* of them.
Trustworthy(cfg, flags, made) ==
    LET told == flags.insecureTLS \/ flags.completelyInsecure
    IN  /\ made.refused <=> ~told /\ cfg.tls.insecure /\ flags.caFile # NoCA
        /\ made.scheme = "http" => ~made.authenticates
        /\ ~told /\ ~cfg.tls.insecure =>
              /\ made.verifies
              /\ made.authority = IF flags.caFile # NoCA THEN flags.caFile
                                  ELSE Authority(cfg.tls)

LEMMA ClientIsTrustworthy ==
    ASSUME NEW cfg \in Configs, NEW flags \in Flags
    PROVE  Trustworthy(cfg, flags, KubeletClient(cfg, flags))
<1> DEFINE own == cfg.tls
           with == WithKubeletCA(cfg, flags)
           get == GetKubeletConfig(with, flags)
           made == KubeletClient(cfg, flags)
<1> HIDE DEF made
<1> SUFFICES Trustworthy(cfg, flags, made)
    BY DEF made
<1>1. /\ cfg = [token |-> cfg.token, tls |-> own] /\ cfg.token \in BOOLEAN
      /\ own = [caData |-> own.caData, caFile |-> own.caFile,
                insecure |-> own.insecure, cert |-> own.cert]
      /\ own.caData \in Authorities /\ own.caFile \in Authorities
      /\ own.insecure \in BOOLEAN /\ own.cert \in BOOLEAN /\ ~Contradictory(own)
      /\ flags.caFile \in Authorities
      /\ flags.insecureTLS \in BOOLEAN /\ flags.completelyInsecure \in BOOLEAN
    <2>1. cfg \in [token : BOOLEAN, tls : TLSType] /\ flags \in FlagsType /\ ~Contradictory(own)
        BY ConfigsAssumption
    <2> QED
        BY <2>1 DEF TLSType, FlagsType
<1>2. /\ made.refused = Contradictory(get.tls)
      /\ made.scheme = Scheme(flags)
      /\ made.verifies = ~get.tls.insecure
      /\ made.authority = Authority(get.tls)
      /\ made.authenticates = (get.token \/ get.tls.cert)
    BY DEF made, KubeletClient, KubeletClientFor
<1>3. /\ with.tls.insecure = own.insecure /\ with.token = cfg.token
      /\ flags.caFile = NoCA => with = cfg
      /\ flags.caFile # NoCA => /\ with.tls.caFile = flags.caFile
                               /\ with.tls.caData = NoCA
    BY <1>1 DEF WithKubeletCA
<1>4. CASE flags.completelyInsecure
    <2>1. get = [Anonymous(with) EXCEPT !.tls = EmptyTLS]
        BY <1>4 DEF GetKubeletConfig
    <2>2. get.tls = EmptyTLS /\ get.token = FALSE
        BY <2>1 DEF Anonymous
    <2>3. get.tls.insecure = FALSE /\ get.tls.cert = FALSE /\ ~Contradictory(get.tls)
        BY <2>2 DEF EmptyTLS, Contradictory
    <2> HIDE DEF get
    <2> QED
        BY <1>2, <1>4, <2>2, <2>3 DEF Trustworthy
<1>5. CASE ~flags.completelyInsecure /\ flags.insecureTLS
    <2>1. ~Contradictory(get.tls)
        <3> DEFINE T == [caData : Authorities \cup {NoCA}, caFile : Authorities \cup {NoCA},
                         insecure : BOOLEAN, cert : BOOLEAN]
        <3>1. cfg \in [token : BOOLEAN, tls : T]
            <4>1. cfg = [token |-> cfg.token, tls |-> own] /\ own \in T
                BY <1>1
            <4> QED
                BY <1>1, <4>1
        <3>2. with \in [token : BOOLEAN, tls : T]
            <4>1. flags.caFile \in Authorities \cup {NoCA}
                BY <1>1
            <4>2. with = cfg
                  \/ with = [cfg EXCEPT !.tls.caFile = flags.caFile, !.tls.caData = NoCA]
                BY Zenon DEF WithKubeletCA
            <4> HIDE DEF with
            <4>3. CASE with = [cfg EXCEPT !.tls.caFile = flags.caFile, !.tls.caData = NoCA]
                <5>1. with.token = cfg.token /\ with = [token |-> with.token, tls |-> with.tls]
                    BY <3>1, <4>3
                <5>2. with.tls = [[own EXCEPT !.caFile = flags.caFile] EXCEPT !.caData = NoCA]
                    BY <3>1, <4>3
                <5>3. with.tls \in T
                    BY <3>1, <4>1, <5>2
                <5> QED
                    BY <3>1, <5>1, <5>3
            <4> QED
                BY <3>1, <4>2, <4>3
        <3> HIDE DEF with
        <3>3. get = [with EXCEPT !.tls = [with.tls EXCEPT !.insecure = TRUE, !.caData = NoCA,
                                                          !.caFile = NoCA]]
            BY <1>5 DEF GetKubeletConfig
        <3>4. get.tls = [with.tls EXCEPT !.insecure = TRUE, !.caData = NoCA, !.caFile = NoCA]
            BY <3>2, <3>3
        <3> HIDE DEF get
        <3>5. get.tls.caData = NoCA /\ get.tls.caFile = NoCA
            BY <3>2, <3>4
        <3> QED
            BY <3>5 DEF Contradictory, HasCA
    <2> HIDE DEF get
    <2> QED
        BY <1>2, <1>5, <2>1 DEF Trustworthy, Scheme
<1>6. CASE ~flags.completelyInsecure /\ ~flags.insecureTLS
    <2>1. get = with
        BY <1>6 DEF GetKubeletConfig
    <2>2. CASE flags.caFile = NoCA
        <3>1. get = cfg
            BY <1>3, <2>1, <2>2
        <3> HIDE DEF get, with
        <3> QED
            BY <1>1, <1>2, <1>6, <2>2, <3>1 DEF Trustworthy, Scheme
    <2>3. CASE flags.caFile # NoCA
        <3>1. /\ get.tls.caFile = flags.caFile /\ get.tls.caData = NoCA
              /\ get.tls.insecure = own.insecure
            BY <1>3, <2>1, <2>3
        <3> HIDE DEF get, with
        <3>2. Contradictory(get.tls) <=> own.insecure
            BY <1>1, <2>3, <3>1 DEF Contradictory, HasCA
        <3>3. Authority(get.tls) = flags.caFile
            BY <3>1 DEF Authority
        <3> QED
            BY <1>1, <1>2, <1>6, <2>3, <3>1, <3>2, <3>3 DEF Trustworthy, Scheme
    <2> QED
        BY <2>2, <2>3
<1> QED
    BY <1>1, <1>4, <1>5, <1>6

\* Whatever the configuration for the API server and the flags are, the client
\* refuses only a CA that it is not to verify with, shows who the server is only
\* encrypted, and verifies kubelets unless it was told otherwise (start.go lines
\* 178-187, configs.go lines 24-40).
THEOREM KubeletAlwaysTrusted == KubeletSpec => []KubeletTrust
<1> DEFINE Inv == KubeletTrust /\ given \in [cfg : Configs, flags : Flags]
<1>1. KubeletInit => Inv
    BY DEF KubeletInit, KubeletTrust
<1>2. Inv /\ [MakeClient]_kubeletVars => Inv'
    <2> SUFFICES ASSUME Inv, [MakeClient]_kubeletVars PROVE Inv'
        OBVIOUS
    <2>1. given' = given /\ (client' = {KubeletClient(given.cfg, given.flags)} \/ client' = client)
        BY DEF MakeClient, kubeletVars
    <2>2. Trustworthy(given.cfg, given.flags, KubeletClient(given.cfg, given.flags))
        BY ClientIsTrustworthy
    <2> QED
        BY <2>1, <2>2 DEF KubeletTrust, Trustworthy
<1>3. Inv => KubeletTrust
    OBVIOUS
<1> QED
    BY <1>1, <1>2, <1>3, PTL DEF KubeletSpec

-----------------------------------------------------------------------------
(* mergeSort.                                                              *)

\* After k steps left[k] elements come from L and the others from R.
Takes(left, L, R) ==
    /\ left \in [0..(Len(L) + Len(R)) -> Nat]
    /\ left[0] = 0
    /\ \A k \in 1..(Len(L) + Len(R)) :
          left[k] = IF TakesLeft(L, R, left[k - 1], k - 1 - left[k - 1])
                    THEN left[k - 1] + 1 ELSE left[k - 1]

LEMMA MergedIs ==
    ASSUME NEW L \in Seq(Int), NEW R \in Seq(Int)
    PROVE  \E left : /\ Takes(left, L, R)
                     /\ Merged(L, R) = [k \in 1..(Len(L) + Len(R)) |->
                            IF left[k] > left[k - 1] THEN L[left[k]] ELSE R[k - left[k]]]
<1> DEFINE N == Len(L) + Len(R)
           D == 0..N
           A == Nat
           measure == [k \in D |-> k]
           body == [g \in [D -> A] |->
                       [k \in D |-> IF k = 0 THEN 0
                                    ELSE LET i == g[k - 1]
                                         IN  IF TakesLeft(L, R, i, k - 1 - i) THEN i + 1 ELSE i]]
           left == CHOOSE left :
                       left = [k \in D |-> IF k = 0 THEN 0
                                    ELSE LET i == left[k - 1]
                                         IN  IF TakesLeft(L, R, i, k - 1 - i) THEN i + 1 ELSE i]
<1>1. N \in Nat
    OBVIOUS
<1>2. Merged(L, R) = [k \in 1..N |-> IF left[k] > left[k - 1] THEN L[left[k]] ELSE R[k - left[k]]]
    BY DEF Merged
<1> HIDE DEF N
<1>3. Wellfounded(D, A, measure, body)
    <2>1. measure \in [D -> Nat]
        BY <1>1
    <2>2. body \in [[D -> A] -> [D -> A]]
        <3>1. ASSUME NEW g \in [D -> A], NEW k \in D, k # 0
              PROVE  g[k - 1] \in Nat
            BY <1>1, <3>1
        <3> HIDE DEF D
        <3> QED
            BY <3>1
    <2>3. ASSUME NEW g \in [D -> A], NEW h \in [D -> A], NEW k \in D,
                 \A j \in D : measure[j] < measure[k] => g[j] = h[j]
          PROVE  body[g][k] = body[h][k]
        <3>1. CASE k = 0
            BY <3>1
        <3>2. CASE k # 0
            <4>1. k - 1 \in D /\ measure[k - 1] < measure[k]
                BY <1>1, <3>2
            <4>2. g[k - 1] = h[k - 1]
                BY <2>3, <4>1
            <4> HIDE DEF D
            <4> QED
                BY <4>2
        <3> QED
            BY <3>1, <3>2
    <2> HIDE DEF D, measure, body
    <2> QED
        BY <2>1, <2>2, <2>3 DEF Wellfounded
<1>4. PICK g \in [D -> A] : g = body[g]
    <2>1. A # {}
        OBVIOUS
    <2> HIDE DEF A, D, measure, body, left
    <2> QED
        BY <1>3, <2>1, FixpointExists
<1>5. left = [k \in D |-> IF k = 0 THEN 0
                          ELSE LET i == left[k - 1]
                               IN  IF TakesLeft(L, R, i, k - 1 - i) THEN i + 1 ELSE i]
    <2>1. g = [k \in D |-> IF k = 0 THEN 0
                           ELSE LET i == g[k - 1]
                                IN  IF TakesLeft(L, R, i, k - 1 - i) THEN i + 1 ELSE i]
        BY <1>4
    <2> QED
        BY <2>1
<1> HIDE DEF left
<1>6. left[0] = 0
    BY <1>1, <1>5
<1>7. ASSUME NEW k \in 1..N
      PROVE  left[k] = IF TakesLeft(L, R, left[k - 1], k - 1 - left[k - 1])
                       THEN left[k - 1] + 1 ELSE left[k - 1]
    <2>1. k \in D /\ k # 0
        BY <1>1
    <2> HIDE DEF D
    <2> QED
        BY <1>5, <2>1
<1>8. \A k \in 0..N : left[k] \in Nat
    <2> DEFINE S == {k \in 0..N : left[k] \in Nat}
    <2>1. 0 \in S
        BY <1>1, <1>6
    <2>2. ASSUME NEW k \in 0..(N - 1), k \in S
          PROVE  k + 1 \in S
        <3>1. k + 1 \in 1..N /\ (k + 1) - 1 = k
            BY <1>1
        <3> QED
            BY <1>7, <2>2, <3>1
    <2> HIDE DEF S
    <2>3. \A k \in 0..N : k \in S
        BY <1>1, <2>1, <2>2, CountedUp
    <2> QED
        BY <2>3 DEF S
<1>9. left \in [0..N -> Nat]
    BY <1>5, <1>8
<1>10. Takes(left, L, R)
    BY <1>6, <1>7, <1>9 DEF Takes, N
<1> QED
    BY <1>2, <1>10 DEF N

\* Neither half is read beyond its end.
LEMMA TakesWithin ==
    ASSUME NEW L \in Seq(Int), NEW R \in Seq(Int), NEW left, Takes(left, L, R)
    PROVE  \A k \in 0..(Len(L) + Len(R)) : left[k] \in 0..Len(L) /\ k - left[k] \in 0..Len(R)
<1> DEFINE N == Len(L) + Len(R)
           S == {k \in 0..N : left[k] \in 0..Len(L) /\ k - left[k] \in 0..Len(R)}
<1>1. Len(L) \in Nat /\ Len(R) \in Nat
    OBVIOUS
<1>2. 0 \in S
    BY <1>1 DEF Takes
<1>3. ASSUME NEW k \in 0..(N - 1), k \in S
      PROVE  k + 1 \in S
    <2>1. k + 1 \in 1..N /\ (k + 1) - 1 = k
        BY <1>1
    <2>2. left[k + 1] = IF TakesLeft(L, R, left[k], k - left[k]) THEN left[k] + 1 ELSE left[k]
        BY <2>1 DEF Takes
    <2>3. CASE TakesLeft(L, R, left[k], k - left[k])
        <3>1. left[k + 1] = left[k] + 1 /\ left[k] < Len(L)
            BY <2>2, <2>3 DEF TakesLeft
        <3> QED
            BY <1>1, <1>3, <2>1, <3>1
    <2>4. CASE ~TakesLeft(L, R, left[k], k - left[k])
        <3>1. left[k + 1] = left[k] /\ left[k] \in 0..Len(L) /\ k - left[k] \in 0..Len(R)
            BY <1>3, <2>2, <2>4
        <3>2. k - left[k] # Len(R)
            <4>1. CASE left[k] = Len(L)
                BY <1>1, <3>1, <4>1
            <4>2. CASE left[k] < Len(L)
                BY <2>4, <4>2 DEF TakesLeft
            <4> QED
                BY <1>1, <3>1, <4>1, <4>2
        <3> QED
            BY <1>1, <2>1, <3>1, <3>2
    <2> QED
        BY <2>3, <2>4
<1>4. N \in Nat
    BY <1>1
<1> HIDE DEF S
<1>5. \A k \in 0..N : k \in S
    <2> HIDE DEF N
    <2> QED
        BY <1>2, <1>3, <1>4, CountedUp
<1> QED
    BY <1>5 DEF S

\* What each step takes, and what it leaves behind.
LEMMA StepTakes ==
    ASSUME NEW L \in Seq(Int), NEW R \in Seq(Int), NEW left, Takes(left, L, R),
           NEW k \in 1..(Len(L) + Len(R))
    PROVE  LET i == left[k - 1]
               j == k - 1 - left[k - 1]
           IN  /\ i \in 0..Len(L) /\ j \in 0..Len(R)
               /\ \/ /\ left[k] = i + 1 /\ i < Len(L)
                     /\ j = Len(R) \/ L[i + 1] <= R[j + 1]
                  \/ /\ left[k] = i /\ j < Len(R)
                     /\ i = Len(L) \/ L[i + 1] > R[j + 1]
<1>1. Len(L) \in Nat /\ Len(R) \in Nat /\ k - 1 \in 0..(Len(L) + Len(R))
    OBVIOUS
<1> DEFINE i == left[k - 1]
           j == k - 1 - left[k - 1]
<1>2. i \in 0..Len(L) /\ j \in 0..Len(R)
    BY <1>1, TakesWithin
<1>3. left[k] = IF TakesLeft(L, R, i, j) THEN i + 1 ELSE i
    BY DEF Takes
<1>4. i < Len(L) => L[i + 1] \in Int
    BY <1>1, <1>2
<1>5. j < Len(R) => R[j + 1] \in Int
    BY <1>1, <1>2
<1>6. i + j = k - 1
    BY <1>2
<1> HIDE DEF i, j
<1>7. CASE TakesLeft(L, R, i, j)
    BY <1>2, <1>3, <1>7 DEF i, j, TakesLeft
<1>8. CASE ~TakesLeft(L, R, i, j)
    <2>1. ~(i < Len(L) /\ j = Len(R))
        BY <1>8 DEF TakesLeft
    <2>2. j < Len(R)
        BY <1>1, <1>2, <1>6, <2>1
    <2>3. i = Len(L) \/ L[i + 1] > R[j + 1]
        BY <1>1, <1>2, <1>4, <1>5, <1>8, <2>2 DEF TakesLeft
    <2> QED
        BY <1>2, <1>3, <1>8, <2>2, <2>3 DEF i, j
<1> QED
    BY <1>7, <1>8

\* Step k finds i[k] elements of L taken and j[k] of R, and takes the next of one
\* of them to the place k of s.
FromLeft(k, i, j, s, L, R, a, b) ==
    /\ i[k] < a /\ i[k + 1] = i[k] + 1 /\ j[k + 1] = j[k]
    /\ s[k] = L[i[k] + 1]
    /\ j[k] < b => L[i[k] + 1] <= R[j[k] + 1]
FromRight(k, i, j, s, L, R, a, b) ==
    /\ j[k] < b /\ i[k + 1] = i[k] /\ j[k + 1] = j[k] + 1
    /\ s[k] = R[j[k] + 1]
    /\ i[k] < a => L[i[k] + 1] > R[j[k] + 1]
Merging(i, j, s, L, R, a, b) ==
    /\ i \in [1..(a + b + 1) -> 0..a] /\ j \in [1..(a + b + 1) -> 0..b]
    /\ \A k \in 1..(a + b + 1) : i[k] + j[k] = k - 1
    /\ s \in [1..(a + b) -> Int]
    /\ \A k \in 1..(a + b) : \/ FromLeft(k, i, j, s, L, R, a, b)
                             \/ FromRight(k, i, j, s, L, R, a, b)

LEMMA MergedSteps ==
    ASSUME NEW a \in Nat, NEW b \in Nat, NEW L \in [1..a -> Int], NEW R \in [1..b -> Int]
    PROVE  \E i, j : Merging(i, j, Merged(L, R), L, R, a, b)
<1> DEFINE s == Merged(L, R)
           N == a + b
<1>1. /\ L \in Seq(Int) /\ R \in Seq(Int) /\ Len(L) = a /\ Len(R) = b
      /\ N \in Nat /\ Len(L) + Len(R) = N
    BY SMTT(30)
<1>2. PICK left : /\ Takes(left, L, R)
                  /\ s = [k \in 1..N |-> IF left[k] > left[k - 1] THEN L[left[k]]
                                         ELSE R[k - left[k]]]
    <2>1. \E left : /\ Takes(left, L, R)
                    /\ s = [k \in 1..(Len(L) + Len(R)) |->
                               IF left[k] > left[k - 1] THEN L[left[k]] ELSE R[k - left[k]]]
        BY <1>1, MergedIs
    <2> HIDE DEF s, N
    <2> QED
        BY <1>1, <2>1
<1> DEFINE i == [k \in 1..(N + 1) |-> left[k - 1]]
           j == [k \in 1..(N + 1) |-> k - 1 - left[k - 1]]
<1>3. ASSUME NEW k \in 0..N
      PROVE  left[k] \in 0..a /\ k - left[k] \in 0..b
    BY <1>1, <1>2, TakesWithin
<1>4. ASSUME NEW k \in 1..(N + 1)
      PROVE  i[k] \in 0..a /\ j[k] \in 0..b /\ i[k] + j[k] = k - 1
    <2>1. k - 1 \in 0..N
        BY <1>1
    <2> HIDE DEF N
    <2> QED
        BY <1>3, <2>1
<1>5. i \in [1..(N + 1) -> 0..a] /\ j \in [1..(N + 1) -> 0..b]
    <2> HIDE DEF N
    <2> QED
        BY <1>4
<1>6. ASSUME NEW k \in 1..N
      PROVE  /\ \/ FromLeft(k, i, j, s, L, R, a, b)
                \/ FromRight(k, i, j, s, L, R, a, b)
             /\ s[k] \in Int
    <2>1. \/ /\ left[k] = left[k - 1] + 1 /\ left[k - 1] < Len(L)
             /\ k - 1 - left[k - 1] = Len(R) \/ L[left[k - 1] + 1] <= R[k - 1 - left[k - 1] + 1]
          \/ /\ left[k] = left[k - 1] /\ k - 1 - left[k - 1] < Len(R)
             /\ left[k - 1] = Len(L) \/ L[left[k - 1] + 1] > R[k - 1 - left[k - 1] + 1]
        BY <1>1, <1>2, StepTakes
    <2>2. /\ k \in 1..(N + 1) /\ k + 1 \in 1..(N + 1) /\ (k + 1) - 1 = k
          /\ k \in 0..N /\ k - 1 \in 0..N /\ k \in Int
        BY <1>1
    <2>3. /\ i[k] = left[k - 1] /\ i[k + 1] = left[k] /\ i[k] \in 0..a /\ i[k + 1] \in 0..a
          /\ j[k] = k - 1 - left[k - 1] /\ j[k + 1] = k - left[k]
          /\ j[k] \in 0..b /\ j[k + 1] \in 0..b
        <3> HIDE DEF N
        <3> QED
            BY <1>4, <2>2
    <2>4. s[k] = IF left[k] > left[k - 1] THEN L[left[k]] ELSE R[k - left[k]]
        BY <1>2
    <2> HIDE DEF i, j, N, s
    <2>5. CASE /\ i[k + 1] = i[k] + 1 /\ i[k] < a
               /\ j[k] = b \/ L[i[k] + 1] <= R[j[k] + 1]
        <3>1. left[k] > left[k - 1] /\ left[k] = i[k] + 1 /\ j[k + 1] = j[k]
            BY <2>2, <2>3, <2>5
        <3>2. s[k] = L[i[k] + 1] /\ i[k] + 1 \in 1..a
            BY <2>3, <2>4, <2>5, <3>1
        <3> QED
            BY <2>3, <2>5, <3>1, <3>2 DEF FromLeft
    <2>6. CASE /\ i[k + 1] = i[k] /\ j[k] < b
               /\ i[k] = a \/ L[i[k] + 1] > R[j[k] + 1]
        <3>1. ~(left[k] > left[k - 1]) /\ k - left[k] = j[k] + 1 /\ j[k + 1] = j[k] + 1
            BY <2>2, <2>3, <2>6, SMTT(30)
        <3>2. s[k] = R[j[k] + 1] /\ j[k] + 1 \in 1..b
            BY <2>3, <2>4, <2>6, <3>1
        <3> QED
            BY <2>3, <2>6, <3>1, <3>2 DEF FromRight
    <2> QED
        BY <1>1, <2>1, <2>3, <2>5, <2>6
<1>7. s \in [1..N -> Int]
    BY <1>2, <1>6
<1> HIDE DEF i, j, s
<1>8. Merging(i, j, s, L, R, a, b)
    BY <1>4, <1>5, <1>6, <1>7 DEF Merging
<1> QED
    BY <1>8 DEF s

\* Both halves are taken from the front to the back.
LEMMA TakesForward ==
    ASSUME NEW a \in Nat, NEW b \in Nat, NEW L, NEW R, NEW s,
           NEW i, NEW j, Merging(i, j, s, L, R, a, b)
    PROVE  \A k \in 1..(a + b + 1) : \A m \in 1..k : i[m] <= i[k] /\ j[m] <= j[k]
<1> DEFINE N == a + b
           S == {k \in 0..N : \A m \in 0..k : i[m + 1] <= i[k + 1] /\ j[m + 1] <= j[k + 1]}
<1>1. N \in Nat
    OBVIOUS
<1> HIDE DEF N
<1>2. i \in [1..(N + 1) -> 0..a] /\ j \in [1..(N + 1) -> 0..b]
    BY DEF Merging, N
<1>3. ASSUME NEW k \in 0..N
      PROVE  /\ k + 1 \in 1..(N + 1) /\ i[k + 1] \in 0..a /\ j[k + 1] \in 0..b
    BY <1>1, <1>2
<1>4. 0 \in S
    BY <1>1, <1>3
<1>5. ASSUME NEW k \in 0..(N - 1), k \in S
      PROVE  k + 1 \in S
    <2>1. k + 1 \in 1..N /\ k \in 0..N /\ k + 1 \in 0..N
        BY <1>1
    <2>2. /\ i[k + 1] <= i[(k + 1) + 1] /\ j[k + 1] <= j[(k + 1) + 1]
        <3>1. \/ FromLeft(k + 1, i, j, s, L, R, a, b)
              \/ FromRight(k + 1, i, j, s, L, R, a, b)
            BY <2>1 DEF Merging, N
        <3>2. \/ i[(k + 1) + 1] = i[k + 1] + 1 /\ j[(k + 1) + 1] = j[k + 1]
              \/ i[(k + 1) + 1] = i[k + 1] /\ j[(k + 1) + 1] = j[k + 1] + 1
            BY <3>1 DEF FromLeft, FromRight
        <3>3. i[k + 1] \in 0..a /\ j[k + 1] \in 0..b
            BY <1>3, <2>1
        <3> QED
            BY <3>2, <3>3
    <2>3. ASSUME NEW m \in 0..(k + 1)
          PROVE  i[m + 1] <= i[(k + 1) + 1] /\ j[m + 1] <= j[(k + 1) + 1]
        <3>1. m \in 0..N
            BY <1>1
        <3>2. /\ i[m + 1] \in 0..a /\ i[k + 1] \in 0..a /\ i[(k + 1) + 1] \in 0..a
              /\ j[m + 1] \in 0..b /\ j[k + 1] \in 0..b /\ j[(k + 1) + 1] \in 0..b
            BY <1>3, <2>1, <3>1
        <3>3. CASE m = k + 1
            BY <3>2, <3>3
        <3>4. CASE m # k + 1
            <4>1. m \in 0..k
                BY <3>4
            <4>2. i[m + 1] <= i[k + 1] /\ j[m + 1] <= j[k + 1]
                BY <1>5, <4>1
            <4> QED
                BY <2>2, <3>2, <4>2
        <3> QED
            BY <3>3, <3>4
    <2> QED
        BY <2>1, <2>3
<1> HIDE DEF S
<1>6. \A k \in 0..N : k \in S
    BY <1>1, <1>4, <1>5, CountedUp
<1> SUFFICES ASSUME NEW k \in 1..(a + b + 1), NEW m \in 1..k
             PROVE  i[m] <= i[k] /\ j[m] <= j[k]
    OBVIOUS
<1>7. k - 1 \in 0..N /\ m - 1 \in 0..(k - 1) /\ (k - 1) + 1 = k /\ (m - 1) + 1 = m
    BY DEF N
<1>8. k - 1 \in S
    BY <1>6, <1>7
<1>9. i[(m - 1) + 1] <= i[(k - 1) + 1] /\ j[(m - 1) + 1] <= j[(k - 1) + 1]
    BY <1>7, <1>8 DEF S
<1> QED
    BY <1>7, <1>9

LEMMA MergedAscends ==
    ASSUME NEW a \in Nat, NEW b \in Nat, NEW L \in [1..a -> Int], NEW R \in [1..b -> Int],
           AscendingUpTo(L, 1, a), AscendingUpTo(R, 1, b),
           NEW s, NEW i, NEW j, Merging(i, j, s, L, R, a, b)
    PROVE  AscendingUpTo(s, 1, a + b)
<1> SUFFICES ASSUME NEW k \in 1..(a + b - 1)
             PROVE  s[k] <= s[k + 1]
    BY DEF AscendingUpTo
<1>1. /\ k \in 1..(a + b) /\ k + 1 \in 1..(a + b)
      /\ k \in 1..(a + b + 1) /\ k + 1 \in 1..(a + b + 1)
    OBVIOUS
<1> DEFINE x == i[k]
           y == j[k]
           z == i[k + 1]
           w == j[k + 1]
<1>2. x \in 0..a /\ y \in 0..b /\ z \in 0..a /\ w \in 0..b
    BY <1>1 DEF Merging
<1>3. \/ /\ x < a /\ z = x + 1 /\ w = y /\ s[k] = L[x + 1]
         /\ y < b => L[x + 1] <= R[y + 1]
      \/ /\ y < b /\ z = x /\ w = y + 1 /\ s[k] = R[y + 1]
         /\ x < a => L[x + 1] > R[y + 1]
    BY <1>1 DEF Merging, FromLeft, FromRight
<1>4. \/ z < a /\ s[k + 1] = L[z + 1]
      \/ w < b /\ s[k + 1] = R[w + 1]
    BY <1>1 DEF Merging, FromLeft, FromRight
<1> HIDE DEF x, y, z, w
<1>5. \A m \in 0..(a - 2) : L[m + 1] <= L[(m + 1) + 1]
    BY DEF AscendingUpTo
<1>6. \A m \in 0..(b - 2) : R[m + 1] <= R[(m + 1) + 1]
    BY DEF AscendingUpTo
<1>7. (\A m \in 0..(a - 1) : L[m + 1] \in Int) /\ \A m \in 0..(b - 1) : R[m + 1] \in Int
    OBVIOUS
<1>8. CASE x < a /\ z = x + 1 /\ w = y /\ s[k] = L[x + 1] /\ (y < b => L[x + 1] <= R[y + 1])
    <2>1. CASE z < a /\ s[k + 1] = L[z + 1]
        <3>1. x \in 0..(a - 2)
            BY <1>2, <1>8, <2>1
        <3> QED
            BY <1>5, <1>8, <2>1, <3>1
    <2>2. CASE w < b /\ s[k + 1] = R[w + 1]
        BY <1>8, <2>2
    <2> QED
        BY <1>4, <2>1, <2>2
<1>9. CASE y < b /\ z = x /\ w = y + 1 /\ s[k] = R[y + 1] /\ (x < a => L[x + 1] > R[y + 1])
    <2>1. CASE z < a /\ s[k + 1] = L[z + 1]
        <3>1. x \in 0..(a - 1) /\ y \in 0..(b - 1)
            BY <1>2, <1>9, <2>1
        <3> QED
            BY <1>7, <1>9, <2>1, <3>1
    <2>2. CASE w < b /\ s[k + 1] = R[w + 1]
        <3>1. y \in 0..(b - 2)
            BY <1>2, <1>9, <2>2
        <3> QED
            BY <1>6, <1>9, <2>2, <3>1
    <2> QED
        BY <1>4, <2>1, <2>2
<1> QED
    BY <1>3, <1>8, <1>9

\* Every element of the halves comes once.
Selection(q, s, L, R, a, b) ==
    /\ q \in [1..(a + b) -> 1..(a + b)]
    /\ \A m, k \in 1..(a + b) : q[m] = q[k] => m = k
    /\ \A k \in 1..(a + b) : s[k] = IF q[k] <= a THEN L[q[k]] ELSE R[q[k] - a]

LEMMA MergedFrom ==
    ASSUME NEW a \in Nat, NEW b \in Nat, NEW L, NEW R,
           NEW s, NEW i, NEW j, Merging(i, j, s, L, R, a, b)
    PROVE  \E q : Selection(q, s, L, R, a, b)
<1> DEFINE N == a + b
           q == [k \in 1..N |-> IF i[k + 1] > i[k] THEN i[k] + 1 ELSE a + (j[k] + 1)]
<1>1. ASSUME NEW k \in 1..N
      PROVE  /\ k \in 1..(N + 1) /\ k + 1 \in 1..(N + 1)
             /\ i[k] \in 0..a /\ j[k] \in 0..b /\ i[k + 1] \in 0..a /\ j[k + 1] \in 0..b
    <2>1. k \in 1..(N + 1) /\ k + 1 \in 1..(N + 1)
        OBVIOUS
    <2> HIDE DEF N
    <2> QED
        BY <2>1 DEF Merging, N
<1>2. ASSUME NEW k \in 1..N
      PROVE  \/ /\ i[k] < a /\ i[k + 1] = i[k] + 1 /\ j[k + 1] = j[k]
                /\ s[k] = L[i[k] + 1]
             \/ /\ j[k] < b /\ i[k + 1] = i[k] /\ j[k + 1] = j[k] + 1
                /\ s[k] = R[j[k] + 1]
    BY DEF Merging, FromLeft, FromRight
<1>3. N \in Nat /\ N = a + b
    OBVIOUS
<1> HIDE DEF N
<1>4. ASSUME NEW k \in 1..N
      PROVE  \/ /\ q[k] = i[k] + 1 /\ q[k] \in 1..a /\ s[k] = L[q[k]] /\ i[k + 1] = i[k] + 1
             \/ /\ q[k] = a + (j[k] + 1) /\ q[k] \in (a + 1)..N /\ s[k] = R[q[k] - a]
                /\ j[k + 1] = j[k] + 1
    <2>1. q[k] = IF i[k + 1] > i[k] THEN i[k] + 1 ELSE a + (j[k] + 1)
        OBVIOUS
    <2> HIDE DEF q
    <2>2. CASE i[k] < a /\ i[k + 1] = i[k] + 1 /\ s[k] = L[i[k] + 1]
        BY <1>1, <2>1, <2>2
    <2>3. CASE j[k] < b /\ i[k + 1] = i[k] /\ j[k + 1] = j[k] + 1 /\ s[k] = R[j[k] + 1]
        <3>1. q[k] = a + (j[k] + 1)
            BY <1>1, <2>1, <2>3
        <3>2. q[k] \in (a + 1)..N /\ q[k] - a = j[k] + 1
            BY <1>1, <1>3, <2>3, <3>1
        <3> QED
            BY <2>3, <3>1, <3>2
    <2> QED
        BY <1>2, <2>2, <2>3
<1>5. q \in [1..N -> 1..N]
    <2>1. ASSUME NEW k \in 1..N
          PROVE  q[k] \in 1..N
        <3> HIDE DEF q
        <3> QED
            BY <1>3, <1>4
    <2> QED
        BY <2>1
<1> HIDE DEF q
<1>6. ASSUME NEW m \in 1..N, NEW k \in 1..N, m < k
      PROVE  q[m] # q[k]
    <2>1. k \in 1..(a + b + 1) /\ m + 1 \in 1..k
        BY <1>3, <1>6
    <2>2. i[m + 1] <= i[k] /\ j[m + 1] <= j[k]
        BY <2>1, TakesForward
    <2> QED
        BY <1>1, <1>3, <1>4, <2>2
<1>7. \A m, k \in 1..N : q[m] = q[k] => m = k
    <2>1. \A m, k \in 1..N : m = k \/ m < k \/ k < m
        OBVIOUS
    <2> QED
        BY <1>6, <2>1
<1>8. ASSUME NEW k \in 1..N
      PROVE  s[k] = IF q[k] <= a THEN L[q[k]] ELSE R[q[k] - a]
    BY <1>3, <1>4
<1> QED
    BY <1>5, <1>7, <1>8 DEF N, Selection

\* merge sorts l..r.
MergesInto(t, arr, l, m, r, L, R) ==
    /\ L \in [1..(m - l + 1) -> Int] /\ \A k \in 1..(m - l + 1) : L[k] = arr[l + k - 1]
    /\ R \in [1..(r - m) -> Int] /\ \A k \in 1..(r - m) : R[k] = arr[m + k]
    /\ t = [k \in 1..Len(arr) |-> IF k \in l..r THEN Merged(L, R)[k - l + 1] ELSE arr[k]]
    /\ t \in [1..Len(arr) -> Int]

LEMMA MergeType ==
    ASSUME NEW n \in Nat, NEW arr \in [1..n -> Int], NEW l \in 1..n, NEW r \in 1..n,
           NEW m \in l..(r - 1)
    PROVE  \E L, R : MergesInto(merge(arr, l, m, r), arr, l, m, r, L, R)
<1> DEFINE L == SubSeq(arr, l, m)
           R == SubSeq(arr, m + 1, r)
           a == m - l + 1
           b == r - m
<1>1. arr \in Seq(Int) /\ Len(arr) = n /\ DOMAIN arr = 1..n
    OBVIOUS
<1>2. /\ a \in Nat /\ b \in Nat /\ a + b = r - l + 1 /\ r - (m + 1) + 1 = b
      /\ l \in 1..(n + 1) /\ m \in (l - 1)..n
      /\ m + 1 \in 1..(n + 1) /\ r \in ((m + 1) - 1)..n
      /\ \A k \in 1..b : (m + 1) + k - 1 = m + k
    OBVIOUS
<1>3. L \in Seq(Int) /\ Len(L) = a /\ \A k \in 1..a : L[k] = arr[l + k - 1]
    BY <1>1, <1>2, SubSeqIs
<1>4. R \in Seq(Int) /\ Len(R) = b /\ \A k \in 1..b : R[k] = arr[m + k]
    <2>1. /\ R \in Seq(Int) /\ Len(R) = r - (m + 1) + 1
          /\ \A k \in 1..(r - (m + 1) + 1) : R[k] = arr[(m + 1) + k - 1]
        BY <1>1, <1>2, SubSeqIs
    <2> HIDE DEF R, b
    <2> QED
        BY <1>2, <2>1
<1>5. merge(arr, l, m, r) = [k \in 1..n |-> IF k \in l..r THEN Merged(L, R)[k - l + 1] ELSE arr[k]]
    BY <1>1 DEF merge
<1> HIDE DEF L, R
<1>6. L \in [1..a -> Int] /\ R \in [1..b -> Int]
    <2> HIDE DEF a, b
    <2> QED
        BY <1>3, <1>4
<1>7. Merged(L, R) \in [1..(a + b) -> Int]
    <2> HIDE DEF a, b
    <2> QED
        BY <1>2, <1>6, MergedSteps DEF Merging
<1>8. merge(arr, l, m, r) \in [1..n -> Int]
    <2>1. ASSUME NEW k \in l..r
          PROVE  Merged(L, R)[k - l + 1] \in Int
        <3>1. k - l + 1 \in 1..(a + b)
            BY <1>2
        <3> HIDE DEF a, b
        <3> QED
            BY <1>7, <3>1
    <2> QED
        BY <1>5, <2>1
<1> QED
    <2>1. MergesInto(merge(arr, l, m, r), arr, l, m, r, L, R)
        BY <1>1, <1>3, <1>4, <1>5, <1>6, <1>8 DEF MergesInto
    <2> QED
        BY <2>1

LEMMA mergeIs ==
    ASSUME NEW n \in Nat, NEW arr \in [1..n -> Int], NEW l \in 1..n, NEW r \in 1..n,
           NEW m \in l..(r - 1), AscendingUpTo(arr, l, m), AscendingUpTo(arr, m + 1, r)
    PROVE  /\ AscendingUpTo(merge(arr, l, m, r), l, r)
           /\ Rearranged(merge(arr, l, m, r), arr, l, r)
<1> DEFINE t == merge(arr, l, m, r)
           a == m - l + 1
           b == r - m
<1>0. PICK L, R : MergesInto(t, arr, l, m, r, L, R)
    BY MergeType
<1> DEFINE s == Merged(L, R)
<1>1. /\ a \in Nat /\ b \in Nat /\ a + b = r - l + 1 /\ l \in Int /\ m \in Int /\ r \in Int
      /\ l + a = m + 1
    OBVIOUS
<1>2. /\ L \in [1..a -> Int] /\ \A k \in 1..a : L[k] = arr[l + k - 1]
      /\ R \in [1..b -> Int] /\ \A k \in 1..b : R[k] = arr[m + k]
      /\ t = [k \in 1..n |-> IF k \in l..r THEN s[k - l + 1] ELSE arr[k]]
      /\ t \in [1..n -> Int]
    <2>1. Len(arr) = n
        OBVIOUS
    <2> QED
        BY <1>0, <2>1 DEF MergesInto
<1> HIDE DEF a, b, s, t
<1>3. AscendingUpTo(L, 1, a)
    <2>1. ASSUME NEW k \in 1..(a - 1)
          PROVE  L[k] <= L[k + 1]
        <3>1. /\ k \in 1..a /\ k + 1 \in 1..a
              /\ l + k - 1 \in l..(m - 1) /\ l + (k + 1) - 1 = (l + k - 1) + 1
            BY <1>1 DEF a
        <3> QED
            BY <1>2, <3>1 DEF AscendingUpTo
    <2> QED
        BY <2>1 DEF AscendingUpTo
<1>4. AscendingUpTo(R, 1, b)
    <2>1. ASSUME NEW k \in 1..(b - 1)
          PROVE  R[k] <= R[k + 1]
        <3>1. /\ k \in 1..b /\ k + 1 \in 1..b
              /\ m + k \in (m + 1)..(r - 1) /\ m + (k + 1) = (m + k) + 1
            BY <1>1 DEF b
        <3> QED
            BY <1>2, <3>1 DEF AscendingUpTo
    <2> QED
        BY <2>1 DEF AscendingUpTo
<1>5. PICK i, j : Merging(i, j, s, L, R, a, b)
    BY <1>1, <1>2, MergedSteps DEF s
<1>6. AscendingUpTo(s, 1, a + b)
    BY <1>1, <1>2, <1>3, <1>4, <1>5, MergedAscends
<1>7. AscendingUpTo(t, l, r)
    <2>1. ASSUME NEW k \in l..(r - 1)
          PROVE  t[k] <= t[k + 1]
        <3>1. /\ k \in 1..n /\ k + 1 \in 1..n /\ k \in l..r /\ k + 1 \in l..r
              /\ (k + 1) - l + 1 = (k - l + 1) + 1 /\ k - l + 1 \in 1..((a + b) - 1)
            BY <1>1
        <3>2. t[k] = s[k - l + 1] /\ t[k + 1] = s[(k - l + 1) + 1]
            BY <1>2, <3>1
        <3> QED
            BY <1>6, <3>1, <3>2 DEF AscendingUpTo
    <2> QED
        BY <2>1 DEF AscendingUpTo
<1>8. PICK q : Selection(q, s, L, R, a, b)
    BY <1>1, <1>5, MergedFrom
<1>q. /\ q \in [1..(a + b) -> 1..(a + b)]
      /\ \A k1, k2 \in 1..(a + b) : q[k1] = q[k2] => k1 = k2
      /\ \A k \in 1..(a + b) : s[k] = IF q[k] <= a THEN L[q[k]] ELSE R[q[k] - a]
    BY <1>8 DEF Selection
<1> DEFINE p == [k \in 1..n |-> IF k \in l..r THEN l - 1 + q[k - l + 1] ELSE k]
<1>9. ASSUME NEW k \in l..r
      PROVE  k - l + 1 \in 1..(a + b) /\ q[k - l + 1] \in 1..(a + b)
             /\ k \in 1..n /\ p[k] = l - 1 + q[k - l + 1] /\ p[k] \in l..r
    <2>1. k - l + 1 \in 1..(a + b) /\ k \in 1..n
        BY <1>1
    <2>2. q[k - l + 1] \in 1..(a + b) /\ p[k] = l - 1 + q[k - l + 1]
        BY <1>q, <2>1
    <2> DEFINE c == q[k - l + 1]
    <2>3. c \in 1..(a + b) /\ p[k] = l - 1 + c
        BY <2>2
    <2> HIDE DEF c, p
    <2>4. p[k] \in l..r
        BY <1>1, <2>3
    <2> QED
        BY <2>1, <2>2, <2>4
<1>10. ASSUME NEW k \in 1..n, k \notin l..r
       PROVE  p[k] = k /\ t[k] = arr[k]
    BY <1>2, <1>10
<1>11. ASSUME NEW k \in l..r
       PROVE  t[k] = arr[p[k]]
    <2>1. t[k] = s[k - l + 1]
        BY <1>2, <1>9
    <2> DEFINE c == q[k - l + 1]
    <2>2. c \in 1..(a + b) /\ p[k] = l - 1 + c /\ t[k] = IF c <= a THEN L[c] ELSE R[c - a]
        BY <1>q, <1>9, <2>1
    <2> HIDE DEF c, p
    <2>3. CASE c <= a
        <3>1. c \in 1..a /\ l + c - 1 = l - 1 + c
            BY <1>1, <2>2, <2>3
        <3> QED
            BY <1>2, <2>2, <2>3, <3>1
    <2>4. CASE ~(c <= a)
        <3>1. c - a \in 1..b /\ m + (c - a) = l - 1 + c
            BY <1>1, <2>2, <2>4
        <3> QED
            BY <1>2, <2>2, <2>4, <3>1
    <2> QED
        BY <2>3, <2>4
<1>12. p \in [1..n -> 1..n]
    <2>1. ASSUME NEW k \in 1..n
          PROVE  p[k] \in 1..n
        <3> HIDE DEF p
        <3> QED
            BY <1>9, <1>10
    <2> QED
        BY <2>1
<1> HIDE DEF p
<1>13. ASSUME NEW k1 \in 1..n, NEW k2 \in 1..n, p[k1] = p[k2]
       PROVE  k1 = k2
    <2>1. CASE k1 \in l..r /\ k2 \in l..r
        <3>1. q[k1 - l + 1] = q[k2 - l + 1]
            <4> DEFINE c1 == q[k1 - l + 1]
                       c2 == q[k2 - l + 1]
            <4>1. p[k1] = l - 1 + c1 /\ c1 \in 1..(a + b)
                BY <1>9, <2>1
            <4>2. p[k2] = l - 1 + c2 /\ c2 \in 1..(a + b)
                BY <1>9, <2>1
            <4> HIDE DEF c1, c2
            <4>3. c1 \in Int /\ c2 \in Int /\ l \in Int /\ l - 1 + c1 = l - 1 + c2
                <5>1. a + b \in Int
                    BY <1>1
                <5>2. p[k1] = p[k2]
                    BY <1>13
                <5> HIDE DEF a, b
                <5> QED
                    BY <1>1, <4>1, <4>2, <5>1, <5>2
            <4>4. c1 = c2
                BY <4>3
            <4> QED
                BY <4>4 DEF c1, c2
        <3>2. k1 - l + 1 = k2 - l + 1
            BY <1>q, <1>9, <2>1, <3>1
        <3> QED
            BY <1>1, <3>2
    <2>2. CASE k1 \notin l..r /\ k2 \notin l..r
        BY <1>10, <1>13, <2>2
    <2>3. CASE k1 \in l..r /\ k2 \notin l..r
        BY <1>9, <1>10, <1>13, <2>3
    <2>4. CASE k1 \notin l..r /\ k2 \in l..r
        BY <1>9, <1>10, <1>13, <2>4
    <2> QED
        BY <2>1, <2>2, <2>3, <2>4
<1>14. Len(arr) = n /\ Len(t) = n
    BY <1>2
<1>15. Ordering(p, t, arr, l, r)
    BY <1>10, <1>11, <1>12, <1>13, <1>14 DEF Ordering
<1> QED
    BY <1>7, <1>14, <1>15 DEF Rearranged, t

LEMMA MeasureInduction ==
    ASSUME NEW D, NEW measure \in [D -> Nat], NEW S,
           \A c \in D : (\A d \in D : measure[d] < measure[c] => d \in S) => c \in S
    PROVE  \A c \in D : c \in S
<1> DEFINE T == {k \in Nat : \E c \in D : measure[c] = k /\ c \notin S}
<1> SUFFICES ASSUME NEW c \in D, c \notin S PROVE FALSE
    OBVIOUS
<1>1. measure[c] \in T
    OBVIOUS
<1>2. PICK k \in T : \A j \in T : k <= j
    BY <1>1, Smallest
<1>3. PICK e \in D : measure[e] = k /\ e \notin S
    BY <1>2
<1>4. ASSUME NEW d \in D, measure[d] < measure[e]
      PROVE  d \in S
    <2>1. measure[d] \in Nat /\ measure[e] \in Nat /\ ~(k <= measure[d])
        BY <1>3, <1>4
    <2> QED
        BY <1>2, <2>1
<1> QED
    BY <1>3, <1>4

LEMMA Midpoint ==
    ASSUME NEW x \in Nat, NEW y \in Nat, x < y
    PROVE  x + (y - x) \div 2 \in x..(y - 1)
OBVIOUS

LEMMA mergeSortIs ==
    ASSUME NEW n \in Nat, NEW arr \in [1..n -> Int], NEW l \in 1..n, NEW r \in 0..n
    PROVE  /\ mergeSort(arr, l, r) \in [1..n -> Int]
           /\ AscendingUpTo(mergeSort(arr, l, r), l, r)
           /\ Rearranged(mergeSort(arr, l, r), arr, l, r)
<1> DEFINE A == [1..n -> Int]
           D == A \X (1..n) \X (0..n)
           mid(c) == c[2] + (c[3] - c[2]) \div 2
           measure == [c \in D |-> IF c[2] < c[3] THEN c[3] - c[2] ELSE 0]
           body == [g \in [D -> A] |-> [c \in D |->
                       IF c[2] < c[3]
                       THEN merge(g[<<g[<<c[1], c[2], mid(c)>>], mid(c) + 1, c[3]>>],
                                  c[2], mid(c), c[3])
                       ELSE c[1]]]
           sort == CHOOSE sort : sort = [c \in D |->
                       IF c[2] < c[3]
                       THEN merge(sort[<<sort[<<c[1], c[2], mid(c)>>], mid(c) + 1, c[3]>>],
                                  c[2], mid(c), c[3])
                       ELSE c[1]]
<1>1. Len(arr) = n /\ arr \in A /\ A # {}
    OBVIOUS
<1>2. mergeSort(arr, l, r) = sort[<<arr, l, r>>]
    BY <1>1 DEF mergeSort
<1> HIDE DEF sort
<1>3. ASSUME NEW c \in D
      PROVE  c[1] \in A /\ c[2] \in 1..n /\ c[3] \in 0..n /\ c = <<c[1], c[2], c[3]>>
    OBVIOUS
<1>4. ASSUME NEW b \in A, NEW i \in 1..n, NEW j \in 0..n
      PROVE  <<b, i, j>> \in D
    OBVIOUS
<1>5. ASSUME NEW c \in D, c[2] < c[3]
      PROVE  /\ mid(c) \in c[2]..(c[3] - 1) /\ mid(c) \in 1..n /\ mid(c) \in 0..n
             /\ mid(c) + 1 \in 1..n /\ c[2] \in 1..n /\ c[3] \in 1..n
    <2>1. c[2] \in 1..n /\ c[3] \in 0..n
        BY <1>3
    <2> DEFINE x == c[2]
               y == c[3]
               m == mid(c)
    <2>2. x \in 1..n /\ y \in 0..n /\ x < y /\ m = x + (y - x) \div 2
        BY <1>5, <2>1
    <2> HIDE DEF x, y, m
    <2>3. m \in x..(y - 1)
        BY <2>2, Midpoint
    <2>4. /\ m \in x..(y - 1) /\ m \in 1..n /\ m \in 0..n
          /\ m + 1 \in 1..n /\ x \in 1..n /\ y \in 1..n
        BY <2>2, <2>3
    <2> QED
        BY <2>4 DEF x, y, m
<1> HIDE DEF mid
<1>6. ASSUME NEW b \in A, NEW i \in 1..n, NEW k \in 1..n, NEW m \in i..(k - 1)
      PROVE  merge(b, i, m, k) \in A
    <2>1. b \in [1..n -> Int] /\ Len(b) = n
        OBVIOUS
    <2>2. merge(b, i, m, k) \in [1..n -> Int]
        BY <2>1, MergeType DEF MergesInto
    <2> QED
        BY <2>2
<1>a. \A b \in A : b \in Seq(Int)
    OBVIOUS
<1> HIDE DEF A
<1>7. \A c \in D : measure[c] = IF c[2] < c[3] THEN c[3] - c[2] ELSE 0
    OBVIOUS
<1>8. measure \in [D -> Nat]
    BY <1>3
<1>9. \A g \in [D -> A] : \A c \in D :
         body[g][c] = IF c[2] < c[3]
                      THEN merge(g[<<g[<<c[1], c[2], mid(c)>>], mid(c) + 1, c[3]>>],
                                 c[2], mid(c), c[3])
                      ELSE c[1]
    OBVIOUS
<1> HIDE DEF D
<1>10. ASSUME NEW g \in [D -> A], NEW c \in D, c[2] < c[3]
       PROVE  /\ <<c[1], c[2], mid(c)>> \in D
              /\ g[<<c[1], c[2], mid(c)>>] \in A
              /\ <<g[<<c[1], c[2], mid(c)>>], mid(c) + 1, c[3]>> \in D
              /\ g[<<g[<<c[1], c[2], mid(c)>>], mid(c) + 1, c[3]>>] \in A
    <2>1. <<c[1], c[2], mid(c)>> \in D
        BY <1>3, <1>4, <1>5, <1>10
    <2>2. g[<<c[1], c[2], mid(c)>>] \in A
        BY <2>1
    <2>3. <<g[<<c[1], c[2], mid(c)>>], mid(c) + 1, c[3]>> \in D
        BY <1>3, <1>4, <1>5, <1>10, <2>2
    <2> QED
        BY <2>1, <2>2, <2>3
<1>11. body \in [[D -> A] -> [D -> A]]
    <2>1. ASSUME NEW g \in [D -> A], NEW c \in D, c[2] < c[3]
          PROVE  merge(g[<<g[<<c[1], c[2], mid(c)>>], mid(c) + 1, c[3]>>],
                       c[2], mid(c), c[3]) \in A
        BY <1>5, <1>6, <1>10, <2>1
    <2> QED
        BY <1>3, <2>1
<1> HIDE DEF measure, body
<1>12. ASSUME NEW i \in 1..n, NEW k \in 0..n, NEW b \in A, NEW c \in D, c[2] < c[3],
              c[2] <= i, k < c[3] \/ c[2] < i, k <= c[3]
       PROVE  measure[<<b, i, k>>] < measure[c]
    <2>1. <<b, i, k>> \in D /\ <<b, i, k>>[2] = i /\ <<b, i, k>>[3] = k
        BY <1>4
    <2>2. measure[<<b, i, k>>] = IF i < k THEN k - i ELSE 0
        BY <1>7, <2>1
    <2>3. measure[c] = c[3] - c[2] /\ c[2] \in 1..n /\ c[3] \in 0..n
        BY <1>3, <1>7, <1>12
    <2> DEFINE x == c[2]
               y == c[3]
    <2>4. x < y /\ x <= i /\ k <= y /\ (k < y \/ x < i)
        BY <1>12
    <2>5. measure[c] = y - x /\ x \in 1..n /\ y \in 0..n
        BY <2>3
    <2> HIDE DEF x, y
    <2>6. (IF i < k THEN k - i ELSE 0) < y - x
        BY <2>4, <2>5
    <2> QED
        BY <2>2, <2>5, <2>6
<1>13. ASSUME NEW c \in D, c[2] < c[3], NEW b \in A
       PROVE  /\ measure[<<c[1], c[2], mid(c)>>] < measure[c]
              /\ measure[<<b, mid(c) + 1, c[3]>>] < measure[c]
    <2>1. /\ c[1] \in A /\ c[2] \in 1..n /\ c[3] \in 0..n /\ mid(c) \in 0..n /\ mid(c) + 1 \in 1..n
          /\ c[2] <= c[2] /\ mid(c) < c[3] /\ mid(c) <= c[3]
          /\ c[2] <= mid(c) + 1 /\ c[2] < mid(c) + 1 /\ c[3] <= c[3]
        BY <1>3, <1>5, <1>13
    <2> QED
        BY <1>12, <1>13, <2>1
<1>14. Wellfounded(D, A, measure, body)
    <2>1. ASSUME NEW g \in [D -> A], NEW h \in [D -> A], NEW c \in D,
                 \A d \in D : measure[d] < measure[c] => g[d] = h[d]
          PROVE  body[g][c] = body[h][c]
        <3>1. CASE c[2] < c[3]
            <4>1. g[<<c[1], c[2], mid(c)>>] = h[<<c[1], c[2], mid(c)>>]
                BY <1>1, <1>10, <1>13, <2>1, <3>1
            <4> DEFINE b == g[<<c[1], c[2], mid(c)>>]
            <4>2. b \in A /\ <<b, mid(c) + 1, c[3]>> \in D
                BY <1>10, <3>1
            <4> HIDE DEF b
            <4>3. g[<<b, mid(c) + 1, c[3]>>] = h[<<b, mid(c) + 1, c[3]>>]
                BY <1>13, <2>1, <3>1, <4>2
            <4> QED
                BY <1>9, <3>1, <4>1, <4>3 DEF b
        <3>2. CASE ~(c[2] < c[3])
            BY <1>9, <3>2
        <3> QED
            BY <3>1, <3>2
    <2> QED
        BY <1>8, <1>11, <2>1 DEF Wellfounded
<1>15. PICK f \in [D -> A] : f = body[f]
    BY <1>1, <1>14, FixpointExists
<1>16. sort = [c \in D |-> IF c[2] < c[3]
                           THEN merge(sort[<<sort[<<c[1], c[2], mid(c)>>], mid(c) + 1, c[3]>>],
                                      c[2], mid(c), c[3])
                           ELSE c[1]]
    <2>1. f = [c \in D |-> IF c[2] < c[3]
                           THEN merge(f[<<f[<<c[1], c[2], mid(c)>>], mid(c) + 1, c[3]>>],
                                      c[2], mid(c), c[3])
                           ELSE c[1]]
        BY <1>15 DEF body
    <2> QED
        BY <2>1 DEF sort
<1> DEFINE S == {c \in D : /\ sort[c] \in A
                           /\ AscendingUpTo(sort[c], c[2], c[3])
                           /\ Rearranged(sort[c], c[1], c[2], c[3])}
<1>17. ASSUME NEW c \in D, \A d \in D : measure[d] < measure[c] => d \in S
       PROVE  c \in S
    <2>0. c[1] \in Seq(Int) /\ c[1] \in A
        BY <1>3, <1>a
    <2>1. CASE ~(c[2] < c[3])
        <3>1. sort[c] = c[1]
            BY <1>16, <2>1
        <3>2. AscendingUpTo(sort[c], c[2], c[3])
            BY <1>3, <2>1 DEF AscendingUpTo
        <3>3. Rearranged(sort[c], c[1], c[2], c[3])
            BY <2>0, <3>1, NotRearranged
        <3> QED
            BY <2>0, <3>1, <3>2, <3>3
    <2>2. CASE c[2] < c[3]
        <3> DEFINE i == c[2]
                   k == c[3]
                   m == mid(c)
                   x == sort[<<c[1], i, m>>]
                   y == sort[<<x, m + 1, k>>]
        <3>1. /\ m \in i..(k - 1) /\ m \in 1..n /\ m \in 0..n /\ m + 1 \in 1..n
              /\ i \in 1..n /\ k \in 1..n /\ k \in 0..n
            BY <1>3, <1>5, <2>2
        <3>2. <<c[1], i, m>> \in S
            BY <1>4, <1>13, <1>17, <2>0, <2>2, <3>1
        <3>3. x \in A /\ AscendingUpTo(x, i, m) /\ Rearranged(x, c[1], i, m)
            BY <3>2
        <3> HIDE DEF x, i, k, m
        <3>4. <<x, m + 1, k>> \in S
            BY <1>4, <1>13, <1>17, <2>2, <3>1, <3>3 DEF k, m
        <3>5. y \in A /\ AscendingUpTo(y, m + 1, k) /\ Rearranged(y, x, m + 1, k)
            BY <3>4
        <3> HIDE DEF y
        <3>6. sort[c] = merge(y, i, m, k)
            BY <1>16, <2>2 DEF i, k, m, x, y
        <3>7. \A j \in 1..n : j \notin (m + 1)..k => y[j] = x[j]
            <4>1. Len(x) = n
                BY <3>3 DEF A
            <4> QED
                BY <3>5, <4>1 DEF Rearranged, Ordering
        <3>8. AscendingUpTo(y, i, m)
            <4>1. ASSUME NEW j \in i..(m - 1)
                  PROVE  y[j] <= y[j + 1]
                <5>1. /\ j \in 1..n /\ j + 1 \in 1..n
                      /\ j \notin (m + 1)..k /\ j + 1 \notin (m + 1)..k
                    BY <3>1
                <5>2. x[j] <= x[j + 1]
                    BY <3>3 DEF AscendingUpTo
                <5> QED
                    BY <3>7, <5>1, <5>2
            <4> QED
                BY <4>1 DEF AscendingUpTo
        <3>9. /\ sort[c] \in A /\ AscendingUpTo(sort[c], i, k)
              /\ Rearranged(sort[c], y, i, k)
            <4>1. y \in [1..n -> Int]
                BY <3>5 DEF A
            <4>2. /\ AscendingUpTo(merge(y, i, m, k), i, k)
                  /\ Rearranged(merge(y, i, m, k), y, i, k)
                BY <3>1, <3>5, <3>8, <4>1, mergeIs
            <4>3. merge(y, i, m, k) \in A
                BY <1>6, <3>1, <3>5
            <4> QED
                BY <3>6, <4>2, <4>3
        <3>10. Rearranged(y, c[1], i, k)
            <4>1. Rearranged(x, c[1], i, k)
                <5>1. Rearranged(c[1], c[1], i, k)
                    BY <2>0, NotRearranged
                <5>2. i \in Int /\ m \in Int /\ k \in Int /\ i >= i /\ m <= k
                    BY <3>1
                <5> QED
                    BY <2>0, <3>3, <5>1, <5>2, RearrangedAgain
            <4>2. m + 1 \in Int /\ i \in Int /\ k \in Int /\ m + 1 >= i /\ k <= k
                BY <3>1
            <4> QED
                BY <2>0, <3>5, <4>1, <4>2, RearrangedAgain
        <3>11. Rearranged(sort[c], c[1], i, k)
            <4>1. i \in Int /\ k \in Int /\ i >= i /\ k <= k
                BY <3>1
            <4> QED
                BY <2>0, <3>9, <3>10, <4>1, RearrangedAgain
        <3> QED
            BY <3>9, <3>11 DEF i, k
    <2> QED
        BY <2>1, <2>2
<1> HIDE DEF S
<1>18. \A c \in D : c \in S
    BY <1>8, <1>17, MeasureInduction
<1>19. <<arr, l, r>> \in D
    BY <1>1, <1>4
<1>20. /\ sort[<<arr, l, r>>] \in A
       /\ AscendingUpTo(sort[<<arr, l, r>>], l, r)
       /\ Rearranged(sort[<<arr, l, r>>], arr, l, r)
    BY <1>18, <1>19 DEF S
<1> QED
    BY <1>2, <1>20 DEF A

-----------------------------------------------------------------------------
(* A call returns once, and what its function makes of its arguments.      *)

IsCall == call \in {RegisterCall, KubeletCall} \cup Calls
Computed ==
    /\ \A s \in Result("insertionSort") : s = insertionSort(call.arr)
    /\ \A s \in Result("mergeSort") : s = mergeSort(call.arr, call.l, call.r)
    /\ \A res \in Result("permute") : res = permute(call.arr)
    /\ \A res \in Result("generateParenthesis") : res = generateParenthesis(call.n)
    /\ \A c \in Result("countPrimes") : c = countPrimes(call.n)
    /\ \A v \in Result("reverseBits") : v = reverseBits(call.n)

LEMMA AlwaysComputed == ComputationsSpec => [](IsCall /\ Computed)
<1>1. ComputationsInit => IsCall /\ Computed
    <2> SUFFICES ASSUME ComputationsInit PROVE IsCall /\ Computed
        OBVIOUS
    <2>1. call \in {RegisterCall, KubeletCall} \cup Calls
        BY DEF ComputationsInit
    <2>2. returned = {}
        BY DEF ComputationsInit
    <2> QED
        BY <2>1, <2>2 DEF IsCall, Computed, Result
<1>2. IsCall /\ Computed /\ [ComputationsNext]_<<runVars, call, returned>>
        => IsCall' /\ Computed'
    <2> SUFFICES ASSUME IsCall, Computed, [ComputationsNext]_<<runVars, call, returned>>
                 PROVE  IsCall' /\ Computed'
        OBVIOUS
    <2>1. call' = call
        BY DEF ComputationsNext, Histogram, InsertionSort, MergeSort, Permute, Parentheses,
               Primes, Reversed, Kubelet, Returns
    <2>2. CASE returned' = returned
        BY <2>1, <2>2 DEF IsCall, Computed, Result
    <2>3. CASE InsertionSort
        BY <2>1, <2>3 DEF InsertionSort, Returns, IsCall, Computed, Result
    <2>4. CASE MergeSort
        BY <2>1, <2>4 DEF MergeSort, Returns, IsCall, Computed, Result
    <2>5. CASE Permute
        BY <2>1, <2>5 DEF Permute, Returns, IsCall, Computed, Result
    <2>6. CASE Parentheses
        BY <2>1, <2>6 DEF Parentheses, Returns, IsCall, Computed, Result
    <2>7. CASE Primes
        BY <2>1, <2>7 DEF Primes, Returns, IsCall, Computed, Result
    <2>8. CASE Reversed
        BY <2>1, <2>8 DEF Reversed, Returns, IsCall, Computed, Result
    <2> QED
        BY <2>2, <2>3, <2>4, <2>5, <2>6, <2>7, <2>8
        DEF ComputationsNext, Histogram, Kubelet
<1> QED
    BY <1>1, <1>2, PTL DEF ComputationsSpec

LEMMA CallArguments ==
    ASSUME IsCall
    PROVE  /\ call.function = "insertionSort" => call.arr \in Arrays
           /\ call.function = "mergeSort" =>
                 call.arr \in Arrays /\ call.l \in 1..Len(call.arr) /\ call.r \in 0..Len(call.arr)
           /\ call.function = "permute" => call.arr \in Lists
           /\ call.function = "generateParenthesis" => call.n \in Sizes
           /\ call.function = "countPrimes" => call.n \in Bounds
           /\ call.function = "reverseBits" => call.n \in Numbers
<1>1. \/ call = RegisterCall \/ call = KubeletCall
      \/ call \in [function : {"insertionSort"}, arr : Arrays]
      \/ call \in [function : {"permute"}, arr : Lists]
      \/ \E arr \in Arrays :
            call \in [function : {"mergeSort"}, arr : {arr}, l : 1..Len(arr), r : 0..Len(arr)]
      \/ call \in [function : {"generateParenthesis"}, n : Sizes]
      \/ call \in [function : {"countPrimes"}, n : Bounds]
      \/ call \in [function : {"reverseBits"}, n : Numbers]
    BY DEF IsCall, Calls
<1>2. CASE call = RegisterCall \/ call = KubeletCall
    BY <1>2 DEF RegisterCall, KubeletCall
<1>3. CASE call \in [function : {"insertionSort"}, arr : Arrays]
    BY <1>3
<1>4. CASE call \in [function : {"permute"}, arr : Lists]
    BY <1>4
<1>5. CASE \E arr \in Arrays :
              call \in [function : {"mergeSort"}, arr : {arr}, l : 1..Len(arr), r : 0..Len(arr)]
    BY <1>5
<1>6. CASE call \in [function : {"generateParenthesis"}, n : Sizes]
    BY <1>6
<1>7. CASE call \in [function : {"countPrimes"}, n : Bounds]
    BY <1>7
<1>8. CASE call \in [function : {"reverseBits"}, n : Numbers]
    BY <1>8
<1> QED
    BY <1>1, <1>2, <1>3, <1>4, <1>5, <1>6, <1>7, <1>8

LEMMA PartCounts ==
    ASSUME NEW n \in Nat, NEW a \in [1..n -> Int], NEW s \in [1..n -> Int],
           NEW l \in 1..(n + 1), NEW r \in 0..n, Rearranged(s, a, l, r)
    PROVE  /\ SameElements(SubSeq(s, l, r), SubSeq(a, l, r))
           /\ \A k \in 1..n : k \notin l..r => s[k] = a[k]
<1>1. Len(a) = n /\ Len(s) = n /\ a \in Seq(Int) /\ s \in Seq(Int)
    OBVIOUS
<1>2. ASSUME NEW t \in [1..n -> Int], NEW v
      PROVE  Occurrences(SubSeq(t, l, r), v) = Cardinality(Places(t, l, r, v))
    <2> DEFINE u == SubSeq(t, l, r)
               S == {k \in DOMAIN u : u[k] = v}
               T == {k \in l..r : t[k] = v}
               f == [k \in S |-> k + (l - 1)]
    <2>1. /\ DOMAIN u = 1..(r - l + 1)
          /\ \A k \in 1..(r - l + 1) : u[k] = t[l + k - 1]
        <3>1. \A k \in l..r : t[k] \in Int
            OBVIOUS
        <3>2. l \in Int /\ r \in Int
            OBVIOUS
        <3>3. /\ u \in Seq(Int) /\ Len(u) = IF l <= r THEN r - l + 1 ELSE 0
              /\ \A k \in 1..(r - l + 1) : u[k] = t[l + k - 1]
            BY <3>1, <3>2, SubSeqProperties
        <3>4. DOMAIN u = 1..Len(u)
            BY <3>3
        <3>5. 1..Len(u) = 1..(r - l + 1)
            BY <3>2, <3>3
        <3> QED
            BY <3>3, <3>4, <3>5
    <2> HIDE DEF u
    <2>2. f \in [S -> T]
        <3>1. ASSUME NEW k \in S
              PROVE  k + (l - 1) \in T
            <4>1. k \in 1..(r - l + 1) /\ t[l + k - 1] = v
                BY <2>1
            <4>2. k + (l - 1) = l + k - 1 /\ l + k - 1 \in l..r
                <5>1. k \in 1..(r - l + 1) /\ l \in Int /\ r \in Int
                    BY <4>1
                <5> HIDE DEF S, T, f
                <5> QED
                    BY <5>1
            <4> QED
                BY <4>1, <4>2
        <3> HIDE DEF S, T
        <3> QED
            BY <3>1
    <2>3. \A j, k \in S : f[j] = f[k] => j = k
        BY <2>1
    <2>4. ASSUME NEW i \in T
          PROVE  \E k \in S : f[k] = i
        <3>1. i - (l - 1) \in 1..(r - l + 1) /\ l + (i - (l - 1)) - 1 = i
            OBVIOUS
        <3>2. i - (l - 1) \in S
            BY <2>1, <3>1
        <3> QED
            BY <3>2
    <2>5. IsFiniteSet(S)
        <3>1. IsFiniteSet(1..(r - l + 1))
            BY FS_Interval
        <3> QED
            BY <2>1, <3>1, FS_Subset
    <2> HIDE DEF S, T, f
    <2>6. f \in Bijection(S, T)
        BY <2>2, <2>3, <2>4 DEF Bijection, Injection, Surjection, IsInjective
    <2>7. Cardinality(T) = Cardinality(S)
        BY <2>5, <2>6, FS_Bijection DEF ExistsBijection
    <2> QED
        BY <2>7 DEF Occurrences, Places, S, T, u
<1>3. ASSUME NEW v
      PROVE  Occurrences(SubSeq(s, l, r), v) = Occurrences(SubSeq(a, l, r), v)
    <2>1. Cardinality(Places(s, l, r, v)) = Cardinality(Places(a, l, r, v))
        <3>1. l \in 1..(Len(a) + 1) /\ r \in 0..Len(a)
            BY <1>1
        <3> QED
            BY <1>1, <3>1, RearrangedCounts
    <2> QED
        BY <1>2, <2>1
<1>4. SameElements(SubSeq(s, l, r), SubSeq(a, l, r))
    BY <1>3 DEF SameElements
<1>5. \A k \in 1..n : k \notin l..r => s[k] = a[k]
    BY <1>1 DEF Rearranged, Ordering
<1> QED
    BY <1>4, <1>5

\* Whatever the list and the part of it that is to be sorted, both sorts put that
\* part in order, lose and invent nothing, and touch nothing else (insertion.py
\* lines 1-15, reverse_string.py lines 7-80).
THEOREM AlwaysSorted == ComputationsSpec => []Sorted
<1>1. IsCall /\ Computed => Sorted
    <2> SUFFICES ASSUME IsCall, Computed PROVE Sorted
        OBVIOUS
    <2>1. ASSUME NEW s \in Result("insertionSort")
          PROVE  Ascending(s) /\ SameElements(s, call.arr)
        <3> DEFINE a == call.arr
                   n == Len(a)
        <3>1. call.function = "insertionSort" /\ s = insertionSort(a)
            BY <2>1 DEF Result, Computed
        <3>2. a \in Arrays
            BY <3>1, CallArguments
        <3> HIDE DEF a
        <3>3. a \in [1..n -> Int] /\ n \in Nat
            BY <3>2, InputsAssumption
        <3> HIDE DEF n
        <3>4. s \in [1..n -> Int] /\ AscendingUpTo(s, 1, n) /\ Rearranged(s, a, 1, n)
            BY <3>1, <3>3, insertionSortIs
        <3>5. Len(s) = n /\ Len(a) = n /\ s \in Seq(Int) /\ a \in Seq(Int)
            BY <3>3, <3>4
        <3>6. SubSeq(s, 1, n) = s /\ SubSeq(a, 1, n) = a
            BY <3>5, SubSeqFull
        <3>7. SameElements(SubSeq(s, 1, n), SubSeq(a, 1, n))
            BY <3>3, <3>4, PartCounts
        <3>8. Ascending(s)
            BY <3>4, <3>5 DEF Ascending, AscendingUpTo
        <3> QED
            BY <3>6, <3>7, <3>8 DEF a
    <2>2. ASSUME NEW s \in Result("mergeSort")
          PROVE  LET Part(t) == SubSeq(t, call.l, call.r)
                 IN  /\ Ascending(Part(s)) /\ SameElements(Part(s), Part(call.arr))
                     /\ Len(s) = Len(call.arr)
                     /\ \A k \in DOMAIN s : k \notin call.l..call.r => s[k] = call.arr[k]
        <3> DEFINE a == call.arr
                   l == call.l
                   r == call.r
                   n == Len(a)
        <3>1. call.function = "mergeSort" /\ s = mergeSort(a, l, r)
            BY <2>2 DEF Result, Computed
        <3>2. a \in Arrays /\ l \in 1..n /\ r \in 0..n
            BY <3>1, CallArguments
        <3> HIDE DEF a, l, r
        <3>3. a \in [1..n -> Int] /\ n \in Nat
            BY <3>2, InputsAssumption
        <3>4. Len(a) = n
            OBVIOUS
        <3> HIDE DEF n
        <3>5. s \in [1..n -> Int] /\ AscendingUpTo(s, l, r) /\ Rearranged(s, a, l, r)
            BY <3>1, <3>2, <3>3, mergeSortIs
        <3>6. Len(s) = n /\ DOMAIN s = 1..n
            BY <3>3, <3>5
        <3>7. /\ SameElements(SubSeq(s, l, r), SubSeq(a, l, r))
              /\ \A k \in 1..n : k \notin l..r => s[k] = a[k]
            <4>1. l \in 1..(n + 1)
                BY <3>2, <3>3
            <4>2. /\ n \in Nat /\ a \in [1..n -> Int] /\ s \in [1..n -> Int]
                  /\ r \in 0..n /\ Rearranged(s, a, l, r)
                BY <3>2, <3>3, <3>5
            <4> QED
                BY <4>1, <4>2, PartCounts
        <3>8. Ascending(SubSeq(s, l, r))
            <4>1. \A k \in l..r : s[k] \in Int
                <5>1. \A k \in l..r : k \in 1..n
                    BY <3>2, <3>3
                <5> QED
                    BY <3>5, <5>1
            <4>2. l \in Int /\ r \in Int
                BY <3>2
            <4> DEFINE u == SubSeq(s, l, r)
            <4>3. /\ Len(u) = IF l <= r THEN r - l + 1 ELSE 0
                  /\ \A k \in 1..(r - l + 1) : u[k] = s[l + k - 1]
                BY <4>1, <4>2, SubSeqProperties
            <4> HIDE DEF u
            <4>4. ASSUME NEW k \in 1..(Len(u) - 1)
                  PROVE  u[k] <= u[k + 1]
                <5>1. /\ k \in 1..(r - l + 1) /\ k + 1 \in 1..(r - l + 1)
                      /\ l + k - 1 \in l..(r - 1) /\ l + (k + 1) - 1 = (l + k - 1) + 1
                    BY <4>2, <4>3
                <5>2. s[l + k - 1] <= s[(l + k - 1) + 1]
                    BY <3>5, <5>1 DEF AscendingUpTo
                <5> QED
                    BY <4>3, <5>1, <5>2
            <4> QED
                BY <4>4 DEF Ascending, u
        <3> QED
            BY <3>4, <3>6, <3>7, <3>8 DEF a, l, r
    <2> QED
        BY <2>1, <2>2 DEF Sorted
<1> QED
    BY <1>1, AlwaysComputed, PTL

-----------------------------------------------------------------------------
(* countPrimes.                                                            *)

LEMMA DivMod ==
    ASSUME NEW p \in Nat, NEW d \in Nat \ {0}
    PROVE  p = d * (p \div d) + (p % d)
OBVIOUS

LEMMA Divides ==
    ASSUME NEW p \in Nat, NEW d \in Nat \ {0}, p % d = 0
    PROVE  \E e \in Nat : p = d * e
<1>1. p = d * (p \div d) + (p % d)
    BY DivMod
<1>2. p \div d \in Nat
    OBVIOUS
<1> QED
    BY <1>1, <1>2

LEMMA Multiple ==
    ASSUME NEW d \in Nat \ {0}, NEW e \in Nat
    PROVE  (d * e) % d = 0
OBVIOUS

LEMMA LessTimes ==
    ASSUME NEW a \in Nat, NEW b \in Nat, NEW c \in Nat, b <= c
    PROVE  a * b <= a * c /\ b * a <= c * a
OBVIOUS

LEMMA DividesThrough ==
    ASSUME NEW d \in Nat \ {0}, NEW i \in Nat \ {0}, NEW p \in Nat, i % d = 0, p % i = 0
    PROVE  p % d = 0
<1>1. PICK x \in Nat : i = d * x
    BY Divides
<1>2. PICK y \in Nat : p = i * y
    BY Divides
<1>3. p = d * (x * y) /\ x * y \in Nat
    BY <1>1, <1>2
<1> QED
    BY <1>3, Multiple

\* The sieve has crossed p out after the step i.
Crossed(n, i, p) == \E d \in 2..i : d * d < n /\ p >= d * d /\ p % d = 0

\* The sieve after the step i.
Sieving(sieve, n) ==
    \A i \in 1..(n + 1) :
       sieve[i] = IF i = 1 THEN [p \in 0..(n - 1) |-> TRUE]
                  ELSE IF LooksAt(n, i) THEN CrossOut(sieve[i - 1], i) ELSE sieve[i - 1]

LEMMA countPrimesSieves ==
    ASSUME NEW n \in Nat
    PROVE  \E sieve : /\ Sieving(sieve, n)
                      /\ countPrimes(n) = Cardinality({p \in 2..(n - 1) : sieve[n + 1][p]})
<1> DEFINE D == 1..(n + 1)
           A == [0..(n - 1) -> BOOLEAN]
           measure == [i \in D |-> i]
           body == [g \in [D -> A] |-> [i \in D |->
                       IF i = 1 THEN [p \in 0..(n - 1) |-> TRUE]
                       ELSE IF LooksAt(n, i) THEN CrossOut(g[i - 1], i) ELSE g[i - 1]]]
           sieve == CHOOSE sieve : sieve = [i \in D |->
                       IF i = 1 THEN [p \in 0..(n - 1) |-> TRUE]
                       ELSE IF LooksAt(n, i) THEN CrossOut(sieve[i - 1], i) ELSE sieve[i - 1]]
<1>1. countPrimes(n) = Cardinality({p \in 2..(n - 1) : sieve[n + 1][p]})
    BY DEF countPrimes
<1> HIDE DEF sieve
<1>2. ASSUME NEW i \in D, i # 1
      PROVE  i - 1 \in D /\ measure[i - 1] < measure[i]
    BY <1>2
<1>3. measure \in [D -> Nat]
    OBVIOUS
<1>4. ASSUME NEW s \in A, NEW i \in D
      PROVE  CrossOut(s, i) \in A
    BY DEF CrossOut
<1>5. [p \in 0..(n - 1) |-> TRUE] \in A
    OBVIOUS
<1> HIDE DEF A, D, measure
<1>6. \A g \in [D -> A] : \A i \in D :
         body[g][i] = IF i = 1 THEN [p \in 0..(n - 1) |-> TRUE]
                      ELSE IF LooksAt(n, i) THEN CrossOut(g[i - 1], i) ELSE g[i - 1]
    OBVIOUS
<1>7. body \in [[D -> A] -> [D -> A]]
    <2>1. ASSUME NEW g \in [D -> A], NEW i \in D, i # 1
          PROVE  g[i - 1] \in A /\ CrossOut(g[i - 1], i) \in A
        BY <1>2, <1>4, <2>1
    <2> QED
        BY <1>5, <2>1
<1> HIDE DEF body
<1>8. Wellfounded(D, A, measure, body)
    <2>1. ASSUME NEW g \in [D -> A], NEW h \in [D -> A], NEW i \in D,
                 \A j \in D : measure[j] < measure[i] => g[j] = h[j]
          PROVE  body[g][i] = body[h][i]
        <3>1. i # 1 => g[i - 1] = h[i - 1]
            BY <1>2, <2>1
        <3> QED
            BY <1>6, <3>1
    <2> QED
        BY <1>3, <1>7, <2>1 DEF Wellfounded
<1>9. PICK f \in [D -> A] : f = body[f]
    BY <1>5, <1>8, FixpointExists
<1>10. sieve = [i \in D |-> IF i = 1 THEN [p \in 0..(n - 1) |-> TRUE]
                            ELSE IF LooksAt(n, i) THEN CrossOut(sieve[i - 1], i) ELSE sieve[i - 1]]
    <2>1. f = [i \in D |-> IF i = 1 THEN [p \in 0..(n - 1) |-> TRUE]
                           ELSE IF LooksAt(n, i) THEN CrossOut(f[i - 1], i) ELSE f[i - 1]]
        BY <1>9 DEF body
    <2> QED
        BY <2>1 DEF sieve
<1>11. Sieving(sieve, n)
    BY <1>10 DEF Sieving, D
<1> QED
    BY <1>1, <1>11

LEMMA SieveCrosses ==
    ASSUME NEW n \in Nat, NEW sieve, Sieving(sieve, n)
    PROVE  \A i \in 1..(n + 1) :
              /\ sieve[i] \in [0..(n - 1) -> BOOLEAN]
              /\ \A p \in 2..(n - 1) : sieve[i][p] <=> ~Crossed(n, i, p)
<1> DEFINE N == 0..(n - 1)
           S == {k \in 0..n : /\ sieve[k + 1] \in [N -> BOOLEAN]
                              /\ \A p \in 2..(n - 1) : sieve[k + 1][p] <=> ~Crossed(n, k + 1, p)}
<1>1. 0 \in S
    <2>1. sieve[0 + 1] = [p \in N |-> TRUE]
        <3>1. 0 + 1 = 1 /\ 1 \in 1..(n + 1)
            OBVIOUS
        <3> QED
            BY <3>1 DEF Sieving
    <2>2. \A p \in 2..(n - 1) : ~Crossed(n, 0 + 1, p)
        BY DEF Crossed
    <2>3. 2..(n - 1) \subseteq N /\ 0 \in 0..n
        OBVIOUS
    <2> HIDE DEF N
    <2> QED
        BY <2>1, <2>2, <2>3
<1>2. ASSUME NEW k \in 0..(n - 1), k \in S
      PROVE  k + 1 \in S
    <2> DEFINE i == k + 2
               old == sieve[k + 1]
               new == sieve[(k + 1) + 1]
    <2>1. /\ i \in 1..(n + 1) /\ i # 1 /\ i - 1 = k + 1 /\ i = (k + 1) + 1
          /\ i \in Nat \ {0} /\ i >= 2 /\ k + 1 \in 0..n
        OBVIOUS
    <2>2. new = IF LooksAt(n, i) THEN CrossOut(old, i) ELSE old
        BY <2>1 DEF Sieving
    <2>3. old \in [N -> BOOLEAN] /\ \A p \in 2..(n - 1) : old[p] <=> ~Crossed(n, i - 1, p)
        BY <1>2, <2>1
    <2>4. ASSUME NEW p \in 2..(n - 1)
          PROVE  Crossed(n, i, p) <=>
                    Crossed(n, i - 1, p) \/ (i * i < n /\ p >= i * i /\ p % i = 0)
        <3>1. 2..i = 2..(i - 1) \cup {i}
            BY <2>1
        <3> HIDE DEF i
        <3> QED
            BY <3>1 DEF Crossed
    <2> HIDE DEF i, old, new
    <2>5. CASE ~(i * i < n)
        <3>1. new = old
            BY <2>2, <2>5 DEF LooksAt
        <3>2. \A p \in 2..(n - 1) : Crossed(n, i, p) <=> Crossed(n, i - 1, p)
            BY <2>4, <2>5
        <3>3. new \in [N -> BOOLEAN] /\ \A p \in 2..(n - 1) : new[p] <=> ~Crossed(n, i, p)
            BY <2>3, <3>1, <3>2
        <3> QED
            BY <2>1, <3>3 DEF new
    <2>6. CASE i * i < n
        <3>1. i <= i * i
            <4>1. i * 1 <= i * i
                BY <2>1, LessTimes
            <4> QED
                BY <2>1, <4>1
        <3>2. i \in 2..(n - 1) /\ i \in N
            BY <2>1, <2>6, <3>1
        <3>3. new = CrossOut(old, i)
            BY <2>2, <2>6 DEF LooksAt
        <3>4. DOMAIN old = N
            BY <2>3
        <3>5. ASSUME NEW p \in 2..(n - 1)
              PROVE  new[p] <=> ~Crossed(n, i, p)
            <4>0. p \in N
                OBVIOUS
            <4>1. CASE old[i]
                <5>1. new[p] = (old[p] /\ ~(p >= i * i /\ p % i = 0))
                    BY <3>3, <3>4, <4>0, <4>1 DEF CrossOut
                <5> QED
                    BY <2>3, <2>4, <2>6, <5>1
            <4>2. CASE ~old[i]
                <5>1. new = old
                    BY <3>3, <4>2 DEF CrossOut
                <5>2. ASSUME i * i < n, p >= i * i, p % i = 0
                      PROVE  Crossed(n, i - 1, p)
                    <6>0. Crossed(n, i - 1, i)
                        BY <2>3, <3>2, <4>2
                    <6>1. PICK d \in 2..(i - 1) : d * d < n /\ i >= d * d /\ i % d = 0
                        BY <6>0 DEF Crossed
                    <6>2. p % d = 0
                        <7>1. d \in Nat \ {0} /\ p \in Nat
                            BY <2>1
                        <7> QED
                            BY <2>1, <5>2, <6>1, <7>1, DividesThrough
                    <6>3. p >= d * d
                        <7>1. d * d \in Nat /\ i \in Nat /\ i * i \in Nat /\ p \in Nat
                            BY <2>1
                        <7> QED
                            BY <3>1, <5>2, <6>1, <7>1
                    <6> QED
                        BY <6>1, <6>2, <6>3 DEF Crossed
                <5> QED
                    BY <2>3, <2>4, <5>1, <5>2
            <4> QED
                BY <4>1, <4>2
        <3>6. new \in [N -> BOOLEAN]
            <4>1. new = old \/ new = [p \in N |-> old[p] /\ ~(p >= i * i /\ p % i = 0)]
                BY <3>3, <3>4 DEF CrossOut
            <4> QED
                BY <2>3, <4>1
        <3> QED
            BY <2>1, <3>5, <3>6 DEF new
    <2> QED
        BY <2>5, <2>6
<1> HIDE DEF S
<1>3. \A k \in 0..n : k \in S
    BY <1>1, <1>2, CountedUp
<1> SUFFICES ASSUME NEW i \in 1..(n + 1)
             PROVE  /\ sieve[i] \in [N -> BOOLEAN]
                    /\ \A p \in 2..(n - 1) : sieve[i][p] <=> ~Crossed(n, i, p)
    OBVIOUS
<1>4. i - 1 \in 0..n /\ (i - 1) + 1 = i
    OBVIOUS
<1>5. i - 1 \in S
    BY <1>3, <1>4
<1> QED
    BY <1>4, <1>5 DEF S

\* A number that is not prime has a divisor up to its root.
LEMMA CrossedAreComposite ==
    ASSUME NEW n \in Nat, NEW p \in 2..(n - 1)
    PROVE  Crossed(n, n + 1, p) <=> ~IsPrime(p)
<1>1. ASSUME Crossed(n, n + 1, p)
      PROVE  ~IsPrime(p)
    <2>1. PICK d \in 2..(n + 1) : d * d < n /\ p >= d * d /\ p % d = 0
        BY <1>1 DEF Crossed
    <2>2. d < p
        <3>1. d * 2 <= d * d
            BY LessTimes
        <3>2. d \in Nat /\ d * d \in Nat /\ d < d * 2
            OBVIOUS
        <3> QED
            BY <2>1, <3>1, <3>2
    <2>3. d \in 2..(p - 1)
        BY <2>2
    <2> QED
        BY <2>1, <2>3 DEF IsPrime
<1>2. ASSUME ~IsPrime(p)
      PROVE  Crossed(n, n + 1, p)
    <2>0. p > 1
        OBVIOUS
    <2>1. PICK d \in 2..(p - 1) : p % d = 0
        BY <1>2, <2>0 DEF IsPrime
    <2>2. PICK e \in Nat : p = d * e
        BY <2>1, Divides
    <2>3. e # 0 /\ e # 1
        BY <2>2
    <2>4. e >= 2
        BY <2>3
    <2>5. p = e * d /\ p % e = 0
        <3>1. e * d = d * e
            OBVIOUS
        <3>2. (e * d) % e = 0
            BY <2>3, Multiple
        <3> QED
            BY <2>2, <3>1, <3>2
    <2>6. e < p
        <3>1. e * 2 <= e * d
            BY LessTimes
        <3>2. e < e * 2
            BY <2>4
        <3> QED
            BY <2>5, <3>1, <3>2
    <2>7. CASE d <= e
        <3>1. d * d <= d * e
            BY <2>7, LessTimes
        <3>2. d * d \in Nat /\ p >= d * d /\ d * d < n /\ d \in 2..(n + 1)
            BY <2>2, <3>1
        <3> QED
            BY <2>1, <3>2 DEF Crossed
    <2>8. CASE ~(d <= e)
        <3>1. e * e <= e * d
            BY <2>8, LessTimes
        <3>2. e * e \in Nat /\ p >= e * e /\ e * e < n /\ e \in 2..(n + 1)
            BY <2>4, <2>5, <2>6, <3>1
        <3> QED
            BY <2>5, <3>2 DEF Crossed
    <2> QED
        BY <2>7, <2>8
<1> QED
    BY <1>1, <1>2

LEMMA countPrimesIs ==
    ASSUME NEW n \in Nat
    PROVE  countPrimes(n) = Cardinality({p \in 2..(n - 1) : IsPrime(p)})
<1>1. PICK sieve : /\ Sieving(sieve, n)
                   /\ countPrimes(n) = Cardinality({p \in 2..(n - 1) : sieve[n + 1][p]})
    BY countPrimesSieves
<1>2. ASSUME NEW p \in 2..(n - 1)
      PROVE  sieve[n + 1][p] <=> IsPrime(p)
    <2>1. n + 1 \in 1..(n + 1)
        OBVIOUS
    <2>2. sieve[n + 1][p] <=> ~Crossed(n, n + 1, p)
        BY <1>1, <2>1, SieveCrosses
    <2> QED
        BY <2>2, CrossedAreComposite
<1>3. {p \in 2..(n - 1) : sieve[n + 1][p]} = {p \in 2..(n - 1) : IsPrime(p)}
    BY <1>2
<1> QED
    BY <1>1, <1>3

-----------------------------------------------------------------------------
(* reverseBits.                                                            *)

LEMMA Powers ==
    /\ PowerOf2[0] = 1
    /\ \A k \in Nat : /\ PowerOf2[k] \in Nat \ {0}
                      /\ PowerOf2[k + 1] = 2 * PowerOf2[k]
                      /\ PowerOf2[k] > k
<1> DEFINE D == Nat
           A == Nat
           measure == [k \in D |-> k]
           body == [g \in [D -> A] |-> [k \in D |-> IF k = 0 THEN 1 ELSE 2 * g[k - 1]]]
<1>1. measure \in [D -> Nat] /\ A # {} /\ body \in [[D -> A] -> [D -> A]]
    OBVIOUS
<1>2. ASSUME NEW g \in [D -> A], NEW h \in [D -> A], NEW k \in D,
             \A j \in D : measure[j] < measure[k] => g[j] = h[j]
      PROVE  body[g][k] = body[h][k]
    <2>1. k # 0 => k - 1 \in D /\ measure[k - 1] < measure[k]
        OBVIOUS
    <2> QED
        BY <1>2, <2>1
<1>3. \E g \in [D -> A] : g = body[g]
    <2> HIDE DEF D, A, measure, body
    <2>1. Wellfounded(D, A, measure, body)
        BY <1>1, <1>2 DEF Wellfounded
    <2> QED
        BY <1>1, <2>1, FixpointExists
<1>4. PowerOf2 = [k \in Nat |-> IF k = 0 THEN 1 ELSE 2 * PowerOf2[k - 1]]
    <2>1. PICK g : g = [k \in Nat |-> IF k = 0 THEN 1 ELSE 2 * g[k - 1]]
        BY <1>3
    <2> QED
        BY <2>1 DEF PowerOf2
<1>5. PowerOf2[0] = 1
    BY <1>4
<1>6. ASSUME NEW k \in Nat
      PROVE  PowerOf2[k + 1] = 2 * PowerOf2[k]
    <2>1. k + 1 \in Nat /\ k + 1 # 0 /\ (k + 1) - 1 = k
        OBVIOUS
    <2> QED
        BY <1>4, <2>1
<1>7. ASSUME NEW n \in Nat
      PROVE  PowerOf2[n] \in Nat /\ PowerOf2[n] > n
    <2> DEFINE S == {k \in 0..n : PowerOf2[k] \in Nat /\ PowerOf2[k] > k}
    <2>1. 0 \in S
        BY <1>5
    <2>2. ASSUME NEW k \in 0..(n - 1), k \in S
          PROVE  k + 1 \in S
        <3>1. PowerOf2[k + 1] = 2 * PowerOf2[k] /\ PowerOf2[k] \in Nat /\ PowerOf2[k] > k
            BY <1>6, <2>2
        <3>2. PowerOf2[k + 1] \in Nat /\ PowerOf2[k + 1] > k + 1
            BY <3>1
        <3> QED
            BY <3>2
    <2> HIDE DEF S
    <2>3. \A k \in 0..n : k \in S
        BY <2>1, <2>2, CountedUp
    <2> QED
        BY <2>3 DEF S
<1> QED
    BY <1>5, <1>6, <1>7

LEMMA PowersGrow ==
    ASSUME NEW n \in Nat, NEW k \in 0..n
    PROVE  PowerOf2[k] <= PowerOf2[n]
<1> DEFINE S == {m \in 0..n : \A j \in 0..m : PowerOf2[j] <= PowerOf2[m]}
<1>1. 0 \in S
    BY Powers
<1>2. ASSUME NEW m \in 0..(n - 1), m \in S
      PROVE  m + 1 \in S
    <2>1. ASSUME NEW j \in 0..(m + 1)
          PROVE  PowerOf2[j] <= PowerOf2[m + 1]
        <3>1. /\ PowerOf2[m + 1] = 2 * PowerOf2[m] /\ PowerOf2[m] \in Nat
              /\ PowerOf2[j] \in Nat
            BY Powers
        <3>2. CASE j = m + 1
            BY <3>1, <3>2
        <3>3. CASE j # m + 1
            <4>1. PowerOf2[j] <= PowerOf2[m]
                BY <1>2, <3>3
            <4> QED
                BY <3>1, <4>1
        <3> QED
            BY <3>2, <3>3
    <2> QED
        BY <2>1
<1> HIDE DEF S
<1>3. \A m \in 0..n : m \in S
    BY <1>1, <1>2, CountedUp
<1> QED
    BY <1>3 DEF S

LEMMA QuotientIs ==
    ASSUME NEW n \in Nat, NEW b \in Nat, NEW q \in Nat, NEW r \in Nat, r < b, n = b * q + r
    PROVE  n \div b = q
<1>1. n = b * (n \div b) + (n % b) /\ n % b \in 0..(b - 1) /\ n \div b \in Nat
    BY DivMod
<1> DEFINE x == n \div b
           y == n % b
<1> HIDE DEF x, y
<1>2. x \in Nat /\ y \in 0..(b - 1) /\ n = b * x + y
    BY <1>1 DEF x, y
<1>3. CASE x < q
    <2>1. b * (x + 1) <= b * q
        BY <1>2, <1>3, LessTimes
    <2>2. b * (x + 1) = b * x + b
        BY <1>2
    <2> QED
        BY <1>2, <2>1, <2>2
<1>4. CASE q < x
    <2>1. b * (q + 1) <= b * x
        BY <1>2, <1>4, LessTimes
    <2>2. b * (q + 1) = b * q + b
        OBVIOUS
    <2> QED
        BY <1>2, <2>1, <2>2
<1> QED
    BY <1>2, <1>3, <1>4 DEF x

LEMMA HalvesFirst ==
    ASSUME NEW n \in Nat, NEW P \in Nat \ {0}
    PROVE  n \div (2 * P) = (n \div 2) \div P
<1> DEFINE b == 2 * P
           q == n \div b
           r == n % b
           x == P * q
<1>1. b \in Nat \ {0} /\ q \in Nat /\ r \in 0..(b - 1) /\ n = b * q + r
    <2>1. b \in Nat \ {0}
        OBVIOUS
    <2> HIDE DEF b
    <2>2. q \in Nat /\ r \in 0..(b - 1)
        BY <2>1
    <2>3. n = b * q + r
        BY <2>1, DivMod
    <2> QED
        BY <2>1, <2>2, <2>3
<1> HIDE DEF q, r
<1>2. b * q = 2 * x /\ x \in Nat
    BY <1>1
<1> HIDE DEF x
<1>3. n \div 2 = x + r \div 2 /\ r \div 2 \in Nat /\ r \div 2 < P
    BY <1>1, <1>2
<1>4. (n \div 2) \div P = q
    <2> DEFINE h == n \div 2
               s == r \div 2
    <2>1. h = P * q + s /\ s \in Nat /\ s < P /\ h \in Nat
        BY <1>3 DEF x
    <2> HIDE DEF h, s
    <2>2. h \div P = q
        BY <1>1, <2>1, QuotientIs
    <2> QED
        BY <2>2 DEF h
<1> QED
    BY <1>4 DEF q

LEMMA Bits ==
    ASSUME NEW n \in Nat
    PROVE  /\ Bit(n, 0) = n % 2
           /\ \A k \in Nat : Bit(n, k) \in {0, 1} /\ Bit(n, k + 1) = Bit(n \div 2, k)
           /\ \A k \in Nat : n < PowerOf2[k] => Bit(n, k) = 0
<1>1. Bit(n, 0) = n % 2
    BY Powers DEF Bit
<1>2. ASSUME NEW k \in Nat
      PROVE  /\ Bit(n, k) \in {0, 1} /\ Bit(n, k + 1) = Bit(n \div 2, k)
             /\ n < PowerOf2[k] => Bit(n, k) = 0
    <2> DEFINE P == PowerOf2[k]
    <2>1. P \in Nat \ {0} /\ PowerOf2[k + 1] = 2 * P
        BY Powers
    <2> HIDE DEF P
    <2>2. n \div P \in Nat
        BY <2>1
    <2>3. (n \div P) % 2 \in {0, 1}
        BY <2>2
    <2>4. Bit(n, k + 1) = Bit(n \div 2, k)
        BY <2>1, HalvesFirst DEF Bit, P
    <2>5. n < P => n \div P = 0
        BY <2>1
    <2> QED
        BY <2>3, <2>4, <2>5 DEF Bit, P
<1> QED
    BY <1>1, <1>2

\* The digits of n, the highest first, and not one more than it needs.
BinaryOf(d, n) ==
    /\ d \in Seq(Int) /\ n < PowerOf2[Len(d)]
    /\ Len(d) > 0 => n >= PowerOf2[Len(d) - 1]
    /\ \A k \in 1..Len(d) : d[k] = Bit(n, Len(d) - k)

LEMMA AppendIs ==
    ASSUME NEW T, NEW s \in Seq(T), NEW e \in T
    PROVE  /\ Append(s, e) \in Seq(T)
           /\ Len(Append(s, e)) = Len(s) + 1
           /\ \A k \in 1..Len(s) : Append(s, e)[k] = s[k]
           /\ Append(s, e)[Len(s) + 1] = e
OBVIOUS

LEMMA DigitAdded ==
    ASSUME NEW n \in Nat \ {0}, NEW d, BinaryOf(d, n \div 2)
    PROVE  BinaryOf(Append(d, n % 2), n)
<1> DEFINE L == Len(d)
           b == n % 2
           h == n \div 2
           e == Append(d, b)
<1>1. b \in {0, 1} /\ h \in Nat /\ n = 2 * h + b
    OBVIOUS
<1>2. /\ d \in Seq(Int) /\ L \in Nat /\ h < PowerOf2[L]
      /\ L > 0 => h >= PowerOf2[L - 1]
      /\ \A k \in 1..L : d[k] = Bit(h, L - k)
    BY DEF BinaryOf
<1>3. /\ e \in Seq(Int) /\ Len(e) = L + 1 /\ e[L + 1] = b
      /\ \A k \in 1..L : e[k] = d[k]
    <2>1. b \in Int
        BY <1>1
    <2> HIDE DEF b
    <2> QED
        BY <1>2, <2>1, AppendIs
<1> HIDE DEF L, e
<1>4. n < PowerOf2[L + 1]
    <2>1. PowerOf2[L] \in Nat /\ PowerOf2[L + 1] = 2 * PowerOf2[L]
        BY <1>2, Powers
    <2> HIDE DEF h, b
    <2> QED
        BY <1>1, <1>2, <2>1
<1>5. n >= PowerOf2[(L + 1) - 1]
    <2>1. CASE L = 0
        BY <1>1, <2>1, Powers
    <2>2. CASE L > 0
        <3>1. L - 1 \in Nat /\ (L - 1) + 1 = L
            BY <1>2, <2>2
        <3>2. PowerOf2[L - 1] \in Nat /\ PowerOf2[L] = 2 * PowerOf2[L - 1]
            BY <3>1, Powers
        <3>3. (L + 1) - 1 = L
            BY <1>2
        <3> HIDE DEF h, b
        <3>4. h >= PowerOf2[L - 1]
            BY <1>2, <2>2
        <3>5. n >= PowerOf2[L]
            <4> DEFINE Q == PowerOf2[L - 1]
                       P == PowerOf2[L]
            <4>1. Q \in Nat /\ P = 2 * Q /\ h >= Q
                BY <3>2, <3>4
            <4> HIDE DEF Q, P
            <4>2. n >= P
                BY <1>1, <4>1
            <4> QED
                BY <4>2 DEF P
        <3> QED
            BY <3>3, <3>5
    <2> QED
        BY <1>2, <2>1, <2>2
<1>6. ASSUME NEW k \in 1..(L + 1)
      PROVE  e[k] = Bit(n, (L + 1) - k)
    <2>1. CASE k = L + 1
        <3>1. (L + 1) - k = 0
            BY <1>2, <2>1
        <3>2. Bit(n, 0) = b
            BY Bits
        <3> QED
            BY <1>3, <2>1, <3>1, <3>2
    <2>2. CASE k # L + 1
        <3>1. k \in 1..L /\ L - k \in Nat /\ (L - k) + 1 = (L + 1) - k
            BY <1>2, <2>2
        <3>2. Bit(n, (L - k) + 1) = Bit(h, L - k)
            BY <3>1, Bits
        <3> QED
            BY <1>2, <1>3, <3>1, <3>2
    <2> QED
        BY <2>1, <2>2
<1>7. BinaryOf(e, n)
    BY <1>2, <1>3, <1>4, <1>5, <1>6 DEF BinaryOf
<1> QED
    BY <1>7 DEF e

LEMMA DigitsIs ==
    ASSUME NEW n \in Nat
    PROVE  BinaryOf(Digits(n), n)
<1> DEFINE D == Nat
           A == Seq(Int)
           measure == [m \in D |-> m]
           body == [g \in [D -> A] |-> [m \in D |->
                       IF m = 0 THEN <<>> ELSE Append(g[m \div 2], m % 2)]]
           digits == CHOOSE digits : digits = [m \in Nat |->
                       IF m = 0 THEN <<>> ELSE Append(digits[m \div 2], m % 2)]
<1>1. Digits(n) = digits[n]
    BY DEF Digits
<1> HIDE DEF digits
<1>2. ASSUME NEW m \in D, m # 0
      PROVE  m \div 2 \in D /\ measure[m \div 2] < measure[m] /\ m % 2 \in Int
    BY <1>2
<1>3. measure \in [D -> Nat] /\ A # {} /\ <<>> \in A
    <2>1. <<>> \in A
        OBVIOUS
    <2>2. measure \in [D -> Nat]
        OBVIOUS
    <2> HIDE DEF A, D, measure
    <2> QED
        BY <2>1, <2>2
<1>4. ASSUME NEW s \in A, NEW e \in Int
      PROVE  Append(s, e) \in A
    BY AppendIs
<1>5. \A g \in [D -> A] : \A m \in D :
         body[g][m] = IF m = 0 THEN <<>> ELSE Append(g[m \div 2], m % 2)
    OBVIOUS
<1> HIDE DEF D, A, measure
<1>6. body \in [[D -> A] -> [D -> A]]
    <2>1. ASSUME NEW g \in [D -> A], NEW m \in D, m # 0
          PROVE  Append(g[m \div 2], m % 2) \in A
        BY <1>2, <1>4, <2>1
    <2> QED
        BY <1>3, <2>1
<1> HIDE DEF body
<1>7. Wellfounded(D, A, measure, body)
    <2>1. ASSUME NEW g \in [D -> A], NEW h \in [D -> A], NEW m \in D,
                 \A j \in D : measure[j] < measure[m] => g[j] = h[j]
          PROVE  body[g][m] = body[h][m]
        <3>1. m # 0 => g[m \div 2] = h[m \div 2]
            BY <1>2, <2>1
        <3> QED
            BY <1>5, <3>1
    <2> QED
        BY <1>3, <1>6, <2>1 DEF Wellfounded
<1>8. PICK f \in [D -> A] : f = body[f]
    BY <1>3, <1>7, FixpointExists
<1>9. digits = [m \in Nat |-> IF m = 0 THEN <<>> ELSE Append(digits[m \div 2], m % 2)]
    <2>1. f = [m \in Nat |-> IF m = 0 THEN <<>> ELSE Append(f[m \div 2], m % 2)]
        BY <1>8 DEF body, D
    <2> QED
        BY <2>1 DEF digits
<1> DEFINE S == {m \in D : BinaryOf(digits[m], m)}
<1>10. ASSUME NEW m \in D, \A j \in D : measure[j] < measure[m] => j \in S
       PROVE  m \in S
    <2>0. m \in Nat
        BY DEF D
    <2>1. CASE m = 0
        <3>1. digits[m] = <<>>
            BY <1>9, <2>0, <2>1
        <3>2. BinaryOf(<<>>, 0)
            BY Powers DEF BinaryOf
        <3> QED
            BY <2>1, <3>1, <3>2
    <2>2. CASE m # 0
        <3>1. BinaryOf(digits[m \div 2], m \div 2)
            BY <1>2, <1>10, <2>2
        <3>2. digits[m] = Append(digits[m \div 2], m % 2)
            BY <1>9, <2>0, <2>2
        <3> QED
            BY <2>0, <2>2, <3>1, <3>2, DigitAdded
    <2> QED
        BY <2>1, <2>2
<1> HIDE DEF S
<1>11. \A m \in D : m \in S
    BY <1>3, <1>10, MeasureInduction
<1> QED
    BY <1>1, <1>11 DEF S, D

LEMMA MaxOfTwo ==
    ASSUME NEW a \in Int, NEW b \in Int
    PROVE  Max({a, b}) = IF a >= b THEN a ELSE b
<1> DEFINE m == IF a >= b THEN a ELSE b
<1>1. m \in {a, b} /\ (\A y \in {a, b} : m >= y)
      /\ \A x \in {a, b} : (\A y \in {a, b} : x >= y) => x = m
    OBVIOUS
<1> HIDE DEF m
<1>2. Max({a, b}) = m
    BY <1>1 DEF Max
<1> QED
    BY <1>2 DEF m

\* The width a number is mirrored in.
WidthOf(n, w) ==
    w \in Width..(Width + n) /\ n < PowerOf2[w] /\ (w = Width \/ n >= PowerOf2[w - 1])

LEMMA PaddedIs ==
    ASSUME NEW n \in Nat
    PROVE  /\ Padded(n) \in Seq(Int) /\ WidthOf(n, Len(Padded(n)))
           /\ \A k \in 1..Len(Padded(n)) : Padded(n)[k] = Bit(n, Len(Padded(n)) - k)
<1> DEFINE d == Digits(n)
           L == Len(d)
           c == Max({Width - L, 0})
           z == [k \in 1..c |-> 0]
           p == z \o d
           w == Len(p)
<1>1. /\ d \in Seq(Int) /\ L \in Nat /\ n < PowerOf2[L]
      /\ L > 0 => n >= PowerOf2[L - 1]
      /\ \A k \in 1..L : d[k] = Bit(n, L - k)
    BY DigitsIs DEF BinaryOf
<1>2. Padded(n) = p
    BY DEF Padded
<1> HIDE DEF d, L
<1>3. c = IF Width >= L THEN Width - L ELSE 0
    <2>1. Width - L \in Int /\ Width \in Int
        BY <1>1, WidthAssumption
    <2>2. c = IF Width - L >= 0 THEN Width - L ELSE 0
        BY <2>1, MaxOfTwo
    <2> HIDE DEF c
    <2> QED
        BY <1>1, <2>1, <2>2
<1>4. c \in Nat
    <2> HIDE DEF c
    <2> QED
        BY <1>1, <1>3, WidthAssumption
<1> HIDE DEF c
<1>5. z \in Seq(Int) /\ Len(z) = c /\ \A k \in 1..c : z[k] = 0
    BY <1>4
<1> HIDE DEF z
<1>6. /\ p \in Seq(Int) /\ w = c + L
      /\ \A k \in 1..c : p[k] = 0
      /\ \A k \in 1..L : p[c + k] = d[k]
    BY <1>1, <1>5, ConcatIs DEF L
<1> HIDE DEF p, w
<1>7. w = IF Width >= L THEN Width ELSE L
    BY <1>1, <1>3, <1>4, <1>6, WidthAssumption
<1>8. w \in Nat /\ L \in 0..w
    BY <1>1, <1>4, <1>6
<1>9. WidthOf(n, w)
    <2>1. n < PowerOf2[w]
        <3>1. PowerOf2[L] <= PowerOf2[w] /\ PowerOf2[L] \in Nat /\ PowerOf2[w] \in Nat
            BY <1>8, PowersGrow, Powers
        <3> QED
            BY <1>1, <3>1
    <2>2. CASE Width >= L
        BY <1>7, <2>1, <2>2, WidthAssumption DEF WidthOf
    <2>3. CASE ~(Width >= L)
        <3>1. w = L /\ L > 0 /\ L - 1 \in Nat
            BY <1>1, <1>7, <2>3, WidthAssumption
        <3>2. n >= PowerOf2[L - 1] /\ PowerOf2[L - 1] > L - 1 /\ PowerOf2[L - 1] \in Nat
            BY <1>1, <3>1, Powers
        <3>3. L <= n
            BY <1>1, <3>2
        <3>4. w \in Width..(Width + n)
            BY <1>1, <2>3, <3>1, <3>3, WidthAssumption
        <3> QED
            BY <2>1, <3>1, <3>2, <3>4 DEF WidthOf
    <2> QED
        BY <2>2, <2>3
<1>10. ASSUME NEW k \in 1..w
       PROVE  p[k] = Bit(n, w - k)
    <2>1. CASE k <= c
        <3>1. w - k \in Nat /\ L \in 0..(w - k)
            BY <1>1, <1>4, <1>6, <2>1
        <3>2. PowerOf2[L] <= PowerOf2[w - k] /\ PowerOf2[L] \in Nat /\ PowerOf2[w - k] \in Nat
            BY <1>1, <3>1, PowersGrow, Powers
        <3>3. n < PowerOf2[w - k]
            BY <1>1, <3>2
        <3>4. Bit(n, w - k) = 0
            BY <3>1, <3>3, Bits
        <3> QED
            BY <1>4, <1>6, <2>1, <3>4
    <2>2. CASE ~(k <= c)
        <3>1. k - c \in 1..L /\ c + (k - c) = k /\ L - (k - c) = w - k
            BY <1>1, <1>4, <1>6, <2>2
        <3> QED
            BY <1>1, <1>6, <3>1
    <2> QED
        BY <2>1, <2>2
<1> QED
    BY <1>2, <1>6, <1>9, <1>10 DEF w

LEMMA WidthUnique ==
    ASSUME NEW n \in Nat, NEW v, NEW w, WidthOf(n, v), WidthOf(n, w)
    PROVE  v = w
<1>1. /\ v \in Nat /\ w \in Nat /\ v >= Width /\ w >= Width /\ Width \in Nat
      /\ n < PowerOf2[v] /\ n < PowerOf2[w]
      /\ v = Width \/ n >= PowerOf2[v - 1]
      /\ w = Width \/ n >= PowerOf2[w - 1]
    BY WidthAssumption DEF WidthOf
<1>2. ASSUME NEW x \in Nat, NEW y \in Nat, x < y, x >= Width, n < PowerOf2[x], n >= PowerOf2[y - 1]
      PROVE  FALSE
    <2>1. y - 1 \in Nat /\ x \in 0..(y - 1)
        BY <1>2
    <2>2. PowerOf2[x] <= PowerOf2[y - 1] /\ PowerOf2[x] \in Nat /\ PowerOf2[y - 1] \in Nat
        BY <2>1, PowersGrow, Powers
    <2> QED
        BY <1>2, <2>2
<1>3. ~(v < w)
    BY <1>1, <1>2
<1>4. ~(w < v)
    BY <1>1, <1>2
<1> QED
    BY <1>1, <1>3, <1>4

\* A numeral d of zeros and ones, read from the left.
LEMMA ValueIs ==
    ASSUME NEW d \in Seq(Int), \A k \in 1..Len(d) : d[k] \in {0, 1}
    PROVE  /\ Value(d) \in Nat /\ Value(d) < PowerOf2[Len(d)]
           /\ \A k \in 0..(Len(d) - 1) : Bit(Value(d), k) = d[Len(d) - k]
<1> DEFINE N == Len(d)
           D == 0..N
           A == Int
           measure == [k \in D |-> k]
           body == [g \in [D -> A] |-> [k \in D |-> IF k = 0 THEN 0 ELSE 2 * g[k - 1] + d[k]]]
           value == CHOOSE value : value = [k \in D |->
                                      IF k = 0 THEN 0 ELSE 2 * value[k - 1] + d[k]]
<1>1. Value(d) = value[N]
    BY DEF Value
<1>2. N \in Nat
    OBVIOUS
<1> HIDE DEF value, N
<1>3. ASSUME NEW k \in D, k # 0
      PROVE  k - 1 \in D /\ measure[k - 1] < measure[k] /\ k \in 1..N /\ d[k] \in Int
    <2>1. k \in 1..N /\ k - 1 \in D
        BY <1>2, <1>3
    <2>2. d[k] \in {0, 1}
        BY <2>1 DEF N
    <2> QED
        BY <1>2, <1>3, <2>1, <2>2
<1>4. measure \in [D -> Nat]
    BY <1>2
<1>5. A # {}
    OBVIOUS
<1>6. \A g \in [D -> A] : \A k \in D :
         body[g][k] = IF k = 0 THEN 0 ELSE 2 * g[k - 1] + d[k]
    OBVIOUS
<1> HIDE DEF D, measure
<1>7. body \in [[D -> A] -> [D -> A]]
    <2>1. ASSUME NEW g \in [D -> A], NEW k \in D, k # 0
          PROVE  2 * g[k - 1] + d[k] \in A
        BY <1>3, <2>1
    <2> QED
        BY <2>1
<1> HIDE DEF body, A
<1>8. Wellfounded(D, A, measure, body)
    <2>1. ASSUME NEW g \in [D -> A], NEW h \in [D -> A], NEW k \in D,
                 \A j \in D : measure[j] < measure[k] => g[j] = h[j]
          PROVE  body[g][k] = body[h][k]
        <3>1. k # 0 => g[k - 1] = h[k - 1]
            BY <1>3, <2>1
        <3> QED
            BY <1>6, <3>1
    <2> QED
        BY <1>4, <1>7, <2>1 DEF Wellfounded
<1>9. PICK f \in [D -> A] : f = body[f]
    BY <1>5, <1>8, FixpointExists
<1>10. value = [k \in D |-> IF k = 0 THEN 0 ELSE 2 * value[k - 1] + d[k]]
    <2>1. f = [k \in D |-> IF k = 0 THEN 0 ELSE 2 * f[k - 1] + d[k]]
        BY <1>9 DEF body
    <2> QED
        BY <2>1 DEF value
<1> DEFINE S == {k \in 0..N : /\ value[k] \in Nat /\ value[k] < PowerOf2[k]
                              /\ \A j \in 0..(k - 1) : Bit(value[k], j) = d[k - j]}
<1>11. 0 \in S
    <2>1. value[0] = 0
        BY <1>2, <1>10 DEF D
    <2> QED
        BY <1>2, <2>1, Powers
<1>12. ASSUME NEW k \in 0..(N - 1), k \in S
       PROVE  k + 1 \in S
    <2> DEFINE v == value[k]
               b == d[k + 1]
               u == value[k + 1]
    <2>1. k + 1 \in D /\ k + 1 # 0 /\ (k + 1) - 1 = k /\ k + 1 \in 1..N /\ k \in Nat
        BY <1>2 DEF D
    <2>2. u = 2 * v + b
        BY <1>10, <2>1
    <2>3. b \in {0, 1} /\ v \in Nat /\ v < PowerOf2[k]
        BY <1>12, <2>1 DEF N
    <2>4. \A j \in 0..(k - 1) : Bit(v, j) = d[k - j]
        BY <1>12
    <2> HIDE DEF v, b, u
    <2>5. u \in Nat /\ u \div 2 = v /\ u % 2 = b
        BY <2>2, <2>3
    <2>6. u < PowerOf2[k + 1]
        <3>1. PowerOf2[k + 1] = 2 * PowerOf2[k] /\ PowerOf2[k] \in Nat
            BY <2>1, Powers
        <3> QED
            BY <2>2, <2>3, <3>1
    <2>7. ASSUME NEW j \in 0..((k + 1) - 1)
          PROVE  Bit(u, j) = d[(k + 1) - j]
        <3>1. CASE j = 0
            <4>1. Bit(u, 0) = b
                BY <2>5, Bits
            <4>2. (k + 1) - 0 = k + 1
                BY <2>1
            <4> QED
                BY <3>1, <4>1, <4>2 DEF b
        <3>2. CASE j # 0
            <4>1. /\ j - 1 \in 0..(k - 1) /\ j - 1 \in Nat /\ (j - 1) + 1 = j
                  /\ k - (j - 1) = (k + 1) - j
                BY <2>1, <3>2
            <4>2. Bit(u, (j - 1) + 1) = Bit(v, j - 1)
                BY <2>5, <4>1, Bits
            <4> QED
                BY <2>4, <4>1, <4>2
        <3> QED
            BY <3>1, <3>2
    <2>8. k + 1 \in 0..N
        BY <1>2, <2>1
    <2> QED
        BY <2>5, <2>6, <2>7, <2>8 DEF u
<1> HIDE DEF S
<1>13. \A k \in 0..N : k \in S
    BY <1>2, <1>11, <1>12, CountedUp
<1>14. N \in S
    BY <1>2, <1>13
<1> QED
    BY <1>1, <1>14 DEF S, N

LEMMA reverseBitsIs ==
    ASSUME NEW n \in Nat
    PROVE  LET w == CHOOSE w \in Width..(Width + n) :
                        n < PowerOf2[w] /\ (w = Width \/ n >= PowerOf2[w - 1])
           IN  /\ reverseBits(n) < PowerOf2[w]
               /\ \A k \in 0..(w - 1) : Bit(reverseBits(n), k) = Bit(n, w - 1 - k)
<1> DEFINE p == Padded(n)
           L == Len(p)
           d == Reverse(p)
           w == CHOOSE w \in Width..(Width + n) :
                   n < PowerOf2[w] /\ (w = Width \/ n >= PowerOf2[w - 1])
<1>1. p \in Seq(Int) /\ WidthOf(n, L) /\ \A k \in 1..L : p[k] = Bit(n, L - k)
    BY PaddedIs
<1> HIDE DEF p
<1>2. WidthOf(n, w)
    <2>1. \E x \in Width..(Width + n) : n < PowerOf2[x] /\ (x = Width \/ n >= PowerOf2[x - 1])
        BY <1>1 DEF WidthOf
    <2> QED
        BY <2>1, Zenon DEF WidthOf
<1> HIDE DEF w
<1>3. w = L
    BY <1>1, <1>2, WidthUnique
<1>4. L \in Nat
    BY <1>1
<1> HIDE DEF L
<1>5. ASSUME NEW k \in 1..L
      PROVE  p[(L - k) + 1] = Bit(n, k - 1) /\ Bit(n, k - 1) \in {0, 1}
    <2>1. (L - k) + 1 \in 1..L /\ L - ((L - k) + 1) = k - 1 /\ k - 1 \in Nat
        BY <1>4
    <2> QED
        BY <1>1, <2>1, Bits
<1>6. d = [k \in 1..L |-> p[(L - k) + 1]]
    BY DEF Reverse, L
<1> HIDE DEF d
<1>7. \A k \in 1..L : d[k] = Bit(n, k - 1) /\ d[k] \in {0, 1}
    BY <1>5, <1>6
<1>8. d \in Seq(Int) /\ Len(d) = L
    <2>1. d \in [1..L -> Int]
        BY <1>5, <1>6
    <2> QED
        BY <1>4, <2>1
<1>9. /\ Value(d) < PowerOf2[L]
      /\ \A k \in 0..(L - 1) : Bit(Value(d), k) = d[L - k]
    BY <1>7, <1>8, ValueIs
<1>10. reverseBits(n) = Value(d)
    BY DEF reverseBits, d, p
<1>11. ASSUME NEW k \in 0..(L - 1)
       PROVE  Bit(reverseBits(n), k) = Bit(n, L - 1 - k)
    <2>1. L - k \in 1..L /\ (L - k) - 1 = L - 1 - k
        BY <1>4
    <2> QED
        BY <1>7, <1>9, <1>10, <2>1
<1>12. /\ reverseBits(n) < PowerOf2[w]
       /\ \A k \in 0..(w - 1) : Bit(reverseBits(n), k) = Bit(n, w - 1 - k)
    BY <1>3, <1>9, <1>10, <1>11
<1> QED
    BY <1>12 DEF w

\* Whatever the bound, exactly the primes below it are counted, although multiples
\* are crossed out from squares on and only while those are below it
\* (count_primes.py lines 1-14); and whatever the number and the width, its digits
\* are mirrored within the width or, if there are more, within themselves
\* (reverse_bits.py lines 1-4).
THEOREM NumbersAlwaysExact == ComputationsSpec => []NumbersExact
<1>1. IsCall /\ Computed => NumbersExact
    <2> SUFFICES ASSUME IsCall, Computed PROVE NumbersExact
        OBVIOUS
    <2>1. ASSUME NEW c \in Result("countPrimes")
          PROVE  c = Cardinality({p \in 2..(call.n - 1) : IsPrime(p)})
        <3>1. call.function = "countPrimes" /\ c = countPrimes(call.n)
            BY <2>1 DEF Result, Computed
        <3>2. call.n \in Nat
            BY <3>1, CallArguments, InputsAssumption
        <3> QED
            BY <3>1, <3>2, countPrimesIs
    <2>2. ASSUME NEW v \in Result("reverseBits")
          PROVE  LET w == CHOOSE w \in Width..(Width + call.n) :
                             call.n < PowerOf2[w] /\ (w = Width \/ call.n >= PowerOf2[w - 1])
                 IN  /\ v < PowerOf2[w]
                     /\ \A k \in 0..(w - 1) : Bit(v, k) = Bit(call.n, w - 1 - k)
        <3>1. call.function = "reverseBits" /\ v = reverseBits(call.n)
            BY <2>2 DEF Result, Computed
        <3> DEFINE n == call.n
        <3>2. n \in Nat
            BY <3>1, CallArguments, InputsAssumption
        <3> HIDE DEF n
        <3>3. v = reverseBits(n)
            BY <3>1 DEF n
        <3>4. LET w == CHOOSE w \in Width..(Width + n) :
                          n < PowerOf2[w] /\ (w = Width \/ n >= PowerOf2[w - 1])
              IN  /\ v < PowerOf2[w]
                  /\ \A k \in 0..(w - 1) : Bit(v, k) = Bit(n, w - 1 - k)
            BY <3>2, <3>3, reverseBitsIs
        <3> QED
            BY <3>4 DEF n
    <2> QED
        BY <2>1, <2>2 DEF NumbersExact
<1> QED
    BY <1>1, AlwaysComputed, PTL

-----------------------------------------------------------------------------
(* generateParenthesis.                                                    *)

Par == {"(", ")"}

\* How often v is among the first k elements of s.
Until(s, k, v) == Cardinality(Places(s, 1, k, v))

LEMMA UntilFinite ==
    ASSUME NEW s, NEW k \in Nat, NEW v
    PROVE  IsFiniteSet(Places(s, 1, k, v)) /\ Until(s, k, v) \in Nat
<1>1. IsFiniteSet(1..k)
    BY FS_Interval
<1>2. IsFiniteSet(Places(s, 1, k, v))
    BY <1>1, FS_Subset DEF Places
<1> QED
    BY <1>2, FS_CardinalityType DEF Until

LEMMA UntilNext ==
    ASSUME NEW s, NEW k \in Nat, NEW v
    PROVE  Until(s, k + 1, v) = Until(s, k, v) + (IF s[k + 1] = v THEN 1 ELSE 0)
<1>1. IsFiniteSet(Places(s, 1, k, v)) /\ Until(s, k, v) \in Nat
    BY UntilFinite
<1>2. CASE s[k + 1] = v
    <2>1. Places(s, 1, k + 1, v) = Places(s, 1, k, v) \cup {k + 1}
        BY <1>2 DEF Places
    <2>2. k + 1 \notin Places(s, 1, k, v)
        BY DEF Places
    <2>3. Cardinality(Places(s, 1, k, v) \cup {k + 1}) = Cardinality(Places(s, 1, k, v)) + 1
        BY <1>1, <2>2, FS_AddElement
    <2> QED
        BY <1>2, <2>1, <2>3 DEF Until
<1>3. CASE s[k + 1] # v
    <2>1. Places(s, 1, k + 1, v) = Places(s, 1, k, v)
        BY <1>3 DEF Places
    <2> QED
        BY <1>1, <1>3, <2>1 DEF Until
<1> QED
    BY <1>2, <1>3

LEMMA UntilNone ==
    ASSUME NEW s, NEW v
    PROVE  Until(s, 0, v) = 0
<1>1. Places(s, 1, 0, v) = {}
    BY DEF Places
<1> QED
    BY <1>1, FS_EmptySet DEF Until

LEMMA UntilGrows ==
    ASSUME NEW s, NEW k \in Nat, NEW j \in 0..k, NEW v
    PROVE  Until(s, j, v) <= Until(s, k, v)
<1>1. Places(s, 1, j, v) \in SUBSET Places(s, 1, k, v)
    BY DEF Places
<1> QED
    BY <1>1, UntilFinite, FS_Subset DEF Until

LEMMA UntilSame ==
    ASSUME NEW s, NEW t, NEW k \in Nat, NEW v, \A j \in 1..k : s[j] = t[j]
    PROVE  Until(s, k, v) = Until(t, k, v)
<1>1. Places(s, 1, k, v) = Places(t, 1, k, v)
    BY DEF Places
<1> QED
    BY <1>1 DEF Until

LEMMA UntilBoth ==
    ASSUME NEW s, NEW n \in Nat, \A k \in 1..n : s[k] \in Par
    PROVE  Until(s, n, "(") + Until(s, n, ")") = n
<1> DEFINE S == {k \in 0..n : Until(s, k, "(") + Until(s, k, ")") = k}
<1>1. 0 \in S
    BY UntilNone
<1>2. ASSUME NEW k \in 0..(n - 1), k \in S
      PROVE  k + 1 \in S
    <2>1. k \in Nat /\ k + 1 \in 1..n /\ k + 1 \in 0..n
        OBVIOUS
    <2>2. s[k + 1] = "(" \/ s[k + 1] = ")"
        BY <2>1 DEF Par
    <2>3. /\ Until(s, k, "(") \in Nat /\ Until(s, k, ")") \in Nat
          /\ Until(s, k + 1, "(") = Until(s, k, "(") + (IF s[k + 1] = "(" THEN 1 ELSE 0)
          /\ Until(s, k + 1, ")") = Until(s, k, ")") + (IF s[k + 1] = ")" THEN 1 ELSE 0)
        BY <2>1, UntilFinite, UntilNext
    <2>4. Until(s, k, "(") + Until(s, k, ")") = k
        BY <1>2
    <2>5. Until(s, k + 1, "(") + Until(s, k + 1, ")") = k + 1
        BY <2>1, <2>2, <2>3, <2>4
    <2> QED
        BY <2>1, <2>5
<1> HIDE DEF S
<1>3. \A k \in 0..n : k \in S
    BY <1>1, <1>2, CountedUp
<1> QED
    BY <1>3 DEF S

\* Counted by places, s is balanced.
Even(s, n) ==
    /\ Until(s, n, "(") = Until(s, n, ")")
    /\ \A k \in 1..n : Until(s, k, "(") >= Until(s, k, ")")

LEMMA BalancedIs ==
    ASSUME NEW n \in Nat, NEW s \in [1..n -> Par]
    PROVE  Balanced(s) <=> Even(s, n)
<1>1. s \in Seq(Par) /\ Len(s) = n /\ DOMAIN s = 1..n
    OBVIOUS
<1>2. ASSUME NEW v
      PROVE  Occurrences(s, v) = Until(s, n, v)
    BY <1>1 DEF Occurrences, Until, Places
<1>3. ASSUME NEW v, NEW k \in 1..n
      PROVE  Occurrences(SubSeq(s, 1, k), v) = Until(s, k, v)
    <2> DEFINE t == SubSeq(s, 1, k)
    <2>0. \A j \in 1..k : s[j] \in Par
        BY <1>1
    <2>1. Len(t) = k /\ t \in Seq(Par) /\ \A j \in 1..k : t[j] = s[j]
        BY <1>1, <2>0, SubSeqProperties
    <2>2. DOMAIN t = 1..k
        BY <2>1
    <2>3. {j \in DOMAIN t : t[j] = v} = Places(s, 1, k, v)
        BY <2>1, <2>2 DEF Places
    <2> QED
        BY <2>3 DEF Occurrences, Until
<1> QED
    BY <1>1, <1>2, <1>3 DEF Balanced, Even

\* The balanced strings of n pairs that begin with st, and st as backtrack finds it.
Endings(st, n) ==
    {s \in [1..(2 * n) -> Par] : Even(s, 2 * n) /\ \A k \in 1..Len(st) : s[k] = st[k]}
WellBegun(st, openN, closedN) ==
    /\ st \in Seq(Par) /\ Len(st) = openN + closedN
    /\ Until(st, openN + closedN, "(") = openN /\ Until(st, openN + closedN, ")") = closedN
    /\ \A k \in 1..(openN + closedN) : Until(st, k, "(") >= Until(st, k, ")")

LEMMA AppendOf ==
    ASSUME NEW T, NEW s \in Seq(T), NEW e \in T
    PROVE  /\ Append(s, e) \in Seq(T) /\ Len(Append(s, e)) = Len(s) + 1
           /\ \A k \in 1..Len(s) : Append(s, e)[k] = s[k]
           /\ Append(s, e)[Len(s) + 1] = e
OBVIOUS

LEMMA GoesOn ==
    ASSUME NEW o \in Nat, NEW c \in Nat, NEW st, WellBegun(st, o, c), NEW e \in Par,
           e = ")" => c < o
    PROVE  WellBegun(Append(st, e), IF e = "(" THEN o + 1 ELSE o, IF e = "(" THEN c ELSE c + 1)
<1> DEFINE t == Append(st, e)
           N == o + c
           o1 == IF e = "(" THEN o + 1 ELSE o
           c1 == IF e = "(" THEN c ELSE c + 1
<1>1. /\ t \in Seq(Par) /\ Len(t) = N + 1 /\ t[N + 1] = e
      /\ \A k \in 1..N : t[k] = st[k]
    BY AppendOf DEF WellBegun
<1> HIDE DEF t
<1>2. ASSUME NEW k \in 0..N, NEW v
      PROVE  Until(t, k, v) = Until(st, k, v)
    <2>1. \A j \in 1..k : t[j] = st[j]
        BY <1>1
    <2> QED
        BY <2>1, UntilSame
<1>3. N \in Nat /\ N + 1 = o1 + c1 /\ o1 \in Nat /\ c1 \in Nat /\ (e = "(" \/ e = ")")
    BY DEF Par
<1>4. Until(t, N, "(") = o /\ Until(t, N, ")") = c
    BY <1>2, <1>3 DEF WellBegun
<1>5. /\ Until(t, N + 1, "(") = o + (IF e = "(" THEN 1 ELSE 0)
      /\ Until(t, N + 1, ")") = c + (IF e = ")" THEN 1 ELSE 0)
    BY <1>1, <1>3, <1>4, UntilNext
<1>6. Until(t, N + 1, "(") = o1 /\ Until(t, N + 1, ")") = c1
    BY <1>3, <1>5
<1>7. c <= o
    <2>1. CASE N = 0
        BY <2>1
    <2>2. CASE N # 0
        <3>1. N \in 1..N
            BY <1>3, <2>2
        <3> QED
            BY <3>1 DEF WellBegun
    <2> QED
        BY <2>1, <2>2
<1>8. c1 <= o1
    BY <1>3, <1>7
<1>9. ASSUME NEW k \in 1..(N + 1)
      PROVE  Until(t, k, "(") >= Until(t, k, ")")
    <2>1. CASE k = N + 1
        BY <1>3, <1>6, <1>8, <2>1
    <2>2. CASE k # N + 1
        <3>1. k \in 1..N /\ k \in 0..N
            BY <1>3, <2>2
        <3> QED
            BY <1>2, <3>1 DEF WellBegun
    <2> QED
        BY <2>1, <2>2
<1>10. WellBegun(t, o1, c1)
    <2> HIDE DEF N, o1, c1
    <2> QED
        BY <1>1, <1>3, <1>6, <1>9 DEF WellBegun
<1> QED
    BY <1>10 DEF t

\* What the next parenthesis may be is what backtrack tries.
LEMMA NextParenthesis ==
    ASSUME NEW n \in Nat, NEW o \in 0..n, NEW c \in 0..n, NEW st, WellBegun(st, o, c),
           o + c < 2 * n, NEW s \in Endings(st, n)
    PROVE  (s[o + c + 1] = "(" /\ o < n) \/ (s[o + c + 1] = ")" /\ c < o)
<1> DEFINE N == o + c
           M == 2 * n
<1>1. /\ N \in Nat /\ M \in Nat /\ N + 1 \in 1..M /\ N + 1 \in 0..M
    OBVIOUS
<1>2. /\ s \in [1..M -> Par] /\ Even(s, M) /\ Len(st) = N
      /\ \A k \in 1..N : s[k] = st[k]
    BY DEF Endings, WellBegun
<1>3. Until(s, N, "(") = o /\ Until(s, N, ")") = c
    <2>1. \A v : Until(s, N, v) = Until(st, N, v)
        BY <1>1, <1>2, UntilSame
    <2> QED
        BY <2>1 DEF WellBegun
<1>4. /\ Until(s, N + 1, "(") = o + (IF s[N + 1] = "(" THEN 1 ELSE 0)
      /\ Until(s, N + 1, ")") = c + (IF s[N + 1] = ")" THEN 1 ELSE 0)
    BY <1>1, <1>3, UntilNext
<1>5. Until(s, M, "(") = n
    <2>1. Until(s, M, "(") + Until(s, M, ")") = M
        BY <1>1, <1>2, UntilBoth
    <2>2. Until(s, M, "(") \in Nat /\ Until(s, M, "(") = Until(s, M, ")")
        BY <1>1, <1>2, UntilFinite DEF Even
    <2> DEFINE x == Until(s, M, "(")
               y == Until(s, M, ")")
    <2>3. x + y = 2 * n /\ x \in Nat /\ x = y
        BY <2>1, <2>2
    <2> HIDE DEF x, y
    <2>4. x = n
        BY <2>3
    <2> QED
        BY <2>4 DEF x
<1>6. Until(s, N + 1, "(") <= n
    BY <1>1, <1>5, UntilGrows
<1>7. Until(s, N + 1, "(") >= Until(s, N + 1, ")")
    BY <1>1, <1>2 DEF Even
<1>8. s[N + 1] = "(" \/ s[N + 1] = ")"
    BY <1>1, <1>2 DEF Par
<1> HIDE DEF N, M
<1>9. CASE s[N + 1] = "("
    BY <1>4, <1>6, <1>9 DEF N
<1>10. CASE s[N + 1] = ")"
    BY <1>4, <1>7, <1>10 DEF N
<1> QED
    BY <1>8, <1>9, <1>10

LEMMA EndingsAppend ==
    ASSUME NEW n \in Nat, NEW st \in Seq(Par), NEW e \in Par
    PROVE  Endings(Append(st, e), n) = {s \in Endings(st, n) : s[Len(st) + 1] = e}
<1> DEFINE t == Append(st, e)
           N == Len(st)
<1>1. /\ N \in Nat /\ Len(t) = N + 1 /\ t[N + 1] = e
      /\ \A k \in 1..N : t[k] = st[k]
    BY AppendOf
<1> HIDE DEF t, N
<1>2. ASSUME NEW s
      PROVE  (\A k \in 1..(N + 1) : s[k] = t[k]) <=>
                 (\A k \in 1..N : s[k] = st[k]) /\ s[N + 1] = e
    <2>1. 1..(N + 1) = 1..N \cup {N + 1}
        BY <1>1
    <2> QED
        BY <1>1, <2>1
<1>3. Endings(t, n) = {s \in Endings(st, n) : s[N + 1] = e}
    BY <1>1, <1>2 DEF Endings, N
<1> QED
    BY <1>3 DEF t, N

LEMMA EndingsNow ==
    ASSUME NEW n \in Nat, NEW st, WellBegun(st, n, n)
    PROVE  Endings(st, n) = {st}
<1>1. st \in Seq(Par) /\ Len(st) = 2 * n /\ n + n = 2 * n
    BY DEF WellBegun
<1>2. st \in [1..(2 * n) -> Par]
    BY <1>1
<1>3. Even(st, 2 * n)
    BY <1>1 DEF WellBegun, Even
<1>4. st \in Endings(st, n)
    BY <1>2, <1>3 DEF Endings
<1>5. ASSUME NEW s \in Endings(st, n)
      PROVE  s = st
    BY <1>1, <1>2 DEF Endings
<1> QED
    BY <1>4, <1>5

-----------------------------------------------------------------------------
(* Lists of different things, one after the other.                         *)

LEMMA ConcatOf ==
    ASSUME NEW T, NEW s \in Seq(T), NEW r \in Seq(T)
    PROVE  /\ s \o r \in Seq(T)
           /\ Len(s \o r) = Len(s) + Len(r)
           /\ \A k \in 1..Len(s) : (s \o r)[k] = s[k]
           /\ \A k \in 1..Len(r) : (s \o r)[Len(s) + k] = r[k]
<1>1. /\ s \o r \in Seq(T)
      /\ Len(s \o r) = Len(s) + Len(r)
      /\ \A k \in 1..(Len(s) + Len(r)) :
            (s \o r)[k] = IF k <= Len(s) THEN s[k] ELSE r[k - Len(s)]
    BY ConcatProperties, Zenon
<1>2. Len(s) \in Nat /\ Len(r) \in Nat
    OBVIOUS
<1>3. ASSUME NEW k \in 1..Len(s)
      PROVE  (s \o r)[k] = s[k]
    <2>1. k \in 1..(Len(s) + Len(r)) /\ k <= Len(s)
        BY <1>2
    <2> QED
        BY <1>1, <2>1
<1>4. ASSUME NEW k \in 1..Len(r)
      PROVE  (s \o r)[Len(s) + k] = r[k]
    <2>1. /\ Len(s) + k \in 1..(Len(s) + Len(r))
          /\ ~(Len(s) + k <= Len(s))
          /\ (Len(s) + k) - Len(s) = k
        BY <1>2
    <2> QED
        BY <1>1, <2>1
<1> QED
    BY <1>1, <1>3, <1>4

\* res has the members of S, every one of them once.
Once(res, S) ==
    /\ \A k \in 1..Len(res) : res[k] \in S
    /\ \A j, k \in 1..Len(res) : res[j] = res[k] => j = k
    /\ \A s \in S : \E k \in 1..Len(res) : res[k] = s

LEMMA OnceIs ==
    ASSUME NEW T, NEW res \in Seq(T), NEW S, Once(res, S)
    PROVE  IsInjective(res) /\ ToSet(res) = S
<1>1. DOMAIN res = 1..Len(res)
    OBVIOUS
<1> QED
    BY <1>1 DEF Once, IsInjective, ToSet

LEMMA OnceEach ==
    ASSUME NEW T, NEW s \in Seq(T), NEW r \in Seq(T), NEW S, NEW R,
           Once(s, S), Once(r, R), S \cap R = {}
    PROVE  s \o r \in Seq(T) /\ Once(s \o r, S \cup R)
<1> DEFINE a == Len(s)
           b == Len(r)
           u == s \o r
<1>1. /\ a \in Nat /\ b \in Nat /\ u \in Seq(T) /\ Len(u) = a + b
      /\ \A k \in 1..a : u[k] = s[k]
      /\ \A k \in 1..b : u[a + k] = r[k]
    BY ConcatOf
<1>2. /\ \A k \in 1..a : s[k] \in S
      /\ \A j, k \in 1..a : s[j] = s[k] => j = k
      /\ \A x \in S : \E k \in 1..a : s[k] = x
      /\ \A k \in 1..b : r[k] \in R
      /\ \A j, k \in 1..b : r[j] = r[k] => j = k
      /\ \A x \in R : \E k \in 1..b : r[k] = x
    BY DEF Once
<1> HIDE DEF a, b, u
<1>3. ASSUME NEW k \in 1..(a + b)
      PROVE  \/ k \in 1..a /\ u[k] = s[k] /\ u[k] \in S
             \/ k \notin 1..a /\ k - a \in 1..b /\ u[k] = r[k - a] /\ u[k] \in R
    <2>1. CASE k \in 1..a
        BY <1>1, <1>2, <2>1
    <2>2. CASE k \notin 1..a
        <3>1. k - a \in 1..b /\ a + (k - a) = k
            BY <1>1, <2>2
        <3> QED
            BY <1>1, <1>2, <2>2, <3>1
    <2> QED
        BY <2>1, <2>2
<1>4. ASSUME NEW j \in 1..(a + b), NEW k \in 1..(a + b), u[j] = u[k]
      PROVE  j = k
    <2>1. CASE j \in 1..a
        <3>1. u[j] \in S /\ u[j] = s[j]
            BY <1>3, <2>1
        <3>2. k \in 1..a /\ u[k] = s[k]
            BY <1>3, <1>4, <3>1
        <3> QED
            BY <1>2, <1>4, <2>1, <3>1, <3>2
    <2>2. CASE j \notin 1..a
        <3>1. u[j] \in R /\ u[j] = r[j - a] /\ j - a \in 1..b
            BY <1>3, <2>2
        <3>2. k - a \in 1..b /\ u[k] = r[k - a]
            BY <1>3, <1>4, <3>1
        <3>3. j - a = k - a
            BY <1>2, <1>4, <3>1, <3>2
        <3> QED
            BY <1>1, <3>3
    <2> QED
        BY <2>1, <2>2
<1>5. ASSUME NEW x \in S \cup R
      PROVE  \E k \in 1..(a + b) : u[k] = x
    <2>1. CASE x \in S
        <3>1. PICK k \in 1..a : s[k] = x
            BY <1>2, <2>1
        <3>2. k \in 1..(a + b) /\ u[k] = x
            BY <1>1, <3>1
        <3> QED
            BY <3>2
    <2>2. CASE x \in R
        <3>1. PICK k \in 1..b : r[k] = x
            BY <1>2, <2>2
        <3>2. a + k \in 1..(a + b) /\ u[a + k] = x
            BY <1>1, <3>1
        <3> QED
            BY <3>2
    <2> QED
        BY <2>1, <2>2
<1>6. Once(u, S \cup R)
    BY <1>1, <1>3, <1>4, <1>5 DEF Once
<1> QED
    BY <1>1, <1>6 DEF u

-----------------------------------------------------------------------------
(* All of generateParenthesis.                                             *)

LEMMA generateParenthesisIs ==
    ASSUME NEW n \in Nat
    PROVE  /\ generateParenthesis(n) \in Seq(Seq(Par))
           /\ Once(generateParenthesis(n), Endings(<<>>, n))
<1> DEFINE A == Seq(Seq({"(", ")"}))
           D == Seq({"(", ")"}) \X (0..n) \X (0..n)
           full(c) == c[2] = n /\ c[3] = n
           opened(c) == <<Append(c[1], "("), c[2] + 1, c[3]>>
           closed(c) == <<Append(c[1], ")"), c[2], c[3] + 1>>
           measure == [c \in D |-> 2 * n - c[2] - c[3]]
           body == [g \in [D -> A] |-> [c \in D |->
                       IF full(c) THEN <<c[1]>>
                       ELSE (IF c[2] < n THEN g[opened(c)] ELSE <<>>)
                            \o (IF MayClose(n, c[2], c[3]) THEN g[closed(c)] ELSE <<>>)]]
           backtrack == CHOOSE backtrack : backtrack = [c \in D |->
                       IF full(c) THEN <<c[1]>>
                       ELSE (IF c[2] < n THEN backtrack[opened(c)] ELSE <<>>)
                            \o (IF MayClose(n, c[2], c[3]) THEN backtrack[closed(c)] ELSE <<>>)]
<1>1. generateParenthesis(n) = backtrack[<<<<>>, 0, 0>>]
    BY DEF generateParenthesis
<1> HIDE DEF backtrack
<1>2. <<>> \in A /\ A = Seq(Seq(Par)) /\ A # {}
    <2>1. A = Seq(Seq(Par))
        BY DEF Par
    <2>2. <<>> \in A
        OBVIOUS
    <2> HIDE DEF A
    <2> QED
        BY <2>1, <2>2
<1>3. ASSUME NEW c \in D
      PROVE  /\ c[1] \in Seq(Par) /\ c[2] \in 0..n /\ c[3] \in 0..n
             /\ c = <<c[1], c[2], c[3]>> /\ <<c[1]>> \in A
    BY DEF Par
<1>4. ASSUME NEW st \in Seq(Par), NEW o \in 0..n, NEW d \in 0..n
      PROVE  <<st, o, d>> \in D
    BY DEF Par
<1>5. ASSUME NEW c \in D
      PROVE  /\ c[2] < n => opened(c) \in D
             /\ MayClose(n, c[2], c[3]) => closed(c) \in D
    <2>1. "(" \in Par /\ ")" \in Par
        BY DEF Par
    <2>2. ASSUME c[2] < n
          PROVE  opened(c) \in D
        <3>1. Append(c[1], "(") \in Seq(Par) /\ c[2] + 1 \in 0..n
            BY <1>3, <2>1, <2>2, AppendOf
        <3> QED
            BY <1>3, <1>4, <3>1
    <2>3. ASSUME MayClose(n, c[2], c[3])
          PROVE  closed(c) \in D
        <3>1. Append(c[1], ")") \in Seq(Par) /\ c[3] + 1 \in 0..n
            BY <1>3, <2>1, <2>3, AppendOf DEF MayClose
        <3>2. c[2] \in 0..n
            BY <1>3
        <3> HIDE DEF D
        <3> QED
            BY <1>4, <3>1, <3>2
    <2> QED
        BY <2>2, <2>3
<1>6. /\ measure \in [D -> Nat]
      /\ \A c \in D : measure[c] = 2 * n - c[2] - c[3]
    BY <1>3
<1>7. \A g \in [D -> A] : \A c \in D :
         body[g][c] = IF full(c) THEN <<c[1]>>
                      ELSE (IF c[2] < n THEN g[opened(c)] ELSE <<>>)
                           \o (IF MayClose(n, c[2], c[3]) THEN g[closed(c)] ELSE <<>>)
    OBVIOUS
<1>8. ASSUME NEW c \in D
      PROVE  /\ c[2] < n => measure[opened(c)] < measure[c]
             /\ MayClose(n, c[2], c[3]) => measure[closed(c)] < measure[c]
    <2>1. /\ opened(c)[2] = c[2] + 1 /\ opened(c)[3] = c[3]
          /\ closed(c)[2] = c[2] /\ closed(c)[3] = c[3] + 1
        OBVIOUS
    <2>2. c[2] \in Nat /\ c[3] \in Nat
        BY <1>3
    <2> HIDE DEF opened, closed, measure, D
    <2> QED
        BY <1>5, <1>6, <2>1, <2>2
<1>9. ASSUME NEW s \in A, NEW r \in A
      PROVE  s \o r \in A
    BY <1>2, ConcatOf
<1> HIDE DEF A, D, measure, opened, closed
<1>10. body \in [[D -> A] -> [D -> A]]
    <2>1. ASSUME NEW g \in [D -> A], NEW c \in D
          PROVE  body[g][c] \in A
        <3>1. (IF c[2] < n THEN g[opened(c)] ELSE <<>>) \in A
            BY <1>2, <1>5
        <3>2. (IF MayClose(n, c[2], c[3]) THEN g[closed(c)] ELSE <<>>) \in A
            BY <1>2, <1>5
        <3> QED
            BY <1>3, <1>7, <1>9, <3>1, <3>2
    <2> QED
        BY <2>1
<1> HIDE DEF body
<1>11. Wellfounded(D, A, measure, body)
    <2>1. ASSUME NEW g \in [D -> A], NEW h \in [D -> A], NEW c \in D,
                 \A d \in D : measure[d] < measure[c] => g[d] = h[d]
          PROVE  body[g][c] = body[h][c]
        <3>1. /\ c[2] < n => g[opened(c)] = h[opened(c)]
              /\ MayClose(n, c[2], c[3]) => g[closed(c)] = h[closed(c)]
            BY <1>5, <1>8, <2>1
        <3> QED
            BY <1>7, <3>1
    <2> QED
        BY <1>6, <1>10, <2>1 DEF Wellfounded
<1>12. PICK f \in [D -> A] : f = body[f]
    BY <1>2, <1>11, FixpointExists
<1>13. backtrack = [c \in D |->
                       IF full(c) THEN <<c[1]>>
                       ELSE (IF c[2] < n THEN backtrack[opened(c)] ELSE <<>>)
                            \o (IF MayClose(n, c[2], c[3]) THEN backtrack[closed(c)] ELSE <<>>)]
    <2>1. f = [c \in D |->
                       IF full(c) THEN <<c[1]>>
                       ELSE (IF c[2] < n THEN f[opened(c)] ELSE <<>>)
                            \o (IF MayClose(n, c[2], c[3]) THEN f[closed(c)] ELSE <<>>)]
        BY <1>12 DEF body
    <2> QED
        BY <2>1 DEF backtrack
<1> DEFINE S == {c \in D : WellBegun(c[1], c[2], c[3]) =>
                              backtrack[c] \in A /\ Once(backtrack[c], Endings(c[1], n))}
<1>14. ASSUME NEW c \in D, \A d \in D : measure[d] < measure[c] => d \in S,
              WellBegun(c[1], c[2], c[3])
       PROVE  backtrack[c] \in A /\ Once(backtrack[c], Endings(c[1], n))
    <2> DEFINE st == c[1]
               o == c[2]
               d == c[3]
               begun == IF o < n THEN backtrack[opened(c)] ELSE <<>>
               ended == IF MayClose(n, o, d) THEN backtrack[closed(c)] ELSE <<>>
               B == IF o < n THEN Endings(Append(st, "("), n) ELSE {}
               E == IF d < o THEN Endings(Append(st, ")"), n) ELSE {}
    <2>1. /\ st \in Seq(Par) /\ o \in 0..n /\ d \in 0..n /\ Len(st) = o + d
          /\ "(" \in Par /\ ")" \in Par
        BY <1>3, <1>14 DEF Par, WellBegun
    <2>2. CASE full(c)
        <3>1. backtrack[c] = <<st>> /\ <<st>> \in A
            BY <1>3, <1>13, <2>2
        <3>2. Endings(st, n) = {st}
            BY <1>14, <2>2, EndingsNow
        <3>3. Once(<<st>>, {st})
            <4>1. Len(<<st>>) = 1 /\ <<st>>[1] = st
                OBVIOUS
            <4> HIDE DEF st
            <4> QED
                BY <4>1 DEF Once
        <3> QED
            BY <3>1, <3>2, <3>3
    <2>3. CASE ~full(c)
        <3>1. begun \in A /\ Once(begun, B)
            <4>1. CASE o < n
                <5>1. opened(c)[1] = Append(st, "(") /\ opened(c)[2] = o + 1 /\ opened(c)[3] = d
                    BY DEF opened
                <5>2. WellBegun(Append(st, "("), o + 1, d)
                    BY <1>14, <2>1, GoesOn
                <5>3. opened(c) \in S
                    BY <1>5, <1>8, <1>14, <4>1
                <5> QED
                    BY <4>1, <5>1, <5>2, <5>3
            <4>2. CASE ~(o < n)
                <5>1. begun = <<>> /\ B = {}
                    BY <4>2
                <5> HIDE DEF begun, B
                <5> QED
                    BY <1>2, <5>1 DEF Once
            <4> QED
                BY <4>1, <4>2
        <3>2. ended \in A /\ Once(ended, E)
            <4>1. CASE d < o
                <5>1. closed(c)[1] = Append(st, ")") /\ closed(c)[2] = o /\ closed(c)[3] = d + 1
                    BY DEF closed
                <5>2. WellBegun(Append(st, ")"), o, d + 1)
                    BY <1>14, <2>1, <4>1, GoesOn
                <5>3. closed(c) \in S /\ MayClose(n, o, d)
                    BY <1>5, <1>8, <1>14, <4>1 DEF MayClose
                <5> QED
                    BY <4>1, <5>1, <5>2, <5>3
            <4>2. CASE ~(d < o)
                <5>1. ended = <<>> /\ E = {}
                    BY <4>2 DEF MayClose
                <5> HIDE DEF ended, E
                <5> QED
                    BY <1>2, <5>1 DEF Once
            <4> QED
                BY <4>1, <4>2
        <3>3. backtrack[c] = begun \o ended
            BY <1>13, <2>3
        <3>4. Endings(st, n) = B \cup E /\ B \cap E = {}
            <4>1. /\ Endings(Append(st, "("), n) = {s \in Endings(st, n) : s[Len(st) + 1] = "("}
                  /\ Endings(Append(st, ")"), n) = {s \in Endings(st, n) : s[Len(st) + 1] = ")"}
                BY <2>1, EndingsAppend
            <4>2. o + d < 2 * n /\ Len(st) + 1 = o + d + 1
                BY <2>1, <2>3
            <4>3. \A s \in Endings(st, n) :
                     \/ s[Len(st) + 1] = "(" /\ o < n
                     \/ s[Len(st) + 1] = ")" /\ d < o
                BY <1>14, <2>1, <4>2, NextParenthesis, SMTT(30)
            <4> HIDE DEF st, o, d
            <4> QED
                BY <4>1, <4>3
        <3> HIDE DEF begun, ended, B, E
        <3>5. begun \o ended \in A /\ Once(begun \o ended, B \cup E)
            BY <1>2, <3>1, <3>2, <3>4, OnceEach
        <3> QED
            BY <3>3, <3>4, <3>5 DEF st
    <2> QED
        BY <2>2, <2>3
<1>15. \A c \in D : (\A d \in D : measure[d] < measure[c] => d \in S) => c \in S
    BY <1>14
<1> HIDE DEF S
<1>16. \A c \in D : c \in S
    BY <1>6, <1>15, MeasureInduction
<1> DEFINE e == <<>>
           c0 == <<e, 0, 0>>
<1>17. c0 \in D /\ c0[1] = e /\ c0[2] = 0 /\ c0[3] = 0
    <2>1. e \in Seq(Par)
        OBVIOUS
    <2> HIDE DEF e
    <2> QED
        BY <1>4, <2>1
<1>18. WellBegun(e, 0, 0)
    <2>1. e \in Seq(Par) /\ Len(e) = 0
        OBVIOUS
    <2> QED
        BY <2>1, UntilNone DEF WellBegun
<1>19. backtrack[c0] \in A /\ Once(backtrack[c0], Endings(e, n))
    BY <1>16, <1>17, <1>18 DEF S
<1> QED
    BY <1>1, <1>2, <1>19

\* What Enumerated says of the parentheses.
LEMMA ParenthesesIs ==
    ASSUME NEW n \in Nat
    PROVE  /\ IsInjective(generateParenthesis(n))
           /\ ToSet(generateParenthesis(n)) =
                 {s \in [1..(2 * n) -> {"(", ")"}] : Balanced(s)}
<1>1. /\ IsInjective(generateParenthesis(n))
      /\ ToSet(generateParenthesis(n)) = Endings(<<>>, n)
    BY generateParenthesisIs, OnceIs
<1>2. ASSUME NEW s \in [1..(2 * n) -> Par]
      PROVE  Balanced(s) <=> s \in Endings(<<>>, n)
    <2>1. Balanced(s) <=> Even(s, 2 * n)
        BY BalancedIs
    <2>2. Len(<<>>) = 0
        OBVIOUS
    <2> QED
        BY <2>1, <2>2 DEF Endings
<1>3. Endings(<<>>, n) = {s \in [1..(2 * n) -> Par] : Balanced(s)}
    <2>1. Endings(<<>>, n) \subseteq [1..(2 * n) -> Par]
        BY DEF Endings
    <2> QED
        BY <1>2, <2>1
<1> QED
    BY <1>1, <1>3 DEF Par

-----------------------------------------------------------------------------
(* permute: what its rounds are.                                           *)

PermType == [perms : Seq(Seq(Int)), left : Seq(Int)]
Kept(n) == {r \in PermType : Len(r.left) = n}

\* What one round makes of what the round before left, with g for the recursion.
After(g, before) ==
    LET n == Head(before.left)
        rest == g[Tail(before.left)]
    IN  [perms |-> before.perms \o [k \in DOMAIN rest.perms |-> Append(rest.perms[k], n)],
         left |-> Append(rest.left, n)]
Rounds(round, g, s) ==
    round = [i \in 0..Len(s) |-> IF i = 0 THEN [perms |-> <<>>, left |-> s]
                                 ELSE After(g, round[i - 1])]
RoundsOf(g, s) == CHOOSE round : Rounds(round, g, s)

\* Lists shorter than n keep their length.
Keeps(g, n) == \A t \in Seq(Int) : Len(t) < n => g[t] \in Kept(Len(t))

LEMMA TailIs ==
    ASSUME NEW s \in Seq(Int), Len(s) > 0
    PROVE  /\ Head(s) \in Int /\ Head(s) = s[1]
           /\ Tail(s) \in Seq(Int) /\ Len(Tail(s)) = Len(s) - 1
           /\ \A k \in 1..(Len(s) - 1) : Tail(s)[k] = s[k + 1]
BY HeadTailProperties

LEMMA AppendEach ==
    ASSUME NEW p \in Seq(Seq(Int)), NEW n \in Int
    PROVE  /\ [k \in DOMAIN p |-> Append(p[k], n)] \in Seq(Seq(Int))
           /\ Len([k \in DOMAIN p |-> Append(p[k], n)]) = Len(p)
           /\ \A k \in 1..Len(p) :
                 [j \in DOMAIN p |-> Append(p[j], n)][k] = Append(p[k], n)
<1>1. DOMAIN p = 1..Len(p) /\ Len(p) \in Nat
    OBVIOUS
<1>2. \A k \in 1..Len(p) : Append(p[k], n) \in Seq(Int)
    <2> SUFFICES ASSUME NEW k \in 1..Len(p) PROVE Append(p[k], n) \in Seq(Int)
        OBVIOUS
    <2>1. p[k] \in Seq(Int)
        OBVIOUS
    <2> QED
        BY <2>1, AppendOf
<1> DEFINE q == [k \in 1..Len(p) |-> Append(p[k], n)]
<1>3. q \in [1..Len(p) -> Seq(Int)]
    BY <1>2
<1>4. q \in Seq(Seq(Int)) /\ Len(q) = Len(p)
    <2> DEFINE T == Seq(Int)
               N == Len(p)
    <2>1. q \in [1..N -> T] /\ N \in Nat
        BY <1>1, <1>3
    <2> HIDE DEF q, T, N
    <2>2. q \in Seq(T) /\ Len(q) = N
        BY <2>1
    <2> QED
        BY <2>2 DEF T, N
<1> QED
    BY <1>1, <1>4

LEMMA AfterIs ==
    ASSUME NEW n \in Nat \ {0}, NEW g, Keeps(g, n), NEW b \in Kept(n)
    PROVE  /\ After(g, b) \in Kept(n)
           /\ Tail(b.left) \in Seq(Int) /\ Len(Tail(b.left)) = n - 1
<1> DEFINE s == b.left
           t == Tail(b.left)
           e == Head(b.left)
           rest == g[t]
<1>1. s \in Seq(Int) /\ Len(s) = n /\ b.perms \in Seq(Seq(Int))
    BY DEF Kept, PermType
<1>2. e \in Int /\ t \in Seq(Int) /\ Len(t) = n - 1
    BY <1>1, TailIs
<1>3. rest \in Kept(n - 1)
    <2>1. Len(t) < n
        BY <1>2
    <2> HIDE DEF t
    <2>2. g[t] \in Kept(Len(t))
        BY <1>2, <2>1 DEF Keeps
    <2> QED
        BY <1>2, <2>2
<1>4. rest.perms \in Seq(Seq(Int)) /\ rest.left \in Seq(Int) /\ Len(rest.left) = n - 1
    BY <1>3 DEF Kept, PermType
<1> HIDE DEF rest, e, t
<1>5. [k \in DOMAIN rest.perms |-> Append(rest.perms[k], e)] \in Seq(Seq(Int))
    BY <1>2, <1>4, AppendEach
<1>6. Append(rest.left, e) \in Seq(Int) /\ Len(Append(rest.left, e)) = n
    BY <1>2, <1>4, AppendOf
<1>7. b.perms \o [k \in DOMAIN rest.perms |-> Append(rest.perms[k], e)] \in Seq(Seq(Int))
    BY <1>1, <1>5, ConcatOf
<1>8. After(g, b) = [perms |-> b.perms \o [k \in DOMAIN rest.perms |-> Append(rest.perms[k], e)],
                     left |-> Append(rest.left, e)]
    BY DEF After, rest, e, t
<1>9. After(g, b) \in Kept(n)
    BY <1>6, <1>7, <1>8 DEF Kept, PermType
<1> QED
    BY <1>2, <1>9 DEF t

LEMMA RoundsExist ==
    ASSUME NEW s \in Seq(Int), NEW g, Keeps(g, Len(s))
    PROVE  \E round \in [0..Len(s) -> Kept(Len(s))] : Rounds(round, g, s)
<1> DEFINE n == Len(s)
           D == 0..n
           A == Kept(n)
           first == [perms |-> <<>>, left |-> s]
           measure == [i \in D |-> i]
           body == [x \in [D -> A] |-> [i \in D |-> IF i = 0 THEN first ELSE After(g, x[i - 1])]]
<1>1. n \in Nat /\ first \in A
    <2>1. <<>> \in Seq(Seq(Int)) /\ s \in Seq(Int) /\ n \in Nat
        OBVIOUS
    <2> QED
        BY <2>1 DEF Kept, PermType
<1>2. measure \in [D -> Nat] /\ \A i \in D : measure[i] = i
    OBVIOUS
<1>3. \A x \in [D -> A] : \A i \in D :
         body[x][i] = IF i = 0 THEN first ELSE After(g, x[i - 1])
    OBVIOUS
<1>4. ASSUME NEW i \in D, i # 0
      PROVE  i - 1 \in D /\ i - 1 < i /\ n \in Nat \ {0}
    BY <1>1, <1>4
<1>5. body \in [[D -> A] -> [D -> A]]
    <2>1. ASSUME NEW x \in [D -> A], NEW i \in D, i # 0
          PROVE  After(g, x[i - 1]) \in A
        <3>1. x[i - 1] \in Kept(n)
            BY <1>4, <2>1
        <3> HIDE DEF n
        <3> QED
            BY <1>4, <2>1, <3>1, AfterIs DEF n
    <2> HIDE DEF A, D, first
    <2> QED
        BY <1>1, <2>1
<1> HIDE DEF n, D, A, measure, body, first
<1>6. Wellfounded(D, A, measure, body)
    <2>1. ASSUME NEW x \in [D -> A], NEW y \in [D -> A], NEW i \in D,
                 \A j \in D : measure[j] < measure[i] => x[j] = y[j]
          PROVE  body[x][i] = body[y][i]
        <3>1. CASE i = 0
            BY <1>3, <3>1
        <3>2. CASE i # 0
            <4>1. i - 1 \in D /\ measure[i - 1] < measure[i]
                BY <1>2, <1>4, <3>2
            <4>2. x[i - 1] = y[i - 1]
                BY <2>1, <4>1
            <4> QED
                BY <1>3, <3>2, <4>2
        <3> QED
            BY <3>1, <3>2
    <2> QED
        BY <1>2, <1>5, <2>1 DEF Wellfounded
<1>7. PICK x \in [D -> A] : x = body[x]
    <2>1. A # {}
        BY <1>1
    <2> QED
        BY <1>6, <2>1, FixpointExists
<1>8. x = [i \in D |-> IF i = 0 THEN first ELSE After(g, x[i - 1])]
    BY <1>7 DEF body
<1> QED
    BY <1>7, <1>8 DEF Rounds, D, A, n, first

\* The rounds are determined by what the recursion makes of shorter lists.
LEMMA RoundsSame ==
    ASSUME NEW s \in Seq(Int), NEW g, NEW h, Keeps(g, Len(s)),
           \A t \in Seq(Int) : Len(t) < Len(s) => g[t] = h[t],
           NEW x \in [0..Len(s) -> Kept(Len(s))], Rounds(x, g, s), NEW y, Rounds(y, h, s)
    PROVE  x = y
<1> DEFINE n == Len(s)
           S == {i \in 0..n : x[i] = y[i]}
<1>0. n \in Nat
    OBVIOUS
<1>1. 0 \in S
    <2>1. 0 \in 0..n
        BY <1>0
    <2> QED
        BY <2>1 DEF Rounds
<1>2. ASSUME NEW i \in 0..(n - 1), i \in S
      PROVE  i + 1 \in S
    <2>1. i + 1 \in 0..n /\ i + 1 # 0 /\ (i + 1) - 1 = i /\ i \in 0..n /\ n \in Nat \ {0}
        BY <1>0
    <2>2. x[i + 1] = After(g, x[i]) /\ y[i + 1] = After(h, y[i])
        BY <2>1 DEF Rounds
    <2>3. x[i] = y[i] /\ x[i] \in Kept(n)
        BY <1>2, <2>1
    <2>4. Tail(x[i].left) \in Seq(Int) /\ Len(Tail(x[i].left)) = n - 1
        <3> DEFINE b == x[i]
        <3>1. b \in Kept(n) /\ Keeps(g, n) /\ n \in Nat \ {0}
            BY <2>1, <2>3
        <3> HIDE DEF b, n
        <3>2. Tail(b.left) \in Seq(Int) /\ Len(Tail(b.left)) = n - 1
            BY <3>1, AfterIs
        <3> QED
            BY <3>2 DEF b
    <2>5. g[Tail(x[i].left)] = h[Tail(x[i].left)]
        <3> DEFINE t == Tail(x[i].left)
        <3>1. t \in Seq(Int) /\ Len(t) < Len(s)
            BY <1>0, <2>4
        <3> HIDE DEF t
        <3>2. g[t] = h[t]
            BY <3>1
        <3> QED
            BY <3>2 DEF t
    <2>6. After(g, x[i]) = After(h, x[i])
        BY <2>5 DEF After
    <2> QED
        BY <2>1, <2>2, <2>3, <2>6
<1> HIDE DEF S
<1>3. \A i \in 0..n : i \in S
    BY <1>0, <1>1, <1>2, CountedUp
<1>4. \A i \in 0..n : x[i] = y[i]
    BY <1>3 DEF S
<1>5. DOMAIN y = 0..n /\ y = [i \in 0..n |-> y[i]]
    BY DEF Rounds
<1>6. x = [i \in 0..n |-> x[i]]
    OBVIOUS
<1> QED
    BY <1>4, <1>5, <1>6

LEMMA RoundsOfIs ==
    ASSUME NEW s \in Seq(Int), NEW g, Keeps(g, Len(s))
    PROVE  RoundsOf(g, s) \in [0..Len(s) -> Kept(Len(s))] /\ Rounds(RoundsOf(g, s), g, s)
<1>1. PICK x \in [0..Len(s) -> Kept(Len(s))] : Rounds(x, g, s)
    BY RoundsExist
<1>2. Rounds(RoundsOf(g, s), g, s)
    BY <1>1 DEF RoundsOf
<1>3. x = RoundsOf(g, s)
    BY <1>1, <1>2, RoundsSame
<1> QED
    BY <1>1, <1>2, <1>3

Permuted(p) ==
    p = [s \in Seq(Int) |-> IF Len(s) = 1 THEN [perms |-> <<s>>, left |-> s]
                            ELSE RoundsOf(p, s)[Len(s)]]

\* The recursion is well-founded because every level gives its list back at the
\* length it had: what would not is replaced by something that does, and then
\* turns out to be nothing.
LEMMA PermutedExists == \E p : Permuted(p)
<1> DEFINE D == Seq(Int)
           A == PermType
           measure == [s \in D |-> Len(s)]
           kept(g) == [s \in D |-> IF Len(g[s].left) = Len(s) THEN g[s]
                                   ELSE [perms |-> <<>>, left |-> s]]
           body == [g \in [D -> A] |-> [s \in D |->
                       IF Len(s) = 1 THEN [perms |-> <<s>>, left |-> s]
                       ELSE RoundsOf(kept(g), s)[Len(s)]]]
<1>1. \A s \in D : Len(s) \in Nat /\ measure[s] = Len(s)
    OBVIOUS
<1>2. measure \in [D -> Nat]
    OBVIOUS
<1>3. ASSUME NEW s \in D
      PROVE  [perms |-> <<>>, left |-> s] \in Kept(Len(s))
    <2>1. <<>> \in Seq(Seq(Int)) /\ s \in Seq(Int)
        OBVIOUS
    <2> QED
        BY <2>1 DEF Kept, PermType
<1>4. ASSUME NEW s \in D
      PROVE  [perms |-> <<s>>, left |-> s] \in Kept(Len(s))
    <2>1. <<s>> \in Seq(Seq(Int)) /\ s \in Seq(Int)
        OBVIOUS
    <2> QED
        BY <2>1 DEF Kept, PermType
<1>5. ASSUME NEW g \in [D -> A], NEW s \in D
      PROVE  /\ kept(g)[s] \in Kept(Len(s))
             /\ kept(g)[s] = IF Len(g[s].left) = Len(s) THEN g[s]
                             ELSE [perms |-> <<>>, left |-> s]
    <2>1. g[s] \in PermType
        OBVIOUS
    <2>2. kept(g)[s] = IF Len(g[s].left) = Len(s) THEN g[s]
                       ELSE [perms |-> <<>>, left |-> s]
        OBVIOUS
    <2> QED
        BY <1>3, <2>1, <2>2 DEF Kept
<1>6. \A g \in [D -> A] : \A s \in D :
         body[g][s] = IF Len(s) = 1 THEN [perms |-> <<s>>, left |-> s]
                      ELSE RoundsOf(kept(g), s)[Len(s)]
    OBVIOUS
<1>7. ASSUME NEW g \in [D -> A]
      PROVE  kept(g) \in [D -> A]
    BY <1>5 DEF Kept
<1>8. ASSUME NEW g, \A s \in D : Len(g[s].left) = Len(s), g \in [D -> A]
      PROVE  kept(g) = g
    BY <1>8
<1> HIDE DEF kept
<1>9. ASSUME NEW g \in [D -> A], NEW s \in D
      PROVE  Keeps(kept(g), Len(s))
    BY <1>5 DEF Keeps
<1>10. ASSUME NEW g \in [D -> A], NEW s \in D
       PROVE  RoundsOf(kept(g), s)[Len(s)] \in Kept(Len(s))
    <2>1. RoundsOf(kept(g), s) \in [0..Len(s) -> Kept(Len(s))] /\ Len(s) \in 0..Len(s)
        BY <1>1, <1>9, RoundsOfIs
    <2> QED
        BY <2>1
<1> DEFINE what(g, s) == IF Len(s) = 1 THEN [perms |-> <<s>>, left |-> s]
                         ELSE RoundsOf(kept(g), s)[Len(s)]
<1>11. ASSUME NEW g \in [D -> A], NEW s \in D
       PROVE  what(g, s) \in Kept(Len(s)) /\ what(g, s) \in A
    BY <1>4, <1>10 DEF Kept
<1>12. body \in [[D -> A] -> [D -> A]]
    <2>1. body = [g \in [D -> A] |-> [s \in D |-> what(g, s)]]
        OBVIOUS
    <2> HIDE DEF what, D, A, body
    <2> QED
        BY <1>11, <2>1
<1> HIDE DEF body, measure, A
<1>13. Wellfounded(D, A, measure, body)
    <2>1. ASSUME NEW g \in [D -> A], NEW h \in [D -> A], NEW s \in D,
                 \A t \in D : measure[t] < measure[s] => g[t] = h[t]
          PROVE  body[g][s] = body[h][s]
        <3>1. \A t \in Seq(Int) : Len(t) < Len(s) => kept(g)[t] = kept(h)[t]
            <4> SUFFICES ASSUME NEW t \in D, Len(t) < Len(s) PROVE kept(g)[t] = kept(h)[t]
                OBVIOUS
            <4>1. g[t] = h[t]
                BY <1>1, <2>1
            <4>2. kept(g)[t] = IF Len(g[t].left) = Len(t) THEN g[t]
                               ELSE [perms |-> <<>>, left |-> t]
                BY <1>5
            <4>3. kept(h)[t] = IF Len(h[t].left) = Len(t) THEN h[t]
                               ELSE [perms |-> <<>>, left |-> t]
                BY <1>5
            <4> QED
                BY <4>1, <4>2, <4>3
        <3>2. /\ RoundsOf(kept(g), s) \in [0..Len(s) -> Kept(Len(s))]
              /\ Rounds(RoundsOf(kept(g), s), kept(g), s)
              /\ Rounds(RoundsOf(kept(h), s), kept(h), s)
              /\ Keeps(kept(g), Len(s))
            BY <1>9, RoundsOfIs
        <3>3. RoundsOf(kept(g), s) = RoundsOf(kept(h), s)
            BY <3>1, <3>2, RoundsSame
        <3> QED
            BY <1>6, <3>3
    <2> QED
        BY <1>2, <1>12, <2>1 DEF Wellfounded
<1>14. PICK f \in [D -> A] : f = body[f]
    <2>1. A # {}
        <3>1. <<>> \in D
            OBVIOUS
        <3> QED
            BY <1>3, <3>1 DEF A, Kept
    <2> QED
        BY <1>13, <2>1, FixpointExists
<1>15. \A s \in D : f[s] = what(f, s)
    BY <1>6, <1>14
<1>16. kept(f) = f
    <2>1. ASSUME NEW s \in D
          PROVE  Len(f[s].left) = Len(s)
        BY <1>11, <1>15 DEF Kept
    <2> QED
        BY <1>8, <1>14, <2>1
<1>17. \A s \in D : f[s] = IF Len(s) = 1 THEN [perms |-> <<s>>, left |-> s]
                           ELSE RoundsOf(f, s)[Len(s)]
    BY <1>15, <1>16
<1>18. f = [s \in Seq(Int) |-> IF Len(s) = 1 THEN [perms |-> <<s>>, left |-> s]
                               ELSE RoundsOf(f, s)[Len(s)]]
    BY <1>14, <1>17
<1> QED
    BY <1>18 DEF Permuted

LEMMA permuteIs == \E p : Permuted(p) /\ \A nums : permute(nums) = p[nums]
<1> DEFINE permuted == CHOOSE permuted : permuted = [s \in Seq(Int) |->
               IF Len(s) = 1 THEN [perms |-> <<s>>, left |-> s]
               ELSE RoundsOf(permuted, s)[Len(s)]]
<1>1. \A nums : permute(nums) = permuted[nums]
    BY DEF permute, RoundsOf, Rounds, After
<1>2. Permuted(permuted)
    <2>1. \E p : p = [s \in Seq(Int) |->
               IF Len(s) = 1 THEN [perms |-> <<s>>, left |-> s]
               ELSE RoundsOf(p, s)[Len(s)]]
        BY PermutedExists DEF Permuted
    <2>2. permuted = [s \in Seq(Int) |->
               IF Len(s) = 1 THEN [perms |-> <<s>>, left |-> s]
               ELSE RoundsOf(permuted, s)[Len(s)]]
        BY <2>1
    <2> HIDE DEF permuted
    <2> QED
        BY <2>2 DEF Permuted
<1> QED
    BY <1>1, <1>2

-----------------------------------------------------------------------------
(* permute: which permutations they are.                                   *)

\* The permutations of n places, those that put one of the first i places last,
\* and what a permutation makes of s.
Placings(n) == {f \in [1..n -> 1..n] : \A j, k \in 1..n : f[j] = f[k] => j = k}
LastWithin(n, i) == {f \in Placings(n) : f[n] <= i}
Along(s, f) == [k \in 1..Len(s) |-> s[f[k]]]
PermsOf(perms, s, F, S) ==
    /\ F \in Seq(Placings(Len(s))) /\ Once(F, S) /\ Len(perms) = Len(F)
    /\ \A j \in 1..Len(F) : perms[j] = Along(s, F[j])

\* The place that place k of the list has after i rounds had at first, and the
\* permutation of all places that round i makes of one of the other places.
Turn(n, i, k) == IF k + i <= n THEN k + i ELSE k + i - n
PutLast(n, i, f) == [k \in 1..n |-> IF k = n THEN i ELSE Turn(n, i, f[k])]

LEMMA TurnIs ==
    ASSUME NEW n \in Nat, NEW i \in 1..n
    PROVE  /\ \A k \in 1..(n - 1) : Turn(n, i, k) \in 1..n /\ Turn(n, i, k) # i
           /\ \A j, k \in 1..(n - 1) : Turn(n, i, j) = Turn(n, i, k) => j = k
           /\ \A v \in 1..n : v # i => \E k \in 1..(n - 1) : Turn(n, i, k) = v
<1>1. ASSUME NEW v \in 1..n, v # i
      PROVE  \E k \in 1..(n - 1) : Turn(n, i, k) = v
    <2>1. CASE v > i
        <3>1. v - i \in 1..(n - 1) /\ Turn(n, i, v - i) = v
            BY <2>1 DEF Turn
        <3> QED
            BY <3>1
    <2>2. CASE ~(v > i)
        <3>1. v - i + n \in 1..(n - 1) /\ Turn(n, i, v - i + n) = v
            BY <1>1, <2>2 DEF Turn
        <3> QED
            BY <3>1
    <2> QED
        BY <2>1, <2>2
<1>2. \A k \in 1..(n - 1) : Turn(n, i, k) \in 1..n /\ Turn(n, i, k) # i
    BY DEF Turn
<1>3. \A j, k \in 1..(n - 1) : Turn(n, i, j) = Turn(n, i, k) => j = k
    BY DEF Turn
<1> QED
    BY <1>1, <1>2, <1>3

LEMMA PutLastIs ==
    ASSUME NEW n \in Nat, NEW i \in 1..n
    PROVE  /\ \A f \in Placings(n - 1) : PutLast(n, i, f) \in Placings(n) /\ PutLast(n, i, f)[n] = i
           /\ \A f, h \in Placings(n - 1) : PutLast(n, i, f) = PutLast(n, i, h) => f = h
           /\ \A e \in Placings(n) :
                 e[n] = i => \E f \in Placings(n - 1) : PutLast(n, i, f) = e
<1>0. /\ n \in 1..n /\ n - 1 \in Nat /\ n \notin 1..(n - 1)
      /\ \A k \in 1..n : k # n => k \in 1..(n - 1)
      /\ \A k \in 1..(n - 1) : k \in 1..n /\ k # n
    OBVIOUS
<1>t. /\ \A k \in 1..(n - 1) : Turn(n, i, k) \in 1..n /\ Turn(n, i, k) # i
      /\ \A j, k \in 1..(n - 1) : Turn(n, i, j) = Turn(n, i, k) => j = k
      /\ \A v \in 1..n : v # i => \E k \in 1..(n - 1) : Turn(n, i, k) = v
    BY TurnIs
<1>f. ASSUME NEW f \in Placings(n - 1)
      PROVE  /\ f \in [1..(n - 1) -> 1..(n - 1)]
             /\ \A j, k \in 1..(n - 1) : f[j] = f[k] => j = k
             /\ PutLast(n, i, f)[n] = i
             /\ \A k \in 1..(n - 1) : /\ f[k] \in 1..(n - 1)
                                      /\ PutLast(n, i, f)[k] = Turn(n, i, f[k])
    BY <1>0 DEF Placings, PutLast
<1>1. ASSUME NEW f \in Placings(n - 1)
      PROVE  PutLast(n, i, f) \in Placings(n)
    <2> DEFINE e == PutLast(n, i, f)
    <2>1. ASSUME NEW k \in 1..n
          PROVE  e[k] \in 1..n /\ (k # n => e[k] # i)
        <3>1. CASE k = n
            BY <1>f, <3>1
        <3>2. CASE k # n
            <4>1. /\ k \in 1..(n - 1) /\ f[k] \in 1..(n - 1)
                  /\ e[k] = Turn(n, i, f[k])
                BY <1>0, <1>f, <3>2
            <4>2. Turn(n, i, f[k]) \in 1..n /\ Turn(n, i, f[k]) # i
                BY <1>t, <4>1
            <4> HIDE DEF e
            <4> QED
                BY <4>1, <4>2
        <3> QED
            BY <3>1, <3>2
    <2>2. ASSUME NEW j \in 1..n, NEW k \in 1..n, e[j] = e[k]
          PROVE  j = k
        <3>1. CASE j = n \/ k = n
            BY <1>f, <2>1, <2>2, <3>1
        <3>2. CASE j # n /\ k # n
            <4>1. /\ j \in 1..(n - 1) /\ k \in 1..(n - 1)
                  /\ f[j] \in 1..(n - 1) /\ f[k] \in 1..(n - 1)
                  /\ e[j] = Turn(n, i, f[j]) /\ e[k] = Turn(n, i, f[k])
                BY <1>0, <1>f, <3>2
            <4>2. f[j] = f[k]
                BY <1>t, <2>2, <4>1
            <4> QED
                BY <1>f, <4>1, <4>2
        <3> QED
            BY <3>1, <3>2
    <2>3. e \in [1..n -> 1..n]
        <3>1. e = [k \in 1..n |-> e[k]]
            BY DEF PutLast
        <3> HIDE DEF e
        <3> QED
            BY <2>1, <3>1
    <2> QED
        BY <2>2, <2>3 DEF Placings
<1>2. ASSUME NEW f \in Placings(n - 1), NEW h \in Placings(n - 1),
             PutLast(n, i, f) = PutLast(n, i, h)
      PROVE  f = h
    <2>1. ASSUME NEW k \in 1..(n - 1)
          PROVE  f[k] = h[k]
        <3>1. /\ f[k] \in 1..(n - 1) /\ h[k] \in 1..(n - 1)
              /\ PutLast(n, i, f)[k] = Turn(n, i, f[k])
              /\ PutLast(n, i, h)[k] = Turn(n, i, h[k])
            BY <1>f
        <3>2. Turn(n, i, f[k]) = Turn(n, i, h[k])
            BY <1>2, <3>1
        <3> QED
            BY <1>t, <3>1, <3>2
    <2> QED
        BY <1>f, <2>1
<1>3. ASSUME NEW e \in Placings(n), e[n] = i
      PROVE  \E f \in Placings(n - 1) : PutLast(n, i, f) = e
    <2>1. /\ e \in [1..n -> 1..n]
          /\ \A j, k \in 1..n : e[j] = e[k] => j = k
        BY DEF Placings
    <2> DEFINE back(v) == CHOOSE u \in 1..(n - 1) : Turn(n, i, u) = v
               f == [k \in 1..(n - 1) |-> back(e[k])]
    <2>2. ASSUME NEW k \in 1..(n - 1)
          PROVE  /\ f[k] \in 1..(n - 1) /\ Turn(n, i, f[k]) = e[k]
                 /\ k \in 1..n
        <3>1. e[k] \in 1..n /\ e[k] # i /\ k \in 1..n
            BY <1>0, <1>3, <2>1
        <3>2. \E u \in 1..(n - 1) : Turn(n, i, u) = e[k]
            BY <1>t, <3>1
        <3> QED
            BY <3>1, <3>2
    <2>3. f \in [1..(n - 1) -> 1..(n - 1)]
        BY <2>2
    <2> HIDE DEF f
    <2>4. ASSUME NEW j \in 1..(n - 1), NEW k \in 1..(n - 1), f[j] = f[k]
          PROVE  j = k
        <3>1. e[j] = e[k]
            BY <2>2, <2>4
        <3> QED
            BY <2>1, <2>2, <3>1
    <2>5. f \in Placings(n - 1)
        BY <2>3, <2>4 DEF Placings
    <2>6. ASSUME NEW k \in 1..n
          PROVE  PutLast(n, i, f)[k] = e[k]
        <3>1. CASE k = n
            BY <1>3, <1>f, <2>5, <3>1
        <3>2. CASE k # n
            BY <1>0, <1>f, <2>2, <2>5, <3>2
        <3> QED
            BY <3>1, <3>2
    <2>7. PutLast(n, i, f) = e
        <3>1. PutLast(n, i, f) \in [1..n -> 1..n]
            BY <1>1, <2>5 DEF Placings
        <3> QED
            BY <2>1, <2>6, <3>1
    <2> QED
        BY <2>5, <2>7
<1>4. \A f \in Placings(n - 1) : PutLast(n, i, f)[n] = i
    BY <1>f
<1> QED
    BY <1>1, <1>2, <1>3, <1>4

\* A list of different things gives one of different things by an injective operation.
LEMMA OncePut ==
    ASSUME NEW n \in Nat, NEW i \in 1..n, NEW G \in Seq(Placings(n - 1)),
           Once(G, Placings(n - 1))
    PROVE  /\ [j \in 1..Len(G) |-> PutLast(n, i, G[j])] \in Seq(Placings(n))
           /\ Len([j \in 1..Len(G) |-> PutLast(n, i, G[j])]) = Len(G)
           /\ Once([j \in 1..Len(G) |-> PutLast(n, i, G[j])],
                   {e \in Placings(n) : e[n] = i})
<1> DEFINE P == Placings(n - 1)
           Q == Placings(n)
           E == {e \in Q : e[n] = i}
           N == Len(G)
           H == [j \in 1..N |-> PutLast(n, i, G[j])]
<1>1. /\ \A f \in P : PutLast(n, i, f) \in Q /\ PutLast(n, i, f)[n] = i
      /\ \A f, h \in P : PutLast(n, i, f) = PutLast(n, i, h) => f = h
      /\ \A e \in Q : e[n] = i => \E f \in P : PutLast(n, i, f) = e
    BY PutLastIs
<1>2. /\ N \in Nat
      /\ \A k \in 1..N : G[k] \in P
      /\ \A j, k \in 1..N : G[j] = G[k] => j = k
      /\ \A f \in P : \E k \in 1..N : G[k] = f
    BY DEF Once
<1>3. \A k \in 1..N : H[k] = PutLast(n, i, G[k])
    OBVIOUS
<1>4. H \in [1..N -> Q]
    BY <1>1, <1>2
<1> HIDE DEF P, Q, N, H
<1>5. H \in Seq(Q) /\ Len(H) = N
    BY <1>2, <1>4
<1>6. \A k \in 1..N : H[k] \in E
    BY <1>1, <1>2, <1>3
<1>7. \A j, k \in 1..N : H[j] = H[k] => j = k
    BY <1>1, <1>2, <1>3
<1>8. ASSUME NEW e \in E
      PROVE  \E k \in 1..N : H[k] = e
    <2>1. PICK f \in P : PutLast(n, i, f) = e
        BY <1>1
    <2>2. PICK k \in 1..N : G[k] = f
        BY <1>2
    <2> QED
        BY <1>3, <2>1, <2>2
<1> HIDE DEF E
<1>9. Once(H, E)
    BY <1>5, <1>6, <1>7, <1>8 DEF Once
<1> QED
    BY <1>5, <1>9 DEF H, E, Q, N

\* What i rounds leave of s, and what all of them leave of it.
Turned(b, s, i) ==
    /\ b \in Kept(Len(s))
    /\ \A k \in 1..Len(s) : b.left[k] = s[Turn(Len(s), i, k)]
    /\ \E F : PermsOf(b.perms, s, F, LastWithin(Len(s), i))
Gives(r, s) ==
    /\ r \in Kept(Len(s))
    /\ Len(s) > 0 => r.left = s /\ \E F : PermsOf(r.perms, s, F, Placings(Len(s)))

LEMMA ConcatAlong ==
    ASSUME NEW s \in Seq(Int), NEW p \in Seq(Seq(Int)), NEW q \in Seq(Seq(Int)),
           NEW F, NEW S, PermsOf(p, s, F, S), NEW H, NEW R, PermsOf(q, s, H, R),
           S \cap R = {}
    PROVE  PermsOf(p \o q, s, F \o H, S \cup R)
<1> DEFINE a == Len(p)
           b == Len(q)
           u == p \o q
           U == F \o H
           T == Placings(Len(s))
<1>1. /\ F \in Seq(T) /\ Once(F, S) /\ Len(F) = a /\ \A j \in 1..a : p[j] = Along(s, F[j])
      /\ H \in Seq(T) /\ Once(H, R) /\ Len(H) = b /\ \A j \in 1..b : q[j] = Along(s, H[j])
    BY DEF PermsOf
<1> HIDE DEF T
<1>2. U \in Seq(T) /\ Once(U, S \cup R)
    BY <1>1, OnceEach
<1>3. /\ a \in Nat /\ b \in Nat /\ Len(u) = a + b
      /\ \A j \in 1..a : u[j] = p[j]
      /\ \A j \in 1..b : u[a + j] = q[j]
    BY ConcatOf
<1>4. /\ Len(U) = a + b
      /\ \A j \in 1..a : U[j] = F[j]
      /\ \A j \in 1..b : U[a + j] = H[j]
    <2>1. F \in Seq(T) /\ H \in Seq(T) /\ Len(F) = a /\ Len(H) = b
        BY <1>1
    <2> HIDE DEF a, b
    <2>2. Len(F \o H) = Len(F) + Len(H)
        BY <2>1, ConcatOf
    <2>3. \A j \in 1..Len(F) : (F \o H)[j] = F[j]
        BY <2>1, ConcatOf
    <2>4. \A j \in 1..Len(H) : (F \o H)[Len(F) + j] = H[j]
        BY <2>1, ConcatOf
    <2> QED
        BY <2>1, <2>2, <2>3, <2>4
<1> HIDE DEF a, b, u, U
<1>5. ASSUME NEW j \in 1..(a + b)
      PROVE  u[j] = Along(s, U[j])
    <2>1. CASE j \in 1..a
        BY <1>1, <1>3, <1>4, <2>1
    <2>2. CASE j \notin 1..a
        <3> DEFINE k == j - a
        <3>1. k \in 1..b /\ a + k = j
            BY <1>3, <2>2
        <3> HIDE DEF k
        <3>2. u[j] = q[k] /\ U[j] = H[k]
            BY <1>3, <1>4, <3>1
        <3>3. q[k] = Along(s, H[k])
            BY <1>1, <3>1
        <3> QED
            BY <3>2, <3>3
    <2> QED
        BY <2>1, <2>2
<1>6. PermsOf(u, s, U, S \cup R)
    BY <1>2, <1>3, <1>4, <1>5 DEF PermsOf, T
<1> QED
    BY <1>6 DEF u, U

LEMMA RoundTurns ==
    ASSUME NEW s \in Seq(Int), Len(s) > 1, NEW i \in 1..Len(s), NEW b, Turned(b, s, i - 1),
           NEW g, Keeps(g, Len(s)), Gives(g[Tail(b.left)], Tail(b.left))
    PROVE  Turned(After(g, b), s, i)
<1> DEFINE n == Len(s)
           t == Tail(b.left)
           e == Head(b.left)
           rest == g[t]
           q == [k \in DOMAIN rest.perms |-> Append(rest.perms[k], e)]
<1>1. n \in Nat \ {0} /\ n > 1 /\ i \in 1..n /\ Keeps(g, n)
    OBVIOUS
<1>2. /\ b \in Kept(n) /\ b.left \in Seq(Int) /\ Len(b.left) = n /\ b.perms \in Seq(Seq(Int))
      /\ \A k \in 1..n : b.left[k] = s[Turn(n, i - 1, k)]
    BY DEF Turned, Kept, PermType
<1>3. After(g, b) \in Kept(n)
    <2> HIDE DEF n
    <2> QED
        BY <1>1, <1>2, AfterIs
<1>4. PICK F : PermsOf(b.perms, s, F, LastWithin(n, i - 1))
    BY DEF Turned
<1>5. /\ e \in Int /\ e = b.left[1] /\ t \in Seq(Int) /\ Len(t) = n - 1
      /\ \A k \in 1..(n - 1) : t[k] = b.left[k + 1]
    BY <1>1, <1>2, TailIs
<1>6. After(g, b) = [perms |-> b.perms \o q, left |-> Append(rest.left, e)]
    BY DEF After
<1>7. Gives(rest, t)
    OBVIOUS
<1> HIDE DEF n, t, e, rest, q
<1>8. e = s[i]
    <2>1. 1 \in 1..n /\ Turn(n, i - 1, 1) = i
        BY <1>1 DEF Turn
    <2> QED
        BY <1>2, <1>5, <2>1
<1>9. ASSUME NEW k \in 1..(n - 1)
      PROVE  t[k] = s[Turn(n, i, k)]
    <2>1. k + 1 \in 1..n /\ Turn(n, i - 1, k + 1) = Turn(n, i, k)
        BY <1>1 DEF Turn
    <2> QED
        BY <1>2, <1>5, <2>1
<1>10. /\ rest.perms \in Seq(Seq(Int)) /\ rest.left = t
       /\ \E G : PermsOf(rest.perms, t, G, Placings(n - 1))
    <2>1. Len(t) > 0
        BY <1>1, <1>5
    <2> QED
        BY <1>5, <1>7, <2>1 DEF Gives, Kept, PermType
<1>11. PICK G : PermsOf(rest.perms, t, G, Placings(n - 1))
    BY <1>10
<1>12. /\ G \in Seq(Placings(n - 1)) /\ Once(G, Placings(n - 1)) /\ Len(rest.perms) = Len(G)
       /\ \A j \in 1..Len(G) : rest.perms[j] = Along(t, G[j])
       /\ Len(G) \in Nat
    BY <1>5, <1>11 DEF PermsOf
<1> DEFINE H == [j \in 1..Len(G) |-> PutLast(n, i, G[j])]
           E == {f \in Placings(n) : f[n] = i}
<1>13. /\ H \in Seq(Placings(n)) /\ Len(H) = Len(G) /\ Once(H, E)
       /\ \A j \in 1..Len(G) : H[j] = PutLast(n, i, G[j])
    BY <1>1, <1>12, OncePut
<1>14. /\ q \in Seq(Seq(Int)) /\ Len(q) = Len(G)
       /\ \A j \in 1..Len(G) : q[j] = Append(rest.perms[j], e)
    BY <1>5, <1>10, <1>12, AppendEach DEF q
<1> HIDE DEF H, E
<1>15. ASSUME NEW j \in 1..Len(G)
       PROVE  q[j] = Along(s, H[j])
    <2> DEFINE f == G[j]
               x == Along(t, f)
    <2>1. q[j] = Append(x, e)
        BY <1>12, <1>14
    <2>2. f \in [1..(n - 1) -> 1..(n - 1)]
        BY <1>12 DEF Placings
    <2> HIDE DEF f
    <2>3. /\ x \in Seq(Int) /\ Len(x) = n - 1 /\ \A k \in 1..(n - 1) : x[k] = t[f[k]]
        <3>1. n - 1 \in Nat
            BY <1>1
        <3>2. ASSUME NEW k \in 1..(n - 1)
              PROVE  f[k] \in 1..(n - 1) /\ t[f[k]] \in Int
            <4> DEFINE l == f[k]
            <4>1. l \in 1..Len(t)
                BY <1>5, <2>2
            <4> HIDE DEF l
            <4>2. t[l] \in Int
                BY <1>5, <4>1
            <4> QED
                BY <1>5, <4>1, <4>2 DEF l
        <3>3. x = [k \in 1..(n - 1) |-> t[f[k]]]
            BY <1>5 DEF Along
        <3> DEFINE m == n - 1
                   y == [k \in 1..m |-> t[f[k]]]
        <3>4. m \in Nat /\ y \in [1..m -> Int] /\ \A k \in 1..m : y[k] = t[f[k]]
            BY <3>1, <3>2
        <3> HIDE DEF m, y
        <3>5. y \in Seq(Int) /\ Len(y) = m
            BY <3>4
        <3> HIDE DEF x
        <3> QED
            BY <3>3, <3>4, <3>5 DEF m, y
    <2> HIDE DEF x
    <2>4. /\ Append(x, e) \in Seq(Int) /\ Len(Append(x, e)) = n
          /\ \A k \in 1..(n - 1) : Append(x, e)[k] = x[k]
          /\ Append(x, e)[n] = e
        <3>1. (n - 1) + 1 = n
            BY <1>1
        <3> QED
            BY <1>5, <2>3, <3>1, AppendOf
    <2> DEFINE h == PutLast(n, i, f)
    <2>5. H[j] = h
        BY <1>13 DEF f
    <2>6. ASSUME NEW k \in 1..n
          PROVE  Append(x, e)[k] = s[h[k]]
        <3>1. CASE k = n
            <4>1. h[k] = i
                BY <3>1 DEF PutLast
            <4> QED
                BY <1>8, <2>4, <3>1, <4>1
        <3>2. CASE k # n
            <4>1. k \in 1..(n - 1)
                BY <1>1, <3>2
            <4>2. h[k] = Turn(n, i, f[k]) /\ f[k] \in 1..(n - 1)
                BY <2>2, <3>2, <4>1 DEF PutLast
            <4>3. Append(x, e)[k] = t[f[k]]
                BY <2>3, <2>4, <4>1
            <4> QED
                BY <1>9, <4>2, <4>3
        <3> QED
            BY <3>1, <3>2
    <2> HIDE DEF h
    <2>7. Append(x, e) = [k \in 1..n |-> s[h[k]]]
        <3> DEFINE y == Append(x, e)
        <3>1. y \in Seq(Int) /\ Len(y) = n /\ \A k \in 1..n : y[k] = s[h[k]]
            BY <2>4, <2>6
        <3> HIDE DEF y
        <3>2. y = [k \in 1..n |-> s[h[k]]]
            BY <3>1
        <3> QED
            BY <3>2 DEF y
    <2> QED
        BY <2>1, <2>5, <2>7 DEF Along, n
<1>16. PermsOf(q, s, H, E)
    BY <1>13, <1>14, <1>15 DEF PermsOf, n
<1>17. LastWithin(n, i - 1) \cap E = {}
    BY <1>1 DEF LastWithin, E
<1>18. LastWithin(n, i - 1) \cup E = LastWithin(n, i)
    <2>1. \A f \in Placings(n) : f[n] \in 1..n
        BY <1>1 DEF Placings
    <2> QED
        BY <1>1, <2>1 DEF LastWithin, E
<1>19. PermsOf(b.perms \o q, s, F \o H, LastWithin(n, i))
    <2>1. PermsOf(b.perms \o q, s, F \o H, LastWithin(n, i - 1) \cup E)
        BY <1>2, <1>4, <1>14, <1>16, <1>17, ConcatAlong
    <2> QED
        BY <1>18, <2>1
<1>20. ASSUME NEW k \in 1..n
       PROVE  Append(t, e)[k] = s[Turn(n, i, k)]
    <2>1. /\ \A j \in 1..(n - 1) : Append(t, e)[j] = t[j]
          /\ Append(t, e)[n] = e
        <3>1. (n - 1) + 1 = n
            BY <1>1
        <3> QED
            BY <1>5, <3>1, AppendOf
    <2>2. CASE k = n
        <3>1. Turn(n, i, k) = i
            BY <1>1, <2>2 DEF Turn
        <3> QED
            BY <1>8, <2>1, <2>2, <3>1
    <2>3. CASE k # n
        <3>1. k \in 1..(n - 1)
            BY <1>1, <2>3
        <3> QED
            BY <1>9, <2>1, <3>1
    <2> QED
        BY <2>2, <2>3
<1>21. After(g, b).perms = b.perms \o q /\ After(g, b).left = Append(t, e)
    BY <1>6, <1>10
<1> QED
    BY <1>3, <1>19, <1>20, <1>21 DEF Turned, n

\* Every level gives the list back as it was, with all its permutations.
LEMMA PermutedGives ==
    ASSUME NEW p, Permuted(p)
    PROVE  \A s \in Seq(Int) : Gives(p[s], s)
<1> DEFINE D == Seq(Int)
           measure == [s \in D |-> Len(s)]
           S == {s \in D : Gives(p[s], s)}
<1>1. measure \in [D -> Nat] /\ \A s \in D : measure[s] = Len(s) /\ Len(s) \in Nat
    OBVIOUS
<1>2. ASSUME NEW s \in D
      PROVE  p[s] = IF Len(s) = 1 THEN [perms |-> <<s>>, left |-> s]
                    ELSE RoundsOf(p, s)[Len(s)]
    BY DEF Permuted
<1>3. ASSUME NEW s \in D, \A t \in D : Len(t) < Len(s) => Gives(p[t], t)
      PROVE  Gives(p[s], s)
    <2> DEFINE n == Len(s)
               x == RoundsOf(p, s)
    <2>1. n \in Nat /\ s \in Seq(Int)
        OBVIOUS
    <2>2. Keeps(p, n)
        BY <1>3 DEF Keeps, Gives
    <2>3. x \in [0..n -> Kept(n)] /\ Rounds(x, p, s)
        BY <2>1, <2>2, RoundsOfIs
    <2> HIDE DEF x
    <2>4. CASE n = 1
        <3>1. p[s] = [perms |-> <<s>>, left |-> s]
            BY <1>2, <2>4
        <3>2. <<s>> \in Seq(Seq(Int)) /\ Len(<<s>>) = 1 /\ <<s>>[1] = s
            OBVIOUS
        <3>3. p[s] \in Kept(n) /\ p[s].left = s /\ p[s].perms = <<s>>
            BY <3>1, <3>2 DEF Kept, PermType
        <3> DEFINE e == [k \in 1..1 |-> 1]
        <3>4. Placings(n) = {e}
            <4>1. e \in Placings(1)
                BY DEF Placings
            <4>2. \A f \in Placings(1) : f = e
                BY DEF Placings
            <4> QED
                BY <2>4, <4>1, <4>2
        <3>5. Along(s, e) = s
            BY <2>4 DEF Along
        <3> HIDE DEF e
        <3>6. <<e>> \in Seq(Placings(n)) /\ Len(<<e>>) = 1 /\ <<e>>[1] = e
            BY <3>4
        <3>7. Once(<<e>>, Placings(n))
            BY <3>4, <3>6 DEF Once
        <3>8. PermsOf(p[s].perms, s, <<e>>, Placings(n))
            BY <3>2, <3>3, <3>5, <3>6, <3>7 DEF PermsOf
        <3> QED
            BY <3>3, <3>8 DEF Gives
    <2>5. CASE n = 0
        <3>1. p[s] = x[0] /\ x[0] \in Kept(n)
            BY <1>2, <2>3, <2>5 DEF x
        <3> QED
            BY <2>5, <3>1 DEF Gives
    <2>6. CASE n > 1
        <3>1. p[s] = x[n] /\ x[n] \in Kept(n)
            BY <1>2, <2>1, <2>3, <2>6, SMTT(30) DEF x
        <3>2. /\ x[0] = [perms |-> <<>>, left |-> s]
              /\ \A i \in 1..n : x[i] = After(p, x[i - 1])
            BY <2>1, <2>3 DEF Rounds
        <3> DEFINE U == {i \in 0..n : Turned(x[i], s, i)}
        <3>3. 0 \in U
            <4>1. x[0] \in Kept(n) /\ 0 \in 0..n /\ x[0].left = s /\ x[0].perms = <<>>
                BY <2>1, <2>3, <3>2
            <4>2. \A k \in 1..n : Turn(n, 0, k) = k
                BY <2>1 DEF Turn
            <4>3. LastWithin(n, 0) = {}
                BY <2>1, <2>6 DEF LastWithin, Placings
            <4>4. PermsOf(<<>>, s, <<>>, LastWithin(n, 0))
                <5> DEFINE T == Placings(n)
                           e == <<>>
                <5>1. e \in Seq(T) /\ Len(e) = 0 /\ 1..Len(e) = {}
                    OBVIOUS
                <5> HIDE DEF T, e, n, x, U
                <5>2. Once(e, {})
                    BY <5>1 DEF Once
                <5>3. PermsOf(e, s, e, {})
                    BY <5>1, <5>2 DEF PermsOf
                <5> QED
                    BY <4>3, <5>3 DEF e
            <4>5. Turned(x[0], s, 0)
                BY <4>1, <4>2, <4>4 DEF Turned
            <4> QED
                BY <4>1, <4>5
        <3>4. ASSUME NEW i \in 0..(n - 1), i \in U
              PROVE  i + 1 \in U
            <4>1. i + 1 \in 1..n /\ i + 1 \in 0..n /\ (i + 1) - 1 = i
                BY <2>1
            <4> DEFINE b == x[i]
                       t == Tail(b.left)
            <4>2. Turned(b, s, (i + 1) - 1) /\ b \in Kept(n)
                BY <3>4, <4>1 DEF Turned
            <4>3. t \in Seq(Int) /\ Len(t) = n - 1
                <5>1. b.left \in Seq(Int) /\ Len(b.left) = n
                    BY <4>2 DEF Kept, PermType
                <5> QED
                    BY <2>6, <5>1, TailIs
            <4>4. Gives(p[t], t)
                <5>1. t \in D /\ Len(t) < Len(s)
                    BY <2>1, <4>3
                <5> HIDE DEF t
                <5> QED
                    BY <1>3, <5>1
            <4> HIDE DEF b
            <4>5. Turned(After(p, b), s, i + 1)
                BY <2>1, <2>2, <2>6, <4>1, <4>2, <4>4, RoundTurns
            <4>6. x[i + 1] = After(p, b)
                BY <3>2, <4>1 DEF b
            <4> QED
                BY <4>1, <4>5, <4>6
        <3> HIDE DEF U
        <3>5. \A i \in 0..n : i \in U
            BY <2>1, <3>3, <3>4, CountedUp
        <3>6. Turned(x[n], s, n)
            BY <2>1, <3>5 DEF U
        <3>7. x[n].left = s
            <4> DEFINE u == x[n].left
            <4>1. u \in Seq(Int) /\ Len(u) = n /\ \A k \in 1..n : u[k] = s[Turn(n, n, k)]
                BY <3>6 DEF Turned, Kept, PermType
            <4>2. \A k \in 1..n : Turn(n, n, k) = k
                BY <2>1 DEF Turn
            <4> HIDE DEF u
            <4>3. \A k \in 1..n : u[k] = s[k]
                BY <4>1, <4>2
            <4>4. u = s
                BY <4>1, <4>3, SMTT(30)
            <4> QED
                BY <4>4 DEF u
        <3>8. LastWithin(n, n) = Placings(n)
            <4>1. \A f \in Placings(n) : f[n] \in 1..n
                BY <2>1, <2>6 DEF Placings
            <4> QED
                BY <2>1, <4>1 DEF LastWithin
        <3>9. \E F : PermsOf(x[n].perms, s, F, Placings(n))
            BY <3>6, <3>8 DEF Turned
        <3> QED
            BY <3>1, <3>7, <3>9 DEF Gives
    <2>7. n = 0 \/ n = 1 \/ n > 1
        <3>1. n \in Nat
            BY <2>1
        <3> HIDE DEF n
        <3> QED
            BY <3>1
    <2> QED
        BY <2>4, <2>5, <2>6, <2>7
<1>4. \A s \in D : (\A t \in D : measure[t] < measure[s] => t \in S) => s \in S
    <2> SUFFICES ASSUME NEW s \in D, \A t \in D : measure[t] < measure[s] => t \in S
                 PROVE  s \in S
        OBVIOUS
    <2>1. \A t \in D : Len(t) < Len(s) => Gives(p[t], t)
        BY <1>1
    <2>2. Gives(p[s], s)
        BY <1>3, <2>1
    <2> QED
        BY <2>2
<1> HIDE DEF D, measure, S
<1>5. \A s \in D : s \in S
    BY <1>1, <1>4, MeasureInduction
<1> QED
    BY <1>5 DEF D, S

\* As many places of F have a value in U as there are values in U.
LEMMA OnceCounts ==
    ASSUME NEW F, NEW S, Len(F) \in Nat, Once(F, S), NEW U \in SUBSET S
    PROVE  Cardinality({j \in 1..Len(F) : F[j] \in U}) = Cardinality(U)
<1> DEFINE N == Len(F)
           P == {j \in 1..N : F[j] \in U}
           b == [j \in P |-> F[j]]
<1>1. /\ \A j, k \in 1..N : F[j] = F[k] => j = k
      /\ \A s \in S : \E k \in 1..N : F[k] = s
    BY DEF Once
<1>2. IsFiniteSet(P)
    <2>1. IsFiniteSet(1..N)
        BY FS_Interval
    <2> QED
        BY <2>1, FS_Subset
<1>3. b \in [P -> U] /\ \A j \in P : b[j] = F[j]
    OBVIOUS
<1>4. \A j, k \in P : b[j] = b[k] => j = k
    BY <1>1
<1>5. ASSUME NEW u \in U
      PROVE  \E k \in P : b[k] = u
    <2>1. PICK k \in 1..N : F[k] = u
        BY <1>1
    <2> QED
        BY <2>1
<1> HIDE DEF P, b
<1>6. b \in Bijection(P, U)
    BY <1>3, <1>4, <1>5 DEF Bijection, Injection, Surjection, IsInjective
<1>7. Cardinality(U) = Cardinality(P)
    BY <1>2, <1>6, FS_Bijection DEF ExistsBijection
<1> QED
    BY <1>7 DEF P

\* What Enumerated says of the permutations.
LEMMA PermutationsIs ==
    ASSUME NEW arr \in Seq(Int), Len(arr) > 0
    PROVE  LET res == permute(arr)
               places == DOMAIN arr
               wanted == {f \in [places -> places] : IsInjective(f)}
           IN  /\ res.left = arr
               /\ Len(res.perms) = Cardinality(wanted)
               /\ \A s \in ToSet(res.perms) :
                     Occurrences(res.perms, s) =
                         Cardinality({f \in wanted : [k \in places |-> arr[f[k]]] = s})
<1> DEFINE n == Len(arr)
           places == DOMAIN arr
           wanted == {f \in [places -> places] : IsInjective(f)}
           res == permute(arr)
<1>1. places = 1..n /\ n \in Nat
    OBVIOUS
<1>2. wanted = Placings(n)
    BY <1>1 DEF Placings, IsInjective
<1>3. Gives(res, arr)
    <2>1. PICK p : Permuted(p) /\ \A nums : permute(nums) = p[nums]
        BY permuteIs
    <2> QED
        BY <2>1, PermutedGives
<1> HIDE DEF n, wanted, places, res
<1>4. res.left = arr /\ res.perms \in Seq(Seq(Int))
    BY <1>3 DEF Gives, Kept, PermType
<1>5. PICK F : PermsOf(res.perms, arr, F, wanted)
    BY <1>2, <1>3 DEF Gives, n
<1>6. /\ Once(F, wanted) /\ Len(res.perms) = Len(F) /\ Len(F) \in Nat
      /\ \A j \in 1..Len(F) : res.perms[j] = Along(arr, F[j])
    BY <1>4, <1>5 DEF PermsOf
<1>7. Len(res.perms) = Cardinality(wanted)
    <2>1. {j \in 1..Len(F) : F[j] \in wanted} = 1..Len(F)
        BY <1>6 DEF Once
    <2>2. Cardinality({j \in 1..Len(F) : F[j] \in wanted}) = Cardinality(wanted)
        <3>1. wanted \in SUBSET wanted
            OBVIOUS
        <3> QED
            BY <1>6, <3>1, OnceCounts
    <2>3. Cardinality(1..Len(F)) = Len(F)
        <3> DEFINE N == Len(F)
        <3>1. N \in Nat
            BY <1>6
        <3> HIDE DEF N
        <3>2. 1 \in Int /\ N \in Int
            BY <3>1
        <3>3. Cardinality(1..N) = IF 1 > N THEN 0 ELSE N - 1 + 1
            BY <3>2, FS_Interval
        <3>4. Cardinality(1..N) = N
            BY <3>1, <3>3
        <3> QED
            BY <3>4 DEF N
    <2> QED
        BY <1>6, <2>1, <2>2, <2>3
<1>8. ASSUME NEW s
      PROVE  Occurrences(res.perms, s) =
                 Cardinality({f \in wanted : [k \in places |-> arr[f[k]]] = s})
    <2> DEFINE U == {f \in wanted : [k \in places |-> arr[f[k]]] = s}
    <2>1. \A f : Along(arr, f) = [k \in places |-> arr[f[k]]]
        BY <1>1 DEF Along, n
    <2>2. DOMAIN res.perms = 1..Len(F)
        BY <1>4, <1>6
    <2>3. {j \in DOMAIN res.perms : res.perms[j] = s} = {j \in 1..Len(F) : F[j] \in U}
        <3>1. \A j \in 1..Len(F) : F[j] \in wanted
            BY <1>6 DEF Once
        <3> QED
            BY <1>6, <2>1, <2>2, <3>1
    <2>4. U \in SUBSET wanted
        OBVIOUS
    <2> HIDE DEF U
    <2>5. Cardinality({j \in 1..Len(F) : F[j] \in U}) = Cardinality(U)
        BY <1>6, <2>4, OnceCounts
    <2> QED
        BY <2>3, <2>5 DEF Occurrences, U
<1> QED
    BY <1>4, <1>7, <1>8 DEF places, wanted, res

\* Whatever the list, permute returns the permutations of its places, every one
\* of them once, and gives the list back as it was, although it takes it apart on
\* every level of the recursion (permutation.py lines 1-21); and whatever the
\* number of pairs, every balanced string of parentheses is returned once and
\* nothing else is (generateparenthesis.py lines 4-25).
THEOREM AlwaysEnumerated == ComputationsSpec => []Enumerated
<1>1. IsCall /\ Computed => Enumerated
    <2> SUFFICES ASSUME IsCall, Computed PROVE Enumerated
        OBVIOUS
    <2>1. ASSUME NEW res \in Result("permute")
          PROVE  LET places == DOMAIN call.arr
                     wanted == {f \in [places -> places] : IsInjective(f)}
                 IN  /\ res.left = call.arr
                     /\ Len(res.perms) = Cardinality(wanted)
                     /\ \A s \in ToSet(res.perms) :
                           Occurrences(res.perms, s) =
                               Cardinality({f \in wanted :
                                               [k \in places |-> call.arr[f[k]]] = s})
        <3>1. call.function = "permute" /\ res = permute(call.arr)
            BY DEF Result, Computed
        <3> DEFINE arr == call.arr
        <3>2. arr \in Seq(Int) /\ Len(arr) > 0
            <4>1. arr \in Seq(Int) \ {<<>>}
                BY <3>1, CallArguments, InputsAssumption
            <4> HIDE DEF arr
            <4> QED
                BY <4>1, EmptySeq
        <3> HIDE DEF arr
        <3>3. res = permute(arr)
            BY <3>1 DEF arr
        <3>4. LET places == DOMAIN arr
                  wanted == {f \in [places -> places] : IsInjective(f)}
              IN  /\ res.left = arr
                  /\ Len(res.perms) = Cardinality(wanted)
                  /\ \A s \in ToSet(res.perms) :
                        Occurrences(res.perms, s) =
                            Cardinality({f \in wanted : [k \in places |-> arr[f[k]]] = s})
            BY <3>2, <3>3, PermutationsIs
        <3> QED
            BY <3>4 DEF arr
    <2>2. ASSUME NEW res \in Result("generateParenthesis")
          PROVE  /\ IsInjective(res)
                 /\ ToSet(res) = {s \in [1..(2 * call.n) -> {"(", ")"}] : Balanced(s)}
        <3>1. call.function = "generateParenthesis" /\ res = generateParenthesis(call.n)
            BY DEF Result, Computed
        <3>2. call.n \in Nat
            BY <3>1, CallArguments, InputsAssumption
        <3> QED
            BY <3>1, <3>2, ParenthesesIs
    <2> QED
        BY <2>1, <2>2 DEF Enumerated
<1> QED
    BY <1>1, AlwaysComputed, PTL

=============================================================================
