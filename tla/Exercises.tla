------------------------------ MODULE Exercises ------------------------------
(***************************************************************************)
(* The sequential algorithms of src/Python.  One that changes a list in    *)
(* place is a function to the list it leaves.  Positions start at 1, in    *)
(* the code at 0.                                                          *)
(***************************************************************************)
EXTENDS Integers, SequencesExt

CONSTANT Width      \* the digits reverse_bits formats a number with, 32

ASSUME WidthAssumption == Width \in Nat

-----------------------------------------------------------------------------
(* Sorting.                                                                *)

\* Mistaken: the first element is never moved.
StopsBeforeFirst(arr, i) == Max({1} \cup {j \in 1..(i - 1) : arr[j] <= arr[i]})

\* Where the inner loop of insertionSort stops: at an element that is not greater
\* than the key, or before the first.
Stop(arr, i) == Max({0} \cup {j \in 1..(i - 1) : arr[j] <= arr[i]})

\* The elements behind that place move up by one and the key arr[i] comes there.
MoveKey(arr, i) ==
    LET p == Stop(arr, i) + 1
    IN  [k \in DOMAIN arr |-> IF k \notin p..i THEN arr[k]
                              ELSE IF k = p THEN arr[i] ELSE arr[k - 1]]

insertionSort(arr) ==
    LET moved[i \in 0..Len(arr)] == IF i <= 1 THEN arr ELSE MoveKey(moved[i - 1], i)
    IN  moved[Len(arr)]

\* The loops of merge over the halves L and R, the first i and j elements of
\* which have been taken.
TakesLeft(L, R, i, j) == i < Len(L) /\ (j = Len(R) \/ L[i + 1] <= R[j + 1])
Merged(L, R) ==
    LET left[k \in 0..(Len(L) + Len(R))] ==
            IF k = 0 THEN 0
            ELSE LET i == left[k - 1]
                 IN  IF TakesLeft(L, R, i, k - 1 - i) THEN i + 1 ELSE i
    IN  [k \in 1..(Len(L) + Len(R)) |->
            IF left[k] > left[k - 1] THEN L[left[k]] ELSE R[k - left[k]]]

merge(arr, l, m, r) ==
    LET part == Merged(SubSeq(arr, l, m), SubSeq(arr, m + 1, r))
    IN  [k \in DOMAIN arr |-> IF k \in l..r THEN part[k - l + 1] ELSE arr[k]]

mergeSort(arr, l, r) ==
    LET sort[args \in [1..Len(arr) -> Int] \X (1..Len(arr)) \X (0..Len(arr))] ==
            LET a == args[1]
                from == args[2]
                to == args[3]
                mid == from + (to - from) \div 2
            IN  IF from < to
                THEN merge(sort[<<sort[<<a, from, mid>>], mid + 1, to>>], from, mid, to)
                ELSE a
    IN  sort[<<arr, l, r>>]

-----------------------------------------------------------------------------
(* Enumeration.                                                            *)

\* permute takes the first element off the list it is given, permutes the rest,
\* in place, and puts the element back at the end: the permutations, and the
\* list it leaves.
permute(nums) ==
    LET permuted[s \in Seq(Int)] ==
            LET round[i \in 0..Len(s)] ==
                    IF i = 0 THEN [perms |-> <<>>, left |-> s]
                    ELSE LET before == round[i - 1]
                             n == Head(before.left)
                             rest == permuted[Tail(before.left)]
                         IN  [perms |-> before.perms \o
                                  [k \in DOMAIN rest.perms |-> Append(rest.perms[k], n)],
                              left |-> Append(rest.left, n)]
            IN  IF Len(s) = 1 THEN [perms |-> <<s>>, left |-> s] ELSE round[Len(s)]
    IN  permuted[nums]

\* Mistaken: any parenthesis may be closed, and only the number of them counts.
ClosesAny(n, openN, closedN) == closedN < n

MayClose(n, openN, closedN) == closedN < openN

generateParenthesis(n) ==
    LET backtrack[args \in Seq({"(", ")"}) \X (0..n) \X (0..n)] ==
            LET stack == args[1]
                openN == args[2]
                closedN == args[3]
            IN  IF openN = n /\ closedN = n THEN <<stack>>
                ELSE (IF openN < n
                      THEN backtrack[<<Append(stack, "("), openN + 1, closedN>>] ELSE <<>>)
                     \o (IF MayClose(n, openN, closedN)
                         THEN backtrack[<<Append(stack, ")"), openN, closedN + 1>>] ELSE <<>>)
    IN  backtrack[<<<<>>, 0, 0>>]

-----------------------------------------------------------------------------
(* Numbers.                                                                *)

\* Mistaken: the last square is left out.
StopsBeforeSquare(n, i) == i * i < n - 1

\* Does the sieve look at the multiples of i?
LooksAt(n, i) == i * i < n

\* Multiples of i are crossed out from its square on.
CrossOut(primes, i) ==
    IF ~primes[i] THEN primes
    ELSE [p \in DOMAIN primes |-> primes[p] /\ ~(p >= i * i /\ p % i = 0)]

countPrimes(n) ==
    LET sieve[i \in 1..(n + 1)] ==
            IF i = 1 THEN [p \in 0..(n - 1) |-> TRUE]
            ELSE IF LooksAt(n, i) THEN CrossOut(sieve[i - 1], i) ELSE sieve[i - 1]
    IN  Cardinality({p \in 2..(n - 1) : sieve[n + 1][p]})

\* The binary digits of n, padded on the left to the width but not cut to it.
Digits(n) ==
    LET digits[m \in Nat] == IF m = 0 THEN <<>> ELSE Append(digits[m \div 2], m % 2)
    IN  digits[n]
Padded(n) ==
    LET d == Digits(n) IN [k \in 1..Max({Width - Len(d), 0}) |-> 0] \o d

\* int reads the digits from the left.
Value(d) ==
    LET value[k \in 0..Len(d)] == IF k = 0 THEN 0 ELSE 2 * value[k - 1] + d[k]
    IN  value[Len(d)]
reverseBits(n) == Value(Reverse(Padded(n)))
=============================================================================
