----------------------------- MODULE Computations -----------------------------
(***************************************************************************)
(* The sequential computations of the repository, each run once on one of  *)
(* its inputs and compared with a definition of what it is meant to        *)
(* compute: the histogram buckets (Buckets), the configuration of the      *)
(* kubelet client (KubeletConfig) and the Python exercises (Exercises).    *)
(***************************************************************************)
EXTENDS Buckets, KubeletConfig, Exercises

CONSTANTS
    Arrays,         \* the lists to sort
    Lists,          \* the lists to permute
    Sizes,          \* how many pairs of parentheses
    Bounds,         \* below which primes are counted
    Numbers         \* whose bits are reversed

ASSUME InputsAssumption ==
    /\ Arrays \subseteq Seq(Int)
    /\ Lists \subseteq Seq(Int) \ {<<>>}
    /\ Sizes \subseteq Nat /\ Bounds \subseteq Nat /\ Numbers \subseteq Nat

NoCall == [function |-> "none"]
RegisterCall == [function |-> "RegisterDurationMetrics"]
KubeletCall == [function |-> "KubeletClientFor"]
Calls ==
    [function : {"insertionSort"}, arr : Arrays]
    \cup [function : {"permute"}, arr : Lists]
    \cup (UNION {[function : {"mergeSort"}, arr : {arr}, l : 1..Len(arr), r : 0..Len(arr)]
                    : arr \in Arrays})
    \cup [function : {"generateParenthesis"}, n : Sizes]
    \cup [function : {"countPrimes"}, n : Bounds]
    \cup [function : {"reverseBits"}, n : Numbers]

VARIABLES
    call,       \* what is called with what
    returned    \* {} or what it returned

runVars == <<vars, kubeletVars>>

\* What a call does not use has not been given to anything.
NoTimeout == scrapeTimeout = 0 /\ buckets = <<>>
NoClient == given = NoCall /\ client = {}
ComputationsInit ==
    /\ \/ call = RegisterCall /\ Init /\ NoClient
       \/ call = KubeletCall /\ KubeletInit /\ NoTimeout
       \/ call \in Calls /\ NoTimeout /\ NoClient
    /\ returned = {}

Returns(value) == returned' = {value} /\ UNCHANGED <<call, runVars>>

\* Run registers the histograms of the source manager and of the manager, and
\* makes the kubelet client.
Histogram == call = RegisterCall /\ Register /\ UNCHANGED <<call, returned, kubeletVars>>
Kubelet == call = KubeletCall /\ MakeClient /\ UNCHANGED <<call, returned, vars>>

InsertionSort == call.function = "insertionSort" /\ Returns(insertionSort(call.arr))
MergeSort ==
    call.function = "mergeSort" /\ Returns(mergeSort(call.arr, call.l, call.r))
Permute == call.function = "permute" /\ Returns(permute(call.arr))
Parentheses ==
    call.function = "generateParenthesis" /\ Returns(generateParenthesis(call.n))
Primes == call.function = "countPrimes" /\ Returns(countPrimes(call.n))
Reversed == call.function = "reverseBits" /\ Returns(reverseBits(call.n))
ComputationsNext ==
    \/ Histogram \/ InsertionSort \/ MergeSort \/ Permute \/ Parentheses
    \/ Primes \/ Reversed \/ Kubelet

ComputationsSpec ==
    ComputationsInit /\ [][ComputationsNext]_<<runVars, call, returned>>

-----------------------------------------------------------------------------
(* Properties.                                                             *)

Result(function) == IF call.function = function THEN returned ELSE {}

\* How often v is in the list s.
Occurrences(s, v) == Cardinality({k \in DOMAIN s : s[k] = v})
SameElements(s, t) ==
    \A v \in ToSet(s) \cup ToSet(t) : Occurrences(s, v) = Occurrences(t, v)
Ascending(s) == \A k \in 1..(Len(s) - 1) : s[k] <= s[k + 1]

\* Both sorts lose and invent nothing, whatever is repeated in the list, and
\* mergeSort keeps to the part from l to r that it was given (insertion.py lines
\* 9-15, reverse_string.py lines 7-80).
Sorted ==
    /\ \A s \in Result("insertionSort") : Ascending(s) /\ SameElements(s, call.arr)
    /\ \A s \in Result("mergeSort") :
          LET Part(t) == SubSeq(t, call.l, call.r)
          IN  /\ Ascending(Part(s)) /\ SameElements(Part(s), Part(call.arr))
              /\ Len(s) = Len(call.arr)
              /\ \A k \in DOMAIN s : k \notin call.l..call.r => s[k] = call.arr[k]

Balanced(s) ==
    /\ Occurrences(s, "(") = Occurrences(s, ")")
    /\ \A k \in DOMAIN s : LET t == SubSeq(s, 1, k)
                           IN  Occurrences(t, "(") >= Occurrences(t, ")")

\* The permutations of a list are those of its places, every one of them once,
\* and the caller gets its list back as it was, although every level of the
\* recursion takes it apart (permutation.py lines 7-21); of the parentheses every
\* balanced string comes once and no other (generateparenthesis.py lines 4-25).
Enumerated ==
    /\ \A res \in Result("permute") :
          LET places == DOMAIN call.arr
              wanted == {f \in [places -> places] : IsInjective(f)}
          IN  /\ res.left = call.arr
              /\ Len(res.perms) = Cardinality(wanted)
              /\ \A s \in ToSet(res.perms) :
                    Occurrences(res.perms, s) =
                        Cardinality({f \in wanted :
                                        [k \in places |-> call.arr[f[k]]] = s})
    /\ \A res \in Result("generateParenthesis") :
          /\ IsInjective(res)
          /\ ToSet(res) = {s \in [1..(2 * call.n) -> {"(", ")"}] : Balanced(s)}

IsPrime(p) == p > 1 /\ \A d \in 2..(p - 1) : p % d # 0
PowerOf2[k \in Nat] == IF k = 0 THEN 1 ELSE 2 * PowerOf2[k - 1]
Bit(n, k) == (n \div PowerOf2[k]) % 2

\* The primes below n are counted, squares of primes and the bound itself not
\* (count_primes.py lines 4-7); and a number is mirrored within the width or, if
\* it has more digits than that, within its own (reverse_bits.py lines 2-4).
NumbersExact ==
    /\ \A c \in Result("countPrimes") :
          c = Cardinality({p \in 2..(call.n - 1) : IsPrime(p)})
    /\ \A v \in Result("reverseBits") :
          LET w == CHOOSE w \in Width..(Width + call.n) :
                       call.n < PowerOf2[w] /\ (w = Width \/ call.n >= PowerOf2[w - 1])
          IN  /\ v < PowerOf2[w]
              /\ \A k \in 0..(w - 1) : Bit(v, k) = Bit(call.n, w - 1 - k)
=============================================================================
