------------------------------- MODULE Buckets -------------------------------
(***************************************************************************)
(* BucketsForScrapeDuration (pkg/metrics/util.go): the histogram buckets   *)
(* for a timeout, made from the default ones of the Prometheus client by   *)
(* adding a few around it.  The client panics at start-up when it is given *)
(* buckets that do not strictly increase.                                  *)
(*                                                                         *)
(* Times are whole numbers of some unit and timeouts are even, so that the *)
(* half of a timeout that a new bucket may need is whole as well.          *)
(***************************************************************************)
EXTENDS Integers, SequencesExt

CONSTANTS
    DefBuckets,     \* prometheus.DefBuckets
    Timeouts        \* the durations the flags can lead to

Increasing(b) == \A i \in 1..(Len(b) - 1) : b[i] < b[i + 1]

ASSUME BucketsAssumption ==
    /\ DefBuckets \in Seq(Nat \ {0}) /\ DefBuckets # <<>> /\ Increasing(DefBuckets)
    /\ \A k \in DOMAIN DefBuckets : DefBuckets[k] % 2 = 0
    /\ \A t \in Timeouts : t \in Nat /\ t % 2 = 0

MaxBucket == DefBuckets[Len(DefBuckets)]

\* The range loop breaks at the first bucket beyond the timeout.
FirstBeyond(timeout) ==
    CHOOSE i \in DOMAIN DefBuckets :
        /\ DefBuckets[i] > timeout
        /\ \A j \in 1..(i - 1) : DefBuckets[j] <= timeout

\* Mistaken: only the bucket above the timeout is looked at.
CloseBelowIgnored(timeout) ==
    DefBuckets[FirstBeyond(timeout)] - timeout < DefBuckets[1]

\* Is the timeout closer to a bucket than the smallest bucket is to zero?
CloseToBucket(timeout) ==
    LET i == FirstBeyond(timeout)
    IN  \/ DefBuckets[i] - timeout < DefBuckets[1]
        \/ i > 1 /\ timeout - DefBuckets[i - 1] < DefBuckets[1]

\* Mistaken: the tail is not copied before the append writes into its first
\* place.
InsertedUncopied(timeout) ==
    LET i == FirstBeyond(timeout)
    IN  SubSeq(DefBuckets, 1, i - 1) \o <<timeout, timeout>>
        \o SubSeq(DefBuckets, i + 1, Len(DefBuckets))

\* The timeout goes between the buckets around it.
Inserted(timeout) == InsertAt(DefBuckets, FirstBeyond(timeout), timeout)

\* Mistaken: timeouts beyond the default buckets get nothing but multiples.
Multiples(timeout) ==
    DefBuckets \o <<(timeout * 3) \div 2, timeout * 2>>

\* A timeout beyond them all gets a bucket half way to it (from the last default
\* one, as line 35 has it, and not from the timeout, as the comment at line 34
\* does), one of its own and two more.
Extended(timeout) ==
    DefBuckets \o <<MaxBucket + (timeout - MaxBucket) \div 2, timeout,
                    (timeout * 3) \div 2, timeout * 2>>

BucketsForScrapeDuration(timeout) ==
    IF timeout > MaxBucket
    THEN Extended(timeout)
    ELSE IF timeout < MaxBucket /\ ~CloseToBucket(timeout)
         THEN Inserted(timeout)
         ELSE DefBuckets

VARIABLES
    scrapeTimeout,  \* the argument
    buckets         \* <<>> or the result

vars == <<scrapeTimeout, buckets>>

Init == scrapeTimeout \in Timeouts /\ buckets = <<>>

Register ==
    /\ buckets' = BucketsForScrapeDuration(scrapeTimeout)
    /\ UNCHANGED scrapeTimeout

Next == Register

Spec == Init /\ [][Next]_vars

-----------------------------------------------------------------------------
(* Properties.                                                             *)

\* The Prometheus client accepts the buckets, and every default one is kept.
Acceptable ==
    buckets # <<>> => Increasing(buckets) /\ ToSet(DefBuckets) \subseteq ToSet(buckets)

\* The timeout can be told apart: durations on either side of it fall into
\* different buckets, but for less than the width of the smallest (lines 26-29).
Pinpointed ==
    buckets # <<>> =>
        \E b \in ToSet(buckets) : {b - scrapeTimeout, scrapeTimeout - b}
                                      \subseteq -DefBuckets[1]..DefBuckets[1]
=============================================================================
