---------------------------- MODULE MCComputations ----------------------------
(* The buckets of the Prometheus client, in half milliseconds, and every   *)
(* timeout of a millisecond's precision up to eleven seconds, then the 60s *)
(* of the default resolution and the 54s of its scrape timeout; lists of   *)
(* up to five of three values; small numbers; all kubelet flags.           *)
EXTENDS Computations

MCDefBuckets == <<10, 20, 50, 100, 200, 500, 1000, 2000, 5000, 10000, 20000>>
MCTimeouts == {2 * ms : ms \in (0..11000) \cup {54000, 60000}}

MCLists == UNION {[1..k -> 1..3] : k \in 1..4}
MCArrays == {<<>>} \cup MCLists \cup [1..5 -> 1..3]
MCSizes == 0..4
MCBounds == 0..130
MCNumbers == 0..150

MCAuthorities == {NoCA, "cluster", "kubelet"}
MCTLS == {tls \in [caData : {NoCA, "cluster"}, caFile : {NoCA, "cluster"},
                   insecure : BOOLEAN, cert : BOOLEAN] : ~Contradictory(tls)}
MCConfigs == [token : BOOLEAN, tls : MCTLS]
MCFlags == [caFile : {NoCA, "kubelet"}, insecureTLS : BOOLEAN,
            completelyInsecure : BOOLEAN]
=============================================================================
