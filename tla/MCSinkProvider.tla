--------------------------- MODULE MCSinkProvider ---------------------------
(* Two requests against the store while batches with missing, duplicate    *)
(* and container-less points come in.                                      *)
EXTENDS SinkProvider

CONSTANTS r1, r2, n1, n2, p1, p2

MCReaders == {r1, r2}
MCNames == {n1, n2, p1, p2}

Node(n, t) == [name |-> n, time |-> t]
Pod(p, ts) == [name |-> p, times |-> ts]

\* A full batch, a later one with a duplicate of each kind, and an empty one
\* (every kubelet down).
MCBatches == {
    [nodes |-> <<Node(n1, 1), Node(n2, 1)>>,
     pods |-> <<Pod(p1, <<1, 2>>), Pod(p2, <<>>)>>],
    [nodes |-> <<Node(n2, 3), Node(n1, 3), Node(n2, 4)>>,
     pods |-> <<Pod(p1, <<4, 3>>), Pod(p1, <<5>>)>>],
    [nodes |-> <<>>, pods |-> <<>>]}

MCRequests == {
    [kind |-> "nodes", names |-> <<n1, n2>>],
    [kind |-> "pods", names |-> <<p1, p2>>]}
=============================================================================
