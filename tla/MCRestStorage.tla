---------------------------- MODULE MCRestStorage ----------------------------
(* One request at a time, of every verb and kind, while two nodes and two  *)
(* pods come and go and two batches, neither of them complete, are stored. *)
EXTENDS RestStorage

CONSTANTS c1, n1, n2, p1, p2

MCClients == {c1}
MCNodes == {n1, n2}
MCPods == {p1, p2}

Node(n, t) == [name |-> n, time |-> t]
Pod(p, ts) == [name |-> p, times |-> ts]

MCBatches == {
    [nodes |-> <<Node(n1, 1), Node(n2, 2)>>, pods |-> <<Pod(p2, <<2, 1>>)>>],
    [nodes |-> <<Node(n2, 3)>>, pods |-> <<Pod(p2, <<4>>), Pod(p1, <<3>>)>>]}

Req(verb, kind, labels, fields) ==
    [verb |-> verb, kind |-> kind, labels |-> labels, fields |-> fields]

MCRequests == {
    Req("list", "nodes", {n1, n2}, {n1, n2}), Req("get", "nodes", {n1}, {n1}),
    Req("list", "pods", {p1, p2}, {p1, p2}), Req("list", "pods", {p1, p2}, {p2}),
    Req("get", "pods", {p1}, {p1})}
=============================================================================
