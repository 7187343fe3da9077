--------------------------- MODULE MCMetricsServer ---------------------------
(* Two nodes, and a pod that may move from one to the other or be created  *)
(* again; of the nodes, one may come and go, fail and be short of stats.    *)
EXTENDS MetricsServer

CONSTANTS n1, n2, p1

MCNodes == {n1, n2}
MCPods == {p1}

Req(verb, kind, names) ==
    [verb |-> verb, kind |-> kind, labels |-> names, fields |-> names]
MCRequests == {Req("list", "pods", {p1}), Req("get", "nodes", {n1})}
MCFickle == {n1}
MCMaxBorn == (n1 :> 2) @@ (n2 :> 1) @@ (p1 :> 2)
=============================================================================
