---------------------------- MODULE MCNodeSources ----------------------------
(* Up to two nodes with up to two addresses of three types, against every  *)
(* order of up to two of the types; the third type is nobody's.            *)
EXTENDS NodeSources

CONSTANTS n1, n2, hostname, internal, external, a, b

MCNames == {n1, n2}
MCTypes == {hostname, internal, external}
MCAddresses == {a, b}

Addr(t, d) == [type |-> t, address |-> d]
AddressLists ==
    {<<>>} \cup {<<Addr(t, a)>> : t \in MCTypes}
    \cup {<<Addr(t, a), Addr(u, b)>> : t \in MCTypes, u \in MCTypes}

Nodes(n) == {[name |-> n, addresses |-> l] : l \in AddressLists}
MCListings == {<<>>} \cup {<<x>> : x \in Nodes(n1)} \cup Nodes(n1) \X Nodes(n2)

MCPriorities == {<<>>, <<hostname>>, <<hostname, internal>>, <<internal, hostname>>}
=============================================================================
