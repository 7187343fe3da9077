----------------------------- MODULE NodeSources -----------------------------
(***************************************************************************)
(* summaryProvider.GetMetricSources (pkg/sources/summary/summary.go) and   *)
(* prioNodeAddrResolver.NodeAddress (addrs.go): one source for every node  *)
(* of the informer's cache, at the address the priorities prefer.  The two *)
(* nested loops of NodeAddress are walked one comparison at a time.        *)
(***************************************************************************)
EXTENDS Integers, Sequences

CONSTANTS
    NodeNames,
    Types,          \* node address types
    Addresses,      \* what a node may be reached at
    Listings,       \* what the lister may return: sequences of nodes
    Priorities      \* what --kubelet-preferred-address-types may be set to

NodeType == [name : NodeNames, addresses : Seq([type : Types, address : Addresses])]

ASSUME ListingsAssumption ==
    /\ Listings \subseteq Seq(NodeType)
    /\ Priorities \subseteq Seq(Types)

VARIABLES
    pc,                 \* where GetMetricSources is
    addrTypePriority,   \* the resolver's
    nodes,              \* the nodes the lister returned
    current,            \* index of the node in the loop
    typeIdx,            \* indices of NodeAddress's two loops
    addrIdx,
    sources,            \* the sources so far: a node and where to connect
    errs,               \* the indices of the nodes an error was appended for
    result              \* {} or what was returned

vars == <<pc, addrTypePriority, nodes, current, typeIdx, addrIdx, sources, errs,
          result>>

Init ==
    /\ pc = "list"
    /\ addrTypePriority \in Priorities
    /\ nodes = <<>>
    /\ current = 1
    /\ typeIdx = 1
    /\ addrIdx = 1
    /\ sources = <<>>
    /\ errs = {}
    /\ result = {}

ListFails ==
    /\ pc = "list"
    /\ result' = {[sources |-> <<>>, err |-> TRUE]}
    /\ pc' = "returned"
    /\ UNCHANGED <<addrTypePriority, nodes, current, typeIdx, addrIdx, sources, errs>>

ListSucceeds ==
    /\ pc = "list"
    /\ nodes' \in Listings
    /\ pc' = "resolve"
    /\ UNCHANGED <<addrTypePriority, current, typeIdx, addrIdx, sources, errs, result>>

-----------------------------------------------------------------------------
(* The loop over the nodes, around NodeAddress.                            *)

Resolving == pc = "resolve" /\ current <= Len(nodes)

NextNode ==
    /\ current' = current + 1
    /\ typeIdx' = 1
    /\ addrIdx' = 1

\* The address is of the wanted type: it is returned, and the node gets a source.
Match ==
    /\ Resolving
    /\ typeIdx <= Len(addrTypePriority)
    /\ addrIdx <= Len(nodes[current].addresses)
    /\ LET node == nodes[current]
           addr == node.addresses[addrIdx]
       IN  /\ addr.type = addrTypePriority[typeIdx]
           /\ sources' = Append(sources,
                                [node |-> current, name |-> node.name,
                                 address |-> addr.address])
    /\ NextNode
    /\ UNCHANGED <<pc, addrTypePriority, nodes, errs, result>>

\* Mistaken: the loops are nested the other way round.
TypesInside ==
    /\ Resolving
    /\ typeIdx <= Len(addrTypePriority)
    /\ addrIdx <= Len(nodes[current].addresses)
    /\ nodes[current].addresses[addrIdx].type # addrTypePriority[typeIdx]
    /\ IF typeIdx < Len(addrTypePriority)
       THEN typeIdx' = typeIdx + 1 /\ UNCHANGED addrIdx
       ELSE typeIdx' = 1 /\ addrIdx' = addrIdx + 1
    /\ UNCHANGED <<pc, addrTypePriority, nodes, current, sources, errs, result>>

\* It is not: on to the next address.
NoMatch ==
    /\ Resolving
    /\ typeIdx <= Len(addrTypePriority)
    /\ addrIdx <= Len(nodes[current].addresses)
    /\ nodes[current].addresses[addrIdx].type # addrTypePriority[typeIdx]
    /\ addrIdx' = addrIdx + 1
    /\ UNCHANGED <<pc, addrTypePriority, nodes, current, typeIdx, sources, errs, result>>

\* Mistaken: the inner loop is not started again for the next type.
KeepsAddressIndex ==
    /\ Resolving
    /\ typeIdx <= Len(addrTypePriority)
    /\ addrIdx > Len(nodes[current].addresses)
    /\ typeIdx' = typeIdx + 1
    /\ UNCHANGED <<pc, addrTypePriority, nodes, current, addrIdx, sources, errs,
                   result>>

\* No address is of this type: on to the next type.
NextType ==
    /\ Resolving
    /\ typeIdx <= Len(addrTypePriority)
    /\ addrIdx > Len(nodes[current].addresses)
    /\ typeIdx' = typeIdx + 1
    /\ addrIdx' = 1
    /\ UNCHANGED <<pc, addrTypePriority, nodes, current, sources, errs, result>>

\* Mistaken: the loop goes on to the next node without an error, or with one and
\* yet with a source, for the empty NodeInfo that came with the error.
SkipsSilently ==
    /\ Resolving
    /\ typeIdx > Len(addrTypePriority)
    /\ NextNode
    /\ UNCHANGED <<pc, addrTypePriority, nodes, sources, errs, result>>
MissesContinue ==
    /\ Resolving
    /\ typeIdx > Len(addrTypePriority)
    /\ errs' = errs \cup {current}
    /\ sources' = Append(sources, [node |-> current, name |-> "", address |-> ""])
    /\ NextNode
    /\ UNCHANGED <<pc, addrTypePriority, nodes, result>>

\* No type is left: the node is left out with an error.
NoAddress ==
    /\ Resolving
    /\ typeIdx > Len(addrTypePriority)
    /\ errs' = errs \cup {current}
    /\ NextNode
    /\ UNCHANGED <<pc, addrTypePriority, nodes, sources, result>>

Return ==
    /\ pc = "resolve"
    /\ current > Len(nodes)
    /\ result' = {[sources |-> sources, err |-> errs # {}]}
    /\ pc' = "returned"
    /\ UNCHANGED <<addrTypePriority, nodes, current, typeIdx, addrIdx, sources, errs>>

Returned == pc = "returned" /\ UNCHANGED vars

Next ==
    \/ ListFails \/ ListSucceeds
    \/ Match \/ NoMatch \/ NextType \/ NoAddress
    \/ Return \/ Returned

Spec == Init /\ [][Next]_vars

-----------------------------------------------------------------------------
(* Properties.                                                             *)

TypeOK ==
    /\ pc \in {"list", "resolve", "returned"}
    /\ addrTypePriority \in Priorities
    /\ nodes \in Listings \cup {<<>>}
    /\ current \in 1..(Len(nodes) + 1)
    /\ typeIdx \in 1..(Len(addrTypePriority) + 1)
    /\ addrIdx \in Nat \ {0}
    /\ sources \in Seq([node : Nat, name : NodeNames, address : Addresses])
    /\ errs \subseteq 1..Len(nodes)

\* Is address j of the node of type i, with nothing before it to be preferred?
Preferred(node, i, j) ==
    /\ node.addresses[j].type = addrTypePriority[i]
    /\ \A k \in DOMAIN node.addresses :
          /\ \A t \in 1..(i - 1) : node.addresses[k].type # addrTypePriority[t]
          /\ k < j => node.addresses[k].type # addrTypePriority[i]

\* A source always connects to the address that the priorities prefer, and
\* among those of the same type to the first (addrs.go lines 69-71).
BestAddress ==
    \A k \in DOMAIN sources :
        LET node == nodes[sources[k].node]
        IN  /\ sources[k].name = node.name
            /\ \E i \in DOMAIN addrTypePriority, j \in DOMAIN node.addresses :
                  /\ Preferred(node, i, j)
                  /\ sources[k].address = node.addresses[j].address

\* No node is skipped silently and none is scraped twice: each has one source,
\* or it has an error and no address of any wanted type (lines 265-273).
Reachable(node) ==
    \E i \in DOMAIN addrTypePriority, j \in DOMAIN node.addresses :
        node.addresses[j].type = addrTypePriority[i]
NodesAccounted ==
    \A n \in 1..(current - 1) :
        IF Reachable(nodes[n])
        THEN /\ \E k \in DOMAIN sources : sources[k].node = n
             /\ \A k, l \in DOMAIN sources :
                   sources[k].node = n /\ sources[l].node = n => k = l
             /\ n \notin errs
        ELSE /\ \A k \in DOMAIN sources : sources[k].node # n
             /\ n \in errs
=============================================================================
