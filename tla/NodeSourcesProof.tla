--------------------------- MODULE NodeSourcesProof ---------------------------
(***************************************************************************)
(* Proofs about NodeSources, for every set of nodes, with any addresses,   *)
(* and every list of preferred address types.                              *)
(***************************************************************************)
EXTENDS NodeSources, SequenceTheorems, TLAPS

-----------------------------------------------------------------------------
(* The inductive invariant.                                                *)

\* NodeAddress has compared, in vain, every address with the types before i,
\* and the addresses before j with type i.
Passed(prio, node, i, j) ==
    \A k \in DOMAIN node.addresses :
        /\ \A t \in 1..(i - 1) : node.addresses[k].type # prio[t]
        /\ k < j => node.addresses[k].type # prio[i]

LoopInv ==
    /\ Resolving => Passed(addrTypePriority, nodes[current], typeIdx, addrIdx)
    /\ pc = "list" => /\ nodes = <<>> /\ sources = <<>> /\ errs = {}
                      /\ current = 1 /\ typeIdx = 1 /\ addrIdx = 1
    /\ \A k \in DOMAIN sources : sources[k].node \in 1..(current - 1)
    /\ errs \subseteq 1..(current - 1)

IInv == TypeOK /\ LoopInv

-----------------------------------------------------------------------------
(* Types, and where the loops are.                                         *)

AddressType == [type : Types, address : Addresses]
SourceType == [node : Nat, name : NodeNames, address : Addresses]

LEMMA NodesType ==
    ASSUME TypeOK
    PROVE  /\ nodes \in Seq(NodeType)
           /\ addrTypePriority \in Seq(Types)
           /\ sources \in Seq(SourceType)
           /\ \A n \in 1..Len(nodes) :
                 /\ nodes[n] \in NodeType
                 /\ nodes[n].addresses \in Seq(AddressType)
<1>1. nodes \in Seq(NodeType) /\ addrTypePriority \in Seq(Types)
    <2>1. Listings \subseteq Seq(NodeType) /\ Priorities \subseteq Seq(Types)
        BY ListingsAssumption, Zenon DEF ListingsAssumption
    <2>2. <<>> \in Seq(NodeType)
        OBVIOUS
    <2>3. nodes \in Listings \cup {<<>>} /\ addrTypePriority \in Priorities
        BY DEF TypeOK
    <2> QED
        BY <2>1, <2>2, <2>3, Zenon
<1>2. \A n \in 1..Len(nodes) : nodes[n] \in NodeType
    BY <1>1
<1> QED
    BY <1>1, <1>2 DEF NodeType, AddressType, SourceType, TypeOK

\* The source that Match adds.
NewSource ==
    [node |-> current, name |-> nodes[current].name,
     address |-> nodes[current].addresses[addrIdx].address]

LEMMA NewSourceType ==
    ASSUME TypeOK, Match
    PROVE  /\ current \in 1..Len(nodes)
           /\ addrIdx \in DOMAIN nodes[current].addresses
           /\ typeIdx \in DOMAIN addrTypePriority
           /\ nodes[current].addresses[addrIdx].type = addrTypePriority[typeIdx]
           /\ NewSource \in SourceType
           /\ sources' = Append(sources, NewSource)
<1>1. current \in 1..Len(nodes) /\ typeIdx \in DOMAIN addrTypePriority
    BY NodesType DEF TypeOK, Match, Resolving
<1>2. addrIdx \in 1..Len(nodes[current].addresses)
    BY <1>1, NodesType DEF TypeOK, Match
<1>3. nodes[current].addresses[addrIdx] \in AddressType
    BY <1>1, <1>2, NodesType
<1>4. nodes[current].name \in NodeNames
    BY <1>1, NodesType DEF NodeType
<1>5. NewSource \in SourceType
    <2>1. nodes[current].addresses[addrIdx].address \in Addresses
        BY <1>3 DEF AddressType
    <2> QED
        BY <1>1, <1>4, <2>1 DEF NewSource, SourceType
<1>6. addrIdx \in DOMAIN nodes[current].addresses
    BY <1>1, <1>2, NodesType
<1> QED
    BY <1>1, <1>5, <1>6 DEF Match, NewSource

LEMMA InitIsTyped == Init => TypeOK /\ LoopInv
<1> SUFFICES ASSUME Init PROVE TypeOK /\ LoopInv
    OBVIOUS
<1>1. addrTypePriority \in Seq(Types)
    BY ListingsAssumption DEF Init
<1> QED
    BY <1>1 DEF Init, TypeOK, LoopInv, Resolving

LEMMA StepKeepsTypes == TypeOK /\ LoopInv /\ [Next]_vars => TypeOK'
<1> SUFFICES ASSUME TypeOK, LoopInv, [Next]_vars PROVE TypeOK'
    OBVIOUS
<1>1. CASE ListFails \/ Return
    BY <1>1 DEF ListFails, Return, TypeOK
<1>2. CASE ListSucceeds
    <2>1. nodes' \in Seq(NodeType)
        BY <1>2, ListingsAssumption DEF ListSucceeds
    <2> QED
        BY <1>2, <2>1 DEF ListSucceeds, TypeOK, LoopInv
<1>3. CASE Match
    <2>1. sources' \in Seq(SourceType)
        <3>1. sources \in Seq(SourceType)
            BY NodesType, Zenon
        <3>2. NewSource \in SourceType /\ sources' = Append(sources, NewSource)
            BY <1>3, NewSourceType, Zenon
        <3> QED
            BY <3>1, <3>2, AppendProperties
    <2>2. /\ UNCHANGED <<pc, addrTypePriority, nodes, errs>>
          /\ current \in 1..Len(nodes) /\ current' = current + 1
          /\ typeIdx' = 1 /\ addrIdx' = 1
        BY <1>3, NewSourceType DEF Match, NextNode
    <2>3. Len(nodes) \in Nat /\ Len(addrTypePriority) \in Nat
        BY NodesType
    <2> QED
        BY <2>1, <2>2, <2>3 DEF TypeOK, SourceType
<1>4. CASE NoMatch \/ NextType
    <2>1. Len(nodes) \in Nat /\ Len(addrTypePriority) \in Nat
        BY NodesType
    <2>2. /\ UNCHANGED <<pc, addrTypePriority, nodes, current, sources, errs>>
          /\ addrIdx' \in {1, addrIdx + 1}
          /\ \/ typeIdx' = typeIdx
             \/ typeIdx <= Len(addrTypePriority) /\ typeIdx' = typeIdx + 1
        BY <1>4 DEF NoMatch, NextType
    <2> QED
        BY <2>1, <2>2 DEF TypeOK
<1>5. CASE NoAddress
    BY <1>5, NodesType DEF NoAddress, NextNode, Resolving, TypeOK
<1>6. CASE UNCHANGED vars
    BY <1>6 DEF vars, TypeOK
<1> QED
    BY <1>1, <1>2, <1>3, <1>4, <1>5, <1>6 DEF Next, Returned

LEMMA PassedAtStart ==
    ASSUME NEW node \in NodeType, NEW prio
    PROVE  Passed(prio, node, 1, 1)
<1>1. node.addresses \in Seq(AddressType)
    BY DEF NodeType, AddressType
<1>2. \A k \in DOMAIN node.addresses : k \in Nat \ {0}
    BY <1>1
<1> QED
    BY <1>2 DEF Passed

LEMMA StepKeepsLoop == TypeOK /\ LoopInv /\ [Next]_vars => LoopInv'
<1> SUFFICES ASSUME TypeOK, LoopInv, [Next]_vars PROVE LoopInv'
    OBVIOUS
<1>1. CASE ListFails
    BY <1>1 DEF ListFails, LoopInv, Resolving
<1>2. CASE ListSucceeds
    <2>1. nodes' \in Seq(NodeType)
        <3>1. nodes' \in Listings
            BY <1>2 DEF ListSucceeds
        <3> QED
            BY <3>1, ListingsAssumption, Zenon DEF ListingsAssumption
    <2>2. /\ current' = 1 /\ typeIdx' = 1 /\ addrIdx' = 1 /\ pc' = "resolve"
          /\ sources' = <<>> /\ errs' = {}
        BY <1>2 DEF ListSucceeds, LoopInv
    <2>3. Resolving' => nodes'[1] \in NodeType
        BY <2>1, <2>2 DEF Resolving
    <2>4. Resolving' => Passed(addrTypePriority, nodes[current], typeIdx, addrIdx)'
        BY <2>2, <2>3, PassedAtStart
    <2> QED
        BY <2>2, <2>4 DEF LoopInv
<1>3. ASSUME /\ pc = "resolve" /\ current \in 1..Len(nodes) /\ NextNode
             /\ UNCHANGED <<pc, addrTypePriority, nodes>>
      PROVE  Resolving' => Passed(addrTypePriority, nodes[current], typeIdx, addrIdx)'
    <2>1. /\ current' = current + 1 /\ typeIdx' = 1 /\ addrIdx' = 1
          /\ nodes' = nodes /\ addrTypePriority' = addrTypePriority
        BY <1>3 DEF NextNode
    <2>2. Resolving' => nodes[current'] \in NodeType
        BY <1>3, <2>1, NodesType DEF Resolving
    <2> QED
        BY <2>1, <2>2, PassedAtStart
<1>4. CASE Match
    <2>1. \A k \in DOMAIN sources' : sources'[k].node \in 1..current
        <3>1. /\ sources \in Seq(SourceType)
              /\ NewSource \in SourceType
              /\ sources' = Append(sources, NewSource)
              /\ NewSource.node = current /\ current \in 1..Len(nodes)
            BY <1>4, NodesType, NewSourceType DEF NewSource
        <3>2. \A k \in DOMAIN sources : sources[k].node \in 1..(current - 1)
            BY DEF LoopInv
        <3> QED
            BY <3>1, <3>2, AppendProperties
    <2>2. /\ pc' = pc /\ UNCHANGED <<addrTypePriority, nodes, errs>> /\ NextNode
          /\ current' = current + 1 /\ pc = "resolve" /\ current \in 1..Len(nodes)
        BY <1>4, NewSourceType DEF Match, NextNode, Resolving
    <2>3. errs' \subseteq 1..current
        BY <2>2 DEF LoopInv
    <2> QED
        BY <2>1, <2>2, <2>3, <1>3 DEF LoopInv
<1>5. CASE NoMatch
    <2>1. /\ UNCHANGED <<pc, addrTypePriority, nodes, current, typeIdx, sources, errs>>
          /\ addrIdx' = addrIdx + 1 /\ Resolving
          /\ nodes[current].addresses[addrIdx].type # addrTypePriority[typeIdx]
        BY <1>5 DEF NoMatch
    <2>2. Passed(addrTypePriority, nodes[current], typeIdx, addrIdx)
        BY <2>1 DEF LoopInv
    <2>3. \A k \in DOMAIN nodes[current].addresses : k \in Nat
        <3>1. current \in 1..Len(nodes)
            BY <2>1, NodesType DEF Resolving, TypeOK
        <3>2. nodes[current].addresses \in Seq(AddressType)
            BY <3>1, NodesType
        <3> QED
            BY <3>2
    <2>4. Passed(addrTypePriority, nodes[current], typeIdx, addrIdx + 1)
        BY <2>1, <2>2, <2>3 DEF Passed, TypeOK
    <2> QED
        BY <2>1, <2>4 DEF LoopInv, Resolving
<1>6. CASE NextType
    <2>1. /\ UNCHANGED <<pc, addrTypePriority, nodes, current, sources, errs>>
          /\ typeIdx' = typeIdx + 1 /\ addrIdx' = 1 /\ Resolving
          /\ addrIdx > Len(nodes[current].addresses)
        BY <1>6 DEF NextType
    <2>2. Passed(addrTypePriority, nodes[current], typeIdx, addrIdx)
        BY <2>1 DEF LoopInv
    <2>3. /\ Len(nodes[current].addresses) \in Nat
          /\ DOMAIN nodes[current].addresses = 1..Len(nodes[current].addresses)
        <3>1. current \in 1..Len(nodes)
            BY <2>1, NodesType DEF Resolving, TypeOK
        <3>2. nodes[current].addresses \in Seq(AddressType)
            BY <3>1, NodesType
        <3> QED
            BY <3>2
    <2>4. Passed(addrTypePriority, nodes[current], typeIdx + 1, 1)
        <3>1. typeIdx \in Nat \ {0} /\ addrIdx \in Nat
            BY NodesType DEF TypeOK
        <3> QED
            BY <2>1, <2>2, <2>3, <3>1 DEF Passed
    <2> QED
        BY <2>1, <2>4 DEF LoopInv, Resolving
<1>7. CASE NoAddress
    <2>1. /\ pc' = pc /\ UNCHANGED <<addrTypePriority, nodes, sources>> /\ NextNode
          /\ current' = current + 1 /\ pc = "resolve" /\ current \in 1..Len(nodes)
          /\ errs' = errs \cup {current}
        BY <1>7, NodesType DEF NoAddress, NextNode, Resolving, TypeOK
    <2>2. \A k \in DOMAIN sources : sources[k].node \in 1..current
        BY <2>1 DEF LoopInv
    <2>3. errs' \subseteq 1..current
        BY <2>1 DEF LoopInv
    <2> QED
        BY <2>1, <2>2, <2>3, <1>3 DEF LoopInv
<1>8. CASE Return
    BY <1>8 DEF Return, LoopInv, Resolving
<1>9. CASE UNCHANGED vars
    BY <1>9 DEF vars, LoopInv, Resolving
<1> QED
    BY <1>1, <1>2, <1>4, <1>5, <1>6, <1>7, <1>8, <1>9 DEF Next, Returned

\* What NodeAddress has passed it has rejected (addrs.go lines 40-56).
LEMMA LoopCorrect == Spec => []IInv
BY InitIsTyped, StepKeepsTypes, StepKeepsLoop, PTL DEF Spec, IInv

\* GetMetricSources and NodeAddress keep their types and their indices in
\* range (pkg/sources/summary/summary.go, addrs.go).
THEOREM TypeCorrect == Spec => []TypeOK
BY LoopCorrect, PTL DEF IInv

-----------------------------------------------------------------------------
(* The address a source connects to.                                       *)

\* A source always connects to the address that the priorities prefer
\* (addrs.go lines 69-71).
THEOREM BestAddressAlways == Spec => []BestAddress
<1>1. Init => BestAddress
    BY DEF Init, BestAddress
<1>2. IInv /\ BestAddress /\ [Next]_vars => BestAddress'
    <2> SUFFICES ASSUME TypeOK, LoopInv, BestAddress, [Next]_vars PROVE BestAddress'
        BY DEF IInv
    <2>1. CASE Match
        <3>1. /\ UNCHANGED <<addrTypePriority, nodes>> /\ Resolving
            BY <2>1 DEF Match
        <3>2. /\ sources \in Seq(SourceType)
              /\ NewSource \in SourceType
              /\ sources' = Append(sources, NewSource)
              /\ addrIdx \in DOMAIN nodes[current].addresses
              /\ typeIdx \in DOMAIN addrTypePriority
            BY <2>1, NodesType, NewSourceType
        <3>3. Preferred(nodes[current], typeIdx, addrIdx)
            <4>1. Passed(addrTypePriority, nodes[current], typeIdx, addrIdx)
                BY <3>1 DEF LoopInv
            <4> QED
                BY <4>1, <2>1, NewSourceType DEF Passed, Preferred
        <3>4. \A k \in DOMAIN sources' :
                 \/ k \in DOMAIN sources /\ sources'[k] = sources[k]
                 \/ sources'[k] = NewSource
            BY <3>2, AppendProperties
        <3>5. /\ NewSource.node = current /\ NewSource.name = nodes[current].name
              /\ NewSource.address = nodes[current].addresses[addrIdx].address
            BY DEF NewSource
        <3> SUFFICES ASSUME NEW k \in DOMAIN sources'
                     PROVE  LET node == nodes[sources'[k].node]
                            IN  /\ sources'[k].name = node.name
                                /\ \E i \in DOMAIN addrTypePriority, j \in DOMAIN node.addresses :
                                      /\ Preferred(node, i, j)
                                      /\ sources'[k].address = node.addresses[j].address
            BY <3>1 DEF BestAddress, Preferred
        <3>6. CASE k \in DOMAIN sources /\ sources'[k] = sources[k]
            BY <3>6 DEF BestAddress
        <3>7. CASE sources'[k] = NewSource
            BY <3>2, <3>3, <3>5, <3>7
        <3> QED
            BY <3>4, <3>6, <3>7
    <2>2. CASE ListSucceeds
        BY <2>2 DEF ListSucceeds, LoopInv, BestAddress
    <2>3. CASE ListFails \/ NoMatch \/ NextType \/ NoAddress \/ Return \/ UNCHANGED vars
        <3>1. UNCHANGED <<addrTypePriority, nodes, sources>>
            BY <2>3 DEF ListFails, NoMatch, NextType, NoAddress, Return, vars
        <3> QED
            BY <3>1 DEF BestAddress, Preferred
    <2> QED
        BY <2>1, <2>2, <2>3 DEF Next, Returned
<1> QED
    BY <1>1, <1>2, LoopCorrect, PTL DEF Spec

\* No node is skipped silently and none is scraped twice (summary.go lines
\* 265-273).
THEOREM EveryNodeAccounted == Spec => []NodesAccounted
<1>1. Init => NodesAccounted
    BY DEF Init, NodesAccounted
<1>2. IInv /\ NodesAccounted /\ [Next]_vars => NodesAccounted'
    <2> SUFFICES ASSUME TypeOK, LoopInv, NodesAccounted, [Next]_vars
                 PROVE  NodesAccounted'
        BY DEF IInv
    <2> DEFINE Accounted(n, ss, es) ==
            IF Reachable(nodes[n])
            THEN /\ \E k \in DOMAIN ss : ss[k].node = n
                 /\ \A k, l \in DOMAIN ss : ss[k].node = n /\ ss[l].node = n => k = l
                 /\ n \notin es
            ELSE /\ \A k \in DOMAIN ss : ss[k].node # n
                 /\ n \in es
    <2>1. current \in Nat \ {0} /\ \A n \in 1..(current - 1) : Accounted(n, sources, errs)
        BY DEF NodesAccounted, TypeOK
    <2>2. ASSUME UNCHANGED <<addrTypePriority, nodes>>, current' \in {current, current + 1},
                 \A n \in 1..(current' - 1) : Accounted(n, sources', errs')
          PROVE  NodesAccounted'
        BY <2>2 DEF NodesAccounted, Reachable
    <2>3. \A k \in DOMAIN sources : sources[k].node \in 1..(current - 1)
        BY DEF LoopInv
    <2>4. errs \subseteq 1..(current - 1)
        BY DEF LoopInv
    <2>5. CASE Match
        <3>1. /\ UNCHANGED <<addrTypePriority, nodes, errs>> /\ current' = current + 1
            BY <2>5 DEF Match, NextNode
        <3>2. /\ sources \in Seq(SourceType)
              /\ NewSource \in SourceType
              /\ sources' = Append(sources, NewSource)
              /\ NewSource.node = current
              /\ Reachable(nodes[current])
            BY <2>5, NodesType, NewSourceType DEF Reachable, NewSource
        <3>3. /\ Len(sources) \in Nat
              /\ DOMAIN sources = 1..Len(sources) /\ DOMAIN sources' = 1..(Len(sources) + 1)
              /\ \A k \in 1..Len(sources) : sources'[k] = sources[k]
              /\ sources'[Len(sources) + 1] = NewSource
            BY <3>2, AppendProperties
        <3> DEFINE L == Len(sources)
        <3> HIDE DEF L
        <3>4. Accounted(current, sources', errs')
            <4>1. sources'[L + 1].node = current /\ L + 1 \in DOMAIN sources'
                BY <3>2, <3>3 DEF L
            <4>2. \A k \in DOMAIN sources' : sources'[k].node = current => k = L + 1
                BY <2>1, <2>3, <3>3 DEF L
            <4>3. current \notin errs'
                BY <2>1, <2>4, <3>1
            <4> QED
                BY <3>2, <4>1, <4>2, <4>3
        <3>5. ASSUME NEW n \in 1..(current - 1)
              PROVE  Accounted(n, sources', errs')
            <4>1. Accounted(n, sources, errs) /\ errs' = errs /\ n # current
                BY <2>1, <3>1
            <4>2. \A k \in DOMAIN sources' :
                     sources'[k].node = n <=> k \in DOMAIN sources /\ sources[k].node = n
                BY <3>2, <3>3, <4>1
            <4>3. DOMAIN sources \subseteq DOMAIN sources'
                BY <3>3
            <4> QED
                BY <4>1, <4>2, <4>3
        <3>6. \A n \in 1..(current' - 1) : n = current \/ n \in 1..(current - 1)
            BY <2>1, <3>1
        <3> QED
            BY <2>2, <3>1, <3>4, <3>5, <3>6
    <2>6. CASE NoAddress
        <3>1. /\ UNCHANGED <<addrTypePriority, nodes, sources>> /\ current' = current + 1
              /\ errs' = errs \cup {current} /\ Resolving
              /\ typeIdx > Len(addrTypePriority)
            BY <2>6 DEF NoAddress, NextNode
        <3>2. ~Reachable(nodes[current])
            <4>1. Passed(addrTypePriority, nodes[current], typeIdx, addrIdx)
                BY <3>1 DEF LoopInv
            <4>2. DOMAIN addrTypePriority \subseteq 1..(typeIdx - 1)
                BY <3>1, NodesType DEF TypeOK
            <4> QED
                BY <4>1, <4>2 DEF Passed, Reachable
        <3>3. Accounted(current, sources', errs')
            BY <2>1, <2>3, <3>1, <3>2
        <3>4. ASSUME NEW n \in 1..(current - 1)
              PROVE  Accounted(n, sources', errs')
            BY <2>1, <3>1
        <3>5. \A n \in 1..(current' - 1) : n = current \/ n \in 1..(current - 1)
            BY <2>1, <3>1
        <3> QED
            BY <2>2, <3>1, <3>3, <3>4, <3>5
    <2>7. CASE ListSucceeds
        BY <2>7 DEF ListSucceeds, LoopInv, NodesAccounted
    <2>8. CASE ListFails \/ NoMatch \/ NextType \/ Return \/ UNCHANGED vars
        <3>1. UNCHANGED <<addrTypePriority, nodes, sources, errs, current>>
            BY <2>8 DEF ListFails, NoMatch, NextType, Return, vars
        <3> QED
            BY <2>1, <2>2, <3>1
    <2> QED
        BY <2>5, <2>6, <2>7, <2>8 DEF Next, Returned
<1> QED
    BY <1>1, <1>2, LoopCorrect, PTL DEF Spec
=============================================================================
