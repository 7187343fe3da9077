---------------------------- MODULE SummarySource ----------------------------
(***************************************************************************)
(* summaryMetricsSource.Collect (pkg/sources/summary/summary.go) and the   *)
(* kubelet client under it (client.go): ask one kubelet for its summary,   *)
(* decode the node, then decode the pods one after the other into an array *)
(* of slots, going back to the same slot when a pod turns out incomplete.  *)
(*                                                                         *)
(* A CPU or memory section is a time and a value; a nil section is one     *)
(* with the zero time and no value, which the code treats alike.           *)
(***************************************************************************)
EXTENDS Quantity, SequencesExt

CONSTANTS
    NodeName,       \* src.node.Name
    Names,          \* names of pods
    NodeStats,      \* what a kubelet may report for its node ...
    PodStats        \* ... and the lists of pods it may report

Absent == -1        \* a nil UsageNanoCores or WorkingSetBytes
ZeroTime == 0       \* the zero time.Time

SectionType == [time : Nat, value : 0..MaxUint \cup {Absent}]
StatsType == [cpu : SectionType, mem : SectionType]
PodType == [name : Names, containers : Seq(StatsType)]

ASSUME StatsAssumption == NodeStats \subseteq StatsType /\ PodStats \subseteq Seq(PodType)

VARIABLES
    pc,         \* where Collect is
    reply,      \* how the HTTP request ended
    summary,    \* the parsed summary
    nodes,      \* res.Nodes
    slots,      \* res.Pods
    index,      \* how many pods of the summary have been decoded
    num,        \* how many slots are taken
    errs,       \* what has an error: 0 for the node, k for the k-th pod
    result      \* {} or what Collect returned, one record

vars == <<pc, reply, summary, nodes, slots, index, num, errs, result>>

-----------------------------------------------------------------------------
(* Decoding.                                                               *)

\* getScrapeTime: the earlier of the non-zero times; ZeroTime for an error.
EarlierTime(earliest, t) ==
    IF t # ZeroTime /\ (earliest = ZeroTime \/ earliest > t) THEN t ELSE earliest
ScrapeTime(s) == EarlierTime(EarlierTime(ZeroTime, s.cpu.time), s.mem.time)

\* decodeCPU and decodeMemory leave the zero Quantity where there is no value.
CpuScale == -9
MemScale == 0
ZeroQuantity == [unscaled |-> 0, scale |-> 0]
Decoded(section, scale) ==
    IF section.value = Absent
    THEN ZeroQuantity
    ELSE uint64Quantity(section.value, scale)

ZeroPoint == [time |-> ZeroTime, cpu |-> ZeroQuantity, mem |-> ZeroQuantity]

\* Without a time nothing is written.
Point(s) ==
    IF ScrapeTime(s) = ZeroTime
    THEN ZeroPoint
    ELSE [time |-> ScrapeTime(s),
          cpu |-> Decoded(s.cpu, CpuScale),
          mem |-> Decoded(s.mem, MemScale)]

\* Mistaken: stats without a time are not an error.
MissingTimeIsNoError(s) == s.cpu.value = Absent \/ s.mem.value = Absent

HasErrors(s) ==
    ScrapeTime(s) = ZeroTime \/ s.cpu.value = Absent \/ s.mem.value = Absent

\* decodeNodeStats: the name is written with the point, or not at all.
NodePoint(s) ==
    [name |-> IF ScrapeTime(s) = ZeroTime THEN "" ELSE NodeName, point |-> Point(s)]

\* decodePodStats: the slot is overwritten, errors or not.
PodPoint(p) ==
    [name |-> p.name,
     containers |-> [k \in DOMAIN p.containers |-> Point(p.containers[k])]]
PodHasErrors(p) == \E k \in DOMAIN p.containers : HasErrors(p.containers[k])

EmptySlot == [name |-> "", containers |-> <<>>]

\* makeRequestAndGetValue: no answer, a cut body, a status that is not OK
\* (404 has an error of its own), or a body that does not parse.
Replies == {"do failed", "read failed", "not found", "not ok", "no json", "summary"}
RequestErr(r) == r # "summary"

-----------------------------------------------------------------------------

Init ==
    /\ pc = "request"
    /\ reply = "summary"
    /\ summary \in [node : NodeStats, pods : PodStats]
    /\ nodes = <<>>
    /\ slots = <<>>
    /\ index = 0
    /\ num = 0
    /\ errs = {}
    /\ result = {}

\* GetSummary fails: no batch at all.
RequestFails ==
    /\ pc = "request"
    /\ \E r \in Replies : RequestErr(r) /\ reply' = r
    /\ result' = {[batch |-> FALSE, err |-> TRUE, nodes |-> <<>>, pods |-> <<>>]}
    /\ pc' = "returned"
    /\ UNCHANGED <<summary, nodes, slots, index, num, errs>>

\* Mistaken: the node's point is discarded, errors or none.
DiscardsNode ==
    /\ pc = "request"
    /\ reply' \in Replies /\ ~RequestErr(reply')
    /\ nodes' = <<>>
    /\ errs' = IF HasErrors(summary.node) THEN {0} ELSE {}
    /\ slots' = [k \in DOMAIN summary.pods |-> EmptySlot]
    /\ pc' = "pods"
    /\ UNCHANGED <<summary, index, num, result>>

\* GetSummary succeeds: one slot for the node and one for every pod.  The node
\* is decoded; the slice that is to discard it keeps its one element.
RequestSucceeds ==
    /\ pc = "request"
    /\ reply' \in Replies /\ ~RequestErr(reply')
    /\ nodes' = SubSeq(<<NodePoint(summary.node)>>, 1, 1)
    /\ errs' = IF HasErrors(summary.node) THEN {0} ELSE {}
    /\ slots' = [k \in DOMAIN summary.pods |-> EmptySlot]
    /\ pc' = "pods"
    /\ UNCHANGED <<summary, index, num, result>>

\* Mistaken: the slot of an incomplete pod is not given back, or pods are
\* appended to an array that already has a slot for each.
KeepsIncompletePod ==
    /\ pc = "pods"
    /\ index < Len(summary.pods)
    /\ LET pod == summary.pods[index + 1]
       IN  /\ slots' = [slots EXCEPT ![num + 1] = PodPoint(pod)]
           /\ errs' = IF PodHasErrors(pod) THEN errs \cup {index + 1} ELSE errs
    /\ num' = num + 1
    /\ index' = index + 1
    /\ UNCHANGED <<pc, reply, summary, nodes, result>>
AppendsToFullArray ==
    /\ pc = "pods"
    /\ index < Len(summary.pods)
    /\ slots' = Append(slots, PodPoint(summary.pods[index + 1]))
    /\ num' = num + 1
    /\ index' = index + 1
    /\ UNCHANGED <<pc, reply, summary, nodes, errs, result>>

\* One iteration of the loop over the pods.
DecodePod ==
    /\ pc = "pods"
    /\ index < Len(summary.pods)
    /\ LET pod == summary.pods[index + 1]
       IN  /\ slots' = [slots EXCEPT ![num + 1] = PodPoint(pod)]
           /\ IF PodHasErrors(pod)
              THEN errs' = errs \cup {index + 1} /\ num' = num
              ELSE num' = num + 1 /\ errs' = errs
    /\ index' = index + 1
    /\ UNCHANGED <<pc, reply, summary, nodes, result>>

Return ==
    /\ pc = "pods"
    /\ index = Len(summary.pods)
    /\ result' = {[batch |-> TRUE, err |-> errs # {}, nodes |-> nodes,
                   pods |-> SubSeq(slots, 1, num)]}
    /\ pc' = "returned"
    /\ UNCHANGED <<reply, summary, nodes, slots, index, num, errs>>

Returned == pc = "returned" /\ UNCHANGED vars

Next == RequestFails \/ RequestSucceeds \/ DecodePod \/ Return \/ Returned

Spec == Init /\ [][Next]_vars

-----------------------------------------------------------------------------
(* Properties.                                                             *)

TypeOK ==
    /\ pc \in {"request", "pods", "returned"}
    /\ reply \in Replies
    /\ summary \in [node : NodeStats, pods : PodStats]
    /\ index \in 0..Len(summary.pods)
    /\ num \in 0..index
    /\ errs \subseteq 0..index
    /\ Len(nodes) <= 1
    /\ Len(slots) <= Len(summary.pods)

\* What a reader of the summary would call measured: both values, and a time
\* on at least one of them.
Measured(s) ==
    /\ s.cpu.value # Absent
    /\ s.mem.value # Absent
    /\ \E section \in {s.cpu, s.mem} : section.time # ZeroTime
MeasuredPod(p) == \A k \in DOMAIN p.containers : Measured(p.containers[k])

\* The point has both readings, and is dated by the older of them.
Tells(point, s) ==
    /\ \E section \in {s.cpu, s.mem} : point.time = section.time
    /\ \A section \in {s.cpu, s.mem} : section.time # ZeroTime => point.time <= section.time
    /\ point.time # ZeroTime
    /\ Faithful(s.cpu.value, CpuScale, point.cpu)
    /\ Faithful(s.mem.value, MemScale, point.mem)
TellsPod(slot, p) ==
    /\ slot.name = p.name
    /\ DOMAIN slot.containers = DOMAIN p.containers
    /\ \A k \in DOMAIN p.containers : Tells(slot.containers[k], p.containers[k])

\* While the loop runs, the taken slots hold exactly the measured pods among
\* those decoded so far, in the kubelet's order and with nothing left over from
\* a pod that was given up: a missing pod is never reported as a zero one, nor
\* a large reading as a negative one (lines 118-133, 160-193, 238-248).
SlotsExact ==
    pc # "request" /\ reply = "summary" =>
        \E at \in [1..num -> 1..index] :
            /\ \A i, j \in 1..num : i < j => at[i] < at[j]
            /\ \A k \in 1..index :
                  MeasuredPod(summary.pods[k]) <=> \E i \in 1..num : at[i] = k
            /\ \A i \in 1..num : TellsPod(slots[i], summary.pods[at[i]])

\* From the moment its summary has arrived, a node that was measured has one
\* point, under the name it is known by and with what the kubelet measured, and
\* that is what Collect returns, whichever pods of the summary are incomplete
\* (lines 105-116, 135, 138-158, 238-248).
NodeExact ==
    pc # "request" /\ reply = "summary" /\ Measured(summary.node) =>
        /\ Len(nodes) = 1
        /\ nodes[1].name = NodeName
        /\ Tells(nodes[1].point, summary.node)
        /\ \A r \in result : r.nodes = nodes

\* The error tells the caller whether anything is missing: it is nil exactly
\* when the summary arrived and the node and every pod in it was measured.
ErrTellsAll ==
    \A r \in result :
        ~r.err <=> /\ reply = "summary"
                   /\ Measured(summary.node)
                   /\ Len(r.pods) = Len(summary.pods)

\* As documented at lines 113-114: with errors in the node metrics, "discard the
\* data point so that we don't incorrectly report metric values as zero".
NodeDiscarded ==
    \A r \in result : ~Measured(summary.node) => r.nodes = <<>>
=============================================================================
