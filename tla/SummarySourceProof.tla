-------------------------- MODULE SummarySourceProof --------------------------
(***************************************************************************)
(* Proofs about SummarySource, for every summary a kubelet may send and    *)
(* integers of every width.                                                *)
(***************************************************************************)
EXTENDS SummarySource, SequenceTheorems, TLAPS

-----------------------------------------------------------------------------
(* Decoding.                                                               *)

\* A tenth of an unsigned value always fits the signed type: the conversion of
\* every reading is faithful.
LEMMA ConversionIsFaithful ==
    ASSUME NEW val \in 0..MaxUint, NEW scale \in Int
    PROVE  Faithful(val, scale, uint64Quantity(val, scale))
<1>1. CASE val <= MaxInt
    BY <1>1, MaxIntAssumption DEF MaxUint, ToInt, uint64Quantity, Faithful
<1>2. CASE val > MaxInt
    <2>1. /\ val \div 10 \in 0..MaxInt
          /\ 10 * (val \div 10) <= val
          /\ val - 10 * (val \div 10) < 10
        BY MaxIntAssumption DEF MaxUint
    <2>2. uint64Quantity(val, scale) = [unscaled |-> val \div 10, scale |-> 1 + scale]
        BY <1>2, <2>1, MaxIntAssumption DEF MaxUint, ToInt, uint64Quantity
    <2> QED
        BY <1>2, <2>1, <2>2, MaxIntAssumption DEF Faithful
<1> QED
    BY <1>1, <1>2, MaxIntAssumption DEF MaxUint

\* Stats are decoded with an error, or as they were measured.
LEMMA DecodedRight ==
    ASSUME NEW s \in StatsType
    PROVE  /\ HasErrors(s) <=> ~Measured(s)
           /\ Measured(s) => Tells(Point(s), s)
<1>1. /\ s.cpu.time \in Nat /\ s.mem.time \in Nat
      /\ s.cpu.value \in 0..MaxUint \cup {Absent}
      /\ s.mem.value \in 0..MaxUint \cup {Absent}
    BY DEF StatsType, SectionType
<1>2. ScrapeTime(s) = ZeroTime <=> s.cpu.time = ZeroTime /\ s.mem.time = ZeroTime
    BY <1>1 DEF ScrapeTime, EarlierTime, ZeroTime
<1>3. ScrapeTime(s) # ZeroTime =>
        /\ ScrapeTime(s) = s.cpu.time \/ ScrapeTime(s) = s.mem.time
        /\ s.cpu.time # ZeroTime => ScrapeTime(s) <= s.cpu.time
        /\ s.mem.time # ZeroTime => ScrapeTime(s) <= s.mem.time
    BY <1>1 DEF ScrapeTime, EarlierTime, ZeroTime
<1>4. HasErrors(s) <=> ~Measured(s)
    BY <1>2 DEF HasErrors, Measured
<1>5. ASSUME Measured(s)
      PROVE  Tells(Point(s), s)
    <2>1. /\ ScrapeTime(s) # ZeroTime
          /\ s.cpu.value \in 0..MaxUint /\ s.cpu.value # Absent
          /\ s.mem.value \in 0..MaxUint /\ s.mem.value # Absent
        BY <1>1, <1>2, <1>5 DEF Measured
    <2>2. /\ CpuScale \in Int /\ MemScale \in Int
        BY DEF CpuScale, MemScale
    <2>3. /\ Faithful(s.cpu.value, CpuScale, uint64Quantity(s.cpu.value, CpuScale))
          /\ Faithful(s.mem.value, MemScale, uint64Quantity(s.mem.value, MemScale))
        BY <2>1, <2>2, ConversionIsFaithful
    <2>4. /\ Point(s).time = ScrapeTime(s)
          /\ Point(s).cpu = uint64Quantity(s.cpu.value, CpuScale)
          /\ Point(s).mem = uint64Quantity(s.mem.value, MemScale)
        BY <2>1 DEF Point, Decoded
    <2> QED
        BY <1>3, <2>1, <2>3, <2>4 DEF Tells
<1> QED
    BY <1>4, <1>5

LEMMA PodDecodedRight ==
    ASSUME NEW p \in PodType
    PROVE  /\ PodHasErrors(p) <=> ~MeasuredPod(p)
           /\ MeasuredPod(p) => TellsPod(PodPoint(p), p)
<1>1. \A k \in DOMAIN p.containers : p.containers[k] \in StatsType
    BY DEF PodType
<1>2. PodHasErrors(p) <=> ~MeasuredPod(p)
    BY <1>1, DecodedRight DEF PodHasErrors, MeasuredPod
<1>3. ASSUME MeasuredPod(p)
      PROVE  TellsPod(PodPoint(p), p)
    <2>1. \A k \in DOMAIN p.containers : Tells(Point(p.containers[k]), p.containers[k])
        BY <1>1, <1>3, DecodedRight DEF MeasuredPod
    <2> QED
        BY <2>1 DEF TellsPod, PodPoint
<1> QED
    BY <1>2, <1>3

-----------------------------------------------------------------------------
(* The loop over the pods.                                                 *)

\* The places of the pods that have a slot.
Placed(at) ==
    /\ at \in [1..num -> 1..index]
    /\ \A i, j \in 1..num : i < j => at[i] < at[j]
    /\ \A k \in 1..index :
          MeasuredPod(summary.pods[k]) <=> \E i \in 1..num : at[i] = k
    /\ \A i \in 1..num : TellsPod(slots[i], summary.pods[at[i]])

LoopInv ==
    /\ pc \in {"request", "pods", "returned"}
    /\ summary \in [node : NodeStats, pods : PodStats]
    /\ index \in 0..Len(summary.pods)
    /\ num \in 0..index
    /\ pc = "request" => index = 0 /\ num = 0 /\ nodes = <<>>
    /\ pc # "returned" => result = {}
    /\ pc # "request" /\ reply = "summary" =>
          /\ DOMAIN slots = 1..Len(summary.pods)
          /\ \E at : Placed(at)
    /\ NodeExact

LEMMA SummaryType ==
    ASSUME LoopInv
    PROVE  /\ summary.node \in StatsType
           /\ summary.pods \in Seq(PodType)
           /\ Len(summary.pods) \in Nat
           /\ DOMAIN summary.pods = 1..Len(summary.pods)
           /\ \A k \in 1..Len(summary.pods) : summary.pods[k] \in PodType
<1>1. summary.node \in NodeStats /\ summary.pods \in PodStats
    BY DEF LoopInv
<1>2. summary.node \in StatsType /\ summary.pods \in Seq(PodType)
    BY <1>1, StatsAssumption
<1> QED
    BY <1>2

LEMMA OnePodMore ==
    ASSUME LoopInv, DecodePod, reply = "summary", NEW at, Placed(at)
    PROVE  \E bt : Placed(bt)'
<1> DEFINE pod == summary.pods[index + 1]
<1>1. /\ index \in Nat /\ num \in 0..index /\ index + 1 \in 1..Len(summary.pods)
      /\ pod \in PodType
      /\ index' = index + 1 /\ summary' = summary
      /\ slots' = [slots EXCEPT ![num + 1] = PodPoint(pod)]
      /\ DOMAIN slots = 1..Len(summary.pods)
    BY SummaryType DEF LoopInv, DecodePod
<1>2. PodHasErrors(pod) => num' = num
    BY DEF DecodePod
<1>3. ~PodHasErrors(pod) => num' = num + 1
    BY DEF DecodePod
<1> HIDE DEF pod
<1>4. \A i \in 1..num : slots'[i] = slots[i] /\ at[i] \in 1..index
    <2>1. at \in [1..num -> 1..index]
        BY DEF Placed
    <2>2. \A i \in 1..num : i # num + 1 /\ i \in 1..Len(summary.pods)
        BY <1>1
    <2>3. \A i \in 1..num : slots'[i] = slots[i]
        BY <1>1, <2>2, Zenon
    <2> QED
        BY <2>1, <2>3
<1>5. CASE PodHasErrors(pod)
    <2>1. ~MeasuredPod(pod)
        BY <1>1, <1>5, PodDecodedRight
    <2>2. at \in [1..num' -> 1..index']
        BY <1>1, <1>2, <1>5 DEF Placed
    <2>3. \A k \in 1..index' :
            MeasuredPod(summary.pods[k]) <=> \E i \in 1..num' : at[i] = k
        <3> SUFFICES ASSUME NEW k \in 1..index'
                     PROVE  MeasuredPod(summary.pods[k]) <=> \E i \in 1..num : at[i] = k
            BY <1>2, <1>5
        <3>1. CASE k \in 1..index
            BY <3>1 DEF Placed
        <3>2. CASE k = index + 1
            BY <1>1, <1>4, <2>1, <3>2 DEF pod
        <3> QED
            BY <1>1, <3>1, <3>2
    <2> QED
        BY <1>1, <1>2, <1>4, <1>5, <2>2, <2>3 DEF Placed
<1>6. CASE ~PodHasErrors(pod)
    <2> DEFINE extended == [i \in 1..(num + 1) |-> IF i = num + 1 THEN index + 1 ELSE at[i]]
    <2>1. MeasuredPod(pod) /\ TellsPod(PodPoint(pod), pod)
        BY <1>1, <1>6, PodDecodedRight
    <2>0. /\ extended \in [1..(num + 1) -> 1..(index + 1)]
          /\ extended[num + 1] = index + 1
          /\ \A i \in 1..num : extended[i] = at[i]
        BY <1>1, <1>4
    <2>2. PICK bt : /\ bt \in [1..(num + 1) -> 1..(index + 1)]
                    /\ bt[num + 1] = index + 1
                    /\ \A i \in 1..num : bt[i] = at[i]
        BY <2>0
    <2> HIDE DEF extended
    <2>3. \A i, j \in 1..(num + 1) : i < j => bt[i] < bt[j]
        <3> SUFFICES ASSUME NEW i \in 1..(num + 1), NEW j \in 1..(num + 1), i < j
                     PROVE  bt[i] < bt[j]
            OBVIOUS
        <3>1. i \in 1..num
            BY <1>1
        <3>2. CASE j = num + 1
            BY <1>1, <1>4, <2>2, <3>1, <3>2
        <3>3. CASE j \in 1..num
            BY <2>2, <3>1, <3>3 DEF Placed
        <3> QED
            BY <1>1, <3>2, <3>3
    <2>4. ASSUME NEW k \in 1..(index + 1)
          PROVE  MeasuredPod(summary.pods[k]) <=> \E i \in 1..(num + 1) : bt[i] = k
        <3>1. CASE k \in 1..index
            <4>1. MeasuredPod(summary.pods[k]) <=> \E i \in 1..num : at[i] = k
                BY <3>1 DEF Placed
            <4>2. (\E i \in 1..num : at[i] = k) <=> \E i \in 1..(num + 1) : bt[i] = k
                BY <1>1, <2>2, <3>1
            <4> QED
                BY <4>1, <4>2
        <3>2. CASE k = index + 1
            <4>1. num + 1 \in 1..(num + 1)
                BY <1>1
            <4> QED
                BY <2>1, <2>2, <3>2, <4>1 DEF pod
        <3> QED
            BY <1>1, <3>1, <3>2
    <2>5. ASSUME NEW i \in 1..(num + 1)
          PROVE  TellsPod(slots'[i], summary.pods[bt[i]])
        <3>1. CASE i \in 1..num
            BY <1>4, <2>2, <3>1 DEF Placed
        <3>2. CASE i = num + 1
            <4>1. slots'[i] = PodPoint(pod) /\ summary.pods[bt[i]] = pod
                BY <1>1, <2>2, <3>2 DEF pod
            <4> QED
                BY <4>1, <2>1
        <3> QED
            BY <1>1, <3>1, <3>2
    <2>6. Placed(bt)'
        BY <1>1, <1>3, <1>6, <2>2, <2>3, <2>4, <2>5 DEF Placed
    <2> QED
        BY <2>6
<1> QED
    BY <1>5, <1>6

\* Slicing the one-element slice of nodes with [:1] keeps its element.
LEMMA OneKept == ASSUME NEW x PROVE SubSeq(<<x>>, 1, 1) = <<x>>
<1> DEFINE kept == SubSeq(<<x>>, 1, 1)
<1>1. <<x>> \in Seq({x}) /\ Len(<<x>>) = 1 /\ <<x>>[1] = x
    OBVIOUS
<1>2. /\ kept \in Seq({x})
      /\ Len(kept) = 1
      /\ kept[1] = x
    <2>1. /\ SubSeq(<<x>>, 1, 1) \in Seq({x})
          /\ Len(SubSeq(<<x>>, 1, 1)) = IF 1 <= 1 THEN 1 - 1 + 1 ELSE 0
          /\ \A i \in 1 .. 1 - 1 + 1 :
                SubSeq(<<x>>, 1, 1)[i] = <<x>>[1 + i - 1]
        BY <1>1, SubSeqProperties
    <2> QED
        BY <2>1, <1>1
<1> HIDE DEF kept
<1>3. kept = <<x>>
    BY <1>1, <1>2, SeqEqual
<1> QED
    BY <1>3 DEF kept

LEMMA LoopInitially == Init => LoopInv
<1> SUFFICES ASSUME Init PROVE LoopInv
    OBVIOUS
<1>1. summary.pods \in Seq(PodType)
    BY StatsAssumption DEF Init
<1>2. Len(summary.pods) \in Nat
    BY <1>1
<1> QED
    BY <1>2 DEF Init, LoopInv, NodeExact

LEMMA LoopPreserved == LoopInv /\ [Next]_vars => LoopInv'
<1> SUFFICES ASSUME LoopInv, [Next]_vars PROVE LoopInv'
    OBVIOUS
<1>1. CASE RequestFails
    BY <1>1, SummaryType DEF RequestFails, RequestErr, LoopInv, NodeExact
<1>2. CASE RequestSucceeds
    <2>1. /\ index = 0 /\ num = 0 /\ index' = 0 /\ num' = 0
          /\ summary' = summary /\ pc' = "pods" /\ result' = {}
          /\ slots' = [k \in DOMAIN summary.pods |-> EmptySlot]
        BY <1>2 DEF RequestSucceeds, LoopInv
    <2>2. DOMAIN slots' = 1..Len(summary.pods)
        BY <2>1, SummaryType
    <2>3. \E at : Placed(at)'
        <3> DEFINE none == [i \in 1..0 |-> 0]
        <3>1. none \in [1..0 -> 1..0]
            OBVIOUS
        <3>2. PICK at : at \in [1..0 -> 1..0]
            BY <3>1
        <3>3. Placed(at)'
            BY <2>1, <3>2 DEF Placed
        <3> QED
            BY <3>3
    <2>4. NodeExact'
        <3>1. nodes' = <<NodePoint(summary.node)>>
            <4>1. nodes' = SubSeq(<<NodePoint(summary.node)>>, 1, 1)
                BY <1>2 DEF RequestSucceeds
            <4> QED
                BY <4>1, OneKept
        <3>2. ASSUME Measured(summary.node)
              PROVE  /\ NodePoint(summary.node).name = NodeName
                     /\ Tells(NodePoint(summary.node).point, summary.node)
            <4>1. Tells(Point(summary.node), summary.node)
                BY <3>2, SummaryType, DecodedRight
            <4>2. ScrapeTime(summary.node) # ZeroTime
                BY <3>2, SummaryType, DecodedRight DEF HasErrors
            <4> QED
                BY <4>1, <4>2 DEF NodePoint
        <3>3. Len(nodes') = 1 /\ nodes'[1] = NodePoint(summary.node)
            BY <3>1
        <3> QED
            BY <2>1, <3>2, <3>3 DEF NodeExact, Measured, Tells
    <2> QED
        BY <2>1, <2>2, <2>3, <2>4 DEF LoopInv
<1>3. CASE DecodePod
    <2>1. /\ pc = "pods" /\ pc' = pc /\ reply' = reply /\ nodes' = nodes
          /\ summary' = summary /\ index' = index + 1 /\ result' = result
          /\ index < Len(summary.pods)
          /\ num' = num \/ num' = num + 1
          /\ slots' = [slots EXCEPT ![num + 1] = PodPoint(summary.pods[index + 1])]
        BY <1>3 DEF DecodePod
    <2>2. reply = "summary" => \E at : Placed(at)'
        BY <1>3, <2>1, OnePodMore DEF LoopInv
    <2>3. index' \in 0..Len(summary'.pods) /\ num' \in 0..index'
        BY <2>1, SummaryType DEF LoopInv
    <2>4. NodeExact'
        BY <2>1 DEF LoopInv, NodeExact, Measured, Tells
    <2>5. DOMAIN slots' = DOMAIN slots
        BY <2>1
    <2> QED
        BY <2>1, <2>2, <2>3, <2>4, <2>5 DEF LoopInv
<1>4. CASE Return
    <2>1. UNCHANGED <<reply, summary, nodes, slots, index, num>> /\ pc = "pods" /\ pc' = "returned"
        BY <1>4 DEF Return
    <2>2. \A at : Placed(at) => Placed(at)'
        BY <2>1 DEF Placed
    <2>3. \A r \in result' : r.nodes = nodes
        BY <1>4 DEF Return
    <2>4. NodeExact'
        BY <2>1, <2>3 DEF LoopInv, NodeExact, Measured, Tells
    <2> QED
        BY <2>1, <2>2, <2>4 DEF LoopInv
<1>5. CASE UNCHANGED vars
    <2>1. \A at : Placed(at) => Placed(at)'
        BY <1>5 DEF vars, Placed
    <2> QED
        BY <1>5, <2>1 DEF vars, LoopInv, NodeExact
<1> QED
    BY <1>1, <1>2, <1>3, <1>4, <1>5 DEF Next, Returned

LEMMA LoopAlways == Spec => []LoopInv
BY LoopInitially, LoopPreserved, PTL DEF Spec

\* A pod is reported exactly when it was measured, with its own readings and in
\* its own slot, whatever the kubelet reports of it and of others (pkg/sources/
\* summary/summary.go, lines 118-133).
THEOREM SlotsAlwaysExact == Spec => []SlotsExact
<1>1. LoopInv => SlotsExact
    BY DEF LoopInv, Placed, SlotsExact
<1> QED
    BY <1>1, LoopAlways, PTL

\* A measured node has a point and one only, with what was measured, and it is
\* returned, whatever else is missing from the summary (lines 105-116, 135,
\* 138-158).
THEOREM NodeAlwaysExact == Spec => []NodeExact
<1>1. LoopInv => NodeExact
    BY DEF LoopInv
<1> QED
    BY <1>1, LoopAlways, PTL

-----------------------------------------------------------------------------
(* Types.                                                                  *)

\* There is room for the pods of the summary and no more, and no error is of a
\* pod that was not decoded yet.
RoomInv ==
    /\ reply \in Replies
    /\ errs \subseteq 0..index
    /\ pc = "request" => errs = {}
    /\ nodes = <<>> \/ \E x : nodes = <<x>>
    /\ \/ slots = <<>>
       \/ slots = [k \in 1..Len(summary.pods) |-> slots[k]]

LEMMA RoomInitially == Init => RoomInv
BY DEF Init, RoomInv, Replies

LEMMA RoomPreserved == LoopInv /\ RoomInv /\ [Next]_vars => RoomInv'
<1> SUFFICES ASSUME LoopInv, RoomInv, [Next]_vars PROVE RoomInv'
    OBVIOUS
<1>1. CASE RequestFails
    BY <1>1 DEF RequestFails, RoomInv
<1>2. CASE RequestSucceeds
    <2>1. nodes' = <<NodePoint(summary.node)>>
        <3>1. nodes' = SubSeq(<<NodePoint(summary.node)>>, 1, 1)
            BY <1>2 DEF RequestSucceeds
        <3> QED
            BY <3>1, OneKept
    <2>2. slots' = [k \in 1..Len(summary.pods) |-> slots'[k]]
        BY <1>2, SummaryType DEF RequestSucceeds
    <2>3. /\ reply' \in Replies /\ summary' = summary /\ pc' = "pods"
          /\ errs' \subseteq {0} /\ index' = 0
        BY <1>2 DEF RequestSucceeds, LoopInv
    <2> QED
        BY <2>1, <2>2, <2>3 DEF RoomInv
<1>3. CASE DecodePod
    <2>1. /\ UNCHANGED <<pc, reply, summary, nodes>> /\ pc = "pods"
          /\ index' = index + 1 /\ index \in Nat
          /\ errs' \subseteq errs \cup {index + 1}
          /\ slots' = [slots EXCEPT ![num + 1] = PodPoint(summary.pods[index + 1])]
        BY <1>3 DEF DecodePod, LoopInv
    <2>2. slots' = <<>> \/ slots' = [k \in 1..Len(summary.pods) |-> slots'[k]]
        <3>1. CASE slots = <<>>
            BY <2>1, <3>1
        <3>2. CASE slots = [k \in 1..Len(summary.pods) |-> slots[k]]
            BY <2>1, <3>2
        <3> QED
            BY <3>1, <3>2 DEF RoomInv
    <2>3. errs' \subseteq 0..index'
        BY <2>1 DEF RoomInv
    <2> QED
        BY <2>1, <2>2, <2>3 DEF RoomInv
<1>4. CASE Return \/ UNCHANGED vars
    BY <1>4 DEF Return, vars, RoomInv
<1> QED
    BY <1>1, <1>2, <1>3, <1>4 DEF Next, Returned

LEMMA LenOfFunction ==
    ASSUME NEW f, NEW n \in Nat, f = [k \in 1..n |-> f[k]]
    PROVE  Len(f) = n
<1> DEFINE S == {f[k] : k \in 1..n}
<1>1. f \in [1..n -> S]
    OBVIOUS
<1>2. f \in Seq(S) /\ Len(f) = n
    BY <1>1
<1> QED
    BY <1>2

\* Collect never decodes more pods than there are, and never outgrows the array
\* it made for them (pkg/sources/summary/summary.go, lines 98-135).
THEOREM TypeCorrect == Spec => []TypeOK
<1>1. LoopInv /\ RoomInv => TypeOK
    <2> SUFFICES ASSUME LoopInv, RoomInv PROVE TypeOK
        OBVIOUS
    <2>1. Len(nodes) <= 1
        <3>1. CASE nodes = <<>>
            BY <3>1
        <3>2. ASSUME NEW x, nodes = <<x>> PROVE Len(nodes) <= 1
            BY <3>2
        <3> QED
            BY <3>1, <3>2, Zenon DEF RoomInv
    <2>2. Len(slots) <= Len(summary.pods)
        <3>1. Len(summary.pods) \in Nat
            BY SummaryType
        <3>2. CASE slots = <<>>
            BY <3>1, <3>2
        <3>3. CASE slots = [k \in 1..Len(summary.pods) |-> slots[k]]
            BY <3>1, <3>3, LenOfFunction
        <3> QED
            BY <3>2, <3>3 DEF RoomInv
    <2> QED
        BY <2>1, <2>2 DEF LoopInv, RoomInv, TypeOK
<1> QED
    BY <1>1, RoomInitially, RoomPreserved, LoopAlways, PTL DEF Spec

-----------------------------------------------------------------------------
(* The error.                                                              *)

\* So far there is no error exactly when nothing was missing: every decoded pod
\* has a slot.
ErrInv ==
    /\ pc = "request" => index = 0 /\ num = 0
    /\ pc # "returned" => result = {}
    /\ pc = "pods" =>
          /\ reply = "summary"
          /\ DOMAIN slots = 1..Len(summary.pods)
          /\ errs = {} <=> Measured(summary.node) /\ num = index
    /\ ErrTellsAll

LEMMA ErrPreserved == LoopInv /\ ErrInv /\ [Next]_vars => ErrInv'
<1> SUFFICES ASSUME LoopInv, ErrInv, [Next]_vars PROVE ErrInv'
    OBVIOUS
<1>1. CASE RequestFails
    BY <1>1 DEF RequestFails, RequestErr, ErrInv, ErrTellsAll
<1>2. CASE RequestSucceeds
    <2>1. /\ index' = 0 /\ num' = 0 /\ result' = {} /\ summary' = summary
          /\ pc' = "pods" /\ reply' = "summary"
          /\ slots' = [k \in DOMAIN summary.pods |-> EmptySlot]
        BY <1>2 DEF RequestSucceeds, RequestErr, ErrInv
    <2>2. errs' = {} <=> Measured(summary.node)
        BY <1>2, SummaryType, DecodedRight DEF RequestSucceeds
    <2> QED
        BY <2>1, <2>2, SummaryType DEF ErrInv, ErrTellsAll
<1>3. CASE DecodePod
    <2> DEFINE pod == summary.pods[index + 1]
    <2>1. /\ pc = "pods" /\ pc' = pc /\ reply' = reply /\ result' = result
          /\ summary' = summary /\ index' = index + 1
          /\ DOMAIN slots' = DOMAIN slots
        BY <1>3 DEF DecodePod
    <2>2. IF PodHasErrors(pod)
          THEN errs' # {} /\ num' = num
          ELSE num' = num + 1 /\ errs' = errs
        BY <1>3 DEF DecodePod
    <2>3. index \in Nat /\ num \in 0..index
        BY SummaryType DEF LoopInv
    <2>4. errs' = {} <=> Measured(summary.node) /\ num' = index'
        BY <2>1, <2>2, <2>3 DEF ErrInv
    <2> QED
        BY <2>1, <2>4 DEF ErrInv, ErrTellsAll
<1>4. CASE Return
    <2>1. /\ pc = "pods" /\ pc' = "returned" /\ index = Len(summary.pods)
          /\ reply' = reply /\ summary' = summary
          /\ result' = {[batch |-> TRUE, err |-> errs # {}, nodes |-> nodes,
                         pods |-> SubSeq(slots, 1, num)]}
        BY <1>4 DEF Return
    <2>2. num \in Nat
        BY SummaryType DEF LoopInv
    <2>3. Len(SubSeq(slots, 1, num)) = num
        <3>1. \A i \in 1..num : slots[i] \in {slots[j] : j \in 1..num}
            OBVIOUS
        <3>2. Len(SubSeq(slots, 1, num)) = IF 1 <= num THEN num - 1 + 1 ELSE 0
            BY <2>2, <3>1, SubSeqProperties
        <3> QED
            BY <2>2, <3>2
    <2>4. reply = "summary" /\ (errs = {} <=> Measured(summary.node) /\ num = index)
        BY <2>1 DEF ErrInv
    <2>5. ASSUME NEW r \in result'
          PROVE  ~r.err <=> /\ reply' = "summary"
                            /\ Measured(summary'.node)
                            /\ Len(r.pods) = Len(summary'.pods)
        <3>1. r = [batch |-> TRUE, err |-> errs # {}, nodes |-> nodes,
                   pods |-> SubSeq(slots, 1, num)]
            BY <2>1
        <3>2. r.err = (errs # {})
            BY <3>1, Zenon
        <3>3. Len(r.pods) = num
            BY <3>1, <2>3
        <3> QED
            BY <2>1, <2>4, <3>2, <3>3
    <2>6. ErrTellsAll'
        BY <2>5 DEF ErrTellsAll, Measured
    <2> QED
        BY <2>1, <2>6 DEF ErrInv
<1>5. CASE UNCHANGED vars
    BY <1>5 DEF vars, ErrInv, ErrTellsAll
<1> QED
    BY <1>1, <1>2, <1>3, <1>4, <1>5 DEF Next, Returned

\* Collect returns a nil error exactly when it has everything the kubelet can
\* tell: the summary arrived, and the node and every pod were measured
\* (pkg/sources/summary/summary.go, lines 98-135).
THEOREM ErrAlwaysTells == Spec => []ErrTellsAll
<1>1. Init => ErrInv
    BY DEF Init, ErrInv, ErrTellsAll
<1>2. ErrInv => ErrTellsAll
    BY DEF ErrInv
<1> QED
    BY <1>1, <1>2, ErrPreserved, LoopAlways, PTL DEF Spec
=============================================================================
