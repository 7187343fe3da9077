----------------------------- MODULE ManagerProof -----------------------------
(***************************************************************************)
(* Proofs about Manager, for every resolution, collection bound and sink.  *)
(***************************************************************************)
EXTENDS Manager, SequenceTheorems, TLAPS

Busy == {"collecting", "storing", "finishOk", "finishBad"}
Stored == [nodes : {0, 1}, err : BOOLEAN, age : 0..MaxAge]

LEMMA OlderType ==
    ASSUME NEW age \in 0..MaxAge
    PROVE  /\ Older(age) \in 0..MaxAge
           /\ age < MaxAge => Older(age) = age + 1
BY TimeAssumption DEF Older

LEMMA OlderMonotonic ==
    ASSUME NEW a \in 0..MaxAge, NEW b \in 0..MaxAge, a <= b
    PROVE  Older(a) <= Older(b)
BY TimeAssumption DEF Older

\* The types the other proofs use.
THEOREM TypeCorrect == Spec => []TypeOK
<1>1. Init => TypeOK
    <2> SUFFICES ASSUME Init PROVE TypeOK
        OBVIOUS
    <2>1. lastOk \in BOOLEAN /\ stopped \in BOOLEAN /\ data \in Results
        BY Zenon DEF Init, Results
    <2> QED
        BY <2>1, TimeAssumption DEF Init, TypeOK
<1>2. TypeOK /\ [Next]_vars => TypeOK'
    <2> SUFFICES ASSUME TypeOK, [Next]_vars PROVE TypeOK'
        OBVIOUS
    <2> USE TimeAssumption DEF TypeOK
    <2>1. CASE Start
        BY <2>1 DEF Start, BeginCollect
    <2>2. CASE TakeTick
        BY <2>2 DEF TakeTick, BeginCollect
    <2>3. CASE TakeStop
        BY <2>3 DEF TakeStop
    <2>4. CASE SourceReturns
        BY <2>4 DEF SourceReturns
    <2>5. ASSUME NEW recvErr \in {FALSE, setting.sinkFails}, Store(recvErr) PROVE TypeOK'
        BY <2>5 DEF Store, Results
    <2>6. CASE Finish
        <3>1. lastOk' \in BOOLEAN
            BY <2>6 DEF Finish
        <3> QED
            BY <2>6, <3>1 DEF Finish
    <2>7. CASE Stop
        BY <2>7 DEF Stop
    <2>8. CASE ClockTick
        <3>1. /\ elapsed' \in 0..MaxAge /\ lastTickStart' \in 0..MaxAge
              /\ UNCHANGED <<loop, lastOk, data, stopped, setting>>
            BY <2>8, OlderType DEF ClockTick
        <3>2. stored' \in SUBSET Stored
            <4>1. \A d \in stored : d \in Stored /\ Older(d.age) \in 0..MaxAge
                BY OlderType DEF Stored
            <4>2. \A d \in stored : [d EXCEPT !.age = Older(@)] \in Stored
                BY <4>1 DEF Stored
            <4>3. stored' = {[d EXCEPT !.age = Older(@)] : d \in stored}
                BY <2>8 DEF ClockTick
            <4> QED
                BY <4>2, <4>3
        <3>3. CASE nextTick = 1
            <4>1. tickC' = Fire /\ nextTick' = Resolution
                BY <2>8, <3>3 DEF ClockTick
            <4>2. tickC = <<>> \/ Head(tickC) \in 0..MaxAge
                OBVIOUS
            <4>3. \E a \in 0..MaxAge : Fire = <<a>>
                BY <4>2, OlderType DEF Fire
            <4> QED
                BY <3>1, <3>2, <4>1, <4>3 DEF Stored
        <3>4. CASE nextTick # 1
            <4>1. tickC' = AgeTicks /\ nextTick' = nextTick - 1
                BY <2>8, <3>4 DEF ClockTick
            <4>2. AgeTicks \in [1..Len(tickC) -> 0..MaxAge]
                BY OlderType DEF AgeTicks
            <4>3. AgeTicks \in Seq(0..MaxAge) /\ Len(AgeTicks) = Len(tickC)
                BY <4>2
            <4> QED
                BY <3>1, <3>4, <3>2, <4>1, <4>3 DEF Stored
        <3> QED
            BY <3>3, <3>4
    <2>9. CASE UNCHANGED vars
        BY <2>9 DEF vars
    <2> QED
        BY <2>1, <2>2, <2>3, <2>4, <2>5, <2>6, <2>7, <2>8, <2>9
        DEF Next, LoopStep, Exited
<1> QED
    BY <1>1, <1>2, PTL DEF Spec

-----------------------------------------------------------------------------
(* Ticks.                                                                  *)

\* With a source that keeps to a bound that fits the resolution, a tick is
\* taken the moment it fires: either no tick waits and the last one taken is
\* the last one fired, or one has just fired while the cycle before it ends.
TicksTaken ==
    /\ loop = "start" => tickC = <<>>
    /\ loop \notin {"start", "exited"} =>
          \/ tickC = <<>> /\ lastTickStart = Resolution - nextTick
          \/ tickC = <<0>> /\ lastTickStart = Resolution /\ nextTick = Resolution
    /\ loop \in Busy => elapsed = lastTickStart /\ elapsed <= CollectBound
TickInv == ~setting.mayHang => TicksTaken

LEMMA SettingKept == [Next]_vars => setting' = setting
BY DEF Next, LoopStep, vars, Start, TakeTick, TakeStop, Finish, Store, SourceReturns,
       Stop, ClockTick, Exited

LEMMA TicksOnTime ==
    ASSUME CollectBound <= Resolution
    PROVE  Spec => [](TypeOK /\ TickInv)
<1>1. Init => TickInv
    BY DEF Init, TickInv, TicksTaken, Busy
<1>2. TypeOK /\ TypeOK' /\ TickInv /\ [Next]_vars => TickInv'
    <2> SUFFICES ASSUME TypeOK, TypeOK', TicksTaken, ~setting.mayHang, [Next]_vars
                 PROVE  TicksTaken'
        BY SettingKept DEF TickInv
    <2> USE TimeAssumption DEF TypeOK, TicksTaken, Busy
    <2>1. CASE Start
        BY <2>1 DEF Start, BeginCollect
    <2>2. CASE TakeTick
        <3>1. tickC = <<0>> /\ nextTick = Resolution
            BY <2>2 DEF TakeTick
        <3>2. tickC' = <<>> /\ lastTickStart' = 0 /\ elapsed' = 0 /\ nextTick' = nextTick
            BY <2>2, <3>1 DEF TakeTick, BeginCollect
        <3> QED
            BY <3>1, <3>2
    <2>3. CASE TakeStop
        BY <2>3 DEF TakeStop
    <2>4. CASE SourceReturns
        BY <2>4 DEF SourceReturns
    <2>5. ASSUME NEW recvErr \in {FALSE, setting.sinkFails}, Store(recvErr) PROVE TicksTaken'
        BY <2>5 DEF Store
    <2>6. CASE Finish
        BY <2>6 DEF Finish
    <2>7. CASE Stop
        BY <2>7 DEF Stop
    <2>8. CASE ClockTick
        <3>1. /\ loop' = loop /\ loop \in {"select", "collecting"}
              /\ tickC = <<>>
              /\ lastTickStart = Resolution - nextTick
              /\ loop = "collecting" => elapsed < CollectBound
            <4>1. loop' = loop /\ LoopWaits
                BY <2>8 DEF ClockTick
            <4>2. CASE loop = "select" /\ tickC = <<>>
                BY <4>1, <4>2
            <4>3. CASE loop = "collecting" /\ elapsed < CollectBound
                BY <4>1, <4>3
            <4> QED
                BY <4>1, <4>2, <4>3 DEF LoopWaits
        <3>2. /\ lastTickStart' = lastTickStart + 1
              /\ loop = "collecting" => elapsed' = elapsed + 1
            BY <2>8, <3>1 DEF ClockTick, Older
        <3>3. CASE nextTick = 1
            BY <2>8, <3>1, <3>2, <3>3 DEF ClockTick, Fire
        <3>4. CASE nextTick # 1
            <4>1. tickC' = <<>> /\ nextTick' = nextTick - 1
                BY <2>8, <3>1, <3>4 DEF ClockTick, AgeTicks
            <4> QED
                BY <3>1, <3>2, <4>1
        <3> QED
            BY <3>3, <3>4
    <2>9. CASE UNCHANGED vars
        BY <2>9 DEF vars
    <2> QED
        BY <2>1, <2>2, <2>3, <2>4, <2>5, <2>6, <2>7, <2>8, <2>9
        DEF Next, LoopStep, Exited
<1> QED
    BY <1>1, <1>2, TypeCorrect, PTL DEF Spec

\* Whatever the source does, the ticker fires no sooner than a resolution after
\* the tick taken last, and no sooner than that after a tick that waits.
TicksApart ==
    /\ loop = "start" => tickC = <<>>
    /\ tickC = <<>> /\ lastTickStart < MaxAge => lastTickStart + nextTick >= Resolution
    /\ tickC # <<>> => Head(tickC) + nextTick >= Resolution
    /\ tickC # <<>> /\ lastTickStart < MaxAge => Head(tickC) + Resolution <= lastTickStart

LEMMA AtMostOne ==
    ASSUME NEW S, NEW s \in Seq(S), Len(s) <= 1
    PROVE  s = <<>> \/ \E a \in S : s = <<a>>
<1> SUFFICES ASSUME s # <<>> PROVE \E a \in S : s = <<a>>
    OBVIOUS
<1>1. Len(s) = 1
    <2>1. Len(s) \in Nat \ {0}
        BY EmptySeq
    <2>2. \A n \in Nat \ {0} : n <= 1 => n = 1
        OBVIOUS
    <2> QED
        BY <2>1, <2>2, Zenon
<1>2. s[1] \in S /\ <<s[1]>> \in Seq(S)
    BY <1>1, ElementOfSeq
<1>3. s = <<s[1]>>
    <2>1. Len(<<s[1]>>) = 1 /\ <<s[1]>>[1] = s[1]
        OBVIOUS
    <2> QED
        BY <1>1, <1>2, <2>1, SeqEqual
<1> QED
    BY <1>2, <1>3

LEMMA TicksStayApart == Spec => []TicksApart
<1>1. Init => TicksApart
    BY TimeAssumption DEF Init, TicksApart
<1>2. TypeOK /\ TypeOK' /\ TicksApart /\ [Next]_vars => TicksApart'
    <2> SUFFICES ASSUME TypeOK, TypeOK', TicksApart, [Next]_vars PROVE TicksApart'
        OBVIOUS
    <2>1. /\ nextTick \in 1..Resolution /\ lastTickStart \in 0..MaxAge
          /\ Resolution \in Nat \ {0} /\ MaxAge \in Nat /\ MaxAge > Resolution
        BY TimeAssumption DEF TypeOK
    <2>2. tickC = <<>> \/ \E a \in 0..MaxAge : tickC = <<a>>
        BY AtMostOne DEF TypeOK
    <2>3. ASSUME UNCHANGED <<nextTick, tickC, lastTickStart>>,
                 loop' = "start" => loop = "start"
          PROVE  TicksApart'
        BY <2>3 DEF TicksApart
    <2>4. CASE Start
        <3>1. /\ loop = "start" /\ loop' = "collecting"
              /\ tickC' = tickC /\ lastTickStart' = 0 /\ nextTick' = Resolution
            BY <2>4 DEF Start, BeginCollect
        <3>2. tickC = <<>>
            BY <3>1 DEF TicksApart
        <3> QED
            BY <2>1, <3>1, <3>2 DEF TicksApart
    <2>5. CASE TakeTick
        <3>1. PICK a \in 0..MaxAge : tickC = <<a>>
            BY <2>2, <2>5 DEF TakeTick
        <3>2. /\ tickC' = <<>> /\ lastTickStart' = a /\ nextTick' = nextTick
              /\ loop' = "collecting"
            BY <2>5, <3>1 DEF TakeTick, BeginCollect
        <3>3. a + nextTick >= Resolution
            BY <3>1 DEF TicksApart
        <3> QED
            BY <3>2, <3>3 DEF TicksApart
    <2>6. CASE ClockTick
        <3>1. /\ lastTickStart' = Older(lastTickStart) /\ lastTickStart' \in 0..MaxAge
              /\ lastTickStart' < MaxAge =>
                    lastTickStart < MaxAge /\ lastTickStart' = lastTickStart + 1
            BY <2>1, <2>6 DEF ClockTick, Older, TypeOK
        <3>0. loop' # "start"
            BY <2>6 DEF ClockTick, LoopWaits
        <3>2. CASE tickC = <<>>
            <4>1. CASE nextTick = 1
                <5>1. tickC' = <<0>> /\ nextTick' = Resolution
                    BY <2>6, <3>2, <4>1 DEF ClockTick, Fire
                <5>2. lastTickStart' < MaxAge => Resolution <= lastTickStart'
                    BY <2>1, <3>1, <3>2, <4>1 DEF TicksApart
                <5> QED
                    BY <2>1, <3>0, <5>1, <5>2 DEF TicksApart
            <4>2. CASE nextTick # 1
                <5>1. tickC' = <<>> /\ nextTick' = nextTick - 1
                    BY <2>6, <3>2, <4>2 DEF ClockTick, AgeTicks
                <5>2. lastTickStart' < MaxAge => lastTickStart' + nextTick' >= Resolution
                    BY <2>1, <3>1, <3>2, <5>1 DEF TicksApart
                <5> QED
                    BY <3>0, <5>1, <5>2 DEF TicksApart
            <4> QED
                BY <4>1, <4>2
        <3>3. ASSUME NEW a \in 0..MaxAge, tickC = <<a>> PROVE TicksApart'
            <4>1. /\ a + nextTick >= Resolution
                  /\ lastTickStart < MaxAge => a + Resolution <= lastTickStart
                BY <3>3 DEF TicksApart
            <4>2. tickC' = <<Older(a)>>
                BY <2>6, <3>3 DEF ClockTick, Fire, AgeTicks
            <4>3. nextTick' = IF nextTick = 1 THEN Resolution ELSE nextTick - 1
                BY <2>6 DEF ClockTick
            <4>4. /\ Older(a) \in 0..MaxAge
                  /\ Older(a) = IF a < MaxAge THEN a + 1 ELSE a
                BY <2>1 DEF Older
            <4>5. Older(a) + nextTick' >= Resolution
                BY <2>1, <4>1, <4>3, <4>4
            <4>6. lastTickStart' < MaxAge => Older(a) + Resolution <= lastTickStart'
                BY <2>1, <3>1, <4>1, <4>4
            <4>7. tickC' # <<>> /\ Head(tickC') = Older(a)
                BY <4>2
            <4> QED
                BY <3>0, <4>5, <4>6, <4>7 DEF TicksApart
        <3> QED
            BY <2>2, <3>2, <3>3
    <2>7. CASE TakeStop \/ SourceReturns \/ Finish \/ Stop \/ UNCHANGED vars
               \/ \E recvErr \in {FALSE, setting.sinkFails} : Store(recvErr)
        BY <2>3, <2>7 DEF TakeStop, SourceReturns, Finish, Stop, Store, vars
    <2> QED
        BY <2>4, <2>5, <2>6, <2>7 DEF Next, LoopStep, Exited
<1> QED
    BY <1>1, <1>2, TypeCorrect, PTL DEF Spec

\* The health check never fails for a late tick while the source keeps to its
\* bound and the bound fits the resolution; and after an overrun, of any source,
\* every tick is a resolution younger than the one before it, so that the delay
\* is made up and not handed on (lines 83-94, 151-157).
THEOREM NoTickAlarm ==
    ASSUME CollectBound <= Resolution
    PROVE  Spec => []NoFalseAlarm
<1>1. TypeOK /\ TickInv /\ TicksApart => NoFalseAlarm
    <2>1. ASSUME TypeOK, TicksTaken, loop \notin {"start", "exited"}
          PROVE  CheckHealth # "late"
        <3>1. lastTickStart <= Resolution
            BY <2>1, TimeAssumption DEF TypeOK, TicksTaken
        <3>2. Resolution <= MaxTickWait
            BY TimeAssumption DEF MaxTickWait
        <3>3. MaxTickWait \in Int /\ lastTickStart \in Int
            BY <2>1, TimeAssumption DEF MaxTickWait, TypeOK
        <3>4. ~(lastTickStart > MaxTickWait)
            BY <3>1, <3>2, <3>3, TimeAssumption
        <3> QED
            BY <3>4 DEF CheckHealth
    <2> QED
        BY <2>1 DEF NoFalseAlarm, TickInv, TicksApart
<1> QED
    BY <1>1, TicksOnTime, TicksStayApart, PTL

-----------------------------------------------------------------------------
(* The age of what is served.                                              *)

\* What the sink holds was collected in the last cycle to end, which began at
\* the tick before the one being served, or at that tick itself.
BatchAges ==
    /\ loop = "start" => stored = {}
    /\ loop \in {"collecting", "storing"} =>
          \A d \in stored : d.age = Resolution + elapsed
    /\ loop \in {"finishOk", "finishBad", "select"} =>
          \A d \in stored : d.age = lastTickStart
    /\ loop = "exited" => \A d \in stored : d.age <= Resolution
AgeInv == setting = Dependable => BatchAges

\* With the program's sink, whose Receive never fails, no request is answered
\* from data older than a resolution and a collection (lines 81-140).
THEOREM DataIsFresh ==
    ASSUME CollectBound <= Resolution
    PROVE  Spec => []FreshData
<1>1. Init => AgeInv
    BY DEF Init, AgeInv, BatchAges
<1>2. TypeOK /\ TypeOK' /\ TickInv /\ AgeInv /\ [Next]_vars => AgeInv'
    <2> SUFFICES ASSUME TypeOK, TypeOK', TicksTaken, BatchAges, [Next]_vars,
                        setting = Dependable
                 PROVE  BatchAges'
        BY SettingKept DEF AgeInv, TickInv, Dependable
    <2> USE TimeAssumption DEF BatchAges
    <2>1. CASE Start
        BY <2>1 DEF Start, BeginCollect
    <2>2. CASE TakeTick
        <3>1. tickC = <<0>> /\ lastTickStart = Resolution /\ loop = "select"
            BY <2>2 DEF TakeTick, TicksTaken
        <3>2. elapsed' = 0 /\ stored' = stored /\ loop' = "collecting"
            BY <2>2 DEF TakeTick, BeginCollect
        <3> QED
            BY <3>1, <3>2
    <2>3. CASE TakeStop
        <3>1. /\ loop = "select" /\ loop' = "exited" /\ stored' = stored
              /\ lastTickStart <= Resolution
            BY <2>3 DEF TakeStop, TicksTaken, TypeOK
        <3> QED
            BY <3>1
    <2>4. CASE SourceReturns
        BY <2>4 DEF SourceReturns
    <2>5. ASSUME NEW recvErr \in {FALSE, setting.sinkFails}, Store(recvErr) PROVE BatchAges'
        <3>1. ~recvErr
            BY DEF Dependable
        <3>2. elapsed = lastTickStart
            BY <2>5 DEF Store, TicksTaken, Busy
        <3>3. /\ \A d \in stored' : d.age = elapsed
              /\ loop' \in {"finishOk", "finishBad"}
              /\ lastTickStart' = lastTickStart
            BY <2>5, <3>1 DEF Store
        <3> QED
            BY <3>2, <3>3
    <2>6. CASE Finish
        BY <2>6 DEF Finish
    <2>7. CASE Stop
        BY <2>7 DEF Stop
    <2>8. CASE ClockTick
        <3>1. \A d \in stored' : \E e \in stored : d.age = Older(e.age)
            BY <2>8 DEF ClockTick, TypeOK
        <3>2. CASE loop = "select"
            <4>1. \A e \in stored : Older(e.age) = Older(lastTickStart)
                BY <3>2
            <4>2. loop' = "select" /\ lastTickStart' = Older(lastTickStart)
                BY <2>8, <3>2 DEF ClockTick
            <4> QED
                BY <3>1, <4>1, <4>2
        <3>3. CASE loop = "collecting"
            <4>1. elapsed \in Nat /\ elapsed <= CollectBound
                BY <3>3 DEF TicksTaken, Busy, TypeOK
            <4>2. Older(Resolution + elapsed) = Resolution + elapsed + 1
                BY <4>1 DEF Older
            <4>3. Older(elapsed) = elapsed + 1
                BY <4>1 DEF Older
            <4>4. loop' = "collecting" /\ elapsed' = elapsed + 1
                BY <2>8, <3>3, <4>3 DEF ClockTick
            <4>5. \A e \in stored : Older(e.age) = Resolution + elapsed + 1
                BY <3>3, <4>2
            <4> QED
                BY <3>1, <4>1, <4>4, <4>5
        <3> QED
            BY <2>8, <3>2, <3>3 DEF ClockTick, LoopWaits
    <2>9. CASE UNCHANGED vars
        BY <2>9 DEF vars
    <2> QED
        BY <2>1, <2>2, <2>3, <2>4, <2>5, <2>6, <2>7, <2>8, <2>9
        DEF Next, LoopStep, Exited
<1>3. TypeOK /\ TickInv /\ AgeInv => FreshData
    <2> SUFFICES ASSUME TypeOK, TicksTaken, BatchAges, NEW d \in stored
                 PROVE  d.age <= Resolution + CollectBound
        BY DEF FreshData, TickInv, AgeInv, Dependable
    <2>1. /\ elapsed \in Nat /\ lastTickStart \in Nat
          /\ loop \in Busy => elapsed <= CollectBound
          /\ loop \notin {"start", "exited"} => lastTickStart <= Resolution
        BY TimeAssumption DEF TypeOK, TicksTaken
    <2> QED
        BY <2>1, TimeAssumption DEF BatchAges, TypeOK, Busy
<1> QED
    BY <1>1, <1>2, <1>3, TicksOnTime, PTL DEF Spec

-----------------------------------------------------------------------------
(* Health.                                                                 *)

\* A good batch, collected since the last tick began to be served.
ServesGood == \E d \in stored : HealthyTick(d, FALSE) /\ d.age <= lastTickStart

HealthInv ==
    /\ loop \in Busy => elapsed <= lastTickStart
    /\ loop = "finishOk" => ServesGood
    /\ HealthyMeansStored

\* The health check speaks of the batch that is served, even with sources that
\* hang and sinks that fail (lines 103-139).
THEOREM HealthyIsStored == Spec => []HealthyMeansStored
<1>1. Init => HealthInv
    BY DEF Init, HealthInv, HealthyMeansStored, Busy
<1>2. TypeOK /\ HealthInv /\ [Next]_vars => HealthInv'
    <2> SUFFICES ASSUME TypeOK, HealthInv, [Next]_vars PROVE HealthInv'
        OBVIOUS
    <2>1. lastOk /\ loop \notin {"finishOk", "finishBad"} =>
              \E d \in stored : HealthyTick(d, FALSE)
        BY DEF HealthInv, HealthyMeansStored
    <2>2. ASSUME loop \in {"start", "select"}, UNCHANGED <<lastOk, stored>>,
                 loop' = "collecting", elapsed' <= lastTickStart'
          PROVE  HealthInv'
        <3>1. lastOk' => \E d \in stored' : HealthyTick(d, FALSE)
            BY <2>1, <2>2
        <3> QED
            BY <2>2, <3>1 DEF HealthInv, HealthyMeansStored
    <2>3. CASE Start
        <3>1. /\ loop = "start" /\ loop' = "collecting"
              /\ elapsed' = 0 /\ lastTickStart' = 0
              /\ UNCHANGED <<lastOk, stored>>
            BY <2>3 DEF Start, BeginCollect
        <3> QED
            BY <2>2, <3>1
    <2>4. CASE TakeTick
        <3>1. Head(tickC) \in 0..MaxAge
            <4>1. tickC \in Seq(0..MaxAge)
                BY DEF TypeOK
            <4>2. tickC # <<>>
                BY <2>4 DEF TakeTick
            <4> QED
                BY <4>1, <4>2, TimeAssumption
        <3>2. /\ elapsed' = 0 /\ lastTickStart' = Head(tickC) /\ loop' = "collecting"
              /\ UNCHANGED <<lastOk, stored>> /\ loop = "select"
            BY <2>4 DEF TakeTick, BeginCollect
        <3> QED
            BY <2>2, <3>1, <3>2
    <2> USE DEF HealthInv, HealthyMeansStored, ServesGood, Busy
    <2>5. CASE TakeStop
        BY <2>5 DEF TakeStop
    <2>6. CASE SourceReturns
        BY <2>6 DEF SourceReturns
    <2>7. ASSUME NEW recvErr \in {FALSE, setting.sinkFails}, Store(recvErr) PROVE HealthInv'
        <3>1. /\ loop = "storing" /\ loop' \in {"finishOk", "finishBad"}
              /\ UNCHANGED <<elapsed, lastTickStart>>
            BY <2>7 DEF Store
        <3>2. ASSUME loop' = "finishOk" PROVE ServesGood'
            <4> DEFINE new == [nodes |-> data.nodes, err |-> data.err, age |-> elapsed]
            <4>1. HealthyTick(data, recvErr)
                BY <2>7, <3>2 DEF Store
            <4>2. HealthyTick(new, FALSE)
                BY <4>1 DEF HealthyTick
            <4>3. stored' = {new}
                BY <2>7, <4>1 DEF Store, HealthyTick
            <4> QED
                BY <3>1, <4>2, <4>3 DEF HealthyTick
        <3> QED
            BY <3>1, <3>2
    <2>8. CASE Finish
        BY <2>8 DEF Finish
    <2>9. CASE Stop
        BY <2>9 DEF Stop
    <2>10. CASE ClockTick
        <3>1. /\ loop' = loop /\ lastOk' = lastOk /\ loop \in {"select", "collecting"}
              /\ lastTickStart' = Older(lastTickStart)
              /\ loop = "collecting" => elapsed' = Older(elapsed)
              /\ stored' = {[d EXCEPT !.age = Older(@)] : d \in stored}
            BY <2>10 DEF ClockTick, LoopWaits
        <3>2. loop = "collecting" => elapsed' <= lastTickStart'
            BY <3>1, OlderMonotonic DEF TypeOK
        <3>3. ASSUME NEW d \in stored, HealthyTick(d, FALSE)
              PROVE  /\ [d EXCEPT !.age = Older(@)] \in stored'
                     /\ HealthyTick([d EXCEPT !.age = Older(@)], FALSE)
                     /\ d.age <= lastTickStart =>
                           [d EXCEPT !.age = Older(@)].age <= lastTickStart'
            <4>1. d.age \in 0..MaxAge
                BY DEF TypeOK
            <4>2. /\ [d EXCEPT !.age = Older(@)].age = Older(d.age)
                  /\ [d EXCEPT !.age = Older(@)].nodes = d.nodes
                  /\ [d EXCEPT !.age = Older(@)].err = d.err
                BY DEF TypeOK
            <4>3. d.age <= lastTickStart => Older(d.age) <= lastTickStart'
                BY <3>1, <4>1, OlderMonotonic DEF TypeOK
            <4> QED
                BY <3>1, <3>3, <4>2, <4>3 DEF HealthyTick
        <3> QED
            BY <3>1, <3>2, <3>3
    <2>11. CASE UNCHANGED vars
        BY <2>11 DEF vars
    <2> QED
        BY <2>3, <2>4, <2>5, <2>6, <2>7, <2>8, <2>9, <2>10, <2>11
        DEF Next, LoopStep, Exited
<1> QED
    BY <1>1, <1>2, TypeCorrect, PTL DEF Spec, HealthInv

\* While Collect waits for a source, the age of the last tick is no less than
\* the time it has waited.
WaitInv == loop = "collecting" => elapsed <= lastTickStart

LEMMA WaitAlways == Spec => [](TypeOK /\ WaitInv)
<1>1. Init => WaitInv
    BY DEF Init, WaitInv
<1>2. TypeOK /\ TypeOK' /\ WaitInv /\ [Next]_vars => WaitInv'
    <2> SUFFICES ASSUME TypeOK, TypeOK', WaitInv, [Next]_vars, loop' = "collecting"
                 PROVE  elapsed' <= lastTickStart'
        BY DEF WaitInv
    <2>1. CASE Start \/ TakeTick
        <3>1. elapsed' = 0
            BY <2>1 DEF Start, TakeTick, BeginCollect
        <3> QED
            BY <3>1 DEF TypeOK
    <2>2. CASE ClockTick
        <3>1. /\ loop = "collecting"
              /\ elapsed' = Older(elapsed) /\ lastTickStart' = Older(lastTickStart)
            BY <2>2 DEF ClockTick
        <3> QED
            BY <3>1, OlderMonotonic DEF WaitInv, TypeOK
    <2>3. CASE Stop \/ Exited \/ UNCHANGED vars
        BY <2>3 DEF Stop, Exited, vars, WaitInv
    <2>4. CASE TakeStop \/ Finish \/ SourceReturns
               \/ \E recvErr \in {FALSE, setting.sinkFails} : Store(recvErr)
        BY <2>4 DEF TakeStop, Finish, SourceReturns, Store
    <2> QED
        BY <2>1, <2>2, <2>3, <2>4 DEF Next, LoopStep
<1> QED
    BY <1>1, <1>2, TypeCorrect, PTL DEF Spec

HangNoticed == loop = "collecting" /\ elapsed > MaxTickWait => CheckHealth = "late"

\* A source that does not return within 1.1 resolutions fails the health check
\* from then on, wherever in the interval its cycle began (lines 103-114,
\* 151-157): HangReported, with its bound.
THEOREM HangNoticedInTime == Spec => []HangNoticed
<1>1. TypeOK /\ WaitInv => HangNoticed
    <2> SUFFICES ASSUME TypeOK, WaitInv, loop = "collecting", elapsed > MaxTickWait
                 PROVE  CheckHealth = "late"
        BY DEF HangNoticed
    <2>1. /\ elapsed \in Int /\ lastTickStart \in Int /\ MaxTickWait \in Int
          /\ elapsed <= lastTickStart
        BY TimeAssumption DEF TypeOK, WaitInv, MaxTickWait
    <2>2. lastTickStart > MaxTickWait
        BY <2>1
    <2> QED
        BY <2>2 DEF CheckHealth
<1> QED
    BY <1>1, WaitAlways, PTL

LateUntilNextCycle ==
    [][CheckHealth = "late" /\ CheckHealth' # "late" =>
          loop # "collecting" /\ loop' = "collecting"]_vars

\* A late health check is not talked out of it by the end of a cycle, by a stop
\* or by the clock: only a new cycle ends the lateness (lines 104-106, 151-157).
THEOREM LateStaysLate == Spec => LateUntilNextCycle
<1>1. TypeOK /\ TypeOK' /\ [Next]_vars =>
          [CheckHealth = "late" /\ CheckHealth' # "late" =>
              loop # "collecting" /\ loop' = "collecting"]_vars
    <2> SUFFICES ASSUME TypeOK, TypeOK', Next, CheckHealth = "late", CheckHealth' # "late"
                 PROVE  loop # "collecting" /\ loop' = "collecting"
        OBVIOUS
    <2>1. /\ lastTickStart \in 0..MaxAge /\ lastTickStart' \in 0..MaxAge
          /\ MaxTickWait \in Int /\ MaxAge \in Nat
        BY TimeAssumption DEF TypeOK, MaxTickWait
    <2>2. lastTickStart > MaxTickWait /\ ~(lastTickStart' > MaxTickWait)
        BY DEF CheckHealth, MaxTickWait
    <2>3. CASE Start \/ TakeTick
        BY <2>3 DEF Start, TakeTick, BeginCollect
    <2>4. CASE ClockTick
        <3>1. lastTickStart' = Older(lastTickStart)
            BY <2>4 DEF ClockTick
        <3> QED
            BY <2>1, <2>2, <3>1 DEF Older
    <2>5. CASE TakeStop \/ Finish \/ SourceReturns \/ Stop \/ Exited
               \/ \E recvErr \in {FALSE, setting.sinkFails} : Store(recvErr)
        <3>1. lastTickStart' = lastTickStart
            BY <2>5 DEF TakeStop, Finish, SourceReturns, Store, Stop, Exited, vars
        <3> QED
            BY <2>2, <3>1
    <2> QED
        BY <2>3, <2>4, <2>5 DEF Next, LoopStep
<1> QED
    BY <1>1, TypeCorrect, PTL DEF Spec, LateUntilNextCycle

\* With a sink that never fails, the cycle that ended last had an error and not
\* one node.
BlameFounded ==
    loop \in {"select", "exited"} /\ ~lastOk /\ ~setting.sinkFails =>
        \E d \in stored : d.err /\ d.nodes = 0

\* With a sink that never fails, the health check finds fault with no cycle but
\* the one that ended last: what is stored then is the batch of a collection that
\* failed and found no node, so that no earlier failure is held against the server
\* (lines 119-139).  RecoversHealth rests on it.
THEOREM BlameIsFounded == Spec => []BlameFounded
<1> DEFINE Inv ==
        (loop = "finishBad" \/ (loop \in {"select", "exited"} /\ ~lastOk))
            /\ ~setting.sinkFails => \E d \in stored : d.err /\ d.nodes = 0
<1>1. Init => Inv
    BY DEF Init
<1>2. TypeOK /\ TypeOK' /\ Inv /\ [Next]_vars => Inv'
    <2> SUFFICES ASSUME TypeOK, Inv, [Next]_vars,
                        loop' = "finishBad" \/ (loop' \in {"select", "exited"} /\ ~lastOk'),
                        ~setting'.sinkFails
                 PROVE  \E d \in stored' : d.err /\ d.nodes = 0
        OBVIOUS
    <2>1. ~setting.sinkFails
        BY SettingKept
    <2>2. CASE Start \/ TakeTick \/ SourceReturns
        BY <2>2 DEF Start, TakeTick, SourceReturns, BeginCollect
    <2>3. CASE TakeStop \/ Finish \/ Stop \/ Exited \/ UNCHANGED vars
        <3>1. stored' = stored
            BY <2>3 DEF TakeStop, Finish, Stop, Exited, vars
        <3>2. loop = "finishBad" \/ (loop \in {"select", "exited"} /\ ~lastOk)
            BY <2>3 DEF TakeStop, Finish, Stop, Exited, vars
        <3> QED
            BY <2>1, <3>1, <3>2
    <2>4. ASSUME NEW recvErr \in {FALSE, setting.sinkFails}, Store(recvErr)
          PROVE  \E d \in stored' : d.err /\ d.nodes = 0
        <3> DEFINE new == [nodes |-> data.nodes, err |-> data.err, age |-> elapsed]
        <3>1. ~recvErr
            BY <2>1
        <3>2. stored' = {new} /\ loop' # "select" /\ loop' # "exited"
            BY <2>4, <3>1 DEF Store
        <3>3. ~HealthyTick(data, recvErr)
            BY <2>4, <3>2 DEF Store
        <3> QED
            BY <3>1, <3>2, <3>3 DEF HealthyTick
    <2>5. CASE ClockTick
        <3>1. /\ UNCHANGED <<loop, lastOk>>
              /\ stored' = {[d EXCEPT !.age = Older(@)] : d \in stored}
            BY <2>5 DEF ClockTick
        <3>2. PICK d \in stored : d.err /\ d.nodes = 0
            BY <2>1, <3>1
        <3> DEFINE e == [d EXCEPT !.age = Older(@)]
        <3>3. e \in stored' /\ e.err = d.err /\ e.nodes = d.nodes
            BY <3>1 DEF TypeOK
        <3> QED
            BY <3>2, <3>3
    <2> QED
        BY <2>2, <2>3, <2>4, <2>5 DEF Next, LoopStep
<1>3. Inv => BlameFounded
    BY DEF BlameFounded
<1> QED
    BY <1>1, <1>2, <1>3, TypeCorrect, PTL DEF Spec
=============================================================================
