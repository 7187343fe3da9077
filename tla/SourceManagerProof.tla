-------------------------- MODULE SourceManagerProof --------------------------
(***************************************************************************)
(* Proofs about SourceManager, for every finite set of sources and all     *)
(* timeouts and delays.                                                    *)
(***************************************************************************)
EXTENDS SourceManager, FiniteSetTheorems, SequenceTheorems, TLAPS

LEMMA SrcsFinite ==
    ASSUME NEW S \in SUBSET Sources
    PROVE  IsFiniteSet(S) /\ Cardinality(S) \in Nat
BY SourcesAssumption, FS_Subset, FS_CardinalityType

LEMMA StaggerType ==
    ASSUME NEW n \in Nat
    PROVE  StaggerDelay(n) \in Nat
BY TimeAssumption DEF StaggerDelay, Earlier

\* The program keeps its types (pkg/sources/manager.go).
THEOREM TypeCorrect == Spec => []TypeOK
<1>1. Init => TypeOK
    <2> SUFFICES ASSUME Init PROVE TypeOK
        OBVIOUS
    <2>1. provErr \in BOOLEAN /\ srcs \in SUBSET Sources /\ errs \in SUBSET Sources
        BY Zenon DEF Init
    <2>2. /\ respCh \in Seq(Sources)
          /\ errCh \in Seq(Sources)
          /\ res \in Seq(Sources)
        BY DEF Init
    <2> QED
        BY <2>1, <2>2 DEF Init, TypeOK
<1>2. TypeOK /\ [Next]_vars => TypeOK'
    <2> SUFFICES ASSUME TypeOK, [Next]_vars PROVE TypeOK'
        OBVIOUS
    <2> USE DEF TypeOK
    <2>1. CASE List
        <3>1. PICK stagger \in [srcs' -> 0..(StaggerDelay(Cardinality(srcs')) - 1)] :
                  sleep' = [s \in Sources |-> IF s \in srcs' THEN stagger[s] ELSE 0]
            BY <2>1 DEF List
        <3>2. sleep' \in [Sources -> Nat]
            BY <3>1, <2>1, StaggerType, SrcsFinite DEF List
        <3> QED
            BY <2>1, <3>2 DEF List, AfterIteration
    <2>2. ASSUME NEW s \in Sources, Goroutine(s) PROVE TypeOK'
        <3>1. CASE Wake(s)
            BY <3>1, TimeAssumption DEF Wake, ContextDeadline, Earlier, collectorVars
        <3>2. CASE Answer(s) \/ Timeout(s)
            BY <3>2 DEF Answer, Timeout, Scraped, Outcomes, collectorVars
        <3>3. CASE SendResponse(s)
            BY <3>3 DEF SendResponse, collectorVars, scrapeVars
        <3>4. CASE SendErr(s)
            BY <3>4 DEF SendErr, collectorVars, scrapeVars
        <3> QED
            BY <2>2, <3>1, <3>2, <3>3, <3>4 DEF Goroutine
    <2>3. CASE RecvErr
        BY <2>3 DEF RecvErr, AppendErr, scrapeVars
    <2>4. CASE RecvResponse
        <3>1. respCh \in Seq(Sources) /\ respCh # <<>>
            BY <2>4 DEF RecvResponse
        <3>2. Head(respCh) \in Sources /\ Tail(respCh) \in Seq(Sources)
            BY <3>1
        <3>3. res' \in Seq(Sources)
            BY <2>4, <3>2 DEF RecvResponse, AppendBatch
        <3>4. pc' \in {"recvErr", "return"} /\ gathered' \in Nat
            BY <2>4 DEF RecvResponse, AfterIteration
        <3> QED
            BY <2>4, <3>2, <3>3, <3>4 DEF RecvResponse, scrapeVars
    <2>5. CASE Return
        BY <2>5 DEF Return, scrapeVars
    <2>6. CASE Tick
        BY <2>6 DEF Tick, collectorVars, scrapeVars
    <2>7. CASE UNCHANGED vars
        BY <2>7 DEF vars, collectorVars, scrapeVars
    <2> QED
        BY <2>1, <2>2, <2>3, <2>4, <2>5, <2>6, <2>7
        DEF Next, Collector, Terminated
<1> QED
    BY <1>1, <1>2, PTL DEF Spec

-----------------------------------------------------------------------------
(* Time.                                                                   *)

\* A goroutine is woken when its stagger is over, so that its deadline is the
\* scrape timeout after the start of the call, whatever the stagger was.
TimeInv ==
    /\ \A s \in srcs :
          /\ sleep[s] <= StaggerDelay(Cardinality(srcs)) - 1
          /\ task[s] = "sleeping" => now <= sleep[s]
          /\ task[s] = "querying" => deadline[s] = Earlier(BaseTimeout, ScrapeTimeout)
    /\ CollectBounded
    /\ pc = "list" => now = 0

\* A slow source cannot hold up the call: it is over by the scrape timeout or
\* the last wake-up (lines 105-117).
THEOREM CollectIsBounded == Spec => []CollectBounded
<1> DEFINE Inv == TypeOK /\ TimeInv
<1>1. Init => TimeInv
    <2> SUFFICES ASSUME Init PROVE TimeInv
        OBVIOUS
    <2>1. StaggerDelay(Cardinality({})) \in Nat
        BY FS_EmptySet, StaggerType
    <2> QED
        BY <2>1, TimeAssumption DEF Init, TimeInv, CollectBounded, Later, Earlier
<1>2. Inv /\ TypeOK' /\ [Next]_vars => TimeInv'
    <2> SUFFICES ASSUME TypeOK, TypeOK', TimeInv, [Next]_vars PROVE TimeInv'
        OBVIOUS
    <2> DEFINE bound == Earlier(BaseTimeout, ScrapeTimeout)
    <2>1. bound \in Nat
        BY TimeAssumption DEF Earlier
    <2>2. StaggerDelay(Cardinality(srcs)) \in Nat
        BY SrcsFinite, StaggerType DEF TypeOK
    <2>3. CASE List
        <3>1. StaggerDelay(Cardinality(srcs')) \in Nat
            BY SrcsFinite, StaggerType DEF TypeOK
        <3>2. \A s \in srcs' : sleep'[s] \in 0..(StaggerDelay(Cardinality(srcs')) - 1)
            BY <2>3 DEF List, TypeOK
        <3>3. \A s \in srcs' : task'[s] = "sleeping"
            BY <2>3 DEF List, TypeOK
        <3>4. now' = 0
            BY <2>3 DEF List, TimeInv
        <3>5. CollectBounded'
            BY <2>1, <3>1, <3>4 DEF CollectBounded, Later
        <3> QED
            BY <3>1, <3>2, <3>3, <3>4, <3>5 DEF TimeInv
    <2>4. ASSUME NEW s \in Sources, Goroutine(s) PROVE TimeInv'
        <3>1. CASE Wake(s)
            <4>1. s \in srcs => deadline'[s] = bound
                BY <3>1, TimeAssumption
                DEF Wake, ContextDeadline, TypeOK, TimeInv, Earlier
            <4> QED
                BY <3>1, <4>1 DEF Wake, collectorVars, TypeOK, TimeInv, CollectBounded
        <3>2. CASE Answer(s) \/ Timeout(s)
            BY <3>2 DEF Answer, Timeout, Scraped, collectorVars, TypeOK, TimeInv,
                        CollectBounded
        <3>3. CASE SendResponse(s)
            BY <3>3 DEF SendResponse, collectorVars, scrapeVars, TypeOK, TimeInv,
                        CollectBounded
        <3>4. CASE SendErr(s)
            BY <3>4 DEF SendErr, collectorVars, scrapeVars, TypeOK, TimeInv,
                        CollectBounded
        <3> QED
            BY <2>4, <3>1, <3>2, <3>3, <3>4 DEF Goroutine
    <2>5. CASE RecvErr \/ RecvResponse \/ Return
        <3>1. UNCHANGED <<now, srcs, task, sleep, deadline>> /\ pc' # "list"
            BY <2>5 DEF RecvErr, RecvResponse, Return, AfterIteration, scrapeVars
        <3> QED
            BY <3>1 DEF TimeInv, CollectBounded
    <2>6. CASE Tick
        <3>1. UNCHANGED <<srcs, task, sleep, deadline, pc>> /\ now' = now + 1
            BY <2>6 DEF Tick, collectorVars, scrapeVars
        <3>2. PICK s \in srcs : task[s] \in {"sleeping", "querying"}
            BY <2>6 DEF Tick
        <3>3. \A t \in srcs :
                 /\ sleep[t] \in Nat
                 /\ task[t] = "sleeping" => now < sleep[t]
                 /\ task[t] = "querying" => now < deadline[t]
            <4>1. \A t \in srcs : sleep[t] \in Nat
                BY DEF TypeOK
            <4> QED
                BY <2>6, <4>1 DEF Tick
        <3>4. now < bound \/ now < StaggerDelay(Cardinality(srcs)) - 1
            <4>1. CASE task[s] = "sleeping"
                <5>1. sleep[s] \in Nat /\ now < sleep[s]
                    BY <3>2, <3>3, <4>1
                <5>2. sleep[s] <= StaggerDelay(Cardinality(srcs)) - 1
                    BY <3>2 DEF TimeInv
                <5>3. now \in Nat
                    BY DEF TypeOK
                <5> QED
                    BY <2>2, <5>1, <5>2, <5>3
            <4>2. CASE task[s] = "querying"
                BY <3>2, <3>3, <4>2 DEF TimeInv
            <4> QED
                BY <3>2, <4>1, <4>2
        <3>5. CollectBounded'
            <4>1. now \in Nat
                BY DEF TypeOK
            <4> QED
                BY <2>1, <2>2, <3>1, <3>4, <4>1 DEF CollectBounded, Later
        <3>6. \A t \in srcs : task[t] = "sleeping" => now + 1 <= sleep[t]
            <4>1. now \in Nat
                BY DEF TypeOK
            <4> QED
                BY <3>3, <4>1
        <3>7. pc # "list"
            BY <2>6 DEF Tick, CollectorBlocked
        <3> QED
            BY <3>1, <3>5, <3>6, <3>7 DEF TimeInv
    <2>7. CASE UNCHANGED vars
        BY <2>7 DEF vars, collectorVars, scrapeVars, TimeInv, CollectBounded
    <2> QED
        BY <2>3, <2>4, <2>5, <2>6, <2>7 DEF Next, Collector, Terminated
<1>3. Inv => CollectBounded
    BY DEF TimeInv
<1> QED
    BY <1>1, <1>2, <1>3, TypeCorrect, PTL DEF Spec

-----------------------------------------------------------------------------
(* The channels.                                                           *)

\* The goroutines that have sent their batch, and those that have sent both.
SentBatch == {s \in srcs : task[s] \in {"reporting", "done"}}
SentBoth == {s \in srcs : task[s] \in {"done"}}

\* The errors and the batches the collector has taken out of the channels.
ErrsTaken == IF pc = "recvResponse" THEN gathered + 1 ELSE gathered

\* What was sent has been taken or is still in the channel; and the loop ends
\* only with as many iterations as there are sources.
CountInv ==
    /\ Cardinality(SentBoth) = ErrsTaken + Len(errCh)
    /\ Cardinality(SentBatch) = gathered + Len(respCh)
    /\ pc = "list" => srcs = {} /\ gathered = 0
    /\ pc \in {"return", "returned"} => gathered = Cardinality(srcs)
    /\ \A s \in Sources \ srcs : task[s] = "none"

\* A goroutine that sends its batch, or its error, adds one to the count.
LEMMA SetOfTasksGrows ==
    ASSUME TypeOK, NEW s \in srcs, NEW from, NEW to, task[s] = from,
           task' = [task EXCEPT ![s] = to], srcs' = srcs,
           NEW places, from \notin places
    PROVE  LET at == {t \in srcs : task[t] \in places}
           IN  Cardinality({t \in srcs' : task'[t] \in places}) =
                   IF to \in places THEN Cardinality(at) + 1 ELSE Cardinality(at)
<1> DEFINE at == {t \in srcs : task[t] \in places}
<1>1. s \in Sources /\ IsFiniteSet(at) /\ s \notin at
    BY SrcsFinite DEF TypeOK
<1>2. \A t \in srcs' : task'[t] = IF t = s THEN to ELSE task[t]
    BY <1>1 DEF TypeOK
<1>3. {t \in srcs' : task'[t] \in places} = IF to \in places THEN at \cup {s} ELSE at
    BY <1>1, <1>2
<1>4. Cardinality(at \cup {s}) = Cardinality(at) + 1
    BY <1>1, FS_AddElement, Zenon
<1> QED
    BY <1>3, <1>4, Zenon

LEMMA CountTypes ==
    ASSUME TypeOK
    PROVE  /\ IsFiniteSet(srcs) /\ Cardinality(srcs) \in Nat
           /\ IsFiniteSet(SentBoth) /\ Cardinality(SentBoth) \in Nat
           /\ IsFiniteSet(SentBatch) /\ Cardinality(SentBatch) \in Nat
           /\ Cardinality(SentBoth) <= Cardinality(SentBatch)
           /\ Cardinality(SentBatch) <= Cardinality(srcs)
<1>1. SentBoth \subseteq SentBatch /\ SentBatch \subseteq srcs
    BY DEF SentBoth, SentBatch
<1>2. srcs \in SUBSET Sources
    BY DEF TypeOK
<1> QED
    BY <1>1, <1>2, SrcsFinite, FS_Subset, FS_CardinalityType

LEMMA CountInitially == Init => CountInv
<1> SUFFICES ASSUME Init PROVE CountInv
    OBVIOUS
<1>1. SentBoth = {} /\ SentBatch = {}
    BY DEF Init, SentBoth, SentBatch
<1> QED
    BY <1>1, FS_EmptySet DEF Init, CountInv, ErrsTaken

LEMMA CountPreserved ==
    ASSUME TypeOK, TypeOK', CountInv, [Next]_vars
    PROVE  CountInv'
<1> USE DEF CountInv
<1>1. CASE List
    <2>1. SentBoth = {} /\ SentBatch = {} /\ SentBoth' = {} /\ SentBatch' = {}
        BY <1>1 DEF List, SentBoth, SentBatch, TypeOK
    <2>2. gathered' = 0 /\ errCh' = errCh /\ respCh' = respCh
        BY <1>1 DEF List
    <2>3. Len(errCh) = 0 /\ Len(respCh) = 0
        BY <1>1, <2>1, FS_EmptySet DEF List, ErrsTaken, TypeOK
    <2>4. /\ pc' \in {"recvErr", "return"}
          /\ pc' = "return" => Cardinality(srcs') = 0
        <3>1. Cardinality(srcs') \in Nat
            BY SrcsFinite DEF TypeOK
        <3>2. pc' = IF 0 < Cardinality(srcs') THEN "recvErr" ELSE "return"
            BY <1>1 DEF List, AfterIteration
        <3> QED
            BY <3>1, <3>2
    <2>5. \A s \in Sources \ srcs' : task'[s] = "none"
        BY <1>1 DEF List
    <2> QED
        BY <2>1, <2>2, <2>3, <2>4, <2>5, FS_EmptySet DEF ErrsTaken
<1>2. ASSUME NEW s \in Sources, Goroutine(s) PROVE CountInv'
    <2> USE DEF Goroutine, Wake, Answer, Timeout, Scraped, SendResponse, SendErr
    <2>1. task[s] # "none"
        BY <1>2
    <2>2. s \in srcs
        BY <2>1
    <2>3. UNCHANGED <<pc, gathered, srcs>>
        BY <1>2 DEF collectorVars
    <2>4. \A t \in Sources \ srcs' : task'[t] = "none"
        BY <1>2, <2>2, <2>3 DEF TypeOK
    <2>5. CASE Wake(s) \/ Answer(s) \/ Timeout(s)
        <3>1. UNCHANGED <<errCh, respCh>>
            BY <2>5
        <3>2. SentBoth' = SentBoth /\ SentBatch' = SentBatch
            <4>1. PICK to \in {"querying", "responding"} :
                      task' = [task EXCEPT ![s] = to] /\ task[s] \in {"sleeping", "querying"}
                BY <2>5
            <4>2. \A t \in Sources : task'[t] = IF t = s THEN to ELSE task[t]
                BY <4>1 DEF TypeOK
            <4> QED
                BY <2>3, <4>1, <4>2 DEF TypeOK, SentBoth, SentBatch
        <3> QED
            BY <2>3, <2>4, <3>1, <3>2 DEF ErrsTaken
    <2>6. CASE SendResponse(s)
        <3>1. errCh' = errCh /\ Len(respCh') = Len(respCh) + 1
            BY <2>6 DEF TypeOK
        <3>2. Cardinality(SentBatch') = Cardinality(SentBatch) + 1
            BY <2>2, <2>3, <2>6, SetOfTasksGrows DEF SentBatch
        <3>3. SentBoth' = SentBoth
            BY <2>3, <2>6 DEF SentBoth, TypeOK
        <3>4. Len(respCh) \in Nat /\ gathered \in Nat /\ ErrsTaken' = ErrsTaken
            BY <2>3 DEF TypeOK, ErrsTaken
        <3> QED
            BY <2>3, <2>4, <3>1, <3>2, <3>3, <3>4
    <2>7. CASE SendErr(s)
        <3>1. respCh' = respCh /\ Len(errCh') = Len(errCh) + 1
            BY <2>7 DEF TypeOK
        <3>2. SentBatch' = SentBatch
            BY <2>3, <2>7 DEF SentBatch, TypeOK
        <3>3. Cardinality(SentBoth') = Cardinality(SentBoth) + 1
            BY <2>2, <2>3, <2>7, SetOfTasksGrows DEF SentBoth
        <3>4. Len(errCh) \in Nat /\ ErrsTaken \in Nat /\ ErrsTaken' = ErrsTaken
            BY <2>3 DEF TypeOK, ErrsTaken
        <3> QED
            BY <2>3, <2>4, <3>1, <3>2, <3>3, <3>4
    <2> QED
        BY <1>2, <2>5, <2>6, <2>7
<1>3. CASE RecvErr
    <2>1. /\ UNCHANGED <<srcs, task, respCh, gathered>>
          /\ pc = "recvErr" /\ pc' = "recvResponse"
          /\ Len(errCh') = Len(errCh) - 1
        BY <1>3 DEF RecvErr, TypeOK
    <2>2. SentBoth' = SentBoth /\ SentBatch' = SentBatch
        BY <2>1 DEF SentBoth, SentBatch
    <2> QED
        BY <2>1, <2>2 DEF ErrsTaken, TypeOK
<1>4. CASE RecvResponse
    <2>1. /\ UNCHANGED <<srcs, task, errCh>>
          /\ gathered' = gathered + 1 /\ pc = "recvResponse"
          /\ respCh # <<>>
          /\ Len(respCh') = Len(respCh) - 1
          /\ pc' = IF gathered' < Cardinality(srcs) THEN "recvErr" ELSE "return"
        <3>1. respCh \in Seq(Sources) /\ respCh # <<>> /\ respCh' = Tail(respCh)
            BY <1>4 DEF RecvResponse, TypeOK
        <3>2. Len(respCh') = Len(respCh) - 1
            BY <3>1
        <3> QED
            BY <1>4, <3>1, <3>2, Zenon DEF RecvResponse, AfterIteration
    <2>2. SentBoth' = SentBoth /\ SentBatch' = SentBatch
        BY <2>1 DEF SentBoth, SentBatch
    <2>3. Len(respCh) >= 1
        BY <2>1 DEF TypeOK
    <2>4. /\ gathered \in Nat /\ Len(respCh) \in Nat /\ Len(errCh) \in Nat
          /\ Cardinality(srcs) \in Nat
        <3>1. gathered \in Nat /\ respCh \in Seq(Sources) /\ errCh \in Seq(Sources)
            BY DEF TypeOK
        <3> QED
            BY <3>1, CountTypes
    <2>5. gathered' <= Cardinality(srcs)
        BY <2>1, <2>3, <2>4, CountTypes
    <2>6. pc' = "return" => gathered' = Cardinality(srcs)
        BY <2>1, <2>4, <2>5
    <2> QED
        BY <2>1, <2>2, <2>4, <2>6 DEF ErrsTaken
<1>5. CASE Return
    <2>1. UNCHANGED <<srcs, task, errCh, respCh, gathered>>
          /\ pc = "return" /\ pc' = "returned"
        BY <1>5 DEF Return
    <2>2. SentBoth' = SentBoth /\ SentBatch' = SentBatch
        BY <2>1 DEF SentBoth, SentBatch
    <2> QED
        BY <2>1, <2>2 DEF ErrsTaken
<1>6. CASE Tick \/ UNCHANGED vars
    <2>1. UNCHANGED <<srcs, task, errCh, respCh, gathered, pc>>
        BY <1>6 DEF Tick, vars, collectorVars
    <2>2. SentBoth' = SentBoth /\ SentBatch' = SentBatch
        BY <2>1 DEF SentBoth, SentBatch
    <2> QED
        BY <2>1, <2>2 DEF ErrsTaken
<1> QED
    BY <1>1, <1>2, <1>3, <1>4, <1>5, <1>6 DEF Next, Collector, Terminated

LEMMA CountAlways == Spec => [](TypeOK /\ CountInv)
<1>1. TypeOK /\ TypeOK' /\ CountInv /\ [Next]_vars => CountInv'
    BY CountPreserved
<1> QED
    BY <1>1, CountInitially, TypeCorrect, PTL DEF Spec

\* When the channels are closed every goroutine has sent both its values, so
\* that none of them panics on a closed channel (lines 97-100, 125-126).
THEOREM NobodySendsAfterClose == Spec => []NoSendAfterClose
<1>1. TypeOK /\ CountInv => NoSendAfterClose
    <2> SUFFICES ASSUME TypeOK, CountInv, pc = "returned"
                 PROVE  \A s \in srcs : task[s] = "done"
        BY DEF NoSendAfterClose
    <2>1. Len(errCh) \in Nat
        BY DEF TypeOK
    <2>2. Cardinality(SentBoth) = Cardinality(srcs)
        BY <2>1, CountTypes DEF CountInv, ErrsTaken
    <2>3. SentBoth = srcs
        BY <2>2, CountTypes, FS_Subset DEF SentBoth
    <2> QED
        BY <2>3 DEF SentBoth
<1> QED
    BY <1>1, CountAlways, PTL

\* After an error the collector finds a batch at once: there are never more
\* errors sent than batches (lines 125-126, 133-134).
THEOREM BatchAlwaysReady == Spec => []BatchReadyAfterErr
<1>1. TypeOK /\ CountInv => BatchReadyAfterErr
    <2> SUFFICES ASSUME TypeOK, CountInv, pc = "recvResponse"
                 PROVE  respCh # <<>>
        BY DEF BatchReadyAfterErr
    <2>1. /\ Len(errCh) \in Nat /\ gathered \in Nat /\ Len(respCh) \in Nat
          /\ respCh = <<>> => Len(respCh) = 0
        BY DEF TypeOK
    <2> QED
        BY <2>1, CountTypes DEF CountInv, ErrsTaken
<1> QED
    BY <1>1, CountAlways, PTL

-----------------------------------------------------------------------------
(* What the channels carry.                                                *)

LEMMA AppendToChannel ==
    ASSUME NEW S, NEW q \in Seq(S), NEW x \in S
    PROVE  /\ ToSet(Append(q, x)) = ToSet(q) \cup {x}
           /\ IsInjective(q) /\ x \notin ToSet(q) => IsInjective(Append(q, x))
<1> DEFINE r == Append(q, x)
<1>1. /\ DOMAIN q = 1..Len(q) /\ Len(q) \in Nat
      /\ DOMAIN r = 1..(Len(q) + 1)
      /\ r[Len(q) + 1] = x
      /\ \A i \in 1..Len(q) : r[i] = q[i]
    OBVIOUS
<1>2. ToSet(r) = ToSet(q) \cup {x}
    BY <1>1 DEF ToSet
<1>3. IsInjective(q) /\ x \notin ToSet(q) => IsInjective(r)
    BY <1>1 DEF ToSet, IsInjective
<1> QED
    BY <1>2, <1>3

LEMMA TakeFromChannel ==
    ASSUME NEW S, NEW q \in Seq(S), q # <<>>
    PROVE  /\ Head(q) \in S
           /\ ToSet(q) = ToSet(Tail(q)) \cup {Head(q)}
           /\ IsInjective(q) => IsInjective(Tail(q)) /\ Head(q) \notin ToSet(Tail(q))
<1> DEFINE t == Tail(q)
<1>1. /\ DOMAIN q = 1..Len(q) /\ Len(q) \in Nat /\ Len(q) >= 1
      /\ Head(q) = q[1]
      /\ DOMAIN t = 1..(Len(q) - 1)
      /\ \A i \in 1..(Len(q) - 1) : t[i] = q[i + 1]
    OBVIOUS
<1>2. ToSet(q) = ToSet(t) \cup {Head(q)}
    <2>1. \A i \in 2..Len(q) : q[i] = t[i - 1] /\ i - 1 \in DOMAIN t
        BY <1>1
    <2>2. ToSet(q) \subseteq ToSet(t) \cup {Head(q)}
        <3>1. SUFFICES ASSUME NEW i \in 1..Len(q)
                       PROVE  q[i] \in ToSet(t) \cup {Head(q)}
            BY <1>1 DEF ToSet
        <3>2. CASE i = 1
            BY <1>1, <3>2
        <3>3. CASE i # 1
            <4>1. i \in 2..Len(q)
                BY <1>1, <3>3
            <4> QED
                BY <2>1, <4>1 DEF ToSet
        <3> QED
            BY <3>2, <3>3
    <2>3. ToSet(t) \cup {Head(q)} \subseteq ToSet(q)
        BY <1>1 DEF ToSet
    <2> QED
        BY <2>2, <2>3
<1>3. IsInjective(q) => IsInjective(t)
    BY <1>1 DEF IsInjective
<1>4. IsInjective(q) => Head(q) \notin ToSet(t)
    BY <1>1 DEF IsInjective, ToSet
<1> QED
    BY <1>1, <1>2, <1>3, <1>4

\* A batch that was sent is in the channel or in the result, never in both and
\* never twice, unless it is nil; likewise the errors.
BatchInv ==
    /\ IsInjective(respCh) /\ IsInjective(res)
    /\ ToSet(res) \cap ToSet(respCh) = {}
    /\ ToSet(respCh) \subseteq SentBatch
    /\ \A s \in ToSet(res) : s \in SentBatch /\ outcome[s] # "failed"
    /\ \A s \in SentBatch :
          outcome[s] # "failed" => s \in ToSet(respCh) \/ s \in ToSet(res)
ErrInv ==
    /\ ToSet(errCh) \subseteq SentBoth
    /\ \A s \in errs : s \in SentBoth /\ outcome[s] # "full"
    /\ \A s \in SentBoth : outcome[s] # "full" => s \in ToSet(errCh) \/ s \in errs

LEMMA KeptInitially == Init => BatchInv /\ ErrInv
<1> SUFFICES ASSUME Init PROVE BatchInv /\ ErrInv
    OBVIOUS
<1>1. SentBoth = {} /\ SentBatch = {}
    BY DEF Init, SentBoth, SentBatch
<1>2. respCh = <<>> /\ errCh = <<>> /\ res = <<>> /\ errs = {}
    BY DEF Init
<1> QED
    BY <1>1, <1>2 DEF BatchInv, ErrInv, ToSet, IsInjective

LEMMA BatchesKept ==
    ASSUME TypeOK, TypeOK', CountInv, BatchInv, [Next]_vars
    PROVE  BatchInv'
<1> USE DEF BatchInv
<1>1. CASE List
    <2>1. SentBatch = {} /\ SentBatch' = {}
        BY <1>1 DEF List, SentBatch, TypeOK, CountInv
    <2>2. UNCHANGED <<respCh, res>>
        BY <1>1 DEF List
    <2> QED
        BY <2>1, <2>2
<1>2. ASSUME NEW s \in Sources, Wake(s) \/ Answer(s) \/ Timeout(s) \/ SendErr(s)
      PROVE  BatchInv'
    <2>1. UNCHANGED <<respCh, res, srcs>>
        BY <1>2 DEF Wake, Answer, Timeout, Scraped, SendErr, collectorVars
    <2>2. SentBatch' = SentBatch
        <3>1. PICK to \in {"querying", "responding", "done"} :
                  /\ task' = [task EXCEPT ![s] = to]
                  /\ task[s] \in {"sleeping", "querying", "reporting"}
                  /\ to = "done" <=> task[s] = "reporting"
            BY <1>2 DEF Wake, Answer, Timeout, Scraped, SendErr
        <3>2. \A t \in Sources : task'[t] = IF t = s THEN to ELSE task[t]
            BY <3>1 DEF TypeOK
        <3> QED
            BY <2>1, <3>1, <3>2 DEF SentBatch, TypeOK
    <2>3. \A t \in SentBatch : outcome'[t] = outcome[t]
        <3>1. CASE Wake(s) \/ SendErr(s)
            BY <3>1 DEF Wake, SendErr, scrapeVars
        <3>2. CASE Answer(s) \/ Timeout(s)
            BY <3>2 DEF Answer, Timeout, Scraped, SentBatch, TypeOK
        <3> QED
            BY <1>2, <3>1, <3>2
    <2> QED
        BY <2>1, <2>2, <2>3
<1>3. ASSUME NEW s \in Sources, SendResponse(s) PROVE BatchInv'
    <2>1. /\ UNCHANGED <<res, srcs, outcome>> /\ respCh' = Append(respCh, s)
          /\ s \in srcs /\ s \notin SentBatch
        BY <1>3 DEF SendResponse, collectorVars, scrapeVars, SentBatch, CountInv
    <2>2. SentBatch' = SentBatch \cup {s}
        BY <1>3, <2>1 DEF SendResponse, SentBatch, TypeOK
    <2>3. respCh \in Seq(Sources)
        BY DEF TypeOK
    <2>4. ToSet(respCh') = ToSet(respCh) \cup {s} /\ IsInjective(respCh')
        BY <2>1, <2>3, AppendToChannel
    <2> QED
        BY <2>1, <2>2, <2>4
<1>4. CASE RecvErr
    <2>1. UNCHANGED <<respCh, res, srcs, task, outcome>>
        BY <1>4 DEF RecvErr, scrapeVars
    <2> QED
        BY <2>1 DEF SentBatch
<1>5. CASE RecvResponse
    <2> DEFINE s == Head(respCh)
    <2>1. /\ UNCHANGED <<srcs, task, outcome>>
          /\ respCh # <<>> /\ respCh' = Tail(respCh) /\ res' = AppendBatch(s)
        BY <1>5 DEF RecvResponse, scrapeVars
    <2>2. SentBatch' = SentBatch
        BY <2>1 DEF SentBatch
    <2>3. respCh \in Seq(Sources) /\ res \in Seq(Sources)
        BY DEF TypeOK
    <2>4. /\ s \in Sources
          /\ ToSet(respCh) = ToSet(respCh') \cup {s}
          /\ IsInjective(respCh') /\ s \notin ToSet(respCh')
        BY <2>1, <2>3, TakeFromChannel
    <2>5. CASE outcome[s] = "failed"
        BY <2>1, <2>2, <2>4, <2>5 DEF AppendBatch
    <2>6. CASE outcome[s] # "failed"
        <3>1. res' = Append(res, s)
            BY <2>1, <2>6 DEF AppendBatch
        <3>2. s \notin ToSet(res)
            BY <2>4
        <3>3. ToSet(res') = ToSet(res) \cup {s} /\ IsInjective(res')
            BY <2>3, <2>4, <3>1, <3>2, AppendToChannel
        <3> QED
            BY <2>1, <2>2, <2>4, <2>6, <3>3
    <2> QED
        BY <2>5, <2>6
<1>6. CASE Return \/ Tick \/ UNCHANGED vars
    <2>1. UNCHANGED <<respCh, res, srcs, task, outcome>>
        BY <1>6 DEF Return, Tick, vars, collectorVars, scrapeVars
    <2> QED
        BY <2>1 DEF SentBatch
<1> QED
    BY <1>1, <1>2, <1>3, <1>4, <1>5, <1>6 DEF Next, Collector, Goroutine, Terminated

LEMMA ErrsKept ==
    ASSUME TypeOK, TypeOK', CountInv, ErrInv, [Next]_vars
    PROVE  ErrInv'
<1> USE DEF ErrInv
<1>1. CASE List
    <2>1. SentBoth = {} /\ SentBoth' = {}
        BY <1>1 DEF List, SentBoth, TypeOK, CountInv
    <2>2. UNCHANGED <<errCh, errs>>
        BY <1>1 DEF List
    <2> QED
        BY <2>1, <2>2
<1>2. ASSUME NEW s \in Sources, Wake(s) \/ Answer(s) \/ Timeout(s) \/ SendResponse(s)
      PROVE  ErrInv'
    <2>1. UNCHANGED <<errCh, errs, srcs>>
        BY <1>2 DEF Wake, Answer, Timeout, Scraped, SendResponse, collectorVars
    <2>2. SentBoth' = SentBoth
        <3>1. PICK to \in {"querying", "responding", "reporting"} :
                  /\ task' = [task EXCEPT ![s] = to]
                  /\ task[s] \in {"sleeping", "querying", "responding"}
            BY <1>2 DEF Wake, Answer, Timeout, Scraped, SendResponse
        <3>2. \A t \in Sources : task'[t] = IF t = s THEN to ELSE task[t]
            BY <3>1 DEF TypeOK
        <3> QED
            BY <2>1, <3>1, <3>2 DEF SentBoth, TypeOK
    <2>3. \A t \in SentBoth : outcome'[t] = outcome[t]
        <3>1. CASE Wake(s) \/ SendResponse(s)
            BY <3>1 DEF Wake, SendResponse, scrapeVars
        <3>2. CASE Answer(s) \/ Timeout(s)
            BY <3>2 DEF Answer, Timeout, Scraped, SentBoth, TypeOK
        <3> QED
            BY <1>2, <3>1, <3>2
    <2> QED
        BY <2>1, <2>2, <2>3
<1>3. ASSUME NEW s \in Sources, SendErr(s) PROVE ErrInv'
    <2>1. /\ UNCHANGED <<errs, srcs, outcome>> /\ errCh' = Append(errCh, s)
          /\ s \in srcs
        BY <1>3 DEF SendErr, collectorVars, scrapeVars, CountInv
    <2>2. SentBoth' = SentBoth \cup {s}
        BY <1>3, <2>1 DEF SendErr, SentBoth, TypeOK
    <2>3. errCh \in Seq(Sources)
        BY DEF TypeOK
    <2>4. ToSet(errCh') = ToSet(errCh) \cup {s}
        BY <2>1, <2>3, AppendToChannel
    <2> QED
        BY <2>1, <2>2, <2>4
<1>4. CASE RecvErr
    <2> DEFINE s == Head(errCh)
    <2>1. /\ UNCHANGED <<srcs, task, outcome>>
          /\ errCh # <<>> /\ errCh' = Tail(errCh) /\ errs' = AppendErr(s)
        BY <1>4 DEF RecvErr, scrapeVars
    <2>2. SentBoth' = SentBoth
        BY <2>1 DEF SentBoth
    <2>3. errCh \in Seq(Sources)
        BY DEF TypeOK
    <2>4. ToSet(errCh) = ToSet(errCh') \cup {s}
        BY <2>1, <2>3, TakeFromChannel
    <2> QED
        BY <2>1, <2>2, <2>4 DEF AppendErr
<1>5. CASE RecvResponse \/ Return \/ Tick \/ UNCHANGED vars
    <2>1. UNCHANGED <<errCh, errs, srcs, task, outcome>>
        BY <1>5 DEF RecvResponse, Return, Tick, vars, collectorVars, scrapeVars
    <2> QED
        BY <2>1 DEF SentBoth
<1> QED
    BY <1>1, <1>2, <1>3, <1>4, <1>5 DEF Next, Collector, Goroutine, Terminated

\* The inductive invariant of the call.
CollectInv == TypeOK /\ CountInv /\ BatchInv /\ ErrInv

LEMMA CollectInvAlways == Spec => []CollectInv
<1>1. TypeOK /\ TypeOK' /\ CountInv /\ BatchInv /\ ErrInv /\ [Next]_vars
          => BatchInv' /\ ErrInv'
    BY BatchesKept, ErrsKept
<1> QED
    BY <1>1, KeptInitially, CountAlways, PTL DEF Spec, CollectInv

\* At the end of the loop both channels are empty and every goroutine has sent.
LEMMA AllTaken ==
    ASSUME CollectInv, pc \in {"return", "returned"}
    PROVE  /\ SentBoth = srcs /\ SentBatch = srcs
           /\ ToSet(respCh) = {} /\ ToSet(errCh) = {}
<1> USE DEF CollectInv
<1>1. /\ Len(errCh) \in Nat /\ Len(respCh) \in Nat
      /\ errCh \in [1..Len(errCh) -> Sources] /\ respCh \in [1..Len(respCh) -> Sources]
    BY DEF TypeOK
<1>2. /\ Cardinality(SentBoth) = Cardinality(srcs) + Len(errCh)
      /\ Cardinality(SentBatch) = Cardinality(srcs) + Len(respCh)
    BY DEF CountInv, ErrsTaken
<1>3. /\ Cardinality(SentBoth) = Cardinality(srcs)
      /\ Cardinality(SentBatch) = Cardinality(srcs)
      /\ Len(errCh) = 0 /\ Len(respCh) = 0
    BY <1>1, <1>2, CountTypes
<1>4. SentBoth \in SUBSET srcs /\ SentBatch \in SUBSET srcs
    BY DEF SentBoth, SentBatch
<1>5. SentBoth = srcs /\ SentBatch = srcs
    BY <1>3, <1>4, CountTypes, FS_Subset
<1> QED
    BY <1>1, <1>3, <1>5 DEF ToSet

LEMMA ResultComplete ==
    ASSUME CollectInv, pc \in {"return", "returned"}
    PROVE  /\ ToSet(res) = {s \in srcs : outcome[s] # "failed"}
           /\ IsInjective(res)
           /\ errs = {s \in srcs : outcome[s] # "full"}
BY AllTaken DEF CollectInv, BatchInv, ErrInv

\* One failing node costs nobody else's metrics, and no failure goes
\* unreported, whatever order the goroutines send in (lines 132-146).
THEOREM NothingIsLost == Spec => []NothingLost
<1>1. CollectInv => NothingLost
    BY ResultComplete DEF NothingLost
<1> QED
    BY <1>1, CollectInvAlways, PTL

-----------------------------------------------------------------------------
(* Refinement.                                                             *)

\* A goroutine that has scraped its source knows how that ended.
OutcomeInv ==
    \A s \in Sources :
        task[s] \in {"responding", "reporting", "done"} => outcome[s] \in Outcomes

LEMMA OutcomeKnown == Spec => []OutcomeInv
<1>1. Init => OutcomeInv
    BY DEF Init, OutcomeInv
<1>2. TypeOK /\ OutcomeInv /\ [Next]_vars => OutcomeInv'
    <2> SUFFICES ASSUME TypeOK, OutcomeInv, [Next]_vars PROVE OutcomeInv'
        OBVIOUS
    <2> USE DEF OutcomeInv
    <2>1. CASE List
        BY <2>1 DEF List
    <2>2. ASSUME NEW s \in Sources, Goroutine(s) PROVE OutcomeInv'
        BY <2>2 DEF Goroutine, Wake, Answer, Timeout, Scraped, SendResponse, SendErr,
                    scrapeVars, Outcomes, TypeOK
    <2>3. CASE RecvErr \/ RecvResponse \/ Return \/ Tick \/ UNCHANGED vars
        <3>1. UNCHANGED <<task, outcome>>
            BY <2>3 DEF RecvErr, RecvResponse, Return, Tick, vars, scrapeVars
        <3> QED
            BY <3>1
    <2> QED
        BY <2>1, <2>2, <2>3 DEF Next, Collector, Terminated
<1> QED
    BY <1>1, <1>2, TypeCorrect, PTL DEF Spec

\* A sequence without repetitions orders the set of its elements.
LEMMA InjectiveSeqOrdersItsSet ==
    ASSUME NEW S, NEW q \in Seq(S), IsInjective(q)
    PROVE  q \in SetToSeqs(ToSet(q))
<1> DEFINE T == ToSet(q)
           D == 1..Len(q)
<1>1. Len(q) \in Nat /\ q \in [D -> S] /\ DOMAIN q = D
    OBVIOUS
<1>2. q \in Bijection(D, T)
    BY <1>1 DEF Bijection, Injection, Surjection, IsInjective, ToSet
<1>3. IsFiniteSet(D) /\ Cardinality(D) = Len(q)
    BY <1>1, FS_Interval
<1>4. Cardinality(T) = Len(q)
    BY <1>2, <1>3, FS_Bijection DEF ExistsBijection
<1> QED
    BY <1>1, <1>2, <1>4 DEF SetToSeqs, Bijection, Injection, IsInjective

\* The collection with its goroutines, channels and deadlines does what Gather
\* says in two steps.
THEOREM RefinesGather == Spec => ImplementsGather
<1>1. Init => Contract!Init
    BY DEF Init, Contract!Init
<1>2. CollectInv /\ OutcomeInv /\ [Next]_vars => [Contract!Next]_(Contract!vars)
    <2> SUFFICES ASSUME CollectInv, OutcomeInv, [Next]_vars
                 PROVE  [Contract!Next]_(Contract!vars)
        OBVIOUS
    <2>1. CASE List
        <3>1. pc = "list" /\ pc' \notin {"list", "returned"}
            BY <2>1 DEF List, AfterIteration
        <3>2. srcs' \in SUBSET Sources /\ provErr' \in BOOLEAN
            BY <2>1 DEF List
        <3> QED
            BY <3>1, <3>2 DEF Contract!Next, Contract!List
    <2>2. CASE Return
        <3>1. /\ pc = "return" /\ pc' = "returned"
              /\ UNCHANGED <<srcs, provErr, outcome, res, errs>>
            BY <2>2 DEF Return, scrapeVars
        <3> DEFINE ends == [s \in srcs |-> outcome[s]]
        <3>2. ends \in [srcs -> Outcomes]
            BY <3>1, AllTaken DEF SentBoth, OutcomeInv, CollectInv, TypeOK
        <3>3. /\ Contract!WithBatch(ends) = ToSet(res)
              /\ Contract!WithError(ends) = errs
            BY <3>1, ResultComplete DEF Contract!WithBatch, Contract!WithError
        <3>4. res \in Contract!SetToSeqs(ToSet(res))
            <4>1. res \in SetToSeqs(ToSet(res))
                BY <3>1, ResultComplete, InjectiveSeqOrdersItsSet DEF CollectInv, TypeOK
            <4> QED
                BY <4>1 DEF SetToSeqs, Contract!SetToSeqs, Cardinality, Contract!Cardinality
        <3>5. (IF pc = "returned" THEN [s \in srcs |-> outcome[s]] ELSE <<>>)' = ends
            BY <3>1
        <3>6. Contract!Return
            BY <3>1, <3>2, <3>3, <3>4, <3>5
            DEF Contract!Return, Contract!Outcomes, Outcomes
        <3> QED
            BY <3>6 DEF Contract!Next
    <2>3. CASE RecvErr \/ RecvResponse \/ Tick \/ (\E s \in Sources : Goroutine(s))
        <3>1. /\ pc \in {"recvErr", "recvResponse"} \/ pc' = pc
              /\ pc \in {"recvErr", "recvResponse"} =>
                     pc' \in {"recvErr", "recvResponse", "return"}
              /\ UNCHANGED <<srcs, provErr>>
            BY <2>3 DEF RecvErr, RecvResponse, AfterIteration, Tick, Goroutine, Wake,
                        Answer, Timeout, Scraped, SendResponse, SendErr, collectorVars
        <3>2. pc \in {"recvErr", "recvResponse"} => pc' # "returned"
            BY <3>1
        <3>3. pc = "returned" => UNCHANGED <<pc, outcome, res, errs>>
            <4> SUFFICES ASSUME pc = "returned" PROVE UNCHANGED <<pc, outcome, res, errs>>
                OBVIOUS
            <4>1. \A s \in Sources : task[s] \in {"done", "none"}
                BY AllTaken DEF SentBoth, CollectInv, CountInv
            <4> QED
                BY <2>3, <4>1
                DEF RecvErr, RecvResponse, Tick, CollectorBlocked, Goroutine, Wake, Answer,
                    Timeout, SendResponse, SendErr
        <3> QED
            BY <3>1, <3>2, <3>3 DEF Contract!vars
    <2>4. CASE UNCHANGED vars
        BY <2>4 DEF vars, collectorVars, scrapeVars, Contract!vars
    <2> QED
        BY <2>1, <2>2, <2>3, <2>4 DEF Next, Collector, Terminated
<1> QED
    BY <1>1, <1>2, CollectInvAlways, OutcomeKnown, PTL
    DEF Spec, ImplementsGather, Contract!Spec
-----------------------------------------------------------------------------
(* Progress: what EventuallyReturns rests on besides the fairness.         *)

\* A goroutine was started for every listed source, and the loop is left
\* after its last iteration.
LoopInv ==
    /\ \A s \in srcs : task[s] # "none"
    /\ pc \in {"recvErr", "recvResponse"} => gathered < Cardinality(srcs)

LEMMA LoopAlways == Spec => []LoopInv
<1>1. Init => LoopInv
    BY DEF Init, LoopInv
<1>2. TypeOK /\ TypeOK' /\ CountInv /\ LoopInv /\ [Next]_vars => LoopInv'
    <2> SUFFICES ASSUME TypeOK, TypeOK', CountInv, LoopInv, [Next]_vars PROVE LoopInv'
        OBVIOUS
    <2> USE DEF LoopInv
    <2>1. CASE List
        <3>1. /\ gathered' = 0 /\ task' = [s \in Sources |-> IF s \in srcs' THEN "sleeping" ELSE "none"]
              /\ pc' = IF 0 < Cardinality(srcs') THEN "recvErr" ELSE "return"
            BY <2>1 DEF List, AfterIteration, CountInv
        <3>2. \A s \in srcs' : task'[s] = "sleeping"
            BY <3>1 DEF TypeOK
        <3> QED
            BY <3>1, <3>2
    <2>2. ASSUME NEW s \in Sources, Goroutine(s) PROVE LoopInv'
        <3>1. UNCHANGED <<pc, gathered, srcs>>
            BY <2>2 DEF Goroutine, Wake, Answer, Timeout, Scraped, SendResponse, SendErr,
                        collectorVars
        <3>2. PICK to \in {"querying", "responding", "reporting", "done"} :
                  task' = [task EXCEPT ![s] = to]
            BY <2>2 DEF Goroutine, Wake, Answer, Timeout, Scraped, SendResponse, SendErr
        <3> QED
            BY <3>1, <3>2 DEF TypeOK
    <2>3. CASE RecvErr
        BY <2>3 DEF RecvErr
    <2>4. CASE RecvResponse
        <3>1. /\ UNCHANGED <<srcs, task>> /\ gathered' = gathered + 1
              /\ pc' = IF gathered' < Cardinality(srcs) THEN "recvErr" ELSE "return"
            BY <2>4 DEF RecvResponse, AfterIteration
        <3> QED
            BY <3>1
    <2>5. CASE Return \/ Tick \/ UNCHANGED vars
        <3>1. /\ UNCHANGED <<srcs, task, gathered>>
              /\ pc' = pc \/ pc' = "returned"
            BY <2>5 DEF Return, Tick, vars, collectorVars
        <3> QED
            BY <3>1
    <2> QED
        BY <2>1, <2>2, <2>3, <2>4, <2>5 DEF Next, Collector, Terminated
<1> QED
    BY <1>1, <1>2, CountAlways, TypeCorrect, PTL DEF Spec

\* Both channels have room for whoever is about to send.
RoomToSend ==
    \A s \in srcs :
        /\ task[s] = "responding" => Len(respCh) < Capacity
        /\ task[s] = "reporting" => Len(errCh) < Capacity

LEMMA RoomForAll ==
    ASSUME TypeOK, CountInv
    PROVE  RoomToSend
<1>1. /\ Len(respCh) \in Nat /\ Len(errCh) \in Nat /\ gathered \in Nat /\ ErrsTaken \in Nat
    BY DEF TypeOK, ErrsTaken
<1>2. /\ Len(respCh) <= Cardinality(SentBatch)
      /\ Len(errCh) <= Cardinality(SentBoth)
    BY <1>1, CountTypes DEF CountInv
<1>3. ASSUME NEW s \in srcs, NEW S \in SUBSET srcs, s \notin S
      PROVE  Cardinality(S) < Cardinality(srcs)
    <2>1. S # srcs
        BY <1>3
    <2>2. IsFiniteSet(S) /\ Cardinality(S) <= Cardinality(srcs) /\ Cardinality(S) # Cardinality(srcs)
        BY <1>3, <2>1, CountTypes, FS_Subset
    <2>3. Cardinality(S) \in Nat
        BY <2>2, FS_CardinalityType
    <2> QED
        BY <2>2, <2>3, CountTypes
<1> SUFFICES ASSUME NEW s \in srcs
             PROVE  /\ task[s] = "responding" => Len(respCh) < Cardinality(srcs)
                    /\ task[s] = "reporting" => Len(errCh) < Cardinality(srcs)
    BY DEF RoomToSend, Capacity
<1>4. SentBatch \in SUBSET srcs /\ SentBoth \in SUBSET srcs
    BY DEF SentBatch, SentBoth
<1>5. ASSUME task[s] = "responding" PROVE Len(respCh) < Cardinality(srcs)
    <2>1. s \notin SentBatch
        BY <1>5 DEF SentBatch
    <2> QED
        BY <1>1, <1>2, <1>3, <1>4, <2>1, CountTypes
<1>6. ASSUME task[s] = "reporting" PROVE Len(errCh) < Cardinality(srcs)
    <2>1. s \notin SentBoth
        BY <1>6 DEF SentBoth
    <2> QED
        BY <1>1, <1>2, <1>3, <1>4, <2>1, CountTypes
<1> QED
    BY <1>5, <1>6

\* No goroutine ever blocks on a channel, so that none of them outlives the
\* call: the buffers have a place for every source (lines 97-98, 125-126).
THEOREM SendsNeverBlock == Spec => []RoomToSend
<1>1. TypeOK /\ CountInv => RoomToSend
    BY RoomForAll
<1> QED
    BY <1>1, CountAlways, PTL

\* Who can take a step: the collector, the goroutine of s without waiting for
\* its kubelet, or the clock.
CollectorCan == pc # "returned" /\ ~CollectorBlocked
GoroutineCan(s) ==
    \/ task[s] = "sleeping" /\ now >= sleep[s]
    \/ task[s] = "querying" /\ now >= deadline[s]
    \/ task[s] = "responding" /\ Len(respCh) < Capacity
    \/ task[s] = "reporting" /\ Len(errCh) < Capacity
ClockCan ==
    /\ CollectorBlocked
    /\ \E s \in srcs : task[s] \in {"sleeping", "querying"}
    /\ \A s \in srcs :
          /\ task[s] \in {"sleeping", "querying", "done"}
          /\ task[s] = "sleeping" => now < sleep[s]
          /\ task[s] = "querying" => now < deadline[s]
NeverStuck ==
    pc = "returned" \/ CollectorCan \/ (\E s \in srcs : GoroutineCan(s)) \/ ClockCan

\* Until the call has returned somebody can always take a step, and nobody
\* needs an answer of a kubelet for it: no order of the sends and the receives
\* makes the collector and its goroutines wait for each other (lines 102-147).
THEOREM CollectNeverStuck == Spec => []NeverStuck
<1>1. TypeOK /\ CountInv /\ LoopInv => NeverStuck
    <2> SUFFICES ASSUME TypeOK, CountInv, LoopInv,
                        pc # "returned", ~CollectorCan,
                        ~ \E s \in srcs : GoroutineCan(s)
                 PROVE  ClockCan
        BY DEF NeverStuck
    <2>1. CollectorBlocked
        BY DEF CollectorCan
    <2>2. \A s \in srcs :
              /\ task[s] \in {"sleeping", "querying", "done"}
              /\ task[s] = "sleeping" => now < sleep[s]
              /\ task[s] = "querying" => now < deadline[s]
        <3> SUFFICES ASSUME NEW s \in srcs
                     PROVE  /\ task[s] \in {"sleeping", "querying", "done"}
                            /\ task[s] = "sleeping" => now < sleep[s]
                            /\ task[s] = "querying" => now < deadline[s]
            OBVIOUS
        <3>1. now \in Nat /\ sleep[s] \in Nat /\ deadline[s] \in Int
            BY DEF TypeOK
        <3>2. task[s] \in {"sleeping", "querying", "responding", "reporting", "done"}
            BY DEF TypeOK, LoopInv
        <3>3. /\ task[s] = "responding" => Len(respCh) < Capacity
              /\ task[s] = "reporting" => Len(errCh) < Capacity
            BY RoomForAll DEF RoomToSend
        <3>4. ~GoroutineCan(s)
            OBVIOUS
        <3> QED
            BY <3>1, <3>2, <3>3, <3>4 DEF GoroutineCan
    <2>3. \E s \in srcs : task[s] \in {"sleeping", "querying"}
        <3> SUFFICES ASSUME \A s \in srcs : task[s] = "done" PROVE FALSE
            BY <2>2
        <3>1. SentBoth = srcs /\ SentBatch = srcs
            BY DEF SentBoth, SentBatch
        <3>2. /\ pc \in {"recvErr", "recvResponse"}
              /\ pc = "recvErr" => Len(errCh) = 0
              /\ pc = "recvResponse" => Len(respCh) = 0
            BY <2>1 DEF CollectorBlocked
        <3>3. gathered \in Nat /\ gathered < Cardinality(srcs) /\ Cardinality(srcs) \in Nat
            BY <3>2, CountTypes DEF LoopInv, TypeOK
        <3> QED
            BY <3>1, <3>2, <3>3 DEF CountInv, ErrsTaken
    <2> QED
        BY <2>1, <2>2, <2>3 DEF ClockCan
<1> QED
    BY <1>1, CountAlways, LoopAlways, PTL

\* How far the call is: the instants that have passed, the stages its
\* goroutines have ended and the collector's own steps.
Woken == {s \in srcs : task[s] \in {"querying", "responding", "reporting", "done"}}
HasScraped == {s \in srcs : task[s] \in {"responding", "reporting", "done"}}
StagesEnded ==
    Cardinality(Woken) + Cardinality(HasScraped) + Cardinality(SentBatch)
        + Cardinality(SentBoth)
CollectorSteps ==
    2 * gathered + (CASE pc = "list" -> 0
                      [] pc \in {"recvErr", "return"} -> 1
                      [] OTHER -> 2)
StepsMade == now + StagesEnded + CollectorSteps

LEMMA StageTypes ==
    ASSUME TypeOK
    PROVE  /\ Cardinality(Woken) \in 0..Cardinality(srcs)
           /\ Cardinality(HasScraped) \in 0..Cardinality(srcs)
           /\ Cardinality(SentBatch) \in 0..Cardinality(srcs)
           /\ Cardinality(SentBoth) \in 0..Cardinality(srcs)
           /\ Cardinality(srcs) \in Nat
<1>1. ASSUME NEW S \in SUBSET srcs
      PROVE  Cardinality(S) \in 0..Cardinality(srcs) /\ Cardinality(srcs) \in Nat
    <2>1. IsFiniteSet(S) /\ Cardinality(S) <= Cardinality(srcs)
        BY CountTypes, FS_Subset
    <2>2. Cardinality(S) \in Nat
        BY <2>1, FS_CardinalityType
    <2> QED
        BY <2>1, <2>2, CountTypes
<1>2. /\ Woken \in SUBSET srcs /\ HasScraped \in SUBSET srcs
      /\ SentBatch \in SUBSET srcs /\ SentBoth \in SUBSET srcs
    BY DEF Woken, HasScraped, SentBatch, SentBoth
<1> QED
    BY <1>1, <1>2

\* A goroutine that goes on to its next stage ends one.
LEMMA StageEnded ==
    ASSUME TypeOK, NEW s \in srcs, srcs' = srcs,
           NEW from, NEW to, task[s] = from, task' = [task EXCEPT ![s] = to],
           <<from, to>> \in {<<"sleeping", "querying">>, <<"querying", "responding">>,
                             <<"responding", "reporting">>, <<"reporting", "done">>}
    PROVE  StagesEnded' = StagesEnded + 1
<1> DEFINE P1 == {"querying", "responding", "reporting", "done"}
           P2 == {"responding", "reporting", "done"}
           P3 == {"reporting", "done"}
           P4 == {"done"}
           At(places) == Cardinality({t \in srcs : task[t] \in places})
           Then(places) == Cardinality({t \in srcs' : task'[t] \in places})
<1>1. ASSUME NEW places, from \in places => to \in places
      PROVE  Then(places) = IF from \notin places /\ to \in places
                            THEN At(places) + 1 ELSE At(places)
    <2> DEFINE at == {t \in srcs : task[t] \in places}
    <2>1. \A t \in srcs : task'[t] = IF t = s THEN to ELSE task[t]
        BY DEF TypeOK
    <2>2. {t \in srcs' : task'[t] \in places} =
              IF from \notin places /\ to \in places THEN at \cup {s} ELSE at
        BY <1>1, <2>1
    <2>3. IsFiniteSet(at) /\ (from \notin places => s \notin at)
        BY SrcsFinite DEF TypeOK
    <2>4. from \notin places => Cardinality(at \cup {s}) = Cardinality(at) + 1
        BY <2>3, FS_AddElement, Zenon
    <2> QED
        BY <2>2, <2>4, Zenon
<1>2. /\ StagesEnded = At(P1) + At(P2) + At(P3) + At(P4)
      /\ StagesEnded' = Then(P1) + Then(P2) + Then(P3) + Then(P4)
    BY DEF StagesEnded, Woken, HasScraped, SentBatch, SentBoth
<1>3. At(P1) \in Nat /\ At(P2) \in Nat /\ At(P3) \in Nat /\ At(P4) \in Nat
    BY StageTypes DEF Woken, HasScraped, SentBatch, SentBoth
<1> HIDE DEF At, Then
<1>4. CASE from = "sleeping" /\ to = "querying"
    <2>1. Then(P1) = At(P1) + 1 /\ Then(P2) = At(P2) /\ Then(P3) = At(P3) /\ Then(P4) = At(P4)
        BY <1>1, <1>4
    <2> QED
        BY <1>2, <1>3, <2>1
<1>5. CASE from = "querying" /\ to = "responding"
    <2>1. Then(P1) = At(P1) /\ Then(P2) = At(P2) + 1 /\ Then(P3) = At(P3) /\ Then(P4) = At(P4)
        BY <1>1, <1>5
    <2> QED
        BY <1>2, <1>3, <2>1
<1>6. CASE from = "responding" /\ to = "reporting"
    <2>1. Then(P1) = At(P1) /\ Then(P2) = At(P2) /\ Then(P3) = At(P3) + 1 /\ Then(P4) = At(P4)
        BY <1>1, <1>6
    <2> QED
        BY <1>2, <1>3, <2>1
<1>7. CASE from = "reporting" /\ to = "done"
    <2>1. Then(P1) = At(P1) /\ Then(P2) = At(P2) /\ Then(P3) = At(P3) /\ Then(P4) = At(P4) + 1
        BY <1>1, <1>7
    <2> QED
        BY <1>2, <1>3, <2>1
<1> QED
    BY <1>4, <1>5, <1>6, <1>7

LEMMA StagesKept ==
    ASSUME UNCHANGED <<srcs, task>>
    PROVE  StagesEnded' = StagesEnded
BY DEF StagesEnded, Woken, HasScraped, SentBatch, SentBoth

EveryStepCounts == [][StepsMade' = StepsMade + 1]_vars

\* No step of the call is repeated: each of them ends a stage of a goroutine,
\* is one of the collector's, or lets an instant pass (lines 102-147).
THEOREM NoStepRepeated == Spec => EveryStepCounts
<1>1. TypeOK /\ CountInv /\ [Next]_vars => [StepsMade' = StepsMade + 1]_vars
    <2> SUFFICES ASSUME TypeOK, CountInv, Next, ~ UNCHANGED vars
                 PROVE  StepsMade' = StepsMade + 1
        OBVIOUS
    <2>1. now \in Nat /\ gathered \in Nat /\ StagesEnded \in Nat
        BY StageTypes DEF TypeOK, StagesEnded
    <2>2. CASE List
        <3>1. /\ UNCHANGED <<now, gathered>> /\ pc = "list" /\ pc' \in {"recvErr", "return"}
            BY <2>2 DEF List, AfterIteration
        <3>2. StagesEnded' = StagesEnded
            <4>1. /\ Woken = {} /\ HasScraped = {} /\ SentBatch = {} /\ SentBoth = {}
                BY <3>1 DEF CountInv, Woken, HasScraped, SentBatch, SentBoth
            <4>2. \A s \in srcs' : task'[s] = "sleeping"
                BY <2>2 DEF List
            <4>3. /\ Woken' = {} /\ HasScraped' = {} /\ SentBatch' = {} /\ SentBoth' = {}
                BY <4>2 DEF Woken, HasScraped, SentBatch, SentBoth
            <4> QED
                BY <4>1, <4>3 DEF StagesEnded
        <3> QED
            BY <2>1, <3>1, <3>2 DEF StepsMade, CollectorSteps
    <2>3. ASSUME NEW s \in Sources, Goroutine(s) PROVE StepsMade' = StepsMade + 1
        <3> USE DEF Goroutine, Wake, Answer, Timeout, Scraped, SendResponse, SendErr
        <3>1. UNCHANGED <<now, gathered, pc, srcs>>
            BY <2>3 DEF collectorVars
        <3>2. s \in srcs
            BY <2>3 DEF CountInv
        <3>3. PICK to : /\ task' = [task EXCEPT ![s] = to]
                        /\ <<task[s], to>> \in
                               {<<"sleeping", "querying">>, <<"querying", "responding">>,
                                <<"responding", "reporting">>, <<"reporting", "done">>}
            BY <2>3
        <3>4. StagesEnded' = StagesEnded + 1
            BY <3>1, <3>2, <3>3, StageEnded
        <3> QED
            BY <2>1, <3>1, <3>4 DEF StepsMade, CollectorSteps
    <2>4. CASE RecvErr \/ RecvResponse \/ Return
        <3>1. UNCHANGED <<now, srcs, task>>
            BY <2>4 DEF RecvErr, RecvResponse, Return
        <3>2. StagesEnded' = StagesEnded
            BY <3>1, StagesKept
        <3>3. CollectorSteps' = CollectorSteps + 1
            BY <2>1, <2>4 DEF RecvErr, RecvResponse, Return, AfterIteration, CollectorSteps
        <3>4. CollectorSteps \in Nat
            BY <2>1 DEF CollectorSteps
        <3> QED
            BY <2>1, <3>1, <3>2, <3>3, <3>4 DEF StepsMade
    <2>5. CASE Tick
        <3>1. now' = now + 1 /\ UNCHANGED <<srcs, task, pc, gathered>>
            BY <2>5 DEF Tick, collectorVars
        <3>2. StagesEnded' = StagesEnded /\ CollectorSteps' = CollectorSteps
            BY <3>1, StagesKept DEF CollectorSteps
        <3>3. CollectorSteps \in Nat
            BY <2>1 DEF CollectorSteps
        <3> QED
            BY <2>1, <3>1, <3>2, <3>3 DEF StepsMade
    <2> QED
        BY <2>2, <2>3, <2>4, <2>5 DEF Next, Collector, Terminated
<1> QED
    BY <1>1, CountAlways, PTL DEF Spec, EveryStepCounts

\* Six steps for every source and two for the collector, and the instants that
\* CollectBounded allows.
StepsBounded ==
    StepsMade <= 6 * Cardinality(srcs) + 2
                     + Later(Earlier(BaseTimeout, ScrapeTimeout),
                             StaggerDelay(Cardinality(srcs)) - 1)

\* A call has only so many steps in it, whatever the kubelets do: with
\* NoStepRepeated and CollectNeverStuck, all that EventuallyReturns needs
\* besides is that whoever can take a step does (lines 90-147).
THEOREM CallIsFinite == Spec => []StepsBounded
<1>1. TypeOK /\ CountInv /\ CollectBounded => StepsBounded
    <2> SUFFICES ASSUME TypeOK, CountInv, CollectBounded PROVE StepsBounded
        OBVIOUS
    <2> DEFINE last == Later(Earlier(BaseTimeout, ScrapeTimeout),
                             StaggerDelay(Cardinality(srcs)) - 1)
    <2>1. now \in Nat /\ gathered \in Nat /\ Len(errCh) \in Nat
        BY DEF TypeOK
    <2>2. StagesEnded \in Nat /\ StagesEnded <= 4 * Cardinality(srcs)
        BY StageTypes DEF StagesEnded
    <2>3. CollectorSteps \in Nat /\ CollectorSteps <= 2 * Cardinality(srcs) + 2
        <3>1. gathered <= Cardinality(srcs) /\ Cardinality(srcs) \in Nat
              /\ (pc = "recvResponse" => gathered + 1 <= Cardinality(srcs))
            BY <2>1, StageTypes DEF CountInv, ErrsTaken
        <3> QED
            BY <2>1, <3>1 DEF CollectorSteps
    <2>4. now <= last
        BY DEF CollectBounded
    <2>5. last \in Int /\ Cardinality(srcs) \in Nat
        BY StageTypes, StaggerType, TimeAssumption DEF Later, Earlier
    <2> HIDE DEF last
    <2>6. StepsMade <= 6 * Cardinality(srcs) + 2 + last
        BY <2>1, <2>2, <2>3, <2>4, <2>5 DEF StepsMade
    <2> QED
        BY <2>6 DEF StepsBounded, last
<1> QED
    BY <1>1, CountAlways, CollectIsBounded, PTL

=============================================================================
