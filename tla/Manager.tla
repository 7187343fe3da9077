------------------------------- MODULE Manager -------------------------------
(***************************************************************************)
(* Manager (pkg/manager/manager.go): RunUntil's goroutine collects once at *)
(* once and then on every tick until it is stopped; a cycle collects from  *)
(* the source, stores what came back and notes whether that was healthy;   *)
(* CheckHealth, called by the API server at any time, reads the notes.     *)
(*                                                                         *)
(* Time is discrete.  Instants are kept as ages, the time that has passed  *)
(* since, so that the model runs for ever; ages stop growing at MaxAge.    *)
(* Code that only computes takes no time: the clock advances only while    *)
(* the loop waits for its source or for the next tick.                     *)
(***************************************************************************)
EXTENDS Integers, Sequences

CONSTANTS
    Resolution,     \* Manager.resolution, the --metric-resolution flag
    CollectBound,   \* the longest the source takes, unless it hangs
    Settings,       \* the sources and sinks the manager may be given
    MaxAge          \* bound: no age grows beyond this

\* Mistaken: no wiggle room, but the opposite.
TightTickWait == (9 * Resolution) \div 10

\* use 1.1 for a bit of wiggle room
MaxTickWait == (11 * Resolution) \div 10

ASSUME TimeAssumption ==
    /\ Resolution \in Nat \ {0} /\ CollectBound \in Nat
    /\ MaxAge \in Nat /\ MaxAge > MaxTickWait /\ MaxAge > Resolution + CollectBound

\* May source.Collect not return at all?  May sink.Receive return an error?
ASSUME SettingsAssumption ==
    Settings \subseteq [mayHang : BOOLEAN, sinkFails : BOOLEAN]

\* Neither: the program's own, as long as the source keeps to its timeout.
Dependable == [mayHang |-> FALSE, sinkFails |-> FALSE]

VARIABLES
    loop,           \* where RunUntil's goroutine is
    elapsed,        \* time since source.Collect was called
    nextTick,       \* time until the ticker fires
    tickC,          \* ticker.C: the age of the buffered tick, if there is one
    lastTickStart,  \* age of Manager.lastTickStart
    lastOk,         \* Manager.lastOk
    data,           \* what source.Collect returned in this cycle
    stored,         \* {} or the batch the sink holds, with its age
    stopped,        \* is stopCh closed?
    setting         \* the source and the sink of this manager

vars == <<loop, elapsed, nextTick, tickC, lastTickStart, lastOk, data, stored,
          stopped, setting>>

\* A batch as far as the manager looks at it: has it nodes, was there an error?
Results == [nodes : {0, 1}, err : BOOLEAN]

\* Mistaken: an error from the sink does not count.
IgnoresSinkErr(d, recvErr) == ~(d.err /\ d.nodes = 0)

\* healthyTick: an error is bad only if there was not even one node, or if the
\* batch could not be saved.
HealthyTick(d, recvErr) == ~(d.err /\ d.nodes = 0) /\ ~recvErr

Init ==
    /\ loop = "start"
    /\ elapsed = 0
    /\ nextTick = Resolution
    /\ tickC = <<>>
    /\ lastTickStart = MaxAge   \* the zero time.Time
    /\ lastOk = FALSE
    /\ data = [nodes |-> 0, err |-> FALSE]
    /\ stored = {}
    /\ stopped = FALSE
    /\ setting \in Settings

-----------------------------------------------------------------------------
(* The loop.                                                               *)

\* Collect(startTime), up to the call of source.Collect.
BeginCollect(startAge) ==
    /\ lastTickStart' = startAge
    /\ elapsed' = 0
    /\ loop' = "collecting"

\* RunUntil makes the ticker and collects immediately.
Start ==
    /\ loop = "start"
    /\ BeginCollect(0)
    /\ nextTick' = Resolution
    /\ UNCHANGED <<tickC, lastOk, data, stored, stopped, setting>>

\* case startTime := <-ticker.C
TakeTick ==
    /\ loop = "select"
    /\ tickC # <<>>
    /\ BeginCollect(Head(tickC))
    /\ tickC' = Tail(tickC)
    /\ UNCHANGED <<nextTick, lastOk, data, stored, stopped, setting>>

\* Mistaken: a break in place of the return, which only leaves the select.
BreaksOutOfSelect ==
    /\ loop = "select"
    /\ stopped
    /\ UNCHANGED vars

\* case <-stopCh; with a tick waiting as well, select may take either.
TakeStop ==
    /\ loop = "select"
    /\ stopped
    /\ loop' = "exited"
    /\ UNCHANGED <<elapsed, nextTick, tickC, lastTickStart, lastOk, data,
                   stored,
                   stopped, setting>>

\* Mistaken: a source that has an error returns no batch with it, which Collect
\* dereferences.
ReturnsNil ==
    /\ loop = "collecting"
    /\ data' \in Results \cup {[err |-> TRUE]}
    /\ loop' = "storing"
    /\ UNCHANGED <<elapsed, nextTick, tickC, lastTickStart, lastOk, stored,
                   stopped, setting>>

\* source.Collect(ctx) returns.
SourceReturns ==
    /\ loop = "collecting"
    /\ data' \in Results
    /\ loop' = "storing"
    /\ UNCHANGED <<elapsed, nextTick, tickC, lastTickStart, lastOk, stored,
                   stopped, setting>>

\* Mistaken: a cycle with an error is not stored.
StoresOnlyWhole(recvErr) ==
    /\ loop = "storing"
    /\ stored' = IF recvErr \/ data.err THEN stored
                 ELSE {[nodes |-> data.nodes, err |-> data.err, age |-> elapsed]}
    /\ loop' = IF HealthyTick(data, recvErr) THEN "finishOk" ELSE "finishBad"
    /\ UNCHANGED <<elapsed, nextTick, tickC, lastTickStart, lastOk, data,
                   stopped, setting>>

\* sink.Receive(data), whether or not there was an error.
Store(recvErr) ==
    /\ loop = "storing"
    /\ stored' = IF recvErr THEN stored
                 ELSE {[nodes |-> data.nodes, err |-> data.err, age |-> elapsed]}
    /\ loop' = IF HealthyTick(data, recvErr) THEN "finishOk" ELSE "finishBad"
    /\ UNCHANGED <<elapsed, nextTick, tickC, lastTickStart, lastOk, data,
                   stopped, setting>>

\* Mistaken: lastOk, once FALSE, stays so.
NeverForgives ==
    /\ loop \in {"finishOk", "finishBad"}
    /\ lastOk' = (lastOk /\ loop = "finishOk")
    /\ loop' = "select"
    /\ UNCHANGED <<elapsed, nextTick, tickC, lastTickStart, data, stored,
                   stopped, setting>>

\* rm.lastOk = healthyTick, in a critical section of its own.
Finish ==
    /\ loop \in {"finishOk", "finishBad"}
    /\ lastOk' = (loop = "finishOk")
    /\ loop' = "select"
    /\ UNCHANGED <<elapsed, nextTick, tickC, lastTickStart, data, stored,
                   stopped, setting>>

-----------------------------------------------------------------------------
(* Around it.                                                              *)

\* Somebody closes stopCh.
Stop ==
    /\ ~stopped
    /\ stopped' = TRUE
    /\ UNCHANGED <<loop, elapsed, nextTick, tickC, lastTickStart, lastOk, data,
                   stored, setting>>

LoopWaits ==
    \/ loop = "select" /\ tickC = <<>> /\ ~stopped
    \/ loop = "collecting" /\ (elapsed < CollectBound \/ setting.mayHang)

Older(age) == IF age < MaxAge THEN age + 1 ELSE age

AgeTicks == [k \in DOMAIN tickC |-> Older(tickC[k])]

\* The ticker sends without blocking: with a tick in the buffer already, the
\* new one is dropped.
Fire == IF tickC = <<>> THEN <<0>> ELSE <<Older(Head(tickC))>>

ClockTick ==
    /\ LoopWaits
    /\ elapsed' = IF loop = "collecting" THEN Older(elapsed) ELSE elapsed
    /\ IF nextTick = 1
       THEN tickC' = Fire /\ nextTick' = Resolution
       ELSE tickC' = AgeTicks /\ nextTick' = nextTick - 1
    /\ lastTickStart' = Older(lastTickStart)
    /\ stored' = {[d EXCEPT !.age = Older(@)] : d \in stored}
    /\ UNCHANGED <<loop, lastOk, data, stopped, setting>>

\* The goroutine has returned.
Exited == loop = "exited" /\ UNCHANGED vars

LoopStep ==
    \/ Start \/ TakeTick \/ TakeStop \/ Finish
    \/ \E recvErr \in {FALSE, setting.sinkFails} : Store(recvErr)

Next == LoopStep \/ SourceReturns \/ Stop \/ ClockTick \/ Exited

Spec == Init /\ [][Next]_vars

\* A loop that can run is run and time passes; the source returns unless it may
\* hang.  Nothing makes anybody close stopCh, and nothing makes select prefer it.
Fairness ==
    /\ WF_vars(LoopStep)
    /\ WF_vars(ClockTick)
    /\ WF_vars(~setting.mayHang /\ SourceReturns)

FairSpec == Spec /\ Fairness

\* Mistaken: only the last finished cycle is looked at.
ChecksLastOkOnly == IF ~lastOk THEN "unhealthy" ELSE "ok"

\* CheckHealth: nil is "ok"; the two fields are read in one critical section.
CheckHealth ==
    IF lastTickStart > MaxTickWait THEN "late"
    ELSE IF ~lastOk THEN "unhealthy" ELSE "ok"

-----------------------------------------------------------------------------
(* Properties.                                                             *)

TypeOK ==
    /\ loop \in {"start", "collecting", "storing", "finishOk", "finishBad",
                 "select", "exited"}
    /\ elapsed \in 0..MaxAge
    /\ nextTick \in 1..Resolution
    /\ tickC \in Seq(0..MaxAge) /\ Len(tickC) <= 1
    /\ lastTickStart \in 0..MaxAge
    /\ lastOk \in BOOLEAN
    /\ data \in Results
    /\ stored \in SUBSET [nodes : {0, 1}, err : BOOLEAN, age : 0..MaxAge]
    /\ stopped \in BOOLEAN
    /\ setting \in Settings

\* While the source keeps to its bound and the bound fits the resolution, the
\* tick the health check looks at is the last one fired, which is never so old
\* that the check fails for it.  Where a cycle overruns, ticks are dropped and a
\* buffered one is old when it is taken, so that the check may fail although the
\* loop goes on; but the delay is made up: a tick is always at least a
\* resolution younger than the one taken before it (lines 83-89, 151-157).
NoFalseAlarm ==
    /\ ~setting.mayHang /\ loop \notin {"start", "exited"} => CheckHealth # "late"
    /\ lastTickStart < MaxAge /\ tickC # <<>> =>
          Head(tickC) + Resolution <= lastTickStart

\* Then, too, what the program's sink, which never fails, serves was never
\* collected longer ago than one resolution and one collection, even while a
\* cycle fails altogether.
FreshData ==
    setting = Dependable =>
        \A d \in stored : d.age <= Resolution + CollectBound

\* Between cycles, "ok" is said of the batch being served: it was collected
\* since the last tick, was saved, and is not just an error (lines 103-139).
HealthyMeansStored ==
    lastOk /\ loop \notin {"finishOk", "finishBad"} =>
        \E d \in stored :
            /\ HealthyTick(d, FALSE)
            /\ loop = "select" => d.age <= lastTickStart

\* A source that hangs is noticed by the health check for good.
HangReported == <>[](loop = "collecting") => <>[](CheckHealth = "late")

\* Once every cycle ends in time, finds a node and is saved, and nobody stops
\* the loop, the health check passes for good: no failure is held against the
\* server for ever, and no overrun, whose old tick starts the next cycle late.
FindsNodes == loop = "storing" => data.nodes > 0
ReturnsInTime == loop = "collecting" => elapsed <= CollectBound
RecoversHealth ==
    []~stopped /\ ~setting.sinkFails /\ <>[](FindsNodes /\ ReturnsInTime) =>
        <>[](CheckHealth = "ok")

\* When stopCh is closed the goroutine returns (lines 88-93), although select
\* may prefer a waiting tick: a cycle that ends before the next tick leaves none.
StopEndsLoop == stopped /\ ~setting.mayHang ~> (loop = "exited")

\* As documented at lines 142-143: CheckHealth looks at tick times "and checking
\* if we have at least one node in the collected data".
HealthyMeansNodes ==
    loop = "select" /\ CheckHealth = "ok" => \E d \in stored : d.nodes > 0
=============================================================================
