---------------------------- MODULE SourceManager ----------------------------
(***************************************************************************)
(* sourceManager.Collect (pkg/sources/manager.go): one goroutine per       *)
(* source sleeps a random stagger, scrapes its source under a deadline and *)
(* sends the batch and then the error on two buffered channels; the caller *)
(* receives an error and then a batch, once per source, closes both        *)
(* channels and returns.                                                   *)
(*                                                                         *)
(* Time is discrete and counted from the start of the call.  Code that     *)
(* only computes takes no time: the clock advances only while every        *)
(* goroutine sleeps, waits for its kubelet or has ended, and the collector *)
(* is blocked on a channel.                                                *)
(***************************************************************************)
EXTENDS Integers, FiniteSets, SequencesExt

CONSTANTS
    Sources,         \* what the provider may list
    ScrapeTimeout,   \* sourceManager.scrapeTimeout
    BaseTimeout,     \* deadline of the context Collect is called with
    DelayPerSource,  \* delayPerSourceMs
    MaxDelay         \* maxDelayMs

ASSUME SourcesAssumption == IsFiniteSet(Sources)
ASSUME TimeAssumption ==
    /\ ScrapeTimeout \in Nat /\ BaseTimeout \in Nat
    /\ DelayPerSource \in Nat \ {0} /\ MaxDelay \in Nat \ {0}

VARIABLES
    now,        \* the clock
    pc,         \* where the collector is
    srcs,       \* the sources it listed
    provErr,    \* did the listing also return an error?
    task,       \* where the goroutine of each source is
    sleep,      \* sleepDuration of each goroutine
    deadline,   \* when the context of each goroutine expires
    outcome,    \* what the scrape of each source returned
    observed,   \* what each scrape gives the duration histogram
    respCh,     \* responseChannel: the sources of the buffered batches
    errCh,      \* errChannel: the sources of the buffered errors (or nils)
    gathered,   \* iterations of the gathering loop done so far
    res,        \* the batches appended to the result, by source
    errs        \* the sources whose error was appended to errs

collectorVars == <<pc, gathered, res, errs>>
scrapeVars == <<sleep, deadline, outcome, observed>>
vars == <<now, collectorVars, srcs, provErr, task, scrapeVars, respCh, errCh>>

Outcomes == {"full", "partial", "failed"}

Earlier(a, b) == IF a < b THEN a ELSE b
Later(a, b) == IF a < b THEN b ELSE a

\* delayMs: the stagger grows with the number of sources up to a maximum.
StaggerDelay(n) == Earlier(DelayPerSource * n, MaxDelay)

\* Both channels have room for one value of every source.
Capacity == Cardinality(srcs)

Init ==
    /\ now = 0
    /\ pc = "list"
    /\ srcs = {}
    /\ provErr = FALSE
    /\ task = [s \in Sources |-> "none"]
    /\ sleep = [s \in Sources |-> 0]
    /\ deadline = [s \in Sources |-> 0]
    /\ outcome = [s \in Sources |-> "none"]
    /\ observed = [s \in Sources |-> 0]
    /\ respCh = <<>>
    /\ errCh = <<>>
    /\ gathered = 0
    /\ res = <<>>
    /\ errs = {}

\* Mistaken: the loop stops one source early.
StopsEarly(done, listed) ==
    IF done + 1 < Cardinality(listed) THEN "recvErr" ELSE "return"

\* Mistaken: the loop waits for one source more than there are.
WaitsForOneMore(done, listed) ==
    IF done <= Cardinality(listed) THEN "recvErr" ELSE "return"

\* The gathering loop ranges over the listed sources.
AfterIteration(done, listed) ==
    IF done < Cardinality(listed) THEN "recvErr" ELSE "return"

\* List the sources, keep the error for later, and start the goroutines, each
\* of which draws its stagger from 0..delayMs-1.
List ==
    /\ pc = "list"
    /\ srcs' \in SUBSET Sources
    /\ provErr' \in BOOLEAN
    /\ task' = [s \in Sources |-> IF s \in srcs' THEN "sleeping" ELSE "none"]
    /\ \E stagger \in [srcs' -> 0..(StaggerDelay(Cardinality(srcs')) - 1)] :
          sleep' = [s \in Sources |-> IF s \in srcs' THEN stagger[s] ELSE 0]
    /\ pc' = AfterIteration(0, srcs')
    /\ UNCHANGED <<now, deadline, outcome, observed, respCh, errCh, gathered,
                   res, errs>>

-----------------------------------------------------------------------------
(* The goroutine of source s.                                              *)

\* Mistaken: the stagger is not taken off the timeout.
StaggerNotDeducted(s) == Earlier(BaseTimeout, now + ScrapeTimeout)

\* context.WithTimeout on the caller's context: the earlier deadline counts.
ContextDeadline(s) == Earlier(BaseTimeout, now + ScrapeTimeout - sleep[s])

\* The stagger is over: the context is made and the scrape starts.  The
\* argument of the deferred Observe is evaluated here, not at the end.
Wake(s) ==
    /\ task[s] = "sleeping"
    /\ now >= sleep[s]
    /\ task' = [task EXCEPT ![s] = "querying"]
    /\ deadline' = [deadline EXCEPT ![s] = ContextDeadline(s)]
    /\ LET startTime == now
       IN  observed' = [observed EXCEPT ![s] = now - startTime]
    /\ UNCHANGED <<now, collectorVars, srcs, provErr, sleep, outcome, respCh,
                   errCh>>

\* The source's Collect returns o.
Scraped(s, o) ==
    /\ task' = [task EXCEPT ![s] = "responding"]
    /\ outcome' = [outcome EXCEPT ![s] = o]
    /\ UNCHANGED <<now, collectorVars, srcs, provErr, sleep, deadline, observed,
                   respCh, errCh>>

\* The kubelet answers (or refuses) while the context is alive.
Answer(s) ==
    /\ task[s] = "querying"
    /\ now < deadline[s]
    /\ \E o \in Outcomes : Scraped(s, o)

\* The context expires first, or had expired before the request was made.
Timeout(s) ==
    /\ task[s] = "querying"
    /\ now >= deadline[s]
    /\ Scraped(s, "failed")

\* responseChannel <- metrics
SendResponse(s) ==
    /\ task[s] = "responding"
    /\ Len(respCh) < Capacity
    /\ respCh' = Append(respCh, s)
    /\ task' = [task EXCEPT ![s] = "reporting"]
    /\ UNCHANGED <<now, collectorVars, srcs, provErr, scrapeVars, errCh>>

\* Mistaken: a failed scrape, having no batch, sends only its error.
SendsErrOnly(s) ==
    /\ \/ task[s] = "reporting"
       \/ task[s] = "responding" /\ outcome[s] = "failed"
    /\ Len(errCh) < Capacity
    /\ errCh' = Append(errCh, s)
    /\ task' = [task EXCEPT ![s] = "done"]
    /\ UNCHANGED <<now, collectorVars, srcs, provErr, scrapeVars, respCh>>

\* errChannel <- err
SendErr(s) ==
    /\ task[s] = "reporting"
    /\ Len(errCh) < Capacity
    /\ errCh' = Append(errCh, s)
    /\ task' = [task EXCEPT ![s] = "done"]
    /\ UNCHANGED <<now, collectorVars, srcs, provErr, scrapeVars, respCh>>

-----------------------------------------------------------------------------
(* The collector.                                                          *)

\* Mistaken: a batch with an error counts as a failure, or as a success.
DropsPartialBatch(s) == IF outcome[s] = "full" THEN Append(res, s) ELSE res
DropsPartialErr(s) == IF outcome[s] = "failed" THEN errs \cup {s} ELSE errs

\* What an iteration appends for the error and the batch of source s.
AppendErr(s) == IF outcome[s] = "full" THEN errs ELSE errs \cup {s}
AppendBatch(s) == IF outcome[s] = "failed" THEN res ELSE Append(res, s)

\* err := <-errChannel
RecvErr ==
    /\ pc = "recvErr"
    /\ errCh # <<>>
    /\ errs' = AppendErr(Head(errCh))
    /\ errCh' = Tail(errCh)
    /\ pc' = "recvResponse"
    /\ UNCHANGED <<now, srcs, provErr, task, scrapeVars, respCh, gathered, res>>

\* Mistaken: the nodes and pods of a batch are read without a look whether there
\* is one.
DereferencesNil ==
    /\ pc = "recvResponse"
    /\ respCh # <<>>
    /\ respCh' = Tail(respCh)
    /\ IF outcome[Head(respCh)] = "failed"
       THEN pc' = "panicking" /\ UNCHANGED <<gathered, res>>
       ELSE /\ res' = AppendBatch(Head(respCh))
            /\ gathered' = gathered + 1
            /\ pc' = AfterIteration(gathered + 1, srcs)
    /\ UNCHANGED <<now, srcs, provErr, task, scrapeVars, errCh, errs>>

\* srcBatch := <-responseChannel, whichever source's it is, and the appends.
RecvResponse ==
    /\ pc = "recvResponse"
    /\ respCh # <<>>
    /\ res' = AppendBatch(Head(respCh))
    /\ respCh' = Tail(respCh)
    /\ gathered' = gathered + 1
    /\ pc' = AfterIteration(gathered + 1, srcs)
    /\ UNCHANGED <<now, srcs, provErr, task, scrapeVars, errCh, errs>>

\* The deferred closes run and Collect returns: from here on a send panics.
Return ==
    /\ pc = "return"
    /\ pc' = "returned"
    /\ UNCHANGED <<now, srcs, provErr, task, scrapeVars, respCh, errCh, gathered,
                   res, errs>>

-----------------------------------------------------------------------------

CollectorBlocked ==
    \/ pc = "recvErr" /\ errCh = <<>>
    \/ pc = "recvResponse" /\ respCh = <<>>

\* Time passes while nobody can do anything but wait.
Tick ==
    /\ CollectorBlocked
    /\ \E s \in srcs : task[s] \in {"sleeping", "querying"}
    /\ \A s \in srcs :
          /\ task[s] \in {"sleeping", "querying", "done"}
          /\ task[s] = "sleeping" => now < sleep[s]
          /\ task[s] = "querying" => now < deadline[s]
    /\ now' = now + 1
    /\ UNCHANGED <<collectorVars, srcs, provErr, task, scrapeVars, respCh, errCh>>

Goroutine(s) ==
    Wake(s) \/ Answer(s) \/ Timeout(s) \/ SendResponse(s) \/ SendErr(s)

Collector == List \/ RecvErr \/ RecvResponse \/ Return

\* The call is over.
Terminated == pc = "returned" /\ UNCHANGED vars

Next == Collector \/ Tick \/ Terminated \/ \E s \in Sources : Goroutine(s)

Spec == Init /\ [][Next]_vars

\* The scheduler runs every goroutine that can run, and time passes.  Nothing
\* makes a kubelet answer; its context makes the request end.
Fairness ==
    /\ WF_vars(Collector)
    /\ WF_vars(Tick)
    /\ \A s \in Sources : WF_vars(Goroutine(s))

FairSpec == Spec /\ Fairness

-----------------------------------------------------------------------------
(* Properties.                                                             *)

TypeOK ==
    /\ now \in Nat
    /\ pc \in {"list", "recvErr", "recvResponse", "return", "returned"}
    /\ srcs \in SUBSET Sources
    /\ provErr \in BOOLEAN
    /\ task \in [Sources -> {"none", "sleeping", "querying", "responding",
                             "reporting", "done"}]
    /\ sleep \in [Sources -> Nat]
    /\ deadline \in [Sources -> Int]
    /\ outcome \in [Sources -> Outcomes \cup {"none"}]
    /\ observed \in [Sources -> Nat]
    /\ respCh \in Seq(Sources)
    /\ errCh \in Seq(Sources)
    /\ gathered \in Nat
    /\ res \in Seq(Sources)
    /\ errs \in SUBSET Sources

\* A send on a closed channel panics and takes the process down.  When the
\* collector has closed the channels (lines 99-100), every goroutine it
\* started has sent both its values.
NoSendAfterClose ==
    pc = "returned" => \A s \in srcs : task[s] = "done"

\* The collector, once it has an error, never waits for a batch: every
\* goroutine sends its batch first (lines 125-126, 133-134).
BatchReadyAfterErr == pc = "recvResponse" => respCh # <<>>

\* Errors and batches are received in pairs that may come from two different
\* sources, and still no batch is lost or stored twice, and every source that
\* was not fully scraped has its error reported (lines 132-146).
NothingLost ==
    pc = "returned" =>
        /\ ToSet(res) = {s \in srcs : outcome[s] # "failed"}
        /\ IsInjective(res)
        /\ errs = {s \in srcs : outcome[s] # "full"}

\* The call is over by the scrape timeout, or by the last wake-up where the
\* stagger is longer than that; a slow kubelet never adds to either.
CollectBounded ==
    now <= Later(Earlier(BaseTimeout, ScrapeTimeout),
                 StaggerDelay(Cardinality(srcs)) - 1)

\* Collect returns, whatever the kubelets do.
EventuallyReturns == <>(pc = "returned")

\* The collection is what Gather promises.
Contract == INSTANCE Gather WITH
    phase   <- CASE pc = "list" -> "idle"
                 [] pc = "returned" -> "returned"
                 [] OTHER -> "gathering",
    listed  <- srcs,
    scraped <- IF pc = "returned" THEN [s \in srcs |-> outcome[s]] ELSE <<>>,
    res     <- IF pc = "returned" THEN res ELSE <<>>,
    errs    <- IF pc = "returned" THEN errs ELSE {}

ImplementsGather == Contract!Spec

\* As documented at lines 115-116: the stagger is taken off the timeout "so we
\* still preserve the overall timeout".
OverallTimeoutPreserved == now <= ScrapeTimeout

\* As documented at line 64: the histogram records "Time spent scraping sources
\* in seconds", from the start of the scrape (the wake-up) to its end.
ObservedIsTimeSpent ==
    [][\A s \in Sources :
          task[s] = "querying" /\ task'[s] = "responding" =>
              observed'[s] = now - sleep[s]]_vars
=============================================================================
