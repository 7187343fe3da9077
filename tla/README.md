# TLA+ specifications of metrics-server 0.3.6

The repository collects course work (Kubernetes, Ansible and Terraform
exercises, shell scripts, six Python exercises) and, under
`terraform/Provisioning_an_EKS_Cluster/metrics-server-0.3.6/`, one program with
a design of its own: **metrics-server**, the Kubernetes add-on that scrapes the
CPU and memory use of every node and pod from the kubelets and serves it as the
`metrics.k8s.io` API. These specifications are about that program, and about the
algorithms of the Python exercises. Paths below are relative to the program's
directory, but for those of the exercises. `vendor/` is third-party code.

## 1. Inventory

### How the parts interact

```
 informer caches (nodes, pods)                     API requests     health checks
      |  lister            | lister                     |                 |
      v                    v                            v                 v
 NodeSources ---> SourceManager ---> Manager ---> SinkProvider <--- RestStorage
 (one source      (one goroutine     (a cycle      (two maps,       (List, Get)
  per node)        per source)        per tick)     one RWMutex)
                        |
                        v
                  SummarySource ---> kubelet (HTTP)
```

The manager's goroutine runs a cycle per tick: `source.Collect`, then
`sink.Receive`. The source is the source manager, which lists the nodes, starts
one goroutine for each and gathers their answers from two channels. The store
is shared between the cycle and all API requests. A request reads the informer
cache first and the store afterwards. The health check reads two fields of the
manager under a lock of their own.

### Components

| Component (code) | State | Operations | Hard behaviour | Correct means |
|---|---|---|---|---|
| Source manager (`pkg/sources/manager.go`) | two buffered channels, the result and the errors of one call | `Collect`, a goroutine per source, `scrapeWithMetrics` | n + 1 goroutines, values of different sources interleaved, staggered deadlines, channels closed at the end | nothing lost or doubled, all failures reported, no send after close, returns in time |
| Summary source (`pkg/sources/summary/summary.go`, `client.go`) | result slots, slot counter, errors | `Collect`, `decode*`, `uint64Quantity` | slots used again, partial results, 64-bit boundary | only measured pods, an error iff something is missing, no overflow |
| Node listing (`summary.go`, `addrs.go`) | none | `GetMetricSources`, `NodeAddress` | nodes without a usable address, order of nested loops | every node has the preferred address or an error |
| Metrics store (`pkg/provider/sink/sinkprov.go`) | two maps, an `RWMutex` | `Receive`, `GetNodeMetrics`, `GetContainerMetrics` | concurrent readers and a writer, duplicates | every answer is from one cycle; nobody is locked out |
| Manager (`pkg/manager/manager.go`) | `lastTickStart`, `lastOk`, the ticker | `RunUntil`, `Collect`, `CheckHealth` | buffered and dropped ticks, three critical sections per cycle, hang, stop | no false alarm, fresh data, health that tells of what is served and recovers |
| REST storage (`pkg/storage/*metrics/reststorage.go`) | none of its own | `List`, `Get` of nodes and pods | cache and store read at different moments, lists matched by index | a reply is that of one cache and one store |
| Histogram buckets (`pkg/metrics/util.go`) | none | `BucketsForScrapeDuration` | insertion in place, boundaries | strictly increasing buckets |
| Kubelet client configuration (`configs.go`, `start.go` 177-187) | none | `GetKubeletConfig`, `KubeletClientFor` | flags that contradict each other or the cluster's own configuration | start-up does not fail, kubelets are verified, nothing secret in the clear |
| Start-up and composition (`cmd/`, `pkg/apiserver/`) | what all the others keep | `Run` | the loop starts before the informers; caches lag, pods move while a cycle runs, kubelets fail | what lasts is served in the end, what is gone is not, nothing turns older |
| Python exercises (`src/Python/*.py`) | lists changed in place | two sorts, permutations, parentheses, a sieve, bit reversal | off-by-one at boundaries, a list taken apart while it is iterated | the result of a textbook definition |
| Version, generated OpenAPI, fakes, manifests | - | - | - | not modelled: no behaviour |

Everything else in the repository is listed in `PROJECT.json` as not modelled
with its reason: declarative manifests, playbooks and configurations, and
scripts that call external tools.

## 2. Modules

| Module | Models | Kind |
|---|---|---|
| `Gather` | what one collection promises: list, then return every batch and every error | abstract |
| `SourceManager` | `sourceManager.Collect` with goroutines, channels, stagger, deadlines and a clock | detailed, implements `Gather` |
| `SnapshotStore` | what the store promises: a batch is published, and a request answered, in one step | abstract |
| `SinkProvider` | `sinkMetricsProvider` with its lock, one lookup per step | detailed, implements `SnapshotStore` |
| `Manager` | the ticker, the loop, a cycle, the health check | component |
| `SummarySource` | the scrape of one kubelet | component |
| `Quantity` | `uint64Quantity` at any width, which `SummarySource` decodes with | operators |
| `NodeSources` | the listing of sources and the address resolver | component |
| `RestStorage` | the API handlers over `SnapshotStore` (an `INSTANCE`) and changing caches | composition |
| `Buckets` | `BucketsForScrapeDuration` | function |
| `MetricsServer` | start-up, a cluster that changes, the node informer, cycles, the store, requests; instantiates `SnapshotStore` and `RestStorage` | composition |
| `KubeletConfig` | the kubelet client's configuration, and the step that makes the client | function |
| `Exercises` | the Python exercises, loops and recursion as recursive functions | function |
| `Computations` | each computation of `Buckets`, `KubeletConfig` and `Exercises`, run once on an input, and what it is compared with | composition |
| `SourceManagerProof`, `SinkProviderProof`, `ManagerProof`, `SummarySourceProof`, `NodeSourcesProof`, `RestStorageProof`, `MetricsServerProof` | theorems about the module they extend | proofs |
| `ComputationsProof` | theorems about what `Computations` runs: `Buckets`, `KubeletConfig` and `Exercises` | proofs |
| `MC*` | constants for TLC | instances |

Definitions have the names of the code's variables and functions where TLA+
allows it. An operator whose comment begins with "Mistaken" is not part of a
specification: it is a plausible bug in the definition next to it, kept to show
that a property notices it (`PROJECT.json`, "mutants").

### State and actions against the code

*SourceManager.* `task[s]` is where the goroutine of source `s` is: sleeping
(line 114), querying (121), responding (before 125), reporting (before 126),
done. `pc` is the collector's place: `List` (88-128), `RecvErr` (133), `RecvResponse`
(134-145), `Return` (the deferred closes, 99-100). The channels hold the source
a value came from; what the value is follows from `outcome`. `Wake` makes the
context, whose deadline is the earlier of the caller's and the shortened scrape
timeout.

*SinkProvider.* `Receive` builds both maps before the lock, so building them is one
step; `LockAsk`, `LockGet`, `StoreNodes`, `StorePods` and `Unlock` are what another
goroutine can tell apart. The lock is Go's: once a writer waits, new readers
queue behind it, and they are all let in when it unlocks. A usage value travels
next to a point's name and time without being looked at, and is left out.

*Manager.* A cycle is `TakeTick` or `Start` (98-109), `SourceReturns`, `Store`
(110-131) and `Finish` (133-140). Instants are ages, which grow with the clock
and stop at `MaxAge`, so that behaviours need no bound on time. `Fire` has the
ticker's buffer of one and drops a tick that finds it full. `CheckHealth` reads
both fields in one critical section, and so is an operator of the state. `setting`
never changes: it says which source and which sink this manager was given.

*SummarySource.* A section of the summary is a time and a value; a nil section is
the zero time and no value, which the code treats alike. `DecodePod` is one
iteration of the loop at 119-132, the slot it writes included. A reading becomes
a quantity as `uint64Quantity` makes it, for integers whose width `MaxInt` gives.

*NodeSources.* One step is one comparison of the nested loops in `NodeAddress`;
`NextType` starts the inner loop again.

*RestStorage.* A handler is `List`, `GetNode` or `GetPod` (the lister), `Fetch` (one call of
the store) and `Reply` (the loop that matches the two lists). `NodeEvent`, `PodEvent` and
`Receive` may come between any two. `moments` is a history variable: the caches
and stores there were during the call.

*MetricsServer.* `main` is how far `Run` is: everything wired (up to 216), the loop
started (222), the API server serving (223), the informers started by its
post-start hook. The cluster is external. A node is `Gone`, or its kubelet answers in
full (`up`), does not (`down`), has no stats yet (`young`), has some but no CPU or no
memory (`lacking`), or goes on answering after the Node object was deleted
(`leaving`). A pod is on a node or gone, and its kubelet knows all its containers
(`whole`), less than that (`partial`) or no container (`bare`). `NodePoint` and
`PodPoint` are what the decoders make of these (summary.go 138-158, 160-193), the
cases `SummarySource` models by sections and `SinkProvider` by times, abstracted to what the
cluster can tell apart: a young node is the zero point, a lacking one is named,
dated and zero, and is stored (115); a partial pod is discarded (122-130), a bare one
is reported without a time (`PodPoints`, `PodPoint`), and is served with the zero
time. An object that is created again gets the next number of `born`, and the time of a
point is the number of the object it was measured of, so that a predecessor can
be told apart although cache and store know names only. A bare pod has no time to tell
it by: the field `of` of a pod's point, which the code does not have, holds the
number. `NodeWatch` brings the node cache up to date with one object. The pod cache is left
open: it is read by requests only, and `Reply` lets it hold any pod. A cycle is
`BeginCycle` (the nodes in the cache), a `Scrape` for each of them in any order, and
`Publish`, which is `SnapshotStore`'s on the batch `Gather` promises, in any order of
arrival. A request is the operator `Reply`: by `Explained` of the `rest` run a handler's reply
is that of one cache and one store. `oldest`, `since` and `steady` are history
variables: the oldest objects a cycle could measure, and what it could have
measured all the time.

*KubeletConfig.* `given` is the client configuration and the flags that `Run` has,
`client` the kubelet client it makes of them (`MakeClient`, 183-187). A certificate
authority is a value.

*Exercises.* A loop is a function of the round, a recursive function of the code
a function of its arguments. The list an exercise changes in place is the function's result, and `permute` returns
both the permutations and the list it leaves.

## 3. Runs

Passing runs:

| Run | Instance | Properties and what they show |
|---|---|---|
| `source_manager` | 3 sources, scrape timeout 2, base 3, stagger up to 2 | `NoSendAfterClose`, `BatchReadyAfterErr`, `NothingLost`, `CollectBounded`, `EventuallyReturns`, `TypeOK`; `ImplementsGather` (refinement) |
| `sink` | 2 readers, 3 batches: full, duplicates, empty | `NoTornRead`, `ReceiveCompletes`, `ReadCompletes`, `TypeOK`; `ImplementsSnapshotStore` (refinement) |
| `manager` | resolution 3, collection at most 2; all four settings: a source that may take any time, or for ever, or not; a sink that may fail or not | `FreshData` with the program's own source and sink; `StopEndsLoop` unless the source may hang; `NoFalseAlarm`: never late unless it may hang, and after an overrun a delay that shrinks; `RecoversHealth` with a sink that never fails, after failures and overruns; `HealthyMeansStored`, `HangReported`, `TypeOK` in all |
| `summary` | 81 nodes, up to 3 pods of 5 shapes, 4-bit integers | `SlotsExact`, `NodeExact`, `ErrTellsAll`, `TypeOK` |
| `node_sources` | up to 2 nodes, up to 2 addresses of 3 types, 4 priority lists | `BestAddress`, `NodesAccounted`, `TypeOK` |
| `rest` | 1 request at a time of 5 kinds, 2 nodes, 2 pods, 2 batches | `Explained`, `TypeOK` |
| `server` | 2 nodes, of which 1 comes and goes (twice), fails, is short of stats or outlives its object; 1 pod, created up to twice, whole, partial or bare; list of pods, get of a node; 524,320 states | `NoGhosts`, `OthersServed`, `NeverBackwards`, `NodesConverge`, `PodsConverge`, `TypeOK` |
| `computations` | the client's 11 default buckets, 11,003 timeouts; 20 configurations, 8 combinations of flags; lists of up to 5, 4 pairs of parentheses, primes below 130, numbers below 151 at 6 digits | `Acceptable`, `Pinpointed`, `KubeletTrust`, `Sorted`, `Enumerated`, `NumbersExact` |

Runs that find the code at odds with its own comments:

| Run | What TLC finds |
|---|---|
| `overall_timeout` | `manager.go:115` "so we still preserve the overall timeout": the sleep itself can be longer than the timeout when the resolution is short |
| `scrape_duration` | `manager.go:64` "Time spent scraping sources": the argument of the deferred `Observe` is evaluated before the scrape |
| `healthy_without_nodes` | `pkg/manager/manager.go:142` "checking if we have at least one node": no node and no error is healthy |
| `summary_node` | `summary.go:113` "discard the data point": `res.Nodes[:1]` keeps it, with zeroes, as `summary_test.go:251` expects |

A slip of the pen that needs no run: the comment at `pkg/metrics/util.go:34` puts
the bucket half-way beyond the timeout. Line 35 puts it below, as the
increasing order requires, and `Buckets` follows the code.

### Bounds, and why they are enough

* **Sources.** Three goroutines are enough for one to be ahead with both values,
  one between its two sends and one still waiting, which is where pairs of
  different sources come from. The theorems hold for any finite set.
* **Time.** A unit stands for any duration. Code that only computes takes no time:
  the clock advances only while every goroutine waits for time or a kubelet.
  This is what "in time" means in `CollectBounded`, `NoFalseAlarm` and
  `FreshData`: up to scheduling delays. A scrape timeout of 2 with staggers 0 and 1 has
  both an early and a late answer, and one cut by each deadline.
* **Resolution 3, collection at most 2** (`manager`) has the proportion the program gives
  them: the scrape timeout is 90% of the resolution (`start.go:197`). A source that keeps
  to it never overruns: each tick is taken at the instant it fires. Overruns, and
  with them ticks that wait and ticks that are dropped, happen in the settings
  whose source may take any time. There the health check does fail at the start of a
  cycle that takes an old tick; `NoFalseAlarm` says that the next tick taken is younger
  by a resolution at least, and `RecoversHealth` that once collections keep to
  their bound the delay is made up. For the latter the bound must be less than
  the resolution: with `CollectBound` 3, TLC finds that a delay of 1 lasts for ever
  and the check fails in every cycle. `MaxAge` 10 leaves room for a tick that
  waits while two more are dropped.
* **Store.** Two readers and a writer are the least with which a reader inside,
  a reader queued and a writer waiting occur at once. Requests for two names are
  the least that a swap can come between.
* **`rest`.** `MaxMoments` 6 bounds how many different caches and stores one call sees (the sum
  of both); one request at a time, because handlers share nothing but what they
  read. Two names show a mix of two listings, or of two cycles.
* **`summary`.** The conversion depends on the width only through `MaxInt`: with 7, the
  readings 7 and 8 lie on either side of the boundary and 15 is the largest. Three
  pods are enough for an incomplete one before, between and after complete ones. The theorems are
  for every summary and every `MaxInt`.
* **`server`.** Two nodes are the least between which a pod can move while a cycle
  runs, and with which one fails while the other answers. `Fickle` says which node
  changes at all: one, because a node is no different from the other and both
  fickle are beyond TLC in the time a run has. Two lives of the pod, and of the
  fickle node, show a predecessor under the same name; `MaxAgain` 1 lets one of the
  two have a second life in a behaviour. Other changes of nodes and pods are not
  bounded. `MetricsServerProof` has none of these bounds.
* **`computations`.** Lists of five have halves of different length at two levels of
  the recursion, and repeated values. Six digits stand for the 32 of
  `reverse_bits`, which does not depend on their number; numbers beyond the width
  are included. The bound 130 is beyond the square of 11. Buckets are in half milliseconds, so that timeouts of whole milliseconds have whole
  halves; the code computes in floating point, whose rounding is left out.

### Fairness

`SourceManager`: weak fairness of each goroutine, of the collector and of time:
the Go scheduler runs what can run, a sleep ends, a context expires. No
fairness makes a kubelet answer (`Answer` and `Timeout` are alternatives of one action, and only the
second is forced). `SinkProvider`: weak fairness of the writer and of each
reader inside its call; nothing has to be called. `Manager`: weak fairness of the
loop and the clock, and of `SourceReturns` unless the source may hang, which
`EventuallyReturns` of the source manager justifies. Nothing makes anybody close
`stopCh`, and nothing makes `select` prefer it: `StopEndsLoop` holds because a
collection is shorter than the resolution, so that the loop finds no tick waiting.
`MetricsServer`: `Run` goes on, the loop goes on (every cycle ends by
`EventuallyReturns` and `ReceiveCompletes`, and the next tick comes), and each
node's change that lasts is heard of. Nothing makes the cluster change, a
kubelet answer or anybody ask, so that `NodesConverge` and `PodsConverge` hold
whatever goes on elsewhere.

Deadlock is checked in every run; the steps `Terminated`, `Exited` and `Returned`
stand for a call or goroutine that is over.

## 4. Theorems

All are checked by TLAPS, for every value of the constants that satisfies the
named assumptions of the modules. Beyond the types of the constants these assume
only what the code or its surroundings give: finitely many sources, nodes and
pods (`SourcesAssumption`, `ClusterAssumption`, `NamesAssumption` of `RestStorage`); names
of nodes and of pods that differ and a Get that selects one name
(`NamesAssumption`, `RequestsAssumption`); default buckets and a timeout whose halves
are whole (`BucketsAssumption`); and a cluster configuration that client-go accepts
(`ConfigsAssumption`: otherwise `Run` ends at line 170). Every module's type invariant
is proved (`TypeCorrect`), and so are every other invariant, every action property
and both refinements the passing runs check. Of the liveness properties what is
safety is proved: that nobody is stuck, and by when what must happen has happened.

* **`SourceManagerProof`.** `CollectIsBounded` from `TimeInv`: a goroutine is woken
  at the instant its stagger ends, so that all deadlines are the same instant.
  `NobodySendsAfterClose` and `BatchAlwaysReady` from `CountInv`, which counts: errors sent =
  errors taken + errors buffered, likewise batches, and a goroutine that has
  sent its error has sent its batch. The property itself is not inductive
  because it says nothing before the end. `NothingIsLost` adds `BatchInv` and `ErrInv`
  (a batch sent is in the channel or in the result, once); at the end the counts
  make both channels empty. `RefinesGather`: every step is a stutter of `Gather` but
  `List` and `Return`, and `Return` is `Gather`'s by `NothingIsLost`.
  That the call ends is proved but for the fairness: both channels have room
  for all that is still to come (`SendsNeverBlock`), until the call is over some step
  is possible without any kubelet's help (`CollectNeverStuck`), and there are only
  6n + 2 steps and the instants up to the last one in a call of n sources
  (`NoStepRepeated`, `CallIsFinite`). `EventuallyReturns` adds only that who can take a
  step takes it.
* **`SinkProviderProof`.** `NoReadIsTorn`, from `ReaderInv`: a reader that has not got the
  lock has looked nothing up, and while one is inside the writer is not between
  its stores. `Implements`, the refinement of `SnapshotStore`: `StoreNodes` is `Publish`, because the
  maps in the writer's hands are those of one batch (`WriterInv`), the loops
  that build them keep the first point of each name (`BuildMapIsFirstOf`), and nobody
  can look before `StorePods`, which adds the rest; `Answer` is `Respond`, because what it looked up is what one store tells
  (`AnswerIsSnapshot`), the earliest of a pod's times being their least
  (`EarliestTimeIsMin`). All other steps are stutters (`UnseenIsStutter`).
  Of `ReceiveCompletes` and `ReadCompletes`: who waits for the lock waits for a writer that
  has it or asks for it (`NobodyForgotten`), some call under way can always go on
  (`StoreNeverStuck`), and no reader gets in before a writer that waits, while each
  step of one that is inside brings it nearer to leaving
  (`NobodyOvertakesReceive`).
* **`ManagerProof`.** All for any set of settings: `NoTickAlarm`, for sources that keep within the resolution, from `TickInv`:
  a tick is taken at the instant it fires, so that the age of the last tick
  never exceeds the resolution; and for the others from `TicksApart`: the ticker fires no
  sooner than a resolution after the tick taken last, however old that was when
  it was taken, nor after one that waits. `DataIsFresh` (moreover for a sink that never fails) adds
  `AgeInv`, the age of the stored batch at each point of the loop. `HealthyIsStored`
  needs neither assumption; `HealthInv` carries the good batch from `Store` to `Finish`.
  Of `HangReported` and `RecoversHealth`: a cycle older than the limit fails the check at
  every instant (`HangNoticedInTime`), only a new cycle ends that (`LateStaysLate`), and
  with a sink that never fails the check finds fault only with the cycle that
  ended last (`BlameIsFounded`).
* **`SummarySourceProof`.** `SlotsAlwaysExact`, from `LoopInv`: the positions of the taken slots'
  pods in the summary, which the property only says exist, are a function that
  each complete pod extends by one (`OnePodMore`) and each incomplete one leaves
  alone (`Placed`). `NodeAlwaysExact`: a measured node is the one node of the batch, as measured, in the
  loop and in what is returned. `ErrAlwaysTells`, from `ErrInv`: in the loop there is no error exactly
  when the node was measured and every decoded pod has a slot. The first two rest on
  `ConversionIsFaithful`: a tenth of an unsigned value always fits the signed type. The types
  need `RoomInv`, that no slot is taken beyond the pods of the summary.
* **`NodeSourcesProof`.** `BestAddressAlways` and `EveryNodeAccounted`, from `LoopInv`: what
  `NodeAddress` has passed, all addresses for the types before this one and this
  type for the addresses before this one, did not match. That is what makes the
  address it stops at the preferred one, and what makes giving up right. Nodes
  beyond the current one have neither source nor error, so that none gets two.
* **`RestStorageProof`.** `EveryReplyExplained`, from `CallInv`: what a handler has listed is the
  listing of *some* cache among its moments, what it was told is from *some* store
  among them, and neither need be the present one. The property speaks of the reply
  alone and says nothing of a handler half way. Moments only grow during a call.
  The rest is that lists matched by index give the set the definition of an
  explained reply asks for: `KeptIs`, `ListIs`, `ItemsAre`, `AnswerToIs`.
* **`MetricsServerProof`.** One inductive invariant, `Inductive`, with four parts. `ClusterInv`: what
  `Exists`, a node whose object is deleted and whose kubelet answers included, has been
  created, the cycle's `oldest` is not beyond it, and a node still to be scraped was
  cached when the cycle began, so that `oldest` allows for it although it may be
  deleted. `StoreInv`: a stored point is of an incarnation that was there when the cycle
  began that stored it, or later, from which `NoGhostsEver`; of points under the empty
  name, which nobody can ask for, nothing is said. `ReportsInv`: the same of
  the reports of the running cycle, which moreover are not of an earlier incarnation than the stored
  points they are to replace, because an incarnation measured now is the latest
  (`ServedNeverBackwards`; the property compares two stores, and so is not inductive
  without what is reported in between). It is about incarnations and not times: a
  pod that lost its containers is served with the zero time after a real one, and a
  lacking node with zeroes. `SteadyInv`: what could have been measured in full
  all the time is still to be scraped or has been reported so (`OthersAlwaysServed`).
  That a batch put together in any order keeps a point of every name reported
  rests on `OrderIsOnto` and `FirstOfIs`.
* **`ComputationsProof`.** `AlwaysAcceptable` for any increasing default buckets: the bucket the loop
  breaks at exists because every non-empty set of naturals has a least element.
  That a bucket is inserted strictly between its neighbours is what the closeness
  test is for, and `AlwaysPinpointed` is its other side: where nothing is inserted, a
  bucket was close enough. `KubeletAlwaysTrusted`, for any configurations and flags, by the
  three cases of the flags (`ClientIsTrustworthy`). The exercises, for every input:
  * `AlwaysSorted`. Both sorts leave an ascending part (`AscendingUpTo`) that is what
    there was in another order (`Rearranged`, by a permutation of the places: of
    equal elements the property counts). `MoveKeySorts` is a round of `insertionSort`;
    `mergeIs` is `merge`, whose loops, taken together, take each place of each half
    once (`Merging`, `Selection`); `mergeSortIs` is the recursion.
  * `NumbersAlwaysExact`. What is crossed out after round i are the multiples, from
    the square on, of the divisors up to i (`Crossed`), primes or not, although
    rounds of numbers crossed out before are left out; and a composite number has
    a divisor up to its square root. The digits of a number are its bits, from
    the highest that is set (`BinaryOf`).
  * `AlwaysEnumerated`. From a beginning of a string, `backtrack` returns each of the balanced
    strings that begin so (`Endings`), once (`Once`). `permute` returns the list taken
    along each permutation of its places once (`Placings`, `PermsOf`); after i
    rounds the list is turned by i places and the permutations returned are
    those that put one of the first i last (`Turned`, `LastWithin`), so that after all of
    them it is the list it was given. Permutations of places rather than of
    values are what makes this true of lists with equal elements.

Where the code loops or calls itself, the model is a recursive function, and the
proof that it is well defined, and what it returns, takes the least point at
which it would not be (`Smallest`, from well-foundedness) in the place of an
induction: `BuildingExists`, `TimesLoopExists`, `LeavingExists`, `FlatteningExists`. In
`ComputationsProof` this is done once: a recursive definition whose body looks only at
arguments of a smaller measure has a solution (`FixpointExists`); `MeasureInduction` and
`CountedUp` are for what it returns. A theorem that takes an operator as parameter is
outside the prover, and so these are about functions and sets: the body takes a
function to a function, and what is to hold of all arguments is a set of them.

Only model-checked: the liveness properties as such (`EventuallyReturns`, `ReceiveCompletes`,
`ReadCompletes`, `StopEndsLoop`, `RecoversHealth`, `HangReported`, `NodesConverge`, `PodsConverge`), because
fairness, and with it ENABLED, is outside the prover.

## 5. Not modelled, and known limits

* The metrics of metrics-server itself, except what the scrape histogram observes.
* HTTP, TLS and JSON: a request to a kubelet ends in one of six ways.
* Names of a pod stand for namespace and name; selectors for the names they match.
* `MetricsServer` takes it that a kubelet reports the pods the API says run on its
  node at that moment. A kubelet that still reports a pod after its end, for
  longer than a cycle, would be served so. A kubelet whose Node object is deleted
  may go on answering; whether it is asked depends on the node cache alone.
* `MetricsServer` leaves the pod cache open, so that what a request is answered of pods
  is what any cache would give; that replies follow the cache is `Explained` of `rest`.
* `HealthyMeansStored` is about the time between cycles and while one collects. Between `Receive` and the
  assignment of `lastOk` (`manager.go` 126-139) the health check still tells of the
  cycle before, and the batch of the new one is already served.
* An error while `Run` wires the parts together (`start.go` 143-216), or of the API
  server itself, ends the process: there is nothing left to model. Nothing is
  persisted, so that a restart is a new behaviour.
* `--metric-resolution` is not checked by the program. `time.NewTicker` panics for
  one that is not positive; `Manager` assumes a positive one.
* What client-go does with a configuration (which credentials an anonymous copy
  keeps, what it refuses, that CA data goes before a file) is external.
* Manifests, playbooks, Terraform configurations and shell scripts are
  declarative or sequences of calls of external tools, without state of
  their own.

## 6. What is left

A larger `server` instance for the safety properties alone (both nodes fickle,
two pods) would add little, since `MetricsServerProof` proves those for any number of
each. The liveness properties remain checked on the instances of section 3.
