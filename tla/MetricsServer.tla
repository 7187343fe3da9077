---------------------------- MODULE MetricsServer ----------------------------
(***************************************************************************)
(* The whole server in its cluster: MetricsServerOptions.Run               *)
(* (cmd/metrics-server/app/start.go) starts the scrape loop, the API       *)
(* server and, through it, the informers; then nodes and pods come and go, *)
(* the cache of nodes follows, the loop collects from the nodes it finds   *)
(* there, stores what it got, and requests are answered.  What the cache   *)
(* of pods holds is left open: however late it is, a request may find any  *)
(* pod in it, and running.                                                 *)
(*                                                                         *)
(* The parts are those of other modules: the handlers are RestStorage, the *)
(* store SnapshotStore, a collection what Gather promises of it.  What is  *)
(* new here is that what is cached, scraped and stored comes from the same *)
(* cluster, each at a moment of its own.                                   *)
(*                                                                         *)
(* An object that is deleted and created again keeps its name.  The time   *)
(* of a point is the incarnation it was measured of; 0 is the zero time.   *)
(* A pod without containers is reported and has no time, so that of whom   *)
(* it tells is a field of its own, which the code does not have.           *)
(***************************************************************************)
EXTENDS Integers, SequencesExt

CONSTANTS
    NodeNames,
    PodNames,
    Requests,       \* what may be asked
    Fickle,         \* bound: the nodes that are not always up
    MaxBorn,        \* bound: how often the object of each name is created
    MaxAgain        \* bound: of how many names it is created more than once

Names == NodeNames \cup PodNames
Asked == UNION {q.labels : q \in Requests}
Gone == "gone"
NoName == ""

ASSUME NamesAssumption ==
    /\ NodeNames \cap PodNames = {}
    /\ NoName \notin Names /\ Gone \notin Names
ASSUME ClusterAssumption == IsFiniteSet(NodeNames) /\ IsFiniteSet(PodNames)
ASSUME RequestsAssumption == Asked \subseteq Names
ASSUME BoundAssumption ==
    Fickle \subseteq NodeNames /\ MaxBorn \in [Names -> Nat \ {0}] /\ MaxAgain \in Nat

VARIABLES
    main,       \* how far Run is
    status,     \* of each node: gone, or how its kubelet answers
    place,      \* of each pod: gone, or the node it runs on
    shape,      \* of each pod: what its kubelet can tell of its containers
    born,       \* how often the object of each name has been created
    nodeCache,  \* the nodes in the informer's cache
    nodes, pods,                \* the store
    cycle,      \* what the loop is doing
    pending,    \* the nodes listed in this cycle and not scraped yet
    reports,    \* what the others have reported
    oldest,     \* history: the oldest incarnations alive in this cycle
    steady,     \* history: what this cycle could have measured all the time
    since       \* history: oldest, of the cycle whose batch is stored

clusterVars == <<status, place, shape, born>>
storeVars == <<nodes, pods>>
cycleVars == <<cycle, pending, reports, oldest>>
vars == <<main, clusterVars, nodeCache, storeVars, cycleVars, steady, since>>

Store == INSTANCE SnapshotStore WITH Readers <- {}, Batches <- {}, answer <- <<>>
Rest == INSTANCE RestStorage WITH
            Clients <- {}, Batches <- {}, MaxMoments <- 0, moments <- <<>>,
            podCache <- <<>>,
            answer <- <<>>, pc <- <<>>, request <- <<>>, listed <- <<>>, reply <- <<>>

\* The map m with the entry of key x set to v.
Put(m, x, v) == [y \in DOMAIN m \cup {x} |-> IF y = x THEN v ELSE m[y]]

-----------------------------------------------------------------------------
(* Start-up.                                                               *)

\* How the kubelet of a node may answer, or not: it may have no stats yet
\* ("young"), or some and no CPU or no memory among them ("lacking"), and it may
\* go on when the Node object has been deleted ("leaving").
Statuses(n) ==
    {"up"} \cup IF n \in Fickle THEN {Gone, "down", "young", "lacking", "leaving"} ELSE {}

\* The cache and the store are empty.
Init ==
    /\ main = "wired"
    /\ status \in [NodeNames -> {Gone, "up"}]
    /\ \A n \in NodeNames : status[n] \in Statuses(n)
    /\ place = [p \in PodNames |-> Gone]
    /\ shape = [p \in PodNames |-> "bare"]
    /\ born = [x \in Names |-> IF x \in NodeNames /\ status[x] = "up" THEN 1 ELSE 0]
    /\ nodeCache = {}
    /\ nodes = <<>>
    /\ pods = <<>>
    /\ cycle = "idle"
    /\ pending = {}
    /\ reports = <<>>
    /\ oldest = [x \in Asked |-> 0]
    /\ steady = {}
    /\ since = [x \in Asked |-> 0]

Reach(before, after) ==
    /\ main = before
    /\ main' = after
    /\ UNCHANGED <<clusterVars, nodeCache, storeVars, cycleVars, steady, since>>

\* Mistaken: RunUntil collects in the caller's goroutine and does not return.
NeverServes == FALSE

\* mgr.RunUntil starts the loop; then the API server serves; then its post-start
\* hook starts the informers.
RunUntil == Reach("wired", "looping")
Serve == Reach("looping", "serving")
StartInformers == Reach("serving", "informed")

-----------------------------------------------------------------------------
(* The cluster and the informers.                                          *)

\* What the API server knows of an object is that it is there or not.
Alive(x) ==
    IF x \in NodeNames THEN status[x] \notin {Gone, "leaving"} ELSE place[x] # Gone

\* Does its kubelet answer?
Listens(n) == status[n] \notin {Gone, "down"}

\* A node that answers in full, or a pod on one that answers, of whose containers
\* nothing is missing.
Measurable(x) ==
    IF x \in NodeNames THEN status[x] = "up"
    ELSE place[x] # Gone /\ Listens(place[x]) /\ shape[x] # "partial"

ClusterChanged ==
    /\ steady' = {x \in steady : born'[x] = born[x] /\ Measurable(x)'}
    /\ UNCHANGED <<main, nodeCache, storeVars, cycleVars, since>>

\* Of a pod a kubelet may know all that its containers use, less than that, or no
\* containers.
Shapes == {"whole", "partial", "bare"}

Create(x) ==
    /\ born[x] < MaxBorn[x]
    /\ born' = [born EXCEPT ![x] = @ + 1]
    /\ Cardinality({y \in Names : born'[y] > 1}) <= MaxAgain

\* A node joins or leaves, or its kubelet answers otherwise than before.
NodeChanges(n) ==
    /\ \E s \in Statuses(n) \ {status[n]} :
          /\ status[n] = Gone => s # "leaving"
          /\ status' = [status EXCEPT ![n] = s]
          /\ IF ~Alive(n) /\ s # Gone THEN Create(n) ELSE UNCHANGED born
    /\ UNCHANGED <<place, shape>>
    /\ ClusterChanged

PodStarts(p) ==
    /\ place[p] = Gone
    /\ \E n \in NodeNames : Alive(n) /\ place' = [place EXCEPT ![p] = n]
    /\ Create(p)
    /\ UNCHANGED <<status, shape>>
    /\ ClusterChanged
PodChanges(p) ==
    /\ place[p] # Gone
    /\ \E s \in Shapes \ {shape[p]} : shape' = [shape EXCEPT ![p] = s]
    /\ UNCHANGED <<status, place, born>>
    /\ ClusterChanged
PodEnds(p) ==
    /\ place[p] # Gone
    /\ place' = [place EXCEPT ![p] = Gone]
    /\ shape' = [shape EXCEPT ![p] = "bare"]
    /\ UNCHANGED <<status, born>>
    /\ ClusterChanged

\* The cache catches up with one object.
NodeWatch(n) ==
    /\ main = "informed"
    /\ n \in nodeCache <=> ~Alive(n)
    /\ nodeCache' = IF Alive(n) THEN nodeCache \cup {n} ELSE nodeCache \ {n}
    /\ UNCHANGED <<main, clusterVars, storeVars, cycleVars, steady, since>>

-----------------------------------------------------------------------------
(* The scrape loop.                                                        *)

\* The nodes are listed from the informer's cache, so that one that was deleted
\* may be listed, and answer, once more.
BeginCycle ==
    /\ main # "wired"
    /\ cycle = "idle"
    /\ cycle' = "collecting"
    /\ pending' = nodeCache
    /\ oldest' = [x \in Asked |-> IF Alive(x) \/ x \in nodeCache THEN born[x]
                                                               ELSE born[x] + 1]
    /\ steady' = {x \in Names : /\ Measurable(x)
                                /\ IF x \in NodeNames THEN x \in nodeCache
                                                      ELSE place[x] \in nodeCache}
    /\ UNCHANGED <<main, clusterVars, nodeCache, storeVars, reports, since>>

\* decodeNodeStats: without a timestamp the point stays empty, and without CPU or
\* memory it is named, dated and zero; Collect keeps either.
NodePoint(n) ==
    IF status[n] = "young"
    THEN [name |-> NoName, time |-> Store!ZeroTime, measured |-> FALSE]
    ELSE [name |-> n, time |-> born[n], measured |-> status[n] # "lacking"]

\* decodePodStats: a pod of which something is missing is discarded, and one
\* without containers is not.
PodPoint(p) ==
    [name |-> p, of |-> born[p],
     times |-> IF shape[p] = "bare" THEN <<>> ELSE <<born[p]>>]
PodPoints(n) ==
    LET kept == SetToSeq({p \in PodNames : place[p] = n /\ shape[p] # "partial"})
    IN  [k \in DOMAIN kept |-> PodPoint(kept[k])]

Report(n) == [node |-> NodePoint(n), pods |-> PodPoints(n)]

\* Mistaken: a source is scraped again as long as the cycle lasts.
ScrapesAgain(n) ==
    /\ cycle = "collecting"
    /\ n \in pending
    /\ Listens(n)
    /\ reports' = Put(reports, n, Report(n))
    /\ UNCHANGED <<main, clusterVars, nodeCache, storeVars, cycle, pending, oldest,
                   steady, since>>

\* Mistaken: the first failure cancels the rest of the cycle.
FailsTogether(n) ==
    /\ cycle = "collecting"
    /\ n \in pending
    /\ pending' = IF Listens(n) THEN pending \ {n} ELSE {}
    /\ reports' = IF Listens(n) THEN Put(reports, n, Report(n)) ELSE reports
    /\ UNCHANGED <<main, clusterVars, nodeCache, storeVars, cycle, oldest, steady, since>>

\* A kubelet answers, or the request to it fails or times out.
Scrape(n) ==
    /\ cycle = "collecting"
    /\ n \in pending
    /\ pending' = pending \ {n}
    /\ reports' = IF Listens(n) THEN Put(reports, n, Report(n)) ELSE reports
    /\ UNCHANGED <<main, clusterVars, nodeCache, storeVars, cycle, oldest, steady, since>>

\* Mistaken: the pods of one source are taken for those of all.
PodsOverwritten(order) ==
    [nodes |-> [k \in DOMAIN order |-> reports[order[k]].node],
     pods |-> IF order = <<>> THEN <<>> ELSE reports[Last(order)].pods]

\* The batches of all the sources, in the order of their arrival.
BatchOf(order) ==
    [nodes |-> [k \in DOMAIN order |-> reports[order[k]].node],
     pods |-> FlattenSeq([k \in DOMAIN order |-> reports[order[k]].pods])]

\* Mistaken: the batch is not begun afresh, so that a node that fails is reported
\* as it was before.
CarriesOver ==
    /\ cycle = "collecting"
    /\ pending = {}
    /\ since' = oldest
    /\ steady' = {}
    /\ cycle' = "idle"
    /\ oldest' = [x \in Asked |-> 0]
    /\ UNCHANGED <<main, clusterVars, nodeCache, pending, reports>>

CycleEnds ==
    /\ cycle = "collecting"
    /\ pending = {}
    /\ since' = oldest
    /\ steady' = {}
    /\ cycle' = "idle"
    /\ reports' = <<>>
    /\ oldest' = [x \in Asked |-> 0]
    /\ UNCHANGED <<main, clusterVars, nodeCache, pending>>

\* Mistaken: what this batch does not replace stays stored.
KeepsTheRest ==
    /\ CycleEnds
    /\ \E order \in SetToSeqs(DOMAIN reports) :
          /\ nodes' = Store!FirstOf(BatchOf(order).nodes) @@ nodes
          /\ pods' = Store!FirstOf(BatchOf(order).pods) @@ pods

\* Whatever arrived is stored, with errors or without.
Publish ==
    /\ CycleEnds
    /\ \E order \in SetToSeqs(DOMAIN reports) : Store!Publish(BatchOf(order))

-----------------------------------------------------------------------------

Main == RunUntil \/ Serve \/ StartInformers
Loop == BeginCycle \/ Publish \/ \E n \in NodeNames : Scrape(n)
Cluster ==
    \/ \E n \in NodeNames : NodeChanges(n)
    \/ \E p \in PodNames : PodStarts(p) \/ PodChanges(p) \/ PodEnds(p)
Informer == \E n \in NodeNames : NodeWatch(n)
Next == Main \/ Loop \/ Cluster \/ Informer

Spec == Init /\ [][Next]_vars

\* Run goes on, every cycle ends (SourceManager) and is followed by another
\* (Manager), and the informer hears of every lasting change.  Nothing makes
\* anybody ask, or the cluster change.
FairSpec ==
    /\ Spec
    /\ WF_vars(Main)
    /\ WF_vars(Loop)
    /\ \A n \in NodeNames : WF_vars(NodeWatch(n))

-----------------------------------------------------------------------------
(* Properties.                                                             *)

TypeOK ==
    /\ main \in {"wired", "looping", "serving", "informed"}
    /\ \A n \in NodeNames : status[n] \in Statuses(n)
    /\ place \in [PodNames -> NodeNames \cup {Gone}]
    /\ shape \in [PodNames -> Shapes]
    /\ \A x \in Names : born[x] \in 0..MaxBorn[x]
    /\ nodeCache \subseteq NodeNames
    /\ DOMAIN nodes \subseteq NodeNames \cup {NoName}
    /\ DOMAIN pods \subseteq PodNames
    /\ cycle \in {"idle", "collecting"}
    /\ pending \subseteq NodeNames
    /\ DOMAIN reports \subseteq NodeNames \ pending
    /\ cycle = "idle" => reports = <<>>

\* What a request is answered: no reply is other than that of one cache and one
\* store (RestStorage's Explained).  Any pod may be cached.
Reply(q) ==
    IF q.kind = "nodes" THEN Rest!Answers(q, nodeCache, nodes)
    ELSE Rest!Answers(q, [p \in PodNames |-> "Running"], pods)

\* Which incarnation of its name a stored point is of.
Incarnation(x) == IF x \in NodeNames THEN nodes[x].time ELSE pods[x].of

\* Nobody is told of the dead for longer than a cycle: a reply never describes a
\* node that had left the informer's cache, a pod that was gone, or either's
\* predecessor under its name, before the cycle began whose batch is stored,
\* although Get of a node asks no cache (nodemetrics/reststorage.go line 113)
\* and cache and store know names only (podmetrics/reststorage.go line 172).
NoGhosts ==
    \A q \in Requests : \A item \in Reply(q) :
        Incarnation(item.name) >= since[item.name]

\* Whatever else goes on, a node that was listed and could have answered in full
\* during all of a cycle is served as measured when it ends, and a pod on a node
\* that was listed is served if it could have been reported all the time: neither
\* a failing kubelet, nor a node short of stats, nor a discarded pod, nor a pod
\* reported twice costs another its metrics (summary.go lines 111-132,
\* sources/manager.go lines 132-149).
Stored == cycle = "collecting" /\ cycle' = "idle"
OthersServed ==
    [][Stored => \A x \in steady :
                    IF x \in NodeNames THEN x \in DOMAIN nodes' /\ nodes'[x].measured
                    ELSE x \in DOMAIN pods']_vars

\* From one cycle to the next what is served of a name may vanish, or lose its
\* usage or its time, but is never again of an earlier incarnation: two kubelets
\* may report a pod that moves, in any order of arrival, and still no cycle puts
\* back what an earlier one replaced (sources/manager.go line 144, sinkprov.go
\* lines 122-147).
NeverBackwards ==
    [][/\ \A n \in DOMAIN nodes \cap DOMAIN nodes' :
             n # NoName => nodes[n].time <= nodes'[n].time
       /\ \A p \in DOMAIN pods \cap DOMAIN pods' : pods[p].of <= pods'[p].of]_vars

\* A node whose kubelet goes on answering in full is served as measured in the
\* end, and one whose object stays away is not served, though its kubelet
\* answered for ever, whatever else goes on, and although the loop starts before
\* the informers do (start.go lines 222-223).
NodesConverge ==
    \A n \in NodeNames :
        /\ <>[](status[n] = "up") => <>[](n \in DOMAIN nodes /\ nodes[n].measured)
        /\ <>[]~Alive(n) => <>[](n \notin DOMAIN nodes)

\* A pod that stays on a node that stays up is served in the end with a time of
\* its own, and not that of the pod that had its name before, if its kubelet
\* measures it completely; one that is never reported complete is not served.
PodsConverge ==
    \A p \in PodNames :
        /\ <>[](Alive(p) /\ status[place[p]] = "up" /\ shape[p] = "whole") =>
              <>[](p \in DOMAIN pods /\ pods[p].times = <<born[p]>>)
        /\ <>[](Alive(p) => shape[p] = "partial") => <>[](p \notin DOMAIN pods)
=============================================================================
