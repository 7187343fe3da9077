----------------------------- MODULE RestStorage -----------------------------
(***************************************************************************)
(* The handlers of the metrics.k8s.io API: List and Get of node metrics    *)
(* (pkg/storage/nodemetrics/reststorage.go) and of pod metrics             *)
(* (pkg/storage/podmetrics/reststorage.go).  A handler reads the informer  *)
(* cache through its lister, then asks the metrics store about the objects *)
(* it found, then matches the two lists by index; cache and store go on    *)
(* changing in between.                                                    *)
(*                                                                         *)
(* The store is SnapshotStore, which SinkProvider implements; it never     *)
(* returns an error.  A pod's name stands for its namespace and name, and  *)
(* a selector, or a namespace, for the names that it matches.              *)
(***************************************************************************)
EXTENDS Integers, SequencesExt

CONSTANTS
    Clients,        \* concurrent API requests
    NodeNames,
    PodNames,
    Batches,        \* the batches that may be stored
    Requests,       \* what may be asked
    MaxMoments      \* bound: no event goes beyond so many moments of a call

Phases == {"Running", "Pending"}   \* v1.PodRunning and any other

RequestType ==
    [verb : {"list", "get"}, kind : {"nodes", "pods"},
     labels : SUBSET (NodeNames \cup PodNames),
     fields : SUBSET (NodeNames \cup PodNames)]

ASSUME NamesAssumption == IsFiniteSet(NodeNames) /\ IsFiniteSet(PodNames)
\* A Get selects one name, twice.
ASSUME RequestsAssumption ==
    /\ Requests \subseteq RequestType
    /\ \A q \in Requests : q.verb = "get" =>
           \E n \in NodeNames \cup PodNames : q.labels = {n} /\ q.fields = {n}
ASSUME BoundAssumption == MaxMoments \in Nat

VARIABLES
    nodeCache,  \* the nodes in the informer's cache
    podCache,   \* the pods in the informer's cache, and the phase of each
    nodes,      \* the store: node points
    pods,       \*            pod points
    answer,     \* what the store has answered to the handler, if anything
    pc,         \* where the handler of each client is
    request,    \* what it was asked
    listed,     \* the objects it found in the cache
    reply,      \* {} or what it returned
    moments     \* history: the caches and the stores there were during the call

cacheVars == <<nodeCache, podCache>>
storeVars == <<nodes, pods>>
callVars == <<answer, pc, request, listed, reply>>
vars == <<cacheVars, storeVars, callVars, moments>>

Store == INSTANCE SnapshotStore WITH Readers <- Clients

-----------------------------------------------------------------------------
(* The handlers' computations.                                             *)

\* What the lister can return for the nodes, or the pods, that q selects: the
\* objects in some order.
Object(kind, n) ==
    [name |-> n, phase |-> IF kind = "pods" THEN podCache[n] ELSE "none"]
Cached(kind) == IF kind = "pods" THEN DOMAIN podCache ELSE nodeCache
Listings(q) ==
    SetToSeqs({Object(q.kind, n) : n \in Cached(q.kind) \cap q.labels})

\* The loops that skip an element, or cut it out: what is left are the elements of
\* seq at the indices in kept, in their order.
Kept(seq, kept) ==
    LET left[k \in 0..Len(seq)] ==
            IF k = 0 THEN <<>>
            ELSE IF k \in kept THEN Append(left[k - 1], seq[k])
            ELSE left[k - 1]
    IN  left[Len(seq)]

\* The pods that the field selector does not match are cut out of the list.
MatchingFields(q, objects) ==
    Kept(objects, {k \in DOMAIN objects : objects[k].name \in q.fields})

Names(objects) == [k \in DOMAIN objects |-> objects[k].name]

\* The item made of an object and what the store told of it, both at index k.
Item(objects, told, k) == [name |-> objects[k].name, info |-> told[k]]

\* Mistaken: pods that do not run are not skipped.
SkipsUnknownOnly(objects, told, k) == told[k].present

\* An object without metrics is skipped, and so is a pod that is not Running.
Included(objects, told, k) ==
    told[k].present /\ objects[k].phase \in {"none", "Running"}

\* The loops of getNodeMetrics and getPodMetrics.
Items(objects, told) ==
    Kept([k \in DOMAIN objects |-> Item(objects, told, k)],
         {k \in DOMAIN objects : Included(objects, told, k)})

-----------------------------------------------------------------------------

Init ==
    /\ nodeCache = {}
    /\ podCache = <<>>
    /\ nodes = <<>>
    /\ pods = <<>>
    /\ answer = [r \in Clients |-> {}]
    /\ pc = [r \in Clients |-> "idle"]
    /\ request \in [Clients -> Requests]
    /\ listed = [r \in Clients |-> <<>>]
    /\ reply = [r \in Clients |-> {}]
    /\ moments = [r \in Clients |-> [caches |-> {}, stores |-> {}]]

\* Every step's new cache and store, as far as the call looks at them, are
\* moments of each call that is under way, and the first of one that begins.
CacheOf(q) == IF q.kind = "pods" THEN podCache ELSE nodeCache
StoreOf(q) == IF q.kind = "pods" THEN pods ELSE nodes
NoMoments == [caches |-> {}, stores |-> {}]
Witness ==
    moments' = [r \in Clients |->
        LET before == IF pc[r] = "idle" THEN NoMoments ELSE moments[r]
        IN  IF pc'[r] = "idle"
            THEN NoMoments
            ELSE [caches |-> before.caches \cup {CacheOf(request[r])'},
                  stores |-> before.stores \cup {StoreOf(request[r])'}]]

\* The bound on what may happen during one call.
Room ==
    \A r \in Clients :
        Cardinality(moments[r].caches) + Cardinality(moments[r].stores) < MaxMoments

-----------------------------------------------------------------------------
(* Around the handlers.                                                    *)

\* A watch event reaches an informer's cache.
NodeEvent(n) ==
    /\ Room
    /\ nodeCache' \in {nodeCache \cup {n}, nodeCache \ {n}}
    /\ UNCHANGED <<podCache, storeVars, callVars>>
PodEvent(p) ==
    /\ Room
    /\ \/ \E phase \in Phases :
             podCache' = [q \in DOMAIN podCache \cup {p} |-> IF q = p THEN phase ELSE podCache[q]]
       \/ podCache' = [q \in DOMAIN podCache \ {p} |-> podCache[q]]
    /\ UNCHANGED <<nodeCache, storeVars, callVars>>

\* A cycle stores its batch.
Receive(batch) ==
    /\ Room
    /\ Store!Publish(batch)
    /\ UNCHANGED <<cacheVars, pc, request, listed, reply>>

Call(r, q) ==
    /\ pc[r] = "idle"
    /\ request' = [request EXCEPT ![r] = q]
    /\ pc' = [pc EXCEPT ![r] = "called"]
    /\ UNCHANGED <<cacheVars, storeVars, answer, listed, reply>>

-----------------------------------------------------------------------------
(* The handlers.                                                           *)

Listed(r, objects) ==
    /\ listed' = [listed EXCEPT ![r] = objects]
    /\ pc' = [pc EXCEPT ![r] = "listed"]
    /\ UNCHANGED <<cacheVars, storeVars, answer, request, reply>>

Replies(r, status, items) ==
    /\ reply' = [reply EXCEPT ![r] = {[status |-> status, items |-> items]}]
    /\ pc' = [pc EXCEPT ![r] = "replied"]
    /\ UNCHANGED <<cacheVars, storeVars, answer, request, listed>>

\* List: the lister is asked with the label selector (and, for nodes, with the
\* field selector too); what is left is filtered by fields.
List(r) ==
    /\ pc[r] = "called" /\ request[r].verb = "list"
    /\ \E objects \in Listings(request[r]) :
          Listed(r, MatchingFields(request[r], objects))

\* Get of a node does not ask the lister.
GetNode(r) ==
    /\ pc[r] = "called" /\ request[r].verb = "get" /\ request[r].kind = "nodes"
    /\ \E n \in request[r].labels : Listed(r, <<[name |-> n, phase |-> "none"]>>)

\* Get of a pod does: without the pod that is the answer.
GetPod(r) ==
    /\ pc[r] = "called" /\ request[r].verb = "get" /\ request[r].kind = "pods"
    /\ \E n \in request[r].labels :
          IF n \in DOMAIN podCache
          THEN Listed(r, <<Object("pods", n)>>)
          ELSE Replies(r, "not found", <<>>)

\* The lister returns an error.
ListerFails(r) ==
    /\ pc[r] = "called"
    /\ request[r].verb = "list" \/ request[r].kind = "pods"
    /\ Replies(r, "error", <<>>)

\* GetNodeMetrics or GetContainerMetrics, once for all the names.
Fetch(r) ==
    /\ pc[r] = "listed"
    /\ LET q == [kind |-> request[r].kind, names |-> Names(listed[r])]
       IN  answer' = [answer EXCEPT ![r] =
                         {[request |-> q, told |-> Store!AnswerTo(q)]}]
    /\ pc' = [pc EXCEPT ![r] = "fetched"]
    /\ UNCHANGED <<cacheVars, storeVars, request, listed, reply>>

\* Mistaken: the items of a Get are not counted before the first is taken.
AlwaysFound(r) ==
    /\ pc[r] = "fetched"
    /\ \E a \in answer[r] : Replies(r, "ok", Items(listed[r], a.told))

\* The items are matched; a Get without its one item is answered with NotFound.
Reply(r) ==
    /\ pc[r] = "fetched"
    /\ \E a \in answer[r] :
          LET items == Items(listed[r], a.told)
          IN  IF request[r].verb = "get" /\ items = <<>>
              THEN Replies(r, "not found", <<>>)
              ELSE Replies(r, "ok", items)

\* The client has its reply.
Done(r) ==
    /\ pc[r] = "replied"
    /\ pc' = [pc EXCEPT ![r] = "idle"]
    /\ answer' = [answer EXCEPT ![r] = {}]
    /\ listed' = [listed EXCEPT ![r] = <<>>]
    /\ reply' = [reply EXCEPT ![r] = {}]
    /\ UNCHANGED <<cacheVars, storeVars, request>>

-----------------------------------------------------------------------------

Handler(r) ==
    List(r) \/ GetNode(r) \/ GetPod(r) \/ ListerFails(r) \/ Fetch(r) \/ Reply(r)

Step ==
    \/ \E n \in NodeNames : NodeEvent(n)
    \/ \E p \in PodNames : PodEvent(p)
    \/ \E batch \in Batches : Receive(batch)
    \/ \E r \in Clients : Handler(r) \/ Done(r) \/ \E q \in Requests : Call(r, q)

Next == Step /\ Witness

Spec == Init /\ [][Next]_vars

-----------------------------------------------------------------------------
(* Properties.                                                             *)

TypeOK ==
    /\ nodeCache \subseteq NodeNames
    /\ DOMAIN podCache \subseteq PodNames
    /\ \A p \in DOMAIN podCache : podCache[p] \in Phases
    /\ pc \in [Clients -> {"idle", "called", "listed", "fetched", "replied"}]
    /\ request \in [Clients -> Requests]
    /\ \A r \in Clients : \A a \in reply[r] :
          /\ a.status \in {"ok", "not found", "error"}
          /\ a.status # "ok" => a.items = <<>>
          /\ a.status = "ok" /\ request[r].verb = "get" => Len(a.items) = 1

\* What a request would be answered with if cache c and store s were all there
\* is: the selected objects of the cache (for Get of a node, the name itself)
\* that run and that the store knows.
Selected(q, c) ==
    LET there == CASE q.kind = "pods" -> {p \in DOMAIN c : c[p] = "Running"}
                   [] q.kind = "nodes" /\ q.verb = "list" -> c
                   [] OTHER -> q.labels
    IN  there \cap q.labels \cap q.fields
Answers(q, c, s) ==
    IF q.kind = "nodes"
    THEN {[name |-> n, info |-> Store!NodeInfo(s[n])] :
             n \in Selected(q, c) \cap DOMAIN s}
    ELSE {[name |-> p, info |-> Store!PodInfo(s[p])] :
             p \in Selected(q, c) \cap DOMAIN s}

\* A reply can be explained by one cache and one store there were while the
\* request ran: it never mixes two cycles or two listings, gives a name the
\* metrics of another, makes up a zero for a name without metrics, repeats an
\* item or leaves one out (nodes lines 97-109 and 131-150, pods lines 91-107
\* and 139-176).
Explained ==
    \A r \in Clients : \A a \in reply[r] :
        a.status # "error" =>
            /\ IsInjective(a.items)
            /\ \E c \in moments[r].caches, s \in moments[r].stores :
                  ToSet(a.items) = Answers(request[r], c, s)
=============================================================================
