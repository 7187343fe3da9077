---------------------------- MODULE SinkProvider ----------------------------
(***************************************************************************)
(* sinkMetricsProvider (pkg/provider/sink/sinkprov.go): the store between  *)
(* the scrape loop, which calls Receive once per cycle, and the API        *)
(* requests, which call GetNodeMetrics and GetContainerMetrics whenever    *)
(* they like.  Receive builds two maps without the lock and then swaps     *)
(* both fields, one after the other, under it; a reader takes the read     *)
(* lock and looks its names up one at a time.                              *)
(*                                                                         *)
(* A point is a name and the times the answer is made from; usage values   *)
(* travel unchanged next to them and are left out.  A pod's name stands    *)
(* for its namespace and name.                                             *)
(***************************************************************************)
EXTENDS Integers, SequencesExt

CONSTANTS
    Readers,    \* concurrent API requests
    Names,      \* names of nodes and of pods
    Batches,    \* the batches that may be received
    Requests    \* what readers may ask for: nodes or pods, by name

ASSUME RequestsAssumption ==
    Requests \subseteq [kind : {"nodes", "pods"}, names : Seq(Names)]
ASSUME BatchesAssumption ==
    Batches \subseteq [nodes : Seq([name : Names, time : Nat]),
                      pods : Seq([name : Names, times : Seq(Nat)])]

\* The zero TimeInfo and nil metrics of a name that is not stored, the nil
\* earliestTS, and the zero time.Time.
NoMetrics == [present |-> FALSE]
NoTime == -1
ZeroTime == 0

VARIABLES
    nodes,      \* sinkMetricsProvider.nodes
    pods,       \* sinkMetricsProvider.pods
    writer,     \* where Receive is
    newNodes,   \* its locals
    newPods,
    reader,     \* where the call of each reader is
    request,    \* its arguments
    result      \* what it has looked up so far

vars == <<nodes, pods, writer, newNodes, newPods, reader, request, result>>

-----------------------------------------------------------------------------
(* The maps Receive builds and the points readers look up.                 *)

\* Mistaken: the last of two points wins, or the map keeps the address of the
\* loop variable, so that all names come to share the last point.
LastPointWins(points, p) == (p.name :> p) @@ points
SharesLoopVariable(points, p) == [n \in DOMAIN points \cup {p.name} |-> p]

\* A name that is already in the map keeps its point.
AddPoint(points, p) ==
    IF p.name \in DOMAIN points
    THEN points
    ELSE [n \in DOMAIN points \cup {p.name} |-> IF n = p.name THEN p ELSE points[n]]

BuildMap(list) ==
    LET built[k \in 0..Len(list)] ==
            IF k = 0 THEN <<>> ELSE AddPoint(built[k - 1], list[k])
    IN  built[Len(list)]

\* The loop over a pod's containers that keeps the earliest time.
EarlierTime(earliest, t) ==
    IF earliest = NoTime THEN t ELSE IF earliest > t THEN t ELSE earliest

EarliestTime(times) ==
    LET earliest[k \in 0..Len(times)] ==
            IF k = 0 THEN NoTime ELSE EarlierTime(earliest[k - 1], times[k])
        last == earliest[Len(times)]
    IN  IF last = NoTime THEN ZeroTime ELSE last

LookupNode(n) ==
    IF n \in DOMAIN nodes
    THEN [present |-> TRUE, time |-> nodes[n].time]
    ELSE NoMetrics

LookupPod(n) ==
    IF n \in DOMAIN pods
    THEN [present |-> TRUE, time |-> EarliestTime(pods[n].times),
          containers |-> Len(pods[n].times)]
    ELSE NoMetrics

Lookup(kind, n) == IF kind = "nodes" THEN LookupNode(n) ELSE LookupPod(n)

-----------------------------------------------------------------------------

Init ==
    /\ nodes = <<>>
    /\ pods = <<>>
    /\ writer = "idle"
    /\ newNodes = <<>>
    /\ newPods = <<>>
    /\ reader = [r \in Readers |-> "idle"]
    /\ request \in [Readers -> Requests]
    /\ result = [r \in Readers |-> <<>>]

\* sync.RWMutex: from the moment the writer asks for the lock, new readers wait
\* until it unlocks; the writer gets it when the readers inside have left.
WriterPending == writer \in {"locking", "storeNodes", "storePods", "unlock"}
ReadersInside == {r \in Readers : reader[r] = "reading"}

-----------------------------------------------------------------------------
(* Receive.                                                                *)

\* Receive is called and builds both maps without the lock.
Receive(batch) ==
    /\ writer = "idle"
    /\ newNodes' = BuildMap(batch.nodes)
    /\ newPods' = BuildMap(batch.pods)
    /\ writer' = "built"
    /\ UNCHANGED <<nodes, pods, reader, request, result>>

\* mu.Lock(): ask for the lock ...
LockAsk ==
    /\ writer = "built"
    /\ writer' = "locking"
    /\ UNCHANGED <<nodes, pods, newNodes, newPods, reader, request, result>>

\* Mistaken: the writer takes the lock while readers are inside.
LockGetShared ==
    /\ writer = "locking"
    /\ writer' = "storeNodes"
    /\ UNCHANGED <<nodes, pods, newNodes, newPods, reader, request, result>>

\* ... and get it.
LockGet ==
    /\ writer = "locking"
    /\ ReadersInside = {}
    /\ writer' = "storeNodes"
    /\ UNCHANGED <<nodes, pods, newNodes, newPods, reader, request, result>>

StoreNodes ==
    /\ writer = "storeNodes"
    /\ nodes' = newNodes
    /\ writer' = "storePods"
    /\ UNCHANGED <<pods, newNodes, newPods, reader, request, result>>

StorePods ==
    /\ writer = "storePods"
    /\ pods' = newPods
    /\ writer' = "unlock"
    /\ UNCHANGED <<nodes, newNodes, newPods, reader, request, result>>

\* Mistaken: the readers that wait for the writer are not woken.
UnlockWakesNobody ==
    /\ writer = "unlock"
    /\ writer' = "idle"
    /\ newNodes' = <<>>
    /\ newPods' = <<>>
    /\ UNCHANGED <<nodes, pods, reader, request, result>>

\* The deferred mu.Unlock(): every reader that waited is let in.
Unlock ==
    /\ writer = "unlock"
    /\ writer' = "idle"
    /\ reader' = [r \in Readers |->
                     IF reader[r] = "blocked" THEN "reading" ELSE reader[r]]
    /\ newNodes' = <<>>
    /\ newPods' = <<>>
    /\ UNCHANGED <<nodes, pods, request, result>>

-----------------------------------------------------------------------------
(* GetNodeMetrics and GetContainerMetrics.                                 *)

Call(r, req) ==
    /\ reader[r] = "idle"
    /\ request' = [request EXCEPT ![r] = req]
    /\ result' = [result EXCEPT ![r] = <<>>]
    /\ reader' = [reader EXCEPT ![r] = "rlock"]
    /\ UNCHANGED <<nodes, pods, writer, newNodes, newPods>>

\* Mistaken: a reader does not queue behind a waiting writer.
RLockPassesWriter(r) ==
    /\ reader[r] = "rlock"
    /\ reader' = [reader EXCEPT ![r] =
                     IF writer \in {"storeNodes", "storePods", "unlock"}
                     THEN "blocked" ELSE "reading"]
    /\ UNCHANGED <<nodes, pods, writer, newNodes, newPods, request, result>>

\* mu.RLock()
RLock(r) ==
    /\ reader[r] = "rlock"
    /\ reader' = [reader EXCEPT ![r] =
                     IF WriterPending THEN "blocked" ELSE "reading"]
    /\ UNCHANGED <<nodes, pods, writer, newNodes, newPods, request, result>>

\* One iteration of the loop over the names asked for.
ReadNext(r) ==
    /\ reader[r] = "reading"
    /\ Len(result[r]) < Len(request[r].names)
    /\ LET n == request[r].names[Len(result[r]) + 1]
       IN  result' = [result EXCEPT ![r] = Append(@, Lookup(request[r].kind, n))]
    /\ UNCHANGED <<nodes, pods, writer, newNodes, newPods, reader, request>>

\* The loop is over: the deferred mu.RUnlock() and the return.
Answer(r) ==
    /\ reader[r] = "reading"
    /\ Len(result[r]) = Len(request[r].names)
    /\ reader' = [reader EXCEPT ![r] = "answered"]
    /\ UNCHANGED <<nodes, pods, writer, newNodes, newPods, request, result>>

\* The caller takes the answer.
Taken(r) ==
    /\ reader[r] = "answered"
    /\ reader' = [reader EXCEPT ![r] = "idle"]
    /\ UNCHANGED <<nodes, pods, writer, newNodes, newPods, request, result>>

-----------------------------------------------------------------------------

ReceiveStep == LockAsk \/ LockGet \/ StoreNodes \/ StorePods \/ Unlock
ReaderStep(r) == RLock(r) \/ ReadNext(r) \/ Answer(r) \/ Taken(r)

Next ==
    \/ \E batch \in Batches : Receive(batch)
    \/ ReceiveStep
    \/ \E r \in Readers : ReaderStep(r) \/ \E req \in Requests : Call(r, req)

Spec == Init /\ [][Next]_vars

\* A goroutine that can run is run; nobody has to call anything.
FairSpec ==
    Spec /\ WF_vars(ReceiveStep) /\ \A r \in Readers : WF_vars(ReaderStep(r))

-----------------------------------------------------------------------------
(* Properties.                                                             *)

\* A stored map sends each name to a point of that name.
IsPointMap(m) == \A n \in DOMAIN m : m[n].name = n

TypeOK ==
    /\ IsPointMap(nodes) /\ IsPointMap(pods)
    /\ IsPointMap(newNodes) /\ IsPointMap(newPods)
    /\ writer \in {"idle", "built", "locking", "storeNodes", "storePods", "unlock"}
    /\ reader \in [Readers ->
                      {"idle", "rlock", "blocked", "reading", "answered"}]
    /\ request \in [Readers -> Requests]
    /\ DOMAIN result = Readers
    /\ \A r \in Readers : Len(result[r]) <= Len(request[r].names)

\* Nothing is stored or half stored while a reader is between its lookups, so
\* what a reader has looked up so far is what a single look at the store would
\* have shown: no answer mixes two cycles (lines 55-75, 81-117, 141-145).
NoTornRead ==
    \A r \in Readers : reader[r] = "reading" =>
        /\ writer \notin {"storeNodes", "storePods", "unlock"}
        /\ \A k \in 1..Len(result[r]) :
              result[r][k] = Lookup(request[r].kind, request[r].names[k])

\* Receive gets the lock and finishes even if requests keep coming, and with
\* it the scrape loop that called it.
ReceiveCompletes == (writer = "built") ~> (writer = "idle")

\* A request is answered even if cycles keep coming.
ReadCompletes ==
    \A r \in Readers : (reader[r] = "rlock") ~> (reader[r] = "answered")

\* The store behaves as if every batch were published, and every request
\* answered, in one step.  The batch counts as published with the first of the
\* two stores: no reader is inside until the second is done.
Store == INSTANCE SnapshotStore WITH
    pods   <- IF writer = "storePods" THEN newPods ELSE pods,
    answer <- [r \in Readers |->
                  IF reader[r] = "answered"
                  THEN {[request |-> request[r], told |-> result[r]]}
                  ELSE {}]

ImplementsSnapshotStore == Store!Spec
=============================================================================
