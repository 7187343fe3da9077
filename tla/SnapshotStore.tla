---------------------------- MODULE SnapshotStore ----------------------------
(***************************************************************************)
(* What the metrics store promises to its readers, with locks left out: a  *)
(* batch replaces everything that was stored before, nodes and pods        *)
(* together, in one step, and a request is answered from one such          *)
(* snapshot.  sinkMetricsProvider (pkg/provider/sink/sinkprov.go) is the   *)
(* store; pkg/sink/interfaces.go and pkg/provider/interfaces.go are what   *)
(* it promises.                                                            *)
(***************************************************************************)
EXTENDS Integers, SequencesExt

CONSTANTS
    Readers,    \* concurrent requests
    Batches,    \* the batches that may be received
    Requests    \* what a reader may ask for

VARIABLES
    nodes,      \* the stored node points, by name
    pods,       \* the stored pod points, by name
    answer      \* what each reader has been told, if anything: {} or
                \* one record of the request and the answer to it

vars == <<nodes, pods, answer>>

\* What is said of a name that is not stored, and the time of a pod without
\* containers.
NoMetrics == [present |-> FALSE]
ZeroTime == 0

\* The names in a sequence of points, and the first point with each name.
PointNames(points) == {p.name : p \in ToSet(points)}
FirstOf(points) ==
    [n \in PointNames(points) |-> points[SelectInSeq(points, LAMBDA p : p.name = n)]]

\* A node's answer is its point's time; a pod's is the earliest of the times of
\* its containers.
NodeInfo(p) == [present |-> TRUE, time |-> p.time]
PodInfo(p) ==
    [present |-> TRUE,
     time |-> IF p.times = <<>> THEN ZeroTime ELSE Min(ToSet(p.times)),
     containers |-> Len(p.times)]

AnswerTo(req) ==
    [k \in DOMAIN req.names |->
        CASE req.kind = "nodes" /\ req.names[k] \in DOMAIN nodes ->
                 NodeInfo(nodes[req.names[k]])
          [] req.kind = "pods" /\ req.names[k] \in DOMAIN pods ->
                 PodInfo(pods[req.names[k]])
          [] OTHER -> NoMetrics]

Init ==
    /\ nodes = <<>>
    /\ pods = <<>>
    /\ answer = [r \in Readers |-> {}]

\* A batch becomes what is stored.
Publish(batch) ==
    /\ nodes' = FirstOf(batch.nodes)
    /\ pods' = FirstOf(batch.pods)
    /\ UNCHANGED answer

\* A reader is answered from what is stored at that moment.
Respond(r) ==
    /\ answer[r] = {}
    /\ \E req \in Requests :
          answer' = [answer EXCEPT ![r] = {[request |-> req, told |-> AnswerTo(req)]}]
    /\ UNCHANGED <<nodes, pods>>

\* The reader goes on to its next request.
Forget(r) ==
    /\ answer[r] # {}
    /\ answer' = [answer EXCEPT ![r] = {}]
    /\ UNCHANGED <<nodes, pods>>

Next ==
    \/ \E batch \in Batches : Publish(batch)
    \/ \E r \in Readers : Respond(r) \/ Forget(r)

Spec == Init /\ [][Next]_vars
=============================================================================
