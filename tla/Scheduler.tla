----------------------------- MODULE Scheduler -----------------------------
(***************************************************************************)
(* `kubectl k8ssandra tools estimate`: TryScheduling of pkg/scheduler.     *)
(*                                                                         *)
(* The nodes are listed, then the pods of each node, one call per node,    *)
(* while the cluster goes on changing.  On that snapshot the proposed pods *)
(* are placed one after the other on the first node that passes the        *)
(* filters; a node that got a pod is marked unschedulable, in place of the *)
(* anti-affinity between Cassandra pods.                                   *)
(***************************************************************************)
EXTENDS Naturals, Sequences, FiniteSets, Functions

CONSTANTS
    Node,
    Resource,     \* cpu, memory, and pods, of which every pod requests one
    Alloc,        \* [Node -> [Resource -> Nat]]: allocatable
    Load,         \* amounts the pods of a node may be using
    Proposals,    \* the sequences of pods that are proposed
    MaxChanges    \* changes of the cluster during one estimate

Amount == [Resource -> Nat]

\* What the filters look at: the requests, the nodes whose labels and taints
\* suit the pod, and whether it tolerates unschedulable nodes.
Pod == [request : Amount, nodes : SUBSET Node, tolerant : BOOLEAN]

\* A node as its pods make it: running ones, finished ones not yet deleted.
NodeState == [running : Load, finished : Load, cordoned : BOOLEAN]

ASSUME NodeAssumption == IsFiniteSet(Node)
ASSUME AmountAssumption == Alloc \in [Node -> Amount] /\ Load \subseteq Amount
ASSUME ProposalsAssumption == Proposals \subseteq Seq(Pod)
ASSUME ChangesAssumption == MaxChanges \in Nat

VARIABLES
    cluster,   \* [Node -> NodeState]
    changes,
    pc,        \* "listNodes", "listPods", "place", "fits", "unable" or "failed"
    proposed,  \* proposedPods
    order,     \* nodes, as listed
    read,      \* nodes whose pods are listed already, a prefix of order
    seen,      \* usableNodes as built: [Node -> [used, unschedulable]]
    infos,     \* usableNodes as the loop leaves them
    assigned   \* the node of each pod placed so far

input == <<proposed, order>>
vars == <<cluster, changes, pc, proposed, order, read, seen, infos, assigned>>

Plus(a, b) == [r \in Resource |-> a[r] + b[r]]

\* makePods: pods without affinity or tolerations (a node with any taint is
\* none of nodes).
MakePods(count, request, nodes) ==
    [i \in 1..count |-> [request |-> request, nodes |-> nodes, tolerant |-> FALSE]]

-----------------------------------------------------------------------------
(* The filter plugins of kube-scheduler. *)

\* noderesources: what is not requested is not checked.
ResourcesFit(p, n, used) ==
    \A r \in Resource : p.request[r] > 0 => used[r] + p.request[r] <= Alloc[n][r]

\* All of them; nodeaffinity's PreFilter only narrows the nodes tried.
Passes(p, n, info) ==
    /\ n \in p.nodes
    /\ ResourcesFit(p, n, info.used)
    /\ info.unschedulable => p.tolerant

-----------------------------------------------------------------------------
(* fetchNodes and createNodeInfos. *)

\* A list of the nodes: every one, once.
Orders == Bijection(1..Cardinality(Node), Node)

Empty == [n \in Node |-> [used |-> [r \in Resource |-> 0], unschedulable |-> FALSE]]

\* The list carries the nodes' specs, cordons included.
ListNodes ==
    /\ pc = "listNodes"
    /\ order' \in Orders
    /\ seen' = [n \in Node |-> [Empty[n] EXCEPT !.unschedulable = cluster[n].cordoned]]
    /\ pc' = "listPods"
    /\ UNCHANGED <<cluster, changes, proposed, read, infos, assigned>>

\* Mutant: the pods of the node after the last one are listed too.
ListPodsPastEnd ==
    /\ pc = "listPods"
    /\ read <= Len(order)
    /\ read' = read + 1
    /\ UNCHANGED <<cluster, changes, pc, input, seen, infos, assigned>>

\* Every pod of the node is added, whatever its phase.
ListPods ==
    /\ pc = "listPods"
    /\ read < Len(order)
    /\ read' = read + 1
    /\ LET n == order[read + 1]
       IN  seen' = [seen EXCEPT ![n].used = Plus(cluster[n].running, cluster[n].finished)]
    /\ UNCHANGED <<cluster, changes, pc, input, infos, assigned>>

Listed ==
    /\ pc = "listPods"
    /\ read = Len(order)
    /\ pc' = "place"
    /\ infos' = seen
    /\ UNCHANGED <<cluster, changes, input, read, seen, assigned>>

\* A list call fails.
ListFails ==
    /\ pc \in {"listNodes", "listPods"}
    /\ pc' = "failed"
    /\ UNCHANGED <<cluster, changes, input, read, seen, infos, assigned>>

-----------------------------------------------------------------------------
(* The loop over proposedPods. *)

Current == proposed[Len(assigned) + 1]
Candidates(p) == {i \in DOMAIN order : Passes(p, order[i], infos[order[i]])}

\* Mutants: one of the two is forgotten.
WithPodUnmarked(info, p) == [info EXCEPT !.used = Plus(info.used, p.request)]
WithPodUncounted(info, p) == [info EXCEPT !.unschedulable = TRUE]

\* node.AddPod(pod); n.Spec.Unschedulable = true.
WithPod(info, p) == [used |-> Plus(info.used, p.request), unschedulable |-> TRUE]

Place ==
    /\ pc = "place"
    /\ Len(assigned) < Len(proposed)
    /\ \E i \in Candidates(Current) :
       /\ \A j \in Candidates(Current) : i <= j
       /\ infos' = [infos EXCEPT ![order[i]] = WithPod(@, Current)]
       /\ assigned' = Append(assigned, order[i])
    /\ UNCHANGED <<cluster, changes, pc, input, read, seen>>

\* Mutant: the search ends at the first node that does not pass.
UnableEarly ==
    /\ pc = "place"
    /\ Len(assigned) < Len(proposed)
    /\ \E i \in DOMAIN order : i \notin Candidates(Current)
    /\ pc' = "unable"
    /\ UNCHANGED <<cluster, changes, input, read, seen, infos, assigned>>

\* Pod was never added to any node.
Unable ==
    /\ pc = "place"
    /\ Len(assigned) < Len(proposed)
    /\ Candidates(Current) = {}
    /\ pc' = "unable"
    /\ UNCHANGED <<cluster, changes, input, read, seen, infos, assigned>>

Fits ==
    /\ pc = "place"
    /\ Len(assigned) = Len(proposed)
    /\ pc' = "fits"
    /\ UNCHANGED <<cluster, changes, input, read, seen, infos, assigned>>

-----------------------------------------------------------------------------
\* Pods come, finish and go; nodes are cordoned and uncordoned.
Change(n) ==
    /\ changes < MaxChanges
    /\ changes' = changes + 1
    /\ \E state \in NodeState : cluster' = [cluster EXCEPT ![n] = state]
    /\ UNCHANGED <<pc, input, read, seen, infos, assigned>>

Init ==
    /\ cluster \in [Node -> NodeState]
    /\ changes = 0
    /\ pc = "listNodes"
    /\ proposed \in Proposals
    /\ order = <<>>
    /\ read = 0
    /\ seen = Empty
    /\ infos = Empty
    /\ assigned = <<>>

Next ==
    \/ ListNodes \/ ListPods \/ Listed \/ ListFails
    \/ Place \/ Unable \/ Fits
    \/ \E n \in Node : Change(n)

Spec == Init /\ [][Next]_vars

-----------------------------------------------------------------------------
(* Properties. *)

Infos == [Node -> [used : Amount, unschedulable : BOOLEAN]]
TypeOK ==
    /\ cluster \in [Node -> NodeState]
    /\ changes \in 0..MaxChanges
    /\ pc \in {"listNodes", "listPods", "place", "fits", "unable", "failed"}
    /\ proposed \in Proposals
    /\ order \in Orders \cup {<<>>}
    /\ read \in 0..Len(order)
    /\ seen \in Infos
    /\ infos \in Infos
    /\ assigned \in Seq(Node)

\* The reference: nodes of their own for all the pods, on the snapshot.
Schedulable ==
    \E f \in Injection(DOMAIN proposed, Node) :
        \A i \in DOMAIN proposed : Passes(proposed[i], f[i], seen[f[i]])

Plain == \A i \in DOMAIN proposed : ~proposed[i].tolerant
Identical == \A i, j \in DOMAIN proposed : proposed[i] = proposed[j]

\* Pods found to fit do fit, each on a node of its own (fit.go:157-187).
FitsMeansSchedulable == pc = "fits" /\ Plain => Schedulable

\* Identical pods, the only ones the command proposes, that are found not to
\* fit have no placement at all (fit.go:184-185, estimate.go:156-176).
UnableMeansUnschedulable == pc = "unable" /\ Plain /\ Identical => ~Schedulable

\* No node is promised more than it has, also when pods share it: the pods the
\* list showed and those placed stay within what is allocatable (fit.go:168-179).
Promised(n, r) ==
    LET sum[i \in 0..Len(assigned)] ==
            IF i = 0 THEN seen[n].used[r]
            ELSE sum[i - 1] + IF assigned[i] = n THEN proposed[i].request[r] ELSE 0
    IN  sum[Len(assigned)]
NeverOvercommitted ==
    \A i \in DOMAIN assigned, r \in Resource :
        proposed[i].request[r] > 0 => Promised(assigned[i], r) <= Alloc[assigned[i]][r]

-----------------------------------------------------------------------------
(* What the documentation says and the code does not do. *)

\* fit.go:70: "TryScheduling checks if the proposed pods will be schedulable".
UnableMeansNoPlacement == pc = "unable" => ~Schedulable
=============================================================================
