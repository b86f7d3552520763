---------------------------- MODULE MCScheduler ----------------------------
(* Small instances of Scheduler: three nodes, one of them small. *)
EXTENDS Scheduler, TLC

CONSTANTS n1, n2, n3, cpu, pods

Of(c, p) == [r \in Resource |-> IF r = cpu THEN c ELSE p]

Allocatable == [n \in Node |-> IF n = n3 THEN Of(1, 2) ELSE Of(2, 2)]
IdleOrBusy == {Of(0, 0), Of(1, 1)}

\* What the command proposes: up to as many pods as there are nodes.
Estimates == {MakePods(k, Of(c, 1), Node) : k \in 1..3, c \in 0..2}

\* Callers of the package: pods of several sizes, picky or tolerant.
PodOf(c, nodes, tolerant) == [request |-> Of(c, 1), nodes |-> nodes, tolerant |-> tolerant]
Mixed ==
    {<<PodOf(a, Node, t), PodOf(1, nodes, FALSE), PodOf(1, Node, TRUE)>> :
        a \in 1..2, t \in BOOLEAN, nodes \in {Node, {n1}}}
EstimatesAndMixed == Estimates \cup Mixed
\* A small pod before one that needs the node the small one gets.
SmallFirst == {<<PodOf(1, Node, FALSE), PodOf(2, {n1}, FALSE)>>}

\* n1 and n2 are alike.
Alike == Permutations({n1, n2})
=============================================================================
