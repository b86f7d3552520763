---------------------------- MODULE SchemaRegistry ----------------------------
(***************************************************************************)
(* What CRD upgrades promise the cluster, whoever runs them and however    *)
(* they fail: the definition of a resource is always, as a whole, one of   *)
(* the manifests on offer (or the one found at the start); it is replaced  *)
(* in one step and never taken away.                                       *)
(***************************************************************************)
CONSTANTS
    Crd,        \* names
    NoCrd,      \* not installed
    Offered,    \* the manifests of the chart's releases
    Initially   \* [Crd -> manifest or NoCrd]

VARIABLE schema \* [Crd -> manifest or NoCrd]

Init == schema = Initially

\* A missing definition is installed, or a present one replaced.
Apply(m) == schema' = [schema EXCEPT ![m.crd] = m]

Next == \E m \in Offered : Apply(m)

Spec == Init /\ [][Next]_schema
=============================================================================
