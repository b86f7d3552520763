------------------------------ MODULE CrdStore ------------------------------
(***************************************************************************)
(* The Kubernetes API server as the CRD upgrader meets it: what a create, a *)
(* status update and a spec update do to one CustomResourceDefinition.     *)
(* The API server is not part of the repository; these operators are the   *)
(* behaviour pkg/helmutil/crds.go and its envtest suite rely on.           *)
(***************************************************************************)
EXTENDS Naturals

CONSTANTS
    Crd,      \* names of CustomResourceDefinitions
    Version,  \* API version names (v1alpha1, v1beta1, ...)
    Schema,   \* what else a manifest says: the OpenAPI schemas, abstracted
    NoCrd     \* the object does not exist

\* One CustomResourceDefinition document of a chart.
Manifest == [crd : Crd, versions : SUBSET Version, storage : Version, schema : Schema]

\* A CRD in the cluster: metadata.resourceVersion, spec, status.storedVersions.
Object == [rv : Nat, spec : Manifest, stored : SUBSET Version]

ASSUME NoCrdAssumption == NoCrd \notin Object

\* A manifest the server accepts: the storage version is one of the versions.
WellFormed(m) == m \in Manifest /\ m.storage \in m.versions

\* A write that changes nothing leaves the resourceVersion alone.
Written(old, new) == IF new = old THEN old ELSE [new EXCEPT !.rv = old.rv + 1]

\* Create: status starts with the storage version alone.
Created(m) == [rv |-> 1, spec |-> m, stored |-> {m.storage}]

\* Update: the status stays, and the storage version joins storedVersions.
SpecWritten(o, m) ==
    Written(o, [o EXCEPT !.spec = m, !.stored = o.stored \cup {m.storage}])

\* Status().Update: the spec stays.
StatusWritten(o, versions) == Written(o, [o EXCEPT !.stored = versions])

\* Optimistic locking, then validation: no stored version may leave the spec.
RvMatches(o, seen) == o # NoCrd /\ o.rv = seen.rv
Admitted(o, m) == o.stored \subseteq m.versions
=============================================================================
