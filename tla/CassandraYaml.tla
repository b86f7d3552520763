--------------------------- MODULE CassandraYaml ----------------------------
(***************************************************************************)
(* How pkg/config/builder.go makes cassandra.yaml and sidecar.yaml of the  *)
(* image's own file, what the cluster and the pod configure, and what a    *)
(* node on Kubernetes needs.                                               *)
(*                                                                         *)
(* A document is a function from its keys to values.  The keys include     *)
(* those of nested mappings (NestedKey); "null", "true" and "false" stand  *)
(* for the YAML values.                                                    *)
(***************************************************************************)
EXTENDS Sequences

NestedKey == {"client_encryption_options.enabled", "sidecar.endpoint_access_mode"}
Bool == {"true", "false"}
Without(doc, keys) == [k \in DOMAIN doc \ keys |-> doc[k]]

\* A document and what it leaves to another one.
doc ++ below ==
    [k \in DOMAIN doc \cup DOMAIN below |-> IF k \in DOMAIN doc THEN doc[k] ELSE below[k]]

-----------------------------------------------------------------------------
(* mergeYaml. *)

\* goalesce: the higher value, unless it is a zero value and there is a lower one.
ZeroValue == {"false", "", "null"}
DeepMerge(lower, higher) ==
    [k \in {x \in DOMAIN higher : x \in DOMAIN lower => higher[x] \notin ZeroValue} |-> higher[k]] ++ lower

\* Mutant: without the loop that puts booleans and nulls back.
MergeYamlDeepOnly(lower, higher) == DeepMerge(lower, higher)

\* Top-level booleans and nulls of the higher document are put back.
MergeYaml(lower, higher) ==
    [k \in {x \in DOMAIN higher \ NestedKey : higher[x] \in Bool \cup {"null"}} |-> higher[k]]
        ++ DeepMerge(lower, higher)

-----------------------------------------------------------------------------
(* k8ssandraOverrides.  A node has listen, broadcast and rpc addresses. *)

\* A proximity that is not a string ends in a panic.
OverridesPanic(merged) ==
    "node_proximity" \in DOMAIN merged /\ merged["node_proximity"] \in Bool \cup {"null"}

\* rpc_address is replaced only when it is empty or localhost.
RpcAddress(merged, node) ==
    IF /\ "rpc_interface_prefer_ipv6" \in DOMAIN merged
       /\ merged["rpc_interface_prefer_ipv6"] = "true"
    THEN "::" ELSE node.rpc
ReplacesRpc(merged) ==
    "rpc_address" \in DOMAIN merged /\ merged["rpc_address"] \in {"", "localhost"}

\* Which file holds the rack, or what reads it: up to 5.0 and from 5.1 on.
Locator(merged) ==
    IF "node_proximity" \notin DOMAIN merged
    THEN [endpoint_snitch |-> "GossipingPropertyFileSnitch"]
    ELSE IF merged["node_proximity"] = "NetworkTopologyProximity"
         THEN [initial_location_provider |-> "RackDCFileLocationProvider"]
         ELSE <<>>

K8ssandraOverrides(merged, node) ==
    [seed_provider |-> "K8SeedProvider", cluster_name |-> "cluster",
     listen_address |-> node.listen, broadcast_rpc_address |-> node.broadcast]
        ++ Locator(merged)
        ++ (IF ReplacesRpc(merged) THEN [rpc_address |-> RpcAddress(merged, node)] ELSE <<>>)
        ++ Without(merged, {"broadcast_address"})

\* Mutant: the pod's values go in with the cluster's.
FinalYamlPodFirst(base, cluster, pod, node) ==
    K8ssandraOverrides(MergeYaml(MergeYaml(base, cluster), pod), node)

\* createCassandraYaml: the pod's values last, over the mandatory ones too.
FinalYaml(base, cluster, pod, node) ==
    MergeYaml(K8ssandraOverrides(MergeYaml(base, cluster), node), pod)

-----------------------------------------------------------------------------
(* createSidecarYaml.  The sections that are written to must be there. *)

SidecarSection == {"cassandra_instances", "sidecar.endpoint_access_mode"}
SidecarInvalid(merged) == ~(SidecarSection \subseteq DOMAIN merged)

SidecarYaml(base, cluster, node) ==
    [k \in SidecarSection |-> IF k = "cassandra_instances" THEN node.listen ELSE "analytics"]
        ++ MergeYaml(base, cluster)
=============================================================================
