-------------------------- MODULE MCConfigBuilder ---------------------------
(* Pods for ConfigBuilder: one that is given nothing special, and for each part of the
   build the pods that differ from it there. *)
EXTENDS ConfigBuilder

\* What occurs here and begins with a name or a value of a collector's options.
Longers == {<<"UseCMSInitiatingOccupancyOnly", "UseCMS">>, <<"15", "1">>, <<"150", "1">>,
            <<"100", "1">>, <<"80", "8">>, <<"3000", "300">>}

PlainImage ==
    ("cassandra-env.sh" :> <<>>) @@ ("logback.xml" :> <<>>)
    @@ ("jvm-server.options" :> <<[form |-> "prefix", name |-> "-Xss", value |-> "256k"],
                                  Switch("AlwaysPreTouch", "+")>>)
    @@ ("cassandra.yaml" :> [cluster_name |-> "Test Cluster", rpc_address |-> "localhost",
                             listen_address |-> "localhost", endpoint_snitch |-> "SimpleSnitch"])
Plain ==
    [pod |-> "pod-0", podIp |-> "v4", hostIp |-> "host", useHostIp |-> "", sidecar |-> FALSE,
     directories |-> TRUE, wellFormed |-> TRUE, sidecarYaml |-> <<>>, cluster |-> NoOverrides, podOverrides |-> <<>>, image |-> PlainImage]

\* Options of the cluster and of the pod for an options file that has these lines.
WithJvm(file, lines, base, override) ==
    [Plain EXCEPT !.image = (file :> lines) @@ @,
                  !.cluster.jvm = IF base = NoOptions THEN <<>> ELSE file :> base,
                  !.podOverrides = "pod-0" :> [NoOverrides EXCEPT !.jvm = file :> override]]

Stack(value) == [form |-> "prefix", name |-> "-Xss", value |-> value]
Pause(value) == Assign("MaxGCPauseMillis", value)

JvmPods ==
    { WithJvm("jvm11-server.options", lines, base, override) :
        lines \in {<<On("UseG1GC"), Assign("MaxTenuringThreshold", "1"), Pause("500"), Pause("400")>>,
                   <<Assign("MaxTenuringThreshold", "15"), Assign("SurvivorRatio", "80"), Pause("3000")>>,
                   DefaultCMSSettings},
        base \in {[NoOptions EXCEPT !.additional = a, !.collector = c] :
                     a \in {<<>>, <<On("UseG1GC"), Pause("200")>>,
                            <<On("UseCMSInitiatingOccupancyOnly"), On("UseG1GC")>>},
                     c \in {"", "G1GC", "CMS", "ZGC"}},
        override \in {NoOptions,
                      [NoOptions EXCEPT !.settings = [max_gc_pause_millis |-> "100", survivor_ratio |-> "2"]],
                      [NoOptions EXCEPT !.additional = <<Pause("150"), On("UseShenandoahGC")>>]} }
    \cup
    { WithJvm("jvm-server.options", <<Stack("256k")>>, base, override) :
        base \in {NoOptions, [NoOptions EXCEPT !.settings = [per_thread_stack_size |-> "1M"]],
                  [NoOptions EXCEPT !.additional = <<Stack("512k")>>]},
        override \in {NoOptions, [NoOptions EXCEPT !.settings = [per_thread_stack_size |-> "2M"]],
                      [NoOptions EXCEPT !.additional = <<Stack("4M")>>, !.collector = "ZGC"]} }
    \cup
    { WithJvm(file, <<On("UseG1GC")>>, [NoOptions EXCEPT !.collector = c], NoOptions) :
        file \in {"jvm17-server.options", "jvm21-server.options"}, c \in {"CMS", "ZGC"} }

YamlPods ==
    { [Plain EXCEPT !.podIp = ip, !.useHostIp = useHost, !.cluster.yaml = cluster,
                    !.podOverrides = "pod-0" :> [NoOverrides EXCEPT !.yaml = pod]] :
        ip \in {"v4", "v6"}, useHost \in {"", "true"},
        cluster \in {<<>>, [rpc_address |-> "", broadcast_address |-> "pod"],
                     [rpc_interface_prefer_ipv6 |-> "true", listen_address |-> "mine"]},
        pod \in {<<>>, [cluster_name |-> "other", rpc_interface_prefer_ipv6 |-> "false"]} }
    \cup
    { [Plain EXCEPT !.image = ("cassandra_latest.yaml" :>
                                  ([rpc_address |-> "mine", auto_snapshot |-> "true",
                                    node_proximity |-> "SimpleProximity"] @@ nested)) @@ @,
                    !.cluster.yaml = cluster,
                    !.podOverrides = "pod-0" :> [NoOverrides EXCEPT !.yaml = pod]] :
        nested \in {<<>>, "client_encryption_options.enabled" :> "true"},
        cluster \in {[node_proximity |-> "NetworkTopologyProximity"], [auto_snapshot |-> "false"],
                     "client_encryption_options.enabled" :> "true"},
        pod \in {<<>>, [auto_snapshot |-> "null"], [auto_snapshot |-> "true"],
                 "client_encryption_options.enabled" :> "false"} }

EnvPods ==
    { [Plain EXCEPT !.pod = pod, !.cluster.env = [MALLOC_ARENA_MAX |-> "4"], !.cluster.opts = <<Assign("a", "1")>>,
                    !.podOverrides = "pod-0" :> [NoOverrides EXCEPT !.env = env, !.opts = opts]] :
        pod \in {"pod-0", "pod-1", ""},
        env \in {<<>>, [MALLOC_ARENA_MAX |-> "8"], [CASSANDRA_HEAPDUMP_DIR |-> "/heap"]},
        opts \in {<<>>, <<Assign("a", "2")>>} }

SidecarPods ==
    { [Plain EXCEPT !.sidecar = TRUE, !.sidecarYaml = configured, !.image = ("sidecar.yaml" :> base) @@ @] :
        configured \in {<<>>, ("sidecar.endpoint_access_mode" :> "internal")},
        base \in {[cassandra_instances |-> "local"],
                  ("cassandra_instances" :> "local") @@ ("sidecar.endpoint_access_mode" :> "internal")} }

\* What a build refuses.
FailingPods ==
    { [Plain EXCEPT !.useHostIp = "perhaps"], [Plain EXCEPT !.wellFormed = FALSE],
      [Plain EXCEPT !.sidecar = TRUE], [Plain EXCEPT !.sidecar = TRUE, !.directories = FALSE],
      [Plain EXCEPT !.image = Without(@, {"cassandra-env.sh"})],
      [Plain EXCEPT !.image = Without(@, {"cassandra.yaml"})],
      [Plain EXCEPT !.cluster.yaml = [node_proximity |-> "null"]],
      WithJvm("jvm17-server.options", <<>>, [NoOptions EXCEPT !.list = FALSE], NoOptions) }

Pods == {Plain} \cup JvmPods \cup YamlPods \cup EnvPods \cup SidecarPods \cup FailingPods

\* For the runs about a statement of the repository.
PlainPods == {Plain}
NestedPods ==
    {[Plain EXCEPT !.cluster.yaml = "client_encryption_options.enabled" :> "true",
                   !.podOverrides = "pod-0" :> [NoOverrides EXCEPT !.yaml = "client_encryption_options.enabled" :> "false"]]}
SwitchPods ==
    {WithJvm("jvm-server.options", <<Switch("AlwaysPreTouch", "+")>>,
             [NoOptions EXCEPT !.additional = <<Switch("AlwaysPreTouch", "-")>>], NoOptions)}
=============================================================================
