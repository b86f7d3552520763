--------------------------- MODULE ConfigBuilder ----------------------------
(***************************************************************************)
(* `kubectl k8ssandra config build`, which runs as an init container of a  *)
(* Cassandra pod: Build of pkg/config/builder.go.                          *)
(*                                                                         *)
(* The files of the output directory are written one after the other, some *)
(* of them by appending.  A container that fails or is killed is started   *)
(* again, on the directory as it was left.                                 *)
(***************************************************************************)
EXTENDS JvmOptions, CassandraYaml, FiniteSets, TLC

CONSTANTS
    Inputs,        \* what a pod is started with: its environment and its image
    MaxFaults,     \* writes that fail, kills
    MaxRestarts

\* Major versions of Java with a file of server options, in the order of the code.
JvmFile == <<"jvm-server.options", "jvm11-server.options", "jvm17-server.options", "jvm21-server.options">>
JvmMajor == ("jvm-server.options" :> 8) @@ ("jvm11-server.options" :> 11)
            @@ ("jvm17-server.options" :> 17) @@ ("jvm21-server.options" :> 21)

Appended == <<"cassandra-rackdc.properties", "cassandra-env.sh">> \o JvmFile
\* Two of the eight files that are copied.
Copied == <<"logback.xml", "jvm.options">>
File == ToSet(Appended) \cup ToSet(Copied) \cup {"cassandra.yaml", "sidecar.yaml"}

ASSUME BoundAssumption == MaxFaults \in Nat /\ MaxRestarts \in Nat

\* What is read line by line is made of lines.
ASSUME LinesAssumption ==
    \A i \in Inputs :
        /\ \A file \in DOMAIN i.image \cap ToSet(JvmFile) : i.image[file] \in Seq(Line)
        /\ \A overrides \in {i.cluster} \cup {i.podOverrides[pod] : pod \in DOMAIN i.podOverrides} :
              /\ overrides.opts \in Seq(Line)
              /\ \A file \in DOMAIN overrides.jvm : overrides.jvm[file].additional \in Seq(Line)

\* An image's file selects no two collectors, and one by a line that is among the
\* lines of a collector's defaults.
ASSUME ImageAssumption ==
    \A i \in Inputs : \A file \in DOMAIN i.image \cap ToSet(JvmFile) :
        LET selecting == {line \in ToSet(i.image[file]) : IsGcOption(line)}
        IN  /\ selecting \subseteq GetAllGCOptions(JvmMajor[file])
            /\ \A a, b \in selecting : GcOptionMapping[a.name] = GcOptionMapping[b.name]

VARIABLES
    input,             \* the pod's
    out,               \* [File -> what has been written to it, write by write]
    status,            \* of the container
    at, open, todo,    \* which file is next or open, what is left to write to it
    faults, restarts

bounds == <<faults, restarts>>
vars == <<input, out, status, at, open, todo, bounds>>

-----------------------------------------------------------------------------
(* What the pod is given. *)

\* Validate, parseConfigInput and parseNodeInfo end in an error.
Refused ==
    \/ input.sidecar /\ ~input.directories
    \/ ~input.wellFormed
    \/ input.useHostIp \notin Bool \cup {""}

\* parseNodeInfo.
Node ==
    [listen    |-> input.podIp,
     broadcast |-> IF input.useHostIp = "true" THEN input.hostIp ELSE input.podIp,
     rpc       |-> IF input.podIp = "v6" THEN "::" ELSE "0.0.0.0"]

NoOverrides == [env |-> <<>>, opts |-> <<>>, jvm |-> <<>>, yaml |-> <<>>]
\* podOverridesForNode: those of the pod's name, if it has one.
PodOverrides ==
    IF input.pod # "" /\ input.pod \in DOMAIN input.podOverrides
    THEN input.podOverrides[input.pod] ELSE NoOverrides

Options(overrides, file) == IF file \in DOMAIN overrides.jvm THEN overrides.jvm[file] ELSE NoOptions

\* The image's file: the one for the latest version, where there is one.
BaseYaml == IF "cassandra_latest.yaml" \in DOMAIN input.image
            THEN input.image["cassandra_latest.yaml"] ELSE input.image["cassandra.yaml"]

-----------------------------------------------------------------------------
(* What is written to each file, write by write. *)

Text(text) == [form |-> "text", name |-> text, value |-> ""]

\* The template writes its pieces one by one.
RackProperties ==
    <<Text("dc="), Text("datacenter1"), Text("rack="), Text("rack1"), Text("eol")>>

\* mergeCassandraEnvOptions: the pod's variables over the cluster's, its options after them.
CassandraEnv ==
    [env |-> PodOverrides.env ++ input.cluster.env, opts |-> input.cluster.opts \o PodOverrides.opts]

\* createCassandraEnv.  Variables that are given are exported, options are added to JVM_OPTS.
EnvVariable == {"MALLOC_ARENA_MAX", "CASSANDRA_HEAPDUMP_DIR"}
EnvLines ==
    LET Export(name) == IF name \in DOMAIN CassandraEnv.env
                        THEN <<[form |-> "export", name |-> name, value |-> CassandraEnv.env[name]]>>
                        ELSE <<>>
    IN  Export("MALLOC_ARENA_MAX") \o Export("CASSANDRA_HEAPDUMP_DIR")
        \o <<Text("cassandra-env.sh"), Text("eol")>> \o CassandraEnv.opts

Source(file) == IF file \in DOMAIN input.image THEN input.image[file] ELSE <<>>

Contents(file) ==
    CASE file = "cassandra-rackdc.properties" -> {RackProperties}
      [] file = "cassandra-env.sh" -> {EnvLines}
      [] file \in ToSet(JvmFile) ->
            ServerJVMOptions(Source(file), Options(input.cluster, file),
                             Options(PodOverrides, file), JvmMajor[file])
      [] file = "cassandra.yaml" ->
            {<<FinalYaml(BaseYaml, input.cluster.yaml, PodOverrides.yaml, Node)>>}
      [] file = "sidecar.yaml" ->
            {<<SidecarYaml(input.image[file], input.sidecarYaml, Node)>>}
      [] OTHER -> {<<Text(file)>>}

\* Ends in an error or a panic before the file is opened: a file it starts from is
\* missing, or cannot be made into what it is to be.
Fails(file) ==
    CASE file = "cassandra-env.sh" -> file \notin DOMAIN input.image
      [] file \in ToSet(JvmFile) ->
            Malformed(Options(input.cluster, file), Options(PodOverrides, file))
      [] file = "cassandra.yaml" ->
            DOMAIN input.image \cap {"cassandra.yaml", "cassandra_latest.yaml"} # {}
                => OverridesPanic(MergeYaml(BaseYaml, input.cluster.yaml))
      [] file = "sidecar.yaml" ->
            file \in DOMAIN input.image
                => SidecarInvalid(MergeYaml(input.image[file], input.sidecarYaml))
      [] OTHER -> FALSE

\* The files of this build in order.  Files to copy may be missing.
Plan ==
    LET Copy(file) == IF file \in DOMAIN input.image THEN <<file>> ELSE <<>>
    IN  IF input.sidecar THEN <<"sidecar.yaml">>
        ELSE Appended \o <<"cassandra.yaml">> \o Copy(Copied[1]) \o Copy(Copied[2])

-----------------------------------------------------------------------------
(* Build. *)

Init ==
    /\ input \in Inputs
    /\ out = [f \in File |-> <<>>]
    /\ status = "parsing"
    /\ at = 1 /\ open = FALSE /\ todo = <<>>
    /\ faults = 0 /\ restarts = 0

\* Mutant: builds into an empty directory only.
ParseIfEmpty ==
    /\ status = "parsing"
    /\ status' = IF \E file \in File : out[file] # <<>> THEN "failed" ELSE "building"
    /\ UNCHANGED <<input, out, at, open, todo, bounds>>

Parse ==
    /\ status = "parsing"
    /\ status' = IF Refused THEN "failed" ELSE "building"
    /\ UNCHANGED <<input, out, at, open, todo, bounds>>

NextFile == at' = at + 1 /\ open' = FALSE

\* Mutant: a file that is there is left as it is.
LeftOutIfThere(file, content) == content = <<>> \/ out[file] # <<>>

\* Options files without a line are left out.
LeftOut(file, content) == content = <<>>

\* The next file is opened, for appending or else emptied.
Open ==
    /\ status = "building" /\ ~open /\ at <= Len(Plan)
    /\ \/ /\ Fails(Plan[at])
          /\ status' = "failed"
          /\ UNCHANGED <<out, at, open, todo>>
       \/ /\ ~Fails(Plan[at])
          /\ \E content \in Contents(Plan[at]) :
                IF LeftOut(Plan[at], content)
                THEN NextFile /\ UNCHANGED <<out, todo>>
                ELSE /\ open' = TRUE /\ todo' = content
                     /\ out' = IF Plan[at] \in ToSet(Appended) THEN out
                               ELSE [out EXCEPT ![Plan[at]] = <<>>]
                     /\ UNCHANGED at
          /\ UNCHANGED status
    /\ UNCHANGED <<input, bounds>>

Write ==
    /\ status = "building" /\ open /\ todo # <<>>
    /\ out' = [out EXCEPT ![Plan[at]] = Append(@, Head(todo))]
    /\ todo' = Tail(todo)
    /\ UNCHANGED <<input, status, at, open, bounds>>

Close ==
    /\ status = "building" /\ open /\ todo = <<>>
    /\ NextFile
    /\ UNCHANGED <<input, out, status, todo, bounds>>

Finish ==
    /\ status = "building" /\ at > Len(Plan)
    /\ status' = "done"
    /\ UNCHANGED <<input, out, at, open, todo, bounds>>

\* A call on the directory fails, or the container is killed.
Fault ==
    /\ status = "building" /\ faults < MaxFaults
    /\ faults' = faults + 1
    /\ status' = "failed"
    /\ UNCHANGED <<input, out, at, open, todo, restarts>>

\* The kubelet starts the init container again.
Restart ==
    /\ status = "failed" /\ restarts < MaxRestarts
    /\ restarts' = restarts + 1
    /\ status' = "parsing"
    /\ at' = 1 /\ open' = FALSE /\ todo' = <<>>
    /\ UNCHANGED <<input, out, faults>>

Step == Parse \/ Open \/ Write \/ Close \/ Finish
Next == Step \/ Fault \/ Restart

Spec == Init /\ [][Next]_vars

\* The build waits for nobody, and the kubelet restarts what fails.
FairSpec == Spec /\ WF_vars(Step) /\ WF_vars(Restart)

-----------------------------------------------------------------------------
(* Properties. *)

Done == status = "done"
Built == Done /\ ~input.sidecar

\* However often the container was restarted, a finished build leaves every file
\* with one whole copy of its contents, at its end if it is appended to.  (The
\* files are opened O_APPEND or truncated and written again by each run.)
FilesEndWhole ==
    Done => \A i \in DOMAIN Plan : \E content \in Contents(Plan[i]) :
        IF Plan[i] \in ToSet(Appended) THEN IsSuffix(content, out[Plan[i]])
                                        ELSE out[Plan[i]] = content

\* The lines about an option, and what the first or the last of some lines says.
About(lines, form, name) == {i \in DOMAIN lines : lines[i].form = form /\ lines[i].name = name}
FirstOf(lines, places) == {lines[i].value : i \in {i \in places : \A j \in places : i <= j}}
LastOf(lines, places) == {lines[i].value : i \in {i \in places : \A j \in places : j <= i}}

\* What a JVM or a shell makes of lines: the last one about an option counts.
InEffect(lines, form, name) == LastOf(lines, About(lines, form, name))

\* What a layer says, and where it says nothing what the layers below it do.
layer ?? below == IF layer # {} THEN layer ELSE below

Names(lines) == {<<line.form, line.name>> : line \in ToSet(lines)}

\* What a file of options is to say of an option: the pod's settings, then the
\* cluster's, then additional options, the pod's before the cluster's, then the
\* image, then the chosen collector's defaults.  Of the image's own lines about an option
\* the first stays; where a collector is chosen, those that contain a default of any
\* collector do not count, also those that go on after it: MaxTenuringThreshold=15 is
\* taken for MaxTenuringThreshold=1.
Precedence(file, form, name) ==
    LET base == Options(input.cluster, file)
        override == Options(PodOverrides, file)
        chosen == Collector(Merged(base, override))
        defaults == GetGCOptions(chosen, JvmMajor[file])
        Set(options) == {line.value : line \in {l \in Outputs(options.settings, JvmMajor[file]) :
                                                   l.form = form /\ l.name = name}}
        image == {i \in About(Source(file), form, name) :
                    chosen = "" \/ ~Repeats(Source(file)[i], JvmMajor[file])}
    IN  Set(override) ?? Set(base)
        ?? InEffect(override.additional, form, name) ?? InEffect(base.additional, form, name)
        ?? FirstOf(Source(file), image) ?? FirstOf(defaults, About(defaults, form, name))

\* Options with a value follow this precedence in every options file, after any
\* number of restarts.  In cassandra-env.sh the pod's variables go over the cluster's, and
\* its options follow the cluster's.  (createServerJVMOptions, mergeCassandraEnvOptions)
OptionsByPrecedence ==
    Built =>
        /\ \A file \in ToSet(JvmFile) :
              LET base == Options(input.cluster, file)
                  override == Options(PodOverrides, file)
              IN  \A o \in Names(out[file]) \cup Names(base.additional)
                            \cup Names(override.additional) \cup Names(Source(file)) :
                     o[1] # "switch" => InEffect(out[file], o[1], o[2]) = Precedence(file, o[1], o[2])
        /\ \A name \in EnvVariable :
              LET Given(env) == IF name \in DOMAIN env THEN {env[name]} ELSE {}
              IN  InEffect(out["cassandra-env.sh"], "export", name) =
                      Given(PodOverrides.env) ?? Given(input.cluster.env)
        /\ \A o \in Names(input.cluster.opts) \cup Names(PodOverrides.opts) :
              InEffect(out["cassandra-env.sh"], o[1], o[2]) =
                  InEffect(PodOverrides.opts, o[1], o[2]) ?? InEffect(input.cluster.opts, o[1], o[2])

\* A JVM is given at most one garbage collector, and the one that the cluster names
\* or, where it names none, one that an option contains: only an input that names one
\* and selects another gets both.  An option that goes on after a collector's counts,
\* so that -XX:+UseCMSInitiatingOccupancyOnly may prevail over a -XX:+UseG1GC after it.
\* (detectGarbageCollector, getGCOptions)
OneCollector ==
    Built => \A file \in ToSet(JvmFile) :
        LET named == Options(input.cluster, file).collector
            additional == ToSet(Options(input.cluster, file).additional)
                          \cup ToSet(Options(PodOverrides, file).additional)
            Selected(lines) == {GcOptionMapping[line.name] : line \in {l \in lines : IsGcOption(l)}}
            mentioned == UNION {Mentioned(line) : line \in additional}
            given == Selected(ToSet(out[file]))
        IN  named = "" \/ Selected(additional) \subseteq {named} =>
                /\ Cardinality(given) <= 1
                /\ named # "" \/ mentioned # {} =>
                      given \subseteq (IF named # "" THEN {named} ELSE mentioned)

\* What a document over others makes of a key.  Zero values of nested mappings and empty
\* strings do not replace anything.
Over(doc, key, below) ==
    LET replaces == doc[key] \notin (IF key \in NestedKey THEN ZeroValue ELSE {""})
    IN  IF key \in DOMAIN doc /\ (below = {} \/ replaces) THEN {doc[key]} ELSE below
Configured(key) == Over(input.cluster.yaml, key, Over(BaseYaml, key, {}))

\* What a node on Kubernetes makes of it.
OnKubernetes(key) ==
    CASE key = "listen_address" -> {Node.listen}
      [] key = "broadcast_rpc_address" -> {Node.broadcast}
      [] key = "broadcast_address" -> {}
      [] key = "rpc_address" /\ Configured(key) \in {{""}, {"localhost"}} ->
            {IF Configured("rpc_interface_prefer_ipv6") = {"true"} THEN "::" ELSE Node.rpc}
      [] key = "endpoint_snitch" /\ Configured("node_proximity") = {} ->
            {"GossipingPropertyFileSnitch"}
      [] key = "initial_location_provider"
         /\ Configured("node_proximity") = {"NetworkTopologyProximity"} ->
            {"RackDCFileLocationProvider"}
      [] key = "seed_provider" -> {"K8SeedProvider"}
      [] key = "cluster_name" -> {"cluster"}
      [] OTHER -> Configured(key)

\* In cassandra.yaml the pod's values go over those a node on Kubernetes needs, these
\* over the cluster's and the cluster's over the image's, also when they are false or
\* null.  (createCassandraYaml, mergeYaml, k8ssandraOverrides)
YamlByPrecedence ==
    Built =>
        LET doc == out["cassandra.yaml"][1]
        IN  \A key \in DOMAIN doc \cup DOMAIN BaseYaml \cup DOMAIN input.cluster.yaml
                        \cup DOMAIN PodOverrides.yaml \cup {"listen_address", "cluster_name"} :
               (IF key \in DOMAIN doc THEN {doc[key]} ELSE {}) = Over(PodOverrides.yaml, key, OnKubernetes(key))

\* A build that nothing in its input keeps from finishing is finished by restarts,
\* whatever an interrupted one left behind.  (no step needs a file to be new)
Buildable == ~Refused /\ \A i \in DOMAIN Plan : ~Fails(Plan[i])
RestartedBuildEnds == (status = "parsing" /\ Buildable) ~> Done

-----------------------------------------------------------------------------
(* What the tests and comments say and the code does not do. *)

\* TestRackProperties: the file has two lines, dc and rack.
RackHasTwoLines == Built => out["cassandra-rackdc.properties"] = RackProperties

\* mergeYaml: "explicitly preserve boolean overrides".
BooleansPreserved ==
    Built => \A key \in DOMAIN PodOverrides.yaml :
        PodOverrides.yaml[key] \in Bool => out["cassandra.yaml"][1][key] = PodOverrides.yaml[key]

\* createServerJVMOptions: "replace the values with the inputs we get".
SwitchesReplaced ==
    Built => \A file \in ToSet(JvmFile) :
        \A line \in ToSet(Options(input.cluster, file).additional) :
            ~IsGcOption(line) => InEffect(out[file], line.form, line.name) = {line.value}
=============================================================================
