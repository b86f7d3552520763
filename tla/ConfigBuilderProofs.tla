------------------------ MODULE ConfigBuilderProofs ------------------------
(***************************************************************************)
(* Theorems about ConfigBuilder, for every pod, any number of failed       *)
(* writes and kills, and any number of restarts.                           *)
(***************************************************************************)
EXTENDS ConfigBuilder, Counting, FiniteSetTheorems

-----------------------------------------------------------------------------
(* Layers of cassandra.yaml. *)

\* What a document has of a key, as a set of at most one value.
Entry(doc, key) == IF key \in DOMAIN doc THEN {doc[key]} ELSE {}

LEMMA LayerEntry ==
  ASSUME NEW f, NEW g, NEW key
  PROVE  Entry(f ++ g, key) = IF key \in DOMAIN f THEN {f[key]} ELSE Entry(g, key)
<1>1. DOMAIN (f ++ g) = DOMAIN f \cup DOMAIN g
  BY DEF ++
<1>2. key \in DOMAIN f \cup DOMAIN g => (f ++ g)[key] = IF key \in DOMAIN f THEN f[key] ELSE g[key]
  BY DEF ++
<1>. QED
  BY <1>1, <1>2 DEF Entry

LEMMA DeepMergeEntry ==
  ASSUME NEW lower, NEW higher, NEW key
  PROVE  Entry(DeepMerge(lower, higher), key) =
            IF key \in DOMAIN higher /\ (key \in DOMAIN lower => higher[key] \notin ZeroValue)
            THEN {higher[key]} ELSE Entry(lower, key)
<1>. DEFINE top == [k \in {x \in DOMAIN higher : x \in DOMAIN lower => higher[x] \notin ZeroValue}
                       |-> higher[k]]
<1>1. DeepMerge(lower, higher) = top ++ lower
  BY DEF DeepMerge
<1>2. key \in DOMAIN top <=>
          key \in DOMAIN higher /\ (key \in DOMAIN lower => higher[key] \notin ZeroValue)
  OBVIOUS
<1>3. key \in DOMAIN top => top[key] = higher[key]
  OBVIOUS
<1>. HIDE DEF top
<1>. QED
  BY <1>1, <1>2, <1>3, LayerEntry

\* A document merged over another has of each key what Over says.
THEOREM MergeIsOver ==
  ASSUME NEW lower, NEW higher, NEW key
  PROVE  Entry(MergeYaml(lower, higher), key) = Over(higher, key, Entry(lower, key))
<1>. DEFINE back == [k \in {x \in DOMAIN higher \ NestedKey : higher[x] \in Bool \cup {"null"}}
                        |-> higher[k]]
<1>1. MergeYaml(lower, higher) = back ++ DeepMerge(lower, higher)
  BY DEF MergeYaml
<1>2. key \in DOMAIN back <=>
          key \in DOMAIN higher /\ key \notin NestedKey /\ higher[key] \in Bool \cup {"null"}
  OBVIOUS
<1>3. key \in DOMAIN back => back[key] = higher[key]
  OBVIOUS
<1>. HIDE DEF back
<1>4. Entry(MergeYaml(lower, higher), key) =
          IF key \in DOMAIN back THEN {higher[key]} ELSE Entry(DeepMerge(lower, higher), key)
  BY <1>1, <1>3, LayerEntry
<1>5. key \in DOMAIN lower <=> Entry(lower, key) # {}
  BY DEF Entry
<1>6. higher[key] \in Bool \cup {"null"} <=> higher[key] \in ZeroValue \cup {"true"} /\ higher[key] # ""
  BY DEF Bool, ZeroValue
<1>. QED
  BY <1>2, <1>4, <1>5, <1>6, DeepMergeEntry DEF Over, ZeroValue, Bool

LEMMA EntryOfEmpty == ASSUME NEW key PROVE Entry(<<>>, key) = {}
  BY DEF Entry

LEMMA OneEntry ==
  ASSUME NEW key, NEW value
  PROVE  /\ Entry([endpoint_snitch |-> value], key) = IF key = "endpoint_snitch" THEN {value} ELSE {}
         /\ Entry([initial_location_provider |-> value], key) =
                IF key = "initial_location_provider" THEN {value} ELSE {}
         /\ Entry([rpc_address |-> value], key) = IF key = "rpc_address" THEN {value} ELSE {}
<1>1. Entry([endpoint_snitch |-> value], key) = IF key = "endpoint_snitch" THEN {value} ELSE {}
  BY DEF Entry
<1>2. Entry([initial_location_provider |-> value], key) =
         IF key = "initial_location_provider" THEN {value} ELSE {}
  BY DEF Entry
<1>3. Entry([rpc_address |-> value], key) = IF key = "rpc_address" THEN {value} ELSE {}
  BY DEF Entry
<1>. QED
  BY <1>1, <1>2, <1>3

LEMMA FirstEntry ==
  ASSUME NEW f, NEW g, NEW key
  PROVE  Entry(f ++ g, key) = IF Entry(f, key) # {} THEN Entry(f, key) ELSE Entry(g, key)
  BY LayerEntry DEF Entry

\* What a node on Kubernetes needs goes over what is configured.
LEMMA OverridesEntry ==
  ASSUME NEW merged, \A key : Entry(merged, key) = Configured(key), NEW key
  PROVE  Entry(K8ssandraOverrides(merged, Node), key) = OnKubernetes(key)
<1>. DEFINE mandatory == [seed_provider |-> "K8SeedProvider", cluster_name |-> "cluster",
                          listen_address |-> Node.listen, broadcast_rpc_address |-> Node.broadcast]
            rpc == IF ReplacesRpc(merged) THEN [rpc_address |-> RpcAddress(merged, Node)] ELSE <<>>
            rest == Without(merged, {"broadcast_address"})
<1>1. K8ssandraOverrides(merged, Node) = mandatory ++ Locator(merged) ++ rpc ++ rest
  BY DEF K8ssandraOverrides
<1>2. Entry(mandatory, key) =
        CASE key = "seed_provider" -> {"K8SeedProvider"}
          [] key = "cluster_name" -> {"cluster"}
          [] key = "listen_address" -> {Node.listen}
          [] key = "broadcast_rpc_address" -> {Node.broadcast}
          [] OTHER -> {}
  BY DEF Entry
<1>3. Entry(Locator(merged), key) =
        CASE key = "endpoint_snitch" /\ Configured("node_proximity") = {} ->
               {"GossipingPropertyFileSnitch"}
          [] key = "initial_location_provider"
             /\ Configured("node_proximity") = {"NetworkTopologyProximity"} ->
               {"RackDCFileLocationProvider"}
          [] OTHER -> {}
  <2>1. /\ "node_proximity" \notin DOMAIN merged <=> Configured("node_proximity") = {}
        /\ "node_proximity" \in DOMAIN merged =>
             (merged["node_proximity"] = "NetworkTopologyProximity"
                <=> Configured("node_proximity") = {"NetworkTopologyProximity"})
    <3>1. Entry(merged, "node_proximity") = Configured("node_proximity")
      OBVIOUS
    <3>. HIDE DEF Configured
    <3>. QED
      BY <3>1 DEF Entry
  <2>2. Entry([endpoint_snitch |-> "GossipingPropertyFileSnitch"], key) =
            IF key = "endpoint_snitch" THEN {"GossipingPropertyFileSnitch"} ELSE {}
    BY OneEntry
  <2>3. Entry([initial_location_provider |-> "RackDCFileLocationProvider"], key) =
            IF key = "initial_location_provider" THEN {"RackDCFileLocationProvider"} ELSE {}
    BY OneEntry
  <2>. HIDE DEF Configured
  <2>4. CASE "node_proximity" \notin DOMAIN merged
    BY <2>1, <2>2, <2>4 DEF Locator
  <2>5. CASE /\ "node_proximity" \in DOMAIN merged
             /\ merged["node_proximity"] = "NetworkTopologyProximity"
    BY <2>1, <2>3, <2>5 DEF Locator
  <2>6. CASE /\ "node_proximity" \in DOMAIN merged
             /\ merged["node_proximity"] # "NetworkTopologyProximity"
    BY <2>1, <2>6, EntryOfEmpty DEF Locator
  <2>. QED
    BY <2>4, <2>5, <2>6
<1>4. Entry(rpc, key) =
        IF key = "rpc_address" /\ Configured(key) \in {{""}, {"localhost"}}
        THEN {IF Configured("rpc_interface_prefer_ipv6") = {"true"} THEN "::" ELSE Node.rpc}
        ELSE {}
  <2>1. ReplacesRpc(merged) <=> Configured("rpc_address") \in {{""}, {"localhost"}}
    <3>1. Entry(merged, "rpc_address") = Configured("rpc_address")
      OBVIOUS
    <3>. QED
      BY <3>1 DEF Entry, ReplacesRpc
  <2>2. RpcAddress(merged, Node) =
          IF Configured("rpc_interface_prefer_ipv6") = {"true"} THEN "::" ELSE Node.rpc
    <3>1. Entry(merged, "rpc_interface_prefer_ipv6") = Configured("rpc_interface_prefer_ipv6")
      OBVIOUS
    <3>. QED
      BY <3>1 DEF Entry, RpcAddress
  <2>3. Entry([rpc_address |-> RpcAddress(merged, Node)], key) =
            IF key = "rpc_address" THEN {RpcAddress(merged, Node)} ELSE {}
    BY OneEntry
  <2>4. CASE ReplacesRpc(merged)
    BY <2>1, <2>2, <2>3, <2>4
  <2>5. CASE ~ReplacesRpc(merged)
    BY <2>1, <2>5, EntryOfEmpty
  <2>. QED
    BY <2>4, <2>5
<1>5. Entry(rest, key) = IF key = "broadcast_address" THEN {} ELSE Configured(key)
  <2>1. Entry(merged, key) = Configured(key)
    OBVIOUS
  <2>. QED
    BY <2>1 DEF Entry, Without
<1>. HIDE DEF mandatory, rpc, rest
<1>6. Entry(K8ssandraOverrides(merged, Node), key) =
          IF Entry(mandatory, key) # {} THEN Entry(mandatory, key)
          ELSE IF Entry(Locator(merged), key) # {} THEN Entry(Locator(merged), key)
          ELSE IF Entry(rpc, key) # {} THEN Entry(rpc, key) ELSE Entry(rest, key)
  BY <1>1, FirstEntry
<1>. HIDE DEF Entry, Configured, Node
<1>7. CASE key \in {"seed_provider", "cluster_name", "listen_address", "broadcast_rpc_address"}
  BY <1>2, <1>6, <1>7 DEF OnKubernetes
<1>8. CASE key \in {"endpoint_snitch", "initial_location_provider"}
  BY <1>2, <1>3, <1>4, <1>5, <1>6, <1>8 DEF OnKubernetes
<1>9. CASE key \in {"rpc_address", "broadcast_address"}
  BY <1>2, <1>3, <1>4, <1>5, <1>6, <1>9 DEF OnKubernetes
<1>10. CASE key \notin {"seed_provider", "cluster_name", "listen_address", "broadcast_rpc_address",
                        "endpoint_snitch", "initial_location_provider", "rpc_address",
                        "broadcast_address"}
  BY <1>2, <1>3, <1>4, <1>5, <1>6, <1>10 DEF OnKubernetes
<1>. QED
  BY <1>7, <1>8, <1>9, <1>10

\* The document that is written has of every key what the layers say.
THEOREM FinalIsLayered ==
  ASSUME NEW key
  PROVE  Entry(FinalYaml(BaseYaml, input.cluster.yaml, PodOverrides.yaml, Node), key) =
            Over(PodOverrides.yaml, key, OnKubernetes(key))
<1>. DEFINE merged == MergeYaml(BaseYaml, input.cluster.yaml)
<1>1. ASSUME NEW k PROVE Entry(merged, k) = Configured(k)
  <2>1. Entry(merged, k) = Over(input.cluster.yaml, k, Entry(BaseYaml, k))
    BY MergeIsOver
  <2>2. Entry(BaseYaml, k) = Over(BaseYaml, k, {})
    BY DEF Entry, Over
  <2>. QED
    BY <2>1, <2>2 DEF Configured
<1>2. Entry(K8ssandraOverrides(merged, Node), key) = OnKubernetes(key)
  <2>. HIDE DEF merged
  <2>. QED
    BY <1>1, OverridesEntry
<1>. QED
  BY <1>2, MergeIsOver DEF FinalYaml

-----------------------------------------------------------------------------
(* Lines. *)

\* What is selected of lines is selected one line after the other.
Here(lines, places, i) == IF i \in places THEN <<lines[i]>> ELSE <<>>
LEMMA ThoseInSteps ==
  ASSUME NEW S, NEW lines \in Seq(S), NEW places
  PROVE  \E those :
            /\ Those(lines, places) = those[Len(lines)] /\ those[0] = <<>>
            /\ \A i \in 1..Len(lines) : those[i] = those[i - 1] \o Here(lines, places, i)
            /\ \A k \in 0..Len(lines) : those[k] \in Seq({lines[i] : i \in places \cap DOMAIN lines})
<1>. DEFINE n == Len(lines)
            T == {lines[i] : i \in places \cap DOMAIN lines}
            there(i) == Here(lines, places, i)
            step == [i \in 1..n |-> [s \in Seq(T) |-> s \o there(i)]]
            Select(f) == f = [i \in 0..n |-> IF i = 0 THEN <<>> ELSE f[i - 1] \o there(i)]
<1>1. n \in Nat /\ DOMAIN lines = 1..n
  OBVIOUS
<1>2. ASSUME NEW i \in 1..n PROVE there(i) \in Seq(T)
  <2>1. CASE i \in places
    <3>1. lines[i] \in T
      BY <1>1, <2>1
    <3>. HIDE DEF T
    <3>. QED
      BY <2>1, <3>1 DEF Here
  <2>2. CASE i \notin places
    <3>. HIDE DEF T
    <3>. QED
      BY <2>2 DEF Here
  <2>. QED
    BY <2>1, <2>2
<1>. HIDE DEF T, there
<1>3. ASSUME NEW i \in 1..n, NEW s \in Seq(T)
      PROVE  step[i][s] = s \o there(i) /\ step[i][s] \in Seq(T)
  BY <1>2
<1>4. <<>> \in Seq(T)
  OBVIOUS
<1>5. PICK f \in [0..n -> Seq(T)] : f[0] = <<>> /\ \A i \in 1..n : f[i] = step[i][f[i - 1]]
  <2>. DEFINE U == Seq(T)
  <2>1. step \in [1..n -> [U -> U]]
    BY <1>2
  <2>2. <<>> \in U
    BY <1>4
  <2>. HIDE DEF step, n, U
  <2>3. PICK f : IsRecursive(f, n, U, <<>>, step)
    BY <1>1, <2>1, <2>2, Recursion
  <2>. QED
    BY <2>3 DEF U, IsRecursive
<1>6. Select(f)
  <2>1. \A i \in 0..n : f[i] = IF i = 0 THEN <<>> ELSE f[i - 1] \o there(i)
    <3>. SUFFICES ASSUME NEW i \in 0..n, i # 0 PROVE f[i] = f[i - 1] \o there(i)
      BY <1>5
    <3>1. i \in 1..n /\ f[i - 1] \in Seq(T)
      BY <1>1, <1>5
    <3>. HIDE DEF step
    <3>. QED
      BY <1>3, <1>5, <3>1
  <2>. HIDE DEF step
  <2>. QED
    BY <2>1
<1>. DEFINE those == CHOOSE g : Select(g)
<1>7. Those(lines, places) = those[n]
  BY DEF Those, Here, there
<1>8. Select(those)
  <2>. HIDE DEF Select
  <2>. QED
    BY <1>6
<1>. DEFINE K == {k \in Nat : k <= n => those[k] \in Seq(T)}
<1>9. those[0] = <<>> /\ \A i \in 1..n : those[i] = those[i - 1] \o there(i)
  <2>. HIDE DEF those
  <2>1. those = [i \in 0..n |-> IF i = 0 THEN <<>> ELSE those[i - 1] \o there(i)]
    BY <1>8
  <2>2. ASSUME NEW i \in 1..n PROVE those[i] = those[i - 1] \o there(i)
    <3>1. i \in 0..n /\ i # 0
      BY <1>1
    <3>. QED
      BY <2>1, <3>1
  <2>3. 0 \in 0..n
    BY <1>1
  <2>4. those[0] = <<>>
    BY <2>1, <2>3
  <2>. QED
    BY <2>2, <2>4
<1>. HIDE DEF those
<1>10. 0 \in K
  BY <1>4, <1>9
<1>11. ASSUME NEW k \in Nat, k \in K PROVE k + 1 \in K
  <2>. SUFFICES ASSUME k + 1 <= n PROVE those[k + 1] \in Seq(T)
    OBVIOUS
  <2>1. those[k] \in Seq(T) /\ k + 1 \in 1..n /\ (k + 1) - 1 = k
    BY <1>1, <1>11
  <2>2. those[k + 1] = those[k] \o there(k + 1)
    BY <1>9, <2>1
  <2>. QED
    BY <1>2, <2>1, <2>2
<1>12. Nat \subseteq K
  <2>. HIDE DEF K
  <2>. QED
    BY <1>10, <1>11, Induction
<1>13. \A k \in 0..n : those[k] \in Seq(T)
  BY <1>1, <1>12
<1>. QED
  BY <1>7, <1>9, <1>13 DEF T, n, there

\* What is selected of lines is a sequence of those at the places.
THEOREM ThoseAre ==
  ASSUME NEW S, NEW lines \in Seq(S), NEW places
  PROVE  Those(lines, places) \in Seq({lines[i] : i \in places \cap DOMAIN lines})
<1>1. Len(lines) \in 0..Len(lines)
  OBVIOUS
<1>. QED
  BY <1>1, ThoseInSteps

LEMMA OwnElements ==
  ASSUME NEW S, NEW s \in Seq(S)
  PROVE  s \in Seq(ToSet(s)) /\ ToSet(s) \subseteq S
  BY DEF ToSet

LEMMA Joined ==
  ASSUME NEW S, NEW T, NEW s \in Seq(S), NEW t \in Seq(T)
  PROVE  s \o t \in Seq(S \cup T)
<1>1. s \in Seq(S \cup T) /\ t \in Seq(S \cup T)
  OBVIOUS
<1>. QED
  BY <1>1

LEMMA KeptAre ==
  ASSUME NEW S, NEW target \in Seq(S), NEW T, NEW lines \in Seq(T)
  PROVE  Kept(target, lines) \in Seq(ToSet(target) \cup ToSet(lines))
<1>. DEFINE Before(i) == ToSet(target) \cup ToSet(SubSeq(lines, 1, i - 1))
            places == {i \in DOMAIN lines : ~\E t \in Before(i) : Suppresses(t, lines[i])}
            kept == {lines[i] : i \in places \cap DOMAIN lines}
<1>1. Kept(target, lines) = target \o Those(lines, places)
  BY DEF Kept
<1>. HIDE DEF places
<1>2. Those(lines, places) \in Seq(kept) /\ kept \subseteq ToSet(lines)
  BY ThoseAre DEF ToSet
<1>3. target \in Seq(ToSet(target))
  BY OwnElements
<1>4. Those(lines, places) \in Seq(ToSet(lines))
  BY <1>2
<1>. QED
  BY <1>1, <1>3, <1>4, Joined

LEMMA TuplesAre ==
  ASSUME NEW a, NEW b, NEW c, NEW d
  PROVE  /\ <<>> \in Seq(ToSet(<<>>)) /\ <<a>> \in Seq(ToSet(<<a>>))
         /\ <<a, b>> \in Seq(ToSet(<<a, b>>)) /\ <<a, b, c>> \in Seq(ToSet(<<a, b, c>>))
         /\ <<a, b, c, d>> \in Seq(ToSet(<<a, b, c, d>>))
<1>. DEFINE S == {a, b, c, d}
<1>1. /\ <<>> \in Seq(S) /\ <<a>> \in Seq(S) /\ <<a, b>> \in Seq(S)
      /\ <<a, b, c>> \in Seq(S) /\ <<a, b, c, d>> \in Seq(S)
  OBVIOUS
<1>. HIDE DEF S
<1>. QED
  BY <1>1, OwnElements

LEMMA GCOptionsAre ==
  ASSUME NEW collector, NEW major
  PROVE  GetGCOptions(collector, major) \in Seq(ToSet(GetGCOptions(collector, major)))
<1>. DEFINE IsSeq(s) == s \in Seq(ToSet(s))
<1>1. IsSeq(DefaultG1Settings) /\ IsSeq(DefaultCMSSettings)
  BY TuplesAre DEF DefaultG1Settings, DefaultCMSSettings
<1>2. \A a, b : IsSeq(<<>>) /\ IsSeq(<<a>>) /\ IsSeq(<<a, b>>)
  BY TuplesAre
<1>3. IsSeq(GetGCOptions(collector, major))
  <2>. HIDE DEF IsSeq
  <2>. QED
    BY <1>1, <1>2 DEF GetGCOptions
<1>. QED
  BY <1>3

\* The settings of the table come in some order.
LEMMA OutputsAreFinite ==
  ASSUME NEW settings, NEW major PROVE IsFiniteSet(Outputs(settings, major))
<1>. DEFINE table == OptionsMap(major)
            known == DOMAIN settings \cap DOMAIN table
            outputs == Outputs(settings, major)
            f == [k \in known |-> [form |-> table[k].form, name |-> table[k].name, value |-> settings[k]]]
<1>1. DOMAIN table \subseteq {"max_heap_size", "per_thread_stack_size", "max_gc_pause_millis", "survivor_ratio"}
  BY DEF OptionsMap
<1>2. IsFiniteSet(known)
  <2>1. IsFiniteSet({})
    BY FS_EmptySet
  <2>2. IsFiniteSet({"max_heap_size"})
    BY <2>1, FS_AddElement
  <2>3. IsFiniteSet({"max_heap_size", "per_thread_stack_size"})
    BY <2>2, FS_AddElement
  <2>4. IsFiniteSet({"max_heap_size", "per_thread_stack_size", "max_gc_pause_millis"})
    BY <2>3, FS_AddElement
  <2>5. IsFiniteSet({"max_heap_size", "per_thread_stack_size", "max_gc_pause_millis", "survivor_ratio"})
    BY <2>4, FS_AddElement
  <2>. QED
    BY <1>1, <2>5, FS_Subset
<1>3. f \in Surjection(known, outputs)
  <2>1. outputs = {f[k] : k \in known}
    BY DEF Outputs
  <2>2. DOMAIN f = known /\ f = [k \in known |-> f[k]]
    OBVIOUS
  <2>. HIDE DEF f, known, outputs
  <2>. QED
    BY <2>1, <2>2 DEF Surjection
<1>. HIDE DEF f, known
<1>. QED
  BY <1>2, <1>3, FS_Surjection

LEMMA SettingsAre ==
  ASSUME NEW settings, NEW major, NEW lines \in SetToSeqs(Outputs(settings, major))
  PROVE  lines \in Seq(Outputs(settings, major))
<1>. DEFINE outputs == Outputs(settings, major)
            n == Cardinality(outputs)
<1>1. n \in Nat
  BY OutputsAreFinite, FS_CardinalityType
<1>2. lines \in [1..n -> outputs]
  BY DEF SetToSeqs
<1>. HIDE DEF outputs, n
<1>3. lines \in Seq(outputs)
  BY <1>1, <1>2
<1>. QED
  BY <1>3 DEF outputs

\* The lines that an options file can be given from each side.
TargetLines(options, major) ==
    {line \in ToSet(options.additional) : Detects(options) => ~IsGcOption(line)}
        \cup Outputs(options.settings, major)
CurrentLines(source, options, major) ==
    IF Collector(options) = "" THEN ToSet(source)
    ELSE {line \in ToSet(source) : ~Repeats(line, major)} \cup ToSet(GetGCOptions(Collector(options), major))

LEMMA TargetsAre ==
  ASSUME NEW S, NEW options, options.additional \in Seq(S), NEW major,
         NEW target \in TargetOptions(options, major)
  PROVE  target \in Seq(TargetLines(options, major))
<1>. DEFINE outputs == Outputs(options.settings, major)
            opts == options.additional
            mine == {line \in ToSet(opts) : Detects(options) => ~IsGcOption(line)}
<1>1. PICK lines \in SetToSeqs(outputs) :
          target = (IF Detects(options) THEN FilterGCOptions(opts) ELSE opts) \o lines
  BY DEF TargetOptions
<1>2. lines \in Seq(outputs)
  BY SettingsAre
<1>3. ASSUME Detects(options) PROVE FilterGCOptions(opts) \in Seq(mine)
  <2>. DEFINE places == {i \in DOMAIN opts : ~IsGcOption(opts[i])}
              those == {opts[i] : i \in places \cap DOMAIN opts}
  <2>1. FilterGCOptions(opts) \in Seq(those)
    BY ThoseAre DEF FilterGCOptions
  <2>2. those \subseteq mine
    BY DEF ToSet
  <2>. HIDE DEF those, mine
  <2>. QED
    BY <2>1, <2>2
<1>4. ASSUME ~Detects(options) PROVE opts \in Seq(mine)
  <2>1. mine = ToSet(opts)
    BY <1>4
  <2>. QED
    BY <2>1, OwnElements
<1>. HIDE DEF outputs, opts, mine
<1>5. target \in Seq(mine \cup outputs)
  BY <1>1, <1>2, <1>3, <1>4, Joined
<1>. QED
  BY <1>5 DEF TargetLines, mine, opts, outputs

LEMMA CurrentAre ==
  ASSUME NEW S, NEW source \in Seq(S), NEW options, NEW major
  PROVE  CurrentOptions(source, options, major) \in Seq(CurrentLines(source, options, major))
<1>. DEFINE places == {i \in DOMAIN source : ~Repeats(source[i], major)}
            kept == Those(source, places)
            chosen == GetGCOptions(Collector(options), major)
            rest == {line \in ToSet(source) : ~Repeats(line, major)}
<1>1. kept \in Seq(rest)
  <2>. DEFINE those == {source[i] : i \in places \cap DOMAIN source}
  <2>1. kept \in Seq(those)
    BY ThoseAre
  <2>2. those \subseteq rest
    BY DEF ToSet
  <2>. HIDE DEF those, rest, kept
  <2>. QED
    BY <2>1, <2>2
<1>2. chosen \in Seq(ToSet(chosen))
  BY GCOptionsAre
<1>3. source \in Seq(ToSet(source))
  BY OwnElements
<1>6. kept \o chosen \in Seq(rest \cup ToSet(chosen))
  <2>. HIDE DEF kept, chosen, rest
  <2>. QED
    BY <1>1, <1>2, Joined
<1>. DEFINE none == Collector(options) = ""
<1>7. /\ CurrentOptions(source, options, major) =
            IF none THEN source ELSE kept \o chosen
      /\ CurrentLines(source, options, major) =
            IF none THEN ToSet(source) ELSE rest \cup ToSet(chosen)
  BY DEF CurrentOptions, CurrentLines
<1>. HIDE DEF none, kept, chosen, rest
<1>. QED
  BY <1>3, <1>6, <1>7

LEMMA ServerOptionsAre ==
  ASSUME NEW S, NEW source \in Seq(S), NEW major, NEW base, NEW override,
         base.additional \in Seq(S), override.additional \in Seq(S),
         NEW content \in ServerJVMOptions(source, base, override, major)
  PROVE  content \in Seq(TargetLines(Merged(base, override), major)
                            \cup CurrentLines(source, Merged(base, override), major))
<1>. DEFINE options == Merged(base, override)
            current == CurrentOptions(source, options, major)
<1>1. options.additional \in Seq(S)
  <2>1. options.additional = base.additional \o override.additional
    BY DEF Merged
  <2>. QED
    BY <2>1
<1>2. PICK target \in TargetOptions(options, major) : content = Kept(target, current)
  BY DEF ServerJVMOptions
<1>. HIDE DEF options, current
<1>3. target \in Seq(TargetLines(options, major))
  BY <1>1, TargetsAre
<1>4. current \in Seq(CurrentLines(source, options, major))
  BY CurrentAre DEF current
<1>5. content \in Seq(ToSet(target) \cup ToSet(current))
  BY <1>2, <1>3, <1>4, KeptAre
<1>6. ToSet(target) \subseteq TargetLines(options, major)
  BY <1>3, OwnElements
<1>7. ToSet(current) \subseteq CurrentLines(source, options, major)
  BY <1>4, OwnElements
<1>8. content \in Seq(TargetLines(options, major) \cup CurrentLines(source, options, major))
  BY <1>5, <1>6, <1>7
<1>. QED
  BY <1>8 DEF options

-----------------------------------------------------------------------------
(* What is written is made of pieces. *)

\* What LinesAssumption says of the options that a file is built from.
LEMMA GivenLines ==
  ASSUME input \in Inputs, NEW file \in ToSet(JvmFile)
  PROVE  /\ Source(file) \in Seq(Line)
         /\ Options(input.cluster, file).additional \in Seq(Line)
         /\ Options(PodOverrides, file).additional \in Seq(Line)
         /\ input.cluster.opts \in Seq(Line)
         /\ PodOverrides.opts \in Seq(Line)
<1>. DEFINE given == {input.cluster} \cup {input.podOverrides[pod] : pod \in DOMAIN input.podOverrides}
            Good(overrides) == /\ overrides.opts \in Seq(Line)
                               /\ \A f \in DOMAIN overrides.jvm : overrides.jvm[f].additional \in Seq(Line)
<1>1. /\ \A f \in DOMAIN input.image \cap ToSet(JvmFile) : input.image[f] \in Seq(Line)
      /\ \A overrides \in given : Good(overrides)
  BY LinesAssumption
<1>2. <<>> \in Seq(Line)
  OBVIOUS
<1>3. Source(file) \in Seq(Line)
  BY <1>1, <1>2 DEF Source
<1>4. NoOverrides.opts = <<>> /\ NoOverrides.jvm = <<>> /\ NoOptions.additional = <<>>
  BY ZenonT(20) DEF NoOverrides, NoOptions
<1>5. Good(NoOverrides)
  BY <1>2, <1>4
<1>. HIDE DEF Good
<1>6. Good(input.cluster) /\ Good(PodOverrides)
  <2>1. PodOverrides = NoOverrides \/ PodOverrides \in given
    BY DEF PodOverrides
  <2>. QED
    BY <1>1, <1>5, <2>1
<1>7. ASSUME NEW overrides, Good(overrides) PROVE Options(overrides, file).additional \in Seq(Line)
  BY <1>2, <1>4, <1>7 DEF Options, Good
<1>. QED
  BY <1>3, <1>6, <1>7 DEF Good

LEMMA EnvLinesAre == input \in Inputs => EnvLines \in Seq(ToSet(EnvLines))
<1>. SUFFICES ASSUME input \in Inputs PROVE EnvLines \in Seq(ToSet(EnvLines))
  OBVIOUS
<1>. DEFINE Export(name) == IF name \in DOMAIN CassandraEnv.env
                            THEN <<[form |-> "export", name |-> name, value |-> CassandraEnv.env[name]]>>
                            ELSE <<>>
            malloc == Export("MALLOC_ARENA_MAX")
            dump == Export("CASSANDRA_HEAPDUMP_DIR")
            middle == <<Text("cassandra-env.sh"), Text("eol")>>
            opts == CassandraEnv.opts
<1>1. \A name : Export(name) \in Seq(ToSet(Export(name)))
  <2>. SUFFICES ASSUME NEW name PROVE Export(name) \in Seq(ToSet(Export(name)))
    OBVIOUS
  <2>1. PICK a : Export(name) = <<a>> \/ Export(name) = <<>>
    OBVIOUS
  <2>. HIDE DEF Export
  <2>. QED
    BY <2>1, TuplesAre
<1>2. malloc \in Seq(ToSet(malloc)) /\ dump \in Seq(ToSet(dump))
  BY <1>1
<1>3. middle \in Seq(ToSet(middle))
  BY TuplesAre
<1>4. opts \in Seq(Line)
  <2>1. PICK file : file \in ToSet(JvmFile)
    BY DEF ToSet, JvmFile
  <2>2. input.cluster.opts \in Seq(Line) /\ PodOverrides.opts \in Seq(Line)
    BY <2>1, GivenLines
  <2>3. opts = input.cluster.opts \o PodOverrides.opts
    BY DEF CassandraEnv
  <2>. QED
    BY <2>2, <2>3
<1>5. EnvLines = malloc \o dump \o middle \o opts
  BY DEF EnvLines
<1>. HIDE DEF malloc, dump, middle, opts
<1>6. malloc \o dump \o middle \in Seq(ToSet(malloc) \cup ToSet(dump) \cup ToSet(middle))
  BY <1>2, <1>3, Joined
<1>7. EnvLines \in Seq(ToSet(malloc) \cup ToSet(dump) \cup ToSet(middle) \cup Line)
  BY <1>4, <1>5, <1>6, Joined
<1>. QED
  BY <1>7, OwnElements

LEMMA JvmFiles ==
  ToSet(JvmFile) = {"jvm-server.options", "jvm11-server.options", "jvm17-server.options", "jvm21-server.options"}
  BY DEF ToSet, JvmFile

LEMMA ContentsAre ==
  ASSUME input \in Inputs, NEW file, NEW content \in Contents(file)
  PROVE  content \in Seq(ToSet(content))
<1>1. CASE file = "cassandra-rackdc.properties"
  <2>. DEFINE a == Text("dc=")
              b == Text("datacenter1")
              c == Text("rack=")
              d == Text("rack1")
              e == Text("eol")
  <2>1. content = <<a, b, c, d, e>>
    BY <1>1, JvmFiles DEF Contents, RackProperties
  <2>. HIDE DEF a, b, c, d, e
  <2>2. content \in Seq({a, b, c, d, e})
    BY <2>1
  <2>. QED
    BY <2>2, OwnElements
<1>2. CASE file = "cassandra-env.sh"
  <2>1. content = EnvLines
    BY <1>2, JvmFiles DEF Contents
  <2>. QED
    BY <2>1, EnvLinesAre
<1>3. CASE file \in ToSet(JvmFile)
  <2>. DEFINE source == Source(file)
              base == Options(input.cluster, file)
              override == Options(PodOverrides, file)
              major == JvmMajor[file]
  <2>1. content \in ServerJVMOptions(source, base, override, major)
    BY <1>3, JvmFiles DEF Contents
  <2>2. source \in Seq(Line) /\ base.additional \in Seq(Line) /\ override.additional \in Seq(Line)
    BY <1>3, GivenLines
  <2>. DEFINE pieces == TargetLines(Merged(base, override), major)
                            \cup CurrentLines(source, Merged(base, override), major)
  <2>. HIDE DEF source, base, override, major
  <2>3. content \in Seq(pieces)
    BY <2>1, <2>2, ServerOptionsAre
  <2>. HIDE DEF pieces
  <2>. QED
    BY <2>3, OwnElements
<1>4. CASE file \notin {"cassandra-rackdc.properties", "cassandra-env.sh"} \cup ToSet(JvmFile)
  <2>1. \E piece : content = <<piece>>
    BY <1>4 DEF Contents
  <2>. QED
    BY <2>1, TuplesAre
<1>. QED
  BY <1>1, <1>2, <1>3, <1>4

-----------------------------------------------------------------------------
(* The files of a build. *)

\* u is s and then t.
IsJoin(u, s, t, S) ==
    /\ u \in Seq(S) /\ Len(u) = Len(s) + Len(t)
    /\ \A i \in 1..Len(s) : u[i] = s[i]
    /\ \A i \in 1..Len(t) : u[Len(s) + i] = t[i]
LEMMA Concatenated ==
  ASSUME NEW S, NEW s \in Seq(S), NEW t \in Seq(S) PROVE IsJoin(s \o t, s, t, S)
  BY DEF IsJoin

LEMMA JoinedElements ==
  ASSUME NEW S, NEW s \in Seq(S), NEW t \in Seq(S)
  PROVE  ToSet(s \o t) = ToSet(s) \cup ToSet(t)
<1>. DEFINE u == s \o t
<1>1. IsJoin(u, s, t, S)
  BY Concatenated
<1>. HIDE DEF u
<1>2. /\ Len(s) \in Nat /\ Len(t) \in Nat /\ DOMAIN s = 1..Len(s) /\ DOMAIN t = 1..Len(t)
      /\ DOMAIN u = 1..Len(s) + Len(t)
  BY <1>1 DEF IsJoin
<1>3. ASSUME NEW i \in DOMAIN u PROVE u[i] \in ToSet(s) \cup ToSet(t)
  <2>1. CASE i \in 1..Len(s)
    BY <1>1, <1>2, <2>1 DEF IsJoin, ToSet
  <2>2. CASE i \notin 1..Len(s)
    <3>1. i - Len(s) \in 1..Len(t) /\ Len(s) + (i - Len(s)) = i
      BY <1>2, <2>2
    <3>. QED
      BY <1>1, <1>2, <3>1 DEF IsJoin, ToSet
  <2>. QED
    BY <2>1, <2>2
<1>4. ASSUME NEW i \in DOMAIN s PROVE s[i] \in ToSet(u)
  <2>1. i \in DOMAIN u /\ u[i] = s[i]
    BY <1>1, <1>2 DEF IsJoin
  <2>. QED
    BY <2>1 DEF ToSet
<1>5. ASSUME NEW i \in DOMAIN t PROVE t[i] \in ToSet(u)
  <2>1. Len(s) + i \in DOMAIN u /\ u[Len(s) + i] = t[i]
    BY <1>1, <1>2 DEF IsJoin
  <2>. QED
    BY <2>1 DEF ToSet
<1>6. ToSet(u) = ToSet(s) \cup ToSet(t)
  BY <1>3, <1>4, <1>5 DEF ToSet
<1>. QED
  BY <1>6 DEF u

\* u is s and then x.
IsExtension(u, s, x, S) ==
    /\ u \in Seq(S) /\ Len(u) = Len(s) + 1
    /\ \A i \in 1..Len(s) : u[i] = s[i]
    /\ u[Len(s) + 1] = x
LEMMA OneMore ==
  ASSUME NEW S, NEW s \in Seq(S), NEW x \in S
  PROVE  s \o <<>> = s /\ s \o <<x>> = Append(s, x) /\ IsExtension(Append(s, x), s, x, S)
  BY DEF IsExtension

LEMMA AppendedAre ==
  /\ Appended \in Seq(File) /\ Len(Appended) = 6
  /\ Appended[1] = "cassandra-rackdc.properties" /\ Appended[2] = "cassandra-env.sh"
  /\ Appended[3] = "jvm-server.options" /\ Appended[4] = "jvm11-server.options"
  /\ Appended[5] = "jvm17-server.options" /\ Appended[6] = "jvm21-server.options"
<1>. DEFINE S == {"cassandra-rackdc.properties", "cassandra-env.sh", "jvm-server.options",
                  "jvm11-server.options", "jvm17-server.options", "jvm21-server.options"}
            two == <<"cassandra-rackdc.properties", "cassandra-env.sh">>
            four == <<"jvm-server.options", "jvm11-server.options", "jvm17-server.options", "jvm21-server.options">>
<1>1. /\ two \in Seq(S) /\ Len(two) = 2
      /\ two[1] = "cassandra-rackdc.properties" /\ two[2] = "cassandra-env.sh"
  OBVIOUS
<1>2. /\ four \in Seq(S) /\ Len(four) = 4
      /\ four[1] = "jvm-server.options" /\ four[2] = "jvm11-server.options"
      /\ four[3] = "jvm17-server.options" /\ four[4] = "jvm21-server.options"
  OBVIOUS
<1>3. Appended = two \o four
  BY DEF Appended, JvmFile
<1>. HIDE DEF S, two, four
<1>4. /\ Appended \in Seq(S) /\ Len(Appended) = 6
      /\ \A i \in 1..2 : Appended[i] = two[i]
      /\ \A i \in 1..4 : Appended[2 + i] = four[i]
  <2>1. two \in Seq(S) /\ Len(two) = 2 /\ four \in Seq(S) /\ Len(four) = 4
    BY <1>1, <1>2
  <2>2. IsJoin(Appended, two, four, S)
    BY <1>3, <2>1, Concatenated, Zenon
  <2>. QED
    BY <2>1, <2>2 DEF IsJoin
<1>5. /\ Appended[1] = two[1] /\ Appended[2] = two[2] /\ Appended[2 + 1] = four[1]
      /\ Appended[2 + 2] = four[2] /\ Appended[2 + 3] = four[3] /\ Appended[2 + 4] = four[4]
  BY <1>4
<1>6. Appended \in Seq(File)
  <2>1. ToSet(Appended) \subseteq File
    BY DEF File
  <2>. QED
    BY <1>4, <2>1, OwnElements
<1>. QED
  BY <1>1, <1>2, <1>4, <1>5, <1>6

LEMMA AppendedFiles == \A i \in 1..6 : Appended[i] \in File
<1>1. Appended \in Seq(File) /\ Len(Appended) = 6
  BY AppendedAre
<1>2. DOMAIN Appended = 1..6
  BY <1>1
<1>. QED
  BY <1>1, <1>2

\* No file is written twice by one build.
LEMMA PlanIs ==
  /\ Plan \in Seq(File)
  /\ \A i, j \in 1..Len(Plan) : Plan[i] = Plan[j] => i = j
  /\ ~input.sidecar => /\ Len(Plan) >= 7
                       /\ \A i \in 1..6 : Plan[i] = Appended[i]
                       /\ Plan[7] = "cassandra.yaml"
<1>. DEFINE Copy(file) == IF file \in DOMAIN input.image THEN <<file>> ELSE <<>>
            seven == Appended \o <<"cassandra.yaml">>
            Distinct(s) == \A i, j \in 1..Len(s) : s[i] = s[j] => i = j
            Begins(s) == /\ s \in Seq(File) /\ Len(s) >= 7
                         /\ \A i \in 1..6 : s[i] = Appended[i]
                         /\ s[7] = "cassandra.yaml"
<1>1. Plan = IF input.sidecar THEN <<"sidecar.yaml">>
             ELSE seven \o Copy("logback.xml") \o Copy("jvm.options")
  BY DEF Plan, Copied
<1>2. /\ seven \in Seq(File) /\ Len(seven) = 7
      /\ \A i \in 1..6 : seven[i] = Appended[i]
      /\ seven[7] = "cassandra.yaml"
  <2>1. "cassandra.yaml" \in File
    BY DEF File
  <2>2. Appended \in Seq(File) /\ Len(Appended) = 6
    BY AppendedAre
  <2>3. seven = Append(Appended, "cassandra.yaml")
    BY <2>1, <2>2, OneMore
  <2>. HIDE DEF seven
  <2>4. IsExtension(seven, Appended, "cassandra.yaml", File)
    BY <2>1, <2>2, <2>3, OneMore, Zenon
  <2>. QED
    BY <2>2, <2>4 DEF IsExtension
<1>. HIDE DEF seven
<1>3. \A i \in 1..7 : i = 1 \/ i = 2 \/ i = 3 \/ i = 4 \/ i = 5 \/ i = 6 \/ i = 7
  OBVIOUS
<1>4. /\ seven[1] = "cassandra-rackdc.properties" /\ seven[2] = "cassandra-env.sh"
      /\ seven[3] = "jvm-server.options" /\ seven[4] = "jvm11-server.options"
      /\ seven[5] = "jvm17-server.options" /\ seven[6] = "jvm21-server.options"
      /\ seven[7] = "cassandra.yaml"
  BY <1>2, AppendedAre
<1>5. Distinct(seven)
  BY <1>2, <1>3, <1>4
<1>6. \A i \in 1..7 : seven[i] \notin {"logback.xml", "jvm.options"}
  BY <1>3, <1>4
<1>7. {"logback.xml", "jvm.options", "sidecar.yaml"} \subseteq File
  BY DEF File, Copied, ToSet
<1>8. ASSUME NEW s, Begins(s), Distinct(s), NEW x \in File, \A i \in 1..Len(s) : s[i] # x
      PROVE  Begins(Append(s, x)) /\ Distinct(Append(s, x))
  <2>1. /\ Len(Append(s, x)) = Len(s) + 1 /\ Append(s, x) \in Seq(File)
        /\ \A i \in 1..Len(s) : Append(s, x)[i] = s[i]
        /\ Append(s, x)[Len(s) + 1] = x
    BY <1>8
  <2>2. Begins(Append(s, x))
    BY <1>8, <2>1
  <2>3. Distinct(Append(s, x))
    <3>. DEFINE t == Append(s, x)
    <3>. HIDE DEF t
    <3>1. \A i, j \in 1..Len(t) : t[i] = t[j] => i = j
      BY <1>8, <2>1 DEF t
    <3>. QED
      BY <3>1 DEF t
  <2>. QED
    BY <2>2, <2>3
<1>9. CASE input.sidecar
  BY <1>1, <1>7, <1>9
<1>10. CASE ~input.sidecar
  <2>. DEFINE some == seven \o Copy("logback.xml")
  <2>1. Begins(seven) /\ Distinct(seven) /\ \A i \in 1..Len(seven) : seven[i] # "logback.xml"
    BY <1>2, <1>5, <1>6
  <2>2. some = seven \/ some = Append(seven, "logback.xml")
    <3>1. seven \o <<>> = seven /\ seven \o <<"logback.xml">> = Append(seven, "logback.xml")
      BY <1>2, <1>7, OneMore
    <3>. QED
      BY <3>1
  <2>3. \A i \in 1..Len(some) : some[i] # "jvm.options"
    <3>1. /\ \A i \in 1..Len(seven) : seven[i] # "jvm.options"
          /\ seven \in Seq(File)
      BY <1>2, <1>6
    <3>. HIDE DEF some
    <3>. QED
      BY <2>2, <3>1
  <2>. HIDE DEF some, Begins, Distinct
  <2>4. Begins(some) /\ Distinct(some)
    BY <1>7, <1>8, <2>1, <2>2
  <2>5. Plan = some \/ Plan = Append(some, "jvm.options")
    <3>1. Plan = some \o Copy("jvm.options")
      BY <1>1, <1>10 DEF some
    <3>2. some \in Seq(File)
      BY <2>4 DEF Begins
    <3>3. some \o <<>> = some /\ some \o <<"jvm.options">> = Append(some, "jvm.options")
      BY <1>7, <3>2, OneMore
    <3>. QED
      BY <3>1, <3>3
  <2>6. Begins(Plan) /\ Distinct(Plan)
    BY <1>7, <1>8, <2>3, <2>4, <2>5
  <2>. QED
    BY <2>6 DEF Begins, Distinct
<1>. QED
  BY <1>9, <1>10

\* A file that is not appended to is one piece.
LEMMA OnePiece ==
  ASSUME NEW file, file \notin ToSet(Appended), NEW content \in Contents(file)
  PROVE  \E piece : content = <<piece>>
<1>1. file \notin ToSet(JvmFile) \cup {"cassandra-rackdc.properties", "cassandra-env.sh"}
  BY JvmFiles, AppendedAre DEF ToSet
<1>. QED
  BY <1>1 DEF Contents

-----------------------------------------------------------------------------
(* The end of a file. *)

\* The last n elements of s are the first n of t.
EndsWithFirst(s, t, n) == n <= Len(s) /\ \A k \in 1..n : s[(Len(s) - n) + k] = t[k]

LEMMA NothingWritten ==
  ASSUME NEW S, NEW s \in Seq(S), NEW t \in Seq(S)
  PROVE  EndsWithFirst(t, t, Len(t)) /\ EndsWithFirst(s, t, 0)
  BY DEF EndsWithFirst

\* A write moves the first element of what is left to the end of the file.
LEMMA OneMoreWritten ==
  ASSUME NEW S, NEW s \in Seq(S), NEW t \in Seq(S), NEW rest \in Seq(S), rest # <<>>,
         EndsWithFirst(t, rest, Len(rest)), EndsWithFirst(s, t, Len(t) - Len(rest))
  PROVE  /\ Append(s, Head(rest)) \in Seq(S) /\ Len(Append(s, Head(rest))) = Len(s) + 1
         /\ Tail(rest) \in Seq(S) /\ Len(t) - Len(Tail(rest)) = (Len(t) - Len(rest)) + 1
         /\ EndsWithFirst(t, Tail(rest), Len(Tail(rest)))
         /\ EndsWithFirst(Append(s, Head(rest)), t, Len(t) - Len(Tail(rest)))
<1>. DEFINE u == Append(s, Head(rest))
            left == Tail(rest)
            n == Len(t) - Len(rest)
<1>1. Len(rest) \in Nat /\ Len(rest) >= 1 /\ Head(rest) = rest[1] /\ rest[1] \in S
  OBVIOUS
<1>2. /\ left \in Seq(S) /\ Len(left) = Len(rest) - 1
      /\ \A k \in 1..Len(left) : left[k] = rest[k + 1]
  BY <1>1
<1>3. IsExtension(u, s, rest[1], S)
  BY <1>1, OneMore
<1>4. /\ Len(rest) <= Len(t) /\ n \in Nat /\ n <= Len(s)
      /\ \A k \in 1..Len(rest) : t[n + k] = rest[k]
      /\ \A k \in 1..n : s[(Len(s) - n) + k] = t[k]
  BY <1>1 DEF EndsWithFirst
<1>. HIDE DEF u, left, n
<1>5. Len(t) - Len(left) = n + 1
  BY <1>1, <1>2, <1>4 DEF n
<1>6. EndsWithFirst(t, left, Len(left))
  <2>1. Len(left) <= Len(t)
    BY <1>1, <1>2, <1>4
  <2>2. ASSUME NEW k \in 1..Len(left) PROVE t[(Len(t) - Len(left)) + k] = left[k]
    <3>1. k + 1 \in 1..Len(rest) /\ n + (k + 1) = (n + 1) + k
      BY <1>1, <1>2, <1>4
    <3>. QED
      BY <1>2, <1>4, <1>5, <3>1
  <2>. QED
    BY <2>1, <2>2 DEF EndsWithFirst
<1>7. EndsWithFirst(u, t, n + 1)
  <2>1. /\ Len(u) = Len(s) + 1 /\ u[Len(s) + 1] = rest[1]
        /\ \A i \in 1..Len(s) : u[i] = s[i]
    BY <1>3 DEF IsExtension
  <2>2. n + 1 <= Len(u) /\ (Len(u) - (n + 1)) = Len(s) - n /\ Len(s) \in Nat
    BY <1>4, <2>1
  <2>3. ASSUME NEW k \in 1..n + 1 PROVE u[(Len(s) - n) + k] = t[k]
    <3>1. CASE k = n + 1
      <4>1. (Len(s) - n) + k = Len(s) + 1
        BY <1>4, <2>2, <3>1
      <4>2. t[n + 1] = rest[1]
        BY <1>1, <1>4
      <4>. QED
        BY <2>1, <3>1, <4>1, <4>2
    <3>2. CASE k \in 1..n
      <4>1. (Len(s) - n) + k \in 1..Len(s)
        BY <1>4, <2>2, <3>2
      <4>. QED
        BY <1>4, <2>1, <3>2, <4>1
    <3>. QED
      BY <1>4, <3>1, <3>2
  <2>. QED
    BY <2>2, <2>3 DEF EndsWithFirst
<1>. QED
  BY <1>2, <1>3, <1>5, <1>6, <1>7 DEF u, left, n, IsExtension

\* All of t at the end of s makes it a suffix.
LEMMA WrittenIsSuffix ==
  ASSUME NEW S, NEW s \in Seq(S), NEW t \in Seq(S), EndsWithFirst(s, t, Len(t))
  PROVE  IsSuffix(t, s) /\ (Len(s) = Len(t) => s = t)
<1>. DEFINE n == Len(t)
            back == Reverse(t)
            whole == Reverse(s)
<1>1. /\ n \in Nat /\ Len(s) \in Nat /\ n <= Len(s)
      /\ \A k \in 1..n : s[(Len(s) - n) + k] = t[k]
  BY DEF EndsWithFirst
<1>2. /\ back \in Seq(S) /\ Len(back) = n /\ \A i \in 1..n : back[i] = t[(n - i) + 1]
  BY DEF Reverse
<1>3. /\ whole \in Seq(S) /\ Len(whole) = Len(s)
      /\ \A i \in 1..Len(s) : whole[i] = s[(Len(s) - i) + 1]
  BY DEF Reverse
<1>. HIDE DEF n, back, whole
<1>4. ASSUME NEW i \in 1..n PROVE back[i] = whole[i]
  <2>1. (n - i) + 1 \in 1..n /\ (Len(s) - n) + ((n - i) + 1) = (Len(s) - i) + 1 /\ i \in 1..Len(s)
    BY <1>1
  <2>2. s[(Len(s) - n) + ((n - i) + 1)] = t[(n - i) + 1]
    BY <1>1, <2>1
  <2>. QED
    BY <1>2, <1>3, <2>1, <2>2
<1>5. SubSeq(back, 1, Len(back)) = SubSeq(whole, 1, Len(back))
  BY <1>1, <1>2, <1>3, <1>4
<1>6. IsSuffix(t, s)
  BY <1>1, <1>2, <1>3, <1>5 DEF IsSuffix, IsPrefix, back, whole
<1>7. ASSUME Len(s) = Len(t) PROVE s = t
  <2>1. \A k \in 1..n : s[k] = t[k]
    BY <1>1, <1>7 DEF n
  <2>. QED
    BY <1>7, <2>1 DEF n
<1>. QED
  BY <1>6, <1>7

-----------------------------------------------------------------------------
(* The inductive invariant. *)

\* What a file can be made of.
Pieces(file) == UNION {ToSet(content) : content \in Contents(file)}

\* n pieces of a content are at the end of a file, which has no others unless it is
\* appended to.
Written(file, content, n) ==
    EndsWithFirst(out[file], content, n) /\ (file \notin ToSet(Appended) => Len(out[file]) = n)
Whole(file) == \E content \in Contents(file) : Written(file, content, Len(content))

TypeInv ==
    /\ input \in Inputs
    /\ DOMAIN out = File /\ \A file \in File : out[file] \in Seq(Pieces(file))
    /\ status \in {"parsing", "building", "failed", "done"}
    /\ at \in 1..Len(Plan) + 1 /\ open \in BOOLEAN
StatusInv ==
    /\ status = "parsing" => at = 1 /\ ~open
    /\ status = "done" => at = Len(Plan) + 1
\* What is left to write to the open file follows what it ends with.
OpenInv ==
    open => /\ at <= Len(Plan) /\ todo \in Seq(Pieces(Plan[at]))
            /\ \E content \in Contents(Plan[at]) :
                  /\ EndsWithFirst(content, todo, Len(todo))
                  /\ Written(Plan[at], content, Len(content) - Len(todo))
ClosedInv == \A i \in 1..Len(Plan) : i < at => Whole(Plan[i])
IndInv == TypeInv /\ StatusInv /\ OpenInv /\ ClosedInv

\* The input decides which files there are and what they are made of.
LEMMA InputDecides ==
  ASSUME input' = input
  PROVE  /\ Plan' = Plan
         /\ \A file : Contents(file)' = Contents(file) /\ Pieces(file)' = Pieces(file)
<1>1. Plan' = Plan
  BY DEF Plan
<1>2. PodOverrides' = PodOverrides /\ BaseYaml' = BaseYaml /\ Node' = Node
  BY DEF PodOverrides, BaseYaml, Node
<1>3. CassandraEnv' = CassandraEnv
  BY <1>2 DEF CassandraEnv
<1>4. EnvLines' = EnvLines
  BY <1>3 DEF EnvLines
<1>5. ASSUME NEW file PROVE Contents(file)' = Contents(file)
  <2>1. Source(file)' = Source(file)
    BY DEF Source
  <2>. QED
    BY <1>2, <1>4, <2>1 DEF Contents, RackProperties
<1>6. ASSUME NEW file PROVE Pieces(file)' = Pieces(file)
  BY <1>5 DEF Pieces
<1>. QED
  BY <1>1, <1>5, <1>6

LEMMA ContentPieces ==
  ASSUME input \in Inputs, NEW file, NEW content \in Contents(file)
  PROVE  content \in Seq(Pieces(file)) /\ Len(content) \in Nat
<1>1. content \in Seq(ToSet(content))
  BY ContentsAre
<1>2. ToSet(content) \subseteq Pieces(file)
  BY DEF Pieces
<1>. QED
  BY <1>1, <1>2

LEMMA InitInv == Init => IndInv
<1>. SUFFICES ASSUME Init PROVE IndInv
  OBVIOUS
<1>1. Len(Plan) \in Nat
  BY PlanIs
<1>2. TypeInv
  <2>1. \A file \in File : out[file] = <<>> /\ <<>> \in Seq(Pieces(file))
    BY DEF Init
  <2>2. 1 \in 1..Len(Plan) + 1
    BY <1>1
  <2>. QED
    BY <2>1, <2>2 DEF Init, TypeInv
<1>. QED
  BY <1>1, <1>2 DEF Init, IndInv, StatusInv, OpenInv, ClosedInv

LEMMA NextInv == IndInv /\ [Next]_vars => IndInv'
<1>. SUFFICES ASSUME IndInv, [Next]_vars PROVE IndInv'
  OBVIOUS
<1>. USE DEF IndInv
<1>1. input' = input
  BY DEF Next, Step, Parse, Open, Write, Close, Finish, Fault, Restart, vars
<1>2. /\ Plan' = Plan
      /\ \A file : Contents(file)' = Contents(file) /\ Pieces(file)' = Pieces(file)
  BY <1>1, InputDecides
<1>3. /\ Plan \in Seq(File) /\ Len(Plan) \in Nat /\ input \in Inputs
      /\ \A i \in 1..Len(Plan) : Plan[i] \in File
      /\ \A i, j \in 1..Len(Plan) : Plan[i] = Plan[j] => i = j
  BY PlanIs DEF TypeInv
\* Steps that touch no file.
<1>4. ASSUME out' = out, UNCHANGED todo, at' = at, open' = open,
             status' \in {"building", "failed", "done"}, status' = "done" => at = Len(Plan) + 1
      PROVE  IndInv'
  <2>1. TypeInv'
    BY <1>1, <1>2, <1>4 DEF TypeInv
  <2>2. StatusInv'
    BY <1>2, <1>4 DEF StatusInv
  <2>3. OpenInv'
    BY <1>2, <1>4 DEF OpenInv, Written
  <2>4. ClosedInv'
    BY <1>2, <1>4 DEF ClosedInv, Whole, Written
  <2>. QED
    BY <2>1, <2>2, <2>3, <2>4
<1>5. CASE Parse
  BY <1>4, <1>5 DEF Parse
<1>6. CASE Finish
  <2>1. at = Len(Plan) + 1
    BY <1>3, <1>6 DEF Finish, TypeInv
  <2>. QED
    BY <1>4, <1>6, <2>1 DEF Finish
<1>7. CASE Fault
  BY <1>4, <1>7 DEF Fault
<1>8. CASE Restart
  <2>1. TypeInv'
    <3>1. 1 \in 1..Len(Plan) + 1
      BY <1>3
    <3>. QED
      BY <1>1, <1>2, <1>8, <3>1 DEF Restart, TypeInv
  <2>2. StatusInv' /\ OpenInv' /\ ClosedInv'
    BY <1>2, <1>3, <1>8 DEF Restart, StatusInv, OpenInv, ClosedInv
  <2>. QED
    BY <2>1, <2>2
\* The file at this place has become whole, or has no lines to be given.
<1>9. ASSUME status = "building", status' = "building", at <= Len(Plan), Whole(Plan[at]),
             out' = out, at' = at + 1, open' = FALSE
      PROVE  IndInv'
  <2>1. TypeInv'
    <3>1. at + 1 \in 1..Len(Plan) + 1
      BY <1>3, <1>9 DEF TypeInv
    <3>. QED
      BY <1>1, <1>2, <1>9, <3>1 DEF TypeInv
  <2>2. StatusInv' /\ OpenInv'
    BY <1>9 DEF StatusInv, OpenInv
  <2>3. ASSUME NEW i \in 1..Len(Plan), i < at + 1 PROVE Whole(Plan[i])'
    <3>1. Whole(Plan[i])
      BY <1>3, <1>9, <2>3 DEF ClosedInv, TypeInv
    <3>. QED
      BY <1>2, <1>9, <3>1 DEF Whole, Written
  <2>4. ClosedInv'
    BY <1>2, <1>9, <2>3 DEF ClosedInv
  <2>. QED
    BY <2>1, <2>2, <2>4
\* A step that changes the file at this place leaves those before it whole.
<1>10. ASSUME at \in 1..Len(Plan), at' = at, \A f \in File \ {Plan[at]} : out'[f] = out[f]
       PROVE  ClosedInv'
  <2>1. ASSUME NEW i \in 1..Len(Plan), i < at PROVE Whole(Plan[i])'
    <3>1. Plan[i] \in File /\ Plan[i] # Plan[at] /\ Whole(Plan[i])
      BY <1>3, <1>10, <2>1 DEF ClosedInv, TypeInv
    <3>2. out'[Plan[i]] = out[Plan[i]]
      BY <1>10, <3>1
    <3>. QED
      BY <1>2, <3>1, <3>2 DEF Whole, Written
  <2>. QED
    BY <1>2, <1>10, <2>1 DEF ClosedInv
<1>11. CASE Open
  <2>. DEFINE file == Plan[at]
  <2>1. CASE Fails(Plan[at])
    BY <1>4, <1>11, <2>1 DEF Open
  <2>2. CASE ~Fails(Plan[at])
    <3>1. PICK content \in Contents(file) :
             IF LeftOut(file, content) THEN NextFile /\ UNCHANGED <<out, todo>>
             ELSE /\ open' = TRUE /\ todo' = content
                  /\ out' = IF file \in ToSet(Appended) THEN out ELSE [out EXCEPT ![file] = <<>>]
                  /\ UNCHANGED at
      BY <1>11, <2>2 DEF Open
    <3>2. /\ status = "building" /\ status' = "building" /\ at \in 1..Len(Plan) /\ file \in File
      BY <1>3, <1>11, <2>2 DEF Open, TypeInv
    <3>3. content \in Seq(Pieces(file)) /\ Len(content) \in Nat /\ out[file] \in Seq(Pieces(file))
      BY <1>3, <3>2, ContentPieces DEF TypeInv
    <3>4. CASE LeftOut(file, content)
      <4>1. content = <<>>
        BY <3>4 DEF LeftOut
      <4>2. file \in ToSet(Appended)
        BY <4>1, OnePiece
      <4>3. Whole(file)
        <5>1. EndsWithFirst(out[file], content, 0) /\ Len(content) = 0
          BY <3>3, <4>1, NothingWritten
        <5>. QED
          BY <4>2, <5>1 DEF Whole, Written
      <4>. QED
        <5>1. at <= Len(Plan) /\ out' = out /\ at' = at + 1 /\ open' = FALSE
          BY <1>3, <3>1, <3>2, <3>4 DEF NextFile
        <5>. QED
          BY <1>9, <3>2, <4>3, <5>1
    <3>5. CASE ~LeftOut(file, content)
      <4>1. open' = TRUE /\ todo' = content /\ at' = at
        BY <3>1, <3>5
      <4>2. /\ DOMAIN out' = File /\ \A f \in File \ {file} : out'[f] = out[f]
            /\ out'[file] \in Seq(Pieces(file))
            /\ file \notin ToSet(Appended) => Len(out'[file]) = 0
        <5>1. CASE file \in ToSet(Appended)
          BY <3>1, <3>3, <3>5, <5>1 DEF TypeInv
        <5>2. CASE file \notin ToSet(Appended)
          <6>1. <<>> \in Seq(Pieces(file)) /\ Len(<<>>) = 0
            OBVIOUS
          <6>2. out' = [out EXCEPT ![file] = <<>>]
            BY <3>1, <3>5, <5>2
          <6>. QED
            BY <3>2, <5>2, <6>1, <6>2 DEF TypeInv
        <5>. QED
          BY <5>1, <5>2
      <4>3. ClosedInv'
        BY <1>10, <3>2, <4>1, <4>2
      <4>4. TypeInv'
        <5>1. at \in 1..Len(Plan) + 1
          BY DEF TypeInv
        <5>. QED
          BY <1>1, <1>2, <3>2, <4>1, <4>2, <5>1 DEF TypeInv
      <4>5. OpenInv'
        <5>1. EndsWithFirst(content, content, Len(content)) /\ EndsWithFirst(out'[file], content, 0)
          BY <3>3, <4>2, NothingWritten
        <5>2. Len(content) - Len(content) = 0
          BY <3>3
        <5>3. Written(file, content, Len(content) - Len(content))'
          BY <1>2, <4>1, <4>2, <5>1, <5>2 DEF Written
        <5>. QED
          BY <1>2, <3>2, <3>3, <4>1, <5>1, <5>3 DEF OpenInv
      <4>. QED
        BY <3>2, <4>3, <4>4, <4>5 DEF StatusInv
    <3>. QED
      BY <3>4, <3>5
  <2>. QED
    BY <2>1, <2>2
<1>12. CASE Write
  <2>. DEFINE file == Plan[at]
              S == Pieces(file)
              s == Append(out[file], Head(todo))
  <2>1. /\ status = "building" /\ status' = "building" /\ open /\ open' /\ at' = at
        /\ todo # <<>> /\ todo' = Tail(todo) /\ out' = [out EXCEPT ![file] = s]
    BY <1>12 DEF Write, TypeInv
  <2>2. /\ at \in 1..Len(Plan) /\ file \in File /\ out[file] \in Seq(S) /\ todo \in Seq(S)
    BY <1>3, <2>1 DEF TypeInv, OpenInv
  <2>3. PICK content \in Contents(file) :
           /\ EndsWithFirst(content, todo, Len(todo))
           /\ Written(file, content, Len(content) - Len(todo))
    BY <2>1 DEF OpenInv
  <2>4. content \in Seq(S)
    BY <1>3, ContentPieces
  <2>. HIDE DEF S
  <2>5. /\ s \in Seq(S) /\ Len(s) = Len(out[file]) + 1
        /\ Tail(todo) \in Seq(S) /\ Len(content) - Len(Tail(todo)) = (Len(content) - Len(todo)) + 1
        /\ EndsWithFirst(content, Tail(todo), Len(Tail(todo)))
        /\ EndsWithFirst(s, content, Len(content) - Len(Tail(todo)))
    BY <2>1, <2>2, <2>3, <2>4, OneMoreWritten DEF Written
  <2>. HIDE DEF s
  <2>6. DOMAIN out' = File /\ out'[file] = s /\ \A f \in File \ {file} : out'[f] = out[f]
    BY <2>1, <2>2 DEF TypeInv
  <2>7. TypeInv'
    BY <1>1, <1>2, <2>1, <2>2, <2>5, <2>6 DEF TypeInv, S
  <2>8. OpenInv'
    <3>1. todo' \in Seq(S) /\ EndsWithFirst(content, todo', Len(todo'))
      BY <2>1, <2>5
    <3>2. EndsWithFirst(out'[file], content, Len(content) - Len(todo'))
      BY <2>1, <2>5, <2>6
    <3>3. file \notin ToSet(Appended) => Len(out'[file]) = Len(content) - Len(todo')
      <4>1. file \notin ToSet(Appended) => Len(out[file]) = Len(content) - Len(todo)
        BY <2>3 DEF Written
      <4>2. /\ Len(out'[file]) = Len(out[file]) + 1
            /\ Len(content) - Len(todo') = (Len(content) - Len(todo)) + 1
        BY <2>1, <2>5, <2>6
      <4>. QED
        BY <4>1, <4>2
    <3>4. Written(Plan[at], content, Len(content) - Len(todo))'
      BY <1>2, <2>1, <3>2, <3>3 DEF Written
    <3>5. at <= Len(Plan)
      BY <1>3, <2>2
    <3>. QED
      BY <1>2, <2>1, <3>1, <3>4, <3>5 DEF OpenInv, S
  <2>. QED
    BY <1>10, <2>1, <2>2, <2>6, <2>7, <2>8 DEF StatusInv
<1>13. CASE Close
  <2>1. /\ status = "building" /\ status' = "building" /\ open /\ todo = <<>>
        /\ at <= Len(Plan) /\ out' = out /\ at' = at + 1 /\ open' = FALSE
    BY <1>13 DEF Close, NextFile, OpenInv
  <2>2. Whole(Plan[at])
    <3>1. PICK content \in Contents(Plan[at]) : Written(Plan[at], content, Len(content) - Len(todo))
      BY <2>1 DEF OpenInv
    <3>2. Len(content) - Len(todo) = Len(content)
      BY <1>3, <2>1, ContentPieces
    <3>. QED
      BY <3>1, <3>2 DEF Whole
  <2>. QED
    BY <1>9, <2>1, <2>2
<1>14. CASE UNCHANGED vars
  <2>1. TypeInv'
    BY <1>1, <1>2, <1>14 DEF TypeInv, vars
  <2>2. StatusInv'
    BY <1>2, <1>14 DEF StatusInv, vars
  <2>3. OpenInv'
    BY <1>2, <1>14 DEF OpenInv, Written, vars
  <2>4. ClosedInv'
    BY <1>2, <1>14 DEF ClosedInv, Whole, Written, vars
  <2>. QED
    BY <2>1, <2>2, <2>3, <2>4
<1>. QED
  BY <1>5, <1>6, <1>7, <1>8, <1>11, <1>12, <1>13, <1>14 DEF Next, Step

\* What is inductive: files before the next one are whole, and the open one is what
\* is left to write away from it.
THEOREM Inductive == Spec => []IndInv
<1>1. Init => IndInv
  BY InitInv
<1>2. IndInv /\ [Next]_vars => IndInv'
  BY NextInv
<1>. QED
  BY <1>1, <1>2, PTL DEF Spec

-----------------------------------------------------------------------------
(* What a finished build leaves. *)

LEMMA DoneIsWhole ==
  ASSUME IndInv, Done, NEW i \in 1..Len(Plan)
  PROVE  \E content \in Contents(Plan[i]) :
            IF Plan[i] \in ToSet(Appended) THEN IsSuffix(content, out[Plan[i]])
                                           ELSE out[Plan[i]] = content
<1>. DEFINE file == Plan[i]
<1>1. Len(Plan) \in Nat /\ i < at /\ file \in File
  BY PlanIs DEF IndInv, StatusInv, Done
<1>2. Whole(file)
  BY <1>1 DEF IndInv, ClosedInv
<1>3. PICK content \in Contents(file) : Written(file, content, Len(content))
  BY <1>2 DEF Whole
<1>4. content \in Seq(Pieces(file)) /\ out[file] \in Seq(Pieces(file))
  BY <1>1, ContentPieces DEF IndInv, TypeInv
<1>. HIDE DEF file
<1>5. EndsWithFirst(out[file], content, Len(content))
  BY <1>3 DEF Written
<1>6. IsSuffix(content, out[file]) /\ (Len(out[file]) = Len(content) => out[file] = content)
  BY <1>4, <1>5, WrittenIsSuffix
<1>7. IF file \in ToSet(Appended) THEN IsSuffix(content, out[file]) ELSE out[file] = content
  BY <1>3, <1>6 DEF Written
<1>. QED
  BY <1>7 DEF file

\* A finished build leaves every file with one whole copy of its contents at its end,
\* however often it was interrupted before.
THEOREM FilesAreWhole == Spec => []FilesEndWhole
<1>1. IndInv => FilesEndWhole
  <2>. SUFFICES ASSUME IndInv, Done, NEW i \in DOMAIN Plan
                PROVE  \E content \in Contents(Plan[i]) :
                          IF Plan[i] \in ToSet(Appended) THEN IsSuffix(content, out[Plan[i]])
                                                         ELSE out[Plan[i]] = content
    BY DEF FilesEndWhole
  <2>1. i \in 1..Len(Plan)
    BY PlanIs
  <2>. QED
    BY <2>1, DoneIsWhole
<1>. QED
  BY <1>1, Inductive, PTL

\* In the cassandra.yaml of a finished build every key has the value of the pod, else
\* what a node on Kubernetes needs, else that of the cluster, else that of the image.
THEOREM LayersAreKept == Spec => []YamlByPrecedence
<1>1. IndInv => YamlByPrecedence
  <2>. DEFINE doc == out["cassandra.yaml"][1]
              final == FinalYaml(BaseYaml, input.cluster.yaml, PodOverrides.yaml, Node)
  <2>. SUFFICES ASSUME IndInv, Built, NEW key
                PROVE  Entry(doc, key) = Over(PodOverrides.yaml, key, OnKubernetes(key))
    BY DEF YamlByPrecedence, Entry
  <2>1. "cassandra.yaml" \notin ToSet(Appended) \cup ToSet(JvmFile)
    <3>1. DOMAIN Appended = 1..6
      BY AppendedAre
    <3>2. \A i \in 1..6 : i = 1 \/ i = 2 \/ i = 3 \/ i = 4 \/ i = 5 \/ i = 6
      OBVIOUS
    <3>3. \A i \in 1..6 : Appended[i] # "cassandra.yaml"
      BY <3>2, AppendedAre
    <3>4. "cassandra.yaml" \notin ToSet(Appended)
      BY <3>1, <3>3 DEF ToSet
    <3>. QED
      BY <3>4, JvmFiles
  <2>2. 7 \in 1..Len(Plan) /\ Plan[7] = "cassandra.yaml"
    BY PlanIs DEF Built
  <2>3. PICK content \in Contents("cassandra.yaml") : out["cassandra.yaml"] = content
    BY <2>1, <2>2, DoneIsWhole DEF Built
  <2>4. content = <<final>>
    BY <2>1 DEF Contents
  <2>5. doc = final
    <3>. HIDE DEF final
    <3>. QED
      BY <2>3, <2>4
  <2>. QED
    BY <2>5, FinalIsLayered
<1>. QED
  BY <1>1, Inductive, PTL

-----------------------------------------------------------------------------
(* Garbage collectors. *)

\* The collectors that lines select.
Selects(lines) == {GcOptionMapping[line.name] : line \in {l \in lines : IsGcOption(l)}}

LEMMA SettingForms ==
  ASSUME NEW settings, NEW major, NEW line \in Outputs(settings, major)
  PROVE  line.form \in {"prefix", "assign"}
<1>. DEFINE table == OptionsMap(major)
<1>1. PICK k \in DOMAIN table : line = [form |-> table[k].form, name |-> table[k].name, value |-> settings[k]]
  BY DEF Outputs
<1>2. table[k].form \in {"prefix", "assign"}
  <2>1. CASE major = 8
    BY <2>1 DEF OptionsMap
  <2>2. CASE major = 11
    BY <2>2 DEF OptionsMap
  <2>3. CASE major # 8 /\ major # 11
    BY <2>3 DEF OptionsMap
  <2>. QED
    BY <2>1, <2>2, <2>3
<1>. HIDE DEF table
<1>. QED
  BY <1>1, <1>2

LEMMA SettingsSelectNothing ==
  ASSUME NEW settings, NEW major, NEW line \in Outputs(settings, major)
  PROVE  ~IsGcOption(line)
  BY SettingForms DEF IsGcOption

LEMMA OptionsSelectTheirs ==
  ASSUME NEW collector, NEW major, NEW line \in ToSet(GetGCOptions(collector, major)), IsGcOption(line)
  PROVE  GcOptionMapping[line.name] = collector
<1>1. line.form = "switch" /\ line.name \in DOMAIN GcOptionMapping
  BY DEF IsGcOption
<1>2. \A name, value : Assign(name, value).form = "assign"
  BY DEF Assign
<1>3. \A name : On(name).name = name
  BY DEF On, Switch
<1>4. ToSet(DefaultG1Settings) = {On("UseG1GC"), Assign("MaxTenuringThreshold", "1"), Assign("MaxGCPauseMillis", "300")}
  BY DEF ToSet, DefaultG1Settings
<1>5. ToSet(DefaultCMSSettings) = {On("UseConcMarkSweepGC"), Assign("SurvivorRatio", "8"),
                                   Assign("MaxTenuringThreshold", "1"), On("UseCMSInitiatingOccupancyOnly")}
  BY DEF ToSet, DefaultCMSSettings
<1>6. \A a, b : ToSet(<<>>) = {} /\ ToSet(<<a>>) = {a} /\ ToSet(<<a, b>>) = {a, b}
  BY DEF ToSet
<1>7. CASE collector = "G1GC"
  <2>1. line = On("UseG1GC")
    BY <1>1, <1>2, <1>4, <1>6, <1>7 DEF GetGCOptions
  <2>. QED
    BY <1>3, <1>7, <2>1 DEF GcOptionMapping
<1>8. CASE collector = "CMS"
  <2>1. line = On("UseConcMarkSweepGC") \/ line = On("UseCMSInitiatingOccupancyOnly")
    BY <1>1, <1>2, <1>5, <1>6, <1>8 DEF GetGCOptions
  <2>. QED
    BY <1>1, <1>3, <1>8, <2>1 DEF GcOptionMapping
<1>9. CASE collector = "Shenandoah"
  <2>1. line = On("UseShenandoahGC")
    BY <1>6, <1>9 DEF GetGCOptions
  <2>. QED
    BY <1>3, <1>9, <2>1 DEF GcOptionMapping
<1>10. CASE collector = "ZGC"
  <2>1. line = On("UseZGC") \/ line = On("UnlockExperimentalVMOptions")
    BY <1>6, <1>10 DEF GetGCOptions
  <2>. QED
    BY <1>1, <1>3, <1>10, <2>1 DEF GcOptionMapping
<1>11. CASE collector \notin {"G1GC", "CMS", "Shenandoah", "ZGC"}
  <2>1. GetGCOptions(collector, major) = <<>>
    BY <1>11 DEF GetGCOptions
  <2>. QED
    BY <1>6, <2>1
<1>. QED
  BY <1>7, <1>8, <1>9, <1>10, <1>11

\* The collectors whose options lines contain; the one that a line selects is among them.
Mentions(lines) == UNION {Mentioned(line) : line \in lines}

LEMMA SelectedIsMentioned ==
  ASSUME NEW line, IsGcOption(line)
  PROVE  GcOptionMapping[line.name] \in Mentioned(line)
<1>1. line.form = "switch" /\ line.value = "+" /\ line.name \in DOMAIN GcOptionMapping
  BY DEF IsGcOption
<1>2. /\ On(line.name).form = "switch" /\ On(line.name).value = "+"
      /\ On(line.name).name = line.name
  BY DEF On, Switch
<1>3. HasOption(line, On(line.name))
  BY <1>1, <1>2 DEF HasOption, BeginsWith
<1>. QED
  BY <1>1, <1>3 DEF Mentioned

LEMMA SelectedAreMentioned ==
  ASSUME NEW lines PROVE Selects(lines) \subseteq Mentions(lines)
  BY SelectedIsMentioned DEF Selects, Mentions

\* A collector is detected where an option contains one's, and one of these.
LEMMA DetectsMentioned ==
  ASSUME NEW S, NEW opts \in Seq(S)
  PROVE  /\ DetectGarbageCollector(opts) = "" => Mentions(ToSet(opts)) = {}
         /\ DetectGarbageCollector(opts) # "" => DetectGarbageCollector(opts) \in Mentions(ToSet(opts))
<1>. DEFINE mentioning == {i \in DOMAIN opts : Mentioned(opts[i]) # {}}
<1>1. DetectGarbageCollector(opts) =
         IF mentioning = {} THEN "" ELSE CHOOSE gc \in Mentioned(opts[Min(mentioning)]) : TRUE
  BY Zenon DEF DetectGarbageCollector
<1>2. CASE mentioning = {}
  <2>1. Mentions(ToSet(opts)) = {}
    BY <1>2 DEF Mentions, ToSet
  <2>. QED
    BY <1>1, <1>2, <2>1, Zenon
<1>3. CASE mentioning # {}
  <2>1. Min(mentioning) \in mentioning
    <3>1. mentioning \in SUBSET Nat
      OBVIOUS
    <3>. HIDE DEF mentioning
    <3>. QED
      BY <1>3, <3>1, LeastOf DEF Min
  <2>. DEFINE line == opts[Min(mentioning)]
              detected == CHOOSE gc \in Mentioned(line) : TRUE
  <2>2. line \in ToSet(opts) /\ Mentioned(line) # {}
    BY <2>1 DEF ToSet
  <2>. HIDE DEF line
  <2>3. detected \in Mentioned(line)
    BY <2>2, Zenon
  <2>. HIDE DEF detected
  <2>4. detected \in Mentions(ToSet(opts))
    BY <2>2, <2>3 DEF Mentions
  <2>5. detected # ""
    <3>1. detected \in {"G1GC", "CMS", "Shenandoah", "ZGC"}
      BY <2>3 DEF Mentioned, GcOptionMapping
    <3>. QED
      BY <3>1, Zenon
  <2>. QED
    BY <1>1, <1>3, <2>4, <2>5, Zenon DEF line, detected
<1>. QED
  BY <1>2, <1>3

LEMMA AtMostOne ==
  ASSUME NEW G, \A a, b \in G : a = b PROVE Cardinality(G) <= 1
<1>1. CASE G = {}
  BY <1>1, FS_EmptySet
<1>2. CASE G # {}
  <2>1. PICK x : G = {x}
    BY <1>2
  <2>. QED
    <3>1. Cardinality({x}) = 1
      BY FS_Singleton, Zenon
    <3>. QED
      BY <2>1, <3>1
<1>. QED
  BY <1>1, <1>2

LEMMA OptionPieces ==
  ASSUME input \in Inputs, NEW file \in ToSet(JvmFile)
  PROVE  LET options == Merged(Options(input.cluster, file), Options(PodOverrides, file))
         IN  Pieces(file) \subseteq TargetLines(options, JvmMajor[file])
                                       \cup CurrentLines(Source(file), options, JvmMajor[file])
<1>. DEFINE base == Options(input.cluster, file)
            override == Options(PodOverrides, file)
            options == Merged(base, override)
            major == JvmMajor[file]
            lines == TargetLines(options, major) \cup CurrentLines(Source(file), options, major)
<1>. SUFFICES ASSUME NEW content \in Contents(file), NEW piece \in ToSet(content) PROVE piece \in lines
  BY DEF Pieces
<1>1. content \in ServerJVMOptions(Source(file), base, override, major)
  BY JvmFiles DEF Contents
<1>2. Source(file) \in Seq(Line) /\ base.additional \in Seq(Line) /\ override.additional \in Seq(Line)
  BY GivenLines
<1>. HIDE DEF base, override, major
<1>3. content \in Seq(lines)
  BY <1>1, <1>2, ServerOptionsAre
<1>. HIDE DEF lines
<1>. QED
  BY <1>3, OwnElements

\* Of the lines on the user's side, none selects a collector once one is detected, and
\* else only the additional options do.
LEMMA TargetSelects ==
  ASSUME NEW options, NEW major
  PROVE  Selects(TargetLines(options, major)) \subseteq
            IF Detects(options) THEN {} ELSE Selects(ToSet(options.additional))
<1>1. ASSUME NEW line \in TargetLines(options, major), IsGcOption(line)
      PROVE  line \in ToSet(options.additional) /\ ~Detects(options)
  BY <1>1, SettingsSelectNothing DEF TargetLines
<1>. QED
  BY <1>1 DEF Selects

\* With a collector chosen, the lines on the image's side select no other.
LEMMA CurrentSelects ==
  ASSUME NEW source, NEW options, NEW major,
         {line \in ToSet(source) : IsGcOption(line)} \subseteq GetAllGCOptions(major)
  PROVE  IF Collector(options) = ""
         THEN CurrentLines(source, options, major) = ToSet(source)
         ELSE Selects(CurrentLines(source, options, major)) \subseteq {Collector(options)}
<1>. DEFINE none == Collector(options) = ""
            chosen == ToSet(GetGCOptions(Collector(options), major))
<1>1. CurrentLines(source, options, major) =
          IF none THEN ToSet(source) ELSE {line \in ToSet(source) : ~Repeats(line, major)} \cup chosen
  BY DEF CurrentLines
<1>2. \A line \in chosen : IsGcOption(line) => GcOptionMapping[line.name] = Collector(options)
  BY OptionsSelectTheirs
<1>6. ASSUME NEW line \in ToSet(source), IsGcOption(line) PROVE Repeats(line, major)
  <2>1. HasOption(line, line)
    BY DEF HasOption, BeginsWith
  <2>. QED
    BY <1>6, <2>1 DEF Repeats
<1>. HIDE DEF none, chosen
<1>3. none \/ Selects(CurrentLines(source, options, major)) \subseteq {Collector(options)}
  BY <1>1, <1>2, <1>6 DEF Selects
<1>4. none => CurrentLines(source, options, major) = ToSet(source)
  BY <1>1
<1>5. IF none THEN CurrentLines(source, options, major) = ToSet(source)
      ELSE Selects(CurrentLines(source, options, major)) \subseteq {Collector(options)}
  BY <1>3, <1>4
<1>. QED
  BY <1>5 DEF none

\* What a finished build gives a JVM selects at most one collector, and that which is
\* named or else one that an additional option contains.
LEMMA GivenCollectors ==
  ASSUME IndInv, NEW file \in ToSet(JvmFile)
  PROVE  LET named == Options(input.cluster, file).collector
             additional == ToSet(Options(input.cluster, file).additional)
                              \cup ToSet(Options(PodOverrides, file).additional)
             given == Selects(ToSet(out[file]))
         IN  named = "" \/ Selects(additional) \subseteq {named} =>
                /\ Cardinality(given) <= 1
                /\ named # "" \/ Mentions(additional) # {} =>
                      given \subseteq (IF named # "" THEN {named} ELSE Mentions(additional))
<1>. DEFINE base == Options(input.cluster, file)
            override == Options(PodOverrides, file)
            options == Merged(base, override)
            major == JvmMajor[file]
            named == base.collector
            additional == ToSet(base.additional) \cup ToSet(override.additional)
            selected == Selects(additional)
            mentioned == Mentions(additional)
            given == Selects(ToSet(out[file]))
            target == Selects(TargetLines(options, major))
            current == Selects(CurrentLines(Source(file), options, major))
            image == Selects(ToSet(Source(file)))
            detected == DetectGarbageCollector(options.additional)
<1>1. input \in Inputs /\ file \in File
  <2>1. file \in {Appended[3], Appended[4], Appended[5], Appended[6]}
    BY JvmFiles, AppendedAre
  <2>. QED
    BY <2>1, AppendedFiles DEF IndInv, TypeInv
<1>2. given \subseteq target \cup current
  <2>1. ToSet(out[file]) \subseteq Pieces(file)
    BY <1>1, OwnElements DEF IndInv, TypeInv
  <2>2. Pieces(file) \subseteq TargetLines(options, major) \cup CurrentLines(Source(file), options, major)
    BY <1>1, OptionPieces
  <2>. QED
    BY <2>1, <2>2 DEF Selects
<1>3. base.additional \in Seq(Line) /\ override.additional \in Seq(Line)
  BY <1>1, GivenLines
<1>4. options.collector = named /\ options.additional = base.additional \o override.additional
  BY DEF Merged
<1>5. ToSet(options.additional) = additional
  <2>. HIDE DEF base, override, options
  <2>. QED
    BY <1>3, <1>4, JoinedElements
<1>6. /\ detected = "" => mentioned = {}
      /\ detected # "" => detected \in mentioned
  <2>. HIDE DEF base, override, options, additional
  <2>1. options.additional \in Seq(Line)
    BY <1>3, <1>4
  <2>. QED
    BY <1>5, <2>1, DetectsMentioned, Zenon
<1>14. selected \subseteq mentioned
  <2>. HIDE DEF additional
  <2>. QED
    BY SelectedAreMentioned
<1>7. target \subseteq IF Detects(options) THEN {} ELSE selected
  <2>. HIDE DEF options, major, additional
  <2>. QED
    BY <1>5, TargetSelects
<1>8. /\ {line \in ToSet(Source(file)) : IsGcOption(line)} \subseteq GetAllGCOptions(major)
      /\ \A a, b \in image : a = b
  <2>1. CASE file \in DOMAIN input.image
    BY <1>1, <2>1, ImageAssumption DEF Source, Selects
  <2>2. CASE file \notin DOMAIN input.image
    BY <2>2 DEF Source, Selects, ToSet
  <2>. QED
    BY <2>1, <2>2
<1>9. IF Collector(options) = "" THEN current = image ELSE current \subseteq {Collector(options)}
  <2>. HIDE DEF options, major
  <2>. QED
    BY <1>8, CurrentSelects, Zenon
<1>10. /\ Detects(options) <=> named = "" /\ detected # ""
       /\ Collector(options) = IF Detects(options) THEN detected ELSE named
  BY <1>4, Zenon DEF Detects, Collector
<1>. DEFINE Goal == named = "" \/ selected \subseteq {named} =>
                       /\ Cardinality(given) <= 1
                       /\ named # "" \/ mentioned # {} =>
                             given \subseteq (IF named # "" THEN {named} ELSE mentioned)
<1>15. Goal
  <2>. HIDE DEF base, override, options, major, named, selected, mentioned, given, target, current, image, detected
  <2>1. CASE Detects(options)
    <3>1. named = "" /\ detected \in mentioned /\ Collector(options) = detected /\ detected # ""
      BY <1>6, <1>10, <2>1, Zenon
    <3>2. current \subseteq {detected}
      BY <1>9, <3>1, Zenon
    <3>3. given \subseteq {detected}
      BY <1>2, <1>7, <2>1, <3>2
    <3>4. Cardinality(given) <= 1
      BY <3>3, AtMostOne
    <3>. QED
      BY <3>1, <3>3, <3>4, Zenon
  <2>2. CASE ~Detects(options) /\ named = ""
    <3>1. mentioned = {} /\ selected = {} /\ Collector(options) = ""
      BY <1>6, <1>10, <1>14, <2>2, Zenon
    <3>2. current = image
      BY <1>9, <3>1, Zenon
    <3>3. given \subseteq image
      BY <1>2, <1>7, <2>2, <3>1, <3>2, Zenon
    <3>4. Cardinality(given) <= 1
      BY <1>8, <3>3, AtMostOne
    <3>. QED
      BY <2>2, <3>1, <3>4, Zenon
  <2>3. CASE ~Detects(options) /\ named # ""
    <3>1. Collector(options) = named
      BY <1>10, <2>3, Zenon
    <3>2. current \subseteq {named}
      BY <1>9, <2>3, <3>1, Zenon
    <3>3. target \subseteq selected
      BY <1>7, <2>3, Zenon
    <3>4. ASSUME selected \subseteq {named} PROVE given \subseteq {named} /\ Cardinality(given) <= 1
      <4>1. given \subseteq {named}
        BY <1>2, <3>2, <3>3, <3>4
      <4>. QED
        BY <4>1, AtMostOne
    <3>. QED
      BY <2>3, <3>4, Zenon
  <2>. QED
    BY <2>1, <2>2, <2>3, Zenon
<1>. HIDE DEF Goal
<1>. QED
  BY <1>15, Zenon DEF Goal, named, additional, selected, mentioned, given, base, override

\* A JVM is given at most one garbage collector, the one that is named or else one that an
\* additional option contains, whatever options and images there are.
THEOREM CollectorIsOne == Spec => []OneCollector
<1>1. IndInv => OneCollector
  BY GivenCollectors, Zenon DEF OneCollector, Selects, Mentions
<1>. QED
  BY <1>1, Inductive, PTL

-----------------------------------------------------------------------------
(* The first and the last line about an option. *)

\* Places in a sequence have a first and a last one.
LEMMA FirstAndLast ==
  ASSUME NEW n \in Nat, NEW places \in SUBSET (1..n), places # {}
  PROVE  /\ \E p \in places : \A q \in places : p <= q
         /\ \E p \in places : \A q \in places : q <= p
<1>1. \E p \in places : \A q \in places : p <= q
  <2>1. places \in SUBSET Nat
    OBVIOUS
  <2>. QED
    BY <2>1, LeastOf
<1>2. PICK r \in {n - p : p \in places} : \A t \in {n - p : p \in places} : r <= t
  <2>. DEFINE S == {n - p : p \in places}
  <2>1. S \in SUBSET Nat /\ S # {}
    <3>1. \A p \in places : n - p \in Nat
      OBVIOUS
    <3>2. PICK p \in places : TRUE
      OBVIOUS
    <3>3. n - p \in S
      OBVIOUS
    <3>. QED
      BY <3>1, <3>3
  <2>. HIDE DEF S
  <2>2. \E r \in S : \A t \in S : r <= t
    BY <2>1, LeastOf
  <2>. QED
    BY <2>2 DEF S
<1>3. PICK last \in places : r = n - last
  BY <1>2
<1>4. ASSUME NEW q \in places PROVE q <= last
  <2>1. n - last <= n - q /\ last \in 1..n /\ q \in 1..n
    BY <1>2, <1>3
  <2>. QED
    BY <2>1
<1>. QED
  BY <1>1, <1>4

LEMMA AtFirst ==
  ASSUME NEW lines, NEW n \in Nat, NEW places \in SUBSET (1..n), NEW p \in places, \A q \in places : p <= q
  PROVE  FirstOf(lines, places) = {lines[p].value}
<1>1. \A i \in {i \in places : \A j \in places : i <= j} : i = p
  OBVIOUS
<1>. QED
  BY <1>1 DEF FirstOf

LEMMA AtLast ==
  ASSUME NEW lines, NEW n \in Nat, NEW places \in SUBSET (1..n), NEW p \in places, \A q \in places : q <= p
  PROVE  LastOf(lines, places) = {lines[p].value}
<1>1. \A i \in {i \in places : \A j \in places : j <= i} : i = p
  OBVIOUS
<1>. QED
  BY <1>1 DEF LastOf

LEMMA NoneOf ==
  ASSUME NEW lines, NEW n \in Nat, NEW places \in SUBSET (1..n)
  PROVE  /\ FirstOf(lines, places) = {} <=> places = {}
         /\ LastOf(lines, places) = {} <=> places = {}
<1>1. places = {} => FirstOf(lines, places) = {} /\ LastOf(lines, places) = {}
  BY DEF FirstOf, LastOf
<1>2. ASSUME places # {} PROVE FirstOf(lines, places) # {} /\ LastOf(lines, places) # {}
  <2>1. \E p \in places : FirstOf(lines, places) = {lines[p].value}
    BY <1>2, FirstAndLast, AtFirst
  <2>2. \E p \in places : LastOf(lines, places) = {lines[p].value}
    BY <1>2, FirstAndLast, AtLast
  <2>. QED
    BY <2>1, <2>2
<1>. QED
  BY <1>1, <1>2

LEMMA AboutPlaces ==
  ASSUME NEW S, NEW lines \in Seq(S), NEW form, NEW name
  PROVE  Len(lines) \in Nat /\ About(lines, form, name) \in SUBSET (1..Len(lines))
  BY DEF About

LEMMA NothingInEffect ==
  ASSUME NEW S, NEW lines \in Seq(S), NEW form, NEW name
  PROVE  InEffect(lines, form, name) = {} <=> \A l \in ToSet(lines) : ~(l.form = form /\ l.name = name)
<1>1. Len(lines) \in Nat /\ About(lines, form, name) \in SUBSET (1..Len(lines))
  BY AboutPlaces
<1>2. InEffect(lines, form, name) = {} <=> About(lines, form, name) = {}
  BY <1>1, NoneOf DEF InEffect
<1>3. About(lines, form, name) = {} <=> \A l \in ToSet(lines) : ~(l.form = form /\ l.name = name)
  BY DEF About, ToSet
<1>. QED
  BY <1>2, <1>3

\* Of two sequences of lines that are joined, the second has the last line, and the first
\* the first.
LEMMA InEffectOfJoin ==
  ASSUME NEW S, NEW s \in Seq(S), NEW t \in Seq(S), NEW form, NEW name
  PROVE  /\ InEffect(s \o t, form, name) = InEffect(t, form, name) ?? InEffect(s, form, name)
         /\ FirstOf(s \o t, About(s \o t, form, name)) =
                FirstOf(s, About(s, form, name)) ?? FirstOf(t, About(t, form, name))
<1>. DEFINE u == s \o t
            inS == About(s, form, name)
            inT == About(t, form, name)
            inU == About(u, form, name)
<1>1. IsJoin(u, s, t, S)
  BY Concatenated
<1>. HIDE DEF u
<1>2. /\ u \in Seq(S) /\ Len(u) = Len(s) + Len(t) /\ Len(s) \in Nat /\ Len(t) \in Nat
      /\ \A i \in 1..Len(s) : u[i] = s[i]
      /\ \A i \in 1..Len(t) : u[Len(s) + i] = t[i]
      /\ inS \in SUBSET (1..Len(s)) /\ inT \in SUBSET (1..Len(t)) /\ inU \in SUBSET (1..Len(u))
  BY <1>1, AboutPlaces DEF IsJoin
<1>3. \A i \in 1..Len(s) : i \in inU <=> i \in inS
  BY <1>2 DEF About
<1>4. \A i \in 1..Len(t) : Len(s) + i \in inU <=> i \in inT
  BY <1>2 DEF About
<1>5. ASSUME NEW i \in inU PROVE i \in inS \/ (i - Len(s) \in inT /\ i > Len(s))
  <2>1. i \in 1..Len(s) + Len(t)
    BY <1>2
  <2>2. CASE i <= Len(s)
    BY <1>2, <1>3, <2>1, <2>2
  <2>3. CASE i > Len(s)
    <3>1. i - Len(s) \in 1..Len(t) /\ Len(s) + (i - Len(s)) = i
      BY <1>2, <2>1, <2>3
    <3>. QED
      BY <1>4, <2>3, <3>1
  <2>. QED
    BY <1>2, <2>1, <2>2, <2>3
<1>. HIDE DEF inS, inT, inU
<1>6. LastOf(u, inU) = LastOf(t, inT) ?? LastOf(s, inS)
  <2>1. CASE inT # {}
    <3>1. PICK p \in inT : \A q \in inT : q <= p
      BY <1>2, <2>1, FirstAndLast
    <3>2. p \in 1..Len(t) /\ Len(s) + p \in inU
      BY <1>2, <1>4, <3>1
    <3>3. \A q \in inU : q <= Len(s) + p
      <4>. SUFFICES ASSUME NEW q \in inU PROVE q <= Len(s) + p
        OBVIOUS
      <4>1. CASE q \in inS
        BY <1>2, <3>2, <4>1
      <4>2. CASE q - Len(s) \in inT
        <5>1. q - Len(s) <= p /\ q \in 1..Len(u)
          BY <1>2, <3>1, <4>2
        <5>. QED
          BY <1>2, <3>2, <5>1
      <4>. QED
        BY <1>5, <4>1, <4>2
    <3>4. LastOf(u, inU) = {u[Len(s) + p].value}
      <4>. DEFINE top == Len(s) + p
                  n == Len(u)
      <4>1. n \in Nat /\ inU \in SUBSET (1..n) /\ top \in inU /\ \A q \in inU : q <= top
        BY <1>2, <3>2, <3>3
      <4>. HIDE DEF top, n
      <4>2. LastOf(u, inU) = {u[top].value}
        BY <4>1, AtLast
      <4>. QED
        BY <4>2 DEF top
    <3>5. LastOf(t, inT) = {t[p].value}
      BY <1>2, <3>1, AtLast
    <3>6. u[Len(s) + p] = t[p]
      BY <1>2, <3>2
    <3>. QED
      BY <3>4, <3>5, <3>6 DEF ??
  <2>2. CASE inT = {}
    <3>1. inU = inS
      BY <1>2, <1>3, <1>5, <2>2
    <3>2. LastOf(u, inS) = LastOf(s, inS)
      BY <1>2 DEF LastOf
    <3>3. LastOf(t, inT) = {}
      BY <2>2 DEF LastOf
    <3>. QED
      BY <3>1, <3>2, <3>3 DEF ??
  <2>. QED
    BY <2>1, <2>2
<1>7. FirstOf(u, inU) = FirstOf(s, inS) ?? FirstOf(t, inT)
  <2>1. CASE inS # {}
    <3>1. PICK p \in inS : \A q \in inS : p <= q
      BY <1>2, <2>1, FirstAndLast
    <3>2. p \in 1..Len(s) /\ p \in inU
      BY <1>2, <1>3, <3>1
    <3>3. \A q \in inU : p <= q
      <4>. SUFFICES ASSUME NEW q \in inU PROVE p <= q
        OBVIOUS
      <4>1. q \in 1..Len(u)
        BY <1>2
      <4>. QED
        BY <1>2, <1>5, <3>1, <3>2, <4>1
    <3>4. FirstOf(u, inU) = {u[p].value}
      <4>. DEFINE n == Len(u)
      <4>1. n \in Nat /\ inU \in SUBSET (1..n) /\ p \in inU
        BY <1>2, <3>2
      <4>. HIDE DEF n
      <4>. QED
        BY <3>3, <4>1, AtFirst
    <3>5. FirstOf(s, inS) = {s[p].value}
      BY <1>2, <3>1, AtFirst
    <3>6. u[p] = s[p]
      BY <1>2, <3>2
    <3>. QED
      BY <3>4, <3>5, <3>6 DEF ??
  <2>2. CASE inS = {}
    <3>1. FirstOf(s, inS) = {}
      BY <2>2 DEF FirstOf
    <3>2. CASE inT = {}
      <4>1. inU = {}
        BY <1>5, <2>2, <3>2
      <4>. QED
        BY <3>1, <3>2, <4>1 DEF ??, FirstOf
    <3>3. CASE inT # {}
      <4>1. PICK p \in inT : \A q \in inT : p <= q
        BY <1>2, <3>3, FirstAndLast
      <4>2. p \in 1..Len(t) /\ Len(s) + p \in inU
        BY <1>2, <1>4, <4>1
      <4>3. ASSUME NEW q \in inU PROVE Len(s) + p <= q
        <5>1. q - Len(s) \in inT /\ q \in 1..Len(u)
          BY <1>2, <1>5, <2>2
        <5>2. p <= q - Len(s)
          BY <4>1, <5>1
        <5>. QED
          BY <1>2, <4>2, <5>1, <5>2
      <4>4. FirstOf(u, inU) = {u[Len(s) + p].value}
        <5>. DEFINE low == Len(s) + p
                    n == Len(u)
        <5>1. n \in Nat /\ inU \in SUBSET (1..n) /\ low \in inU /\ \A q \in inU : low <= q
          BY <1>2, <4>2, <4>3
        <5>. HIDE DEF low, n
        <5>2. FirstOf(u, inU) = {u[low].value}
          BY <5>1, AtFirst
        <5>. QED
          BY <5>2 DEF low
      <4>5. FirstOf(t, inT) = {t[p].value}
        BY <1>2, <4>1, AtFirst
      <4>6. u[Len(s) + p] = t[p]
        BY <1>2, <4>2
      <4>. QED
        BY <3>1, <4>4, <4>5, <4>6 DEF ??
    <3>. QED
      BY <3>2, <3>3
  <2>. QED
    BY <2>1, <2>2
<1>. QED
  BY <1>6, <1>7 DEF InEffect, u, inS, inT, inU

-----------------------------------------------------------------------------
(* What is selected of lines keeps its order. *)

IsSelection(s, lines, places, at_) ==
    /\ at_ \in [1..Len(s) -> places]
    /\ \A i, j \in 1..Len(s) : i < j => at_[i] < at_[j]
    /\ \A p \in places : \E i \in 1..Len(s) : at_[i] = p
    /\ \A i \in 1..Len(s) : s[i] = lines[at_[i]]

LEMMA OneMoreSelected ==
  ASSUME NEW T, NEW s \in Seq(T), NEW lines, NEW n \in Nat, NEW places \in SUBSET (1..n),
         NEW f, IsSelection(s, lines, places, f), lines[n + 1] \in T
  PROVE  \E g : IsSelection(s \o <<lines[n + 1]>>, lines, places \cup {n + 1}, g)
<1>. DEFINE x == lines[n + 1]
            u == s \o <<x>>
            g == [i \in 1..Len(u) |-> IF i <= Len(s) THEN f[i] ELSE n + 1]
<1>1. IsExtension(u, s, x, T)
  BY OneMore
<1>. HIDE DEF u, x
<1>2. /\ Len(s) \in Nat /\ Len(u) = Len(s) + 1
      /\ \A i \in 1..Len(s) : u[i] = s[i]
      /\ u[Len(s) + 1] = x
  BY <1>1 DEF IsExtension
<1>3. f \in [1..Len(s) -> places] /\ \A i \in 1..Len(s) : f[i] \in 1..n
  BY DEF IsSelection
<1>4. \A i \in 1..Len(u) : IF i <= Len(s) THEN i \in 1..Len(s) /\ g[i] = f[i] ELSE i = Len(s) + 1 /\ g[i] = n + 1
  BY <1>2
<1>5. g \in [1..Len(u) -> places \cup {n + 1}]
  BY <1>2, <1>3, <1>4
<1>6. DOMAIN g = 1..Len(u)
  OBVIOUS
<1>. HIDE DEF g
<1>7. ASSUME NEW i \in 1..Len(u), NEW j \in 1..Len(u), i < j PROVE g[i] < g[j]
  <2>1. i <= Len(s) /\ g[i] = f[i] /\ i \in 1..Len(s)
    BY <1>2, <1>4, <1>7
  <2>2. CASE j <= Len(s)
    BY <1>4, <1>7, <2>1, <2>2 DEF IsSelection
  <2>3. CASE ~(j <= Len(s))
    BY <1>3, <1>4, <2>1, <2>3
  <2>. QED
    BY <2>2, <2>3
<1>8. ASSUME NEW p \in places \cup {n + 1} PROVE \E i \in 1..Len(u) : g[i] = p
  <2>1. CASE p \in places
    <3>1. PICK i \in 1..Len(s) : f[i] = p
      BY <2>1 DEF IsSelection
    <3>2. i \in 1..Len(u) /\ i <= Len(s)
      BY <1>2
    <3>. QED
      BY <1>4, <3>1, <3>2
  <2>2. CASE p = n + 1
    <3>1. Len(s) + 1 \in 1..Len(u) /\ ~(Len(s) + 1 <= Len(s))
      BY <1>2
    <3>. QED
      BY <1>4, <2>2, <3>1
  <2>. QED
    BY <2>1, <2>2
<1>9. ASSUME NEW i \in 1..Len(u) PROVE u[i] = lines[g[i]]
  <2>1. CASE i <= Len(s)
    <3>1. i \in 1..Len(s) /\ g[i] = f[i]
      BY <1>4, <2>1
    <3>. QED
      BY <1>2, <3>1 DEF IsSelection
  <2>2. CASE ~(i <= Len(s))
    BY <1>2, <1>4, <2>2 DEF x
  <2>. QED
    BY <2>1, <2>2
<1>10. IsSelection(u, lines, places \cup {n + 1}, g)
  BY <1>5, <1>7, <1>8, <1>9 DEF IsSelection
<1>. QED
  BY <1>10 DEF u, x

\* What is selected of lines, as Those selects them one after the other, is the lines at
\* the places, each once and in their order.
THEOREM ThoseInOrder ==
  ASSUME NEW S, NEW lines \in Seq(S), NEW places
  PROVE  \E f : IsSelection(Those(lines, places), lines, places \cap DOMAIN lines, f)
<1>. DEFINE T == {lines[i] : i \in places \cap DOMAIN lines}
            n == Len(lines)
<1>1. PICK those :
        /\ Those(lines, places) = those[n] /\ those[0] = <<>>
        /\ \A i \in 1..n : those[i] = those[i - 1] \o Here(lines, places, i)
        /\ \A k \in 0..n : those[k] \in Seq(T)
  BY ThoseInSteps, Zenon
<1>2. n \in Nat /\ DOMAIN lines = 1..n
  OBVIOUS
<1>. DEFINE Sel(k) == \E f : IsSelection(those[k], lines, places \cap (1..k), f)
            K == {k \in Nat : k <= n => Sel(k)}
<1>3. \A p \in places \cap (1..n) : lines[p] \in T
  BY <1>2
<1>. HIDE DEF T, n
<1>4. 0 \in K
  <2>. DEFINE f == [i \in 1..0 |-> i]
  <2>1. IsSelection(those[0], lines, places \cap (1..0), f)
    BY <1>1 DEF IsSelection
  <2>. QED
    BY <2>1
<1>. HIDE DEF Sel
<1>5. ASSUME NEW k \in Nat, k \in K PROVE k + 1 \in K
  <2>. SUFFICES ASSUME k + 1 <= n PROVE Sel(k + 1)
    OBVIOUS
  <2>1. k \in 0..n /\ k + 1 \in 1..n /\ (k + 1) - 1 = k
    BY <1>2
  <2>2. PICK f : IsSelection(those[k], lines, places \cap (1..k), f)
    <3>1. Sel(k)
      BY <1>2, <1>5, <2>1
    <3>. QED
      BY <3>1 DEF Sel
  <2>3. those[k] \in Seq(T) /\ those[k + 1] = those[k] \o Here(lines, places, k + 1)
    BY <1>1, <2>1
  <2>4. CASE k + 1 \in places
    <3>1. those[k + 1] = those[k] \o <<lines[k + 1]>>
      BY <2>3, <2>4 DEF Here
    <3>2. places \cap (1..k + 1) = (places \cap (1..k)) \cup {k + 1}
      BY <2>4
    <3>3. lines[k + 1] \in T
      BY <1>3, <2>1, <2>4
    <3>. DEFINE before == places \cap (1..k)
                s == those[k]
    <3>4. before \in SUBSET (1..k) /\ s \in Seq(T) /\ IsSelection(s, lines, before, f)
      BY <2>2, <2>3
    <3>. HIDE DEF before, s
    <3>5. \E g : IsSelection(s \o <<lines[k + 1]>>, lines, before \cup {k + 1}, g)
      BY <3>3, <3>4, OneMoreSelected
    <3>. QED
      BY <3>1, <3>2, <3>5 DEF before, s, Sel
  <2>5. CASE k + 1 \notin places
    <3>1. those[k + 1] = those[k]
      BY <2>3, <2>5, OneMore DEF Here
    <3>2. places \cap (1..k + 1) = places \cap (1..k)
      BY <2>5
    <3>. QED
      BY <2>2, <3>1, <3>2 DEF Sel
  <2>. QED
    BY <2>4, <2>5
<1>6. n \in K
  <2>. HIDE DEF K
  <2>. QED
    BY <1>2, <1>4, <1>5, Induction
<1>7. Sel(n)
  BY <1>2, <1>6
<1>8. places \cap (1..n) = places \cap DOMAIN lines
  BY <1>2
<1>. QED
  BY <1>1, <1>7, <1>8 DEF Sel

\* So the first and the last line about an option are those at the first and last place.
LEMMA InEffectOfThose ==
  ASSUME NEW S, NEW lines \in Seq(S), NEW places, NEW form, NEW name
  PROVE  LET those == Those(lines, places)
             about == About(lines, form, name) \cap places
         IN  /\ InEffect(those, form, name) = LastOf(lines, about)
             /\ FirstOf(those, About(those, form, name)) = FirstOf(lines, about)
<1>. DEFINE those == Those(lines, places)
            about == About(lines, form, name) \cap places
            mine == About(those, form, name)
            T == {lines[i] : i \in places \cap DOMAIN lines}
            n == Len(lines)
            m == Len(those)
<1>1. those \in Seq(T)
  BY ThoseAre
<1>2. PICK f : IsSelection(those, lines, places \cap DOMAIN lines, f)
  BY ThoseInOrder
<1>. HIDE DEF those
<1>3. /\ n \in Nat /\ m \in Nat /\ DOMAIN lines = 1..n /\ DOMAIN those = 1..m
      /\ about \in SUBSET (1..n) /\ mine \in SUBSET (1..m)
  BY <1>1, AboutPlaces DEF About
<1>4. /\ \A i \in 1..m : f[i] \in 1..n /\ f[i] \in places /\ those[i] = lines[f[i]]
      /\ \A i, j \in 1..m : i < j => f[i] < f[j]
      /\ \A p \in places \cap (1..n) : \E i \in 1..m : f[i] = p
  BY <1>2, <1>3 DEF IsSelection
<1>5. \A i \in 1..m : i \in mine <=> f[i] \in about
  BY <1>3, <1>4 DEF About
<1>6. \A p \in about : \E i \in mine : f[i] = p
  BY <1>3, <1>4, <1>5
<1>7. \A i, j \in 1..m : f[i] <= f[j] => i <= j
  <2>. SUFFICES ASSUME NEW i \in 1..m, NEW j \in 1..m, f[i] <= f[j], j < i PROVE FALSE
    BY <1>3
  <2>1. f[j] < f[i] /\ f[i] \in 1..n /\ f[j] \in 1..n
    BY <1>4
  <2>. QED
    BY <2>1
<1>. HIDE DEF about, mine, m, n
<1>8. CASE mine = {}
  <2>1. about = {}
    BY <1>6, <1>8
  <2>. QED
    BY <1>8, <2>1 DEF InEffect, LastOf, FirstOf, those, about, mine
<1>9. CASE mine # {}
  <2>1. LastOf(those, mine) = LastOf(lines, about)
    <3>1. PICK i \in mine : \A j \in mine : j <= i
      BY <1>3, <1>9, FirstAndLast
    <3>2. i \in 1..m /\ f[i] \in about
      BY <1>3, <1>5
    <3>3. ASSUME NEW p \in about PROVE p <= f[i]
      <4>1. PICK j \in mine : f[j] = p
        BY <1>6
      <4>2. j \in 1..m /\ j <= i /\ i \in Nat /\ j \in Nat
        BY <1>3, <3>1, <3>2
      <4>3. f[i] \in Nat /\ f[j] \in Nat /\ (j < i => f[j] < f[i])
        BY <1>3, <1>4, <3>2, <4>2
      <4>. QED
        BY <4>1, <4>2, <4>3
    <3>4. LastOf(those, mine) = {those[i].value}
      BY <1>3, <3>1, AtLast
    <3>5. LastOf(lines, about) = {lines[f[i]].value}
      BY <1>3, <3>2, <3>3, AtLast
    <3>. QED
      BY <1>4, <3>2, <3>4, <3>5
  <2>2. FirstOf(those, mine) = FirstOf(lines, about)
    <3>1. PICK i \in mine : \A j \in mine : i <= j
      BY <1>3, <1>9, FirstAndLast
    <3>2. i \in 1..m /\ f[i] \in about
      BY <1>3, <1>5
    <3>3. ASSUME NEW p \in about PROVE f[i] <= p
      <4>1. PICK j \in mine : f[j] = p
        BY <1>6
      <4>2. j \in 1..m /\ i <= j /\ i \in Nat /\ j \in Nat
        BY <1>3, <3>1, <3>2
      <4>3. f[i] \in Nat /\ f[j] \in Nat /\ (i < j => f[i] < f[j])
        BY <1>3, <1>4, <3>2, <4>2
      <4>. QED
        BY <4>1, <4>2, <4>3
    <3>4. FirstOf(those, mine) = {those[i].value}
      BY <1>3, <3>1, AtFirst
    <3>5. FirstOf(lines, about) = {lines[f[i]].value}
      BY <1>3, <3>2, <3>3, AtFirst
    <3>. QED
      BY <1>4, <3>2, <3>4, <3>5
  <2>. QED
    BY <2>1, <2>2 DEF InEffect, those, about, mine
<1>. QED
  BY <1>8, <1>9

-----------------------------------------------------------------------------
(* What is in effect of the lines that are put together. *)

LEMMA LinesBefore ==
  ASSUME NEW S, NEW lines \in Seq(S), NEW i \in 1..Len(lines)
  PROVE  \A line : line \in ToSet(SubSeq(lines, 1, i - 1)) <=> \E j \in 1..Len(lines) : j < i /\ line = lines[j]
<1>. DEFINE before == SubSeq(lines, 1, i - 1)
<1>1. /\ before \in Seq(S) /\ Len(before) = i - 1
      /\ \A j \in 1..i - 1 : before[j] = lines[j]
  OBVIOUS
<1>. HIDE DEF before
<1>2. DOMAIN before = 1..i - 1
  BY <1>1
<1>3. ASSUME NEW line PROVE line \in ToSet(before) <=> \E j \in 1..i - 1 : line = lines[j]
  BY <1>1, <1>2 DEF ToSet
<1>4. \A j : j \in 1..i - 1 <=> j \in 1..Len(lines) /\ j < i
  OBVIOUS
<1>. QED
  BY <1>3, <1>4 DEF before

\* Lines are kept that are the first about an option with a value.
LEMMA KeptInEffect ==
  ASSUME NEW S, NEW target \in Seq(S), NEW lines \in Seq(S), NEW form \in {"prefix", "assign"}, NEW name
  PROVE  InEffect(Kept(target, lines), form, name) =
            InEffect(target, form, name) ?? FirstOf(lines, About(lines, form, name))
<1>. DEFINE Before(i) == ToSet(target) \cup ToSet(SubSeq(lines, 1, i - 1))
            places == {i \in DOMAIN lines : ~\E t \in Before(i) : Suppresses(t, lines[i])}
            about == About(lines, form, name)
            those == Those(lines, places)
            n == Len(lines)
            Is(line) == line.form = form /\ line.name = name
<1>1. Kept(target, lines) = target \o those
  BY DEF Kept
<1>2. /\ n \in Nat /\ DOMAIN lines = 1..n /\ about \in SUBSET (1..n) /\ about \cap places \in SUBSET (1..n)
      /\ \A i \in 1..n : i \in about <=> Is(lines[i])
  BY AboutPlaces DEF About
<1>3. \A t, line : Is(line) => (Suppresses(t, line) <=> Is(t) \/ t = line)
  BY DEF Suppresses
<1>4. \A i \in 1..n : i \in places <=>
          /\ \A t \in ToSet(target) : ~Suppresses(t, lines[i])
          /\ \A j \in 1..n : j < i => ~Suppresses(lines[j], lines[i])
  BY <1>2, LinesBefore
<1>. HIDE DEF places
<1>5. /\ those \in Seq(S)
      /\ InEffect(those, form, name) = LastOf(lines, about \cap places)
  <2>1. those \in Seq({lines[i] : i \in places \cap DOMAIN lines})
    BY ThoseAre
  <2>2. {lines[i] : i \in places \cap DOMAIN lines} \subseteq S
    OBVIOUS
  <2>3. those \in Seq(S)
    BY <2>1, <2>2
  <2>. QED
    BY <2>3, InEffectOfThose
<1>. HIDE DEF those, about, n
<1>6. InEffect(Kept(target, lines), form, name) =
          LastOf(lines, about \cap places) ?? InEffect(target, form, name)
  BY <1>1, <1>5, InEffectOfJoin
<1>7. InEffect(target, form, name) = {} <=> \A t \in ToSet(target) : ~Is(t)
  BY NothingInEffect
<1>8. CASE InEffect(target, form, name) # {}
  <2>1. PICK t \in ToSet(target) : Is(t)
    BY <1>7, <1>8
  <2>2. \A i \in about : i \notin places
    BY <1>2, <1>3, <1>4, <2>1
  <2>3. about \cap places = {}
    BY <2>2
  <2>4. LastOf(lines, about \cap places) = {}
    BY <2>3 DEF LastOf
  <2>. QED
    BY <1>6, <1>8, <2>4 DEF ??
<1>9. CASE InEffect(target, form, name) = {} /\ about = {}
  <2>1. about \cap places = {}
    BY <1>9
  <2>2. LastOf(lines, about \cap places) = {} /\ FirstOf(lines, about) = {}
    BY <1>9, <2>1 DEF LastOf, FirstOf
  <2>. QED
    BY <1>6, <1>9, <2>2 DEF ??, about
<1>10. CASE InEffect(target, form, name) = {} /\ about # {}
  <2>1. PICK p \in about : \A q \in about : p <= q
    BY <1>2, <1>10, FirstAndLast
  <2>2. p \in 1..n /\ Is(lines[p])
    BY <1>2
  <2>3. p \in places
    <3>1. ASSUME NEW t \in ToSet(target) PROVE ~Suppresses(t, lines[p])
      BY <1>3, <1>7, <1>10, <2>2
    <3>2. ASSUME NEW j \in 1..n, j < p PROVE ~Suppresses(lines[j], lines[p])
      <4>1. j \notin about
        BY <1>2, <2>1, <2>2, <3>2
      <4>. QED
        BY <1>2, <1>3, <2>2, <4>1
    <3>. QED
      BY <1>4, <2>2, <3>1, <3>2
  <2>4. ASSUME NEW q \in about \cap places PROVE q <= p
    <3>1. q \in 1..n /\ p <= q /\ Is(lines[q])
      BY <1>2, <2>1
    <3>2. ~(p < q)
      BY <1>3, <1>4, <2>2, <3>1
    <3>. QED
      BY <1>2, <2>2, <3>1, <3>2
  <2>5. LastOf(lines, about \cap places) = {lines[p].value}
    <3>. DEFINE those_ == about \cap places
    <3>1. those_ \in SUBSET (1..n) /\ p \in those_ /\ \A q \in those_ : q <= p
      BY <1>2, <2>3, <2>4
    <3>. HIDE DEF those_
    <3>2. LastOf(lines, those_) = {lines[p].value}
      BY <1>2, <3>1, AtLast
    <3>. QED
      BY <3>2 DEF those_
  <2>6. FirstOf(lines, about) = {lines[p].value}
    BY <1>2, <2>1, AtFirst
  <2>. QED
    BY <1>6, <1>10, <2>5, <2>6 DEF ??, about
<1>. QED
  BY <1>8, <1>9, <1>10

-----------------------------------------------------------------------------
(* What the settings of a layer say. *)

\* The value that settings give an option.
Settings(options, major, form, name) ==
    {line.value : line \in {l \in Outputs(options.settings, major) : l.form = form /\ l.name = name}}

\* The table has no two keys for the same option.
LEMMA OneKey ==
  ASSUME NEW major, NEW k \in DOMAIN OptionsMap(major), NEW l \in DOMAIN OptionsMap(major),
         OptionsMap(major)[k].form = OptionsMap(major)[l].form,
         OptionsMap(major)[k].name = OptionsMap(major)[l].name
  PROVE  k = l
<1>1. CASE major = 8
  BY <1>1 DEF OptionsMap
<1>2. CASE major = 11
  BY <1>2 DEF OptionsMap
<1>3. CASE major # 8 /\ major # 11
  BY <1>3 DEF OptionsMap
<1>. QED
  BY <1>1, <1>2, <1>3

\* All settings are written once.
LEMMA SettingsInOrder ==
  ASSUME NEW settings, NEW major, NEW lines \in SetToSeqs(Outputs(settings, major))
  PROVE  ToSet(lines) = Outputs(settings, major)
<1>. DEFINE outputs == Outputs(settings, major)
            n == Cardinality(outputs)
<1>1. IsFiniteSet(outputs) /\ n \in Nat
  BY OutputsAreFinite, FS_CardinalityType
<1>2. lines \in [1..n -> outputs] /\ \A i, j \in 1..n : i # j => lines[i] # lines[j]
  BY DEF SetToSeqs
<1>3. IsFiniteSet(1..n) /\ Cardinality(1..n) = n
  BY <1>1, FS_Interval
<1>. HIDE DEF outputs
<1>4. lines \in Injection(1..n, outputs)
  BY <1>2 DEF Injection, IsInjective
<1>5. lines \in Surjection(1..n, outputs)
  BY <1>1, <1>3, <1>4, FS_Injection
<1>. HIDE DEF n
<1>6. \A line \in outputs : \E i \in 1..n : lines[i] = line
  BY <1>5 DEF Surjection
<1>7. ToSet(lines) = outputs
  BY <1>2, <1>6 DEF ToSet
<1>. QED
  BY <1>7 DEF outputs

LEMMA SettingsInEffect ==
  ASSUME NEW options, NEW major, NEW lines \in SetToSeqs(Outputs(options.settings, major)),
         NEW form, NEW name
  PROVE  InEffect(lines, form, name) = Settings(options, major, form, name)
<1>. DEFINE outputs == Outputs(options.settings, major)
            about == About(lines, form, name)
            table == OptionsMap(major)
<1>1. lines \in Seq(outputs) /\ ToSet(lines) = outputs
  BY SettingsAre, SettingsInOrder
<1>2. ASSUME NEW a \in outputs, NEW b \in outputs, a.form = b.form, a.name = b.name PROVE a = b
  <2>. DEFINE Out(k) == [form |-> table[k].form, name |-> table[k].name, value |-> options.settings[k]]
  <2>1. PICK k \in DOMAIN table : a = Out(k)
    BY DEF Outputs
  <2>2. PICK l \in DOMAIN table : b = Out(l)
    BY DEF Outputs
  <2>. HIDE DEF table
  <2>3. table[k].form = table[l].form /\ table[k].name = table[l].name
    BY <1>2, <2>1, <2>2
  <2>4. k = l
    BY <2>3, OneKey DEF table
  <2>. QED
    BY <2>1, <2>2, <2>4
<1>3. Len(lines) \in Nat /\ about \in SUBSET (1..Len(lines)) /\ DOMAIN lines = 1..Len(lines)
  BY <1>1, AboutPlaces
<1>4. CASE about = {}
  <2>1. \A l \in ToSet(lines) : ~(l.form = form /\ l.name = name)
    BY <1>4 DEF About, ToSet
  <2>2. Settings(options, major, form, name) = {}
    BY <1>1, <2>1 DEF Settings
  <2>. QED
    BY <1>4, <2>2 DEF InEffect, LastOf
<1>5. CASE about # {}
  <2>1. PICK p \in about : \A q \in about : q <= p
    BY <1>3, <1>5, FirstAndLast
  <2>2. InEffect(lines, form, name) = {lines[p].value}
    <3>. HIDE DEF about
    <3>1. LastOf(lines, about) = {lines[p].value}
      BY <1>3, <2>1, AtLast
    <3>. QED
      BY <3>1 DEF InEffect, about
  <2>3. lines[p] \in outputs /\ lines[p].form = form /\ lines[p].name = name
    BY <1>1, <1>3 DEF About, ToSet
  <2>. HIDE DEF outputs, about
  <2>4. {l \in outputs : l.form = form /\ l.name = name} = {lines[p]}
    BY <1>2, <2>3
  <2>. QED
    BY <2>2, <2>4 DEF Settings, outputs
<1>. QED
  BY <1>4, <1>5

\* The pod's settings over the cluster's.
LEMMA MergedSettings ==
  ASSUME NEW base, NEW override, NEW major, NEW form, NEW name
  PROVE  Settings(Merged(base, override), major, form, name) =
            Settings(override, major, form, name) ?? Settings(base, major, form, name)
<1>. DEFINE merged == Merged(base, override)
            table == OptionsMap(major)
            About_(k) == table[k].form = form /\ table[k].name = name
            Value(options) == {options.settings[k] : k \in {k \in DOMAIN options.settings \cap DOMAIN table : About_(k)}}
<1>1. ASSUME NEW options PROVE Settings(options, major, form, name) = Value(options)
  <2>. DEFINE known == DOMAIN options.settings \cap DOMAIN table
              Out(k) == [form |-> table[k].form, name |-> table[k].name, value |-> options.settings[k]]
  <2>1. Outputs(options.settings, major) = {Out(k) : k \in known}
    BY DEF Outputs
  <2>. HIDE DEF table, known
  <2>2. {l \in {Out(k) : k \in known} : l.form = form /\ l.name = name} = {Out(k) : k \in {k \in known : About_(k)}}
    OBVIOUS
  <2>3. {line.value : line \in {Out(k) : k \in {k \in known : About_(k)}}}
          = {options.settings[k] : k \in {k \in known : About_(k)}}
    <3>. DEFINE mine == {k \in known : About_(k)}
    <3>1. \A k : Out(k).value = options.settings[k]
      OBVIOUS
    <3>. HIDE DEF mine, Out
    <3>2. {line.value : line \in {Out(k) : k \in mine}} = {options.settings[k] : k \in mine}
      BY <3>1
    <3>. QED
      BY <3>2 DEF mine
  <2>. QED
    BY <2>1, <2>2, <2>3 DEF Settings, known
<1>2. /\ DOMAIN merged.settings = DOMAIN base.settings \cup DOMAIN override.settings
      /\ \A k \in DOMAIN merged.settings :
            merged.settings[k] = IF k \in DOMAIN override.settings THEN override.settings[k] ELSE base.settings[k]
  BY DEF Merged
<1>3. \A k, l \in DOMAIN table : About_(k) /\ About_(l) => k = l
  BY OneKey
<1>. HIDE DEF merged, table, Settings
<1>4. Value(merged) = Value(override) ?? Value(base)
  BY <1>2, <1>3 DEF ??
<1>. QED
  BY <1>1, <1>4 DEF merged

\* The user's lines: the settings are after the additional options.
LEMMA TargetInEffect ==
  ASSUME NEW S, NEW options, options.additional \in Seq(S), NEW major,
         NEW target \in TargetOptions(options, major),
         NEW form \in {"prefix", "assign"}, NEW name
  PROVE  InEffect(target, form, name) =
            Settings(options, major, form, name) ?? InEffect(options.additional, form, name)
<1>. DEFINE outputs == Outputs(options.settings, major)
            opts == options.additional
            front == IF Detects(options) THEN FilterGCOptions(opts) ELSE opts
<1>1. PICK lines \in SetToSeqs(outputs) : target = front \o lines
  BY DEF TargetOptions
<1>2. lines \in Seq(outputs) /\ InEffect(lines, form, name) = Settings(options, major, form, name)
  BY SettingsAre, SettingsInEffect
<1>3. front \in Seq(S) /\ InEffect(front, form, name) = InEffect(opts, form, name)
  <2>1. CASE Detects(options)
    <3>. DEFINE places == {i \in DOMAIN opts : ~IsGcOption(opts[i])}
                about == About(opts, form, name)
    <3>1. front = Those(opts, places)
      BY <2>1 DEF FilterGCOptions
    <3>2. about \cap places = about
      BY DEF About, IsGcOption
    <3>. HIDE DEF places
    <3>3. InEffect(Those(opts, places), form, name) = LastOf(opts, about \cap places)
      BY InEffectOfThose
    <3>4. {opts[i] : i \in places \cap DOMAIN opts} \subseteq S
      OBVIOUS
    <3>5. Those(opts, places) \in Seq({opts[i] : i \in places \cap DOMAIN opts})
      BY ThoseAre
    <3>6. Those(opts, places) \in Seq(S)
      BY <3>4, <3>5
    <3>. QED
      BY <3>1, <3>2, <3>3, <3>6 DEF InEffect
  <2>2. CASE ~Detects(options)
    BY <2>2
  <2>. QED
    BY <2>1, <2>2
<1>. HIDE DEF outputs, front
<1>4. front \in Seq(S \cup outputs) /\ lines \in Seq(S \cup outputs)
  BY <1>2, <1>3
<1>5. InEffect(front \o lines, form, name) = InEffect(lines, form, name) ?? InEffect(front, form, name)
  <2>. DEFINE T == S \cup outputs
  <2>. HIDE DEF T
  <2>1. front \in Seq(T) /\ lines \in Seq(T)
    BY <1>4 DEF T
  <2>. QED
    BY <2>1, InEffectOfJoin
<1>. QED
  BY <1>1, <1>2, <1>3, <1>5

LEMMA LayersJoin ==
  ASSUME NEW a, NEW b, NEW c PROVE a ?? b ?? c = a ?? (b ?? c)
  BY DEF ??

LEMMA NoCollectorNoOptions == ASSUME NEW major PROVE GetGCOptions("", major) = <<>>
  BY Zenon DEF GetGCOptions

\* The image's own lines that stay when the collector of these options is chosen.
ImagePlaces(source, options, major, form, name) ==
    {i \in About(source, form, name) : Collector(options) = "" \/ ~Repeats(source[i], major)}

\* On the image's side, its own lines are before those of the chosen collector.
LEMMA CurrentFirst ==
  ASSUME NEW S, NEW source \in Seq(S), NEW options, NEW major, NEW form, NEW name
  PROVE  LET current == CurrentOptions(source, options, major)
             defaults == GetGCOptions(Collector(options), major)
         IN  FirstOf(current, About(current, form, name)) =
                FirstOf(source, ImagePlaces(source, options, major, form, name))
                    ?? FirstOf(defaults, About(defaults, form, name))
<1>. DEFINE none == Collector(options) = ""
            places == {i \in DOMAIN source : ~Repeats(source[i], major)}
            defaults == GetGCOptions(Collector(options), major)
            current == CurrentOptions(source, options, major)
            image == ImagePlaces(source, options, major, form, name)
            kept == Those(source, places)
            First(lines) == FirstOf(lines, About(lines, form, name))
<1>1. /\ current = IF none THEN source ELSE kept \o defaults
      /\ image = {i \in About(source, form, name) : none \/ ~Repeats(source[i], major)}
  BY DEF CurrentOptions, ImagePlaces
<1>2. none => defaults = <<>>
  BY NoCollectorNoOptions, Zenon
<1>3. defaults \in Seq(ToSet(defaults))
  BY GCOptionsAre
<1>4. kept \in Seq(S) /\ First(kept) = FirstOf(source, About(source, form, name) \cap places)
  <2>. HIDE DEF places
  <2>1. kept \in Seq({source[i] : i \in places \cap DOMAIN source})
    BY ThoseAre
  <2>2. First(kept) = FirstOf(source, About(source, form, name) \cap places)
    BY InEffectOfThose
  <2>3. {source[i] : i \in places \cap DOMAIN source} \subseteq S
    OBVIOUS
  <2>. HIDE DEF kept
  <2>4. kept \in Seq(S)
    BY <2>1, <2>3
  <2>. QED
    BY <2>2, <2>4
<1>7. ~none => image = About(source, form, name) \cap places
  BY <1>1 DEF About
<1>. HIDE DEF none, places, defaults, current, image, kept
<1>5. CASE none
  <2>1. current = source /\ image = About(source, form, name) /\ defaults = <<>>
    BY <1>1, <1>2, <1>5
  <2>2. First(defaults) = {}
    <3>1. About(<<>>, form, name) = {}
      BY DEF About
    <3>. QED
      BY <2>1, <3>1 DEF FirstOf
  <2>3. First(current) = FirstOf(source, image) ?? First(defaults)
    BY <2>1, <2>2 DEF ??
  <2>. QED
    BY <2>3 DEF current, image, defaults
<1>6. CASE ~none
  <2>1. current = kept \o defaults
    BY <1>1, <1>6
  <2>2. image = About(source, form, name) \cap places
    BY <1>6, <1>7
  <2>3. First(kept) = FirstOf(source, image)
    BY <1>4, <2>2
  <2>. DEFINE T == S \cup ToSet(defaults)
  <2>4. kept \in Seq(T) /\ defaults \in Seq(T)
    BY <1>3, <1>4
  <2>. HIDE DEF T
  <2>5. First(kept \o defaults) = First(kept) ?? First(defaults)
    BY <2>4, InEffectOfJoin
  <2>6. First(current) = FirstOf(source, image) ?? First(defaults)
    BY <2>1, <2>3, <2>5
  <2>. QED
    BY <2>6 DEF current, image, defaults
<1>. QED
  BY <1>5, <1>6

\* What is in effect of a content that createServerJVMOptions writes.
LEMMA ServerInEffect ==
  ASSUME NEW S, NEW source \in Seq(S), NEW major, NEW base, NEW override,
         base.additional \in Seq(S), override.additional \in Seq(S),
         NEW content \in ServerJVMOptions(source, base, override, major),
         NEW form \in {"prefix", "assign"}, NEW name
  PROVE  LET options == Merged(base, override)
             defaults == GetGCOptions(Collector(options), major)
         IN  InEffect(content, form, name) =
                Settings(override, major, form, name) ?? Settings(base, major, form, name)
                ?? InEffect(override.additional, form, name) ?? InEffect(base.additional, form, name)
                ?? FirstOf(source, ImagePlaces(source, options, major, form, name))
                ?? FirstOf(defaults, About(defaults, form, name))
<1>. DEFINE options == Merged(base, override)
            current == CurrentOptions(source, options, major)
            defaults == GetGCOptions(Collector(options), major)
            setO == Settings(override, major, form, name)
            setB == Settings(base, major, form, name)
            addO == InEffect(override.additional, form, name)
            addB == InEffect(base.additional, form, name)
            img == FirstOf(source, ImagePlaces(source, options, major, form, name))
            def == FirstOf(defaults, About(defaults, form, name))
<1>1. options.additional = base.additional \o override.additional
  BY DEF Merged
<1>2. PICK target \in TargetOptions(options, major) : content = Kept(target, current)
  BY DEF ServerJVMOptions
<1>3. Settings(options, major, form, name) = setO ?? setB
  BY MergedSettings
<1>. HIDE DEF options
<1>4. options.additional \in Seq(S) /\ InEffect(options.additional, form, name) = addO ?? addB
  BY <1>1, InEffectOfJoin
<1>5. InEffect(target, form, name) = (setO ?? setB) ?? (addO ?? addB)
  BY <1>3, <1>4, TargetInEffect
<1>6. FirstOf(current, About(current, form, name)) = img ?? def
  BY CurrentFirst
<1>. DEFINE T == TargetLines(options, major) \cup CurrentLines(source, options, major)
<1>7. target \in Seq(T) /\ current \in Seq(T)
  <2>1. target \in Seq(TargetLines(options, major))
    BY <1>4, TargetsAre
  <2>2. current \in Seq(CurrentLines(source, options, major))
    BY CurrentAre
  <2>. HIDE DEF current
  <2>. QED
    BY <2>1, <2>2
<1>. HIDE DEF T, current
<1>8. InEffect(content, form, name) =
          InEffect(target, form, name) ?? FirstOf(current, About(current, form, name))
  BY <1>2, <1>7, KeptInEffect
<1>. HIDE DEF setO, setB, addO, addB, img, def
<1>9. InEffect(content, form, name) = setO ?? setB ?? addO ?? addB ?? img ?? def
  <2>1. InEffect(content, form, name) = ((setO ?? setB) ?? (addO ?? addB)) ?? (img ?? def)
    BY <1>5, <1>6, <1>8
  <2>2. (setO ?? setB) ?? (addO ?? addB) = setO ?? setB ?? addO ?? addB
    BY LayersJoin
  <2>. DEFINE all == setO ?? setB ?? addO ?? addB
  <2>3. all ?? (img ?? def) = all ?? img ?? def
    <3>. HIDE DEF all
    <3>. QED
      BY LayersJoin
  <2>. QED
    BY <2>1, <2>2, <2>3
<1>. QED
  BY <1>9 DEF setO, setB, addO, addB, img, def, options

-----------------------------------------------------------------------------
(* What is in effect of a file. *)

\* What ends with t is something and then t.
LEMMA EndIsJoin ==
  ASSUME NEW S, NEW s \in Seq(S), NEW t \in Seq(S), EndsWithFirst(s, t, Len(t))
  PROVE  \E front \in Seq(S) : s = front \o t
<1>. DEFINE n == Len(t)
            m == Len(s) - n
            front == SubSeq(s, 1, m)
            u == front \o t
<1>1. /\ n \in Nat /\ Len(s) \in Nat /\ m \in Nat /\ n <= Len(s) /\ Len(s) = m + n
      /\ \A k \in 1..n : s[m + k] = t[k]
  BY DEF EndsWithFirst
<1>2. front \in Seq(S) /\ Len(front) = m /\ \A i \in 1..m : front[i] = s[i]
  BY <1>1
<1>. HIDE DEF front
<1>3. IsJoin(u, front, t, S)
  BY <1>2, Concatenated
<1>. HIDE DEF u, n, m
<1>4. u \in Seq(S) /\ Len(u) = Len(s) /\ DOMAIN u = 1..Len(s) /\ DOMAIN s = 1..Len(s)
  BY <1>1, <1>2, <1>3 DEF IsJoin, n
<1>5. ASSUME NEW i \in 1..Len(s) PROVE u[i] = s[i]
  <2>1. CASE i <= m
    <3>1. i \in 1..m
      BY <1>1, <2>1
    <3>. QED
      BY <1>2, <1>3, <3>1 DEF IsJoin
  <2>2. CASE ~(i <= m)
    <3>1. i - m \in 1..n /\ m + (i - m) = i
      BY <1>1, <2>2
    <3>2. u[m + (i - m)] = t[i - m] /\ s[m + (i - m)] = t[i - m]
      BY <1>1, <1>2, <1>3, <3>1 DEF IsJoin, n
    <3>. QED
      BY <3>1, <3>2
  <2>. QED
    BY <2>1, <2>2
<1>6. u = s
  BY <1>4, <1>5
<1>. QED
  BY <1>2, <1>6 DEF u

\* The end of a file is in effect unless it leaves out an option that the file may have.
LEMMA EndInEffect ==
  ASSUME NEW S, NEW s \in Seq(S), NEW t \in Seq(S), EndsWithFirst(s, t, Len(t)), NEW form, NEW name,
         InEffect(t, form, name) = {} => \A l \in S : ~(l.form = form /\ l.name = name)
  PROVE  InEffect(s, form, name) = InEffect(t, form, name)
<1>1. PICK front \in Seq(S) : s = front \o t
  BY EndIsJoin
<1>2. InEffect(s, form, name) = InEffect(t, form, name) ?? InEffect(front, form, name)
  BY <1>1, InEffectOfJoin
<1>3. CASE InEffect(t, form, name) # {}
  BY <1>2, <1>3 DEF ??
<1>4. CASE InEffect(t, form, name) = {}
  <2>1. \A l \in ToSet(front) : l \in S
    BY OwnElements
  <2>2. InEffect(front, form, name) = {}
    BY <1>4, <2>1, NothingInEffect
  <2>. QED
    BY <1>2, <1>4, <2>2 DEF ??
<1>. QED
  BY <1>3, <1>4

\* So it is of a file that a build has finished, if all that can be written to it
\* says the same of the option.
LEMMA FileInEffect ==
  ASSUME IndInv, Done, NEW i \in 1..Len(Plan), NEW form, NEW name,
         \A a, b \in Contents(Plan[i]) : InEffect(a, form, name) = InEffect(b, form, name)
  PROVE  \E content \in Contents(Plan[i]) :
            InEffect(out[Plan[i]], form, name) = InEffect(content, form, name)
<1>. DEFINE file == Plan[i]
<1>1. Len(Plan) \in Nat /\ i < at /\ file \in File /\ input \in Inputs
  BY PlanIs DEF IndInv, TypeInv, StatusInv, Done
<1>2. PICK content \in Contents(file) : Written(file, content, Len(content))
  BY <1>1 DEF IndInv, ClosedInv, Whole
<1>3. content \in Seq(Pieces(file)) /\ out[file] \in Seq(Pieces(file))
  BY <1>1, ContentPieces DEF IndInv, TypeInv
<1>4. EndsWithFirst(out[file], content, Len(content))
  BY <1>2 DEF Written
<1>5. ASSUME InEffect(content, form, name) = {}, NEW l \in Pieces(file) PROVE ~(l.form = form /\ l.name = name)
  <2>1. PICK c \in Contents(file) : l \in ToSet(c)
    BY DEF Pieces
  <2>2. c \in Seq(Pieces(file))
    BY <1>1, ContentPieces
  <2>3. InEffect(c, form, name) = {}
    BY <1>5
  <2>. QED
    BY <2>1, <2>2, <2>3, NothingInEffect
<1>. HIDE DEF file
<1>6. InEffect(out[file], form, name) = InEffect(content, form, name)
  BY <1>3, <1>4, <1>5, EndInEffect
<1>. QED
  BY <1>2, <1>6 DEF file

-----------------------------------------------------------------------------
(* Options files. *)

LEMMA ContentInEffect ==
  ASSUME input \in Inputs, NEW file \in ToSet(JvmFile), NEW content \in Contents(file),
         NEW form \in {"prefix", "assign"}, NEW name
  PROVE  InEffect(content, form, name) = Precedence(file, form, name)
<1>. DEFINE base == Options(input.cluster, file)
            override == Options(PodOverrides, file)
            major == JvmMajor[file]
            source == Source(file)
<1>1. content \in ServerJVMOptions(source, base, override, major)
  BY JvmFiles DEF Contents
<1>2. source \in Seq(Line) /\ base.additional \in Seq(Line) /\ override.additional \in Seq(Line)
  BY GivenLines
<1>3. Precedence(file, form, name) =
        LET defaults == GetGCOptions(Collector(Merged(base, override)), major)
        IN  Settings(override, major, form, name) ?? Settings(base, major, form, name)
            ?? InEffect(override.additional, form, name) ?? InEffect(base.additional, form, name)
            ?? FirstOf(source, ImagePlaces(source, Merged(base, override), major, form, name))
            ?? FirstOf(defaults, About(defaults, form, name))
  BY DEF Precedence, Settings, ImagePlaces
<1>. HIDE DEF base, override, major, source
<1>. QED
  BY <1>1, <1>2, <1>3, ServerInEffect

LEMMA CollectorForms ==
  ASSUME NEW collector, NEW major, NEW line \in ToSet(GetGCOptions(collector, major))
  PROVE  line.form \in {"assign", "switch"}
<1>. DEFINE Good(s) == \A l \in ToSet(s) : l.form \in {"assign", "switch"}
<1>1. \A name, value : Assign(name, value).form = "assign"
  BY DEF Assign
<1>2. \A name : On(name).form = "switch"
  BY DEF On, Switch
<1>3. Good(DefaultG1Settings)
  <2>1. ToSet(DefaultG1Settings) = {On("UseG1GC"), Assign("MaxTenuringThreshold", "1"), Assign("MaxGCPauseMillis", "300")}
    BY DEF ToSet, DefaultG1Settings
  <2>. QED
    BY <1>1, <1>2, <2>1
<1>4. Good(DefaultCMSSettings)
  <2>1. ToSet(DefaultCMSSettings) = {On("UseConcMarkSweepGC"), Assign("SurvivorRatio", "8"),
                                   Assign("MaxTenuringThreshold", "1"), On("UseCMSInitiatingOccupancyOnly")}
    BY DEF ToSet, DefaultCMSSettings
  <2>. QED
    BY <1>1, <1>2, <2>1
<1>5. \A a, b : Good(<<>>) /\ Good(<<On(a)>>) /\ Good(<<On(a), On(b)>>)
  <2>1. \A a, b : ToSet(<<>>) = {} /\ ToSet(<<a>>) = {a} /\ ToSet(<<a, b>>) = {a, b}
    BY DEF ToSet
  <2>. QED
    BY <1>2, <2>1
<1>6. Good(GetGCOptions(collector, major))
  <2>. HIDE DEF Good
  <2>. QED
    BY <1>3, <1>4, <1>5 DEF GetGCOptions
<1>. QED
  BY <1>6

\* All lines of an options file are of one of the forms of lines.
LEMMA PieceForms ==
  ASSUME input \in Inputs, NEW file \in ToSet(JvmFile), NEW piece \in Pieces(file)
  PROVE  piece.form \in {"prefix", "assign", "switch"}
<1>. DEFINE options == Merged(Options(input.cluster, file), Options(PodOverrides, file))
            major == JvmMajor[file]
            source == Source(file)
<1>1. piece \in TargetLines(options, major) \cup CurrentLines(source, options, major)
  BY OptionPieces
<1>2. ToSet(options.additional) \subseteq Line /\ ToSet(source) \subseteq Line
  <2>1. options.additional = Options(input.cluster, file).additional \o Options(PodOverrides, file).additional
    BY DEF Merged
  <2>2. options.additional \in Seq(Line) /\ source \in Seq(Line)
    BY <2>1, GivenLines
  <2>. HIDE DEF options, source
  <2>. QED
    BY <2>2, OwnElements
<1>3. \A line \in Line : line.form \in {"prefix", "assign", "switch"}
  BY DEF Line
<1>. HIDE DEF options, major, source
<1>4. CASE piece \in TargetLines(options, major)
  BY <1>2, <1>3, <1>4, SettingForms DEF TargetLines
<1>5. CASE piece \in CurrentLines(source, options, major)
  BY <1>2, <1>3, <1>5, CollectorForms, Zenon DEF CurrentLines
<1>. QED
  BY <1>1, <1>4, <1>5

LEMMA FilesByPrecedence ==
  ASSUME IndInv, Built, NEW file \in ToSet(JvmFile),
         NEW o \in Names(out[file]) \cup Names(Options(input.cluster, file).additional)
                     \cup Names(Options(PodOverrides, file).additional) \cup Names(Source(file)),
         o[1] # "switch"
  PROVE  InEffect(out[file], o[1], o[2]) = Precedence(file, o[1], o[2])
<1>1. input \in Inputs
  BY DEF IndInv, TypeInv
<1>2. PICK i \in 1..Len(Plan) : Plan[i] = file
  <2>1. /\ Len(Plan) >= 7 /\ \A j \in 1..6 : Plan[j] = Appended[j]
        /\ Len(Plan) \in Nat
    BY PlanIs DEF Built
  <2>2. \E j \in 3..6 : file = Appended[j]
    <3>1. 3 \in 3..6 /\ 4 \in 3..6 /\ 5 \in 3..6 /\ 6 \in 3..6
      OBVIOUS
    <3>. QED
      BY <3>1, JvmFiles, AppendedAre
  <2>3. \A j \in 3..6 : j \in 1..6 /\ j \in 1..Len(Plan)
    BY <2>1
  <2>. QED
    BY <2>1, <2>2, <2>3
<1>3. o[1] \in {"prefix", "assign"}
  <2>1. file \in File
    BY <1>2, PlanIs
  <2>2. out[file] \in Seq(Pieces(file))
    BY <2>1 DEF IndInv, TypeInv
  <2>3. \A l \in ToSet(out[file]) : l.form \in {"prefix", "assign", "switch"}
    <3>1. ToSet(out[file]) \subseteq Pieces(file)
      BY <2>2, OwnElements
    <3>. QED
      BY <1>1, <3>1, PieceForms
  <2>4. ASSUME NEW lines \in Seq(Line) PROVE \A l \in ToSet(lines) : l.form \in {"prefix", "assign", "switch"}
    <3>1. ToSet(lines) \subseteq Line
      BY OwnElements
    <3>. QED
      BY <3>1 DEF Line
  <2>5. /\ Source(file) \in Seq(Line) /\ Options(input.cluster, file).additional \in Seq(Line)
        /\ Options(PodOverrides, file).additional \in Seq(Line)
    BY <1>1, GivenLines
  <2>6. ASSUME NEW lines, o \in Names(lines), \A l \in ToSet(lines) : l.form \in {"prefix", "assign", "switch"}
        PROVE  o[1] \in {"prefix", "assign", "switch"}
    BY <2>6 DEF Names
  <2>7. o[1] \in {"prefix", "assign", "switch"}
    BY <2>3, <2>4, <2>5, <2>6
  <2>. QED
    BY <2>7
<1>4. \A content \in Contents(file) : InEffect(content, o[1], o[2]) = Precedence(file, o[1], o[2])
  <2>. DEFINE form == o[1]
              name == o[2]
  <2>1. form \in {"prefix", "assign"}
    BY <1>3
  <2>. HIDE DEF form, name
  <2>2. \A content \in Contents(file) : InEffect(content, form, name) = Precedence(file, form, name)
    BY <1>1, <2>1, ContentInEffect
  <2>. QED
    BY <2>2 DEF form, name
<1>. QED
  <2>. DEFINE form == o[1]
              name == o[2]
  <2>1. /\ \A content \in Contents(Plan[i]) : InEffect(content, form, name) = Precedence(file, form, name)
        /\ Done
    BY <1>2, <1>4 DEF Built
  <2>. HIDE DEF form, name
  <2>2. \A a, b \in Contents(Plan[i]) : InEffect(a, form, name) = InEffect(b, form, name)
    BY <2>1
  <2>3. \E content \in Contents(Plan[i]) :
            InEffect(out[Plan[i]], form, name) = InEffect(content, form, name)
    BY <2>1, <2>2, FileInEffect
  <2>. QED
    BY <1>2, <2>1, <2>3 DEF form, name

-----------------------------------------------------------------------------
(* cassandra-env.sh. *)

\* What variables say of one of them.
Given(env, name) == IF name \in DOMAIN env THEN {env[name]} ELSE {}

LEMMA MergedVariables ==
  ASSUME NEW name
  PROVE  Given(CassandraEnv.env, name) = Given(PodOverrides.env, name) ?? Given(input.cluster.env, name)
<1>1. CassandraEnv.env = PodOverrides.env ++ input.cluster.env
  BY DEF CassandraEnv
<1>. DEFINE mine == PodOverrides.env
            theirs == input.cluster.env
<1>2. \A env : Given(env, name) = Entry(env, name)
  BY DEF Entry, Given
<1>. HIDE DEF mine, theirs, Entry, Given
<1>3. Entry(mine ++ theirs, name) = Entry(mine, name) ?? Entry(theirs, name)
  BY FirstEntry DEF ??
<1>. QED
  BY <1>1, <1>2, <1>3 DEF mine, theirs

LEMMA EnvInEffect ==
  ASSUME input \in Inputs, NEW form, NEW name
  PROVE  /\ form = "export" /\ name \in EnvVariable =>
               InEffect(EnvLines, form, name) =
                   Given(PodOverrides.env, name) ?? Given(input.cluster.env, name)
         /\ form \in {"prefix", "assign", "switch"} =>
               InEffect(EnvLines, form, name) =
                   InEffect(PodOverrides.opts, form, name) ?? InEffect(input.cluster.opts, form, name)
<1>. DEFINE env == CassandraEnv.env
            Line_(n) == [form |-> "export", name |-> n, value |-> env[n]]
            Export(n) == IF n \in DOMAIN env THEN <<Line_(n)>> ELSE <<>>
            In(lines) == InEffect(lines, form, name)
            malloc == Export("MALLOC_ARENA_MAX")
            dump == Export("CASSANDRA_HEAPDUMP_DIR")
            middle == <<Text("cassandra-env.sh"), Text("eol")>>
            opts == CassandraEnv.opts
<1>1. opts = input.cluster.opts \o PodOverrides.opts
  BY DEF CassandraEnv
<1>2. input.cluster.opts \in Seq(Line) /\ PodOverrides.opts \in Seq(Line)
  <2>1. PICK file : file \in ToSet(JvmFile)
    BY DEF ToSet, JvmFile
  <2>. QED
    BY <2>1, GivenLines
<1>3. In(opts) = In(PodOverrides.opts) ?? In(input.cluster.opts)
  <2>. HIDE DEF opts
  <2>. QED
    BY <1>1, <1>2, InEffectOfJoin
<1>4. opts \in Seq(Line)
  BY <1>1, <1>2
<1>5. ASSUME form = "export" PROVE In(opts) = {}
  <2>. HIDE DEF opts
  <2>1. \A l \in ToSet(opts) : l.form # "export"
    <3>1. ToSet(opts) \subseteq Line
      BY <1>4, OwnElements
    <3>. QED
      BY <3>1 DEF Line
  <2>. QED
    BY <1>4, <1>5, <2>1, NothingInEffect
<1>6. ASSUME form # "text" PROVE In(middle) = {}
  <2>1. \A text : Text(text).form = "text"
    BY DEF Text
  <2>. DEFINE a == Text("cassandra-env.sh")
              b == Text("eol")
  <2>2. a.form = "text" /\ b.form = "text"
    BY <2>1
  <2>. HIDE DEF a, b
  <2>3. <<a, b>> \in Seq({a, b}) /\ ToSet(<<a, b>>) = {a, b}
    BY DEF ToSet
  <2>4. In(<<a, b>>) = {}
    BY <1>6, <2>2, <2>3, NothingInEffect
  <2>. QED
    BY <2>4 DEF a, b
<1>7. ASSUME NEW n PROVE /\ Export(n) \in Seq({Line_(n)})
                         /\ In(Export(n)) = IF form = "export" /\ name = n THEN Given(env, n) ELSE {}
  <2>. DEFINE l == Line_(n)
  <2>1. l.form = "export" /\ l.name = n /\ l.value = env[n]
    OBVIOUS
  <2>2. CASE n \in DOMAIN env
    <3>1. Export(n) = <<l>>
      BY <2>2
    <3>. HIDE DEF l, env
    <3>2. About(<<l>>, form, name) = IF form = "export" /\ name = n THEN {1} ELSE {}
      BY <2>1 DEF About
    <3>3. FirstOf(<<l>>, {1}) = {env[n]} /\ LastOf(<<l>>, {1}) = {env[n]} /\ LastOf(<<l>>, {}) = {}
      BY <2>1 DEF FirstOf, LastOf
    <3>4. In(<<l>>) = IF form = "export" /\ name = n THEN {env[n]} ELSE {}
      BY <3>2, <3>3 DEF InEffect
    <3>5. <<l>> \in Seq({l})
      OBVIOUS
    <3>. QED
      BY <2>2, <3>1, <3>4, <3>5 DEF Given, l
  <2>3. CASE n \notin DOMAIN env
    <3>1. Export(n) = <<>>
      BY <2>3
    <3>2. In(<<>>) = {}
      BY DEF InEffect, About, LastOf
    <3>. QED
      BY <2>3, <3>1, <3>2 DEF Given
  <2>. QED
    BY <2>2, <2>3
<1>8. /\ malloc \in Seq({Line_("MALLOC_ARENA_MAX")}) /\ dump \in Seq({Line_("CASSANDRA_HEAPDUMP_DIR")})
      /\ In(malloc) = IF form = "export" /\ name = "MALLOC_ARENA_MAX" THEN Given(env, name) ELSE {}
      /\ In(dump) = IF form = "export" /\ name = "CASSANDRA_HEAPDUMP_DIR" THEN Given(env, name) ELSE {}
  <2>. HIDE DEF Export, Line_
  <2>. QED
    BY <1>7
<1>9. EnvLines = malloc \o dump \o middle \o opts
  BY DEF EnvLines
<1>. DEFINE S == {Line_("MALLOC_ARENA_MAX"), Line_("CASSANDRA_HEAPDUMP_DIR"),
                  Text("cassandra-env.sh"), Text("eol")} \cup Line
<1>10. malloc \in Seq(S) /\ dump \in Seq(S) /\ opts \in Seq(S)
  <2>. HIDE DEF malloc, dump, opts
  <2>. QED
    BY <1>4, <1>8
<1>11. middle \in Seq(S)
  <2>. DEFINE a == Text("cassandra-env.sh")
              b == Text("eol")
  <2>1. a \in S /\ b \in S
    OBVIOUS
  <2>. HIDE DEF a, b, S
  <2>2. <<a, b>> \in Seq(S)
    BY <2>1
  <2>. QED
    BY <2>2 DEF a, b
<1>. HIDE DEF malloc, dump, middle, opts, S
<1>12. In(EnvLines) = In(opts) ?? (In(middle) ?? (In(dump) ?? In(malloc)))
  <2>1. malloc \o dump \in Seq(S) /\ In(malloc \o dump) = In(dump) ?? In(malloc)
    BY <1>10, InEffectOfJoin
  <2>. DEFINE two == malloc \o dump
              three == two \o middle
  <2>2. two \in Seq(S)
    BY <2>1
  <2>. HIDE DEF two
  <2>3. In(three) = In(middle) ?? In(two)
    BY <1>11, <2>2, InEffectOfJoin
  <2>4. three \in Seq(S)
    BY <1>11, <2>2
  <2>. HIDE DEF three
  <2>5. In(three \o opts) = In(opts) ?? In(three)
    BY <1>10, <2>4, InEffectOfJoin
  <2>. QED
    BY <1>9, <2>1, <2>3, <2>5 DEF two, three
<1>13. Given(env, name) = Given(PodOverrides.env, name) ?? Given(input.cluster.env, name)
  BY MergedVariables
<1>. HIDE DEF In, env
<1>14. ASSUME form = "export", name \in EnvVariable PROVE In(EnvLines) = Given(env, name)
  <2>1. In(opts) = {} /\ In(middle) = {}
    BY <1>5, <1>6, <1>14
  <2>2. In(dump) ?? In(malloc) = Given(env, name)
    BY <1>8, <1>14 DEF EnvVariable, ??
  <2>. QED
    BY <1>12, <2>1, <2>2 DEF ??
<1>15. ASSUME form \in {"prefix", "assign", "switch"} PROVE In(EnvLines) = In(opts)
  <2>1. In(middle) = {} /\ In(dump) = {} /\ In(malloc) = {}
    BY <1>6, <1>8, <1>15
  <2>. QED
    BY <1>12, <2>1 DEF ??
<1>. QED
  BY <1>3, <1>13, <1>14, <1>15 DEF In

LEMMA EnvFileInEffect ==
  ASSUME IndInv, Built, NEW form, NEW name
  PROVE  InEffect(out["cassandra-env.sh"], form, name) = InEffect(EnvLines, form, name)
<1>1. 2 \in 1..Len(Plan) /\ Plan[2] = "cassandra-env.sh"
  BY PlanIs, AppendedAre DEF Built
<1>2. Contents(Plan[2]) = {EnvLines}
  BY <1>1, JvmFiles DEF Contents
<1>3. \E content \in Contents(Plan[2]) :
          InEffect(out[Plan[2]], form, name) = InEffect(content, form, name)
  BY <1>1, <1>2, FileInEffect DEF Built
<1>. QED
  BY <1>1, <1>2, <1>3

\* In every file of options of a finished build the pod's settings go over the cluster's, both
\* over additional options, and these over the image's lines and the collector's; in
\* cassandra-env.sh the pod's go over the cluster's.
THEOREM OptionsAreLayered == Spec => []OptionsByPrecedence
<1>1. ASSUME IndInv, Built PROVE OptionsByPrecedence
  <2>1. input \in Inputs
    BY <1>1 DEF IndInv, TypeInv
  <2>2. ASSUME NEW file \in ToSet(JvmFile),
               NEW o \in Names(out[file]) \cup Names(Options(input.cluster, file).additional)
                           \cup Names(Options(PodOverrides, file).additional) \cup Names(Source(file)),
               o[1] # "switch"
        PROVE  InEffect(out[file], o[1], o[2]) = Precedence(file, o[1], o[2])
    BY <1>1, <2>2, FilesByPrecedence
  <2>3. ASSUME NEW name \in EnvVariable
        PROVE  InEffect(out["cassandra-env.sh"], "export", name) =
                  Given(PodOverrides.env, name) ?? Given(input.cluster.env, name)
    BY <1>1, <2>1, EnvFileInEffect, EnvInEffect
  <2>4. ASSUME NEW o \in Names(input.cluster.opts) \cup Names(PodOverrides.opts)
        PROVE  InEffect(out["cassandra-env.sh"], o[1], o[2]) =
                  InEffect(PodOverrides.opts, o[1], o[2]) ?? InEffect(input.cluster.opts, o[1], o[2])
    <3>1. o[1] \in {"prefix", "assign", "switch"}
      <4>1. PICK file : file \in ToSet(JvmFile)
        BY DEF ToSet, JvmFile
      <4>2. input.cluster.opts \in Seq(Line) /\ PodOverrides.opts \in Seq(Line)
        BY <2>1, <4>1, GivenLines
      <4>3. ToSet(input.cluster.opts) \subseteq Line /\ ToSet(PodOverrides.opts) \subseteq Line
        BY <4>2, OwnElements
      <4>. QED
        BY <4>3 DEF Names, Line
    <3>. DEFINE form == o[1]
                name == o[2]
    <3>2. form \in {"prefix", "assign", "switch"}
      BY <3>1
    <3>. HIDE DEF form, name
    <3>3. InEffect(out["cassandra-env.sh"], form, name) =
              InEffect(PodOverrides.opts, form, name) ?? InEffect(input.cluster.opts, form, name)
      BY <1>1, <2>1, <3>2, EnvFileInEffect, EnvInEffect
    <3>. QED
      BY <3>3 DEF form, name
  <2>. QED
    BY <2>2, <2>3, <2>4, Zenon DEF OptionsByPrecedence, Given
<1>2. IndInv => OptionsByPrecedence
  BY <1>1 DEF OptionsByPrecedence
<1>. QED
  BY <1>2, Inductive, PTL
=============================================================================
