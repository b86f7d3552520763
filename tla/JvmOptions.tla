----------------------------- MODULE JvmOptions -----------------------------
(***************************************************************************)
(* What createServerJVMOptions of pkg/config/builder.go writes to a        *)
(* jvm*-server.options file: the lines of the image's own file, replaced   *)
(* by the options of the cluster and of the pod and by the settings of the *)
(* garbage collector that these choose.                                    *)
(*                                                                         *)
(* A line is one option, of one of three forms: -Xss256k ("prefix"),       *)
(* -XX:Name=value and -Dname=value ("assign"), -XX:+Name and -XX:-Name     *)
(* ("switch").                                                             *)
(***************************************************************************)
EXTENDS Naturals, Sequences, SequencesExt

CONSTANT
    Longer     \* the pairs <<long, short>> of names, or of values, such that long
               \* begins with short and goes on after it

Line == [form : {"prefix", "assign", "switch"}, name : STRING, value : STRING]

Assign(name, value) == [form |-> "assign", name |-> name, value |-> value]
Switch(name, value) == [form |-> "switch", name |-> name, value |-> value]
On(name) == Switch(name, "+")

\* The options of one file: additional-jvm-opts and whether that is a list of
\* strings, garbage_collector ("" when not given), and the others by their key.
NoOptions == [additional |-> <<>>, list |-> TRUE, collector |-> "", settings |-> <<>>]

-----------------------------------------------------------------------------
(* The generated tables: the line an option of this key stands for. *)

OptionsMap(major) ==
    CASE major = 8 -> [max_heap_size |-> [form |-> "prefix", name |-> "-Xmx"],
                       per_thread_stack_size |-> [form |-> "prefix", name |-> "-Xss"]]
      [] major = 11 -> [max_gc_pause_millis |-> [form |-> "assign", name |-> "MaxGCPauseMillis"],
                        survivor_ratio |-> [form |-> "assign", name |-> "SurvivorRatio"]]
      [] OTHER -> <<>>

\* The lines of the settings that the table knows; others are dropped.
Outputs(settings, major) ==
    LET table == OptionsMap(major)
    IN  {[form |-> table[k].form, name |-> table[k].name, value |-> settings[k]] :
            k \in DOMAIN settings \cap DOMAIN table}

-----------------------------------------------------------------------------
(* Garbage collectors. *)

SupportedGCs == {"G1GC", "CMS", "Shenandoah", "ZGC"}

GcOptionMapping ==
    [UseG1GC |-> "G1GC", UseConcMarkSweepGC |-> "CMS", UseCMS |-> "CMS",
     UseShenandoahGC |-> "Shenandoah", UseZGC |-> "ZGC"]
IsGcOption(line) ==
    line.form = "switch" /\ line.value = "+" /\ line.name \in DOMAIN GcOptionMapping

\* strings.Contains, of a line and one of the collectors' options: the line goes on
\* after the name of a switch, or after the value of another option.
BeginsWith(long, short) == long = short \/ <<long, short>> \in Longer
HasOption(line, opt) ==
    /\ line.form = opt.form
    /\ IF opt.form = "switch" THEN line.value = opt.value /\ BeginsWith(line.name, opt.name)
                              ELSE line.name = opt.name /\ BeginsWith(line.value, opt.value)

\* The collectors whose option a line contains.
Mentioned(line) ==
    {GcOptionMapping[name] : name \in {n \in DOMAIN GcOptionMapping : HasOption(line, On(n))}}

\* No name begins with those of two collectors.
ASSUME NamesAssumption ==
    \A name \in DOMAIN GcOptionMapping \cup {pair[1] : pair \in Longer} :
        \A a, b \in Mentioned(On(name)) : a = b

\* Some of their settings: one both have, one of each alone, and one whose name begins
\* with that of a collector's option.
DefaultG1Settings ==
    <<On("UseG1GC"), Assign("MaxTenuringThreshold", "1"), Assign("MaxGCPauseMillis", "300")>>
DefaultCMSSettings ==
    <<On("UseConcMarkSweepGC"), Assign("SurvivorRatio", "8"), Assign("MaxTenuringThreshold", "1"),
      On("UseCMSInitiatingOccupancyOnly")>>

GetGCOptions(collector, major) ==
    CASE collector = "G1GC" -> IF major < 17 THEN DefaultG1Settings ELSE <<On("UseG1GC")>>
      [] collector = "CMS" -> IF major < 17 THEN DefaultCMSSettings ELSE <<>>
      [] collector = "Shenandoah" -> <<On("UseShenandoahGC")>>
      [] collector = "ZGC" -> IF major < 17 THEN <<On("UnlockExperimentalVMOptions"), On("UseZGC")>>
                                            ELSE <<On("UseZGC")>>
      [] OTHER -> <<>>
GetAllGCOptions(major) == UNION {ToSet(GetGCOptions(gc, major)) : gc \in SupportedGCs}

\* The collector of the first option that contains a collector's.
DetectGarbageCollector(opts) ==
    LET mentioning == {i \in DOMAIN opts : Mentioned(opts[i]) # {}}
    IN  IF mentioning = {} THEN "" ELSE CHOOSE gc \in Mentioned(opts[Min(mentioning)]) : TRUE

\* The lines at these places, in their order.
Those(lines, places) ==
    LET those[i \in 0..Len(lines)] ==
            IF i = 0 THEN <<>> ELSE those[i - 1] \o IF i \in places THEN <<lines[i]>> ELSE <<>>
    IN  those[Len(lines)]

\* Only the collectors' options themselves are taken out here.
FilterGCOptions(opts) == Those(opts, {i \in DOMAIN opts : ~IsGcOption(opts[i])})

-----------------------------------------------------------------------------
(* createServerJVMOptions. *)

\* The pod's options over the cluster's.  Additional ones are joined; a collector
\* the pod names is not looked at.
Merged(base, override) ==
    LET Setting(k) == IF k \in DOMAIN override.settings THEN override.settings[k] ELSE base.settings[k]
    IN  [additional |-> base.additional \o override.additional,
         collector  |-> base.collector,
         settings   |-> [k \in DOMAIN base.settings \cup DOMAIN override.settings |-> Setting(k)]]

\* Ends with an error where both give additional-jvm-opts and else with a panic.
Malformed(base, override) == ~base.list \/ ~override.list

Detects(options) == options.collector = "" /\ DetectGarbageCollector(options.additional) # ""
Collector(options) ==
    IF Detects(options) THEN DetectGarbageCollector(options.additional) ELSE options.collector

\* The lines the user's options make, settings in any order: they are kept in a map.
TargetOptions(options, major) ==
    {(IF Detects(options) THEN FilterGCOptions(options.additional) ELSE options.additional) \o lines :
        lines \in SetToSeqs(Outputs(options.settings, major))}

\* Mutant: the settings of other collectors stay.
KeepsCollectors(source, options, major) == source \o GetGCOptions(Collector(options), major)

\* A line that contains a default of some collector.
Repeats(line, major) == \E opt \in GetAllGCOptions(major) : HasOption(line, opt)

\* The file's lines, those that repeat a default replaced by the chosen collector's.
CurrentOptions(source, options, major) ==
    IF Collector(options) = "" THEN source
    ELSE Those(source, {i \in DOMAIN source : ~Repeats(source[i], major)})
         \o GetGCOptions(Collector(options), major)

\* Mutant: lines are compared with their values.
EqualLine(target, line) == target = line

\* A line that is there already keeps another of the same option out.
Suppresses(target, line) ==
    \/ target = line
    \/ /\ target.form = line.form /\ line.form \in {"prefix", "assign"}
       /\ target.name = line.name

\* The target's lines, and of the others those that no line before them keeps out.
Kept(target, lines) ==
    LET Before(i) == ToSet(target) \cup ToSet(SubSeq(lines, 1, i - 1))
    IN  target \o Those(lines, {i \in DOMAIN lines : ~\E t \in Before(i) : Suppresses(t, lines[i])})

ServerJVMOptions(source, base, override, major) ==
    LET options == Merged(base, override)
        current == {CurrentOptions(source, options, major)}
    IN  {Kept(target, lines) : target \in TargetOptions(options, major), lines \in current}
=============================================================================
