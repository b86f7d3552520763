---------------------------- MODULE ReleaseValues ---------------------------
(***************************************************************************)
(* pkg/helmutil/release.go: the values of a Helm release are merged into   *)
(* the chart's values.yaml (MergeValuesFile), a user edits that file, and  *)
(* the release is upgraded with what it then says (UpgradeValues).         *)
(*                                                                         *)
(* A node is a scalar with its tag and value, a mapping or a sequence.  A  *)
(* result that may be an error is a set that is empty if it is one.        *)
(***************************************************************************)
EXTENDS Naturals, Sequences, SequencesExt, TLC

CONSTANTS
    Charts,       \* chart defaults, or NoNode for a values.yaml without a document
    Releases,     \* values set when the release was installed
    Edits,        \* what a user may put at a key
    MaxEdits, MaxOthers   \* edits in all, upgrades by others

ASSUME BoundAssumption == MaxEdits \in Nat /\ MaxOthers \in Nat

VARIABLES
    chart,
    release,      \* the values of the deployed revision, over which an upgrade goes
    latest,       \* those of the last one, which may have failed
    seen,         \* the values MergeValuesFile read
    file,         \* what it wrote, as edited since
    handle,       \* where in it the *os.File is that UpgradeValues will be given
    saved,        \* what the last upgrade sent, while no other followed it
    pc, edits, others

bounds == <<edits, others>>
vars == <<chart, release, latest, seen, file, handle, saved, pc, bounds>>

Mapping(of) == [kind |-> "mapping", of |-> of]
Sequence(of) == [kind |-> "sequence", of |-> of]
Scalar(tag, value) == [kind |-> "scalar", tag |-> tag, value |-> value]
Null == Scalar("null", "null")
NoNode == [kind |-> "none"]

\* The tag yaml gives a value that is written without quotes.
Natural(value) ==
    CASE value \in {"1", "2", "1000000"} -> "int"
      [] value = "1e+06" -> "float"
      [] value = "null" -> "null"
      [] OTHER -> "str"

-----------------------------------------------------------------------------
(* recursiveMerge. *)

\* The Value of a yaml node: empty but for scalars.
Value(node) == IF node.kind = "scalar" THEN node.value ELSE ""

\* Mutant: without looking for the value.
AddedAnyhow(elements, node) == Append(elements, node)

Added(elements, node) ==
    IF \E i \in DOMAIN elements : Value(elements[i]) = Value(node)
    THEN elements ELSE Append(elements, node)

\* Mutant: a value of another type is refused.
MergedStrictly(from, into) == IF from.tag = into.tag THEN {from} ELSE {}

\* The tag stays; a whole float becomes an integer where one was.
MergedScalar(from, into) ==
    {[into EXCEPT !.value = IF from.tag = "float" /\ into.tag = "int" THEN "1000000" ELSE from.value]}

\* Mutant: as Helm does it.
ReplacedSequence(from, into) == from

MergedSequence(from, into) == Sequence(FoldLeft(Added, into.of, from.of))

RECURSIVE Merge(_, _)
Merge(from, into) ==
    IF from.kind # into.kind THEN {}
    ELSE CASE from.kind = "scalar" -> MergedScalar(from, into)
           [] from.kind = "sequence" -> {MergedSequence(from, into)}
           [] from.kind = "mapping" ->
                LET merged == [key \in DOMAIN from.of \cap DOMAIN into.of |-> Merge(from.of[key], into.of[key])]
                IN  IF \E key \in DOMAIN merged : merged[key] = {} THEN {}
                    ELSE {Mapping([key \in DOMAIN merged |-> CHOOSE node \in merged[key] : TRUE]
                                  @@ from.of @@ into.of)}

-----------------------------------------------------------------------------
(* Helm and yaml. *)

\* The values of a release are kept as JSON, where large integers are floats.
RECURSIVE Stored(_)
Stored(node) ==
    CASE node.kind = "mapping" -> Mapping([key \in DOMAIN node.of |-> Stored(node.of[key])])
      [] node.kind = "sequence" -> Sequence([i \in DOMAIN node.of |-> Stored(node.of[i])])
      [] OTHER -> IF node = Scalar("int", "1000000") THEN Scalar("float", "1e+06") ELSE node

\* An upgrade that reuses values: the new ones over the old ones, null to remove one.
RECURSIVE Coalesced(_, _)
Coalesced(new, old) ==
    IF new.kind # "mapping" \/ old.kind # "mapping" THEN new
    ELSE LET removed == {key \in DOMAIN new.of \cap DOMAIN old.of : new.of[key] = Null}
             both == (DOMAIN new.of \cap DOMAIN old.of) \ removed
             all == [key \in both |-> Coalesced(new.of[key], old.of[key])] @@ new.of @@ old.of
         IN  Mapping([key \in DOMAIN all \ removed |-> all[key]])

\* A scalar whose value its tag does not allow is written with the tag and not read again.
RECURSIVE Readable(_)
Readable(node) ==
    CASE node.kind = "mapping" -> \A key \in DOMAIN node.of : Readable(node.of[key])
      [] node.kind = "sequence" -> \A i \in DOMAIN node.of : Readable(node.of[i])
      [] OTHER -> node.tag \in {"str", Natural(node.value)}

-----------------------------------------------------------------------------
(* A session. *)

Init ==
    /\ chart \in Charts /\ release \in Releases /\ latest = release
    /\ seen = NoNode /\ file = NoNode /\ saved = NoNode
    /\ handle = "end"
    /\ pc = "idle" /\ edits = 0 /\ others = 0

\* Reads the values of the last revision.  Nothing of a mapping is merged if a key of it
\* cannot be.  The file is returned as it was written, open at its end.
MergeValuesFile ==
    /\ pc \in {"idle", "upgraded"}
    /\ seen' = latest
    /\ IF Merge(latest, chart) = {}
       THEN pc' = "refused" /\ file' = NoNode
       ELSE pc' = "editing" /\ file' \in Merge(latest, chart)
    /\ handle' = "end"
    /\ UNCHANGED <<chart, release, latest, saved, bounds>>

\* A user sets or deletes a key of the file.
Edit ==
    /\ pc = "editing" /\ edits < MaxEdits
    /\ \E key \in DOMAIN file.of :
          \/ \E node \in Edits : file' = [file EXCEPT !.of[key] = node]
          \/ file' = Mapping([k \in DOMAIN file.of \ {key} |-> file.of[k]])
    /\ edits' = edits + 1
    /\ UNCHANGED <<chart, release, latest, seen, handle, saved, pc, others>>

\* The caller opens the file again, once the user is done.
Reopen ==
    /\ pc = "editing" /\ handle = "end"
    /\ handle' = "start"
    /\ UNCHANGED <<chart, release, latest, seen, file, saved, pc, bounds>>

\* What is read from where the handle is: nothing if it is passed on as it was returned.
Sent == IF handle = "start" THEN file ELSE Mapping(<<>>)

\* Mutant: without ReuseValues.
UpgradeValuesReplacing ==
    /\ pc = "editing" /\ Readable(Sent) /\ pc' = "upgraded"
    /\ release' = Stored(Sent) /\ latest' = release'
    /\ saved' = Sent /\ handle' = "end"
    /\ UNCHANGED <<chart, seen, file, bounds>>

\* The chart's dependencies are there, the file can be read and Helm takes it as a new
\* revision, which it deploys or marks as failed; or no revision comes of it.
UpgradeValues ==
    /\ pc = "editing"
    /\ \/ /\ Readable(Sent)
          /\ latest' = Stored(Coalesced(Sent, release))
          /\ saved' = Sent
          /\ \/ pc' = "upgraded" /\ release' = latest'
             \/ pc' = "failed" /\ UNCHANGED release
       \/ /\ pc' = "failed"
          /\ UNCHANGED <<release, latest, saved>>
    /\ handle' = "end"
    /\ UNCHANGED <<chart, seen, file, bounds>>

\* A file is missing, or Helm has no such release.
CallFails ==
    /\ pc \in {"idle", "upgraded"} /\ pc' = "failed"
    /\ UNCHANGED <<chart, release, latest, seen, file, handle, saved, bounds>>

\* The call is made again after one that failed or was refused.
Again ==
    /\ pc \in {"failed", "refused"} /\ pc' = "idle"
    /\ UNCHANGED <<chart, release, latest, seen, file, handle, saved, bounds>>

\* Somebody else upgrades the release, or fails to.
OtherUpgrade ==
    /\ others < MaxOthers
    /\ others' = others + 1
    /\ latest' \in Releases
    /\ release' \in {release, latest'}
    /\ saved' = NoNode
    /\ UNCHANGED <<chart, seen, file, handle, pc, edits>>

Next == MergeValuesFile \/ CallFails \/ Edit \/ Reopen \/ UpgradeValues \/ Again \/ OtherUpgrade

Spec == Init /\ [][Next]_vars

-----------------------------------------------------------------------------
(* Properties, by the paths of keys to the nodes of a tree. *)

RECURSIVE Paths(_)
Paths(node) ==
    {<<>>} \cup (IF node.kind # "mapping" THEN {}
                 ELSE UNION {{<<key>> \o path : path \in Paths(node.of[key])} : key \in DOMAIN node.of})
At(node, path) == FoldLeft(LAMBDA n, key : n.of[key], node, path)
Leaves(node) == {path \in Paths(node) : At(node, path).kind # "mapping"}

SameValue(m, n) ==
    m.value = n.value \/ {m.value, n.value} = {"1000000", "1e+06"}
Says(node, path, other) == path \in Paths(node) /\ SameValue(At(node, path), other)

Opens == pc # "editing" /\ pc' = "editing"

\* Of a sequence that both set: the chart's elements, then the release's that are new.
\* All mappings count as one: the chart's stay, or else the release's first, and the
\* others are dropped.
JoinsSequences(merged, default, set) ==
    LET Mappings(elements) == SelectSeq(elements, LAMBDA element : element.kind = "mapping")
        first == IF Mappings(set) = <<>> THEN <<>> ELSE <<Head(Mappings(set))>>
    IN  /\ IsPrefix(default, merged) /\ ToSet(merged) \subseteq ToSet(default) \cup ToSet(set)
        /\ \A element \in ToSet(set) :
              element.kind = "scalar" => \E other \in ToSet(merged) : Value(other) = element.value
        /\ Mappings(merged) = IF Mappings(default) = <<>> THEN first ELSE Mappings(default)

\* The file that is opened has what the chart and the release say and nothing else:
\* the release's scalar where it sets one, with the tag of the chart's, the release's
\* sequence where the chart has none, and else the two joined, without the mappings that
\* recursiveMerge takes for equal.
MergedByPath ==
    [][Opens =>
        /\ Leaves(file') \subseteq Leaves(latest) \cup Leaves(chart)
        /\ \A path \in Leaves(latest) :
              LET set == At(latest, path)
                  merged == At(file', path)
              IN  /\ set.kind = "scalar" => Says(file', path, set)
                  /\ set.kind = "sequence" =>
                        IF path \in Leaves(chart) THEN JoinsSequences(merged.of, At(chart, path).of, set.of)
                                                  ELSE merged = set
        /\ \A path \in Leaves(chart) :
              LET default == At(chart, path)
              IN  /\ default.kind = "scalar" => At(file', path).tag = default.tag
                  /\ path \notin Leaves(latest) => At(file', path) = default]_vars

\* The values are refused exactly when the release has a node of another kind than the
\* chart at some path.  (recursiveMerge, which meets the keys in any order)
Clash == \E path \in Paths(latest) \cap Paths(chart) : At(latest, path).kind # At(chart, path).kind
RefusedExactlyForClash ==
    [][(pc' = "refused" /\ pc # "refused" => Clash) /\ (Opens => ~Clash)]_vars

\* What an upgrade sent is what the next session shows, also if it failed once Helm had
\* recorded it: each scalar but null, which removes one; and sequences too of a file that
\* was not edited, so that they do not grow from session to session.  (MergeValuesFile
\* after UpgradeValues)
SavedIsShownAgain ==
    [][Opens /\ saved # NoNode =>
        \A path \in Leaves(saved) :
            LET node == At(saved, path)
            IN  /\ node.kind = "scalar" /\ node.value # "null" => Says(file', path, node)
                /\ node.kind = "sequence" /\ saved \in Merge(seen, chart) => At(file', path) = node]_vars

\* An upgrade leaves alone what it does not send: what others have set meanwhile stays.
\* All it does send goes over what they have set, edited by the user or not, so that it
\* goes back to what it was when the file was made; but a null removes.  (ReuseValues)
UpgradedByPath ==
    [][pc' = "upgraded" /\ pc # "upgraded" =>
        /\ \A path \in Leaves(release) :
              path \notin Paths(Sent) /\ (\A n \in 1..Len(path) : SubSeq(path, 1, n) \notin Leaves(Sent))
                  => path \in Paths(release') /\ At(release', path) = At(release, path)
        /\ \A path \in Leaves(Sent) :
              LET node == At(Sent, path)
              IN  /\ node.kind = "scalar" /\ node # Null => Says(release', path, node)
                  /\ node = Null /\ path \in Paths(release) => path \notin Paths(release')
                  /\ node.kind = "sequence" => path \in Paths(release') /\ At(release', path) = Stored(node)]_vars

-----------------------------------------------------------------------------
(* What comments say and the code does not do. *)

\* MergeValuesFile: "merged default values.yaml (with comments) and helm modified values".
ModifiedValuesAreMerged ==
    [][Opens => \A path \in Leaves(latest) :
        At(latest, path).kind = "sequence" => ToSet(At(latest, path).of) \subseteq ToSet(At(file', path).of)]_vars

\* The file is made to be read again by UpgradeValues.
MergedIsReadable == pc = "editing" /\ edits = 0 => Readable(file)
=============================================================================
